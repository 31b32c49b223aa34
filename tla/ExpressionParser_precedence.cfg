\* Three operators in any order.
SPECIFICATION ExpressionSpec
CONSTANTS
    Lexemes = {"one", "plus", "mul", "gt", "eof"}
    MaxSource = 7
    MaxDepth = 0
INVARIANTS
    PrecedenceAlways
CHECK_DEADLOCK FALSE
