\* Nested blocks: the documented shape of a block does not hold.
SPECIFICATION Spec
CONSTANTS
    Names <- MCNames
    DataTypes = {"INT64"}
    Statements <- MCTwoBlocks
    Expressions <- MCExpressions
    Conditions <- MCConditions
    MaxDepth = 2
INVARIANTS
    JumpsOnlyAtEnd
CHECK_DEADLOCK FALSE
