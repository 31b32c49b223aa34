\* Any text, as far as it is read: an expression of three operators with one
\* level of parentheses, or a function with blocks in each other.
SPECIFICATION Spec
CONSTANTS
    Lexemes = {"one", "a", "mul", "gt", "minus", "lt", "open", "close", "semi", "eof"}
    MaxSource = 7
    MaxDepth = 1
    Entries = {"expression", "block", "function", "module"}
    StatementLexemes = {"one", "a", "plus", "open", "close", "semi", "assign", "curlyOpen", "curlyClose", "int64", "if", "while", "return", "bad", "eof"}
    MaxStatementSource = 1
    MaxText = 12
    BlockRoom = 2
INVARIANTS
    TextKept
    PrecedenceIfRisesAtEnd
    ProgramKept
    FailureReported
    DumpVisitsAll
PROPERTIES
    ParsingEnds
