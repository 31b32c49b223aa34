\* Every program of at most 4 statements over two names, blocks nested twice.
SPECIFICATION Spec
CONSTANTS
    Names <- MCNames
    DataTypes = {"INT64", "VOID"}
    Statements <- MCAny
    Expressions <- MCExpressions
    Conditions <- MCConditions
    MaxDepth = 2
INVARIANTS
    AssignedBeforeLoad
    JumpsTwiceOnlyInLoopBody
    EveryBlockConnected
CHECK_DEADLOCK FALSE
