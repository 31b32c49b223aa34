\* One variable and up to four statements after its declaration.
SPECIFICATION Spec
CONSTANTS
    Names = {"a"}
    DataTypes = {"INT64"}
    Statements <- MCOneVariable
    Expressions <- MCExpressions
    Conditions <- MCConditions
    MaxDepth = 2
    MaxFrontier = 10
INVARIANTS
    AlwaysMeaningKept
