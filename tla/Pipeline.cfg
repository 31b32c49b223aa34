\* Two variables, two blocks, often nested, and two assignments or an early return.
SPECIFICATION Spec
CONSTANTS
    Names <- MCNames
    DataTypes = {"INT64"}
    Statements <- MCTwoVariables
    Expressions <- MCExpressions
    Conditions <- MCConditions
    MaxDepth = 2
    MaxFrontier = 10
INVARIANTS
    CreatedIsAnalysable
    UseListsConsistent
    MeaningKept
    PhisAtJoinsAfterFirst
    SsaForm
    PhiOperandsMatchEdges
    GraphIsCfg
    NamesResolve
