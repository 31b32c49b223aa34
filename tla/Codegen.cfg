\* Two registers for four variables: eviction.
SPECIFICATION Spec
CONSTANTS
    Vars = {v1, v2, v3, v4}
    NoVar = NoVar
    registerCount = 2
    SlotReach = 3
    ArgLists <- MCNoLists
INVARIANTS
    RegisterFile
    LruHoldsOwners
    SlotsDistinct
    ValueKept
    OperandsTogether
PROPERTIES
    PopFreesAll
