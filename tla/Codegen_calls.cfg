\* Seven registers, so that calls can be made, and three variables.
SPECIFICATION Spec
CONSTANTS
    Vars = {v1, v2, v3}
    NoVar = NoVar
    registerCount = 7
    SlotReach = 16
    ArgLists <- MCArgLists
INVARIANTS
    CallArgumentsInPlace
