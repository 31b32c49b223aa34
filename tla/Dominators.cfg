\* All graphs of four blocks whose entry has no predecessors.
SPECIFICATION MCSpec
CONSTANTS
    BlockCount = 4
    Targets = {2, 3, 4}
    MaxFrontier = 8
INVARIANTS
    IDomIsClosest
    FrontierIsExact
PROPERTIES
    Terminates
CHECK_DEADLOCK FALSE
