\* Five keys, an array of two buckets that is doubled twice.
SPECIFICATION Spec
CONSTANTS
    Keys <- MCKeys
    Hash <- MCHash
    Entries = {e1, e2}
    NULL = NULL
    HM_INITIAL_BUCKET_SIZE = 2
INVARIANTS
    WellFormed
PROPERTIES
    IsAMap
    IterationEnds
CHECK_DEADLOCK FALSE
