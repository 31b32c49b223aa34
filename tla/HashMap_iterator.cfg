\* An iteration over a map whose first bucket was never used.
SPECIFICATION Spec
CONSTANTS
    Keys <- MCKeys
    Hash <- MCHash
    Entries = {e1}
    NULL = NULL
    HM_INITIAL_BUCKET_SIZE = 2
INVARIANTS
    IteratorHandlesUninitialized
CHECK_DEADLOCK FALSE
