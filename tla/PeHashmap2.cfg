CONSTANTS
    Threads = {t1, t2, t3}
    Keys = {k1, k2}
    Values = {v1, v2}
    Entries = {e1, e2, e3}
    bucket = bucket
    Buckets = {bucket}
    index <- OneBucket
    NULL = NULL
SPECIFICATION Spec
SYMMETRY Symmetry
INVARIANTS NoUseAfterFree MapIntact
PROPERTIES MapSpec
CHECK_DEADLOCK FALSE
