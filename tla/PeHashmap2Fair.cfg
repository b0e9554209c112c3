CONSTANTS
    Threads = {t1, t2}
    Keys = {k1, k2}
    Values = {v1}
    Entries = {e1, e2}
    bucket = bucket
    Buckets = {bucket}
    index <- OneBucket
    NULL = NULL
SPECIFICATION FairSpec
PROPERTIES RcuProgress
CHECK_DEADLOCK FALSE
