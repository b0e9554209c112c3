CONSTANTS
    MaxFiring = 1
    NoResource = NoResource
    Tasks = {t1, t2}
    Socks <- MCSocks
    Params <- MCParams
    NULL = NULL
    MaxActive = 1
    MaxDepth = 1
    CalledSets <- MCCalledSets
    NR_THREADS = 2
    Procs = {p1, p2}
    MapKeys = {k1, k2}
    MapValues = {v1, v2}
    Objects = {o1, o2, o3}
    MapBuckets = {b1}
    bucketOf <- MCBucketOf
    None = None
    Workers = {w1, w2}
    WorkerKeys = {k1, k2}
    WorkerValues = {v1}
    Nil = None
    Users = {u1, u2}
    QueuePages = 3
    MaxMaps = 2
SPECIFICATION Spec
INVARIANTS UnloadSafe ShowsRightSockets ThreadsAccounted HashmapSound MappingsSound
PROPERTIES CallsReturn ReturnMatchesEntry LockedMapSpec
CHECK_DEADLOCK FALSE
