CONSTANTS
    Fds = {5, 6, 7}
    Addrs = {a1, a2, a3}
    NoPtr = NoPtr
    MaxClients = 5
SPECIFICATION FairSpec
INVARIANTS EventsLive InterestIsHeap
PROPERTIES ClientsTended
CHECK_DEADLOCK FALSE
