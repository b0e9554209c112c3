CONSTANTS
    max_pkt_size = 4
    U64 = 8
    U32 = 8
    RcvCap = 4
    SndCap = 2
    SndLowat = 2
    MaxBytes = 9
SPECIFICATION FairSpec
INVARIANTS RingInv FlowControl NeverDropsClient
PROPERTIES ServiceSpec FlowProgress
CHECK_DEADLOCK FALSE
