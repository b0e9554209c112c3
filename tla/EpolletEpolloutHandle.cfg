CONSTANTS
    max_pkt_size = 4
    U64 = 8
    U32 = 8
    RcvCap = 4
    SndCap = 2
    SndLowat = 2
    MaxBytes = 9
    Windows = {3, 9}
SPECIFICATION FairSpec
INVARIANTS StreamSafe NoLostEdges
PROPERTIES ServiceSpec EchoedIfEnough
CHECK_DEADLOCK FALSE
