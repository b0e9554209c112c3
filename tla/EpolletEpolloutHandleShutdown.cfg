CONSTANTS
    max_pkt_size = 4
    U64 = 8
    U32 = 8
    RcvCap = 4
    SndCap = 2
    SndLowat = 2
    MaxBytes = 9
    Windows = {3}
SPECIFICATION Spec
INVARIANTS ReadsUntilUnreadable
CHECK_DEADLOCK FALSE
