CONSTANTS
    ReqLen = 2
    RespLen = 3
    MaxPkt = 5
    Window = 2
    MaxSent = 6
    BufUnits = 3
    NConn = 2
    PktSizes = {1, 2}
    SyncSizes = {2, 5}
    UpCap = 2
    DownCap = 2
    Duration = 2
    Requests = 3
    RingSize = 2
    BlockSize = 1
    MaxPkts = 4
    MaxFirst = 2
SPECIFICATION MCSpec
INVARIANTS AnswersExact InterestExact RespDeathCauses ClientsJudgeRight
PROPERTIES ServedAndEnded
CHECK_DEADLOCK FALSE
