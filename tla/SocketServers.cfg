CONSTANTS
    Sends <- MCSends
    NFds = 3
    BufSize = 2
    SndCap = 1
    MaxConns = 2
    MaxFds = 3
    FdRange = 3
    MaxEntries = 2
SPECIFICATION MCSpec
INVARIANTS EchoIntegrity EventsKnowConnections DeathCauses
PROPERTIES ClientsServed
CHECK_DEADLOCK FALSE
