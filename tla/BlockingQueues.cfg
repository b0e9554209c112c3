CONSTANTS
    NProd = 2
    NCons = 2
    Items = 2
    QSize = 2
    TotalLen = 2
    CountLimit = 3
    MaxSpurious = 1
    MaxPut = 4
SPECIFICATION QueueSpec
INVARIANTS QueueExact
PROPERTIES ProgramsEnd
CHECK_DEADLOCK FALSE
