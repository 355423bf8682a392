SPECIFICATION Spec
CONSTANTS
    Message = {m1, m2}
    NoMsg = NoMsg
    QueueType = "leveldb"
    MayFallBack = FALSE
    DiskFaults = FALSE
    FirstIndex = 8
    MaxIndex = 20
    Target = {m1, m2}
    ChanCap = 2
    MaxAttempts = 3
    MayCrash = FALSE
    MaxStarts = 1
PROPERTIES
    OncePerPass
CHECK_DEADLOCK FALSE
