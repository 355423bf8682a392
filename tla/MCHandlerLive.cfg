SPECIFICATION FairSpec
CONSTANTS
    Message = {m1, m2, m3}
    NoMsg = NoMsg
    QueueType = "leveldb"
    MayFallBack = FALSE
    DiskFaults = FALSE
    FirstIndex = 8
    MaxIndex = 20
    Target = {m1, m2, m3}
    ChanCap = 1
    MaxAttempts = 2
    MayCrash = FALSE
    MaxStarts = 1
PROPERTIES
    EventuallySettled
CHECK_DEADLOCK FALSE
