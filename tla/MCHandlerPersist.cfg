SPECIFICATION Spec
CONSTANTS
    Message = {m1, m2}
    NoMsg = NoMsg
    QueueType = "leveldb"
    MayFallBack = FALSE
    DiskFaults = FALSE
    FirstIndex = 8
    MaxIndex = 20
    Target = {m1, m2}
    ChanCap = 1
    MaxAttempts = 2
    MayCrash = FALSE
    MaxStarts = 2
PROPERTIES
    PersistedSurvives
CHECK_DEADLOCK FALSE
