SPECIFICATION Spec
CONSTANTS
    Message = {m1, m2, m3}
    NoMsg = NoMsg
    QueueType = "leveldb"
    MayFallBack = TRUE
    DiskFaults = TRUE
    FirstIndex = 8
    MaxIndex = 20
    Target = {m1, m2}
    ChanCap = 1
    MaxAttempts = 3
    MayCrash = TRUE
    MaxStarts = 2
INVARIANTS
    TypeOK
    OnePlace
    AttemptsBounded
    AckedKept
    KeysUpToIndex
PROPERTIES
    FateIsFinal
    ImplementsDelivery
    AcceptedStays
    OldestFirstWithinWidth
    OncePerPassInMemory
CHECK_DEADLOCK FALSE
