SPECIFICATION FairSpec
CONSTANTS
    Service = service
    Instance = {service, manual}
    Tool = tool
    Other = {tool}
    Inode = {f1, f2}
    None = None
    Config <- Configs
    MaxEvents = 4
    NumRecords = 3
    Listed = {1, 2}
    BatchSize = 2
    OldRecords <- Histories
    Absent = Absent
    Broken = Broken
INVARIANTS
    TypeOK
    OneProcessOnQueue
    FallbackOnlyByFault
    ImageIsCurrent
    CompleteButForErrors
PROPERTIES
    ServiceComesBack
    DownForAReason
CHECK_DEADLOCK FALSE
