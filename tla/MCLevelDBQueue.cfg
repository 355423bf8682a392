SPECIFICATION FairSpec
CONSTANTS
    Caller = {worker, retry}
    NoCaller = NoCaller
    Message = {m1, m2}
    NoMsg = NoMsg
    DiskFaults = TRUE
    FirstIndex = 0
    NoIndex = NoIndex
    MaxIndex = 3
INVARIANTS
    TypeOK
    ReadsStayTrue
    NobodyIsStuck
PROPERTIES
    ImplementsQueue
    CallsReturn
