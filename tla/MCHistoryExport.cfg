SPECIFICATION Spec
CONSTANTS
    m1 = m1
    Message = {m1}
    NoMsg = NoMsg
    Half = 4
    Second = 2
    MaxTime = 2
    ChatOf <- Chats
    Date <- Dates
    UserName <- UserNames
    FirstName <- FirstNames
    Request = {r1, r2}
    Params <- Asked
    Faults = FALSE
    NoFile = NoFile
SYMMETRY Symmetry
INVARIANTS
    ExportsOwnRecords
CHECK_DEADLOCK FALSE
