SPECIFICATION FairSpec
CONSTANTS
    Message = {m1, m2}
    NoMsg = NoMsg
    Goroutine = {worker, retry}
    Worker = worker
    DingTalk = dingtalk
    Feishu = feishu
    b1 = b1
    h1 = h1
    BarkKeys <- OneKey
    ShortKeys = {b1}
    HarmonyUsers <- OneUser
    DingTalkOn = TRUE
    FeishuOn = TRUE
    MaxAttempts = 2
    MaxStarts = 2
INVARIANTS
    TypeOK
    AllOrNone
PROPERTIES
    AgainOnlyIfUnsaved
    TimedCallsReturn
CHECK_DEADLOCK FALSE
