SPECIFICATION Spec
CONSTANTS
    Message = {m1}
    NoMsg = NoMsg
    Goroutine = {worker, retry}
    Worker = worker
    DingTalk = dingtalk
    Feishu = feishu
    b1 = b1
    h1 = h1
    BarkKeys <- OneKey
    ShortKeys = {b1}
    HarmonyUsers <- OneUser
    DingTalkOn = TRUE
    FeishuOn = TRUE
    MaxAttempts = 2
    MaxStarts = 2
PROPERTIES
    DoneIsDelivered
CHECK_DEADLOCK FALSE
