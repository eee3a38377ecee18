CONSTANTS
    NoCallback = NoCallback
    None = None
    WakeAfter <- MCWakeAfter
    MaxRequests = 2
    Keys = {k1, k2}
    MaxBody = 1
    Timeouts = {1}
    Slack = 1
    MaxParts = 2
    MaxSpent = 0
    MaxHttp1Requests = 3
    MaxUpload = 1
    MaxData = 2
    MaxFrames = 2
SPECIFICATION EnginesSpec
INVARIANTS
    NoLostTimer
    NoStuckSend
    OutcomeIsEarned
    OwnWholeResponse
    WholeResponse
    ContextIsAlive
PROPERTIES
    RequestReturns
    ImplementsReuse1
    ImplementsReuse2
    Http2Returns
CHECK_DEADLOCK FALSE
