CONSTANTS
    Keys = {k1}
    None = None
    Timeouts = {1, 2}
    MaxBody = 1
    Slack = 1
    MaxParts = 2
    MaxRequests = 1
    MaxSpent = 3
SPECIFICATION Spec
INVARIANTS
    BlocksUntilTimeout
CHECK_DEADLOCK FALSE
