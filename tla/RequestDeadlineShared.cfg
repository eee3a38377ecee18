CONSTANTS
    Timeout = 12
    MaxRetries = 3
    Delay <- MCDelayFromZero
    MaxOversleep = 2
SPECIFICATION Spec
INVARIANTS
    SharedDeadline
CHECK_DEADLOCK FALSE
