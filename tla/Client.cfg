CONSTANTS
    t1 = t1
    t2 = t2
    t3 = t3
    r1 = r1
    r2 = r2
    r3 = r3
    r4 = r4
    r5 = r5
    Threads <- MCThreads
    Qualities <- MCQualities
    Unknown = "unknown"
    MaxTime = 1
    MaxEpoch = 1
    MaxSamples = 2
    MaxCalls = 3
    Requests <- MCRequests
    MaxQueued = 2
    OtherLabels = {"body", "deadline"}
    MaxLabels = 2
    MaxEvents = 2
    MaxReports = 3
SPECIFICATION ClientSpec
INVARIANTS
    RequestsKeepTheirNetwork
    CallbackHeardTheLast
    ReturnedIsPublished
    LossOnlyOfTheOldest
    FailuresAddUp
PROPERTIES
    CallsReturn
    DestructorReturns
