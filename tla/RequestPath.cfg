CONSTANTS
    r1 = r1
    r2 = r2
    r3 = r3
    k1 = k1
    k2 = k2
    h1 = h1
    NoKey = NoKey
    NoRequest = NoRequest
    Requests <- MCRequests
    ShareKeys <- MCKeys
    MaxFlights = 1
    Timeout = 12
    MaxRetries = 3
    Delay <- MCDelayFromZero
    MaxOversleep = 2
    Attempts <- MCAttempts
    Hosts <- MCHosts
    Policies = {"AUTO", "PREFER_HTTP_2", "HTTP_2_ONLY"}
    Built = {"H2", "H1"}
    MaxFailures = 2
    MaxStates = 1
SPECIFICATION PathSpec
INVARIANTS
    NoDuplicateOperation
    FlightsAreLive
    BoundedEffort
    OpensOnConsecutiveFailures
    NoDuplicateWrite
PROPERTIES
    EveryRequestReturns
