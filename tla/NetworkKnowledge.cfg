CONSTANTS
    c1 = c1
    c2 = c2
    h1 = h1
    j1 = j1
    a1 = a1
    a2 = a2
    NoJob = NoJob
    NoAnswer = NoAnswer
    Pending = Pending
    Callers <- MCCallers
    Jobs <- MCJobs
    Hosts <- MCHosts
    Ttl = 0
    StaleTtl = 1
    Timeout = 2
    MaxEntries = 1
    MaxLookups = 1
    MaxEpoch = 1
    MaxTime = 4
    MaxLate = 1
    Addresses <- MCAddresses
    NoHealth = NoHealth
    Rtts <- MCRtts
    MaxHealth = 2
    MaxReports = 5
    Samples <- MCSamples
    RecoverySamples = 13
    MaxSamples = 15
    MaxTrouble = 2
    Distance = 2
    MaxHops = 2
    ProbesPerHop = 2
SPECIFICATION KnowledgeSpec
SYMMETRY MCSymmetry
INVARIANTS
    SlotsAccounted
    AnswersAreOfThisNetwork
    AnswersInTime
    NoInheritedFailures
    BadAddressesYield
    RecoversInTime
    TraceIsSound
PROPERTIES
    FailsOnlyEmptyHanded
    GoodNeedsARun
