CONSTANTS
    c1 = c1
    c2 = c2
    h1 = h1
    j1 = j1
    NoJob = NoJob
    NoAnswer = NoAnswer
    Pending = Pending
    Callers <- MCCallers
    Jobs <- MCJobs
    Hosts <- MCHosts
    Ttl = 1
    StaleTtl = 0
    Timeout = 1
    MaxEntries = 1
    MaxLookups = 1
    MaxEpoch = 0
    MaxTime = 4
    MaxLate = 0
SPECIFICATION Spec
SYMMETRY MCSymmetry
INVARIANTS
    TtlCache
