CONSTANTS
    c1 = c1
    c2 = c2
    c3 = c3
    o1 = o1
    o2 = o2
    o3 = o3
    Callers <- MCCallers
    Origins <- MCOrigins
    MaxOrigins = 2
    MaxLeaseId = 3
    MaxEpoch = 1
    MaxTime = 1
    MaxHandler = 1
SPECIFICATION Spec
SYMMETRY MCSymmetry
INVARIANTS
    LeaseAccounting
    LeaseIntact
CHECK_DEADLOCK FALSE
