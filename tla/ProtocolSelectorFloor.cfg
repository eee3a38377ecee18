CONSTANTS
    r1 = r1
    r2 = r2
    h1 = h1
    Requests <- MCRequests
    Hosts <- MCHosts
    Policies = {"AUTO"}
    Built = {"H2", "H1"}
    MaxFailures = 2
    MaxStates = 2
SPECIFICATION Spec
INVARIANTS
    HTTP11IsTheFloor
CHECK_DEADLOCK FALSE
