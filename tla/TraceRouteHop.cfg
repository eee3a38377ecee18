CONSTANTS
    Distance = 2
    MaxHops = 2
    ProbesPerHop = 1
SPECIFICATION Spec
INVARIANTS
    AddrIsOfItsHop
CHECK_DEADLOCK FALSE
