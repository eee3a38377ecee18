CONSTANTS
    t1 = t1
    t2 = t2
    t3 = t3
    NoCall = NoCall
    Calls <- MCCalls
    MaxPtr = 7
SPECIFICATION FairSpec
INVARIANTS
    IInv
    NoUseAfterFree
    NoLeak
    TokensNeverReused
PROPERTIES
    DestroyedIsFreed
    ImplementsLifetime
CHECK_DEADLOCK FALSE
