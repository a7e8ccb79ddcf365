SPECIFICATION FairSpec
CONSTANTS
    Calls = {c1, c2, c3}
    Keys = {k1, k2}
    NoCall = NoCall
INVARIANTS
    NoLeak
PROPERTIES
    ImplementsFifoLock
    EveryCallEnds
CHECK_DEADLOCK FALSE
