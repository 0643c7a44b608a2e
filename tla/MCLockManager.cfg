SPECIFICATION FairSpec
CONSTANTS
    w1 = w1
    w2 = w2
    w3 = w3
    Managers = {w1, w3}
    Partitions = {p1}
    Timeout <- MCTimeout
    Ahead <- MCAhead
    MaxClock = 5
    NoLock = NoLock
INVARIANTS
    TypeOK
    LeaseInForce
    LeaseExclusion
PROPERTIES
    UncontestedNeverStolen
    OrphanFreed
\* Every manager may have raised and the clock be at its bound.
CHECK_DEADLOCK FALSE
