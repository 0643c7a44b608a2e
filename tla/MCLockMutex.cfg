SPECIFICATION Spec
CONSTANTS
    w1 = w1
    w2 = w2
    w3 = w3
    Managers = {w1, w2}
    Partitions = {p1}
    Timeout <- MCTimeout
    Ahead <- MCAhead
    MaxClock = 1
    NoLock = NoLock
INVARIANTS
    MutualExclusion
CHECK_DEADLOCK FALSE
