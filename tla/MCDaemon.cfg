\* A lease longer than two intervals and no multiple of them.
SPECIFICATION Spec
CONSTANTS
    Interval = 3
    LockTimeout = 7
INVARIANTS
    TypeOK
    BlockedByDeadLock
PROPERTIES
    CyclesSpaced
    LockComesBack
    StopsWhenAsked
CHECK_DEADLOCK FALSE
