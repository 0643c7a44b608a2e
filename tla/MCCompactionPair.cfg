SPECIFICATION Spec
CONSTANTS
    r1 = r1
    r2 = r2
    Runs = {r1, r2}
    Stream = stream
    Partitions = {1}
    All = All
    Targets <- AllTargets
    UsesOptimize = {r2}
    Timeout <- EqualTimeouts
    Ahead <- MCAhead
    MaxClock = 1
    MaxTxns = 4
    MaxFiles = 3
    MaxOverwrites = 1
    NoLock = NoLock
    NoTxn = NoTxn
    small_file_threshold_bytes = 2
    small_file_count_threshold = 1
    partition_file_count_threshold = 1
    partition_age_skip = 1
    target_file_size_bytes = 2
INVARIANTS
    TypeOK
    RowsExactlyOnce
    YoungFilesOnlyIfUnseen
    WorkIsLoggedOnce
    FragmentsOnlyFromDeadFiles
PROPERTIES
    ReadersLoseOnlyOverwritten
    DoomedOnlyWithoutLease
\* Both runs may be over with the clock and the transactions at their bounds.
CHECK_DEADLOCK FALSE
