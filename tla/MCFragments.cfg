SPECIFICATION Spec
CONSTANTS
    r1 = r1
    r2 = r2
    Runs = {r1, r2}
    Stream = stream
    Partitions = {1}
    All = All
    Targets <- AllTargets
    UsesOptimize = {}
    Timeout <- EqualTimeouts
    Ahead <- MCAhead
    MaxClock = 0
    MaxTxns = 4
    MaxFiles = 4
    MaxOverwrites = 0
    NoLock = NoLock
    NoTxn = NoTxn
    small_file_threshold_bytes = 2
    small_file_count_threshold = 0
    partition_file_count_threshold = 1
    partition_age_skip = 0
    target_file_size_bytes = 2
INVARIANTS
    RewriteNeverFragments
CHECK_DEADLOCK FALSE
