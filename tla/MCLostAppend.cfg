SPECIFICATION Spec
CONSTANTS
    r1 = r1
    r2 = r2
    Runs = {r1}
    Stream = stream
    Partitions = {1, 2}
    All = All
    Targets <- AllTargets
    UsesOptimize = {}
    Timeout <- EqualTimeouts
    Ahead <- MCAhead
    MaxClock = 0
    MaxTxns = 3
    MaxFiles = 2
    MaxOverwrites = 1
    NoLock = NoLock
    NoTxn = NoTxn
    small_file_threshold_bytes = 2
    small_file_count_threshold = 0
    partition_file_count_threshold = 1
    partition_age_skip = 0
    target_file_size_bytes = 2
PROPERTIES
    OtherPartitionsUnaffected
CHECK_DEADLOCK FALSE
