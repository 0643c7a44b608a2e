SPECIFICATION FairSpec
CONSTANTS
    Runs = {run1}
    Stream = stream
    Partitions = {1, 2}
    All = All
    Targets <- AnyTarget
    UsesOptimize = {run1}
    Timeout <- EqualTimeouts
    Ahead <- MCAhead
    MaxClock = 1
    MaxTxns = 3
    MaxFiles = 3
    MaxOverwrites = 1
    NoLock = NoLock
    NoTxn = NoTxn
    small_file_threshold_bytes = 2
    small_file_count_threshold = 0
    partition_file_count_threshold = 1
    partition_age_skip = 1
    target_file_size_bytes = 2
INVARIANTS
    ExitCodeHonest
    SummaryAddsUp
    WorkIsReported
    FilesReducedOnlyByFailure
    RunKeepsForecast
PROPERTIES
    RunTakesForecast
    RunAdvances
    RunTerminates
\* The run may be over with the clock and the transactions at their bounds.
CHECK_DEADLOCK FALSE
