\* One writer is enough: a rewrite leaves the files it replaced behind.
SPECIFICATION BenchSpec
CONSTANTS
    Writers = {run1}
    Partitions = {p1}
    MaxTxns = 2
    MaxFiles = 1
    MaxOverwrites = 0
    MaxRuns = 1
    Times = {0}
    NoTxn = NoTxn
INVARIANT EachRowReadOnce
CHECK_DEADLOCK FALSE
