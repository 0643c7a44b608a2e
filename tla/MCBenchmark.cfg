SPECIFICATION BenchSpec
CONSTANTS
    Writers = {stream, run1, run2}
    Partitions = {p1, p2}
    MaxTxns = 3
    MaxFiles = 2
    MaxOverwrites = 1
    MaxRuns = 2
    Times = {0}
    NoTxn = NoTxn
SYMMETRY Symmetry
INVARIANTS
    TypeOK
    RowsExactlyOnce
    AutoIsBefore
    ReductionOnlyBackwards
\* All transactions of the bound may have been begun and ended.
CHECK_DEADLOCK FALSE
