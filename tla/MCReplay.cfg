\* A failure after the append and before the completion of the batch.
SPECIFICATION Spec
CONSTANTS
    Events <- MCEvents
    BadEvents <- MCBadEvents
    MaxSequence = 2
    MaxOffset = 3
    MaxCrashes = 1
    QueueLimit = 2
    FlushTimeout = 1
INVARIANT AppendIdempotent
CHECK_DEADLOCK FALSE
