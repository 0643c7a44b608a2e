\* The producer and the job from an empty topic. The producer's signal ends it
\* and every bound of the model ends in a state without successor.
SPECIFICATION Spec
CONSTANTS
    Events <- MCEvents
    BadEvents <- MCBadEvents
    MaxSequence = 2
    MaxOffset = 2
    MaxCrashes = 2
    QueueLimit = 1
    FlushTimeout = 1
INVARIANTS
    TypeOK
    LossOnlyAtLimits
    AtLeastOnce
    CopiesOnlyByReplay
    MetricsBacked
    EveryBatchLogged
PROPERTIES
    EventsArrive
CHECK_DEADLOCK FALSE
