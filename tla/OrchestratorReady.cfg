CONSTANTS
    NumWorkers = 1
    NumShards = 1
    QueueCap = 1
SPECIFICATION Spec
INVARIANT ReadyReturnsTrue
CHECK_DEADLOCK FALSE
