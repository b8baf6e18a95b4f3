CONSTANTS
    NumWorkers = 1
    NumShards = 1
    QueueCap = 1
SPECIFICATION FairSpec
CHECK_DEADLOCK FALSE
INVARIANTS
    ReadyMeansUp
    SoleConsumer
PROPERTY SignalStops
