CONSTANTS
    Words = 3
    Retries = 2
    MaxUpdates = 4
    NumQueues = 2
    RejectQueues = {2}
    QueueCap = 1
    MAX_LOG_ENTRIES = 2
    MaxCopies = 2
    MaxRuns = 2
SPECIFICATION FeedsSpec
INVARIANTS
    NeverTorn
    CommittedExact
    TailExact
    LossCounted
PROPERTY CopyIsTailed
