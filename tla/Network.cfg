CONSTANTS
    a = a
    b = b
    NoItem = NoItem
    Items <- TwoItems
    Capacity = 4
    N = 4
    Word = 8
    ReportLen = 2
    NUM_SHARDS = 2
    AckCap = 2
    OutCap = 4
    SockCap = 3
    MaxReports = 4
    MaxClients = 2
    SizeO = 3
    SizeX = 2
    BufCap = 5
    InSockCap = 4
    MaxMsgs = 3
    NumShards = 2
    FeedCap = 2
    BATCH_SIZE = 3
SPECIFICATION NetworkSpec
INVARIANTS
    NoSlotRace
    StreamUnbroken
    AckToOwner
    BackedUpIsArmed
    InStep
    FeedInOrder
PROPERTIES
    ImplementsFifo
    FirmRingIsFifo
    OldestIsTaken
    BacklogClears
    AllHandled
    BatchLeaves
CHECK_DEADLOCK FALSE
