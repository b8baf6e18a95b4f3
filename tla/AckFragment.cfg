CONSTANTS
    ReportLen = 2
    NUM_SHARDS = 2
    AckCap = 2
    OutCap = 4
    SockCap = 3
    MaxReports = 2
    MaxClients = 2
SPECIFICATION AckSpec
INVARIANT ReceivedIsApplied
