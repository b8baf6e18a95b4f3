CONSTANTS
    s1 = s1
    s2 = s2
    c1 = c1
    c2 = c2
    Slots <- MCSlots
    Clients <- MCClients
    NoSlot = NoSlot
    NoOrder = NoOrder
    MAX_PRICE = 5
    QuotePrices <- MCPrices
    MaxQty = 2
    Word = 16
    SPREAD_MARGIN = 2
    Threshold = 3
    MaxCancels = 4
    QUOTE_SIZE = 2
    MAX_ORDER_QTY = 2
    MAX_POSITION = 2
    MSG_RATE_LIMIT = 2
    MAX_LIVE_ORDERS = 3
    QueueCap = 1
    BatchSize = 2
    BidPrices = {0, 3}
    AskPrices = {5, 6}
    MaxIds = 3
SPECIFICATION FirmSpec
SYMMETRY Symmetric
INVARIANTS
    HotMatchesCold
    BookSeen
    PricesAsMeant
    InFlightExact
    FillsAttributed
    PositionConfirmed
CHECK_DEADLOCK FALSE
