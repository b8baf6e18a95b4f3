CONSTANTS
    QUOTE_SIZE = 2
    MAX_ORDER_QTY = 2
    MAX_POSITION = 2
    MSG_RATE_LIMIT = 2
    MAX_LIVE_ORDERS = 3
    QueueCap = 1
    BatchSize = 2
    BidPrices = {0, 3}
    AskPrices = {5, 6}
    MaxIds = 3
SPECIFICATION OrdersSpec
INVARIANT OldQuoteCancelled
CHECK_DEADLOCK FALSE
