CONSTANTS
    s1 = s1
    s2 = s2
    c1 = c1
    c2 = c2
    Slots <- MCSlots
    Clients <- MCClients
    NoSlot = NoSlot
    NoOrder = NoOrder
    MAX_PRICE = 5
    QuotePrices <- MCPrices
    MaxQty = 2
    Word = 16
    SPREAD_MARGIN = 2
    Threshold = 3
    MaxCancels = 4
SPECIFICATION SpecFirm
SYMMETRY Symmetric
INVARIANT ImbalanceInRange
CHECK_DEADLOCK FALSE
