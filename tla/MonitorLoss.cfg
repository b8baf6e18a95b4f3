CONSTANTS
    s1 = s1
    s2 = s2
    c1 = c1
    c2 = c2
    Slots <- TwoSlots
    Clients <- TwoClients
    NoSlot = NoSlot
    NoOrder = NoOrder
    MAX_PRICE = 3
    QuotePrices <- TwoPrices
    MaxQty = 2
SPECIFICATION BoundedSpec
PROPERTIES
    MonitorTrue
    PhantomsLeave
