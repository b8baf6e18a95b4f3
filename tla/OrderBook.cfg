CONSTANTS
    s1 = s1
    s2 = s2
    s3 = s3
    c1 = c1
    c2 = c2
    Slots <- ThreeSlots
    Clients <- TwoClients
    NoSlot = NoSlot
    NoOrder = NoOrder
    MAX_PRICE = 7
    QuotePrices <- ThreePrices
    MaxQty = 2
    W = 2
SYMMETRY SlotsAndClients
SPECIFICATION ObservedSpec
INVARIANTS
    BookInv
    SharesConserved
    ScansExact
PROPERTIES
    FinalReportTrue
    ImplementsBookLife
    MatchProgresses
    PriceTimePriority
