CONSTANTS
    a = a
    b = b
    t1 = t1
    t2 = t2
    NumWorkers = 2
    SliceCapacity = 2
    QueueCapacity = 2
    RecycleCapacity = 2
    Clients <- TwoClients
    Tokens <- TwoTokens
    NoSlot = NoSlot
    NoTask = NoTask
SYMMETRY ClientsAndTokens
SPECIFICATION Spec
INVARIANTS
    SlotInOnePlace
    CancelHitsOwner
    FreeingNeverSpins
