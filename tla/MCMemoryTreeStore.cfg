SPECIFICATION MemSpec
CONSTANTS
    l1 = l1
    l2 = l2
    Leaf = {l1, l2}
    Node = {n1}
    NoParent = NoParent
    Reservation = {r1}
    Value <- MCValue
    MaxTime = 1
    MaxConcurrentReservations = 2
    Batch <- MCBatch
    Target <- MCTarget
INVARIANTS
    PermitsConserved
    ChainsHaveLeaves
    PendingBelowReserved
CHECK_DEADLOCK FALSE
