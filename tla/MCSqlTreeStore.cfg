SPECIFICATION CarefulSpec
CONSTANTS
    l1 = l1
    l2 = l2
    Leaf = {l1, l2}
    Node = {n1}
    NoParent = NoParent
    Reservation = {r1, r2}
    Value <- MCValue
    MaxTime = 1
    MaxConcurrentReservations = 1
    Batch <- MCBatch
    Target <- MCTarget
    ReservationTimeout = 0
    SpentMarkerThreshold = 1
SYMMETRY MCSymmetry
PROPERTIES
    ImplementsTreeStore
CHECK_DEADLOCK FALSE
