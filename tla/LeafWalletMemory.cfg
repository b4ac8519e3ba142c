SPECIFICATION Spec
CONSTANTS
    a = a
    b = b
    c = c
    d = d
    p1 = p1
    p2 = p2
    o1 = o1
    Node = {n1}
    NoParent = NoParent
    Value <- MCValue
    Batch <- MCBatch
    Target = {}
    Leaf = {a, b, c}
    Reservation = {p1, o1}
    MaxTime = 2
    MaxConcurrentReservations = 1
    ReservationTimeout = 9
    SpentMarkerThreshold = 9
    Backend = "memory"
    Payment = {p1}
    Optimizer = {o1}
    Refresher = {f1}
    Claimer = {}
    TargetOf <- ExactTargets
    Genesis = {a, b}
    Inbound = {}
    Unreported = {a}
    Mortal = {}
    MaxWaits = 1
INVARIANTS
    FinalizedStaysOut
    NoOrphanReservation
    CallersOK
    BalanceNotInflated
PROPERTIES
    RefreshKeepsNewLeaves
CHECK_DEADLOCK FALSE
