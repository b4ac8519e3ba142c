SPECIFICATION Spec
CONSTANTS
    a = a
    b = b
    c = c
    d = d
    p1 = p1
    p2 = p2
    o1 = o1
    Node = {n1}
    NoParent = NoParent
    Value <- MCValue
    Batch <- MCBatch
    Target = {}
    Leaf = {a, b, c}
    Reservation = {p1, p2, o1}
    MaxTime = 2
    MaxConcurrentReservations = 1
    ReservationTimeout = 9
    SpentMarkerThreshold = 9
    Backend = "sql"
    Payment = {p1}
    Optimizer = {}
    Refresher = {f1, f2}
    Claimer = {}
    TargetOf <- ChangeTargets
    Genesis = {c}
    Inbound = {}
    Unreported = {}
    Mortal = {}
    MaxWaits = 1
INVARIANTS
    FinalizedStaysOut
CHECK_DEADLOCK FALSE
