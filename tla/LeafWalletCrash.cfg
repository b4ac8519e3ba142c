SPECIFICATION FairSpec
CONSTANTS
    a = a
    b = b
    c = c
    d = d
    p1 = p1
    p2 = p2
    o1 = o1
    Node = {n1}
    NoParent = NoParent
    Value <- MCValue
    Batch <- MCBatch
    Target = {}
    Leaf = {a, b, c}
    Reservation = {p1, p2, o1}
    MaxTime = 2
    MaxConcurrentReservations = 1
    ReservationTimeout = 0
    SpentMarkerThreshold = 1
    Backend = "sql"
    Payment = {}
    Optimizer = {o1}
    Refresher = {f1}
    Claimer = {c1}
    TargetOf <- CrashTargets
    Genesis = {c}
    Inbound = {}
    Unreported = {}
    Mortal = {o1}
    MaxWaits = 1
PROPERTIES
    ReservationsEnd
    PoolConverges
CHECK_DEADLOCK FALSE
