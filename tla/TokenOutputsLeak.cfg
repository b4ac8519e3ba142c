SPECIFICATION TOSpec
CONSTANTS
    o1 = o1
    n1 = n1
    p = p
    q = q
    r = r
    Held = {o1}
    Fresh = {n1}
    Payers = {p, q}
    Refreshers = {r}
PROPERTIES
    SwapReservationEnds
CHECK_DEADLOCK FALSE
