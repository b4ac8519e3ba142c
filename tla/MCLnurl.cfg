SPECIFICATION Spec
CONSTANTS
    a = a
    b = b
    nobody = nobody
    noname = noname
    h1 = h1
    h2 = h2
    i1 = i1
    d1 = d1
    s1 = s1
    s2 = s2
    Pubkeys = {1, 2}
    Names = {a, b}
    Nobody = nobody
    NoName = noname
    Registered <- MCRegistered
    Statements <- MCStatements
    Handlers = {h1, h2}
    Accept = 1
    Window = 3
    MaxPerWindow = 1
    MaxTime = 4
    Invoices = {i1}
    Domains = {d1}
    DomainOf <- MCDomainOf
    Servers = {s1, s2}
    Notices = {h1, h2}
    MaxPerDomain = 1
    MaxFaults = 2
INVARIANTS
    TablesOK
    WithinLimit
    OnlyNamesDeadlock
    AcceptedOnce
PROPERTIES
    NamesStayTheirs
    ClaimedOnceWhileFresh
    SuccessStays
    PaidIsDelivered
CHECK_DEADLOCK FALSE
