SPECIFICATION Spec
CONSTANTS
    p1 = p1
    usd = usd
    none = none
    s1 = s1
    c1 = c1
    c2 = c2
    c3 = c3
    Payments = {p1}
    Convertible = {p1}
    Tokens = {usd}
    NoToken = none
    DefaultToken = usd
    Senders = {s1}
    MaxEvents = 2
    MaxOfAKind = 1
    Callers = {c1, c2, c3}
    MaxDropped = 1
    MaxShutdowns = 1
INVARIANTS
    TasksOK
    NoLostWakeup
    SnapshotIsOwn
    AnswerIsFresh
PROPERTIES
    QueueDrains
    CallersAnswered
CHECK_DEADLOCK FALSE
