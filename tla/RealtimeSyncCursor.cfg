SPECIFICATION Spec
CONSTANTS
    a = a
    b = b
    r1 = r1
    r2 = r2
    fa = fa
    fb = fb
    Client = {a, b}
    Record = {r1, r2}
    Field = {fa, fb}
    Writes <- OwnRecords
    MaxWrites <- OneWrite
    MaxEvents = 2
INVARIANTS
    CursorNeverSkips
CHECK_DEADLOCK FALSE
