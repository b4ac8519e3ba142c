SPECIFICATION FairSpec
CONSTANTS
    a = a
    b = b
    r1 = r1
    r2 = r2
    fa = fa
    fb = fb
    Client = {a, b}
    Record = {r1}
    Field = {fa, fb}
    Writes <- SharedRecord
    MaxWrites <- MCMaxWrites
    MaxEvents = 3
INVARIANTS
    ClientsOK
    NoRegress
    AppliedOrQueued
PROPERTIES
    PushKeepsOtherFields
    Converges
CHECK_DEADLOCK FALSE
