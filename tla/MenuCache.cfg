CONSTANTS
    r1 = r1
    r2 = r2
    r3 = r3
    p1 = p1
    p2 = p2
    Requests = {r1, r2}
    Procs = {p1, p2}
    MaxVersion = 2
    MaxRev = 2
    MaxCrashes = 1
SPECIFICATION FairSpec
INVARIANTS
    TypeOK
    ServedSinceVersion
    LocksHaveAHolder
PROPERTY EveryRequestAnswered
CHECK_DEADLOCK FALSE
