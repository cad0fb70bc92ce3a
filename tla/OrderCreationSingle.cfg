\* One process, as docker-compose.yml starts it.
SPECIFICATION FairSpec
CONSTANTS
    Procs = {p1}
    Requests = {r1, r2, r3}
    Earlier = {}
    k1 = k1
    k2 = k2
    s1 = s1
    Kinds <- MCSlotKinds
    NoKey = NoKey
    NoSlot = NoSlot
    None = None
    SlotCap = 1
    Radix = 10
    Rollover = 1000
    MaxCrashes = 1
INVARIANTS
    TypeOK
    SlotCapHolds
    NoNumberCollision
PROPERTIES
    AnsweredUnlessFrozen
\* Frozen processes and finished requests both stop.
CHECK_DEADLOCK FALSE
