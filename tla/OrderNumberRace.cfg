\* Two processes, as during a blue/green switch.
SPECIFICATION Spec
CONSTANTS
    Procs = {p1, p2}
    Requests = {r1, r2, r3}
    Earlier = {e1}
    k1 = k1
    k2 = k2
    s1 = s1
    Kinds <- MCKinds
    NoKey = NoKey
    NoSlot = NoSlot
    None = None
    SlotCap = 2
    Radix = 10
    Rollover = 1000
    MaxCrashes = 1
INVARIANTS
    NoNumberCollision
CHECK_DEADLOCK FALSE
