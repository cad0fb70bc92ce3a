CONSTANTS
    p1 = p1
    p2 = p2
    p3 = p3
    t1 = t1
    t2 = t2
    h1 = h1
    h2 = h2
    s1 = s1
    Products = {p1, p2, p3}
    Tabs = {t1, t2}
    QtyMax = 2
    MaxItems = 2
    MaxBackups = 1
    Phones = {h1, h2}
    Procs = {s1}
    Window = 2
    MaxRequests = 1
    CleanupInterval = 2
    MaxPresses = 2
    MaxNow = 2
SYMMETRY Symmetry
SPECIFICATION CheckoutSpec
INVARIANTS
    CheckoutTypeOK
    CartCanBeOrdered
    LimiterIsExact
    OrderedOnce
CHECK_DEADLOCK FALSE
