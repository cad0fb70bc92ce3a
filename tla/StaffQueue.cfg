CONSTANTS
    n1 = n1
    u1 = u1
    u2 = u2
    w1 = w1
    w2 = w2
    Notices = {n1}
    Staff = {u1, u2}
    Workers = {w1, w2}
    MaxRetries = 2
    MaxFaults = 2
SPECIFICATION FairSpec
INVARIANTS
    TypeOK
    NobodyIsForgotten
    AttemptsBounded
    SavedIdsAreKnown
PROPERTY EveryEntrySettles
CHECK_DEADLOCK FALSE
