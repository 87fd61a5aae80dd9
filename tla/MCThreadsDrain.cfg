SPECIFICATION FairSpec
CONSTANTS
    Task = {t1, t2}
    t1 = t1
    t2 = t2
    Workers = 2
    Slots = 2
    MaxClaims = 1
    Faults = {"settle", "stop", "lapse"}
INVARIANT NothingStranded
PROPERTY Drains
CHECK_DEADLOCK FALSE
