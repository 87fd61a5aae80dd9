SPECIFICATION FairSpec
CONSTANTS
    Task = {t1}
    t1 = t1
    Jobs = {"clean", "archive", "repair"}
    Ops = {"lose", "slow"}
    HistoryTtl = 1
    CleanAge = 0
    ArchiveAge = 0
    MaxTime = 1
    None = None
INVARIANT RecordRestored
PROPERTY HistoryEnds
CHECK_DEADLOCK FALSE
