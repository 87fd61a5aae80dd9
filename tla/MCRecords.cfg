SPECIFICATION Spec
CONSTANTS
    Task = {t1, t2}
    t1 = t1
    t2 = t2
    Jobs = {"archive", "delete"}
    Ops = {"replay", "purge", "clear", "drop", "cut"}
    HistoryTtl = 1
    CleanAge = 0
    ArchiveAge = 0
    MaxTime = 1
    None = None
INVARIANT TypeOK
INVARIANT RecordWhileMessage
INVARIANT RecordExact
INVARIANT RetentionStartsAtEnd
PROPERTY ArchivedBeforeDropped
SYMMETRY AnyTask
CHECK_DEADLOCK FALSE
