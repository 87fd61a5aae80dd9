SPECIFICATION FairSpec
CONSTANTS
    Object = {o1}
    Grace = 1
    Slack = 1
    HistoryTtl = 1
    FileTtl = 1
    LastUpload = 2
    MaxTime = 4
    Faults = {"crash", "lost", "delay", "resend"}
    Asked = {"retain"}
    None = None
    o1 = o1
INVARIANT RevokedBeforeDeleted
PROPERTY RetentionMonotone
PROPERTY GarbageCollected
CHECK_DEADLOCK FALSE
