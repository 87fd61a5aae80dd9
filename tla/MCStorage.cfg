SPECIFICATION Spec
CONSTANTS
    Object = {o1, o2}
    Grace = 1
    Slack = 1
    HistoryTtl = 1
    FileTtl = 1
    LastUpload = 2
    MaxTime = 4
    Faults = {"crash", "lost"}
    Asked = {}
    None = None
    o1 = o1
    o2 = o2
INVARIANT OperationalObjectKept
INVARIANT ReplayWindowKept
INVARIANT NothingForgotten
SYMMETRY AnyObject
CHECK_DEADLOCK FALSE
