SPECIFICATION FairSpec
CONSTANTS
    Tasks = 3
    Queues = 2
    Home <- HomeInTurn
    Limit = 1
    ScanLimit = 2
    Batch = 2
    Containers = TRUE
    Insertions = FALSE
    MaxTime = 3
    Events = {"late", "legacy", "leave", "return", "forget"}
INVARIANT TypeOK
INVARIANT Complete
INVARIANT Once
INVARIANT NoneInserted
PROPERTY Ends
CHECK_DEADLOCK FALSE
