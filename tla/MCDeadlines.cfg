\* A task with a start deadline and a lease that is retried, with purge, requeue and pruning.
SPECIFICATION FairSpec
CONSTANTS
    None = None
    k1 = k1
    c1 = c1
    s1 = s1
    t1 = t1
    w1 = w1
    w2 = w2
    Task = {t1}
    Worker = {w1, w2}
    Key = {k1}
    Conc = {c1}
    Sup = {s1}
    Version = {1, 2}
    Token = {1, 2, 3, 4, 5, 6, 7, 8}
    Submitted <- DeadlineSpecs
    MaxAttempts = 2
    MaxTime = 1
    ConcurrencyRetry = 1
    Batch = 2
    Faults = {"lost", "crash", "stop"}
    Admin = {"purge", "requeue", "prune"}
    ReuseLiveId = FALSE
INVARIANTS
    RetryWaitExact
    DeadlineIndexExact
PROPERTIES
    Drains
