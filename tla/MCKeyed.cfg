\* Three tasks of one concurrency key; leases may expire under a worker.
SPECIFICATION Spec
CONSTANTS
    None = None
    k1 = k1
    c1 = c1
    s1 = s1
    t1 = t1
    t2 = t2
    t3 = t3
    w1 = w1
    w2 = w2
    Task = {t1, t2, t3}
    Worker = {w1, w2}
    Key = {k1}
    Conc = {c1}
    Sup = {s1}
    Version = {1, 2}
    Token = {1, 2, 3, 4, 5, 6, 7, 8}
    Submitted <- KeyedSpecs
    MaxAttempts = 1
    MaxTime = 0
    ConcurrencyRetry = 1
    Batch = 1
    Faults = {"stall"}
    Admin = {}
    ReuseLiveId = FALSE
SYMMETRY Symmetry
INVARIANTS
    KeyedConcurrency
    MessageMatchesOutcome
