\* Two tasks that share an identity, a concurrency and a supersede key.
SPECIFICATION FairSpec
CONSTANTS
    None = None
    k1 = k1
    c1 = c1
    s1 = s1
    t1 = t1
    t2 = t2
    w1 = w1
    Task = {t1, t2}
    Worker = {w1}
    Key = {k1}
    Conc = {c1}
    Sup = {s1}
    Version <- MixedVersions
    Token = {1, 2, 3, 4, 5, 6, 7, 8}
    Submitted <- SharedSpecs
    MaxAttempts = 1
    MaxTime = 1
    ConcurrencyRetry = 1
    Batch = 1
    Faults = {"crash"}
    Admin = {"purge", "replay"}
    ReuseLiveId = FALSE
INVARIANTS
    OperationalFlagExact
    IdentityHeld
    NewerIsGreater
PROPERTIES
    NoStaleStart
    Drains
