SPECIFICATION Spec
CONSTANTS
    Task = {t1, t2}
    t1 = t1
    t2 = t2
    Workers = 2
    Slots = 2
    MaxClaims = 2
    Faults = {"poll", "decode", "exit", "shutdown", "signal"}
INVARIANT PermitsConserved
INVARIANT ClaimRegistered
INVARIANT UsedAttemptKept
INVARIANT HeartbeatCoversClaims
SYMMETRY AnyTask
CHECK_DEADLOCK FALSE
