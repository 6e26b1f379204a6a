SPECIFICATION Spec
CONSTANTS
    Gens = {g1}
    Workers = {w1}
    MaxRunningPerUser = 1
    MaxPhysical = 2
    MaxScopeRetries = 1
    MaxRounds = 1
    MaxScans = 1
    MaxFence = 3
    SkipLocked = TRUE
INVARIANTS
    NeverStranded
CHECK_DEADLOCK FALSE
