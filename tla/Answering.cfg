SPECIFICATION AnsweringSpec
CONSTANTS
    Gens = {g1}
    Workers = {w1, w2}
    MaxRunningPerUser = 1
    MaxPhysical = 2
    MaxScopeRetries = 1
    MaxRounds = 1
    MaxScans = 1
    MaxFence = 3
    SkipLocked = TRUE
    BudgetEfforts = 2
    BudgetMaxRag <- MaxRag
    BudgetMaxTokens <- MaxTokens
    BudgetMaxCost <- MaxCost
    BudgetMaxRounds <- BudgetRounds
    BudgetPrice = 1
    BudgetEstimates = {2, 3}
    BudgetActual = {1, 3}
    BudgetExecutions = 2
    PriceCalls = {"c1", "c2"}
    PriceTimes = 3
    PriceVersions = 3
    PriceDeadline = 3
    PriceGranularity = 2
    PriceMinimum = 2
    PriceQuantities = {0, 3}
    SessionClients = {r1, r2}
    SessionIds = {1, 2}
    MaxRotations <- SessionRotations
    MaxTransitions = 2
    LoginMaxAttempts = 1
SYMMETRY AnsweringSymmetry
INVARIANTS OneLiveExecution EndIsShown SpendingKept SessionsSafe
PROPERTIES NoAnswerAfterStop StaleWorkerDisturbsNothing ClosedStaysClosed
CHECK_DEADLOCK FALSE
