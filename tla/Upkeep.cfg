SPECIFICATION UpkeepSpec
CONSTANTS
    Calls = {c1, c2, c3}
    NoCall = NoCall
    Threshold = 2
    OpenTicks = 2
    Stall = 1
    BackupProcs = {w1, w2}
    BackupSets = {1, 2}
    Windows = 1
    ApiWriters = {a1}
    BackupLosses = 1
    ManualBackups = 1
    BackupFaults = 1
    StoredObjects = {o1}
    RestoreBackups = {1, 2}
    RestoreIds = {1, 2}
    RestoreOperators = {op1, op2}
    DerivedStages = {3, 4}
    RebuildResources = {d1, d2}
    RestoreObjects = {k1, k2}
    KeepLast = 1
    RestoreFaults = 2
    ShadowRuns = {1, 2}
    ShadowWorkers = {w1, w2}
    EvaluationOps = {o1}
    ShadowAttempts = 2
    GoldenVersions = 1
    CalibrationWindows = {1, 2}
    AbPairs = {1, 2}
    AbConfigs = {c1}
    CalibrationOps = {o1, o2}
    MinVotes = 2
    Avatars = {k1, k2}
    PersonalDocs = {d1}
    ArchiveLosses = 1
INVARIANTS ProbeExclusive BackupSafe UpkeepKept
PROPERTIES ProbeDecides TombstoneIsLast UpkeepEnds
CHECK_DEADLOCK FALSE
