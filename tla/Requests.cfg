SPECIFICATION RequestsSpec
CONSTANTS
    e1 = e1
    e2 = e2
    w1 = w1
    w2 = w2
    Events = {e1, e2}
    Users = {1}
    Workers = {w1, w2}
    Audience <- ToAll
    RoleEvents = {e1}
    DocumentEvents = {}
    MaxAttempts = 1
    MaxOnline = 1
    MaxReplays = 0
    MaxMoves = 1
    Departments = {"p1", "p2"}
    Members = {"u1"}
    DirectoryKeys = {"i1", "i2"}
    DirectoryEdits = 1
    DirectoryWork = 1
    ReleaseGens = {"g1"}
    ReleaseIds = {1, 2}
    GateVersions = 2
    GateInstants = 2
    MaxManifest = 1
    Scores = {1, 2, 4}
    GateShapes <- Shapes
    Suites <- OneSuite
    FirstGen = "g1"
    Gens = {"g1", "g2", "g3"}
    Pubs = {1}
    DocOf <- OneDocument
    Readers = {"r1"}
    MaxRevision = 2
    GcFaults = 1
    Components <- TwoComponents
    Builds = {"b1", "b2"}
    Creators = {"c1"}
    GraphWorkers = {"w1"}
    MaxSource = 2
    GraphFaults = 1
    Gated = FALSE
    QuotaTxs = {"t1", "t2"}
    QuotaPublications = {1}
    QuotaPages = 1
    QuotaSources = {1, 2}
    QuotaRequests = 1
    QuotaMonths = 2
    Scopes = {"s1", "s2"}
    Ticks = {"t1"}
    MaxReading = 2
    MaxCheckpoints = 2
    TickCrashes = 1
    Clients = {"c1", "c2"}
    Conversations = {"t1"}
    Keys = {"k1", "k2"}
    Bodies = {1}
    AutoTalk = "auto"
    MaxGenerations = 2
    RunningLimit = 1
    AskLimit = 1
    MaxProfile = 2
    Chunks <- ChunkShapes
    ScopeSpaces = {"a", "b"}
    MaxHits = 5
    TopK = 3
    ItemsPerSpace = 2
    TokensPerSpace = 4
    TokensCap = 6
    Inputs <- Documents
    TokenLimit = 3
    WarmupCalls = 2
    MaxCalls = 2
    Concurrency = 2
    ParseAttempts = 2
INVARIANTS DirectorySafe ReleasesSafe RequestsKept IndexKept CountsKept
PROPERTIES NotesKept SwitchesAreWhole CountsEnd
CHECK_DEADLOCK FALSE
