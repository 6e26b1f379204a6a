SPECIFICATION DeliverySpec
CONSTANTS
    e1 = e1
    w1 = w1
    w2 = w2
    Events = {e1}
    Users = {1}
    Workers = {w1, w2}
    Audience <- ToAll
    RoleEvents = {e1}
    DocumentEvents = {e1}
    MaxAttempts = 2
    MaxOnline = 1
    MaxReplays = 1
    MaxMoves = 0
    SubmissionIds = {s1, s2}
    Submitters = {"u1"}
    SubmissionFiles = {"f"}
    CleanupLimit = 1
    StorageFaults = 1
    Streams = {"r1", "r2"}
    Clients = {"c1"}
    MaxEvents = 2
    MaxClicks = 1
INVARIANTS EveryRecipientAccounted DeletedIsRedacted SubmissionsSafe
PROPERTIES DueSettles AnswersArrive CleanupEnds
CHECK_DEADLOCK FALSE
