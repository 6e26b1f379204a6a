SPECIFICATION Spec
CHECK_DEADLOCK FALSE
CONSTANTS
    e1 = e1
    w1 = w1
    w2 = w2
    Events = {e1}
    Users = {1}
    Workers = {w1, w2}
    Audience <- ToAll
    RoleEvents = {e1}
    DocumentEvents = {e1}
    MaxAttempts = 1
    MaxOnline = 1
    MaxReplays = 0
    MaxMoves = 0
INVARIANT AckedIsRead
