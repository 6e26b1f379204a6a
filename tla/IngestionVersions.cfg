\* Two documents competing for the same contents: upload, replacement, restore,
\* reindex, retention, readers and deletion.  Bounds reached: there may be
\* nothing left to do.
SPECIFICATION Spec
SYMMETRY Symmetry
CONSTANTS
    Contents = {a, b}
    Workers = {w1}
    Readers = {r}
    Generations = {g1}
    MaxTries = 1
    MaxDocs = 2
    MaxVersions = 3
    MaxJobs = 3
    MaxReplays = 0
    MaxSwitches = 0
INVARIANTS
    OneOperation
    ServesItsOwn
    InUseIsKept
PROPERTIES
    ActiveMovesForward
CHECK_DEADLOCK FALSE
