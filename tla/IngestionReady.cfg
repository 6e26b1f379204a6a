SPECIFICATION Spec
CONSTANTS
    Contents = {a}
    Workers = {w1}
    Readers = {r}
    Generations = {g1}
    MaxTries = 1
    MaxDocs = 1
    MaxVersions = 1
    MaxJobs = 2
    MaxReplays = 0
    MaxSwitches = 0
INVARIANT
    ReadyIsPublished
CHECK_DEADLOCK FALSE
