\* Two workers, two attempts and a replay of an upload and a reindex, across a
\* switch of the index.  Bounds reached: there may be nothing left to do.
SPECIFICATION FairSpec
CONSTANTS
    Contents = {a}
    Workers = {w1, w2}
    Readers = {r}
    Generations = {g1, g2}
    MaxTries = 2
    MaxDocs = 1
    MaxVersions = 1
    MaxJobs = 2
    MaxReplays = 1
    MaxSwitches = 1
PROPERTIES StaleTokenChangesNothing JobsSettle DeletionsComplete
CHECK_DEADLOCK FALSE
