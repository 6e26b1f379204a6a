CONSTANTS
  BackupProcs = {w1, w2}
  BackupSets = {1, 2}
  Windows = 1
  ApiWriters = {a1}
  BackupLosses = 0
  ManualBackups = 1
  BackupFaults = 0
  StoredObjects = {o1}
SPECIFICATION BackupSpec
INVARIANT BackupsSucceed
CHECK_DEADLOCK FALSE
