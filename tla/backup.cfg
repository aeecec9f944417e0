SPECIFICATION FairSpec
CONSTANTS
  NoObj = NoObj
  Lag = TRUE
  Served = FALSE
  MaxUid = 1
  MaxCommits = 1
  MaxOutages = 1
  MaxFaults = 1
  MaxErrors = 1
INVARIANTS OwnSnapshotIsFresh CompletedIsCovered
PROPERTIES BackupFinishes
CHECK_DEADLOCK FALSE
