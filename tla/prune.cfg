SPECIFICATION Spec
CONSTANTS
  NoObj = NoObj
  Specs <- KeepSpecs
  Runs = {2, 3}
  MaxTime = 3
  Lag = FALSE
  ListLag = TRUE
  Outcomes = {"Completed"}
  MaxEdits = 1
  MaxDrops = 1
  MaxFaults = 1
INVARIANTS TypeOK ExtraBackupsBounded PruneKeepsNewest
CHECK_DEADLOCK FALSE
