SPECIFICATION Spec
CONSTANTS
  NoObj = NoObj
  Lag = FALSE
  Served = TRUE
  MaxUid = 2
  MaxCommits = 1
  MaxOutages = 1
  MaxFaults = 0
  MaxErrors = 0
INVARIANTS CompletedOwnsSnapshot
CHECK_DEADLOCK FALSE
