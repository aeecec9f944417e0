SPECIFICATION FairSpec
CONSTANTS
  NoObj = NoObj
  Specs <- MixedSpecs
  Runs = {1, 2}
  MaxTime = 2
  Lag = TRUE
  ListLag = FALSE
  Outcomes = {"Completed"}
  MaxEdits = 1
  MaxDrops = 0
  MaxFaults = 1
PROPERTIES EveryRunBackedUp
CHECK_DEADLOCK FALSE
