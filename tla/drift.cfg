SPECIFICATION FairSpec
CONSTANTS
  Specs <- PolicySpecs
  Passwords = {p1}
  Lagging <- SlowDb
  Deletions = {}
  NoObj = NoObj
  MaxUid = 1
  MaxEdits = 1
  MaxFaults = 0
  MaxPodFailures = 1
  MaxDrift = 1
PROPERTIES EventuallyServes
CHECK_DEADLOCK FALSE
