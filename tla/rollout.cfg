SPECIFICATION FairSpec
CONSTANTS
  Specs <- RolloutSpecs
  Passwords = {p1}
  Lagging <- SlowSts
  Deletions = {}
  NoObj = NoObj
  MaxUid = 1
  MaxEdits = 1
  MaxFaults = 1
  MaxPodFailures = 0
  MaxDrift = 0
INVARIANTS StatusIsEarned PodRunsHashedFlagfile
PROPERTIES EventuallyServes EventuallyBlocked
CHECK_DEADLOCK FALSE
