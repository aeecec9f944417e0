SPECIFICATION FairSpec
CONSTANTS
  Specs <- DeleteSpecs
  Passwords = {p1}
  Lagging <- SlowDb
  Deletions = {"background", "foreground"}
  NoObj = NoObj
  MaxUid = 1
  MaxEdits = 0
  MaxFaults = 0
  MaxPodFailures = 0
  MaxDrift = 0
INVARIANTS PasswordOutlivesVolume
PROPERTIES DeletionCompletes
CHECK_DEADLOCK FALSE
