SPECIFICATION Spec
CONSTANTS
  Specs <- RetainSpecs
  Passwords = {p1, p2}
  Lagging <- SlowSecret
  Deletions = {"background", "foreground"}
  NoObj = NoObj
  MaxUid = 2
  MaxEdits = 0
  MaxFaults = 0
  MaxPodFailures = 0
  MaxDrift = 0
SYMMETRY Symmetric
INVARIANTS TypeOK NoLockout
CHECK_DEADLOCK FALSE
