SPECIFICATION Spec
CONSTANTS
  Specs <- OwnClaimSpecs
  Passwords = {p1}
  Lagging <- NoKinds
  Deletions = {"background"}
  NoObj = NoObj
  MaxUid = 1
  MaxEdits = 0
  MaxFaults = 0
  MaxPodFailures = 0
  MaxDrift = 0
INVARIANTS PasswordOutlivesVolume
CHECK_DEADLOCK FALSE
