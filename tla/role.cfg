SPECIFICATION FairSpec
CONSTANTS
  Keys = {"a"}
  Clusters = {"c"}
  Specs <- RoleSpecs
  Lagging <- SlowSecrets
  Outages = {}
  NoObj = NoObj
  Groups = {"readers", "writers"}
  MaxUid = 1
  MaxEdits = 0
  MaxFaults = 1
  MaxClusters = 1
  MaxDrift = 1
  MaxWrites = 2
INVARIANTS TypeOK NotedPasswordIsSet
PROPERTIES EventuallyMatches
CHECK_DEADLOCK FALSE
