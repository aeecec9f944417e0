SPECIFICATION FairSpec
CONSTANTS
  Keys = {"a"}
  Clusters = {"c"}
  Specs <- PolicySpecs
  Lagging <- SlowInformers
  Outages = {"ConnectionFailed"}
  NoObj = NoObj
  MaxUid = 1
  MaxEdits = 1
  MaxFaults = 1
  MaxClusters = 1
  MaxDrift = 1
INVARIANTS TypeOK
PROPERTIES DropIsAskedFor DeleteMeansDropped EventuallyApplied DeletionEnds
CHECK_DEADLOCK FALSE
