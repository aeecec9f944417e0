SPECIFICATION FairSpec
CONSTANTS
  Keys = {"a"}
  Clusters = {"c"}
  Specs <- OptionSpecs
  Lagging <- SlowInformers
  Outages = {"ConnectionFailed"}
  NoObj = NoObj
  MaxUid = 2
  MaxEdits = 0
  MaxFaults = 1
  MaxClusters = 1
  MaxDrift = 1
  MaxWrites = 1
INVARIANTS TypeOK NoOrphan
PROPERTIES GuardsRows EventuallyReplaced DeletionEnds
CHECK_DEADLOCK FALSE
