\* Two processes prune while the owners write; one is killed.
SPECIFICATION RetentionSpec
CONSTANTS
  Process = {p1, p2}
  NoOne = NoOne
  Count = 3
  Bundle <- MCBundle
  Class <- MCClass
  Review <- MCReview
  Size <- MCSize
  Ceiling <- MCCeiling
  Cutoff <- MCCutoff
  MaxTxns = 2
  MaxKills = 1
  MaxWrites = 2

  
PROPERTIES
  
  PurgesThePlan
  PurgeCompletes
