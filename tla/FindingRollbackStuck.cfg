\* A process is killed while it rolls back; nobody else writes.
SPECIFICATION RetentionSpec
CONSTANTS
  Process = {p1, p2}
  NoOne = NoOne
  Count = 3
  Bundle <- MCBundle
  Class <- MCClass
  Review <- MCReview
  Size <- MCSize
  Ceiling <- MCCeiling
  Cutoff <- MCCutoff
  MaxTxns = 1
  MaxKills = 2
  MaxWrites = 0
PROPERTIES
  MovingIsRecovered
