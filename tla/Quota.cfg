SPECIFICATION QuotaSpec
CONSTANTS
  cycle = cycle
  rolling = rolling
  j1 = j1
  j2 = j2
  j3 = j3
  Job = {j1, j2, j3}
  Metered = {j1}
  IncludedQuota = {j2, j3}
  Quota = {cycle, rolling}
  Rolling = {rolling}
  Lanes = {{cycle, rolling}}
  Length <- TwoTicks
  Limit <- TwoUnits
  Envelope <- OneUnit
  EvidenceTtl = 2
  AuthorityTtl = 2
  MaxTime = 2
  MaxReadings = 2
  MaxOthers = 1
SYMMETRY Interchangeable
INVARIANTS
  QuotaIsKept
  SpentIsHeld
  ReadingsStayCovered
PROPERTIES
  ImplementsLedger
CHECK_DEADLOCK FALSE
