\* Two months, two cash jobs, a quota job and two recorded entries, with
\* room for one entry less than they would need.
SPECIFICATION BudgetSpec
CONSTANTS
  july = july
  august = august
  k1 = k1
  k2 = k2
  trial = trial
  work = work
  desk = desk
  Job = {trial, work, desk}
  Metered = {trial, work}
  IncludedQuota = {desk}
  Period = {july, august}
  Key = {k1, k2}
  Amount = {4, 6}
  CashCap <- MCCashCap
  EmergencyReserve <- MCEmergencyReserve
  Experiment = {trial}
  MaxEntries = 5
  LowestBalance <- MCLowestBalance
SYMMETRY Keys
INVARIANTS
  WithinCap
  BooksBalance
  DecisionsAreEntered
PROPERTIES
  LaunchLeavesMargin
CHECK_DEADLOCK FALSE
