\* A cash job and a free review, siblings under one lease, across the deaths
\* of three processes, until a retry has waited out its delay and the policy is
\* exhausted.
SPECIFICATION Spec
CONSTANTS
  Owner = {o1, o2, o3}
  NoOwner = NoOwner
  cash = cash
  quota = quota
  review = review
  writer = writer
  cashJob = cashJob
  quotaJob = quotaJob
  reviewJob = reviewJob
  writerJob = writerJob
  Request = {cash, review}
  Job = {cashJob, reviewJob}
  Metered = {cashJob}
  IncludedQuota = {}
  JobOf <- MCJobOf
  ScopeOf <- MCScopeOf
  PaidRequest = {cash}
  WriteRequest = {cash}
  NamesReservation = {cash}
  NamesAuthorization = {}
  LeaseLengths = {1}
  BaseDelay = 2
  MaxDelay = 2
  JitterPercent = 0
  RetryHints = {0}
  MaxAttempts = 2
  MaxElapsed = 4
  MaxReceipts = 3
  MaxTime = 3
SYMMETRY Processes
INVARIANTS
  LiveWorkIsLeased
  LeaseCoversItsWork
  
PROPERTIES
  DispatchIsNeverRepeated
  ImplementsOwnership
CHECK_DEADLOCK FALSE
