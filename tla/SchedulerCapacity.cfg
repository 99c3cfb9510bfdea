\* A cash job and a quota job compete for the paid slot, the cash job and a
\* free writer for one worktree.
SPECIFICATION FairSpec
CONSTANTS
  Owner = {o1, o2}
  NoOwner = NoOwner
  cash = cash
  quota = quota
  review = review
  writer = writer
  cashJob = cashJob
  quotaJob = quotaJob
  reviewJob = reviewJob
  writerJob = writerJob
  Request = {cash, quota, writer}
  Job = {cashJob, quotaJob, writerJob}
  Metered = {cashJob}
  IncludedQuota = {quotaJob}
  JobOf <- MCJobOf
  ScopeOf <- MCScopeOf
  PaidRequest = {cash, quota}
  WriteRequest = {cash, writer}
  NamesReservation = {cash}
  NamesAuthorization = {quota}
  LeaseLengths = {1}
  BaseDelay = 1
  MaxDelay = 1
  JitterPercent = 0
  RetryHints = {0}
  MaxAttempts = 2
  MaxElapsed = 3
  MaxReceipts = 2
  MaxTime = 1
INVARIANTS
  LinkedStatesAgree
  CompletedPaidIsSettled
PROPERTIES
  CashIsFinal
  HeldCashIsResolved
  AmbiguousWorkHoldsCapacity
CHECK_DEADLOCK FALSE
