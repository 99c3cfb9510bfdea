\* A reservation made before its authorization.
SPECIFICATION LedgerSpec
CONSTANTS
  cashJob = cashJob
  quotaJob = quotaJob
  cashJob2 = cashJob2
  Job = {cashJob, cashJob2, quotaJob}
  Metered = {cashJob, cashJob2}
  IncludedQuota = {quotaJob}
INVARIANTS
  LedgerStaysOpen
CHECK_DEADLOCK FALSE
