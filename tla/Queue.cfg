\* Two processes; a cash job that may be quarantined and requeued as a quota job.
SPECIFICATION QueueLiveSpec
CONSTANTS
  Process = {p1, p2}
  NoJob = NoJob
  cashJob = cashJob
  quotaJob = quotaJob
  Job = {cashJob, quotaJob}
  Metered = {cashJob}
  IncludedQuota = {quotaJob}
  RequeueOf <- MCRequeueOf
  MaxKills = 1
INVARIANTS
  QueueInv
  CompletedIsSettled
PROPERTIES
  JobsAreKept
  WrittenOffIsNotRun
  RunningIsResolved
