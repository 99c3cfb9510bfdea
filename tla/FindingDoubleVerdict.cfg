\* Two processes; the jobs are neither corrupt nor killed.
SPECIFICATION QueueSpec
CONSTANTS
  NoJob = NoJob
  Process = {p1, p2}
  cashJob = cashJob
  quotaJob = quotaJob
  Job = {cashJob, quotaJob}
  Metered = {cashJob}
  IncludedQuota = {quotaJob}
  RequeueOf <- MCRequeueOf
  MaxKills = 0
INVARIANTS
  OneVerdict
