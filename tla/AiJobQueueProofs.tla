--------------------------- MODULE AiJobQueueProofs ---------------------------
(***************************************************************************)
(* Proofs about AiJobQueue, for any jobs, lanes, requeues, number of       *)
(* processes and number of kills: a claimed job has one owner, a job once  *)
(* submitted stays on disk and comes back to the queue only from running,  *)
(* and what is completed is settled.                                       *)
(***************************************************************************)
EXTENDS AiJobQueue, DispatchAuthorityProofs

(* The queue touches the ledger only by the ledger's own transactions.     *)
LEMMA QueueStepIsLedgerStep ==
  [QueueNext]_queueVars => [LedgerNext]_ledgerVars
<1> SUFFICES ASSUME [QueueNext]_queueVars
             PROVE  [LedgerNext]_ledgerVars
  OBVIOUS
<1>1. ASSUME NEW j \in Job, LedgerOpens,
             \/ Authorize(j) \/ Launch(j) \/ SettleReservation(j) \/ SettleQuota(j)
             \/ ReconcileNoCharge(j) \/ ReleaseQuota(j)
             \/ MarkReservationUncertain(j) \/ MarkQuotaUncertain(j)
      PROVE  LedgerNext
  BY <1>1 DEF LedgerNext
<1>2. ASSUME NEW p \in Process,
             Begin(p) \/ Examine(p) \/ Inspect(p) \/ PassVerdict(p) \/ Unlink(p)
               \/ Route(p) \/ Claim(p) \/ Open(p) \/ Restore(p) \/ WriteStart(p)
               \/ Operate(p) \/ Kill(p)
      PROVE  UNCHANGED ledgerVars
  BY <1>2 DEF Begin, Examine, Inspect, PassVerdict, Unlink, Route, Claim, Open,
              Restore, WriteStart, Operate, Kill, PlanQuarantine, WriteReceipt,
              Evict, PlanRequeue, Record, Enqueue, Commit
<1>3. ASSUME NEW p \in Process, WriteOff(p) \/ Prepare(p)
      PROVE  LedgerNext \/ UNCHANGED ledgerVars
  BY <1>1, <1>3 DEF WriteOff, Prepare
<1>4. ASSUME NEW p \in Process, LaunchWorker(p) \/ Release(p) \/ Settle(p)
      PROVE  LedgerNext \/ UNCHANGED ledgerVars
  BY <1>1, <1>4 DEF LaunchWorker, Consume, Release, Settle
<1>5. ASSUME NEW j \in Job, Submit(j) \/ Drift(j) \/ Expire(j)
      PROVE  UNCHANGED ledgerVars
  BY <1>5 DEF Submit, Drift, Expire
<1>6. CASE UNCHANGED queueVars
  BY <1>6 DEF queueVars
<1> QED
  BY <1>2, <1>3, <1>4, <1>5, <1>6 DEF QueueNext, RunNext

(* Every run of the queue is a run of the ledger's state machine, so what  *)
(* is proved of DispatchAuthority holds of a queue of paid jobs.           *)
THEOREM QueueImplementsLedger == QueueSpec => LedgerSpec
<1>1. QueueInit => LedgerInit
  BY DEF QueueInit
<1> QED
  BY <1>1, QueueStepIsLedgerStep, PTL DEF QueueSpec, LedgerSpec

-----------------------------------------------------------------------------
(* The inductive invariant                                                 *)

(* Every process is about a job or none, and has listed jobs.              *)
Step ==
  ClaimStep \cup
    {"idle", "scan", "condemn", "inspect", "absolve", "write-off", "clear", "claim",
     "unlink", "receipt", "evict", "record", "enqueue", "commit"}

ProcessesTypeOK ==
  /\ at \in [Process -> [step : Step, job : Job \cup {NoJob}]]
  /\ todo \in [Process -> SUBSET Job]

(* Whatever a process is about, or has listed, was put on disk.            *)
FilesExist ==
  \A p \in Process :
    /\ at[p].job # NoJob => places[at[p].job] # {}
    /\ \A j \in todo[p] : places[j] # {}

(* What one process has claimed is not offered to another.                 *)
ClaimsAreTaken ==
  \A p \in Process :
    at[p].step \in ClaimStep => at[p].job \in Job /\ ~In(at[p].job, "queued")

(* A running file is unlinked only under a verdict.                        *)
Decided(j) == In(j, "completed") \/ In(j, "failed")

VerdictsAreFiled ==
  \A p \in Process : at[p].step \in {"clear", "unlink"} =>
    at[p].job \in Job /\ Decided(at[p].job)

(* Nobody is about to complete a job whose money is not accounted for.     *)
CompletionsArePaid ==
  \A p \in Process : at[p].step \in {"absolve", "complete"} =>
    at[p].job \in Job /\ Money(at[p].job) \in Spent

(* Nobody is about to move a job out of the queue without its receipt.     *)
EvictionsAreEvidenced ==
  \A p \in Process : at[p].step = "evict" => at[p].job \in evicted

(* A new job enters the directories by the one requeue that prepared it.   *)
RequeuesAreFresh ==
  /\ \A s \in DOMAIN RequeueOf : requeues[s] = "none" => places[RequeueOf[s]] = {}
  /\ \A p \in Process : at[p].step = "enqueue" =>
       /\ at[p].job \in DOMAIN RequeueOf
       /\ requeues[at[p].job] = "prepared"
       /\ places[RequeueOf[at[p].job]] = {}
       /\ \A q \in Process : at[q] = at[p] => q = p
  /\ \A p \in Process : at[p].step = "commit" =>
       /\ at[p].job \in DOMAIN RequeueOf
       /\ places[RequeueOf[at[p].job]] # {}

QueueIInv ==
  /\ QueueTypeOK /\ LedgerInv /\ ProcessesTypeOK
  /\ FilesExist /\ ClaimsAreTaken /\ ClaimsAreExclusive
  /\ VerdictsAreFiled
  /\ CompletionsArePaid /\ CompletedIsSettled
  /\ EvictionsAreEvidenced /\ QuarantineIsEvidenced
  /\ RequeuesAreFresh

(* The fresh queue satisfies the invariant.                                *)
LEMMA QueueIInvInitially == QueueInit => QueueIInv
<1> SUFFICES ASSUME QueueInit PROVE QueueIInv
  OBVIOUS
<1> USE DEF QueueInit
<1>1. LedgerInv /\ LedgerTypeOK
  BY LedgerInitInv DEF LedgerInv
<1>2. ProcessesTypeOK
  BY DEF ProcessesTypeOK, Step
<1>3. QueueTypeOK
  BY <1>1, QueueAssumption DEF QueueTypeOK
<1>4. FilesExist /\ ClaimsAreTaken /\ ClaimsAreExclusive
  BY DEF FilesExist, ClaimsAreTaken, ClaimsAreExclusive, ClaimStep
<1>5. VerdictsAreFiled /\ CompletionsArePaid /\ EvictionsAreEvidenced
  BY DEF VerdictsAreFiled, CompletionsArePaid, EvictionsAreEvidenced
<1>6. CompletedIsSettled /\ QuarantineIsEvidenced
  BY DEF CompletedIsSettled, QuarantineIsEvidenced, In
<1>7. RequeuesAreFresh
  BY QueueAssumption DEF RequeuesAreFresh
<1> QED
  BY <1>1, <1>2, <1>3, <1>4, <1>5, <1>6, <1>7 DEF QueueIInv

-----------------------------------------------------------------------------
(* What a step does                                                        *)

(* A process that goes to its next step leaves the others where they are.  *)
LEMMA GotoMoves ==
  ASSUME ProcessesTypeOK, NEW p \in Process, NEW step \in Step,
         NEW j \in Job \cup {NoJob}, Goto(p, step, j)
  PROVE  /\ at' \in [Process -> [step : Step, job : Job \cup {NoJob}]]
         /\ at'[p] = [step |-> step, job |-> j]
         /\ \A q \in Process \ {p} : at'[q] = at[q]
  BY DEF ProcessesTypeOK, Goto

(* One process moves at a time, and only it examines the jobs it listed.   *)
LEMMA OneProcessMoves ==
  ASSUME QueueIInv, [QueueNext]_queueVars
  PROVE  /\ ProcessesTypeOK'
         /\ \/ UNCHANGED <<at, todo>>
            \/ \E p \in Process : \A q \in Process \ {p} :
                 at'[q] = at[q] /\ todo'[q] = todo[q]
<1>0. ProcessesTypeOK /\ DOMAIN RequeueOf \subseteq Job
  BY QueueAssumption DEF QueueIInv
<1> USE <1>0 DEF Step, ClaimStep
<1>1. ASSUME NEW p \in Process, NEW step \in Step, NEW j \in Job \cup {NoJob},
             Goto(p, step, j), UNCHANGED todo
      PROVE  ProcessesTypeOK' /\ \A q \in Process \ {p} :
               at'[q] = at[q] /\ todo'[q] = todo[q]
  BY <1>1, GotoMoves DEF ProcessesTypeOK
<1>2. ASSUME NEW p \in Process, Begin(p) \/ Examine(p) \/ Kill(p)
      PROVE  ProcessesTypeOK' /\ \A q \in Process \ {p} :
               at'[q] = at[q] /\ todo'[q] = todo[q]
  BY <1>2 DEF Begin, Examine, Kill, Leave, Goto, ProcessesTypeOK
<1>3. ASSUME NEW p \in Process,
             Inspect(p) \/ WriteOff(p) \/ PassVerdict(p) \/ Unlink(p) \/ Route(p)
               \/ Claim(p)
      PROVE  ProcessesTypeOK' /\ \A q \in Process \ {p} :
               at'[q] = at[q] /\ todo'[q] = todo[q]
  BY <1>1, <1>3 DEF Inspect, WriteOff, PassVerdict, Verdict, Unlink, Route, Claim, Leave
<1>4. ASSUME NEW p \in Process,
             Open(p) \/ Restore(p) \/ Prepare(p) \/ WriteStart(p)
               \/ LaunchWorker(p) \/ Release(p) \/ Settle(p)
      PROVE  ProcessesTypeOK' /\ \A q \in Process \ {p} :
               at'[q] = at[q] /\ todo'[q] = todo[q]
  BY <1>1, <1>4 DEF Open, Restore, Prepare, WriteStart, LaunchWorker, Release,
       Settle, Unsettled, Leave
<1>5. ASSUME NEW p \in Process, Operate(p)
      PROVE  ProcessesTypeOK' /\ \A q \in Process \ {p} :
               at'[q] = at[q] /\ todo'[q] = todo[q]
  BY <1>1, <1>5 DEF Operate, PlanQuarantine, WriteReceipt, Evict, PlanRequeue,
       Record, Enqueue, Commit, Leave, ProcessesTypeOK
<1>6. CASE UNCHANGED <<at, todo>>
  BY <1>6 DEF ProcessesTypeOK
<1>7. ASSUME (\E j \in Job : Submit(j) \/ Drift(j) \/ Expire(j)) \/ UNCHANGED queueVars
      PROVE  UNCHANGED <<at, todo>>
  BY <1>7 DEF Submit, Drift, Expire, queueVars
<1> QED
  BY <1>2, <1>3, <1>4, <1>5, <1>6, <1>7 DEF QueueNext, RunNext

(* The ways the file of a job moves.                                       *)
Renamed(j, from, to) == places'[j] = (places[j] \ {from}) \cup {to}

FileMoves(j) ==
  \/ places'[j] = places[j]
  \/ /\ places[j] = {} /\ Source(j) = {}
     /\ places'[j] = {"queued"} /\ UNCHANGED <<at, requeues>>
  \/ \E p \in Process, s \in DOMAIN RequeueOf :
       /\ Doing(p, "enqueue", s) /\ RequeueOf[s] = j
       /\ places[j] = {} /\ places'[j] = {"queued"} /\ UNCHANGED requeues
       /\ at'[p] = [step |-> "commit", job |-> s]
  \/ Decided(j) /\ places'[j] = places[j] \ {"running"}
  \/ \E p \in Process :
       \/ /\ at[p].step \in {"condemn", "fail"} /\ at[p].job = j
          /\ places'[j] = places[j] \cup {"failed"}
       \/ /\ at[p].step \in {"absolve", "complete"} /\ at[p].job = j
          /\ places'[j] = places[j] \cup {"completed"}
       \/ /\ Doing(p, "claim", NoJob) /\ In(j, "queued")
          /\ Renamed(j, "queued", "running")
          /\ at'[p] = [step |-> "open", job |-> j]
       \/ /\ Doing(p, "restore", j) /\ In(j, "running")
          /\ Renamed(j, "running", "queued")
          /\ at'[p].step = "idle"
       \/ /\ Doing(p, "start", j) /\ places'[j] = places[j] \cup {"running"}
       \/ /\ Doing(p, "evict", j) /\ In(j, "queued")
          /\ Renamed(j, "queued", "quarantined")

(* No step moves a file in another way.                                    *)
LEMMA HowFilesMove ==
  ASSUME QueueIInv, [QueueNext]_queueVars, NEW j \in Job
  PROVE  FileMoves(j)
<1>0. /\ places \in [Job -> SUBSET Place] /\ ProcessesTypeOK
      /\ at \in [Process -> [step : Step, job : Job \cup {NoJob}]]
      /\ VerdictsAreFiled /\ RequeuesAreFresh
      /\ DOMAIN RequeueOf \subseteq Job /\ \A s \in DOMAIN RequeueOf : RequeueOf[s] \in Job
  BY QueueAssumption DEF QueueIInv, QueueTypeOK, ProcessesTypeOK
<1> USE <1>0
<1>1. ASSUME UNCHANGED places
      PROVE  FileMoves(j)
  BY <1>1 DEF FileMoves
<1>2. ASSUME NEW p \in Process,
             Begin(p) \/ Examine(p) \/ Inspect(p) \/ WriteOff(p) \/ Route(p)
               \/ Open(p) \/ Prepare(p) \/ LaunchWorker(p) \/ Release(p) \/ Settle(p)
               \/ PlanQuarantine(p) \/ WriteReceipt(p) \/ PlanRequeue(p)
               \/ Record(p) \/ Commit(p) \/ Kill(p)
      PROVE  UNCHANGED places
  BY <1>2 DEF Begin, Examine, Inspect, WriteOff, Route, Open, Prepare,
       LaunchWorker, Release, Settle, PlanQuarantine, WriteReceipt, PlanRequeue,
       Record, Commit, Kill, disk
<1>3. ASSUME NEW p \in Process, PassVerdict(p)
      PROVE  FileMoves(j)
  BY <1>3 DEF PassVerdict, Verdict, Put, Doing, FileMoves
<1>4. ASSUME NEW p \in Process, Unlink(p)
      PROVE  FileMoves(j)
  BY <1>4 DEF Unlink, Drop, Doing, FileMoves, VerdictsAreFiled
<1>5. ASSUME NEW p \in Process, Claim(p)
      PROVE  FileMoves(j)
  <2>1. CASE UNCHANGED places
    BY <2>1 DEF FileMoves
  <2>2. ASSUME NEW k \in Job, Doing(p, "claim", NoJob), In(k, "queued"),
               Rename(k, "queued", "running"), Goto(p, "open", k)
        PROVE  FileMoves(j)
    <3>1. at'[p] = [step |-> "open", job |-> k]
      BY <2>2 DEF Goto
    <3>2. k = j \/ places'[j] = places[j]
      BY <2>2 DEF Rename
    <3>3. places'[k] = (places[k] \ {"queued"}) \cup {"running"}
      BY <2>2 DEF Rename
    <3> QED
      BY <2>2, <3>1, <3>2, <3>3 DEF FileMoves, Renamed
  <2> QED
    BY <1>5, <2>1, <2>2 DEF Claim
<1>6. ASSUME NEW p \in Process, Restore(p)
      PROVE  FileMoves(j)
  BY <1>6 DEF Restore, Rename, Renamed, Leave, Goto, Doing, FileMoves
<1>7. ASSUME NEW p \in Process, WriteStart(p) \/ Evict(p)
      PROVE  FileMoves(j)
  BY <1>7 DEF WriteStart, Evict, Put, Rename, Renamed, FileMoves
<1>8. ASSUME NEW p \in Process, Enqueue(p)
      PROVE  FileMoves(j)
  <2>1. PICK s \in DOMAIN RequeueOf :
          /\ Doing(p, "enqueue", s) /\ UNCHANGED requeues
          /\ Put(RequeueOf[s], "queued") /\ Goto(p, "commit", s)
    BY <1>8 DEF Enqueue, operatorState
  <2>2. places[RequeueOf[s]] = {}
    BY <2>1 DEF RequeuesAreFresh, Doing
  <2>3. places'[RequeueOf[s]] = {"queued"}
    BY <2>1, <2>2 DEF Put
  <2>4. RequeueOf[s] = j \/ places'[j] = places[j]
    BY <2>1 DEF Put
  <2>5. at'[p] = [step |-> "commit", job |-> s]
    BY <2>1 DEF Goto
  <2> QED
    BY <2>1, <2>2, <2>3, <2>4, <2>5 DEF FileMoves
<1>9. ASSUME NEW k \in Job, Submit(k) \/ Drift(k) \/ Expire(k)
      PROVE  FileMoves(j)
  BY <1>9 DEF Submit, Drift, Expire, Put, FileMoves, disk, operatorState
<1>10. CASE UNCHANGED queueVars
  BY <1>10 DEF queueVars, disk, FileMoves
<1> QED
  BY <1>1, <1>2, <1>3, <1>4, <1>5, <1>6, <1>7, <1>8, <1>9, <1>10
  DEF QueueNext, RunNext, Operate

(* The next step of a process that stays with its job.                     *)
Follows(from, to) ==
  \/ from = "inspect" /\ to \in {"absolve", "write-off", "condemn"}
  \/ from = "write-off" /\ to = "condemn"
  \/ from \in {"condemn", "absolve"} /\ to = "clear"
  \/ from \in {"fail", "complete"} /\ to = "unlink"
  \/ from = "open" /\ to \in {"fail", "restore", "prepare"}
  \/ from = "prepare" /\ to \in {"start", "restore"}
  \/ from = "start" /\ to = "launch"
  \/ from = "launch" /\ to \in {"work", "fail", "release"}
  \/ from = "release" /\ to = "fail"
  \/ from = "work" /\ to \in {"complete", "fail"}
  \/ from = "receipt" /\ to = "evict"
  \/ from = "record" /\ to = "enqueue"
  \/ from = "enqueue" /\ to = "commit"

(* The ways a process moves: it is about no job, takes one up, or goes on  *)
(* with it; a step that relies on another has seen it done.                *)
ProcessMoves(p) ==
  \/ at'[p] = at[p]
  \/ at'[p].job = NoJob /\ at'[p].step \in {"idle", "scan", "claim"}
  \/ \E j \in todo[p] :
       /\ Doing(p, "scan", NoJob)
       /\ at'[p].job = j /\ at'[p].step \in {"condemn", "inspect"}
  \/ \E j \in Job :
       /\ at'[p].job = j /\ In(j, "queued")
       /\ \/ at'[p].step = "open" /\ "queued" \notin places'[j]
          \/ at'[p].step = "receipt"
  \/ \E j \in DOMAIN RequeueOf :
       /\ at'[p] = [step |-> "record", job |-> j] /\ In(j, "quarantined")
  \/ /\ at'[p].job = at[p].job /\ at[p].job \in Job
     /\ Follows(at[p].step, at'[p].step)
     /\ at'[p].step \in {"clear", "unlink"} =>
          places'[at[p].job] \cap {"completed", "failed"} # {}
     /\ at'[p].step \in {"absolve", "complete"} =>
          \A j \in Job : at[p].job = j => Money(j)' \in Spent
     /\ at'[p].step = "evict" => at[p].job \in evicted'
     /\ at'[p].step = "enqueue" =>
          /\ at[p].job \in DOMAIN RequeueOf
          /\ requeues[at[p].job] = "none" /\ requeues'[at[p].job] = "prepared"
          /\ UNCHANGED places
     /\ at'[p].step = "commit" =>
          at[p].job \in DOMAIN RequeueOf /\ places'[RequeueOf[at[p].job]] # {}

(* No process moves in another way.                                        *)
LEMMA HowProcessesMove ==
  ASSUME QueueIInv, [QueueNext]_queueVars, NEW p \in Process
  PROVE  ProcessMoves(p)
<1>0. /\ places \in [Job -> SUBSET Place] /\ ProcessesTypeOK
      /\ at \in [Process -> [step : Step, job : Job \cup {NoJob}]]
      /\ requeues \in [Job -> {"none", "prepared", "committed"}]
      /\ DOMAIN RequeueOf \subseteq Job
  BY QueueAssumption DEF QueueIInv, QueueTypeOK, ProcessesTypeOK
<1> USE <1>0
<1>1. ASSUME UNCHANGED at
      PROVE  ProcessMoves(p)
  BY <1>1 DEF ProcessMoves
<1>2. ASSUME NEW q \in Process, Begin(q) \/ Examine(q) \/ Route(q) \/ Kill(q)
      PROVE  ProcessMoves(p)
  BY <1>2 DEF Begin, Examine, Route, Kill, Leave, Goto, ProcessMoves
<1>3. ASSUME NEW q \in Process, Inspect(q)
      PROVE  ProcessMoves(p)
  BY <1>3 DEF Inspect, Doing, Goto, ProcessMoves, Follows, Money, ledgerVars
<1>4. ASSUME NEW q \in Process, WriteOff(q)
      PROVE  ProcessMoves(p)
  BY <1>4 DEF WriteOff, Doing, Goto, ProcessMoves, Follows
<1>5. ASSUME NEW q \in Process, PassVerdict(q)
      PROVE  ProcessMoves(p)
  <2>1. ASSUME NEW step \in Step, NEW next \in {"clear", "unlink"},
               NEW place \in {"completed", "failed"},
               Verdict(q, step, place, next), Follows(step, next)
        PROVE  ProcessMoves(p)
    <3>1. PICK j \in Job :
            Doing(q, step, j) /\ Put(j, place) /\ Goto(q, next, j)
      BY <2>1 DEF Verdict
    <3>2. places'[j] \cap {"completed", "failed"} # {}
      BY <3>1 DEF Put
    <3>3. at[q].job = j /\ at[q].step = step
      BY <3>1 DEF Doing
    <3>4. at'[q].job = j /\ at'[q].step = next /\ (q = p \/ at'[p] = at[p])
      BY <3>1 DEF Goto
    <3>5. at'[q].step \notin {"absolve", "complete", "evict", "enqueue", "commit"}
      BY <3>4
    <3> QED
      BY <2>1, <3>2, <3>3, <3>4, <3>5 DEF ProcessMoves
  <2> QED
    BY <1>5, <2>1 DEF PassVerdict, Follows, Step, ClaimStep
<1>6. ASSUME NEW q \in Process, Unlink(q) \/ Claim(q) \/ Restore(q)
      PROVE  ProcessMoves(p)
  BY <1>6 DEF Unlink, Claim, Restore, Rename, Doing, Leave, Goto, ProcessMoves
<1>7. ASSUME NEW q \in Process,
             Open(q) \/ Prepare(q) \/ WriteStart(q) \/ LaunchWorker(q) \/ Release(q)
      PROVE  ProcessMoves(p)
  BY <1>7 DEF Open, Prepare, WriteStart, LaunchWorker, Release, Doing, Goto,
       ProcessMoves, Follows
<1>8. ASSUME NEW q \in Process, Settle(q)
      PROVE  ProcessMoves(p)
  <2>1. PICK j \in Job : Doing(q, "work", j) /\
          \/ /\ SettleReservation(j) \/ SettleQuota(j)
             /\ \E verdict \in {"complete", "fail"} : Goto(q, verdict, j)
          \/ Goto(q, "fail", j)
    BY <1>8 DEF Settle, Unsettled
  <2>2. at[q].job = j /\ at[q].step = "work"
    BY <2>1 DEF Doing
  <2>3. CASE Goto(q, "fail", j)
    BY <2>2, <2>3 DEF Goto, ProcessMoves, Follows
  <2>4. CASE (SettleReservation(j) \/ SettleQuota(j)) /\ Goto(q, "complete", j)
    <3>1. Money(j)' \in Spent
      BY <2>4, BillingAssumption DEF QueueIInv, LedgerInv, LedgerTypeOK,
           OnlyMeteredReserve, SettleReservation, SettleQuota, TransitionQuota, OpenState,
           HeldState, SetReservation, SetAuthorization, Money, Spent
    <3> QED
      BY <2>2, <2>4, <3>1 DEF Goto, ProcessMoves, Follows
  <2> QED
    BY <2>1, <2>3, <2>4
<1>9. ASSUME NEW q \in Process, PlanQuarantine(q) \/ WriteReceipt(q) \/ Evict(q)
      PROVE  ProcessMoves(p)
  BY <1>9 DEF PlanQuarantine, WriteReceipt, Evict, Doing, Leave, Goto, ProcessMoves, Follows
<1>10. ASSUME NEW q \in Process, PlanRequeue(q) \/ Record(q) \/ Commit(q)
       PROVE  ProcessMoves(p)
  BY <1>10 DEF PlanRequeue, Record, Commit, Doing, Leave, Goto, ProcessMoves,
       Follows, disk
<1>12. ASSUME NEW q \in Process, Enqueue(q)
       PROVE  ProcessMoves(p)
  <2>1. PICK s \in DOMAIN RequeueOf :
          Doing(q, "enqueue", s) /\ Put(RequeueOf[s], "queued") /\ Goto(q, "commit", s)
    BY <1>12 DEF Enqueue
  <2>2. places'[RequeueOf[s]] # {}
    BY <2>1, QueueAssumption DEF Put
  <2> QED
    <3>1. q = p \/ at'[p] = at[p]
      BY <2>1 DEF Goto
    <3>2. at[q].step = "enqueue" /\ at[q].job = s
      BY <2>1 DEF Doing
    <3>3. at'[q].step = "commit" /\ at'[q].job = s
      BY <2>1 DEF Goto
    <3> QED
      BY <2>2, <3>1, <3>2, <3>3 DEF ProcessMoves, Follows
<1>11. ASSUME (\E j \in Job : Submit(j) \/ Drift(j) \/ Expire(j)) \/ UNCHANGED queueVars
       PROVE  UNCHANGED at
  BY <1>11 DEF Submit, Drift, Expire, queueVars
<1> QED
  BY <1>1, <1>2, <1>3, <1>4, <1>5, <1>6, <1>7, <1>8, <1>9, <1>10, <1>11, <1>12
  DEF QueueNext, RunNext, Operate

-----------------------------------------------------------------------------
(* The invariant is kept                                                   *)

(* A submitted job is in some directory after any step, and a decided one  *)
(* stays decided.                                                          *)
LEMMA FilesStay ==
  ASSUME QueueIInv, [QueueNext]_queueVars, NEW j \in Job
  PROVE  /\ places[j] # {} => places'[j] # {}
         /\ Decided(j) => places'[j] \cap {"completed", "failed"} # {}
<1>0. /\ at \in [Process -> [step : Step, job : Job \cup {NoJob}]]
      /\ places \in [Job -> SUBSET Place]
  BY DEF QueueIInv, QueueTypeOK, ProcessesTypeOK
<1> USE <1>0
<1>1. FileMoves(j)
  BY HowFilesMove
<1>2. CASE Decided(j) /\ places'[j] = places[j] \ {"running"}
  BY <1>2 DEF Decided, In
<1>3. CASE places'[j] = places[j] \/ (places[j] = {} /\ places'[j] = {"queued"})
  BY <1>3 DEF Decided, In
<1>4. CASE \E to \in Place : places'[j] = places[j] \cup {to}
  BY <1>4 DEF Decided, In
<1>5. CASE \/ Renamed(j, "queued", "running") \/ Renamed(j, "running", "queued")
           \/ Renamed(j, "queued", "quarantined")
  BY <1>5 DEF Renamed, Decided, In
<1>6. \/ Decided(j) /\ places'[j] = places[j] \ {"running"}
      \/ places'[j] = places[j] \/ (places[j] = {} /\ places'[j] = {"queued"})
      \/ \E to \in Place : places'[j] = places[j] \cup {to}
      \/ Renamed(j, "queued", "running") \/ Renamed(j, "running", "queued")
      \/ Renamed(j, "queued", "quarantined")
  BY <1>1 DEF FileMoves, Place
<1> QED
  BY <1>2, <1>3, <1>4, <1>5, <1>6

(* A job that has files comes back to the queue only from running.         *)
LEMMA BackFromRunning ==
  ASSUME QueueIInv, [QueueNext]_queueVars, NEW j \in Job,
         places[j] # {}, ~In(j, "queued"), "queued" \in places'[j]
  PROVE  /\ In(j, "running") /\ "running" \notin places'[j]
         /\ \E p \in Process : Doing(p, "restore", j) /\ at'[p].step = "idle"
<1>1. FileMoves(j)
  BY HowFilesMove
<1>2. ~ (Renamed(j, "queued", "running") \/ Renamed(j, "queued", "quarantined"))
  BY DEF Renamed, In
<1>3. \A place \in {"failed", "completed", "running"} :
        places'[j] # places[j] \cup {place}
  BY DEF In
<1>4. places'[j] # places[j] /\ places'[j] # places[j] \ {"running"}
  BY DEF In
<1>5. PICK p \in Process :
        /\ Doing(p, "restore", j) /\ In(j, "running")
        /\ Renamed(j, "running", "queued") /\ at'[p].step = "idle"
  BY <1>1, <1>2, <1>3, <1>4 DEF FileMoves
<1> QED
  BY <1>5 DEF Renamed

(* What processes are about keeps its file.                                *)
LEMMA FilesExistStep ==
  ASSUME QueueIInv, [QueueNext]_queueVars
  PROVE  FilesExist'
<1>0. /\ at \in [Process -> [step : Step, job : Job \cup {NoJob}]]
      /\ todo \in [Process -> SUBSET Job]
      /\ at' \in [Process -> [step : Step, job : Job \cup {NoJob}]]
      /\ todo' \in [Process -> SUBSET Job]
      /\ DOMAIN RequeueOf \subseteq Job /\ NoJob \notin Job
      /\ FilesExist
  BY OneProcessMoves, QueueAssumption DEF QueueIInv, ProcessesTypeOK
<1>1. \A j \in Job : places[j] # {} => places'[j] # {}
  BY FilesStay
<1>2. ASSUME NEW p \in Process, at'[p].job # NoJob
      PROVE  places'[at'[p].job] # {}
  <2>1. at'[p].job \in Job /\ places[at'[p].job] # {}
    BY <1>0, <1>2, HowProcessesMove DEF ProcessMoves, FilesExist, In
  <2> QED
    BY <1>1, <2>1
<1>3. ASSUME NEW p \in Process
      PROVE  todo'[p] \subseteq todo[p] \cup {j \in Job : In(j, "running")}
  <2>1. CASE UNCHANGED todo
    BY <2>1
  <2>2. ASSUME NEW q \in Process, Begin(q) \/ Examine(q) \/ Kill(q)
        PROVE  todo'[p] \subseteq todo[p] \cup {j \in Job : In(j, "running")}
    BY <1>0, <2>2 DEF Begin, Examine, Kill
  <2>3. ASSUME NEW q \in Process, RunNext(q) \/ Operate(q), ~Begin(q), ~Examine(q)
        PROVE  UNCHANGED todo
    BY <2>3 DEF RunNext, Operate, Inspect, WriteOff, PassVerdict, Unlink, Route,
         Claim, Open, Restore, Prepare, WriteStart, LaunchWorker, Release, Settle,
         PlanQuarantine, WriteReceipt, Evict, PlanRequeue, Record, Enqueue, Commit
  <2>4. ASSUME (\E j \in Job : Submit(j) \/ Drift(j) \/ Expire(j)) \/ UNCHANGED queueVars
        PROVE  UNCHANGED todo
    BY <2>4 DEF Submit, Drift, Expire, queueVars
  <2> QED
    BY <2>1, <2>2, <2>3, <2>4 DEF QueueNext
<1>4. ASSUME NEW p \in Process, NEW j \in todo'[p]
      PROVE  places'[j] # {}
  BY <1>0, <1>1, <1>3, <1>4 DEF FilesExist, In
<1> QED
  BY <1>2, <1>4 DEF FilesExist

(* A claimed job has left the queue, and stays out of it for as long as    *)
(* its owner is at work: nobody else can claim it.                         *)
LEMMA ClaimsStep ==
  ASSUME QueueIInv, [QueueNext]_queueVars
  PROVE  ClaimsAreTaken' /\ ClaimsAreExclusive'
<1>0. /\ at \in [Process -> [step : Step, job : Job \cup {NoJob}]]
      /\ NoJob \notin Job
      /\ FilesExist /\ ClaimsAreTaken /\ ClaimsAreExclusive
  BY QueueAssumption DEF QueueIInv, ProcessesTypeOK
<1>1. ASSUME NEW p \in Process, at'[p].step \in ClaimStep
      PROVE  \/ /\ at[p].step \in ClaimStep /\ at'[p].job = at[p].job
                /\ at[p].job \in Job
             \/ /\ In(at'[p].job, "queued") /\ at'[p].job \in Job
                /\ "queued" \notin places'[at'[p].job]
                /\ at'[p] # at[p]
  <2>1. CASE at'[p] = at[p]
    BY <1>0, <1>1, <2>1 DEF ClaimsAreTaken
  <2>2. CASE at'[p] # at[p]
    <3>1. ProcessMoves(p)
      BY HowProcessesMove
    <3>2. CASE /\ at'[p].job = at[p].job /\ at[p].job \in Job
               /\ Follows(at[p].step, at'[p].step)
      BY <1>1, <3>2 DEF Follows, ClaimStep
    <3>3. at'[p].step \notin
            {"idle", "scan", "claim", "condemn", "inspect", "receipt", "record"}
      BY <1>1 DEF ClaimStep
    <3>4. \A j \in DOMAIN RequeueOf : at'[p] # [step |-> "record", job |-> j]
      BY <3>3
    <3> QED
      BY <2>2, <3>1, <3>2, <3>3, <3>4 DEF ProcessMoves
  <2> QED
    BY <2>1, <2>2
<1>2. ASSUME NEW p \in Process, at'[p].step \in ClaimStep,
             at[p].step \in ClaimStep, at'[p].job = at[p].job
      PROVE  "queued" \notin places'[at[p].job]
  <2> DEFINE j == at[p].job
  <2>1. j \in Job /\ ~In(j, "queued") /\ places[j] # {}
    BY <1>0, <1>2 DEF ClaimsAreTaken, FilesExist
  <2>2. SUFFICES ASSUME "queued" \in places'[j] PROVE FALSE
    OBVIOUS
  <2>3. PICK q \in Process : Doing(q, "restore", j) /\ at'[q].step = "idle"
    BY <2>1, <2>2, BackFromRunning
  <2>4. q = p
    BY <1>0, <1>2, <2>3 DEF ClaimsAreExclusive, Doing, ClaimStep
  <2> QED
    BY <1>2, <2>3, <2>4 DEF ClaimStep
<1>3. ClaimsAreTaken'
  BY <1>1, <1>2 DEF ClaimsAreTaken, In
<1>4. ASSUME NEW p \in Process, NEW q \in Process, p # q,
             at'[p].step \in ClaimStep, at'[q].step \in ClaimStep
      PROVE  at'[p].job # at'[q].job
  <2>1. at'[p] = at[p] \/ at'[q] = at[q]
    BY <1>4, OneProcessMoves
  <2> QED
    BY <1>0, <1>1, <1>4, <2>1 DEF ClaimsAreTaken, ClaimsAreExclusive
<1>5. ClaimsAreExclusive'
  BY <1>4 DEF ClaimsAreExclusive
<1> QED
  BY <1>3, <1>5

(* A filed verdict stays, and nobody unlinks a running file without one.   *)
LEMMA VerdictsStep ==
  ASSUME QueueIInv, [QueueNext]_queueVars
  PROVE  VerdictsAreFiled'
<1> SUFFICES ASSUME NEW p \in Process, at'[p].step \in {"clear", "unlink"}
             PROVE  /\ at'[p].job \in Job
                    /\ places'[at'[p].job] \cap {"completed", "failed"} # {}
  BY DEF VerdictsAreFiled, Decided, In
<1>1. CASE at'[p] = at[p]
  <2>1. at[p].job \in Job /\ Decided(at[p].job)
    BY <1>1 DEF QueueIInv, VerdictsAreFiled
  <2> QED
    BY <1>1, <2>1, FilesStay
<1>2. CASE at'[p] # at[p]
  <2>1. ProcessMoves(p)
    BY HowProcessesMove
  <2>2. /\ at'[p].step \notin {"idle", "scan", "claim", "condemn", "inspect", "open", "receipt"}
        /\ \A j \in DOMAIN RequeueOf : at'[p] # [step |-> "record", job |-> j]
    OBVIOUS
  <2> QED
    BY <1>2, <2>1, <2>2 DEF ProcessMoves
<1> QED
  BY <1>1, <1>2

(* Money that is spent stays spent.                                        *)
LEMMA SpentStays ==
  ASSUME QueueIInv, [QueueNext]_queueVars, NEW j \in Job, Money(j) \in Spent
  PROVE  Money(j)' \in Spent
<1>1. LedgerInv /\ [LedgerNext]_ledgerVars
  BY QueueStepIsLedgerStep DEF QueueIInv
<1>2. CASE j \in Metered
  <2>1. reservation[j] \in {"settled", "reconciled"}
    BY <1>2 DEF Money, Spent
  <2> QED
    BY <1>1, <1>2, <2>1, CashIsFinalStep DEF Money, Spent
<1>3. CASE j \notin Metered
  <2>1. authorization[j] = "settled"
    BY <1>1, <1>3 DEF Money, Spent, LedgerInv, LedgerTypeOK, AuthorizationState
  <2> QED
    BY <1>1, <1>3, <2>1, SettledQuotaStays DEF Money, Spent
<1> QED
  BY <1>2, <1>3

(* Whoever is about to complete a job has seen its settlement, and it is   *)
(* still there when the job is completed, and ever after.                  *)
LEMMA CompletionsStep ==
  ASSUME QueueIInv, [QueueNext]_queueVars
  PROVE  CompletionsArePaid' /\ CompletedIsSettled'
<1>1. ASSUME NEW p \in Process, at'[p].step \in {"absolve", "complete"}
      PROVE  \E j \in Job : at'[p].job = j /\ Money(j)' \in Spent
  <2>1. CASE at'[p] = at[p]
    <3>1. PICK j \in Job : at[p].job = j /\ Money(j) \in Spent
      BY <1>1, <2>1 DEF QueueIInv, CompletionsArePaid
    <3>2. Money(j)' \in Spent
      BY <3>1, SpentStays
    <3> QED
      BY <2>1, <3>1, <3>2
  <2>2. CASE at'[p] # at[p]
    <3>1. ProcessMoves(p)
      BY HowProcessesMove
    <3>2. /\ at'[p].step \notin
               {"idle", "scan", "claim", "condemn", "inspect", "open", "receipt"}
          /\ \A j \in DOMAIN RequeueOf : at'[p] # [step |-> "record", job |-> j]
      BY <1>1
    <3> QED
      BY <1>1, <2>2, <3>1, <3>2 DEF ProcessMoves
  <2> QED
    BY <2>1, <2>2
<1>2. CompletionsArePaid'
  BY <1>1 DEF CompletionsArePaid, Money
<1>3. ASSUME NEW j \in Job, "completed" \in places'[j]
      PROVE  Money(j)' \in Spent
  <2>1. CASE In(j, "completed")
    <3>1. Money(j) \in Spent
      BY <2>1 DEF QueueIInv, CompletedIsSettled
    <3> QED
      BY <3>1, SpentStays
  <2>2. CASE ~In(j, "completed")
    <3>1. FileMoves(j)
      BY HowFilesMove
    <3>2. ~ (\/ Renamed(j, "queued", "running") \/ Renamed(j, "running", "queued")
             \/ Renamed(j, "queued", "quarantined"))
      BY <1>3, <2>2 DEF Renamed, In
    <3>3. \A place \in {"failed", "running"} : places'[j] # places[j] \cup {place}
      BY <1>3, <2>2 DEF In
    <3>4. /\ places'[j] # places[j] /\ places'[j] # places[j] \ {"running"}
          /\ places'[j] # {"queued"}
      BY <1>3, <2>2 DEF In
    <3>5. PICK p \in Process : at[p].step \in {"absolve", "complete"} /\ at[p].job = j
      BY <3>1, <3>2, <3>3, <3>4 DEF FileMoves
    <3>6. Money(j) \in Spent
      BY <3>5 DEF QueueIInv, CompletionsArePaid
    <3> QED
      BY <3>6, SpentStays
  <2> QED
    BY <2>1, <2>2
<1>4. CompletedIsSettled'
  BY <1>3 DEF CompletedIsSettled, In, Money
<1> QED
  BY <1>2, <1>4

(* The receipt precedes the move, and nothing takes it back.               *)
LEMMA EvictionsStep ==
  ASSUME QueueIInv, [QueueNext]_queueVars
  PROVE  EvictionsAreEvidenced' /\ QuarantineIsEvidenced'
<1>1. evicted \subseteq evicted'
  <2>1. ASSUME NEW p \in Process, RunNext(p) \/ Kill(p)
        PROVE  UNCHANGED evicted
    BY <2>1 DEF RunNext, Begin, Examine, Inspect, WriteOff, PassVerdict, Unlink,
         Route, Claim, Open, Restore, Prepare, WriteStart, LaunchWorker, Release,
         Settle, Kill, operatorState
  <2>2. ASSUME NEW p \in Process, Operate(p)
        PROVE  evicted \subseteq evicted'
    BY <2>2 DEF Operate, PlanQuarantine, WriteReceipt, Evict, PlanRequeue, Record,
         Enqueue, Commit, operatorState
  <2>3. ASSUME (\E j \in Job : Submit(j) \/ Drift(j) \/ Expire(j)) \/ UNCHANGED queueVars
        PROVE  UNCHANGED evicted
    BY <2>3 DEF Submit, Drift, Expire, queueVars, operatorState
  <2> QED
    BY <2>1, <2>2, <2>3 DEF QueueNext
<1>2. ASSUME NEW p \in Process, at'[p].step = "evict"
      PROVE  at'[p].job \in evicted'
  <2>1. CASE at'[p] = at[p]
    BY <1>1, <1>2, <2>1 DEF QueueIInv, EvictionsAreEvidenced
  <2>2. CASE at'[p] # at[p]
    <3>1. ProcessMoves(p)
      BY HowProcessesMove
    <3>2. \A j \in DOMAIN RequeueOf : at'[p] # [step |-> "record", job |-> j]
      BY <1>2
    <3> QED
      BY <1>2, <2>2, <3>1, <3>2 DEF ProcessMoves
  <2> QED
    BY <2>1, <2>2
<1>3. ASSUME NEW j \in Job, "quarantined" \in places'[j]
      PROVE  j \in evicted'
  <2>1. CASE In(j, "quarantined")
    BY <1>1, <2>1 DEF QueueIInv, QuarantineIsEvidenced
  <2>2. CASE ~In(j, "quarantined")
    <3>1. FileMoves(j)
      BY HowFilesMove
    <3>2. ~ (Renamed(j, "queued", "running") \/ Renamed(j, "running", "queued"))
      BY <1>3, <2>2 DEF Renamed, In
    <3>3. \A place \in {"failed", "completed", "running"} :
            places'[j] # places[j] \cup {place}
      BY <1>3, <2>2 DEF In
    <3>4. /\ places'[j] # places[j] /\ places'[j] # places[j] \ {"running"}
          /\ places'[j] # {"queued"}
      BY <1>3, <2>2 DEF In
    <3>5. PICK p \in Process : Doing(p, "evict", j)
      BY <3>1, <3>2, <3>3, <3>4 DEF FileMoves
    <3>6. at[p].step = "evict" /\ at[p].job = j
      BY <3>5 DEF Doing
    <3>7. j \in evicted
      BY <3>6 DEF QueueIInv, EvictionsAreEvidenced
    <3> QED
      BY <1>1, <3>7
  <2> QED
    BY <2>1, <2>2
<1> QED
  BY <1>2, <1>3 DEF EvictionsAreEvidenced, QuarantineIsEvidenced, In

(* How the record of a requeue moves.                                      *)
LEMMA HowRequeuesMove ==
  ASSUME QueueIInv, [QueueNext]_queueVars, NEW s \in DOMAIN RequeueOf
  PROVE  \/ requeues'[s] = requeues[s]
         \/ requeues[s] = "none" /\ requeues'[s] = "prepared"
         \/ places[RequeueOf[s]] # {} /\ requeues'[s] = "committed"
<1>0. /\ requeues \in [Job -> {"none", "prepared", "committed"}]
      /\ DOMAIN RequeueOf \subseteq Job /\ RequeuesAreFresh
  BY QueueAssumption DEF QueueIInv, QueueTypeOK
<1>1. ASSUME NEW p \in Process, RunNext(p) \/ Kill(p)
      PROVE  UNCHANGED requeues
  BY <1>1 DEF RunNext, Begin, Examine, Inspect, WriteOff, PassVerdict, Unlink,
       Route, Claim, Open, Restore, Prepare, WriteStart, LaunchWorker, Release,
       Settle, Kill, operatorState
<1>2. ASSUME NEW p \in Process,
             PlanQuarantine(p) \/ WriteReceipt(p) \/ Evict(p) \/ Enqueue(p)
      PROVE  UNCHANGED requeues
  BY <1>2 DEF PlanQuarantine, WriteReceipt, Evict, Enqueue, operatorState
<1>3. ASSUME NEW p \in Process, PlanRequeue(p) \/ Record(p)
      PROVE  \/ requeues'[s] = requeues[s]
             \/ requeues[s] = "none" /\ requeues'[s] = "prepared"
             \/ places[RequeueOf[s]] # {} /\ requeues'[s] = "committed"
  BY <1>0, <1>3 DEF PlanRequeue, Record
<1>4. ASSUME NEW p \in Process, Commit(p)
      PROVE  \/ requeues'[s] = requeues[s]
             \/ places[RequeueOf[s]] # {} /\ requeues'[s] = "committed"
  BY <1>0, <1>4 DEF Commit, Doing, RequeuesAreFresh
<1>5. ASSUME (\E j \in Job : Submit(j) \/ Drift(j) \/ Expire(j)) \/ UNCHANGED queueVars
      PROVE  UNCHANGED requeues
  BY <1>5 DEF Submit, Drift, Expire, queueVars, operatorState
<1> QED
  BY <1>1, <1>2, <1>3, <1>4, <1>5 DEF QueueNext, Operate

(* Only the requeue that prepared a new job can bring it into the queue.   *)
LEMMA OnlyItsRequeueEnters ==
  ASSUME QueueIInv, [QueueNext]_queueVars, NEW s \in DOMAIN RequeueOf,
         places[RequeueOf[s]] = {}, places'[RequeueOf[s]] # {}
  PROVE  /\ requeues'[s] = "prepared"
         /\ \E p \in Process : /\ at[p] = [step |-> "enqueue", job |-> s]
                               /\ at'[p] # at[p]
<1> DEFINE j == RequeueOf[s]
<1>0. j \in Job /\ j # NoJob /\ s \in Source(j)
  BY QueueAssumption DEF Source
<1>1. FileMoves(j)
  BY <1>0, HowFilesMove
<1>2. \A p \in Process : at[p].job # j
  BY <1>0 DEF QueueIInv, FilesExist
<1>3. ~In(j, "queued") /\ ~In(j, "running") /\ ~Decided(j)
  BY DEF In, Decided
<1>4. \A p \in Process, step \in {"restore", "start", "evict"} : ~Doing(p, step, j)
  BY <1>2 DEF Doing
<1>5. PICK p \in Process, t \in DOMAIN RequeueOf :
        /\ Doing(p, "enqueue", t) /\ RequeueOf[t] = j /\ UNCHANGED requeues
        /\ at'[p] = [step |-> "commit", job |-> t]
  BY <1>0, <1>1, <1>2, <1>3, <1>4 DEF FileMoves
<1>6. t = s
  BY <1>5, QueueAssumption
<1>7. at[p] = [step |-> "enqueue", job |-> s]
  BY <1>5, <1>6 DEF Doing
<1>8. at[p].step = "enqueue" /\ at[p].job = s /\ at'[p].step = "commit"
  BY <1>5, <1>7
<1>9. requeues[s] = "prepared"
  BY <1>8 DEF QueueIInv, RequeuesAreFresh
<1> QED
  BY <1>5, <1>7, <1>8, <1>9

(* A prepared requeue is one process's, and its new job's name is unused   *)
(* until that process writes it.                                           *)
LEMMA RequeuesStep ==
  ASSUME QueueIInv, [QueueNext]_queueVars
  PROVE  RequeuesAreFresh'
<1>0. /\ requeues \in [Job -> {"none", "prepared", "committed"}]
      /\ DOMAIN RequeueOf \subseteq Job /\ RequeuesAreFresh
      /\ \A s \in DOMAIN RequeueOf : RequeueOf[s] \in Job
  BY QueueAssumption DEF QueueIInv, QueueTypeOK
<1>1. ASSUME NEW s \in DOMAIN RequeueOf, requeues'[s] = "none"
      PROVE  places'[RequeueOf[s]] = {}
  <2>1. requeues[s] = "none"
    BY <1>1, HowRequeuesMove
  <2>2. places[RequeueOf[s]] = {}
    BY <1>0, <2>1 DEF RequeuesAreFresh
  <2> QED
    BY <1>1, <2>2, OnlyItsRequeueEnters
<1>2. ASSUME NEW p \in Process, at'[p].step = "enqueue"
      PROVE  /\ at'[p].job \in DOMAIN RequeueOf
             /\ requeues'[at'[p].job] = "prepared"
             /\ places'[RequeueOf[at'[p].job]] = {}
             /\ \A q \in Process : at'[q] = at'[p] => q = p
  <2> DEFINE s == at'[p].job
  <2>1. ASSUME NEW q \in Process, at'[q] # at[q], at'[q].step = "enqueue"
        PROVE  /\ at'[q].job \in DOMAIN RequeueOf
               /\ requeues[at'[q].job] = "none" /\ requeues'[at'[q].job] = "prepared"
               /\ UNCHANGED places
    <3>1. ProcessMoves(q)
      BY HowProcessesMove
    <3>2. \A j \in DOMAIN RequeueOf : at'[q] # [step |-> "record", job |-> j]
      BY <2>1
    <3> QED
      BY <2>1, <3>1, <3>2 DEF ProcessMoves
  <2>2. CASE at'[p] = at[p]
    <3>1. /\ s \in DOMAIN RequeueOf /\ requeues[s] = "prepared"
          /\ places[RequeueOf[s]] = {}
          /\ \A q \in Process : at[q] = at[p] => q = p
      BY <1>0, <1>2, <2>2 DEF RequeuesAreFresh
    <3>2. requeues'[s] = "prepared"
      BY <3>1, HowRequeuesMove
    <3>3. places'[RequeueOf[s]] = {}
      <4>1. SUFFICES ASSUME places'[RequeueOf[s]] # {} PROVE FALSE
        OBVIOUS
      <4>2. PICK q \in Process :
              at[q] = [step |-> "enqueue", job |-> s] /\ at'[q] # at[q]
        BY <3>1, <4>1, OnlyItsRequeueEnters
      <4>3. at[p] = [step |-> "enqueue", job |-> s]
        BY <1>2, <2>2 DEF QueueIInv, ProcessesTypeOK
      <4> QED
        BY <2>2, <3>1, <4>2, <4>3
    <3>4. ASSUME NEW q \in Process, at'[q] = at'[p]
          PROVE  q = p
      <4>1. CASE at'[q] = at[q]
        BY <2>2, <3>1, <3>4, <4>1
      <4>2. CASE at'[q] # at[q]
        <5>1. requeues[at'[q].job] = "none"
          BY <1>2, <2>1, <3>4, <4>2
        <5> QED
          BY <3>1, <3>4, <5>1
      <4> QED
        BY <4>1, <4>2
    <3> QED
      BY <3>1, <3>2, <3>3, <3>4
  <2>3. CASE at'[p] # at[p]
    <3>1. /\ s \in DOMAIN RequeueOf /\ requeues[s] = "none"
          /\ requeues'[s] = "prepared" /\ UNCHANGED places
      BY <1>2, <2>1, <2>3
    <3>2. places'[RequeueOf[s]] = {}
      BY <1>0, <3>1 DEF RequeuesAreFresh
    <3>3. ASSUME NEW q \in Process, at'[q] = at'[p], q # p
          PROVE  FALSE
      <4>1. at'[q] = at[q]
        BY <2>3, <3>3, OneProcessMoves
      <4>2. at[q].step = "enqueue" /\ at[q].job = s
        BY <1>2, <3>3, <4>1
      <4> QED
        BY <1>0, <3>1, <4>2 DEF RequeuesAreFresh
    <3> QED
      BY <3>1, <3>2, <3>3
  <2> QED
    BY <2>2, <2>3
<1>3. ASSUME NEW p \in Process, at'[p].step = "commit"
      PROVE  /\ at'[p].job \in DOMAIN RequeueOf
             /\ places'[RequeueOf[at'[p].job]] # {}
  <2>1. CASE at'[p] = at[p]
    <3>1. at'[p].job \in DOMAIN RequeueOf /\ places[RequeueOf[at'[p].job]] # {}
      BY <1>0, <1>3, <2>1 DEF RequeuesAreFresh
    <3> QED
      BY <1>0, <3>1, FilesStay
  <2>2. CASE at'[p] # at[p]
    <3>1. ProcessMoves(p)
      BY HowProcessesMove
    <3>2. \A j \in DOMAIN RequeueOf : at'[p] # [step |-> "record", job |-> j]
      BY <1>3
    <3> QED
      BY <1>3, <2>2, <3>1, <3>2 DEF ProcessMoves
  <2> QED
    BY <2>1, <2>2
<1> QED
  BY <1>1, <1>2, <1>3 DEF RequeuesAreFresh

(* Every variable keeps its type.                                          *)
LEMMA QueueTypeStep ==
  ASSUME QueueIInv, [QueueNext]_queueVars, LedgerInv', ProcessesTypeOK'
  PROVE  QueueTypeOK'
<1>0. /\ places \in [Job -> SUBSET Place]
      /\ corrupt \subseteq Job /\ late \subseteq Job /\ evicted \subseteq Job
      /\ evidence \in [Job -> {"fit", "stale", "misrouted"}]
      /\ requeues \in [Job -> {"none", "prepared", "committed"}]
      /\ kills \in 0..MaxKills
      /\ MaxKills \in Nat /\ DOMAIN RequeueOf \subseteq Job
      /\ \A s \in DOMAIN RequeueOf : RequeueOf[s] \in Job
  BY QueueAssumption DEF QueueIInv, QueueTypeOK
<1> DEFINE WorldTypeOK ==
      /\ places \in [Job -> SUBSET Place]
      /\ corrupt \subseteq Job /\ late \subseteq Job /\ evicted \subseteq Job
      /\ evidence \in [Job -> {"fit", "stale", "misrouted"}]
      /\ requeues \in [Job -> {"none", "prepared", "committed"}]
      /\ kills \in 0..MaxKills
<1> USE <1>0 DEF disk, operatorState, world
<1>1. ASSUME NEW p \in Process,
             Begin(p) \/ Examine(p) \/ Inspect(p) \/ WriteOff(p) \/ Route(p)
               \/ Open(p) \/ Prepare(p) \/ LaunchWorker(p) \/ Release(p) \/ Settle(p)
      PROVE  WorldTypeOK'
  BY <1>1 DEF Begin, Examine, Inspect, WriteOff, Route, Open, Prepare,
       LaunchWorker, Release, Settle
<1>2. ASSUME NEW p \in Process, PassVerdict(p) \/ Unlink(p) \/ Claim(p) \/ Restore(p)
      PROVE  WorldTypeOK'
  BY <1>2 DEF PassVerdict, Verdict, Unlink, Claim, Restore, Put, Drop, Rename, Place
<1>3. ASSUME NEW p \in Process, WriteStart(p) \/ Evict(p) \/ Enqueue(p)
      PROVE  WorldTypeOK'
  BY <1>3 DEF WriteStart, Evict, Enqueue, Put, Rename, Place
<1>4. ASSUME NEW p \in Process,
             PlanQuarantine(p) \/ WriteReceipt(p) \/ PlanRequeue(p) \/ Record(p)
               \/ Commit(p) \/ Kill(p)
      PROVE  WorldTypeOK'
  BY <1>4 DEF PlanQuarantine, WriteReceipt, PlanRequeue, Record, Commit, Kill
<1>5. ASSUME NEW j \in Job, Submit(j) \/ Drift(j) \/ Expire(j)
      PROVE  WorldTypeOK'
  BY <1>5 DEF Submit, Drift, Expire, Put, Place
<1>6. ASSUME UNCHANGED queueVars
      PROVE  WorldTypeOK'
  BY <1>6 DEF queueVars
<1>7. WorldTypeOK'
  BY <1>1, <1>2, <1>3, <1>4, <1>5, <1>6 DEF QueueNext, RunNext, Operate
<1>8. \A p \in Process : at'[p].job \in Job \cup {NoJob} /\ todo'[p] \subseteq Job
  BY DEF ProcessesTypeOK
<1> QED
  BY <1>7, <1>8 DEF QueueTypeOK, LedgerInv

(* The invariant is inductive.                                             *)
LEMMA QueueIInvIsInductive == QueueIInv /\ [QueueNext]_queueVars => QueueIInv'
<1> SUFFICES ASSUME QueueIInv, [QueueNext]_queueVars
             PROVE  QueueIInv'
  OBVIOUS
<1>1. LedgerInv'
  BY QueueStepIsLedgerStep, LedgerNextInv, LedgerStutterInv DEF QueueIInv
<1>2. ProcessesTypeOK'
  BY OneProcessMoves
<1>3. QueueTypeOK'
  BY <1>1, <1>2, QueueTypeStep
<1> QED
  BY <1>1, <1>2, <1>3, FilesExistStep, ClaimsStep, VerdictsStep, CompletionsStep,
     EvictionsStep, RequeuesStep
  DEF QueueIInv

(* The invariant holds in every state of the queue.                        *)
LEMMA QueueIInvAlways == QueueSpec => []QueueIInv
  BY QueueIInvInitially, QueueIInvIsInductive, PTL DEF QueueSpec

-----------------------------------------------------------------------------
(* The theorems                                                            *)

(* With any number of processes racing and being killed, two never work on *)
(* the same job, and whatever is quarantined has its receipt.              *)
THEOREM QueueInvCorrect == QueueSpec => []QueueInv
<1>1. QueueIInv => QueueInv
  BY DEF QueueIInv, QueueInv
<1> QED
  BY <1>1, QueueIInvAlways, PTL

(* A job is recorded as completed only when its cash is settled or         *)
(* reconciled, or its quota authorization settled, and stays so.           *)
THEOREM CompletedIsSettledCorrect == QueueSpec => []CompletedIsSettled
<1>1. QueueIInv => CompletedIsSettled
  BY DEF QueueIInv
<1> QED
  BY <1>1, QueueIInvAlways, PTL

(* No interleaving of claims, verdicts, evictions and requeues loses a job *)
(* or brings one back to the queue that is not being put back from running.*)
THEOREM JobsAreKeptCorrect == QueueSpec => JobsAreKept
<1>1. QueueIInv /\ [QueueNext]_queueVars =>
        [\A j \in Job : places[j] # {} => places'[j] # {}]_queueVars
  BY FilesStay
<1>2. QueueIInv /\ [QueueNext]_queueVars =>
        [\A j \in Job :
           places[j] # {} /\ ~In(j, "queued") /\ "queued" \in places'[j]
             => In(j, "running") /\ "running" \notin places'[j]]_queueVars
  BY BackFromRunning
<1> QED
  BY <1>1, <1>2, QueueIInvAlways, PTL
  DEF QueueSpec, JobsAreKept, NothingIsLost, RequeuedOnce

(* Authority that a recovery wrote off, or that was settled or released,   *)
(* launches no worker, whatever the claim saw when it was prepared.        *)
THEOREM WrittenOffIsNotRunCorrect == QueueSpec => WrittenOffIsNotRun
<1>1. ASSUME QueueIInv, [QueueNext]_queueVars, NEW p \in Process, NEW j \in Job,
             Doing(p, "launch", j),
             authorization[j] \in {"settled", "released", "uncertain"},
             at'[p].step = "work"
      PROVE  FALSE
  <2>1. at[p].step = "launch" /\ at[p].job = j
    BY <1>1 DEF Doing
  <2>2. PICK q \in Process : LaunchWorker(q) /\ (\A r \in Process \ {q} : at'[r] = at[r])
    <3>0. ProcessesTypeOK
      BY <1>1 DEF QueueIInv
    <3>1. ASSUME NEW q \in Process, RunNext(q) \/ Operate(q) \/ Kill(q), ~LaunchWorker(q)
          PROVE  at'[p] = at[p] \/ at'[p].step # "work"
      <4>1. CASE Begin(q) \/ Examine(q) \/ Inspect(q) \/ WriteOff(q) \/ PassVerdict(q)
                 \/ Unlink(q) \/ Route(q) \/ Claim(q) \/ Kill(q)
        BY <3>0, <4>1 DEF ProcessesTypeOK, Begin, Examine, Inspect, WriteOff, PassVerdict,
             Verdict, Unlink, Route, Claim, Kill, Leave, Goto
      <4>2. CASE Open(q) \/ Restore(q) \/ Prepare(q) \/ WriteStart(q) \/ Release(q)
                 \/ Settle(q)
        BY <3>0, <4>2 DEF ProcessesTypeOK, Open, Restore, Prepare, WriteStart, Release,
             Settle, Unsettled, Leave, Goto
      <4>3. CASE Operate(q)
        BY <3>0, <4>3 DEF ProcessesTypeOK, Operate, PlanQuarantine, WriteReceipt, Evict,
             PlanRequeue, Record, Enqueue, Commit, Leave, Goto
      <4> QED
        BY <3>1, <4>1, <4>2, <4>3 DEF RunNext
    <3>2. ASSUME (\E k \in Job : Submit(k) \/ Drift(k) \/ Expire(k)) \/ UNCHANGED queueVars
          PROVE  UNCHANGED at
      BY <3>2 DEF Submit, Drift, Expire, queueVars
    <3>3. ASSUME NEW q \in Process, LaunchWorker(q)
          PROVE  \A r \in Process \ {q} : at'[r] = at[r]
      BY <3>0, <3>3 DEF ProcessesTypeOK, LaunchWorker, Goto
    <3> QED
      BY <1>1, <2>1, <3>1, <3>2, <3>3 DEF QueueNext
  <2>3. q = p
    BY <1>1, <2>1, <2>2
  <2>4. PICK k \in Job :
          /\ Doing(p, "launch", k)
          /\ \/ authorization[k] = "active"
             \/ Goto(p, "fail", k)
    BY <2>2, <2>3 DEF LaunchWorker, Consume, Launch
  <2>5. k = j
    BY <2>1, <2>4 DEF Doing
  <2> QED
    BY <1>1, <2>4, <2>5 DEF Goto, QueueIInv, ProcessesTypeOK
<1>2. QueueIInv /\ [QueueNext]_queueVars =>
        [\A p \in Process, j \in Job :
           Doing(p, "launch", j) /\ authorization[j] \in {"settled", "released", "uncertain"}
             => at'[p].step # "work"]_queueVars
  BY <1>1
<1> QED
  BY <1>2, QueueIInvAlways, PTL DEF QueueSpec, WrittenOffIsNotRun
=============================================================================
