------------------------------ MODULE AiJobQueue ------------------------------
(***************************************************************************)
(* The AI job queue (scripts/ai_jobs.py, scripts/ai_job_quarantine.py): a  *)
(* directory per queue state, a file per job, and any number of short      *)
(* processes running `run-next`, `quarantine` or `requeue`, each of which  *)
(* may be killed between two file operations.  There is no lock: renaming  *)
(* a file claims it, and every process first passes a verdict on running   *)
(* jobs that look abandoned.  Paid jobs spend the authority kept by the    *)
(* budget ledger, whose operations this module takes from                  *)
(* DispatchAuthority.  --worker-dry-run, which launches nothing, is left   *)
(* out.                                                                    *)
(***************************************************************************)
EXTENDS Naturals, DispatchAuthority

CONSTANTS
  NoJob,          \* what a process that is about no job names
  Process,        \* processes that run a command of the queue, one at a time
  RequeueOf,      \* the new job made of a quarantined one, by its old id
  MaxKills        \* bound on the number of killed processes

(* A new job is named by the digest of the quarantined one's id: no two    *)
(* jobs share one.                                                         *)
ASSUME QueueAssumption ==
  /\ Job = Metered \cup IncludedQuota
  /\ RequeueOf \in [DOMAIN RequeueOf -> Job]
  /\ DOMAIN RequeueOf \subseteq Job
  /\ \A s, t \in DOMAIN RequeueOf : RequeueOf[s] = RequeueOf[t] => s = t
  /\ NoJob \notin Job
  /\ MaxKills \in Nat

VARIABLES
  places,     \* the directories that hold a file of the job
  corrupt,    \* jobs whose file does not decode to a valid job
  evidence,   \* what dispatch finds: "fit", "stale" or "misrouted"
  late,       \* jobs whose recorded time plus timeout plus grace has passed
  evicted,    \* jobs with a quarantine receipt
  requeues,   \* the requeue record of each job
  at,         \* the next step of each process and the job it is about
  todo,       \* running jobs a process has listed and not yet examined
  kills

disk == <<places, late>>
operatorState == <<evicted, requeues>>
world == <<corrupt, evidence, kills>>
queueVars == <<disk, operatorState, world, at, todo, ledgerVars>>

Place == {"queued", "running", "completed", "failed", "quarantined"}
Source(j) == {s \in DOMAIN RequeueOf : RequeueOf[s] = j}

In(j, place) == place \in places[j]
Put(j, place) == places' = [places EXCEPT ![j] = @ \cup {place}]
Drop(j, place) == places' = [places EXCEPT ![j] = @ \ {place}]
Rename(j, from, to) == places' = [places EXCEPT ![j] = (@ \ {from}) \cup {to}]

Goto(p, step, j) == at' = [at EXCEPT ![p] = [step |-> step, job |-> j]]
Leave(p) == Goto(p, "idle", NoJob)
Doing(p, step, j) == at[p] = [step |-> step, job |-> j]
Idle(p) == at[p].step = "idle"

QueueInit ==
  /\ places = [j \in Job |-> {}]
  /\ corrupt \in SUBSET {j \in Job : Source(j) = {}}
  /\ evidence = [j \in Job |-> "fit"]
  /\ late = {} /\ evicted = {}
  /\ requeues = [j \in Job |-> "none"]
  /\ at = [p \in Process |-> [step |-> "idle", job |-> NoJob]]
  /\ todo = [p \in Process |-> {}]
  /\ kills = 0
  /\ LedgerInit

-----------------------------------------------------------------------------
(* run-next, first: verdicts on abandoned running jobs                     *)

Begin(p) ==
  /\ Idle(p)
  /\ Goto(p, "scan", NoJob)
  /\ todo' = [todo EXCEPT ![p] = {j \in Job : In(j, "running")}]
  /\ UNCHANGED <<disk, operatorState, world, ledgerVars>>

(* A listed file that cannot be read is condemned like a corrupt one, also *)
(* when its owner finished or restored the job since it was listed.        *)
Readable(j) == In(j, "running") /\ j \notin corrupt

NeverAbandoned(j) == FALSE  \* mutant of Abandoned
Abandoned(j) == j \in late

Examine(p) ==
  /\ Doing(p, "scan", NoJob)
  /\ \E j \in todo[p] :
       /\ todo' = [todo EXCEPT ![p] = @ \ {j}]
       /\ CASE ~Readable(j) -> Goto(p, "condemn", j)
            [] Readable(j) /\ Abandoned(j) -> Goto(p, "inspect", j)
            [] OTHER -> UNCHANGED at
  /\ UNCHANGED <<disk, operatorState, world, ledgerVars>>

(* recover_paid_dispatch reads the job's money: a reservation if there is  *)
(* one, a quota authorization otherwise.                                   *)
Money(j) == IF j \in Metered THEN reservation[j] ELSE authorization[j]
Spent == {"settled", "reconciled"}

Inspect(p) ==
  /\ \E j \in Job :
       /\ Doing(p, "inspect", j)
       /\ \/ Money(j) \in Spent /\ Goto(p, "absolve", j)
          \/ Money(j) \in {"dispatching", "active", "launched"} /\ Goto(p, "write-off", j)
          \/ Money(j) \in {"none", "uncertain", "released"} /\ Goto(p, "condemn", j)
          \/ Goto(p, "condemn", j)    \* the ledger does not answer
  /\ UNCHANGED <<disk, operatorState, world, todo, ledgerVars>>

(* The hold is marked in a transaction of its own; it may fail, or find    *)
(* that the owner has settled meanwhile.                                   *)
WriteOff(p) ==
  /\ \E j \in Job :
       /\ Doing(p, "write-off", j)
       /\ Goto(p, "condemn", j)
       /\ \/ LedgerOpens /\ j \in Metered /\ MarkReservationUncertain(j)
          \/ LedgerOpens /\ MarkQuotaUncertain(j)
          \/ UNCHANGED ledgerVars
  /\ UNCHANGED <<disk, operatorState, world, todo>>

VerdictReplacesFile(p, step, place, next) ==  \* mutant of Verdict: unlink first
  \E j \in Job :
    /\ Doing(p, step, j)
    /\ Drop(j, "running")
    /\ Goto(p, next, j)

(* A verdict is written before the running file is unlinked.               *)
Verdict(p, step, place, next) ==
  \E j \in Job :
    /\ Doing(p, step, j)
    /\ Put(j, place)
    /\ Goto(p, next, j)

PassVerdict(p) ==
  /\ \/ Verdict(p, "condemn", "failed", "clear")
     \/ Verdict(p, "absolve", "completed", "clear")
     \/ Verdict(p, "fail", "failed", "unlink")
     \/ Verdict(p, "complete", "completed", "unlink")
  /\ UNCHANGED <<late, operatorState, world, todo, ledgerVars>>

Unlink(p) ==
  /\ \E j \in Job :
       /\ Drop(j, "running")
       /\ \/ Doing(p, "clear", j) /\ Goto(p, "scan", NoJob)
          \/ Doing(p, "unlink", j) /\ Leave(p)
  /\ UNCHANGED <<late, operatorState, world, todo, ledgerVars>>

-----------------------------------------------------------------------------
(* run-next, second: claiming and launching one queued job                 *)

(* One readable queued job with a bad route blocks the whole queue.        *)
Route(p) ==
  /\ Doing(p, "scan", NoJob) /\ todo[p] = {}
  /\ IF \E j \in Job \ corrupt : In(j, "queued") /\ evidence[j] = "misrouted"
       THEN Leave(p)
       ELSE Goto(p, "claim", NoJob)
  /\ UNCHANGED <<disk, operatorState, world, todo, ledgerVars>>

ClaimByCopy(p) ==  \* mutant of Claim: the queued file stays
  /\ Doing(p, "claim", NoJob)
  /\ \E j \in Job : In(j, "queued") /\ Put(j, "running") /\ Goto(p, "open", j)
  /\ UNCHANGED <<late, operatorState, world, todo, ledgerVars>>

(* Files are tried in name order; with the races on the listing, any       *)
(* queued job may be the first that can still be renamed.                  *)
Claim(p) ==
  /\ Doing(p, "claim", NoJob)
  /\ \/ \E j \in Job :
          In(j, "queued") /\ Rename(j, "queued", "running") /\ Goto(p, "open", j)
     \/ /\ \A j \in Job : ~In(j, "queued")
        /\ Leave(p) /\ UNCHANGED places
  /\ UNCHANGED <<late, operatorState, world, todo, ledgerVars>>

(* The claimed file keeps the time of its submission until it is written.  *)
Open(p) ==
  /\ \E j \in Job :
       /\ Doing(p, "open", j)
       /\ Goto(p, CASE ~Readable(j) -> "fail"
                    [] Readable(j) /\ evidence[j] # "fit" -> "restore"
                    [] OTHER -> "prepare", j)
  /\ UNCHANGED <<disk, operatorState, world, todo, ledgerVars>>

Restore(p) ==
  /\ \E j \in Job :
       /\ Doing(p, "restore", j)
       /\ IF In(j, "running") THEN Rename(j, "running", "queued") ELSE UNCHANGED places
  /\ Leave(p)
  /\ UNCHANGED <<late, operatorState, world, todo, ledgerVars>>

(* Every lane of the queue is billed.  A policy, evidence or ledger        *)
(* failure puts the job back.                                              *)
Prepare(p) ==
  /\ \E j \in Job :
       /\ Doing(p, "prepare", j)
       /\ \/ LedgerOpens /\ Authorize(j) /\ Goto(p, "start", j)
          \/ Goto(p, "restore", j) /\ UNCHANGED ledgerVars
  /\ UNCHANGED <<disk, operatorState, world, todo>>

(* Writing the job with its start time brings back a file that another     *)
(* process has unlinked.                                                   *)
WriteStart(p) ==
  /\ \E j \in Job :
       /\ Doing(p, "start", j)
       /\ Put(j, "running")
       /\ late' = late \ {j}
       /\ Goto(p, "launch", j)
  /\ UNCHANGED <<operatorState, world, todo, ledgerVars>>

ConsumeAnyState(j) == LaunchUnchecked(j)  \* mutant of Consume
Consume(j) == Launch(j)

(* The authorization is consumed; one that another process took away fails *)
(* the job, one that went stale is released first.                         *)
LaunchWorker(p) ==
  /\ \E j \in Job :
       /\ Doing(p, "launch", j)
       /\ \/ LedgerOpens /\ Consume(j) /\ Goto(p, "work", j)
          \/ /\ authorization[j] # "active"
             /\ Goto(p, "fail", j) /\ UNCHANGED ledgerVars
          \/ /\ authorization[j] = "active"
             /\ Goto(p, "release", j) /\ UNCHANGED ledgerVars
  /\ UNCHANGED <<disk, operatorState, world, todo>>

Release(p) ==
  /\ \E j \in Job :
       /\ Doing(p, "release", j)
       /\ Goto(p, "fail", j)
       /\ \/ LedgerOpens /\ (ReconcileNoCharge(j) \/ ReleaseQuota(j))
          \/ UNCHANGED ledgerVars
  /\ UNCHANGED <<disk, operatorState, world, todo>>

CompleteUnsettled(p, j) ==  \* mutant of Unsettled: its answer is dropped
  Goto(p, "complete", j)
Unsettled(p, j) == Goto(p, "fail", j)

(* The bounded worker has ended, well or not, and its usage is settled. A  *)
(* successful worker completes the job only with its settlement.           *)
Settle(p) ==
  /\ \E j \in Job :
       /\ Doing(p, "work", j)
       /\ \/ /\ LedgerOpens /\ (SettleReservation(j) \/ SettleQuota(j))
             /\ \E verdict \in {"complete", "fail"} : Goto(p, verdict, j)
          \/ /\ LedgerOpens
             /\ (j \in Metered /\ MarkReservationUncertain(j)) \/ MarkQuotaUncertain(j)
             /\ Unsettled(p, j)
          \/ LedgerOpens /\ ReconcileNoCharge(j) /\ Goto(p, "fail", j)
          \/ UNCHANGED ledgerVars /\ Unsettled(p, j)
  /\ UNCHANGED <<disk, operatorState, world, todo>>

-----------------------------------------------------------------------------
(* quarantine and requeue                                                  *)

PlanQuarantine(p) ==
  /\ Idle(p)
  /\ \E j \in Job :
       /\ In(j, "queued")
       /\ j \in corrupt \/ evidence[j] # "fit"
       /\ Goto(p, "receipt", j)
  /\ UNCHANGED <<disk, operatorState, world, todo, ledgerVars>>

(* A receipt left by an earlier attempt may give another reason.           *)
WriteReceipt(p) ==
  /\ \E j \in Job :
       /\ Doing(p, "receipt", j)
       /\ evicted' = evicted \cup {j}
       /\ \/ Goto(p, "evict", j)
          \/ j \in evicted /\ Leave(p)
  /\ UNCHANGED <<disk, requeues, world, todo, ledgerVars>>

(* The job may have been claimed since its bytes were compared.            *)
Evict(p) ==
  /\ \E j \in Job :
       /\ Doing(p, "evict", j)
       /\ IF In(j, "queued") /\ ~In(j, "quarantined")
            THEN Rename(j, "queued", "quarantined")
            ELSE UNCHANGED places
  /\ Leave(p)
  /\ UNCHANGED <<late, operatorState, world, todo, ledgerVars>>

(* A repeated requeue finds the record: it finishes a record whose job it  *)
(* finds in the queue's directories, and refuses to go on otherwise.       *)
PlanRequeue(p) ==
  /\ Idle(p)
  /\ \E j \in DOMAIN RequeueOf :
       /\ In(j, "quarantined") /\ j \in evicted \ corrupt
       /\ \/ /\ requeues[j] = "none"
             /\ Goto(p, "record", j) /\ UNCHANGED requeues
          \/ /\ requeues[j] = "prepared"
             /\ places[RequeueOf[j]] \cap (Place \ {"quarantined"}) # {}
             /\ requeues' = [requeues EXCEPT ![j] = "committed"]
             /\ UNCHANGED at
  /\ UNCHANGED <<disk, evicted, world, todo, ledgerVars>>

Record(p) ==
  /\ \E j \in DOMAIN RequeueOf :
       /\ Doing(p, "record", j)
       /\ IF requeues[j] = "none"
            THEN requeues' = [requeues EXCEPT ![j] = "prepared"] /\ Goto(p, "enqueue", j)
            ELSE UNCHANGED requeues /\ Leave(p)
  /\ UNCHANGED <<disk, evicted, world, todo, ledgerVars>>

Enqueue(p) ==
  /\ \E j \in DOMAIN RequeueOf :
       /\ Doing(p, "enqueue", j)
       /\ ~In(RequeueOf[j], "queued")
       /\ Put(RequeueOf[j], "queued")
       /\ Goto(p, "commit", j)
  /\ UNCHANGED <<late, operatorState, world, todo, ledgerVars>>

Commit(p) ==
  /\ \E j \in DOMAIN RequeueOf :
       /\ Doing(p, "commit", j)
       /\ requeues' = [requeues EXCEPT ![j] = "committed"]
  /\ Leave(p)
  /\ UNCHANGED <<disk, evicted, world, todo, ledgerVars>>

-----------------------------------------------------------------------------
(* Everything else                                                         *)

Submit(j) ==
  /\ places[j] = {} /\ Source(j) = {}
  /\ Put(j, "queued")
  /\ UNCHANGED <<late, operatorState, world, at, todo, ledgerVars>>

(* The checkout, the issue or the provider registry moves on.              *)
Drift(j) ==
  /\ evidence[j] = "fit" /\ places[j] # {}
  /\ \E finding \in {"stale", "misrouted"} :
       evidence' = [evidence EXCEPT ![j] = finding]
  /\ UNCHANGED <<disk, operatorState, corrupt, kills, at, todo, ledgerVars>>

Expire(j) ==
  /\ places[j] \cap {"queued", "running"} # {} /\ j \notin late
  /\ late' = late \cup {j}
  /\ UNCHANGED <<places, operatorState, world, at, todo, ledgerVars>>

Kill(p) ==
  /\ kills < MaxKills /\ ~Idle(p)
  /\ kills' = kills + 1
  /\ Leave(p)
  /\ todo' = [todo EXCEPT ![p] = {}]
  /\ UNCHANGED <<disk, operatorState, corrupt, evidence, ledgerVars>>

RunNext(p) ==
  \/ Begin(p) \/ Examine(p) \/ Inspect(p) \/ WriteOff(p) \/ PassVerdict(p)
  \/ Unlink(p) \/ Route(p) \/ Claim(p) \/ Open(p) \/ Restore(p) \/ Prepare(p)
  \/ WriteStart(p) \/ LaunchWorker(p) \/ Release(p) \/ Settle(p)

Operate(p) ==
  \/ PlanQuarantine(p) \/ WriteReceipt(p) \/ Evict(p)
  \/ PlanRequeue(p) \/ Record(p) \/ Enqueue(p) \/ Commit(p)

QueueNext ==
  \/ \E p \in Process : RunNext(p) \/ Operate(p) \/ Kill(p)
  \/ \E j \in Job : Submit(j) \/ Drift(j) \/ Expire(j)

QueueSpec == QueueInit /\ [][QueueNext]_queueVars

-----------------------------------------------------------------------------
(* Properties                                                              *)

(* Every variable keeps its type.                                          *)
QueueTypeOK ==
  /\ places \in [Job -> SUBSET Place]
  /\ corrupt \subseteq Job /\ late \subseteq Job /\ evicted \subseteq Job
  /\ evidence \in [Job -> {"fit", "stale", "misrouted"}]
  /\ requeues \in [Job -> {"none", "prepared", "committed"}]
  /\ \A p \in Process : at[p].job \in Job \cup {NoJob} /\ todo[p] \subseteq Job
  /\ kills \in 0..MaxKills
  /\ LedgerTypeOK

(* A submitted job stays on disk, in one directory at least, whichever     *)
(* processes race for it or are killed while they move it.                 *)
NothingIsLost == [][\A j \in Job : places[j] # {} => places'[j] # {}]_queueVars

ClaimStep == {"open", "restore", "prepare", "start", "launch", "release", "work",
              "fail", "complete"}

(* tests/test_ai_jobs.py: concurrent run-next processes work on distinct   *)
(* jobs, also when others pass a verdict on the job, restore or evict it.  *)
ClaimsAreExclusive ==
  \A p, q \in Process :
    p # q /\ at[p].step \in ClaimStep /\ at[q].step \in ClaimStep
      => at[p].job # at[q].job

(* A worker is never launched on authority that a recovery wrote off while *)
(* the claim was being prepared, or that was settled or released before.   *)
WrittenOffIsNotRun ==
  [][\A p \in Process, j \in Job :
       Doing(p, "launch", j) /\ authorization[j] \in {"settled", "released", "uncertain"}
         => at'[p].step # "work"]_queueVars

(* Whoever completes a paid job, its worker's supervisor or a later        *)
(* recovery, the ledger has its settlement, and keeps it.                  *)
CompletedIsSettled ==
  \A j \in Job : In(j, "completed") => Money(j) \in Spent

(* AGENT_CONTROL_PLANE: the receipt is committed before the move, so every *)
(* quarantined job has the evidence that a requeue asks for.               *)
QuarantineIsEvidenced == \A j \in Job : In(j, "quarantined") => j \in evicted

(* AGENT_CONTROL_PLANE: a durable record makes a repeated requeue          *)
(* idempotent across all queue states; a job that exists comes back to the *)
(* queue only by being put back from running.                              *)
RequeuedOnce ==
  [][\A j \in Job :
       places[j] # {} /\ ~In(j, "queued") /\ "queued" \in places'[j]
         => In(j, "running") /\ "running" \notin places'[j]]_queueVars

(* However claims, verdicts, evictions and recoveries interleave, a job has*)
(* one worker at a time and what was evicted has its evidence.             *)
QueueInv == QueueTypeOK /\ ClaimsAreExclusive /\ QuarantineIsEvidenced

(* Killed moves and repeated requeues neither lose a job nor bring back one*)
(* that was decided.                                                       *)
JobsAreKept == NothingIsLost /\ RequeuedOnce

(* tests/test_ai_jobs.py: concurrent run-next processes work on distinct   *)
(* jobs once, so no process records a job as failed that another completed.*)
OneVerdict == \A j \in Job : ~(In(j, "completed") /\ In(j, "failed"))

(* The factory keeps calling run-next, workers are bounded and time passes.*)
QueueFairness ==
  /\ \A p \in Process : WF_queueVars(RunNext(p)) /\ WF_queueVars(Operate(p) /\ ~Idle(p))
  /\ \A j \in Job : WF_queueVars(Expire(j))

QueueLiveSpec == QueueSpec /\ QueueFairness

(* No job stays in running for ever: its owner, or after the owner's death *)
(* the recovery of a later run-next, takes it out.                         *)
RunningIsResolved == \A j \in Job : In(j, "running") ~> ~In(j, "running")
=============================================================================
