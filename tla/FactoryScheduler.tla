--------------------------- MODULE FactoryScheduler ---------------------------
(***************************************************************************)
(* The factory scheduler (scripts/factory_scheduler*.py): short-lived CLI  *)
(* processes share one SQLite database that holds a clock row, one lease,  *)
(* the accepted assignments and one execution row for each of them.        *)
(* Processes die at any moment.  Every operation is one BEGIN IMMEDIATE    *)
(* transaction, and the paid ones run under the ledger's own write lock,   *)
(* so every action is atomic and reads the ledger's current state; the     *)
(* ledger's operations interleave with the scheduler's.                    *)
(***************************************************************************)
EXTENDS Naturals, DispatchAuthority, RetryPolicy

CONSTANTS
  Owner,              \* process identities: owner id, pid and start token
  NoOwner,            \* no process: no lease row, no execution row
  Request,            \* assignment requests, by request id
  JobOf,              \* the job each request names
  ScopeOf,            \* the issue and worktree each request names
  PaidRequest,        \* worker_class "paid"; the others are "free-local"
  WriteRequest,       \* access_mode "write"; the others are "read-only"
  NamesReservation,   \* requests carrying their job's reservation_id
  NamesAuthorization, \* requests carrying their job's authorization_id
  LeaseLengths,       \* lease_seconds a process may ask for
  MaxReceipts,        \* capacity of scheduler_recovery_receipts
  MaxTime             \* bound: no operation happens after this instant

ASSUME SchedulerAssumption ==
  /\ NoOwner \notin Owner
  /\ JobOf \in [Request -> Job]
  /\ PaidRequest \subseteq Request
  /\ WriteRequest \subseteq Request
  /\ NamesReservation \cup NamesAuthorization = PaidRequest
  /\ LeaseLengths \subseteq Nat \ {0}
  /\ MaxReceipts \in Nat
  /\ MaxTime \in Nat

VARIABLES
  alive,      \* processes that have not died
  clock,      \* scheduler_clock.last_observed_at_utc
  lastEpoch,  \* scheduler_clock.last_epoch
  lease,      \* scheduler_lease: [owner, epoch, expires]
  state,      \* scheduler_assignments.state, "none" without a row
  exec,       \* scheduler_execution_state of each assignment
  receipts    \* rows in scheduler_recovery_receipts

schedulerVars == <<alive, clock, lastEpoch, lease, state, exec, receipts>>
vars == <<schedulerVars, ledgerVars>>

Idle == {"never-dispatched", "retry-wait"}
Terminal == {"completed", "failed"}
Phase == Idle \cup Terminal \cup
  {"dispatch-intent", "dispatched", "completed-unsettled", "uncertain"}

Lease == [owner : Owner \cup {NoOwner}, epoch : Nat, expires : Nat]
Execution ==
  [phase : Phase, attempts : Nat, owner : Owner \cup {NoOwner}, epoch : Nat,
   expires : Nat, created : Nat, retryAt : Nat]

NoLease == [owner |-> NoOwner, epoch |-> 0, expires |-> 0]
NoExecution ==
  [phase |-> "never-dispatched", attempts |-> 0, owner |-> NoOwner, epoch |-> 0,
   expires |-> 0, created |-> 0, retryAt |-> 0]

Active == {r \in Request : state[r] = "active"}

SchedulerInit ==
  /\ alive = Owner
  /\ clock = 0
  /\ lastEpoch = 0
  /\ lease = NoLease
  /\ state = [r \in Request |-> "none"]
  /\ exec = [r \in Request |-> NoExecution]
  /\ receipts = 0

Init == SchedulerInit /\ LedgerInit

-----------------------------------------------------------------------------
(* What the ledger says of a request, read under the ledger's write lock.  *)

(* budget_reservation_handoff: a named authorization is looked at alone;   *)
(* otherwise the named reservation must still be dispatching.  A ledger    *)
(* that cannot be opened admits nothing.                                   *)
AuthorityAdmits(r) ==
  LET j == JobOf[r] IN
  /\ LedgerOpens
  /\ IF r \in NamesAuthorization
       THEN /\ authorization[j] = "active"
            /\ j \in Metered => reservation[j] = "dispatching"
       ELSE reservation[j] = "dispatching"

(* _settlement_authority: a named reservation is looked at alone, and an   *)
(* authorization only counts when it has no reservation.                   *)
SettlementAuthority(r) ==
  LET j == JobOf[r] IN
  CASE r \notin PaidRequest -> "not-required"
    [] r \in NamesReservation ->
         CASE reservation[j] = "none" -> "invalid"
           [] reservation[j] \in {"dispatching", "uncertain"} -> reservation[j]
           [] OTHER -> "settled"
    [] OTHER ->
         CASE authorization[j] = "none" \/ j \in Metered -> "invalid"
           [] authorization[j] = "active" -> "dispatching"
           [] authorization[j] \in {"launched", "uncertain"} -> authorization[j]
           [] OTHER -> "settled"

(* settlement_authority_handoff *)
Settlement(r) ==
  IF r \in PaidRequest /\ ~ LedgerOpens THEN "unavailable" ELSE SettlementAuthority(r)

(* What the caller of a recovery declares (RecoveryRequest): how far the   *)
(* dispatch went and how the money stands.  The unchecked rest, failure    *)
(* class, retry hint and snapshots, is the choice between the actions.     *)
Evidence ==
  {e \in [dispatch : {"not-dispatched", "dispatched", "completed"},
          settlement : {"not-required", "settled", "uncertain"}] :
     e.dispatch = "not-dispatched" => e.settlement # "uncertain"}

(* Mutant of Agrees: the declaration is believed.                          *)
AgreesOnTrust(r, e) == r \notin PaidRequest => e.settlement = "not-required"

(* settlement_authority_blocker: a paid declaration must match the ledger. *)
Agrees(r, e) ==
  IF r \notin PaidRequest
    THEN e.settlement = "not-required"
    ELSE IF e.dispatch = "not-dispatched"
      THEN Settlement(r) =
             IF e.settlement = "settled" THEN "settled" ELSE "dispatching"
      ELSE /\ e.settlement # "not-required"
           /\ Settlement(r) = e.settlement

-----------------------------------------------------------------------------
(* The lease.                                                              *)

Expired(at, t) == t >= at

LeaseIsOver(t) == Expired(lease.expires, t)  \* mutant of LeaseIsDead: no probe
LeaseIsDead(t) == Expired(lease.expires, t) /\ lease.owner \notin alive

(* lease_epoch: the holder keeps its epoch; another process starts a new   *)
(* one when the holder is expired, dead and leaves no active work.         *)
MayLead(o, t) ==
  \/ lease.owner \in {o, NoOwner}
  \/ LeaseIsDead(t) /\ Active = {}

EpochFor(o) == IF lease.owner = o THEN lease.epoch ELSE lastEpoch + 1

RenewedNothing(o, epoch, expires) == exec  \* mutant of Renewed

(* renew_execution_leases: the rows of that owner and epoch still open.    *)
Renewed(o, epoch, expires) ==
  [r \in Request |->
    IF exec[r].owner = o /\ exec[r].epoch = epoch /\ exec[r].phase \notin Terminal
      THEN [exec[r] EXCEPT !.expires = expires]
      ELSE exec[r]]

StoreLease(o, t, d) ==
  /\ lease' = [owner |-> o, epoch |-> EpochFor(o), expires |-> t + d]
  /\ lastEpoch' = EpochFor(o)
  /\ clock' = t

(* Every operation observes a time no earlier than the stored clock.       *)
Observes(t) == t \in clock .. MaxTime

-----------------------------------------------------------------------------
(* tick *)

(* The partial unique indexes: one active paid assignment, one active free *)
(* review, one active writer of a scope; capacity_reason checks the same.  *)
Review(r) == r \notin PaidRequest \cup WriteRequest
SameSlot(q, r) ==
  \/ q \in PaidRequest /\ r \in PaidRequest
  \/ Review(q) /\ Review(r)
  \/ {q, r} \subseteq WriteRequest /\ ScopeOf[q] = ScopeOf[r]

HasCapacity(r) == \A q \in Active : ~ SameSlot(q, r)
JobUnused(r) == \A q \in Request : state[q] # "none" => JobOf[q] # JobOf[r]

MayTick(o, r, t) ==
  /\ o \in alive
  /\ Observes(t)
  /\ state[r] = "none"
  /\ r \in PaidRequest => AuthorityAdmits(r)
  /\ MayLead(o, t)

Assign(o, r, t, d) ==
  /\ MayTick(o, r, t)
  /\ HasCapacity(r)
  /\ JobUnused(r)
  /\ StoreLease(o, t, d)
  /\ state' = [state EXCEPT ![r] = "active"]
  /\ exec' = [Renewed(o, EpochFor(o), t + d) EXCEPT ![r] =
       [phase |-> "never-dispatched", attempts |-> 1, owner |-> o,
        epoch |-> EpochFor(o), expires |-> t + d, created |-> t, retryAt |-> 0]]
  /\ UNCHANGED <<alive, receipts, ledgerVars>>

(* A tick refused for capacity still commits the observed time.            *)
AssignBlocked(o, r, t) ==
  /\ MayTick(o, r, t)
  /\ ~ HasCapacity(r)
  /\ clock' = t
  /\ UNCHANGED <<alive, lastEpoch, lease, state, exec, receipts, ledgerVars>>

-----------------------------------------------------------------------------
(* The owner's own operations.                                             *)

Heartbeat(o, t, d) ==
  /\ o \in alive
  /\ Observes(t)
  /\ lease.owner = o
  /\ lease' = [lease EXCEPT !.expires = t + d]
  /\ exec' = Renewed(o, lease.epoch, t + d)
  /\ clock' = t
  /\ UNCHANGED <<alive, lastEpoch, state, receipts, ledgerVars>>

(* _ALLOWED_TRANSITIONS; every other phase has no successor.               *)
Successor ==
  [p \in {"never-dispatched", "dispatch-intent", "dispatched"} |->
     CASE p = "never-dispatched" -> "dispatch-intent"
       [] p = "dispatch-intent" -> "dispatched"
       [] p = "dispatched" -> "completed-unsettled"]

(* transition_execution; the row's CHECK heartbeat < expiry refuses a      *)
(* worker whose lease has run out.                                         *)
Transition(o, r, t) ==
  /\ o \in alive
  /\ Observes(t)
  /\ state[r] # "none"
  /\ exec[r].owner = o
  /\ exec[r].phase \in DOMAIN Successor
  /\ ~ Expired(exec[r].expires, t)
  /\ exec' = [exec EXCEPT ![r].phase = Successor[@]]
  /\ clock' = t
  /\ UNCHANGED <<alive, lastEpoch, lease, state, receipts, ledgerVars>>

(* complete_scheduler_assignment; it writes no heartbeat, so an expired    *)
(* lease does not stop it.                                                 *)
Complete(o, r, t) ==
  /\ o \in alive
  /\ Observes(t)
  /\ r \in Active
  /\ exec[r].owner = o
  /\ exec[r].phase = "completed-unsettled"
  /\ r \in PaidRequest => Settlement(r) = "settled"
  /\ state' = [state EXCEPT ![r] = "completed"]
  /\ exec' = [exec EXCEPT ![r].phase = "completed"]
  /\ clock' = t
  /\ UNCHANGED <<alive, lastEpoch, lease, receipts, ledgerVars>>

-----------------------------------------------------------------------------
(* recover *)

RetryAnyTime(r, t) == t >= exec[r].created  \* mutant of RetryDue
RetryDue(r, t) == exec[r].phase = "retry-wait" => t >= exec[r].retryAt

(* recovery_authority_blocker: the work's owner is dead and its lease over,*)
(* and so is the global lease, unless the requester holds it already.      *)
MayRecover(o, r, t) ==
  /\ o \in alive
  /\ Observes(t)
  /\ receipts < MaxReceipts
  /\ r \in Active
  /\ lease.owner # NoOwner
  /\ o # exec[r].owner
  /\ Expired(exec[r].expires, t)
  /\ exec[r].owner \notin alive
  /\ IF lease.owner = exec[r].owner /\ lease.epoch = exec[r].epoch
       THEN lease.expires = exec[r].expires
       ELSE lease.owner = o \/ LeaseIsDead(t)
  /\ RetryDue(r, t)

(* apply_recovery_transition: lease and row move to the requester together *)
(* with the decided phase; a terminal phase ends the assignment.           *)
TakeOver(o, r, t, d, phase, attempts, retryAt) ==
  /\ StoreLease(o, t, d)
  /\ exec' = [Renewed(o, EpochFor(o), t + d) EXCEPT ![r] =
       [@ EXCEPT !.phase = phase, !.attempts = attempts, !.retryAt = retryAt,
                 !.owner = o, !.epoch = EpochFor(o), !.expires = t + d]]
  /\ state' = IF phase \in Terminal
                THEN [state EXCEPT ![r] = "completed"] ELSE state
  /\ receipts' = receipts + 1
  /\ UNCHANGED <<alive, ledgerVars>>

(* The work cannot be repeated safely: it is declared dispatched, or the   *)
(* row says it may have been.                                              *)
Ambiguous(r, e) == e.dispatch # "not-dispatched" \/ exec[r].phase \notin Idle

Finished(r, e) ==
  \/ e.dispatch = "completed" /\ e.settlement \in {"settled", "not-required"}
  \/ e.dispatch # "not-dispatched" /\ e.settlement = "settled"

RecoverCompleted(o, r, t, d) ==
  /\ MayRecover(o, r, t)
  /\ \E e \in Evidence : Agrees(r, e) /\ Finished(r, e)
  /\ TakeOver(o, r, t, d, "completed", exec[r].attempts, 0)

(* Never dispatched, and its money is settled already.                     *)
RecoverSettledUnused(o, r, t, d) ==
  /\ MayRecover(o, r, t)
  /\ \E e \in Evidence :
       /\ Agrees(r, e)
       /\ e.dispatch = "not-dispatched"
       /\ e.settlement = "settled"
  /\ TakeOver(o, r, t, d, "failed", exec[r].attempts, 0)

RecoverUncertain(o, r, t, d) ==
  /\ MayRecover(o, r, t)
  /\ \E e \in Evidence :
       /\ Agrees(r, e)
       /\ Ambiguous(r, e)
       /\ ~ Finished(r, e)
       /\ e.settlement # "settled"
       /\ r \in PaidRequest => e.settlement = "uncertain"
  /\ TakeOver(o, r, t, d, "uncertain", exec[r].attempts, 0)

(* Mutant of MayRetry: the stored phase is not checked.                    *)
MayRetryAnyPhase(o, r, t) ==
  /\ MayRecover(o, r, t)
  /\ r \in PaidRequest => Settlement(r) = "dispatching"

(* What is left: never dispatched and nothing settled.                     *)
MayRetry(o, r, t) ==
  /\ MayRecover(o, r, t)
  /\ exec[r].phase \in Idle
  /\ \E e \in Evidence :
       /\ Agrees(r, e)
       /\ e.dispatch = "not-dispatched"
       /\ e.settlement = "not-required"

(* The failure is terminal, or the retry policy is exhausted.              *)
RecoverFailed(o, r, t, d) ==
  /\ MayRetry(o, r, t)
  /\ TakeOver(o, r, t, d, "failed", exec[r].attempts, 0)

(* Fresh snapshots of the outside world allow the next attempt.            *)
RecoverResumed(o, r, t, d) ==
  /\ MayRetry(o, r, t)
  /\ ~ Exhausted(exec[r].attempts, exec[r].created, t)
  /\ exec[r].phase = "retry-wait"
  /\ TakeOver(o, r, t, d, "never-dispatched", exec[r].attempts + 1, 0)

(* A first failure, or a snapshot that is missing or stale.                *)
RecoverRetryScheduled(o, r, t, d) ==
  /\ MayRetry(o, r, t)
  /\ ~ Exhausted(exec[r].attempts, exec[r].created, t)
  /\ \E delay \in RetryDelays(exec[r].attempts) :
       TakeOver(o, r, t, d, "retry-wait", exec[r].attempts, t + delay)

(* A blocked request, or one about terminal work, leaves a receipt only. A *)
(* request with a stale epoch is always blocked, so this is always open.   *)
RecoverNoEffect(o, r, t) ==
  /\ o \in alive
  /\ Observes(t)
  /\ state[r] # "none"
  /\ receipts < MaxReceipts
  /\ receipts' = receipts + 1
  /\ clock' = t
  /\ UNCHANGED <<alive, lastEpoch, lease, state, exec, ledgerVars>>

Recover(o, r, t, d) ==
  \/ RecoverCompleted(o, r, t, d)
  \/ RecoverSettledUnused(o, r, t, d)
  \/ RecoverUncertain(o, r, t, d)
  \/ RecoverFailed(o, r, t, d)
  \/ RecoverResumed(o, r, t, d)
  \/ RecoverRetryScheduled(o, r, t, d)

-----------------------------------------------------------------------------
(* A process dies between any two transactions and never comes back: a new *)
(* one has another pid and start token.                                    *)
Crash(o) ==
  /\ o \in alive
  /\ alive' = alive \ {o}
  /\ UNCHANGED <<clock, lastEpoch, lease, state, exec, receipts, ledgerVars>>

LedgerStep == LedgerNext /\ UNCHANGED schedulerVars

OwnerStep(o) ==
  \/ Crash(o)
  \/ \E t \in 0 .. MaxTime :
       \/ \E d \in LeaseLengths : Heartbeat(o, t, d)
       \/ \E r \in Request :
            \/ AssignBlocked(o, r, t)
            \/ Transition(o, r, t)
            \/ Complete(o, r, t)
            \/ RecoverNoEffect(o, r, t)
            \/ \E d \in LeaseLengths : Assign(o, r, t, d) \/ Recover(o, r, t, d)

Next == LedgerStep \/ \E o \in Owner : OwnerStep(o)

Spec == Init /\ [][Next]_vars

(* Nothing makes the scheduler go on; the ledger's maintainer does.        *)
FairSpec == Spec /\ LedgerFairness

-----------------------------------------------------------------------------
(* Safety.                                                                 *)

(* Every stored value stays in the domain its table column allows.         *)
TypeOK ==
  /\ LedgerTypeOK
  /\ alive \subseteq Owner
  /\ clock \in Nat
  /\ lastEpoch \in Nat
  /\ lease \in Lease
  /\ state \in [Request -> {"none", "active", "completed"}]
  /\ exec \in [Request -> Execution]
  /\ receipts \in Nat

(* An epoch names one owner for ever: the lease carries the newest epoch,  *)
(* no execution row is ahead of it, and rows or lease that share an epoch  *)
(* share the owner.  transition and complete rely on it as their fence.    *)
FencedEpochs ==
  /\ lease.epoch = lastEpoch
  /\ \A r \in Request : state[r] # "none" =>
       /\ exec[r].epoch \in 1 .. lastEpoch
       /\ exec[r].epoch = lease.epoch => exec[r].owner = lease.owner
       /\ \A q \in Request :
            state[q] # "none" /\ exec[q].epoch = exec[r].epoch
              => exec[q].owner = exec[r].owner

(* Work owned by a process that still runs is covered by the current       *)
(* lease, so two running processes never both own active work: neither     *)
(* tick's takeover nor a recovery of one sibling leaves a live owner that  *)
(* could still drive its assignment under an older epoch.                  *)
LiveWorkIsLeased ==
  \A r \in Active : exec[r].owner \in alive =>
    /\ exec[r].owner = lease.owner
    /\ exec[r].epoch = lease.epoch

(* Active work of the lease's own owner and epoch expires with the lease.  *)
(* Every renewal must reach every open row; otherwise recovery answers     *)
(* "state-invalid" for that row for ever.                                  *)
LeaseCoversItsWork ==
  \A r \in Active :
    exec[r].owner = lease.owner /\ exec[r].epoch = lease.epoch
      => exec[r].expires = lease.expires

(* A paid assignment recorded as completed is settled in the ledger, and   *)
(* nothing the ledger does later takes that back.                          *)
CompletedPaidIsSettled ==
  \A r \in PaidRequest : exec[r].phase = "completed" => SettlementAuthority(r) = "settled"

(* Retries are paced and bounded: however recoveries, clocks and owners    *)
(* follow each other, an attempt starts only after every earlier one had a *)
(* lease run out (at least a second) and its own backoff pass, and there   *)
(* are never more than MaxAttempts.                                        *)
BackoffPaces ==
  \A r \in Request : state[r] # "none" =>
    /\ exec[r].attempts \in 1 .. MaxAttempts
    /\ exec[r].created + EarliestStart[exec[r].attempts] <= clock

(* No two active assignments share the paid slot, the review slot or the   *)
(* writer of a worktree, however ticks of different processes interleave   *)
(* with recoveries that keep or return the slots.                          *)
SlotsAreExclusive ==
  \A q, r \in Active : SameSlot(q, r) => q = r

(* The lease changes hands only when its holder is dead and its time is    *)
(* over, and then under a strictly newer epoch; epochs never go back.      *)
LeaseIsNeverStolen ==
  [][lease.owner # lease'.owner =>
       /\ lease.owner \notin alive
       /\ clock' >= lease.expires
       /\ lease'.epoch > lease.epoch]_vars

(* Work that may have been dispatched never returns to the retry path.     *)
DispatchIsNeverRepeated ==
  [][\A r \in Active :
       exec[r].phase \notin Idle => exec'[r].phase \notin Idle]_vars

(* Paid work that may have been dispatched gives its slot back only when   *)
(* the ledger has settled its money, whoever ends it and however.          *)
AmbiguousWorkHoldsCapacity ==
  [][\A r \in Active \cap PaidRequest :
       exec[r].phase \notin Idle /\ r \notin Active'
         => Settlement(r) = "settled"]_vars

(* The scheduler implements exclusive ownership of accepted work.          *)
Ownership == INSTANCE WorkOwnership WITH
  running <- alive,
  holder <- [r \in Request |-> exec[r].owner],
  finished <- {r \in Request : state[r] = "completed"}

ImplementsOwnership == Ownership!Spec
=============================================================================
