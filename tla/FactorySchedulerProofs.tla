------------------------ MODULE FactorySchedulerProofs ------------------------
(***************************************************************************)
(* Safety of FactoryScheduler for any processes, requests, jobs, lease     *)
(* lengths, delays and limits.  SchedulerInv is the inductive invariant:   *)
(* the properties the runs check, and the two facts about rows they lean   *)
(* on, RowsAgree and LeaseIsNumbered.  Both operations that move the       *)
(* lease, tick and recover, are covered by one lemma, Handover.  How far   *)
(* apart attempts start is proved of the recursive EarliestStart, whose    *)
(* function exists by induction on the attempts (StartsExist).             *)
(***************************************************************************)
EXTENDS FactoryScheduler, DispatchAuthorityProofs, TLAPS

-----------------------------------------------------------------------------
(* The delays of the retry policy, for any policy the code accepts         *)

(* Backoff and jitter are numbers.                                         *)
LEMMA BackoffType ==
  ASSUME NEW n \in Nat \ {0}
  PROVE  Backoff(n) \in Int /\ JitterSpan(n) \in Int
<1>1. n - 1 \in Nat
  OBVIOUS
<1>2. 2 ^ (n - 1) \in Int
  BY <1>1
<1>3. Backoff(n) \in Int
  BY <1>2, RetryAssumption DEF Backoff, Least
<1> QED
  BY <1>3, RetryAssumption DEF JitterSpan

(* Whatever attempt, jitter and hint say, a delay is at least a second and *)
(* at most the maximum.                                                    *)
LEMMA DelayBounds ==
  ASSUME NEW n \in Nat \ {0}, NEW delay \in RetryDelays(n)
  PROVE  delay \in 1 .. MaxDelay
<1>1. PICK jitter \in - JitterSpan(n) .. JitterSpan(n), hint \in RetryHints :
        delay = Delay(n, jitter, hint)
  BY DEF RetryDelays
<1>2. MaxDelay \in Nat \ {0} /\ hint \in Nat
  BY RetryAssumption
<1>3. Backoff(n) + jitter \in Int
  BY BackoffType
<1> QED
  BY <1>1, <1>2, <1>3 DEF Delay, Least, Greatest

(* And never shorter than the jittered backoff of that attempt allows.     *)
LEMMA DelayIsNotShort ==
  ASSUME NEW n \in Nat \ {0}, NEW delay \in RetryDelays(n)
  PROVE  delay >= ShortestDelay(n)
<1>1. PICK jitter \in - JitterSpan(n) .. JitterSpan(n), hint \in RetryHints :
        delay = Delay(n, jitter, hint)
  BY DEF RetryDelays
<1>2. MaxDelay \in Nat \ {0} /\ hint \in Nat
  BY RetryAssumption
<1>3. Backoff(n) \in Int /\ JitterSpan(n) \in Int /\ Backoff(n) <= MaxDelay
  <2>1. 2 ^ (n - 1) \in Int
    BY n - 1 \in Nat
  <2> QED
    BY <1>2, <2>1, BackoffType, RetryAssumption DEF Backoff, Least
<1>4. JitterSpan(n) >= 0
  BY <1>3
<1> QED
  BY <1>1, <1>2, <1>3, <1>4 DEF Delay, ShortestDelay, Least, Greatest

(* ShortestDelay is a number of seconds.                                   *)
LEMMA ShortestDelayType ==
  ASSUME NEW n \in Nat \ {0}
  PROVE  ShortestDelay(n) \in Nat
  BY BackoffType DEF ShortestDelay, Greatest

(* f obeys the recursion of EarliestStart at n, and as far as attempt k.   *)
Obeys(f, n) ==
  f[n] = IF n = 1 THEN 0 ELSE f[n - 1] + 1 + ShortestDelay(n - 1)
HasStarts(k) ==
  \E f \in [1 .. MaxAttempts -> Nat] : \A n \in 1 .. k : Obeys(f, n)

(* One attempt starts at once, and every further one adds its delay.       *)
LEMMA FirstStart == MaxAttempts \in Nat \ {0} => HasStarts(1)
<1> DEFINE zero == [n \in 1 .. MaxAttempts |-> 0]
<1>1. ASSUME MaxAttempts \in Nat \ {0}
      PROVE  zero \in [1 .. MaxAttempts -> Nat] /\ zero[1] = 0
  BY <1>1
<1>2. ASSUME MaxAttempts \in Nat \ {0}, NEW n \in 1 .. 1
      PROVE  Obeys(zero, n)
  BY <1>1, <1>2 DEF Obeys
<1> QED
  BY <1>1, <1>2 DEF HasStarts

(* The function for k attempts gives the one for k + 1.                    *)
LEMMA NextStart ==
  ASSUME NEW k \in Nat \ {0}, k < MaxAttempts, MaxAttempts \in Nat, HasStarts(k)
  PROVE  HasStarts(k + 1)
<1>1. PICK f \in [1 .. MaxAttempts -> Nat] : \A n \in 1 .. k : Obeys(f, n)
  BY DEF HasStarts
<1> DEFINE start == f[k] + 1 + ShortestDelay(k)
           g == [f EXCEPT ![k + 1] = start]
<1>2. start \in Nat
  BY ShortestDelayType
<1>3. g \in [1 .. MaxAttempts -> Nat] /\ g[k + 1] = start
  BY <1>2
<1>4. \A n \in 1 .. k : g[n] = f[n]
  OBVIOUS
<1> HIDE DEF g
<1>5. ASSUME NEW n \in 1 .. k PROVE Obeys(g, n)
  <2>1. CASE n = 1
    BY <1>1, <1>4, <2>1 DEF Obeys
  <2>2. CASE n # 1
    <3>1. n - 1 \in 1 .. k
      BY <2>2
    <3> QED
      BY <1>1, <1>4, <2>2, <3>1 DEF Obeys
  <2> QED
    BY <2>1, <2>2
<1>6. Obeys(g, k + 1)
  BY <1>3, <1>4 DEF Obeys
<1>7. \A n \in 1 .. k + 1 : n \in 1 .. k \/ n = k + 1
  OBVIOUS
<1> QED
  BY <1>3, <1>5, <1>6, <1>7 DEF HasStarts

(* The least attempt without a function that obeys would have a            *)
(* predecessor with one.                                                   *)
LEMMA StartsExist == \A k \in 1 .. MaxAttempts : HasStarts(k)
<1> DEFINE fails == {k \in 1 .. MaxAttempts : ~ HasStarts(k)}
<1> SUFFICES ASSUME fails # {} PROVE FALSE
  OBVIOUS
<1>1. MaxAttempts \in Nat \ {0} /\ fails \in SUBSET Nat
  BY RetryAssumption
<1>2. PICK k \in fails : \A i \in fails : k <= i
  BY <1>1, LeastElement
<1>3. k # 1
  BY <1>1, <1>2, FirstStart
<1>4. k - 1 \in Nat \ {0} /\ k - 1 < MaxAttempts /\ HasStarts(k - 1)
  BY <1>1, <1>2, <1>3
<1>5. HasStarts((k - 1) + 1)
  BY <1>1, <1>4, NextStart
<1> QED
  BY <1>1, <1>2, <1>5

(* The recursion defines EarliestStart: it is a number for every attempt,  *)
(* zero for the first, and each further one costs a second and a delay.    *)
LEMMA EarliestStartIs ==
  /\ EarliestStart \in [1 .. MaxAttempts -> Nat]
  /\ EarliestStart[1] = 0
  /\ \A n \in 1 .. MaxAttempts - 1 :
       EarliestStart[n + 1] = EarliestStart[n] + 1 + ShortestDelay(n)
<1> DEFINE Unrolled(f) ==
      [n \in 1 .. MaxAttempts |-> IF n = 1 THEN 0 ELSE f[n - 1] + 1 + ShortestDelay(n - 1)]
<1>1. MaxAttempts \in Nat /\ 1 \in 1 .. MaxAttempts /\ MaxAttempts \in 1 .. MaxAttempts
  BY RetryAssumption
<1>2. PICK f \in [1 .. MaxAttempts -> Nat] : \A n \in 1 .. MaxAttempts : Obeys(f, n)
  BY <1>1, StartsExist DEF HasStarts
<1>3. \E h : h = Unrolled(h)
  BY <1>2 DEF Obeys
<1>4. EarliestStart = Unrolled(EarliestStart)
  BY <1>3, Zenon DEF EarliestStart
<1> HIDE DEF Unrolled
<1>5. \A n \in 1 .. MaxAttempts : Obeys(EarliestStart, n)
  BY <1>4 DEF Obeys, Unrolled
<1>6. EarliestStart[1] = 0
  BY <1>1, <1>5 DEF Obeys
<1>7. ASSUME NEW n \in 1 .. MaxAttempts - 1
      PROVE  EarliestStart[n + 1] = EarliestStart[n] + 1 + ShortestDelay(n)
  <2>1. n + 1 \in 1 .. MaxAttempts /\ n + 1 # 1 /\ (n + 1) - 1 = n
    BY <1>1
  <2> QED
    BY <1>5, <2>1 DEF Obeys
<1> DEFINE bad == {n \in 1 .. MaxAttempts : EarliestStart[n] \notin Nat}
<1>8. ASSUME bad # {} PROVE FALSE
  <2>1. bad \in SUBSET Nat
    OBVIOUS
  <2>2. PICK n \in bad : \A i \in bad : n <= i
    BY <1>8, <2>1, LeastElement
  <2>3. n # 1 /\ n - 1 \in 1 .. MaxAttempts - 1 /\ n - 1 \notin bad
    BY <1>1, <1>6, <2>2
  <2>4. EarliestStart[(n - 1) + 1] = EarliestStart[n - 1] + 1 + ShortestDelay(n - 1)
    BY <1>7, <2>3
  <2>5. ShortestDelay(n - 1) \in Nat
    BY <2>3, ShortestDelayType
  <2> QED
    BY <1>1, <2>2, <2>3, <2>4, <2>5
<1>9. EarliestStart \in [1 .. MaxAttempts -> Nat]
  <2>1. EarliestStart = [n \in 1 .. MaxAttempts |-> EarliestStart[n]]
    BY <1>4 DEF Unrolled
  <2> QED
    BY <1>8, <2>1
<1> QED
  BY <1>6, <1>7, <1>9

-----------------------------------------------------------------------------
(* The inductive invariant                                                 *)

(* An assignment and its execution row are written together: the row of an *)
(* accepted request has an owner, counts its attempts within the policy,   *)
(* and is in a terminal phase exactly when the assignment is completed.    *)
RowsAgree ==
  \A r \in Request :
    /\ state[r] = "none" => exec[r].owner = NoOwner
    /\ state[r] # "none" => exec[r].owner \in Owner
    /\ state[r] # "none" => exec[r].attempts \in 1 .. MaxAttempts
    /\ state[r] = "active" => exec[r].phase \notin Terminal
    /\ state[r] = "completed" => exec[r].phase \in Terminal

(* Epoch 0, with an empty lease, is the time before the first lease.       *)
LeaseIsNumbered ==
  /\ lease.owner = NoOwner <=> lastEpoch = 0
  /\ lease.owner = NoOwner => lease.expires = 0

SchedulerInv ==
  /\ TypeOK
  /\ LedgerInv
  /\ RowsAgree
  /\ LeaseIsNumbered
  /\ FencedEpochs
  /\ LiveWorkIsLeased
  /\ LeaseCoversItsWork
  /\ SlotsAreExclusive

(* The empty scheduler satisfies the invariant.                            *)
LEMMA SchedulerInitInv == Init => SchedulerInv
<1> SUFFICES ASSUME Init PROVE SchedulerInv
  OBVIOUS
<1> USE SchedulerAssumption DEF Init, SchedulerInit
<1>1. LedgerInv
  BY LedgerInitInv
<1>2. NoLease \in Lease /\ NoExecution \in Execution
  BY DEF NoLease, NoExecution, Lease, Execution, Phase, Idle, Terminal
<1>3. TypeOK
  BY <1>1, <1>2 DEF TypeOK, LedgerInv
<1>4. Active = {}
  BY DEF Active
<1>5. RowsAgree /\ LeaseIsNumbered /\ FencedEpochs
  BY DEF RowsAgree, LeaseIsNumbered, FencedEpochs, NoLease, NoExecution, Terminal
<1>6. LiveWorkIsLeased /\ LeaseCoversItsWork /\ SlotsAreExclusive
  BY <1>4 DEF LiveWorkIsLeased, LeaseCoversItsWork, SlotsAreExclusive
<1> QED
  BY <1>1, <1>3, <1>5, <1>6 DEF SchedulerInv

-----------------------------------------------------------------------------
(* The rows a step leaves behind.                                          *)

(* The fields of row q that only tick and recover of q itself may change.  *)
SameRow(q) ==
  /\ exec'[q].owner = exec[q].owner
  /\ exec'[q].epoch = exec[q].epoch
  /\ exec'[q].phase = exec[q].phase
  /\ exec'[q].attempts = exec[q].attempts

(* Row q after the lease of o and epoch was renewed to expires.            *)
RenewedRow(q, o, epoch, expires) ==
  /\ SameRow(q)
  /\ exec'[q].expires =
       IF exec[q].owner = o /\ exec[q].epoch = epoch /\ exec[q].phase \notin Terminal
         THEN expires ELSE exec[q].expires

(* Renewal changes nothing but expiries, and keeps the rows' type.         *)
LEMMA RenewedFields ==
  ASSUME exec \in [Request -> Execution], NEW o, NEW epoch, NEW expires \in Nat,
         NEW q \in Request
  PROVE  LET row == Renewed(o, epoch, expires)[q] IN
         /\ row \in Execution
         /\ row.owner = exec[q].owner
         /\ row.epoch = exec[q].epoch
         /\ row.phase = exec[q].phase
         /\ row.attempts = exec[q].attempts
         /\ row.created = exec[q].created
         /\ row.expires =
              IF exec[q].owner = o /\ exec[q].epoch = epoch /\ exec[q].phase \notin Terminal
                THEN expires ELSE exec[q].expires
  BY DEF Renewed, Execution

(* The epoch a process leads under is a number past zero.                  *)
LEMMA EpochForType ==
  ASSUME SchedulerInv, NEW o \in alive
  PROVE  /\ EpochFor(o) \in Nat \ {0}
         /\ EpochFor(o) >= lastEpoch
         /\ lease.owner = o => EpochFor(o) = lastEpoch
         /\ lease.owner # o => EpochFor(o) = lastEpoch + 1
  BY SchedulerAssumption
     DEF SchedulerInv, TypeOK, Lease, LeaseIsNumbered, FencedEpochs, EpochFor

(* What tick and recover have in common: process o takes or keeps the      *)
(* lease, row r becomes its own, and other rows are at most renewed.       *)
LeadsWith(o, r, expires) ==
  /\ alive' = alive
  /\ lease' = [owner |-> o, epoch |-> EpochFor(o), expires |-> expires]
  /\ lastEpoch' = EpochFor(o)
  /\ exec'[r].owner = o
  /\ exec'[r].epoch = EpochFor(o)
  /\ exec'[r].expires = expires
  /\ \A q \in Request \ {r} : RenewedRow(q, o, EpochFor(o), expires)
  /\ \A q \in Request \ {r} : state'[q] = state[q]

(* A tick that assigns leads with the new row.                             *)
LEMMA AssignLeads ==
  ASSUME SchedulerInv, NEW o \in Owner, NEW r \in Request,
         NEW t \in Nat, NEW d \in LeaseLengths, Assign(o, r, t, d)
  PROVE  /\ o \in alive
         /\ LeadsWith(o, r, t + d)
         /\ t + d \in Nat
         /\ exec' \in [Request -> Execution]
         /\ exec'[r].phase = "never-dispatched"
         /\ exec'[r].attempts = 1
         /\ state[r] = "none"
         /\ state' \in [Request -> {"none", "active", "completed"}]
         /\ state'[r] = "active"
<1> DEFINE ex == t + d
           row == [phase |-> "never-dispatched", attempts |-> 1, owner |-> o,
                   epoch |-> EpochFor(o), expires |-> ex, created |-> t, retryAt |-> 0]
           new == Renewed(o, EpochFor(o), ex)
<1>1. exec \in [Request -> Execution] /\ o \in alive /\ ex \in Nat
  BY SchedulerAssumption DEF SchedulerInv, TypeOK, Assign, MayTick
<1>2. EpochFor(o) \in Nat
  BY <1>1, EpochForType
<1>3. row \in Execution
  BY <1>1, <1>2 DEF Execution, Phase, Idle
<1>4. exec' = [new EXCEPT ![r] = row]
  BY DEF Assign
<1>5. new = [q \in Request |-> new[q]]
  BY DEF Renewed
<1>6. exec'[r] = row /\ \A q \in Request \ {r} : exec'[q] = new[q]
  BY <1>4, <1>5
<1>7. \A q \in Request : new[q] \in Execution
  BY <1>1, RenewedFields
<1>8. exec' \in [Request -> Execution]
  BY <1>3, <1>4, <1>5, <1>7
<1>9. \A q \in Request \ {r} : RenewedRow(q, o, EpochFor(o), ex)
  BY <1>1, <1>6, RenewedFields DEF RenewedRow, SameRow
<1>10. state \in [Request -> {"none", "active", "completed"}]
  BY DEF SchedulerInv, TypeOK
<1>11. /\ state[r] = "none" /\ state'[r] = "active"
       /\ \A q \in Request \ {r} : state'[q] = state[q]
       /\ state' \in [Request -> {"none", "active", "completed"}]
  BY <1>10 DEF Assign, MayTick
<1> QED
  BY <1>1, <1>6, <1>8, <1>9, <1>11 DEF LeadsWith, Assign, StoreLease

(* Every recovery with an effect leads with the recovered row.             *)
LEMMA TakeOverLeads ==
  ASSUME SchedulerInv, NEW o \in Owner, NEW r \in Active, NEW t \in Nat,
         NEW d \in LeaseLengths, o \in alive, NEW phase \in Phase,
         NEW attempts \in Nat, NEW retryAt \in Nat,
         TakeOver(o, r, t, d, phase, attempts, retryAt)
  PROVE  /\ LeadsWith(o, r, t + d)
         /\ t + d \in Nat
         /\ exec' \in [Request -> Execution]
         /\ exec'[r].phase = phase
         /\ exec'[r].attempts = attempts
         /\ state' \in [Request -> {"none", "active", "completed"}]
         /\ state'[r] = IF phase \in Terminal THEN "completed" ELSE "active"
<1> DEFINE ex == t + d
           new == Renewed(o, EpochFor(o), ex)
           row == [new[r] EXCEPT !.phase = phase, !.attempts = attempts,
                                 !.retryAt = retryAt, !.owner = o,
                                 !.epoch = EpochFor(o), !.expires = ex]
<1>0. r \in Request /\ state[r] = "active"
  BY DEF Active
<1>1. exec \in [Request -> Execution] /\ ex \in Nat
  BY SchedulerAssumption DEF SchedulerInv, TypeOK
<1>2. EpochFor(o) \in Nat
  BY EpochForType
<1>3. \A q \in Request : new[q] \in Execution
  BY <1>1, RenewedFields
<1>4. /\ row \in Execution
      /\ row.owner = o /\ row.epoch = EpochFor(o)
      /\ row.expires = ex /\ row.phase = phase /\ row.attempts = attempts
  BY <1>0, <1>1, <1>2, <1>3 DEF Execution
<1>5. new = [q \in Request |-> new[q]]
  BY DEF Renewed
<1>6. exec' = [new EXCEPT ![r] = row]
  BY <1>0, <1>5 DEF TakeOver
<1>7. exec'[r] = row /\ \A q \in Request \ {r} : exec'[q] = new[q]
  BY <1>0, <1>5, <1>6
<1>8. exec' \in [Request -> Execution]
  BY <1>3, <1>4, <1>5, <1>6
<1>9. \A q \in Request \ {r} : RenewedRow(q, o, EpochFor(o), ex)
  BY <1>1, <1>7, RenewedFields DEF RenewedRow, SameRow
<1>10. state \in [Request -> {"none", "active", "completed"}]
  BY DEF SchedulerInv, TypeOK
<1>11. /\ state'[r] = IF phase \in Terminal THEN "completed" ELSE "active"
       /\ \A q \in Request \ {r} : state'[q] = state[q]
       /\ state' \in [Request -> {"none", "active", "completed"}]
  BY <1>0, <1>10 DEF TakeOver
<1> QED
  BY <1>1, <1>4, <1>7, <1>8, <1>9, <1>11 DEF LeadsWith, TakeOver, StoreLease

(* Every effect of recover is a TakeOver by a process that may recover.    *)
LEMMA RecoverTakesOver ==
  ASSUME SchedulerInv, NEW o \in Owner, NEW r \in Request, NEW t \in Nat,
         NEW d \in LeaseLengths, Recover(o, r, t, d)
  PROVE  /\ MayRecover(o, r, t)
         /\ r \in Active
         /\ o \in alive
         /\ \E phase \in Phase, attempts \in 1 .. MaxAttempts, retryAt \in Nat :
              TakeOver(o, r, t, d, phase, attempts, retryAt)
<1>1. /\ r \in Active /\ exec[r].attempts \in 1 .. MaxAttempts
      /\ MaxAttempts \in Nat
  <2>1. r \in Active
    BY DEF Recover, RecoverCompleted, RecoverSettledUnused, RecoverUncertain,
           RecoverFailed, RecoverResumed, RecoverRetryScheduled, MayRetry, MayRecover
  <2> QED
    BY <2>1, RetryAssumption DEF SchedulerInv, RowsAgree, Active
<1>2. \A delay \in RetryDelays(exec[r].attempts) : t + delay \in Nat
  BY <1>1, DelayBounds, RetryAssumption
<1>3. {"completed", "failed", "uncertain", "never-dispatched", "retry-wait"} \subseteq Phase
  BY DEF Phase, Idle, Terminal
<1>4. CASE RecoverCompleted(o, r, t, d)
  BY <1>1, <1>3, <1>4 DEF RecoverCompleted, MayRecover
<1>5. CASE RecoverSettledUnused(o, r, t, d)
  BY <1>1, <1>3, <1>5 DEF RecoverSettledUnused, MayRecover
<1>6. CASE RecoverUncertain(o, r, t, d)
  BY <1>1, <1>3, <1>6 DEF RecoverUncertain, MayRecover
<1>7. CASE RecoverFailed(o, r, t, d)
  BY <1>1, <1>3, <1>7 DEF RecoverFailed, MayRetry, MayRecover
<1>8. CASE RecoverResumed(o, r, t, d)
  BY <1>1, <1>3, <1>8 DEF RecoverResumed, MayRetry, MayRecover, Exhausted
<1>9. CASE RecoverRetryScheduled(o, r, t, d)
  BY <1>1, <1>2, <1>3, <1>9 DEF RecoverRetryScheduled, MayRetry, MayRecover
<1> QED
  BY <1>4, <1>5, <1>6, <1>7, <1>8, <1>9 DEF Recover

-----------------------------------------------------------------------------
(* Leases and epochs.                                                      *)

(* No process but o both runs and holds active work.                       *)
SoleRunner(o) == \A q \in Active : exec[q].owner \in alive => exec[q].owner = o

(* Whoever may lead a tick is the only running holder of work.             *)
LEMMA LeaderIsSole ==
  ASSUME SchedulerInv, NEW o \in alive, NEW t \in Nat, MayLead(o, t)
  PROVE  SoleRunner(o)
  BY SchedulerAssumption
     DEF SchedulerInv, TypeOK, LiveWorkIsLeased, RowsAgree, Active, MayLead, SoleRunner

(* Whoever may recover is the only running holder of work.                 *)
LEMMA RecovererIsSole ==
  ASSUME SchedulerInv, NEW o \in alive, NEW r \in Request, NEW t \in Nat,
         MayRecover(o, r, t)
  PROVE  SoleRunner(o)
  BY DEF SchedulerInv, LiveWorkIsLeased, MayRecover, LeaseIsDead, SoleRunner

(* The lease moves to a sole runner together with one row of work: epochs  *)
(* still fence, live work is still leased, and the lease covers its work.  *)
LEMMA Handover ==
  ASSUME SchedulerInv, NEW o \in Owner, o \in alive, NEW r \in Request,
         NEW expires \in Nat, SoleRunner(o), LeadsWith(o, r, expires),
         state'[r] # "none"
  PROVE  /\ LeaseIsNumbered'
         /\ FencedEpochs'
         /\ LiveWorkIsLeased'
         /\ LeaseCoversItsWork'
<1> USE DEF LeadsWith, RenewedRow, SameRow
<1> DEFINE ep == EpochFor(o)
<1>1. /\ ep \in Nat \ {0} /\ lastEpoch \in Nat /\ ep >= lastEpoch
      /\ lease.owner = o => ep = lastEpoch
      /\ lease.owner # o => ep = lastEpoch + 1
      /\ lease.epoch = lastEpoch
  BY EpochForType DEF SchedulerInv, TypeOK, FencedEpochs
<1>2. \A q \in Request : state[q] # "none" => exec[q].epoch \in 1 .. lastEpoch
  BY DEF SchedulerInv, FencedEpochs
<1>3. \A q \in Request : state[q] # "none" /\ exec[q].epoch = ep
        => lease.owner = o /\ exec[q].owner = o
  BY <1>1, <1>2 DEF SchedulerInv, FencedEpochs
<1>4. LeaseIsNumbered'
  BY <1>1, SchedulerAssumption DEF LeaseIsNumbered
<1>5. lease'.epoch = lastEpoch' /\ lease'.owner = o /\ lastEpoch' = ep
  OBVIOUS
<1>6. FencedEpochs'
  <2>1. \A q \in Request : state'[q] # "none" => exec'[q].epoch \in 1 .. lastEpoch'
    BY <1>1, <1>2
  <2>2. \A q \in Request : state'[q] # "none" /\ exec'[q].epoch = ep
          => exec'[q].owner = o
    BY <1>3
  <2>3. ASSUME NEW p \in Request, NEW q \in Request,
               state'[p] # "none", state'[q] # "none",
               exec'[q].epoch = exec'[p].epoch
        PROVE  exec'[q].owner = exec'[p].owner
    <3>1. CASE exec'[p].epoch = ep
      BY <2>2, <2>3, <3>1
    <3>2. CASE exec'[p].epoch # ep
      <4>1. p # r /\ q # r
        BY <2>3, <3>2
      <4>2. /\ state[p] # "none" /\ state[q] # "none"
            /\ exec[q].epoch = exec[p].epoch
            /\ exec'[p].owner = exec[p].owner /\ exec'[q].owner = exec[q].owner
        BY <2>3, <4>1
      <4> QED
        BY <4>2 DEF SchedulerInv, FencedEpochs
    <3> QED
      BY <3>1, <3>2
  <2> QED
    BY <1>5, <2>1, <2>2, <2>3 DEF FencedEpochs
<1>7. LiveWorkIsLeased'
  <2> SUFFICES ASSUME NEW q \in Request, state'[q] = "active", exec'[q].owner \in alive
               PROVE  exec'[q].owner = o /\ exec'[q].epoch = ep
    BY <1>5 DEF LiveWorkIsLeased, Active
  <2>1. CASE q = r
    BY <2>1
  <2>2. CASE q # r
    <3>1. q \in Active /\ exec[q].owner \in alive
      BY <2>2 DEF Active
    <3>2. exec[q].owner = o /\ lease.owner = o /\ exec[q].epoch = lease.epoch
      BY <3>1 DEF SoleRunner, SchedulerInv, LiveWorkIsLeased
    <3> QED
      BY <1>1, <2>2, <3>2
  <2> QED
    BY <2>1, <2>2
<1>8. LeaseCoversItsWork'
  <2> SUFFICES ASSUME NEW q \in Request, state'[q] = "active",
                      exec'[q].owner = o, exec'[q].epoch = ep
               PROVE  exec'[q].expires = expires
    BY <1>5 DEF LeaseCoversItsWork, Active
  <2>1. CASE q = r
    BY <2>1
  <2>2. CASE q # r
    BY <2>2 DEF SchedulerInv, RowsAgree
  <2> QED
    BY <2>1, <2>2
<1> QED
  BY <1>4, <1>6, <1>7, <1>8

-----------------------------------------------------------------------------
(* The steps, one lemma per group of operations.                           *)

(* A tick that assigns keeps the invariant.                                *)
LEMMA AssignInv ==
  ASSUME SchedulerInv, NEW o \in Owner, NEW r \in Request,
         NEW t \in Nat, NEW d \in LeaseLengths, Assign(o, r, t, d)
  PROVE  SchedulerInv'
<1>1. /\ o \in alive /\ LeadsWith(o, r, t + d) /\ t + d \in Nat
      /\ exec' \in [Request -> Execution]
      /\ exec'[r].phase = "never-dispatched" /\ exec'[r].attempts = 1
      /\ state[r] = "none"
      /\ state' \in [Request -> {"none", "active", "completed"}]
      /\ state'[r] = "active"
  BY AssignLeads
<1>2. SoleRunner(o)
  BY <1>1, LeaderIsSole DEF Assign, MayTick
<1>3. LeaseIsNumbered' /\ FencedEpochs' /\ LiveWorkIsLeased' /\ LeaseCoversItsWork'
  BY <1>1, <1>2, Handover
<1>4. EpochFor(o) \in Nat
  BY <1>1, EpochForType
<1>5. UNCHANGED <<alive, receipts, ledgerVars>> /\ clock' = t
  BY DEF Assign, StoreLease
<1>6. LedgerInv'
  BY <1>5, LedgerStutterInv DEF SchedulerInv
<1>7. TypeOK'
  BY <1>1, <1>4, <1>5, <1>6
     DEF SchedulerInv, TypeOK, LedgerInv, LeadsWith, Lease
<1>8. RowsAgree'
  BY <1>1, RetryAssumption
     DEF SchedulerInv, RowsAgree, LeadsWith, RenewedRow, SameRow, Terminal
<1>9. SlotsAreExclusive'
  <2> SUFFICES ASSUME NEW p \in Request, NEW q \in Request, state'[p] = "active",
                      state'[q] = "active", SameSlot(p, q)
               PROVE  p = q
    BY DEF SlotsAreExclusive, Active, SameSlot, Review
  <2>1. \A u \in Request \ {r} : state'[u] = "active" => u \in Active /\ ~ SameSlot(u, r)
    BY <1>1 DEF LeadsWith, Active, Assign, HasCapacity
  <2>2. SameSlot(q, p)
    BY DEF SameSlot
  <2> QED
    BY <2>1, <2>2 DEF SchedulerInv, SlotsAreExclusive
<1> QED
  BY <1>3, <1>6, <1>7, <1>8, <1>9 DEF SchedulerInv

(* A recovery with an effect keeps the invariant.                          *)
LEMMA RecoverInv ==
  ASSUME SchedulerInv, NEW o \in Owner, NEW r \in Request,
         NEW t \in Nat, NEW d \in LeaseLengths, Recover(o, r, t, d)
  PROVE  SchedulerInv'
<1>1. MayRecover(o, r, t) /\ r \in Active /\ o \in alive
  BY RecoverTakesOver
<1>2. PICK phase \in Phase, attempts \in 1 .. MaxAttempts, retryAt \in Nat :
        TakeOver(o, r, t, d, phase, attempts, retryAt)
  BY RecoverTakesOver
<1>3. /\ LeadsWith(o, r, t + d) /\ t + d \in Nat
      /\ exec' \in [Request -> Execution]
      /\ exec'[r].phase = phase /\ exec'[r].attempts = attempts
      /\ state' \in [Request -> {"none", "active", "completed"}]
      /\ state'[r] = IF phase \in Terminal THEN "completed" ELSE "active"
  BY <1>1, <1>2, TakeOverLeads
<1>4. SoleRunner(o)
  BY <1>1, RecovererIsSole
<1>5. LeaseIsNumbered' /\ FencedEpochs' /\ LiveWorkIsLeased' /\ LeaseCoversItsWork'
  BY <1>1, <1>3, <1>4, Handover
<1>6. EpochFor(o) \in Nat
  BY <1>1, EpochForType
<1>7. UNCHANGED <<alive, ledgerVars>> /\ clock' = t /\ receipts' = receipts + 1
  BY <1>2 DEF TakeOver, StoreLease
<1>8. LedgerInv'
  BY <1>7, LedgerStutterInv DEF SchedulerInv
<1>9. TypeOK'
  BY <1>3, <1>6, <1>7, <1>8
     DEF SchedulerInv, TypeOK, LedgerInv, LeadsWith, Lease
<1>10. RowsAgree'
  BY <1>1, <1>3
     DEF SchedulerInv, RowsAgree, LeadsWith, RenewedRow, SameRow, Active
<1>11. Active' \subseteq Active
  BY <1>1, <1>3 DEF LeadsWith, Active
<1>12. SlotsAreExclusive'
  BY <1>11 DEF SchedulerInv, SlotsAreExclusive, SameSlot, Review
<1> QED
  BY <1>5, <1>8, <1>9, <1>10, <1>12 DEF SchedulerInv

(* A heartbeat renews the lease and every open row of it alike.            *)
LEMMA HeartbeatInv ==
  ASSUME SchedulerInv, NEW o \in Owner, NEW t \in Nat, NEW d \in LeaseLengths,
         Heartbeat(o, t, d)
  PROVE  SchedulerInv'
<1> DEFINE ex == t + d
<1>1. exec \in [Request -> Execution] /\ ex \in Nat /\ lease \in Lease
  BY SchedulerAssumption DEF SchedulerInv, TypeOK
<1>2. \A q \in Request : RenewedRow(q, o, lease.epoch, ex) /\ exec'[q] \in Execution
  BY <1>1, RenewedFields DEF Heartbeat, RenewedRow, SameRow
<1>3. exec' \in [Request -> Execution]
  BY <1>2 DEF Heartbeat, Renewed
<1>4. /\ lease' \in Lease /\ lease'.owner = lease.owner
      /\ lease'.epoch = lease.epoch /\ lease'.expires = ex
      /\ lease.owner = o
  BY <1>1 DEF Heartbeat, Lease
<1>5. /\ UNCHANGED <<alive, lastEpoch, state, receipts, ledgerVars>>
      /\ clock' = t /\ Active' = Active
  BY DEF Heartbeat, Active
<1>6. LedgerInv'
  BY <1>5, LedgerStutterInv DEF SchedulerInv
<1>7. TypeOK'
  BY <1>3, <1>4, <1>5, <1>6 DEF SchedulerInv, TypeOK, LedgerInv
<1>8. RowsAgree' /\ LeaseIsNumbered'
  BY <1>2, <1>4, <1>5, SchedulerAssumption
     DEF SchedulerInv, RowsAgree, LeaseIsNumbered, RenewedRow, SameRow
<1>9. FencedEpochs'
  BY <1>2, <1>4, <1>5 DEF SchedulerInv, FencedEpochs, RenewedRow, SameRow
<1>10. LiveWorkIsLeased'
  BY <1>2, <1>4, <1>5
     DEF SchedulerInv, LiveWorkIsLeased, RenewedRow, SameRow, Active
<1>11. LeaseCoversItsWork'
  BY <1>2, <1>4, <1>5
     DEF SchedulerInv, RowsAgree, LeaseCoversItsWork, RenewedRow, SameRow, Active
<1>12. SlotsAreExclusive'
  BY <1>5 DEF SchedulerInv, SlotsAreExclusive, SameSlot, Review
<1> QED
  BY <1>6, <1>7, <1>8, <1>9, <1>10, <1>11, <1>12 DEF SchedulerInv

(* The owner moves the phase of its row, never its owner, epoch or expiry. *)
LEMMA TransitionInv ==
  ASSUME SchedulerInv, NEW o \in Owner, NEW r \in Request, NEW t \in Nat,
         Transition(o, r, t)
  PROVE  SchedulerInv'
<1>1. exec \in [Request -> Execution]
  BY DEF SchedulerInv, TypeOK
<1>2. /\ exec[r].phase \notin Terminal
      /\ Successor[exec[r].phase] \in Phase \ Terminal
  BY DEF Transition, Successor, Phase, Idle, Terminal
<1>3. /\ exec' \in [Request -> Execution]
      /\ exec'[r].phase \notin Terminal
      /\ \A q \in Request \ {r} : exec'[q] = exec[q]
      /\ \A q \in Request : /\ exec'[q].owner = exec[q].owner
                            /\ exec'[q].epoch = exec[q].epoch
                            /\ exec'[q].expires = exec[q].expires
                            /\ exec'[q].attempts = exec[q].attempts
  BY <1>1, <1>2 DEF Transition, Execution
<1>4. /\ UNCHANGED <<alive, lastEpoch, lease, state, receipts, ledgerVars>>
      /\ clock' = t /\ Active' = Active /\ state[r] # "none"
  BY DEF Transition, Active
<1>5. LedgerInv'
  BY <1>4, LedgerStutterInv DEF SchedulerInv
<1>6. TypeOK'
  BY <1>3, <1>4, <1>5 DEF SchedulerInv, TypeOK, LedgerInv
<1>7. RowsAgree' /\ LeaseIsNumbered'
  BY <1>2, <1>3, <1>4 DEF SchedulerInv, RowsAgree, LeaseIsNumbered
<1>8. FencedEpochs' /\ LiveWorkIsLeased' /\ LeaseCoversItsWork'
  BY <1>3, <1>4
     DEF SchedulerInv, FencedEpochs, LiveWorkIsLeased, LeaseCoversItsWork, Active
<1>9. SlotsAreExclusive'
  BY <1>4 DEF SchedulerInv, SlotsAreExclusive, SameSlot, Review
<1> QED
  BY <1>5, <1>6, <1>7, <1>8, <1>9 DEF SchedulerInv

(* The owner's completion ends one active assignment.                      *)
LEMMA CompleteInv ==
  ASSUME SchedulerInv, NEW o \in Owner, NEW r \in Request, NEW t \in Nat,
         Complete(o, r, t)
  PROVE  SchedulerInv'
<1>1. /\ exec \in [Request -> Execution]
      /\ state \in [Request -> {"none", "active", "completed"}]
      /\ state[r] = "active"
  BY DEF SchedulerInv, TypeOK, Complete, Active
<1>2. /\ exec' \in [Request -> Execution]
      /\ exec'[r].phase = "completed"
      /\ \A q \in Request \ {r} : exec'[q] = exec[q]
      /\ \A q \in Request : /\ exec'[q].owner = exec[q].owner
                            /\ exec'[q].epoch = exec[q].epoch
                            /\ exec'[q].expires = exec[q].expires
                            /\ exec'[q].attempts = exec[q].attempts
  BY <1>1 DEF Complete, Execution, Phase, Terminal
<1>3. /\ state' \in [Request -> {"none", "active", "completed"}]
      /\ state'[r] = "completed"
      /\ \A q \in Request \ {r} : state'[q] = state[q]
  BY <1>1 DEF Complete
<1>4. /\ UNCHANGED <<alive, lastEpoch, lease, receipts, ledgerVars>> /\ clock' = t
      /\ Active' \subseteq Active
  BY <1>3 DEF Complete, Active
<1>5. LedgerInv'
  BY <1>4, LedgerStutterInv DEF SchedulerInv
<1>6. TypeOK'
  BY <1>2, <1>3, <1>4, <1>5 DEF SchedulerInv, TypeOK, LedgerInv
<1>7. RowsAgree' /\ LeaseIsNumbered'
  BY <1>1, <1>2, <1>3, <1>4
     DEF SchedulerInv, RowsAgree, LeaseIsNumbered, Terminal
<1>8. FencedEpochs'
  BY <1>1, <1>2, <1>3, <1>4 DEF SchedulerInv, FencedEpochs
<1>9. LiveWorkIsLeased' /\ LeaseCoversItsWork'
  BY <1>2, <1>4 DEF SchedulerInv, LiveWorkIsLeased, LeaseCoversItsWork, Active
<1>10. SlotsAreExclusive'
  BY <1>4 DEF SchedulerInv, SlotsAreExclusive, SameSlot, Review
<1> QED
  BY <1>5, <1>6, <1>7, <1>8, <1>9, <1>10 DEF SchedulerInv

(* Steps that leave lease, assignments and rows alone keep the invariant:  *)
(* the ledger's own steps, a death, a refused tick, a recovery without     *)
(* effect, and nothing at all.                                             *)
LEMMA BystanderInv ==
  ASSUME SchedulerInv, LedgerInv', alive' \subseteq alive,
         UNCHANGED <<lastEpoch, lease, state, exec>>,
         clock' \in Nat, receipts' \in Nat
  PROVE  SchedulerInv'
<1>1. TypeOK'
  BY DEF SchedulerInv, TypeOK, LedgerInv
<1>2. RowsAgree' /\ LeaseIsNumbered' /\ FencedEpochs'
  BY DEF SchedulerInv, RowsAgree, LeaseIsNumbered, FencedEpochs
<1>3. Active' = Active
  BY DEF Active
<1>4. LiveWorkIsLeased' /\ LeaseCoversItsWork' /\ SlotsAreExclusive'
  BY <1>3 DEF SchedulerInv, LiveWorkIsLeased, LeaseCoversItsWork, SlotsAreExclusive,
              SameSlot, Review
<1> QED
  BY <1>1, <1>2, <1>4 DEF SchedulerInv

(* Every step of the scheduler and of the ledger keeps the invariant.      *)
LEMMA SchedulerNextInv == SchedulerInv /\ [Next]_vars => SchedulerInv'
<1> SUFFICES ASSUME SchedulerInv, [Next]_vars PROVE SchedulerInv'
  OBVIOUS
<1>1. clock \in Nat /\ receipts \in Nat /\ receipts + 1 \in Nat /\ LedgerInv
  BY DEF SchedulerInv, TypeOK
<1>2. CASE UNCHANGED vars
  <2>1. LedgerInv'
    BY <1>1, <1>2, LedgerStutterInv DEF vars
  <2> QED
    BY <1>1, <1>2, <2>1, BystanderInv DEF vars, schedulerVars
<1>3. CASE LedgerStep
  <2>1. LedgerInv'
    BY <1>1, <1>3, LedgerNextInv DEF LedgerStep
  <2> QED
    BY <1>1, <1>3, <2>1, BystanderInv DEF LedgerStep, schedulerVars
<1>4. ASSUME NEW o \in Owner, OwnerStep(o) PROVE SchedulerInv'
  <2>1. CASE Crash(o)
    <3>1. LedgerInv'
      BY <1>1, <2>1, LedgerStutterInv DEF Crash
    <3> QED
      BY <1>1, <2>1, <3>1, BystanderInv DEF Crash
  <2>2. ASSUME NEW t \in 0 .. MaxTime, NEW d \in LeaseLengths, Heartbeat(o, t, d)
        PROVE  SchedulerInv'
    BY <2>2, HeartbeatInv, SchedulerAssumption
  <2>3. ASSUME NEW t \in 0 .. MaxTime, NEW r \in Request,
               AssignBlocked(o, r, t) \/ RecoverNoEffect(o, r, t)
        PROVE  SchedulerInv'
    <3>1. LedgerInv'
      BY <1>1, <2>3, LedgerStutterInv DEF AssignBlocked, RecoverNoEffect
    <3>2. t \in Nat
      BY SchedulerAssumption
    <3> QED
      BY <1>1, <2>3, <3>1, <3>2, BystanderInv DEF AssignBlocked, RecoverNoEffect
  <2>4. ASSUME NEW t \in 0 .. MaxTime, NEW r \in Request,
               Transition(o, r, t) \/ Complete(o, r, t)
        PROVE  SchedulerInv'
    BY <2>4, TransitionInv, CompleteInv, SchedulerAssumption
  <2>5. ASSUME NEW t \in 0 .. MaxTime, NEW r \in Request, NEW d \in LeaseLengths,
               Assign(o, r, t, d) \/ Recover(o, r, t, d)
        PROVE  SchedulerInv'
    BY <2>5, AssignInv, RecoverInv, SchedulerAssumption
  <2> QED
    BY <1>4, <2>1, <2>2, <2>3, <2>4, <2>5 DEF OwnerStep
<1> QED
  BY <1>2, <1>3, <1>4 DEF Next

(* The invariant holds throughout every behaviour.                         *)
LEMMA SchedulerInvariant == Spec => []SchedulerInv
  BY SchedulerInitInv, SchedulerNextInv, PTL DEF Spec

-----------------------------------------------------------------------------
(* Invariants.                                                             *)

(* For any processes, requests and limits, every stored value stays in its *)
(* column's domain.                                                        *)
THEOREM TypeCorrect == Spec => []TypeOK
<1>1. SchedulerInv => TypeOK
  BY DEF SchedulerInv
<1> QED
  BY <1>1, SchedulerInvariant, PTL

(* An epoch names one owner for ever, whatever ticks, recoveries and deaths*)
(* interleave.                                                             *)
THEOREM FencedEpochsCorrect == Spec => []FencedEpochs
<1>1. SchedulerInv => FencedEpochs
  BY DEF SchedulerInv
<1> QED
  BY <1>1, SchedulerInvariant, PTL

(* Active work whose owner still runs is always under the current lease:   *)
(* at most one running process can drive accepted work.                    *)
THEOREM LiveWorkIsLeasedCorrect == Spec => []LiveWorkIsLeased
<1>1. SchedulerInv => LiveWorkIsLeased
  BY DEF SchedulerInv
<1> QED
  BY <1>1, SchedulerInvariant, PTL

(* The lease and its active rows never disagree about their expiry, which  *)
(* recovery insists on.                                                    *)
THEOREM LeaseCoversItsWorkCorrect == Spec => []LeaseCoversItsWork
<1>1. SchedulerInv => LeaseCoversItsWork
  BY DEF SchedulerInv
<1> QED
  BY <1>1, SchedulerInvariant, PTL

(* The paid slot, the review slot and the writer of each worktree are held *)
(* by at most one active assignment.                                       *)
THEOREM SlotsAreExclusiveCorrect == Spec => []SlotsAreExclusive
<1>1. SchedulerInv => SlotsAreExclusive
  BY DEF SchedulerInv
<1> QED
  BY <1>1, SchedulerInvariant, PTL

-----------------------------------------------------------------------------
(* What one step may do to a row and to the lease.                         *)

(* A step that changes anything of the scheduler's but clock and receipts  *)
(* is one of these.                                                        *)
LEMMA StepCases ==
  ASSUME [Next]_vars
  PROVE  \/ UNCHANGED <<alive, lastEpoch, lease, state, exec>>
         \/ \E o \in Owner : Crash(o)
         \/ \E o \in Owner, t \in Nat, d \in LeaseLengths : Heartbeat(o, t, d)
         \/ \E o \in Owner, t \in Nat, r \in Request :
              \/ Transition(o, r, t)
              \/ Complete(o, r, t)
              \/ \E d \in LeaseLengths : Assign(o, r, t, d) \/ Recover(o, r, t, d)
<1>1. \A t \in 0 .. MaxTime : t \in Nat
  BY SchedulerAssumption
<1>2. CASE UNCHANGED vars
  BY <1>2 DEF vars, schedulerVars
<1>3. CASE LedgerStep
  BY <1>3 DEF LedgerStep, schedulerVars
<1>4. ASSUME NEW o \in Owner, OwnerStep(o)
      PROVE  \/ UNCHANGED <<alive, lastEpoch, lease, state, exec>>
             \/ Crash(o)
             \/ \E t \in Nat, d \in LeaseLengths : Heartbeat(o, t, d)
             \/ \E t \in Nat, r \in Request :
                  \/ Transition(o, r, t)
                  \/ Complete(o, r, t)
                  \/ \E d \in LeaseLengths : Assign(o, r, t, d) \/ Recover(o, r, t, d)
  BY <1>1, <1>4 DEF OwnerStep, AssignBlocked, RecoverNoEffect
<1> QED
  BY <1>2, <1>3, <1>4 DEF Next

(* How work ends in a recovery: paid work that may have been dispatched,   *)
(* or that is recorded as completed, only when it is settled; and work     *)
(* that may have been dispatched keeps out of the retry path.              *)
LEMMA RecoveryDecides ==
  ASSUME SchedulerInv, NEW o \in Owner, NEW r \in Request, NEW t \in Nat,
         NEW d \in LeaseLengths, Recover(o, r, t, d)
  PROVE  /\ exec[r].phase \notin Idle => exec'[r].phase \notin Idle
         /\ r \in PaidRequest /\ exec'[r].phase = "completed" => Settlement(r) = "settled"
         /\ r \in PaidRequest /\ exec[r].phase \notin Idle /\ r \notin Active'
              => Settlement(r) = "settled"
<1>0. o \in alive /\ r \in Active
  BY RecoverTakesOver
<1>1. /\ exec[r].attempts \in Nat \ {0} /\ exec[r].attempts + 1 \in Nat
      /\ exec[r].attempts \in Nat
  BY <1>0, RetryAssumption DEF SchedulerInv, RowsAgree, Active
<1>2. ASSUME NEW phase \in Phase, NEW attempts \in Nat, NEW retryAt \in Nat,
             TakeOver(o, r, t, d, phase, attempts, retryAt)
      PROVE  exec'[r].phase = phase /\ (r \notin Active' => phase \in Terminal)
  BY <1>0, <1>2, TakeOverLeads DEF Active
<1>3. {"completed", "failed", "uncertain", "never-dispatched", "retry-wait"} \subseteq Phase
  BY DEF Phase, Idle, Terminal
<1>4. CASE RecoverCompleted(o, r, t, d)
  <2>1. exec'[r].phase = "completed"
    BY <1>1, <1>2, <1>3, <1>4 DEF RecoverCompleted
  <2>2. r \in PaidRequest => Settlement(r) = "settled"
    BY <1>4 DEF RecoverCompleted, Agrees, Finished, Evidence
  <2> QED
    BY <2>1, <2>2 DEF Idle
<1>5. CASE RecoverSettledUnused(o, r, t, d)
  <2>1. exec'[r].phase = "failed"
    BY <1>1, <1>2, <1>3, <1>5 DEF RecoverSettledUnused
  <2>2. r \in PaidRequest => Settlement(r) = "settled"
    BY <1>5 DEF RecoverSettledUnused, Agrees, Evidence
  <2> QED
    BY <2>1, <2>2 DEF Idle
<1>6. CASE RecoverUncertain(o, r, t, d)
  <2>1. exec'[r].phase = "uncertain" /\ r \in Active'
    BY <1>1, <1>2, <1>3, <1>6 DEF RecoverUncertain, Terminal
  <2> QED
    BY <2>1 DEF Idle
<1>7. CASE RecoverFailed(o, r, t, d)
  <2>1. exec'[r].phase = "failed" /\ exec[r].phase \in Idle
    BY <1>1, <1>2, <1>3, <1>7 DEF RecoverFailed, MayRetry
  <2> QED
    BY <2>1
<1>8. CASE RecoverResumed(o, r, t, d)
  <2>1. exec'[r].phase = "never-dispatched" /\ exec[r].phase \in Idle
    BY <1>1, <1>2, <1>3, <1>8 DEF RecoverResumed, MayRetry
  <2> QED
    BY <2>1
<1>9. CASE RecoverRetryScheduled(o, r, t, d)
  <2>1. PICK delay \in RetryDelays(exec[r].attempts) :
          TakeOver(o, r, t, d, "retry-wait", exec[r].attempts, t + delay)
    BY <1>9 DEF RecoverRetryScheduled
  <2>2. t + delay \in Nat
    BY <1>1, DelayBounds, RetryAssumption
  <2>3. exec'[r].phase = "retry-wait" /\ exec[r].phase \in Idle
    BY <1>1, <1>2, <1>3, <1>9, <2>1, <2>2 DEF RecoverRetryScheduled, MayRetry
  <2> QED
    BY <2>3
<1> QED
  BY <1>4, <1>5, <1>6, <1>7, <1>8, <1>9 DEF Recover

(* Rows other than the recovered or assigned one keep owner, epoch, phase. *)
LEMMA OthersKeepTheirRow ==
  ASSUME SchedulerInv, NEW o \in Owner, NEW r \in Request, NEW t \in Nat,
         NEW d \in LeaseLengths, Assign(o, r, t, d) \/ Recover(o, r, t, d)
  PROVE  \A q \in Request \ {r} : SameRow(q) /\ state'[q] = state[q]
<1>1. CASE Assign(o, r, t, d)
  BY <1>1, AssignLeads DEF LeadsWith, RenewedRow
<1>2. CASE Recover(o, r, t, d)
  BY <1>2, RecoverTakesOver, TakeOverLeads DEF LeadsWith, RenewedRow
<1> QED
  BY <1>1, <1>2

-----------------------------------------------------------------------------
(* Action properties.                                                      *)

(* The lease only moves away from a dead process whose time is over.       *)
LEMMA LeaseStep ==
  ASSUME SchedulerInv, [Next]_vars, lease.owner # lease'.owner
  PROVE  /\ lease.owner \notin alive
         /\ clock' >= lease.expires
         /\ lease'.epoch > lease.epoch
<1>1. PICK o \in Owner, t \in Nat, r \in Request, d \in LeaseLengths :
        Assign(o, r, t, d) \/ Recover(o, r, t, d)
  <2>1. CASE UNCHANGED lease
    BY <2>1
  <2>2. \A o \in Owner, t \in Nat, d \in LeaseLengths : ~ Heartbeat(o, t, d)
    BY DEF Heartbeat, SchedulerInv, TypeOK, Lease
  <2>3. \A o \in Owner, t \in Nat, r \in Request :
          ~ (Transition(o, r, t) \/ Complete(o, r, t))
    BY DEF Transition, Complete
  <2> QED
    BY <2>1, <2>2, <2>3, StepCases DEF Crash
<1>2. MayLead(o, t) \/ MayRecover(o, r, t)
  BY <1>1, RecoverTakesOver DEF Assign, MayTick
<1>3. /\ o \in alive
      /\ lease' = [owner |-> o, epoch |-> EpochFor(o), expires |-> t + d]
      /\ clock' = t
  BY <1>1, RecoverTakesOver DEF Assign, MayTick, StoreLease, TakeOver
<1>4. /\ lease.owner # o /\ EpochFor(o) = lastEpoch + 1
      /\ lease.epoch = lastEpoch /\ lastEpoch \in Nat
  BY <1>3, EpochForType DEF SchedulerInv, TypeOK, FencedEpochs
<1>5. lease.owner \notin alive /\ t >= lease.expires
  <2>1. CASE MayLead(o, t)
    BY <1>4, <2>1, SchedulerAssumption
       DEF MayLead, LeaseIsDead, Expired, SchedulerInv, TypeOK, LeaseIsNumbered
  <2>2. CASE MayRecover(o, r, t)
    BY <1>4, <2>2 DEF MayRecover, LeaseIsDead, Expired
  <2> QED
    BY <1>2, <2>1, <2>2
<1> QED
  BY <1>3, <1>4, <1>5

(* A process keeps the lease for as long as it runs or its time lasts, and *)
(* whoever follows has a newer epoch.                                      *)
THEOREM LeaseIsNeverStolenCorrect == Spec => LeaseIsNeverStolen
<1>1. SchedulerInv /\ [Next]_vars =>
        [lease.owner # lease'.owner =>
           /\ lease.owner \notin alive
           /\ clock' >= lease.expires
           /\ lease'.epoch > lease.epoch]_vars
  BY LeaseStep
<1> QED
  BY <1>1, SchedulerInvariant, PTL DEF Spec, LeaseIsNeverStolen

(* A transition moves one row, to a phase that is neither idle nor final.  *)
LEMMA TransitionRows ==
  ASSUME exec \in [Request -> Execution], NEW o \in Owner, NEW r \in Request,
         NEW t \in Nat, Transition(o, r, t)
  PROVE  /\ exec'[r].phase \in {"dispatch-intent", "dispatched", "completed-unsettled"}
         /\ \A q \in Request \ {r} : exec'[q] = exec[q]
<1>1. Successor[exec[r].phase] \in {"dispatch-intent", "dispatched", "completed-unsettled"}
  BY DEF Transition, Successor
<1> QED
  BY <1>1 DEF Transition, Execution

(* No step brings dispatched work back to the retry path.                  *)
LEMMA DispatchStep ==
  ASSUME SchedulerInv, [Next]_vars, NEW r \in Active, exec[r].phase \notin Idle
  PROVE  exec'[r].phase \notin Idle
<1>0. r \in Request /\ state[r] = "active" /\ exec \in [Request -> Execution]
  BY DEF Active, SchedulerInv, TypeOK
<1>1. CASE UNCHANGED exec
  BY <1>1
<1>2. ASSUME NEW o \in Owner, NEW t \in Nat, NEW d \in LeaseLengths, Heartbeat(o, t, d)
      PROVE  exec'[r].phase \notin Idle
  <2>1. t + d \in Nat
    BY SchedulerAssumption
  <2> QED
    BY <1>0, <1>2, <2>1, RenewedFields DEF Heartbeat
<1>3. ASSUME NEW o \in Owner, NEW t \in Nat, NEW q \in Request,
             Transition(o, q, t) \/ Complete(o, q, t)
      PROVE  exec'[r].phase \notin Idle
  <2>1. CASE Transition(o, q, t)
    <3>1. /\ exec'[q].phase \in {"dispatch-intent", "dispatched", "completed-unsettled"}
          /\ \A p \in Request \ {q} : exec'[p] = exec[p]
      BY <1>0, <2>1, TransitionRows
    <3> QED
      BY <1>0, <3>1 DEF Idle
  <2>2. CASE Complete(o, q, t)
    BY <1>0, <2>2 DEF Complete, Idle, Execution
  <2> QED
    BY <1>3, <2>1, <2>2
<1>4. ASSUME NEW o \in Owner, NEW t \in Nat, NEW q \in Request, NEW d \in LeaseLengths,
             Assign(o, q, t, d) \/ Recover(o, q, t, d)
      PROVE  exec'[r].phase \notin Idle
  <2>1. CASE q # r
    BY <1>0, <1>4, <2>1, OthersKeepTheirRow DEF SameRow
  <2>2. CASE q = r
    BY <1>0, <1>4, <2>2, RecoveryDecides DEF Assign, MayTick
  <2> QED
    BY <2>1, <2>2
<1> QED
  BY <1>1, <1>2, <1>3, <1>4, StepCases DEF Crash

(* Once work may have been dispatched, no owner, recovery or crash makes it*)
(* dispatchable again.                                                     *)
THEOREM DispatchIsNeverRepeatedCorrect == Spec => DispatchIsNeverRepeated
<1>1. SchedulerInv /\ [Next]_vars =>
        [\A r \in Active :
           exec[r].phase \notin Idle => exec'[r].phase \notin Idle]_vars
  BY DispatchStep
<1> QED
  BY <1>1, SchedulerInvariant, PTL DEF Spec, DispatchIsNeverRepeated

(* A paid slot with ambiguous work in it opens only on settled money.      *)
LEMMA CapacityStep ==
  ASSUME SchedulerInv, [Next]_vars, NEW r \in Active \cap PaidRequest,
         exec[r].phase \notin Idle, r \notin Active'
  PROVE  Settlement(r) = "settled"
<1>0. r \in Request /\ state[r] = "active"
  BY DEF Active
<1>1. state' # state
  BY DEF Active
<1>2. PICK o \in Owner, t \in Nat, q \in Request :
        \/ Complete(o, q, t)
        \/ \E d \in LeaseLengths : Assign(o, q, t, d) \/ Recover(o, q, t, d)
  BY <1>1, StepCases DEF Crash, Heartbeat, Transition
<1>3. CASE Complete(o, q, t)
  <2>1. q = r
    BY <1>0, <1>3 DEF Complete, Active
  <2> QED
    BY <1>3, <2>1 DEF Complete
<1>4. ASSUME NEW d \in LeaseLengths, Assign(o, q, t, d) \/ Recover(o, q, t, d)
      PROVE  Settlement(r) = "settled"
  <2>1. q = r
    BY <1>0, <1>4, OthersKeepTheirRow DEF Active
  <2> QED
    BY <1>0, <1>4, <2>1, RecoveryDecides DEF Assign, MayTick
<1> QED
  BY <1>2, <1>3, <1>4

(* Paid capacity is released only with settled money, by completion and by *)
(* every kind of recovery.                                                 *)
THEOREM AmbiguousWorkHoldsCapacityCorrect == Spec => AmbiguousWorkHoldsCapacity
<1>1. SchedulerInv /\ [Next]_vars =>
        [\A r \in Active \cap PaidRequest :
           exec[r].phase \notin Idle /\ r \notin Active'
             => Settlement(r) = "settled"]_vars
  BY CapacityStep
<1> QED
  BY <1>1, SchedulerInvariant, PTL DEF Spec, AmbiguousWorkHoldsCapacity

-----------------------------------------------------------------------------
(* Scheduler and ledger together.                                          *)

(* Seen from the ledger, every step is one of its own or none.             *)
LEMMA StepIsLedgerStep == [Next]_vars => [LedgerNext]_ledgerVars
<1> SUFFICES ASSUME [Next]_vars PROVE [LedgerNext]_ledgerVars
  OBVIOUS
<1>1. CASE UNCHANGED vars
  BY <1>1 DEF vars
<1>2. CASE LedgerStep
  BY <1>2 DEF LedgerStep
<1>3. ASSUME NEW o \in Owner, OwnerStep(o) PROVE UNCHANGED ledgerVars
  <2>1. CASE Crash(o)
    BY <2>1 DEF Crash
  <2>2. ASSUME NEW t \in 0 .. MaxTime, NEW d \in LeaseLengths, Heartbeat(o, t, d)
        PROVE  UNCHANGED ledgerVars
    BY <2>2 DEF Heartbeat
  <2>3. ASSUME NEW t \in 0 .. MaxTime, NEW r \in Request,
               \/ AssignBlocked(o, r, t) \/ Transition(o, r, t)
               \/ Complete(o, r, t) \/ RecoverNoEffect(o, r, t)
        PROVE  UNCHANGED ledgerVars
    BY <2>3 DEF AssignBlocked, Transition, Complete, RecoverNoEffect
  <2>4. ASSUME NEW t \in 0 .. MaxTime, NEW r \in Request, NEW d \in LeaseLengths,
               Assign(o, r, t, d) \/ Recover(o, r, t, d)
        PROVE  UNCHANGED ledgerVars
    BY <2>4 DEF Assign, Recover, RecoverCompleted, RecoverSettledUnused,
                RecoverUncertain, RecoverFailed, RecoverResumed, RecoverRetryScheduled,
                TakeOver
  <2> QED
    BY <1>3, <2>1, <2>2, <2>3, <2>4 DEF OwnerStep
<1> QED
  BY <1>1, <1>2, <1>3 DEF Next

(* Whatever the ledger does, what it calls settled stays settled.          *)
LEMMA SettlementIsStable ==
  ASSUME LedgerInv, [LedgerNext]_ledgerVars, NEW r \in PaidRequest,
         SettlementAuthority(r) = "settled"
  PROVE  SettlementAuthority(r)' = "settled"
<1>1. JobOf[r] \in Job /\ r \in NamesReservation \cup NamesAuthorization
  BY SchedulerAssumption
<1>2. /\ reservation[JobOf[r]] \in ReservationState
      /\ authorization[JobOf[r]] \in AuthorizationState
  BY <1>1 DEF LedgerInv, LedgerTypeOK
<1>3. CASE r \in NamesReservation
  <2>1. reservation[JobOf[r]] \in {"settled", "reconciled"}
    BY <1>2, <1>3 DEF SettlementAuthority, ReservationState
  <2>2. reservation'[JobOf[r]] = reservation[JobOf[r]]
    BY <1>1, <2>1, CashIsFinalStep
  <2> QED
    BY <1>3, <2>1, <2>2 DEF SettlementAuthority
<1>4. CASE r \notin NamesReservation
  <2>1. authorization[JobOf[r]] \in {"settled", "released"} /\ JobOf[r] \notin Metered
    BY <1>2, <1>4 DEF SettlementAuthority, AuthorizationState
  <2>2. authorization'[JobOf[r]] = authorization[JobOf[r]]
    BY <1>1, <2>1, SettledQuotaStays
  <2> QED
    BY <1>4, <2>1, <2>2 DEF SettlementAuthority
<1> QED
  BY <1>3, <1>4

(* A paid row is marked completed only when its money is settled.          *)
LEMMA CompletionIsSettled ==
  ASSUME SchedulerInv, [Next]_vars, NEW r \in PaidRequest,
         exec[r].phase # "completed", exec'[r].phase = "completed"
  PROVE  SettlementAuthority(r) = "settled" /\ UNCHANGED ledgerVars
<1>0. r \in Request /\ exec \in [Request -> Execution]
  BY SchedulerAssumption DEF SchedulerInv, TypeOK
<1>1. Settlement(r) = "settled" => SettlementAuthority(r) = "settled"
  BY DEF Settlement
<1>2. \A o \in Owner, t \in Nat, d \in LeaseLengths : ~ Heartbeat(o, t, d)
  <2> SUFFICES ASSUME NEW o \in Owner, NEW t \in Nat, NEW d \in LeaseLengths,
                      Heartbeat(o, t, d)
               PROVE  FALSE
    OBVIOUS
  <2>1. t + d \in Nat
    BY SchedulerAssumption
  <2> QED
    BY <1>0, <2>1, RenewedFields DEF Heartbeat
<1>3. \A o \in Owner, t \in Nat, q \in Request : ~ Transition(o, q, t)
  BY <1>0, TransitionRows
<1>4. PICK o \in Owner, t \in Nat, q \in Request :
        \/ Complete(o, q, t)
        \/ \E d \in LeaseLengths : Assign(o, q, t, d) \/ Recover(o, q, t, d)
  BY <1>2, <1>3, StepCases DEF Crash
<1>5. CASE Complete(o, q, t)
  <2>1. q = r
    BY <1>0, <1>5 DEF Complete
  <2> QED
    BY <1>1, <1>5, <2>1 DEF Complete
<1>6. ASSUME NEW d \in LeaseLengths, Assign(o, q, t, d) \/ Recover(o, q, t, d)
      PROVE  SettlementAuthority(r) = "settled" /\ UNCHANGED ledgerVars
  <2>1. q = r
    BY <1>0, <1>6, OthersKeepTheirRow DEF SameRow
  <2>2. Recover(o, r, t, d)
    BY <1>6, <2>1, AssignLeads
  <2> QED
    BY <1>0, <1>1, <2>2, RecoveryDecides, RecoverTakesOver DEF TakeOver
<1> QED
  BY <1>4, <1>5, <1>6

(* A scheduler record that says a paid job is completed never contradicts  *)
(* the ledger, whatever either component does afterwards.                  *)
THEOREM CompletedPaidIsSettledCorrect == Spec => []CompletedPaidIsSettled
<1>1. Init => CompletedPaidIsSettled
  BY SchedulerAssumption
     DEF Init, SchedulerInit, NoExecution, CompletedPaidIsSettled
<1>2. ASSUME SchedulerInv, CompletedPaidIsSettled, [Next]_vars
      PROVE  CompletedPaidIsSettled'
  <2> SUFFICES ASSUME NEW r \in PaidRequest, exec'[r].phase = "completed"
               PROVE  SettlementAuthority(r)' = "settled"
    BY DEF CompletedPaidIsSettled
  <2>1. CASE exec[r].phase = "completed"
    <3>1. SettlementAuthority(r) = "settled"
      BY <1>2, <2>1 DEF CompletedPaidIsSettled
    <3>2. [LedgerNext]_ledgerVars
      BY <1>2, StepIsLedgerStep
    <3> QED
      BY <1>2, <3>1, <3>2, SettlementIsStable DEF SchedulerInv
  <2>2. CASE exec[r].phase # "completed"
    BY <1>2, <2>2, CompletionIsSettled, SettlementIsStable DEF SchedulerInv
  <2> QED
    BY <2>1, <2>2
<1> QED
  BY <1>1, <1>2, SchedulerInvariant, PTL DEF Spec

-----------------------------------------------------------------------------
(* Attempts are paced                                                      *)

(* What BackoffPaces needs of an execution row: an attempt that is not     *)
(* over keeps its lease for a second at least, and one that waits is not   *)
(* due before its backoff has passed as well.                              *)
PacedRow(row, now) ==
  LET start == row.created + EarliestStart[row.attempts] IN
  /\ row.attempts \in 1 .. MaxAttempts
  /\ start <= now
  /\ row.phase \notin Terminal => start + 1 <= row.expires
  /\ row.phase = "retry-wait" => start + 1 + ShortestDelay(row.attempts) <= row.retryAt

RowsArePaced == \A r \in Request : state[r] # "none" => PacedRow(exec[r], clock)

(* A row that a renewal reaches at time t, and one that nothing reaches.   *)
LEMMA RenewedIsPaced ==
  ASSUME SchedulerInv, RowsArePaced, NEW o, NEW epoch, NEW t \in Nat, clock <= t,
         NEW d \in LeaseLengths, NEW q \in Request, state[q] # "none"
  PROVE  PacedRow(Renewed(o, epoch, t + d)[q], t)
<1>1. /\ exec \in [Request -> Execution] /\ d \in Nat /\ d >= 1 /\ clock \in Nat
      /\ exec[q].created \in Nat /\ exec[q].expires \in Nat
  BY SchedulerAssumption DEF SchedulerInv, TypeOK, Execution
<1>2. PacedRow(exec[q], clock)
  BY DEF RowsArePaced
<1>3. /\ EarliestStart[exec[q].attempts] \in Nat
      /\ ShortestDelay(exec[q].attempts) \in Nat
  BY <1>2, EarliestStartIs, ShortestDelayType DEF PacedRow
<1> DEFINE row == Renewed(o, epoch, t + d)[q]
<1>4. /\ row.phase = exec[q].phase /\ row.attempts = exec[q].attempts
      /\ row.created = exec[q].created /\ row.retryAt = exec[q].retryAt
      /\ row.expires = exec[q].expires \/ row.expires = t + d
  BY <1>1 DEF Renewed, Execution
<1> HIDE DEF row
<1>5. PacedRow(row, t)
  BY <1>1, <1>2, <1>3, <1>4 DEF PacedRow
<1> QED
  BY <1>5 DEF row

(* A row that was paced stays so as the clock goes on.                     *)
LEMMA LaterIsPaced ==
  ASSUME SchedulerInv, RowsArePaced, NEW t \in Nat, clock <= t,
         NEW q \in Request, state[q] # "none"
  PROVE  PacedRow(exec[q], t)
<1>1. exec[q].created \in Nat /\ clock \in Nat
  BY DEF SchedulerInv, TypeOK, Execution
<1>2. PacedRow(exec[q], clock)
  BY DEF RowsArePaced
<1>3. EarliestStart[exec[q].attempts] \in Nat
  BY <1>2, EarliestStartIs DEF PacedRow
<1> QED
  BY <1>1, <1>2, <1>3 DEF PacedRow

(* The row of a request that is accepted.                                  *)
LEMMA AssignIsPaced ==
  ASSUME SchedulerInv, RowsArePaced, NEW o \in Owner, NEW r \in Request,
         NEW t \in Nat, NEW d \in LeaseLengths, Assign(o, r, t, d)
  PROVE  RowsArePaced'
<1> DEFINE new == Renewed(o, EpochFor(o), t + d)
           row == [phase |-> "never-dispatched", attempts |-> 1, owner |-> o,
                   epoch |-> EpochFor(o), expires |-> t + d, created |-> t, retryAt |-> 0]
<1>1. clock' = t /\ clock <= t /\ d >= 1 /\ d \in Nat
  BY SchedulerAssumption DEF Assign, MayTick, Observes, StoreLease, SchedulerInv, TypeOK
<1>2. exec' = [new EXCEPT ![r] = row] /\ new = [q \in Request |-> new[q]]
  BY DEF Assign, Renewed
<1>3. exec'[r] = row /\ \A q \in Request \ {r} : exec'[q] = new[q]
  BY <1>2
<1>4. \A q \in Request \ {r} : state'[q] = state[q]
  BY DEF Assign, SchedulerInv, TypeOK
<1>5. PacedRow(row, t)
  BY <1>1, EarliestStartIs, RetryAssumption DEF PacedRow
<1>6. \A q \in Request \ {r} : state[q] # "none" => PacedRow(new[q], t)
  BY <1>1, RenewedIsPaced
<1> QED
  BY <1>1, <1>3, <1>4, <1>5, <1>6 DEF RowsArePaced

(* What a recovery makes of its row: the attempt stays and ends, waits for *)
(* its backoff, or gives way to the next one when that has passed.         *)
Continues(r, t, phase, attempts, retryAt) ==
  \/ phase \in {"completed", "failed", "uncertain"} /\ attempts = exec[r].attempts
  \/ /\ phase = "never-dispatched" /\ attempts = exec[r].attempts + 1
     /\ exec[r].phase = "retry-wait" /\ exec[r].attempts < MaxAttempts
     /\ t >= exec[r].retryAt
  \/ /\ phase = "retry-wait" /\ attempts = exec[r].attempts
     /\ t >= exec[r].expires
     /\ retryAt >= t + ShortestDelay(exec[r].attempts)

(* Every kind of recovery is one of those.                                 *)
LEMMA RecoverContinues ==
  ASSUME SchedulerInv, NEW o \in Owner, NEW r \in Request, NEW t \in Nat,
         NEW d \in LeaseLengths, Recover(o, r, t, d)
  PROVE  \E phase \in Phase, attempts \in Nat, retryAt \in Nat :
           TakeOver(o, r, t, d, phase, attempts, retryAt)
             /\ Continues(r, t, phase, attempts, retryAt)
<1>1. /\ MayRecover(o, r, t) /\ r \in Active /\ exec[r].attempts \in 1 .. MaxAttempts
      /\ MaxAttempts \in Nat
  BY RecoverTakesOver, RetryAssumption DEF SchedulerInv, RowsAgree, Active
<1>2. {"completed", "failed", "uncertain", "never-dispatched", "retry-wait"} \subseteq Phase
  BY DEF Phase, Idle, Terminal
<1>3. CASE \E phase \in {"completed", "failed", "uncertain"} :
             TakeOver(o, r, t, d, phase, exec[r].attempts, 0)
  <2>1. PICK phase \in {"completed", "failed", "uncertain"} :
          TakeOver(o, r, t, d, phase, exec[r].attempts, 0)
    BY <1>3
  <2>2. Continues(r, t, phase, exec[r].attempts, 0)
    BY <1>2 DEF Continues
  <2>3. phase \in Phase /\ exec[r].attempts \in Nat /\ 0 \in Nat
    BY <1>1, <1>2
  <2> QED
    BY <2>1, <2>2, <2>3
<1>4. CASE RecoverResumed(o, r, t, d)
  <2>1. /\ exec[r].phase = "retry-wait" /\ t >= exec[r].retryAt
        /\ exec[r].attempts < MaxAttempts
        /\ TakeOver(o, r, t, d, "never-dispatched", exec[r].attempts + 1, 0)
    BY <1>1, <1>4 DEF RecoverResumed, MayRecover, RetryDue, Exhausted
  <2> QED
    BY <1>1, <1>2, <2>1 DEF Continues
<1>5. CASE RecoverRetryScheduled(o, r, t, d)
  <2>1. PICK delay \in RetryDelays(exec[r].attempts) :
          TakeOver(o, r, t, d, "retry-wait", exec[r].attempts, t + delay)
    BY <1>5 DEF RecoverRetryScheduled
  <2>2. delay \in Nat /\ delay >= ShortestDelay(exec[r].attempts)
    BY <1>1, DelayBounds, DelayIsNotShort, RetryAssumption
  <2>3. ShortestDelay(exec[r].attempts) \in Nat
    BY <1>1, ShortestDelayType
  <2>4. t >= exec[r].expires
    BY <1>1 DEF MayRecover, Expired
  <2>5. t + delay \in Nat /\ t + delay >= t + ShortestDelay(exec[r].attempts)
    BY <2>2, <2>3
  <2>6. Continues(r, t, "retry-wait", exec[r].attempts, t + delay)
    BY <2>4, <2>5 DEF Continues
  <2> QED
    BY <1>1, <1>2, <2>1, <2>5, <2>6
<1> QED
  BY <1>3, <1>4, <1>5
  DEF Recover, RecoverCompleted, RecoverSettledUnused, RecoverUncertain, RecoverFailed

(* The row of a request that is recovered: a resumed attempt starts when   *)
(* the delay of the one before has passed, and its delay starts after its  *)
(* own lease.                                                              *)
LEMMA RecoverIsPaced ==
  ASSUME SchedulerInv, RowsArePaced, NEW o \in Owner, NEW r \in Request,
         NEW t \in Nat, NEW d \in LeaseLengths, Recover(o, r, t, d)
  PROVE  RowsArePaced'
<1> DEFINE new == Renewed(o, EpochFor(o), t + d)
<1>1. PICK phase \in Phase, attempts \in Nat, retryAt \in Nat :
        /\ TakeOver(o, r, t, d, phase, attempts, retryAt)
        /\ Continues(r, t, phase, attempts, retryAt)
  BY RecoverContinues
<1> DEFINE row == [new[r] EXCEPT !.phase = phase, !.attempts = attempts,
                                 !.retryAt = retryAt, !.owner = o,
                                 !.epoch = EpochFor(o), !.expires = t + d]
<1>2. MayRecover(o, r, t) /\ r \in Active
  BY RecoverTakesOver
<1>3. clock' = t /\ clock <= t /\ d >= 1 /\ d \in Nat
  BY <1>1, <1>2, SchedulerAssumption
     DEF TakeOver, MayRecover, Observes, StoreLease, SchedulerInv, TypeOK
<1>4. exec' = [new EXCEPT ![r] = row] /\ new = [q \in Request |-> new[q]]
  BY <1>1 DEF TakeOver, Renewed
<1>5. exec'[r] = row /\ \A q \in Request \ {r} : exec'[q] = new[q]
  BY <1>4
<1>6. \A q \in Request \ {r} : state'[q] = state[q]
  BY <1>1 DEF TakeOver, SchedulerInv, TypeOK
<1>7. \A q \in Request \ {r} : state[q] # "none" => PacedRow(new[q], t)
  BY <1>3, RenewedIsPaced
<1>8. exec[r] \in Execution /\ exec[r].phase \notin Terminal /\ state[r] # "none"
  BY <1>2 DEF Active, SchedulerInv, TypeOK, RowsAgree
<1>9. PacedRow(exec[r], clock) /\ clock \in Nat
  BY <1>8 DEF RowsArePaced, SchedulerInv, TypeOK
<1>10. /\ row.created = exec[r].created /\ row.phase = phase /\ row.attempts = attempts
       /\ row.retryAt = retryAt /\ row.expires = t + d
  BY <1>8 DEF Renewed, Execution
<1>11. PacedRow(row, t)
  <2> DEFINE n == exec[r].attempts
             start == exec[r].created + EarliestStart[n]
  <2>1. /\ n \in 1 .. MaxAttempts /\ MaxAttempts \in Nat
        /\ exec[r].expires \in Nat /\ exec[r].retryAt \in Nat /\ exec[r].created \in Nat
    BY <1>8, <1>9, RetryAssumption DEF PacedRow, Execution
  <2>2. ShortestDelay(n) \in Nat /\ EarliestStart[n] \in Nat
    BY <2>1, EarliestStartIs, ShortestDelayType
  <2>3. n < MaxAttempts =>
          /\ n + 1 \in 1 .. MaxAttempts
          /\ EarliestStart[n + 1] = EarliestStart[n] + 1 + ShortestDelay(n)
    <3> HIDE DEF n
    <3>1. n < MaxAttempts => n \in 1 .. MaxAttempts - 1 /\ n + 1 \in 1 .. MaxAttempts
      BY <2>1
    <3> QED
      BY <3>1, EarliestStartIs
  <2>4. start \in Nat /\ start <= clock /\ start + 1 <= exec[r].expires
    <3>1. start \in Nat
      BY <2>1, <2>2
    <3>2. start <= clock /\ start + 1 <= exec[r].expires
      BY <1>8, <1>9 DEF PacedRow
    <3> QED
      BY <3>1, <3>2
  <2>5. exec[r].phase = "retry-wait" => start + 1 + ShortestDelay(n) <= exec[r].retryAt
    BY <1>9 DEF PacedRow
  <2> HIDE DEF row
  <2>6. CASE phase \in {"completed", "failed", "uncertain"} /\ attempts = n
    <3>1. phase # "retry-wait"
      BY <2>6
    <3>2. row.created + EarliestStart[row.attempts] = start /\ start + 1 <= t + d
      BY <1>3, <1>9, <1>10, <2>4, <2>6
    <3> QED
      BY <1>3, <1>9, <1>10, <2>1, <2>4, <2>6, <3>1, <3>2 DEF PacedRow
  <2>7. CASE /\ phase = "never-dispatched" /\ attempts = n + 1
             /\ exec[r].phase = "retry-wait" /\ n < MaxAttempts /\ t >= exec[r].retryAt
    <3>1. row.created + EarliestStart[row.attempts] = start + 1 + ShortestDelay(n)
      BY <1>10, <2>1, <2>2, <2>3, <2>7
    <3> QED
      BY <1>3, <1>10, <2>1, <2>2, <2>3, <2>4, <2>5, <2>7, <3>1 DEF PacedRow
  <2>8. CASE /\ phase = "retry-wait" /\ attempts = n /\ t >= exec[r].expires
             /\ retryAt >= t + ShortestDelay(n)
    <3>1. row.created + EarliestStart[row.attempts] = start /\ start + 1 <= t
      BY <1>3, <1>9, <1>10, <2>1, <2>4, <2>8
    <3> QED
      BY <1>3, <1>9, <1>10, <2>1, <2>2, <2>4, <2>8, <3>1 DEF PacedRow
  <2> QED
    BY <1>1, <2>6, <2>7, <2>8 DEF Continues
<1> QED
  BY <1>3, <1>5, <1>6, <1>7, <1>11 DEF RowsArePaced

(* Every step of the scheduler or the ledger keeps the rows paced.         *)
LEMMA PacedStep ==
  SchedulerInv /\ RowsArePaced /\ [Next]_vars => RowsArePaced'
<1> SUFFICES ASSUME SchedulerInv, RowsArePaced, [Next]_vars PROVE RowsArePaced'
  OBVIOUS
<1>1. exec \in [Request -> Execution]
      /\ state \in [Request -> {"none", "active", "completed"}] /\ clock \in Nat
  BY DEF SchedulerInv, TypeOK
<1>2. ASSUME UNCHANGED <<state, exec>>, clock' \in Nat, clock <= clock'
      PROVE  RowsArePaced'
  BY <1>2, LaterIsPaced DEF RowsArePaced
<1>3. CASE UNCHANGED vars \/ LedgerStep
  BY <1>1, <1>2, <1>3 DEF vars, schedulerVars, LedgerStep
<1>4. ASSUME NEW o \in Owner, Crash(o) PROVE RowsArePaced'
  BY <1>1, <1>2, <1>4 DEF Crash
<1>5. ASSUME NEW o \in Owner, NEW t \in 0 .. MaxTime, NEW r \in Request,
             AssignBlocked(o, r, t) \/ RecoverNoEffect(o, r, t)
      PROVE  RowsArePaced'
  BY <1>1, <1>2, <1>5, SchedulerAssumption
     DEF AssignBlocked, MayTick, RecoverNoEffect, Observes
<1>6. ASSUME NEW o \in Owner, NEW t \in 0 .. MaxTime, NEW d \in LeaseLengths,
             Heartbeat(o, t, d)
      PROVE  RowsArePaced'
  <2>1. t \in Nat /\ clock <= t /\ clock' = t /\ state' = state
    BY <1>1, <1>6, SchedulerAssumption DEF Heartbeat, Observes
  <2>2. exec' = Renewed(o, lease.epoch, t + d)
    BY <1>6 DEF Heartbeat
  <2> QED
    BY <2>1, <2>2, RenewedIsPaced DEF RowsArePaced
<1>7. ASSUME NEW o \in Owner, NEW t \in 0 .. MaxTime, NEW r \in Request,
             Transition(o, r, t) \/ Complete(o, r, t)
      PROVE  RowsArePaced'
  <2>1. t \in Nat /\ clock <= t /\ clock' = t
        /\ \A q \in Request : state'[q] # "none" => state[q] # "none"
    BY <1>1, <1>7, SchedulerAssumption DEF Transition, Complete, Observes, Active
  <2>2. /\ exec[r].phase \notin Terminal
        /\ exec'[r].phase \in
             {"dispatch-intent", "dispatched", "completed-unsettled", "completed"}
        /\ \A q \in Request \ {r} : exec'[q] = exec[q]
        /\ exec'[r].attempts = exec[r].attempts /\ exec'[r].created = exec[r].created
        /\ exec'[r].expires = exec[r].expires
    <3>1. CASE Transition(o, r, t)
      BY <1>1, <2>1, <3>1, TransitionRows DEF Transition, Execution, Successor, Terminal
    <3>2. CASE Complete(o, r, t)
      BY <1>1, <3>2 DEF Complete, Execution, Terminal
    <3> QED
      BY <1>7, <3>1, <3>2
  <2>3. state[r] # "none"
    BY <1>7 DEF Transition, Complete, Active
  <2>4. \A q \in Request : state'[q] # "none" => PacedRow(exec[q], t)
    BY <2>1, LaterIsPaced
  <2>5. PacedRow(exec'[r], t)
    BY <2>1, <2>2, <2>3, LaterIsPaced DEF PacedRow
  <2> QED
    BY <2>1, <2>2, <2>4, <2>5 DEF RowsArePaced
<1>8. ASSUME NEW o \in Owner, NEW t \in 0 .. MaxTime, NEW r \in Request,
             NEW d \in LeaseLengths,
             Assign(o, r, t, d) \/ Recover(o, r, t, d)
      PROVE  RowsArePaced'
  BY <1>8, AssignIsPaced, RecoverIsPaced, SchedulerAssumption
<1> QED
  BY <1>3, <1>4, <1>5, <1>6, <1>7, <1>8 DEF Next, OwnerStep

(* Attempts are bounded, and none starts before every earlier one had its  *)
(* lease run out and its own jittered backoff pass, whichever process      *)
(* accepted, renewed or recovered the work, for any policy the code takes. *)
THEOREM BackoffPacesCorrect == Spec => []BackoffPaces
<1>1. Init => RowsArePaced
  BY DEF Init, SchedulerInit, RowsArePaced
<1>2. RowsArePaced => BackoffPaces
  BY DEF RowsArePaced, PacedRow, BackoffPaces
<1> QED
  BY <1>1, <1>2, PacedStep, SchedulerInvariant, PTL DEF Spec

-----------------------------------------------------------------------------
(* FactoryScheduler implements WorkOwnership, for any processes, requests, *)
(* jobs and limits: leases, epochs, clocks, retries and the ledger are     *)
(* means to exclusive ownership, and none of their interleavings shows     *)
(* through.  A tick that assigns is Accept, a completion Finish, a death   *)
(* Die, a recovery with an effect Inherit; every other step stutters.      *)

Holder == [r \in Request |-> exec[r].owner]
Done == {r \in Request : state[r] = "completed"}

(* What the abstract machine calls held work is the active assignments.    *)
LEMMA HeldIsActive == SchedulerInv => Ownership!Held = Active
  BY SchedulerAssumption
     DEF SchedulerInv, TypeOK, RowsAgree, Ownership!Held, Active

(* A lone running holder is the same idea on both levels.                  *)
LEMMA SoleRunnerMaps ==
  ASSUME SchedulerInv, NEW o \in Owner, SoleRunner(o)
  PROVE  Ownership!SoleRunner(o)
<1>1. Ownership!Held = Active /\ Active \subseteq Request
  BY HeldIsActive DEF Active
<1> QED
  BY <1>1 DEF Ownership!SoleRunner, SoleRunner

(* Rows that keep their owner and state are invisible above.               *)
LEMMA KeptRowsStutter ==
  ASSUME alive' = alive, state' = state,
         \A q \in Request : exec'[q].owner = exec[q].owner
  PROVE  UNCHANGED Ownership!ownershipVars
  BY DEF Ownership!ownershipVars

(* One row given to o is one change of the holder function.                *)
LEMMA HolderChange ==
  ASSUME NEW o \in Owner, NEW r \in Request, NEW expires, LeadsWith(o, r, expires)
  PROVE  Holder' = [Holder EXCEPT ![r] = o]
  BY DEF Holder, LeadsWith, RenewedRow, SameRow

(* A tick that assigns accepts the request.                                *)
LEMMA AssignAccepts ==
  ASSUME SchedulerInv, NEW o \in Owner, NEW r \in Request,
         NEW t \in Nat, NEW d \in LeaseLengths, Assign(o, r, t, d)
  PROVE  Ownership!Accept(r, o)
<1>1. /\ o \in alive /\ LeadsWith(o, r, t + d)
      /\ state[r] = "none" /\ state'[r] = "active"
  BY AssignLeads
<1>2. Ownership!SoleRunner(o)
  BY <1>1, LeaderIsSole, SoleRunnerMaps DEF Assign, MayTick
<1>3. Holder' = [Holder EXCEPT ![r] = o]
  BY <1>1, HolderChange
<1>4. exec[r].owner = NoOwner
  BY <1>1 DEF SchedulerInv, RowsAgree
<1>5. Done' = Done /\ alive' = alive
  BY <1>1 DEF Done, LeadsWith
<1> QED
  BY <1>1, <1>2, <1>3, <1>4, <1>5 DEF Ownership!Accept, Holder, Done

(* The owner's completion finishes the request.                            *)
LEMMA CompleteFinishes ==
  ASSUME SchedulerInv, NEW o \in Owner, NEW r \in Request, NEW t \in Nat,
         Complete(o, r, t)
  PROVE  Ownership!Finish(r)
<1>1. /\ exec \in [Request -> Execution]
      /\ state \in [Request -> {"none", "active", "completed"}]
  BY DEF SchedulerInv, TypeOK
<1>2. r \in Ownership!Held /\ exec[r].owner \in alive
  BY HeldIsActive DEF Complete
<1>3. Done' = Done \cup {r}
  BY <1>1 DEF Complete, Done
<1>4. Holder' = Holder /\ alive' = alive
  BY <1>1 DEF Complete, Holder
<1> QED
  BY <1>2, <1>3, <1>4 DEF Ownership!Finish, Holder, Done

(* A recovery with an effect inherits the request from a dead holder.      *)
LEMMA RecoverInherits ==
  ASSUME SchedulerInv, NEW o \in Owner, NEW r \in Request,
         NEW t \in Nat, NEW d \in LeaseLengths, Recover(o, r, t, d)
  PROVE  Ownership!Inherit(r, o)
<1>1. MayRecover(o, r, t) /\ r \in Active /\ o \in alive
  BY RecoverTakesOver
<1>2. PICK phase \in Phase, attempts \in Nat, retryAt \in Nat :
        TakeOver(o, r, t, d, phase, attempts, retryAt)
  BY RecoverTakesOver
<1>3. /\ LeadsWith(o, r, t + d)
      /\ state'[r] = IF phase \in Terminal THEN "completed" ELSE "active"
  BY <1>1, <1>2, TakeOverLeads
<1>4. Ownership!SoleRunner(o)
  BY <1>1, RecovererIsSole, SoleRunnerMaps
<1>5. Holder' = [Holder EXCEPT ![r] = o]
  BY <1>3, HolderChange
<1>6. r \in Ownership!Held /\ exec[r].owner \notin alive
  BY <1>1, HeldIsActive DEF MayRecover
<1>7. Done' \in {Done, Done \cup {r}}
  <2>1. state[r] = "active" /\ \A q \in Request \ {r} : state'[q] = state[q]
    BY <1>1, <1>3 DEF Active, LeadsWith
  <2>2. CASE phase \in Terminal
    <3>1. Done' = Done \cup {r}
      BY <1>3, <2>1, <2>2 DEF Done
    <3> QED
      BY <3>1
  <2>3. CASE phase \notin Terminal
    <3>1. Done' = Done
      BY <1>3, <2>1, <2>3 DEF Done
    <3> QED
      BY <3>1
  <2> QED
    BY <2>2, <2>3
<1>8. alive' = alive
  BY <1>3 DEF LeadsWith
<1> QED
  BY <1>1, <1>4, <1>5, <1>6, <1>7, <1>8 DEF Ownership!Inherit, Holder, Done

(* Every step of scheduler and ledger is a step of the abstract machine or *)
(* none.                                                                   *)
LEMMA StepImplements ==
  ASSUME SchedulerInv, [Next]_vars
  PROVE  [Ownership!Next]_(Ownership!ownershipVars)
<1>1. CASE UNCHANGED <<alive, state, exec>>
  BY <1>1, KeptRowsStutter
<1>2. ASSUME NEW o \in Owner, NEW t \in Nat, NEW d \in LeaseLengths, Heartbeat(o, t, d)
      PROVE  UNCHANGED Ownership!ownershipVars
  <2>1. exec \in [Request -> Execution] /\ t + d \in Nat
    BY SchedulerAssumption DEF SchedulerInv, TypeOK
  <2>2. \A q \in Request : exec'[q].owner = exec[q].owner
    BY <1>2, <2>1, RenewedFields DEF Heartbeat
  <2> QED
    BY <1>2, <2>2, KeptRowsStutter DEF Heartbeat
<1>3. ASSUME NEW o \in Owner, NEW t \in Nat, NEW r \in Request, Transition(o, r, t)
      PROVE  UNCHANGED Ownership!ownershipVars
  <2>1. \A q \in Request : exec'[q].owner = exec[q].owner
    BY <1>3 DEF Transition, SchedulerInv, TypeOK, Execution
  <2> QED
    BY <1>3, <2>1, KeptRowsStutter DEF Transition
<1>4. ASSUME NEW o \in Owner, NEW t \in Nat, NEW r \in Request, Complete(o, r, t)
      PROVE  Ownership!Next
  BY <1>4, CompleteFinishes DEF Ownership!Next
<1>5. ASSUME NEW o \in Owner, NEW t \in Nat, NEW r \in Request, NEW d \in LeaseLengths,
             Assign(o, r, t, d) \/ Recover(o, r, t, d)
      PROVE  Ownership!Next
  BY <1>5, AssignAccepts, RecoverInherits DEF Ownership!Next
<1>6. ASSUME NEW o \in Owner, Crash(o)
      PROVE  Ownership!Next
  BY <1>6 DEF Crash, Ownership!Next, Ownership!Die
<1>7. \/ UNCHANGED <<alive, state, exec>>
      \/ \E o \in Owner : Crash(o)
      \/ \E o \in Owner, t \in Nat, d \in LeaseLengths : Heartbeat(o, t, d)
      \/ \E o \in Owner, t \in Nat, r \in Request :
           \/ Transition(o, r, t)
           \/ Complete(o, r, t)
           \/ \E d \in LeaseLengths : Assign(o, r, t, d) \/ Recover(o, r, t, d)
  BY StepCases
<1> QED
  BY <1>1, <1>2, <1>3, <1>4, <1>5, <1>6, <1>7

(* The scheduler implements exclusive ownership: whatever the interleaving *)
(* of processes, deaths, retries and the ledger, each request has one      *)
(* holder, which changes only after its death.                             *)
THEOREM ImplementsOwnershipCorrect == Spec => ImplementsOwnership
<1>1. Init => Ownership!Init
  BY DEF Init, SchedulerInit, NoExecution, Ownership!Init
<1>2. SchedulerInv /\ [Next]_vars => [Ownership!Next]_(Ownership!ownershipVars)
  BY StepImplements
<1> QED
  BY <1>1, <1>2, SchedulerInvariant, PTL DEF Spec, ImplementsOwnership, Ownership!Spec
=============================================================================
