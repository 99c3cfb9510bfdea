----------------------------- MODULE QuotaWindows -----------------------------
(***************************************************************************)
(* Provider quota as admission counts it (scripts/factory_quota_*.py): the *)
(* maintainer signs what the provider's own meter says of the current      *)
(* window, a job is authorized against that reading plus everything the    *)
(* ledger knows the reading may lack, and its hold stays charged until it  *)
(* is settled and a later reading is signed as including it.  The states   *)
(* of reservations and authorizations are DispatchAuthority's: each step   *)
(* on them here is one of its transactions with the units added to it.     *)
(* One provider lane and one policy revision; every quota of the lane is a *)
(* separate limit that each job has to fit.  Time advances in ticks; a     *)
(* window is the set of its ticks.                                         *)
(* Reserve, a reservation on its own, places no hold and is left to        *)
(* DispatchAuthority.                                                      *)
(***************************************************************************)
EXTENDS DispatchAuthority, Integers, FiniteSetsExt

CONSTANTS
  Quota,          \* the quotas the policy declares
  Lanes,          \* the sets of them a lane may name
  Rolling,        \* those over a trailing window; the others run in cycles
  Length,         \* [Quota -> ticks of a window]
  Limit,          \* [Quota -> units the provider allows in a window]
  Envelope,       \* [Job -> units its usage envelope may reach]
  EvidenceTtl,    \* ticks a signed reading is fresh
  AuthorityTtl,   \* ticks an authorization may be launched (five minutes)
  MaxTime,        \* bound: last tick
  MaxReadings,    \* bound: readings signed
  MaxOthers       \* bound: ticks at which others use the provider's account

ASSUME QuotaAssumption ==
  /\ IsFiniteSet(Job)           \* the rows of one ledger file
  /\ Rolling \subseteq Quota
  /\ Lanes \subseteq SUBSET Quota
  /\ Length \in [Quota -> Nat \ {0}]
  /\ Limit \in [Quota -> Nat \ {0}]
  /\ Envelope \in [Job -> Nat \ {0}]
  /\ EvidenceTtl \in Nat \ {0}
  /\ AuthorityTtl \in Nat \ {0}
  /\ MaxTime \in Nat

VARIABLES
  lane,         \* the quotas the lane of these jobs names
  now,
  others,       \* ticks at which a unit was used outside the factory
  launchedAt,   \* tick at which the job's worker reached the provider
  spent,        \* units the provider will bill the job
  metered,      \* jobs whose units are on the provider's meter already
  signed,       \* readings the maintainer has signed
  request,      \* [Job -> the request built for it, NoRequest without one]
  hold,         \* [Job -> the request its hold was made from]
  settledAt     \* state_changed_at_utc of a settled authorization

providerVars == <<others, launchedAt, spent, metered>>
holdVars == <<request, hold, settledAt>>
quotaVars == <<ledgerVars, lane, now, providerVars, signed, holdVars>>

Tick == 0 .. MaxTime

(* QuotaWindow.validate and contains: half-open, named by the tick it was  *)
(* read at.  A rolling window ends with that tick, a cycle (calendar month *)
(* or subscription) when the next begins.                                  *)
Window(q, t) ==
  IF q \in Rolling
    THEN (t - Length[q] + 1) .. t
    ELSE LET start == (t \div Length[q]) * Length[q]
         IN  start .. (start + Length[q] - 1)

Overlap(v, w) == v \cap w # {}

(* An observation: the meter at one tick, with the authorizations it is    *)
(* signed as including, a boundary for each quota.                         *)
Reading ==
  [at : Tick, metered : SUBSET Job, others : SUBSET Tick,
   included : [lane -> SUBSET Job]]

Request == [reading : Reading, decided : Tick]
NoRequest ==
  [reading |-> [at |-> -1, metered |-> {}, others |-> {},
                included |-> [q \in {} |-> {}]],
   decided |-> -1]

QuotaTypeOK ==
  /\ LedgerTypeOK
  /\ lane \in Lanes
  /\ now \in Tick
  /\ others \subseteq Tick
  /\ launchedAt \in [Job -> Tick]
  /\ spent \in [Job -> Nat]
  /\ metered \subseteq Job
  /\ signed \subseteq Reading
  /\ request \in [Job -> Request \cup {NoRequest}]
  /\ hold \in [Job -> Request \cup {NoRequest}]
  /\ settledAt \in [Job -> Tick]

QuotaInit ==
  /\ LedgerInit
  /\ lane \in Lanes
  /\ now = 0
  /\ others = {}
  /\ launchedAt = [j \in Job |-> 0]
  /\ spent = [j \in Job |-> 0]
  /\ metered = {}
  /\ signed = {}
  /\ request = [j \in Job |-> NoRequest]
  /\ hold = [j \in Job |-> NoRequest]
  /\ settledAt = [j \in Job |-> 0]

-----------------------------------------------------------------------------
(* The provider and the maintainer, as the code relies on them.            *)

SpentIn(w, jobs) ==
  MapThenSumSet(LAMBDA j : spent[j], {j \in jobs : launchedAt[j] \in w})

(* used_units of a reading.                                                *)
Used(q, r) ==
  LET w == Window(q, r.at)
  IN  SpentIn(w, r.metered) + Cardinality(r.others \cap w)

OthersUse ==
  /\ Cardinality(others) < MaxOthers
  /\ others' = others \cup {now}
  /\ UNCHANGED <<ledgerVars, lane, now, launchedAt, spent, metered, signed, holdVars>>

(* The meter lags: a job's units may reach it after the job was settled.   *)
MeterCatchesUp(j) ==
  /\ spent[j] > 0
  /\ metered' = metered \cup {j}
  /\ UNCHANGED <<ledgerVars, lane, now, others, launchedAt, spent, signed, holdVars>>

(* A signed boundary is truthful and names all that is on the meter, or is *)
(* left out.  It may name what the ledger has not settled, or what was     *)
(* spent before the window began: Covers refuses such a reading.           *)
SignReading ==
  /\ Cardinality(signed) < MaxReadings
  /\ \E included \in [lane -> {{}, metered}] :
       signed' = signed \cup
         {[at |-> now, metered |-> metered, others |-> others, included |-> included]}
  /\ UNCHANGED <<ledgerVars, lane, now, providerVars, holdVars>>

Advance ==
  /\ now < MaxTime
  /\ now' = now + 1
  /\ UNCHANGED <<ledgerVars, lane, providerVars, signed, holdVars>>

-----------------------------------------------------------------------------
(* The factory.                                                            *)

Fresh(r, t) == r.at <= t /\ t < r.at + EvidenceTtl

(* prepare_paid_dispatch up to DispatchAuthorizationRequest.validate: any  *)
(* reading still fresh is accepted, not the newest only, and the request   *)
(* is then carried to the ledger while others write to it.                 *)
Prepare(j) ==
  /\ authorization[j] = "none"
  /\ request[j] = NoRequest
  /\ \E r \in signed :
       /\ Fresh(r, now)
       /\ \A q \in lane : now \in Window(q, r.at)
       /\ request' = [request EXCEPT ![j] = [reading |-> r, decided |-> now]]
  /\ UNCHANGED <<ledgerVars, lane, now, providerVars, signed, hold, settledAt>>

(* A request the ledger refuses, or whose caller died, left no trace.      *)
Drop(j) ==
  /\ request[j] # NoRequest
  /\ request' = [request EXCEPT ![j] = NoRequest]
  /\ UNCHANGED <<ledgerVars, lane, now, providerVars, signed, hold, settledAt>>

Authorized == {j \in Job : authorization[j] # "none"}
HoldWindow(q, j) == Window(q, hold[j].reading.at)

(* store_observation_inclusions.                                           *)
Covers(q, r) ==
  /\ \A j \in r.included[q] :
       /\ authorization[j] = "settled"
       /\ settledAt[j] <= r.at
       /\ Overlap(HoldWindow(q, j), Window(q, r.at))
  /\ MapThenSumSet(LAMBDA j : spent[j], r.included[q]) <= Used(q, r)

(* record_validated_observation: readings are taken in order, and within   *)
(* one window the meter does not go back.                                  *)
InOrder(q, r) ==
  \A j \in Authorized :
    LET last == hold[j].reading
    IN  /\ last.at <= r.at
        /\ Window(q, last.at) = Window(q, r.at) => Used(q, last) <= Used(q, r)

(* Mutant of Outstanding: settled before the reading means included in it. *)
OutstandingTrustsTime(q, r) ==
  LET near == {j \in Authorized : Overlap(HoldWindow(q, j), Window(q, r.at))}
  IN  MapThenSumSet(LAMBDA j : Envelope[j],
        {j \in near : authorization[j] \in {"active", "launched", "uncertain"}})
      + MapThenSumSet(LAMBDA j : spent[j],
        {j \in near : authorization[j] = "settled" /\ settledAt[j] > r.at})

(* The units a reading may lack: open and uncertain holds in full, settled *)
(* ones at their actual units unless the reading includes them, of every   *)
(* job whose own window overlaps the reading's.                            *)
Outstanding(q, r) ==
  LET near == {j \in Authorized : Overlap(HoldWindow(q, j), Window(q, r.at))}
  IN  MapThenSumSet(LAMBDA j : Envelope[j],
        {j \in near : authorization[j] \in {"active", "launched", "uncertain"}})
      + MapThenSumSet(LAMBDA j : spent[j],
        {j \in near \ r.included[q] : authorization[j] = "settled"})

Fits(j, q, r) == Used(q, r) + Outstanding(q, r) + Envelope[j] <= Limit[q]

(* authorize_dispatch: every quota in one transaction, by the ledger as it *)
(* stands when the lock is taken and the reading of when it was asked.     *)
QuotaAuthorize(j) ==
  /\ request[j] # NoRequest
  /\ \A k \in Authorized : hold[k].decided <= request[j].decided
  /\ LET r == request[j].reading
     IN  \A q \in lane : InOrder(q, r) /\ Covers(q, r) /\ Fits(j, q, r)
  /\ Authorize(j)
  /\ hold' = [hold EXCEPT ![j] = request[j]]
  /\ request' = [request EXCEPT ![j] = NoRequest]
  /\ UNCHANGED <<lane, now, providerVars, signed, settledAt>>

(* Mutant of StillValid: the window is not looked at again.                *)
StillFresh(j) ==
  /\ now < hold[j].decided + AuthorityTtl
  /\ Fresh(hold[j].reading, now)

(* validate_authorization, without the cash thresholds, which are          *)
(* BudgetLedger's.                                                         *)
StillValid(j) ==
  /\ now < hold[j].decided + AuthorityTtl
  /\ Fresh(hold[j].reading, now)
  /\ \A q \in lane : now \in HoldWindow(q, j)

(* consume_authorization_for_launch, and the worker that it lets out.      *)
QuotaLaunch(j) ==
  /\ Launch(j)
  /\ StillValid(j)
  /\ launchedAt' = [launchedAt EXCEPT ![j] = now]
  /\ \E units \in 0 .. Envelope[j] : spent' = [spent EXCEPT ![j] = units]
  /\ UNCHANGED <<lane, now, others, metered, signed, holdVars>>

(* Mutant of QuotaSettle: an exact replay stamps the settlement again.     *)
QuotaSettleAgain(j) ==
  /\ \/ SettleReservation(j)
     \/ SettleQuota(j)
     \/ authorization[j] = "settled" /\ UNCHANGED ledgerVars
  /\ settledAt' = [settledAt EXCEPT ![j] = now]
  /\ UNCHANGED <<lane, now, providerVars, signed, request, hold>>

(* settle_quota_holds and settle_quota_authorization, with the units of a  *)
(* verified receipt.                                                       *)
QuotaSettle(j) ==
  /\ SettleReservation(j) \/ SettleQuota(j)
  /\ settledAt' = [settledAt EXCEPT ![j] = now]
  /\ UNCHANGED <<lane, now, providerVars, signed, request, hold>>

(* Mutant of QuotaRelease: a launched authorization may be given back.     *)
QuotaReleaseLaunched(j) ==
  /\ \/ ReconcileNoCharge(j) /\ spent[j] = 0
     \/ TransitionQuota(j, OpenState, "released")
  /\ UNCHANGED <<lane, now, providerVars, signed, holdVars>>

(* release_quota_holds on evidence of no charge, and the release of what   *)
(* was never launched (_release_verified_pre_network_block).               *)
QuotaRelease(j) ==
  /\ \/ ReconcileNoCharge(j) /\ spent[j] = 0
     \/ ReleaseQuota(j)
  /\ UNCHANGED <<lane, now, providerVars, signed, holdVars>>

(* mark_quota_holds_uncertain and mark_quota_authorization_uncertain: the  *)
(* hold keeps its units, a manual cash debit included.                     *)
QuotaUncertain(j) ==
  /\ \/ MarkReservationUncertain(j)
     \/ ReconcileManualDebit(j)
     \/ MarkQuotaUncertain(j)
  /\ UNCHANGED <<lane, now, providerVars, signed, holdVars>>

QuotaNext ==
  \/ OthersUse
  \/ SignReading
  \/ Advance
  \/ \E j \in Job :
       \/ MeterCatchesUp(j)
       \/ Prepare(j)
       \/ Drop(j)
       \/ LedgerOpens /\ QuotaAuthorize(j)
       \/ LedgerOpens /\ QuotaLaunch(j)
       \/ LedgerOpens /\ QuotaSettle(j)
       \/ LedgerOpens /\ QuotaRelease(j)
       \/ LedgerOpens /\ QuotaUncertain(j)

QuotaSpec == QuotaInit /\ [][QuotaNext]_quotaVars

-----------------------------------------------------------------------------
(* What the provider really bills stays under its limit: in no window do   *)
(* the units of the factory's jobs, with what others were seen to use in   *)
(* the readings accepted for it, exceed the quota.  Readings lag, miss     *)
(* settled work, arrive late or twice, requests wait while others are      *)
(* admitted, holds turn uncertain: admission never counts on a unit it     *)
(* does not have.                                                          *)
SeenOthers(q, w) ==
  {Cardinality(hold[j].reading.others \cap w) :
     j \in {k \in Authorized : HoldWindow(q, k) = w}}

QuotaIsKept ==
  \A q \in lane, t \in Tick :
    LET w == Window(q, t)
    IN  \A seen \in SeenOthers(q, w) \cup {0} : SpentIn(w, Job) + seen <= Limit[q]

(* Units the provider bills are never written off: a job that spent any    *)
(* keeps a hold or a settlement of at least as many, whatever race of      *)
(* launch, release, rejection and reconciliation it went through.          *)
SpentIsHeld ==
  \A j \in Job :
    spent[j] > 0 =>
      /\ authorization[j] \in {"launched", "settled", "uncertain"}
      /\ spent[j] <= Envelope[j]
      /\ \A q \in lane : launchedAt[j] \in HoldWindow(q, j)

(* validate_observation_inclusion_integrity looks at every reading ever    *)
(* accepted whenever the ledger is opened, and refuses all work if one no  *)
(* longer covers what it was signed to include: no later operation may     *)
(* take that away.                                                         *)
ReadingsStayCovered ==
  \A j \in Authorized, q \in lane : Covers(q, hold[j].reading)

(* Adding quotas grants no authority: every step is a step of the ledger's *)
(* state machine, or leaves its rows alone.                                *)
ImplementsLedger == LedgerSpec
=============================================================================
