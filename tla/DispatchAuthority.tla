-------------------------- MODULE DispatchAuthority --------------------------
(***************************************************************************)
(* The financial authority behind one paid factory job, as the budget      *)
(* ledger database stores it: at most one cash reservation and at most one *)
(* dispatch authorization per job (scripts/factory_budget_*.py and         *)
(* scripts/factory_quota_*.py).  Every operation of the ledger is one      *)
(* BEGIN IMMEDIATE transaction, so every action below is one atomic step;  *)
(* a transaction that raises rolls back and is no step at all.  Amounts,   *)
(* prices and quota units are abstracted here and modelled by BudgetLedger,*)
(* which implements this module.                                           *)
(***************************************************************************)
CONSTANTS
  Job,            \* every job id the factory knows
  Metered,        \* jobs whose lane is billed in cash: they reserve it
  IncludedQuota   \* jobs whose lane is billed to a quota: nothing to reserve

ASSUME BillingAssumption ==
  /\ Metered \subseteq Job
  /\ IncludedQuota \subseteq Job
  /\ Metered \cap IncludedQuota = {}

VARIABLES
  reservation,    \* cost_reservations.state of the job, "none" without a row
  authorization   \* dispatch_authorizations.state of the job, "none" without a row

ledgerVars == <<reservation, authorization>>

ReservationState ==
  {"none", "dispatching", "uncertain", "settled", "reconciled"}

AuthorizationState ==
  {"none", "active", "launched", "settled", "released", "uncertain"}

LedgerTypeOK ==
  /\ reservation \in [Job -> ReservationState]
  /\ authorization \in [Job -> AuthorizationState]

LedgerInit ==
  /\ reservation = [j \in Job |-> "none"]
  /\ authorization = [j \in Job |-> "none"]

-----------------------------------------------------------------------------
(* A reservation still holding cash, and an authorization still open.      *)
HeldStateLosesUncertain == {"dispatching"}  \* mutant of HeldState
HeldState == {"dispatching", "uncertain"}
OpenState == {"active", "launched"}

(* validate_quota_integrity, run whenever a connection is opened: a linked *)
(* pair of rows in any other combination makes every operation raise.      *)
LedgerOpens ==
  \A j \in Metered :
    /\ authorization[j] \in OpenState => reservation[j] = "dispatching"
    /\ authorization[j] = "settled" => reservation[j] = "settled"
    /\ authorization[j] = "released" => reservation[j] = "reconciled"
    /\ authorization[j] = "uncertain" => reservation[j] \in {"uncertain", "reconciled"}

SetReservation(j, state) == reservation' = [reservation EXCEPT ![j] = state]
SetAuthorization(j, state) == authorization' = [authorization EXCEPT ![j] = state]

(* authorize_dispatch: a metered job's reservation is inserted with the    *)
(* authorization, unless the same reservation request was made before:     *)
(* then its replay links the row as it stands, whatever its state.         *)
Authorize(j) ==
  /\ j \in Metered \cup IncludedQuota
  /\ authorization[j] = "none"
  /\ SetAuthorization(j, "active")
  /\ IF j \in Metered /\ reservation[j] = "none"
       THEN SetReservation(j, "dispatching")
       ELSE UNCHANGED reservation

(* reserve_for_dispatch on its own: a reservation nothing authorizes yet.  *)
Reserve(j) ==
  /\ j \in Metered
  /\ reservation[j] = "none"
  /\ SetReservation(j, "dispatching")
  /\ UNCHANGED authorization

(* Mutant of Launch: the state of the authorization is not checked.        *)
LaunchUnchecked(j) ==
  /\ authorization[j] # "none"
  /\ SetAuthorization(j, "launched")
  /\ UNCHANGED reservation

(* consume_authorization_for_launch: the single-use step before the worker *)
(* touches the network.  Evidence expiry and thresholds may refuse it at   *)
(* any time, which leaves the state alone.                                 *)
Launch(j) ==
  /\ authorization[j] = "active"
  /\ j \in Metered => reservation[j] = "dispatching"
  /\ SetAuthorization(j, "launched")
  /\ UNCHANGED reservation

(* settle_reservation with a complete matching receipt.  A linked          *)
(* authorization that is no longer open aborts the whole transaction.      *)
SettleReservation(j) ==
  /\ reservation[j] \in HeldState
  /\ SetReservation(j, "settled")
  /\ \/ /\ authorization[j] = "none"
        /\ UNCHANGED authorization
     \/ /\ authorization[j] \in OpenState
        /\ SetAuthorization(j, "settled")

(* Mutant of MarkReservationUncertain: terminal reservations are reopened. *)
MarkAnyReservationUncertain(j) ==
  /\ reservation[j] # "none"
  /\ SetReservation(j, "uncertain")
  /\ IF authorization[j] \in {"none", "settled", "released"}
       THEN UNCHANGED authorization
       ELSE SetAuthorization(j, "uncertain")

(* mark_reservation_uncertain, and settle_reservation with a receipt it    *)
(* rejects: the hold stays and a linked authorization turns uncertain.     *)
MarkReservationUncertain(j) ==
  /\ reservation[j] \in HeldState
  /\ SetReservation(j, "uncertain")
  /\ IF authorization[j] \in {"none", "settled", "released"}
       THEN UNCHANGED authorization
       ELSE SetAuthorization(j, "uncertain")

(* reconcile_no_charge: the only way cash comes back unspent; the quota    *)
(* holds of the job are released with it.                                  *)
ReconcileNoCharge(j) ==
  /\ reservation[j] \in HeldState
  /\ SetReservation(j, "reconciled")
  /\ \/ /\ authorization[j] = "none"
        /\ UNCHANGED authorization
     \/ /\ authorization[j] \in OpenState \cup {"uncertain"}
        /\ SetAuthorization(j, "released")

(* reconcile_manual_debit: cash is settled by hand, quota is not restored. *)
ReconcileManualDebit(j) ==
  /\ reservation[j] \in HeldState
  /\ SetReservation(j, "reconciled")
  /\ IF authorization[j] \in {"none", "settled", "released"}
       THEN UNCHANGED authorization
       ELSE SetAuthorization(j, "uncertain")

(* _transition_authorization, for an authorization without a reservation.  *)
TransitionQuota(j, from, target) ==
  /\ j \in IncludedQuota
  /\ authorization[j] \in from
  /\ SetAuthorization(j, target)
  /\ UNCHANGED reservation

SettleQuota(j) == TransitionQuota(j, OpenState, "settled")
ReleaseQuota(j) == TransitionQuota(j, {"active"}, "released")
MarkQuotaUncertain(j) == TransitionQuota(j, OpenState, "uncertain")

LedgerNext ==
  /\ LedgerOpens
  /\ \E j \in Job :
       \/ Authorize(j)
       \/ Reserve(j)
       \/ Launch(j)
       \/ SettleReservation(j)
       \/ MarkReservationUncertain(j)
       \/ ReconcileNoCharge(j)
       \/ ReconcileManualDebit(j)
       \/ SettleQuota(j)
       \/ ReleaseQuota(j)
       \/ MarkQuotaUncertain(j)

LedgerSpec == LedgerInit /\ [][LedgerNext]_ledgerVars

-----------------------------------------------------------------------------
(* A job's reservation and authorization are two rows written by different *)
(* modules.  After any sequence of settlements, rejections, reconciliations*)
(* and late authorizations, an authorization past "active" tells its       *)
(* reservation's story: a launched job still holds its cash, and settled,  *)
(* released or uncertain authority never sits on cash that could fund a    *)
(* launch.                                                                 *)
LinkedStatesAgree ==
  \A j \in Metered :
    /\ authorization[j] = "launched" => reservation[j] = "dispatching"
    /\ authorization[j] = "settled" => reservation[j] = "settled"
    /\ authorization[j] = "released" => reservation[j] = "reconciled"
    /\ authorization[j] = "uncertain" => reservation[j] \in {"uncertain", "reconciled"}
    /\ authorization[j] # "none" => reservation[j] # "none"

(* Authority is single use: once it left "active", no settlement, release, *)
(* rejection or reconciliation makes it launchable again, and nothing      *)
(* launches it a second time.                                              *)
AuthorityIsSingleUse ==
  [][\A j \in Job : authorization[j] \notin {"none", "active"}
       => authorization'[j] \in
            {authorization[j], "settled", "released", "uncertain"}]_ledgerVars

(* Cash that was spent or given back is accounted for once: no operation   *)
(* reopens, re-settles or re-reconciles a finished reservation.            *)
CashIsFinal ==
  [][\A j \in Job : reservation[j] \in {"settled", "reconciled"}
       => reservation'[j] = reservation[j]]_ledgerVars

-----------------------------------------------------------------------------
(* The maintainer works through what is pending: every held reservation is *)
(* settled or reconciled in the end, and every launched quota authorization*)
(* is settled, released or declared uncertain.                             *)
LedgerFairness ==
  \A j \in Job :
    /\ WF_ledgerVars(LedgerOpens /\ (ReconcileNoCharge(j) \/ ReconcileManualDebit(j)))
    /\ WF_ledgerVars(LedgerOpens /\ (SettleQuota(j) \/ ReleaseQuota(j)))

(* Held cash is never stuck: whatever the authorization went through, one  *)
(* of the reconciliations applies, for as long as the ledger still opens.  *)
HeldCashIsResolved ==
  \A j \in Job :
    reservation[j] \in {"dispatching", "uncertain"}
      ~> \/ reservation[j] \in {"settled", "reconciled"}
         \/ ~ LedgerOpens

(* validate_quota_integrity takes the cash lifecycle for an invariant of   *)
(* the ledger: no sequence of its own operations may break it, for then    *)
(* none of them, reconciliation included, is ever accepted again.          *)
LedgerStaysOpen == LedgerOpens
=============================================================================
