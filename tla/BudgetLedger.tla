----------------------------- MODULE BudgetLedger -----------------------------
(***************************************************************************)
(* The cash behind DispatchAuthority (scripts/factory_budget_*.py): months *)
(* with a cap and an emergency reserve, immutable ledger entries, the two  *)
(* cached sums of a month and the cash each reservation holds.  An         *)
(* operation on a job is the operation of DispatchAuthority with its       *)
(* accounting; entries are recorded beside them.                           *)
(***************************************************************************)
EXTENDS Integers, FiniteSetsExt, DispatchAuthority

CONSTANTS
  Period,            \* budget months
  Key,               \* idempotency keys of recorded entries
  Amount,            \* amounts of holds, charges and credits, in microcents
  CashCap,           \* reviewed cap of a month
  EmergencyReserve,  \* part of the cap that is never spent
  Experiment,        \* jobs whose work purpose is an experiment
  MaxEntries,        \* MAX_LEDGER_ENTRIES
  LowestBalance      \* the least balance a row can store

ASSUME BudgetAssumption ==
  /\ Period \cap Key = {} /\ Period \cap Job = {} /\ Key \cap Job = {}
  /\ "none" \notin Period \cup Key \cup Job  \* stands for a NULL reference
  /\ Amount \subseteq Nat \ {0}
  /\ CashCap \in [Period -> Nat]
  /\ EmergencyReserve \in [Period -> Nat]
  /\ \A p \in Period : 0 < EmergencyReserve[p] /\ EmergencyReserve[p] < CashCap[p]
  /\ MaxEntries \in Nat
  /\ LowestBalance \in Int

VARIABLES
  net,      \* budget_periods.net_spent_microcents
  active,   \* budget_periods.active_reserved_microcents
  entries,  \* ledger_entries
  month,    \* period of a job's reservation, "none" without one
  held      \* cost_reservations.held_microcents, 0 without one

cashVars == <<net, active, entries, month, held>>
budgetVars == <<ledgerVars, cashVars>>

(* A period's reserve, a job's settlement and every other entry have keys  *)
(* of their own; "of" is the key of the charge that a refund gives back.   *)
EntryKey == Period \cup Key \cup Job
Entry ==
  [key : EntryKey, period : Period,
   kind : {"charge", "refund", "adjustment", "allocation"},
   direction : {"debit", "credit", "allocation"},
   amount : Nat, of : EntryKey \cup {"none"}]

BudgetTypeOK ==
  /\ LedgerTypeOK
  /\ net \in [Period -> Int]
  /\ active \in [Period -> Int]
  /\ entries \subseteq Entry
  /\ month \in [Job -> Period \cup {"none"}]
  /\ held \in [Job -> Nat]

BudgetInit ==
  /\ LedgerInit
  /\ net = [p \in Period |-> 0]
  /\ active = [p \in Period |-> 0]
  /\ entries = {}
  /\ month = [j \in Job |-> "none"]
  /\ held = [j \in Job |-> 0]

-----------------------------------------------------------------------------
Opened(p) == \E e \in entries : e.key = p
Recorded(k) == \E e \in entries : e.key = k

(* What a month has spent and may still have to spend.  A balance in       *)
(* credit counts as nothing spent: it never adds to the cap.               *)
ExposureWithCredit(p) == net[p] + active[p]  \* mutant of Exposure
Exposure(p) == (IF net[p] > 0 THEN net[p] ELSE 0) + active[p]
Spendable(p) == CashCap[p] - EmergencyReserve[p]
Available(p) == Spendable(p) - Exposure(p)

Refunded(k) == MapThenSumSet(LAMBDA e : e.amount, {e \in entries : e.of = k})

SignedAmount(e) ==
  CASE e.direction = "debit" -> e.amount
    [] e.direction = "credit" -> - e.amount
    [] OTHER -> 0

(* The jobs whose reservation still holds cash of a month.                 *)
Holding(p) == {j \in Job : month[j] = p /\ reservation[j] \in HeldState}

(* validate_ledger_integrity, run on every connection before any           *)
(* operation: the cached sums, the cap, the refunds and the entries of     *)
(* decided reservations are recomputed from the rows.                      *)
NetIsExplained ==
  \A p \in Period : net[p] = MapThenSumSet(SignedAmount, {e \in entries : e.period = p})

ActiveIsHeld ==
  \A p \in Period : active[p] = MapThenSumSet(LAMBDA j : held[j], Holding(p))

WithinCap ==
  \A p \in Period :
    Opened(p) => active[p] <= Spendable(p) /\ net[p] + active[p] <= Spendable(p)

RefundsAreCovered ==
  \A e \in entries :
    e.kind = "charge" =>
      MapThenSumSet(LAMBDA r : r.amount, {r \in entries : r.of = e.key}) <= e.amount

DecisionsAreEntered ==
  \A j \in Job :
    /\ reservation[j] = "settled" =>
         \E e \in entries :
           e.key = j /\ e.kind = "charge" /\ e.period = month[j]
    /\ reservation[j] # "settled" =>
         \A e \in entries :
           e.key = j =>
             reservation[j] = "reconciled" /\ e.kind = "adjustment" /\ e.period = month[j]

(* Whatever order charges, credits, refunds, holds and decisions came in,  *)
(* the cached sums of a month are those of its rows, and refunds received  *)
(* in any months never exceed their charge.  A sum that one of the         *)
(* operations misses would close the ledger to all of them.                *)
BooksBalance == NetIsExplained /\ ActiveIsHeld /\ RefundsAreCovered

BudgetOpens ==
  /\ LedgerOpens
  /\ NetIsExplained
  /\ ActiveIsHeld
  /\ WithinCap
  /\ RefundsAreCovered
  /\ DecisionsAreEntered

(* _enforce_thresholds: no dispatch at the cap, no experiments at 80       *)
(* percent, nothing billed in cash at 90 percent.                          *)
BelowThresholds(j, p, amount) ==
  /\ amount < CashCap[p]
  /\ j \in Experiment => 10 * amount < 8 * CashCap[p]
  /\ j \in Metered => 10 * amount < 9 * CashCap[p]

-----------------------------------------------------------------------------
Enter(key, p, kind, direction, amount, of) ==
  /\ Cardinality(entries) < MaxEntries
  /\ entries' = entries \cup
       {[key |-> key, period |-> p, kind |-> kind, direction |-> direction,
         amount |-> amount, of |-> of]}

(* initialize_period: a month is opened once, with its reserve.            *)
InitializePeriod(p) ==
  /\ ~ Opened(p)
  /\ Enter(p, p, "allocation", "allocation", EmergencyReserve[p], "none")
  /\ UNCHANGED <<ledgerVars, net, active, month, held>>

(* record_entry of a charge or a debiting adjustment.  A key that was      *)
(* recorded before is replayed or refused, and changes nothing.            *)
RecordDebit(k, p, kind, a) ==
  /\ ~ Recorded(k) /\ Opened(p)
  /\ a <= Available(p)
  /\ Enter(k, p, kind, "debit", a, "none")
  /\ net' = [net EXCEPT ![p] = @ + a]
  /\ UNCHANGED <<ledgerVars, active, month, held>>

(* record_entry of a crediting adjustment, or of a refund.                 *)
RecordCredit(k, p, kind, a, of) ==
  /\ ~ Recorded(k) /\ Opened(p)
  /\ LowestBalance + a <= net[p]
  /\ Enter(k, p, kind, "credit", a, of)
  /\ net' = [net EXCEPT ![p] = @ - a]
  /\ UNCHANGED <<ledgerVars, active, month, held>>

(* record_entry of a refund: of any charge, in the month it is received,   *)
(* up to what is left of the charge.                                       *)
RecordRefund(k, p, a) ==
  \E e \in entries :
    /\ e.kind = "charge"
    /\ Refunded(e.key) + a <= e.amount
    /\ RecordCredit(k, p, "refund", a, e.key)

(* Mutant of Hold: the month's other holds are not counted.                *)
HoldUncounted(j, p, a) ==
  /\ Opened(p)
  /\ a + net[p] <= Spendable(p)
  /\ active' = [active EXCEPT ![p] = @ + a]
  /\ month' = [month EXCEPT ![j] = p]
  /\ held' = [held EXCEPT ![j] = a]
  /\ UNCHANGED <<net, entries>>

(* reserve_for_dispatch_locked: the worst case is held.                    *)
Hold(j, p, a) ==
  /\ Opened(p)
  /\ a <= Available(p)
  /\ active' = [active EXCEPT ![p] = @ + a]
  /\ month' = [month EXCEPT ![j] = p]
  /\ held' = [held EXCEPT ![j] = a]
  /\ UNCHANGED <<net, entries>>

ReserveCash(j, p, a) ==
  Reserve(j) /\ Hold(j, p, a)

(* authorize_dispatch of a cash job.  The thresholds count the requested   *)
(* hold on top, even when the reservation is a replayed one that is        *)
(* already part of the exposure.                                           *)
AuthorizeCash(j, p, a) ==
  /\ j \in Metered
  /\ Authorize(j)
  /\ Opened(p) /\ BelowThresholds(j, p, Exposure(p) + a)
  /\ IF reservation[j] = "none"
       THEN Hold(j, p, a)
       ELSE p = month[j] /\ a = held[j] /\ UNCHANGED cashVars

AuthorizeQuota(j, p) ==
  /\ j \in IncludedQuota
  /\ Authorize(j)
  /\ Opened(p) /\ BelowThresholds(j, p, Exposure(p))
  /\ UNCHANGED cashVars

(* Mutant of LaunchCash: the thresholds were checked when authorizing.     *)
LaunchUnthresholded(j, p) ==
  /\ Launch(j)
  /\ Opened(p)
  /\ UNCHANGED cashVars

(* consume_authorization_for_launch checks the thresholds again, in the    *)
(* month that holds the cash; a quota job's month is the current one.      *)
LaunchCash(j, p) ==
  /\ Launch(j)
  /\ Opened(p) /\ (j \in Metered => p = month[j])
  /\ BelowThresholds(j, p, Exposure(p))
  /\ UNCHANGED cashVars

(* The hold of a job is given up in its own month for what was spent.      *)
ReleaseActualOnly(j, a) ==  \* mutant of Release: the unspent part stays held
  /\ net' = [net EXCEPT ![month[j]] = @ + a]
  /\ active' = [active EXCEPT ![month[j]] = @ - a]
  /\ UNCHANGED <<month, held>>

Release(j, a) ==
  /\ net' = [net EXCEPT ![month[j]] = @ + a]
  /\ active' = [active EXCEPT ![month[j]] = @ - held[j]]
  /\ UNCHANGED <<month, held>>

(* Mutant of SettleCash: a receipt above the hold is accepted.             *)
SettleAboveHold(j, a) ==
  /\ SettleReservation(j)
  /\ Enter(j, month[j], "charge", "debit", a, "none")
  /\ Release(j, a)

(* Mutant of SettleCash: the charge is entered in the month of the receipt.*)
SettleInReceiptMonth(j, a) ==
  /\ a <= held[j]
  /\ SettleReservation(j)
  /\ \E p \in Period :
       Opened(p) /\ Enter(j, p, "charge", "debit", a, "none")
  /\ Release(j, a)

(* settle_reservation posts a charge of the priced usage, however late,    *)
(* into the month of the reservation.                                      *)
SettleCash(j, a) ==
  /\ a <= held[j]
  /\ SettleReservation(j)
  /\ Enter(j, month[j], "charge", "debit", a, "none")
  /\ Release(j, a)

WaiveCash(j) ==
  /\ ReconcileNoCharge(j)
  /\ Release(j, 0)
  /\ UNCHANGED entries

DebitCash(j, a) ==
  /\ a <= held[j]
  /\ ReconcileManualDebit(j)
  /\ Enter(j, month[j], "adjustment", "debit", a, "none")
  /\ Release(j, a)

(* A rejected receipt, a declared uncertainty and the transitions of quota *)
(* jobs move no cash.                                                      *)
MoveNoCash(j) ==
  /\ \/ MarkReservationUncertain(j)
     \/ SettleQuota(j)
     \/ ReleaseQuota(j)
     \/ MarkQuotaUncertain(j)
  /\ UNCHANGED cashVars

EntryNext ==
  \E p \in Period :
    \/ InitializePeriod(p)
    \/ \E k \in Key, a \in Amount :
         \/ RecordDebit(k, p, "charge", a)
         \/ RecordDebit(k, p, "adjustment", a)
         \/ RecordCredit(k, p, "adjustment", a, "none")
         \/ RecordRefund(k, p, a)

JobNext ==
  \E j \in Job :
    \/ \E p \in Period :
         \/ \E a \in Amount : ReserveCash(j, p, a) \/ AuthorizeCash(j, p, a)
         \/ AuthorizeQuota(j, p)
         \/ LaunchCash(j, p)
    \/ \E a \in Amount : SettleCash(j, a) \/ DebitCash(j, a)
    \/ WaiveCash(j)
    \/ MoveNoCash(j)

BudgetNext == BudgetOpens /\ (EntryNext \/ JobNext)

BudgetSpec == BudgetInit /\ [][BudgetNext]_budgetVars

-----------------------------------------------------------------------------
(* A launch is decided on today's exposure: whatever was reserved, charged *)
(* or credited since its authorization, a cash job starts only below 90    *)
(* percent of its month's cap (80 percent for an experiment), with its own *)
(* hold among what is counted.                                             *)
LaunchLeavesMargin ==
  [][\A j \in Metered : \A p \in Period :
       authorization[j] = "active" /\ authorization'[j] = "launched" /\ month[j] = p
         => /\ held[j] <= active'[p]
            /\ 10 * Exposure(p)' < 9 * CashCap[p]
            /\ j \in Experiment => 10 * Exposure(p)' < 8 * CashCap[p]]_budgetVars

(* What a month may have to pay falls only by a credit entered for it or   *)
(* by the decision of a reservation: no uncertainty, late receipt or replay*)
(* frees budget for other work.                                            *)
BudgetIsFreedByDecision ==
  [][\A p \in Period :
       Exposure(p)' < Exposure(p) =>
         \/ \E e \in entries' \ entries : e.period = p /\ e.direction = "credit"
         \/ \E j \in Holding(p) : reservation'[j] \in {"settled", "reconciled"}]_budgetVars
=============================================================================
