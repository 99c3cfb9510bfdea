-------------------------- MODULE LedgerBooksProofs --------------------------
(***************************************************************************)
(* The two sets of books on DispatchAuthority: cash (BudgetLedger) and     *)
(* provider units (QuotaWindows), one part for each.  Neither mentions the *)
(* other; they share the ledger whose steps both of them refine.           *)
(*                                                                         *)
(* Cash, for any months, caps, jobs and amounts.  The cap needs no sum     *)
(* over rows: a decision never spends more than the hold it gives up, and  *)
(* a balance in credit is clamped on both sides of every step.  The        *)
(* balances do: they follow the rows because every step books one new row, *)
(* or moves one job in or out of its month's holds.                        *)
(*                                                                         *)
(* Units, for every lane, limit, envelope, number of jobs and readings:    *)
(* counting quota implements the ledger's state machine, units the         *)
(* provider bills stay on the books, what was accepted of a reading stays  *)
(* covered, and no window is overcommitted.  The last is by an invariant   *)
(* of every window: what its jobs may still cost, with the use by others   *)
(* that any reading of it saw, is within the limit.  Only an admission     *)
(* adds to it, and its reading either shows or is known to lack each unit  *)
(* charged before, because what is on the meter is final and readings only *)
(* grow.                                                                   *)
(***************************************************************************)
EXTENDS BudgetLedger, QuotaWindows, DispatchAuthorityProofs

-----------------------------------------------------------------------------
(* Cash                                                                    *)


(* A month has neither spent nor held anything before it is opened, and    *)
(* every reservation holds cash of an opened month.                        *)
RowsAreOpened ==
  /\ \A p \in Period : ~ Opened(p) => net[p] = 0 /\ active[p] = 0
  /\ \A j \in Job : reservation[j] # "none" => month[j] \in Period /\ Opened(month[j])

BudgetInv ==
  BudgetTypeOK /\ LedgerInv /\ RowsAreOpened /\ WithinCap /\ DecisionsAreEntered

(* The first states.                                                       *)
LEMMA BudgetInitInv == BudgetInit => BudgetInv
<1> SUFFICES ASSUME BudgetInit PROVE BudgetInv
  OBVIOUS
<1>1. LedgerInv
  BY LedgerInitInv DEF BudgetInit
<1>2. BudgetTypeOK
  BY <1>1 DEF BudgetInit, BudgetTypeOK, LedgerInv
<1>3. RowsAreOpened /\ DecisionsAreEntered
  BY DEF BudgetInit, LedgerInit, RowsAreOpened, DecisionsAreEntered
<1>4. WithinCap
  BY DEF BudgetInit, WithinCap, Opened
<1> QED
  BY <1>1, <1>2, <1>3, <1>4 DEF BudgetInv

-----------------------------------------------------------------------------
(* The transactions that hold new cash, and those that move none.          *)
Holds(j, p, a) ==
  /\ Reserve(j) \/ (j \in Metered /\ Authorize(j) /\ reservation[j] = "none")
  /\ Hold(j, p, a)

Keeps(j) ==
  /\ \/ Authorize(j) /\ (j \in Metered => reservation[j] # "none")
     \/ Launch(j) \/ MarkReservationUncertain(j)
     \/ SettleQuota(j) \/ ReleaseQuota(j) \/ MarkQuotaUncertain(j)
  /\ UNCHANGED cashVars

(* Every step of the ledger, by what it does to the cash.                  *)
LEMMA BudgetCases ==
  ASSUME BudgetNext
  PROVE  \/ \E p \in Period : InitializePeriod(p)
         \/ \E p \in Period, k \in Key, a \in Amount, kind \in {"charge", "adjustment"} :
              RecordDebit(k, p, kind, a)
         \/ \E p \in Period, k \in Key, a \in Amount :
              \/ RecordCredit(k, p, "adjustment", a, "none")
              \/ \E e \in entries : RecordCredit(k, p, "refund", a, e.key)
         \/ \E j \in Job, p \in Period, a \in Amount : Holds(j, p, a)
         \/ \E j \in Job : Keeps(j) \/ WaiveCash(j)
         \/ \E j \in Job, a \in Amount : SettleCash(j, a) \/ DebitCash(j, a)
<1>1. CASE EntryNext
  BY <1>1 DEF EntryNext, RecordRefund
<1>2. CASE JobNext
  <2>1. PICK j \in Job :
          \/ \E p \in Period :
               \/ \E a \in Amount : ReserveCash(j, p, a) \/ AuthorizeCash(j, p, a)
               \/ AuthorizeQuota(j, p)
               \/ LaunchCash(j, p)
          \/ \E a \in Amount : SettleCash(j, a) \/ DebitCash(j, a)
          \/ WaiveCash(j)
          \/ MoveNoCash(j)
    BY <1>2 DEF JobNext
  <2>2. ASSUME NEW p \in Period, NEW a \in Amount,
               ReserveCash(j, p, a) \/ AuthorizeCash(j, p, a)
        PROVE  Holds(j, p, a) \/ Keeps(j)
    BY <2>2 DEF ReserveCash, AuthorizeCash, Holds, Keeps
  <2>3. ASSUME NEW p \in Period, AuthorizeQuota(j, p) \/ LaunchCash(j, p)
        PROVE  Keeps(j)
    BY <2>3, BillingAssumption DEF AuthorizeQuota, LaunchCash, Keeps
  <2>4. MoveNoCash(j) => Keeps(j)
    BY DEF MoveNoCash, Keeps
  <2> QED
    BY <2>1, <2>2, <2>3, <2>4
<1> QED
  BY <1>1, <1>2 DEF BudgetNext

-----------------------------------------------------------------------------
(* Every transaction on cash is the one of DispatchAuthority on the states *)
(* of the rows, and entries leave those alone.                             *)
LEMMA BudgetStepIsLedgerStep == [BudgetNext]_budgetVars => [LedgerNext]_ledgerVars
<1>1. CASE UNCHANGED budgetVars
  BY <1>1 DEF budgetVars
<1>2. CASE BudgetNext
  <2>1. LedgerOpens
    BY <1>2 DEF BudgetNext, BudgetOpens
  <2> QED
    BY <1>2, <2>1, BudgetCases
       DEF LedgerNext, ledgerVars, InitializePeriod, RecordDebit, RecordCredit,
           Holds, Keeps, WaiveCash, SettleCash, DebitCash
<1> QED
  BY <1>1, <1>2

(* The ledger with its cash implements the dispatch authority: whatever is *)
(* proved of authority and reservations there holds of the accounts.       *)
THEOREM ImplementsAuthority == BudgetSpec => LedgerSpec
<1>1. BudgetInit => LedgerInit
  BY DEF BudgetInit
<1> QED
  BY <1>1, BudgetStepIsLedgerStep, PTL DEF BudgetSpec, LedgerSpec

-----------------------------------------------------------------------------
(* An entry adds one row, under a key that had none.                       *)
LEMMA EnterType ==
  ASSUME entries \subseteq Entry, NEW k \in EntryKey, NEW p \in Period,
         NEW kind \in {"charge", "refund", "adjustment", "allocation"},
         NEW direction \in {"debit", "credit", "allocation"},
         NEW a \in Nat, NEW of \in EntryKey \cup {"none"},
         Enter(k, p, kind, direction, a, of)
  PROVE  entries' \subseteq Entry
  BY DEF Enter, Entry

(* An entry opens the month whose key it has, and no other.                *)
LEMMA EnterOpens ==
  ASSUME NEW k, NEW p, NEW kind, NEW direction, NEW a, NEW of,
         Enter(k, p, kind, direction, a, of), NEW q
  PROVE  Opened(q)' <=> Opened(q) \/ q = k
<1> DEFINE row == [key |-> k, period |-> p, kind |-> kind, direction |-> direction,
                   amount |-> a, of |-> of]
<1>1. row.key = k
  OBVIOUS
<1>2. entries' = entries \cup {row}
  BY DEF Enter
<1>3. Opened(q)' <=> \E e \in entries' : e.key = q
  BY DEF Opened
<1> HIDE DEF row
<1> QED
  BY <1>1, <1>2, <1>3 DEF Opened

(* Jobs and other entries open no month.                                   *)
LEMMA KeysOpenNothing ==
  ASSUME NEW k \in Key \cup Job, NEW p, NEW kind, NEW direction, NEW a, NEW of,
         Enter(k, p, kind, direction, a, of), NEW q \in Period
  PROVE  Opened(q)' <=> Opened(q)
  BY EnterOpens, BudgetAssumption

(* What is decided was held, in a month that is open.                      *)
Decides(j) == WaiveCash(j) \/ \E a \in Amount : SettleCash(j, a) \/ DebitCash(j, a)

(* A decision is of cash held in an opened month.                          *)
LEMMA DecidesOpened ==
  ASSUME RowsAreOpened, NEW j \in Job, Decides(j)
  PROVE  /\ reservation[j] \in HeldState
         /\ month[j] \in Period /\ Opened(month[j])
  BY DEF Decides, WaiveCash, SettleCash, DebitCash, SettleReservation, ReconcileNoCharge,
         ReconcileManualDebit, HeldState, RowsAreOpened

(* Every value of the ledger stays in its domain.                          *)
LEMMA BudgetTypeStep == BudgetInv /\ BudgetNext => BudgetTypeOK'
<1> SUFFICES ASSUME BudgetInv, BudgetNext PROVE BudgetTypeOK'
  OBVIOUS
<1>0. BudgetTypeOK /\ RowsAreOpened /\ Amount \subseteq Nat
  BY BudgetAssumption DEF BudgetInv
<1>1. LedgerTypeOK'
  BY BudgetStepIsLedgerStep, LedgerNextInv, LedgerStutterInv DEF BudgetInv, LedgerInv
<1>2. ASSUME NEW p \in Period, InitializePeriod(p)
      PROVE  BudgetTypeOK'
  <2>1. p \in EntryKey /\ EmergencyReserve[p] \in Nat
    BY BudgetAssumption DEF EntryKey
  <2>2. entries' \subseteq Entry
    BY <1>0, <1>2, <2>1, EnterType DEF InitializePeriod, BudgetTypeOK
  <2> QED
    BY <1>0, <1>1, <1>2, <2>2 DEF InitializePeriod, BudgetTypeOK
<1>3. ASSUME NEW p \in Period, NEW k \in Key, NEW a \in Amount,
             NEW kind \in {"charge", "adjustment"}, RecordDebit(k, p, kind, a)
      PROVE  BudgetTypeOK'
  <2>1. k \in EntryKey /\ a \in Nat
    BY <1>0 DEF EntryKey
  <2>2. entries' \subseteq Entry
    BY <1>0, <1>3, <2>1, EnterType DEF RecordDebit, BudgetTypeOK
  <2> QED
    BY <1>0, <1>1, <1>3, <2>1, <2>2 DEF RecordDebit, BudgetTypeOK
<1>4. ASSUME NEW p \in Period, NEW k \in Key, NEW a \in Amount,
             NEW kind \in {"refund", "adjustment"}, NEW of \in EntryKey \cup {"none"},
             RecordCredit(k, p, kind, a, of)
      PROVE  BudgetTypeOK'
  <2>1. k \in EntryKey /\ a \in Nat
    BY <1>0 DEF EntryKey
  <2>2. entries' \subseteq Entry
    BY <1>0, <1>4, <2>1, EnterType DEF RecordCredit, BudgetTypeOK
  <2> QED
    BY <1>0, <1>1, <1>4, <2>1, <2>2 DEF RecordCredit, BudgetTypeOK
<1>5. ASSUME NEW j \in Job, NEW p \in Period, NEW a \in Amount, Holds(j, p, a)
      PROVE  BudgetTypeOK'
  BY <1>0, <1>1, <1>5 DEF Holds, Hold, BudgetTypeOK
<1>6. ASSUME NEW j \in Job, Keeps(j)
      PROVE  BudgetTypeOK'
  BY <1>0, <1>1, <1>6 DEF Keeps, cashVars, BudgetTypeOK
<1>7. ASSUME NEW j \in Job, WaiveCash(j)
      PROVE  BudgetTypeOK'
  <2>1. month[j] \in Period /\ held[j] \in Nat
    BY <1>0, <1>7, DecidesOpened DEF Decides, BudgetTypeOK
  <2> QED
    BY <1>0, <1>1, <1>7, <2>1 DEF WaiveCash, Release, BudgetTypeOK
<1>8. ASSUME NEW j \in Job, NEW a \in Amount, SettleCash(j, a) \/ DebitCash(j, a)
      PROVE  BudgetTypeOK'
  <2>1. j \in EntryKey /\ a \in Nat
    BY <1>0 DEF EntryKey
  <2>2. month[j] \in Period
    BY <1>0, <1>8, DecidesOpened DEF Decides
  <2>3. entries' \subseteq Entry
    BY <1>0, <1>8, <2>1, <2>2, EnterType DEF SettleCash, DebitCash, BudgetTypeOK
  <2> QED
    BY <1>0, <1>1, <1>8, <2>1, <2>2, <2>3 DEF SettleCash, DebitCash, Release, BudgetTypeOK
<1>9. \A e \in entries : e.key \in EntryKey
  BY <1>0 DEF BudgetTypeOK, Entry
<1> QED
  BY <1>2, <1>3, <1>4, <1>5, <1>6, <1>7, <1>8, <1>9, BudgetCases

-----------------------------------------------------------------------------
(* A month is opened once and stays open, and is opened with nothing spent.*)
LEMMA OpenedStays ==
  ASSUME BudgetNext, NEW p \in Period, Opened(p)
  PROVE  Opened(p)'
<1>1. entries \subseteq entries'
  BY BudgetCases
     DEF InitializePeriod, RecordDebit, RecordCredit, Holds, Hold, Keeps, WaiveCash,
         SettleCash, DebitCash, Enter, cashVars
<1> QED
  BY <1>1 DEF Opened

(* Opened(p)', for a month that is itself read in the next state.          *)
OpenedNext(p) == \E e \in entries' : e.key = p

(* An opened month stays open.                                             *)
LEMMA OpenedNextStays ==
  ASSUME BudgetNext, NEW p \in Period, Opened(p)
  PROVE  OpenedNext(p)
  BY OpenedStays DEF Opened, OpenedNext

(* The cash of a reservation lies in a month that is open.                 *)
LEMMA RowsStep == BudgetInv /\ BudgetNext => RowsAreOpened'
<1> SUFFICES ASSUME BudgetInv, BudgetNext PROVE RowsAreOpened'
  OBVIOUS
<1>0. BudgetTypeOK /\ RowsAreOpened
  BY DEF BudgetInv
<1>1. ASSUME NEW p \in Period, ~ Opened(p)'
      PROVE  net'[p] = 0 /\ active'[p] = 0
  <2>1. ~ Opened(p) /\ net[p] = 0 /\ active[p] = 0
    BY <1>0, <1>1, OpenedStays DEF RowsAreOpened
  <2>2. ASSUME NEW j \in Job, Decides(j)
        PROVE  month[j] # p
    BY <1>0, <2>1, <2>2, DecidesOpened
  <2> QED
    BY <1>0, <2>1, <2>2, BudgetCases
       DEF BudgetTypeOK, InitializePeriod, RecordDebit, RecordCredit, Holds, Hold, Keeps,
           Decides, WaiveCash, SettleCash, DebitCash, Release, cashVars
<1>2. ASSUME NEW j \in Job, reservation'[j] # "none"
      PROVE  month'[j] \in Period /\ OpenedNext(month'[j])
  <2>1. CASE reservation[j] # "none" /\ month'[j] = month[j]
    BY <1>0, <2>1, OpenedNextStays DEF RowsAreOpened
  <2>2. ASSUME NEW i \in Job, NEW p \in Period, NEW a \in Amount, Holds(i, p, a)
        PROVE  month'[j] \in Period /\ OpenedNext(month'[j])
    <3>1. Opened(p)
      BY <2>2 DEF Holds, Hold
    <3>2. CASE i = j
      BY <1>0, <2>2, <3>1, <3>2, OpenedNextStays DEF Holds, Hold, BudgetTypeOK
    <3>3. CASE i # j
      <4>1. reservation[j] # "none" /\ month'[j] = month[j]
        BY <1>0, <1>2, <2>2, <3>3
           DEF Holds, Hold, BudgetTypeOK, LedgerTypeOK, Reserve, Authorize, SetReservation
      <4> QED
        BY <2>1, <4>1
    <3> QED
      BY <3>2, <3>3
  <2>3. ASSUME ~ \E i \in Job, p \in Period, a \in Amount : Holds(i, p, a)
        PROVE  reservation[j] # "none" /\ month'[j] = month[j]
    <3>1. LedgerTypeOK
      BY <1>0 DEF BudgetTypeOK
    <3> QED
      BY <1>2, <2>3, <3>1, BudgetCases
         DEF InitializePeriod, RecordDebit, RecordCredit, Keeps, WaiveCash, SettleCash,
             DebitCash, Release, cashVars, ledgerVars, LedgerTypeOK, Authorize, Launch,
             MarkReservationUncertain, SettleQuota, ReleaseQuota, MarkQuotaUncertain,
             TransitionQuota, SettleReservation, ReconcileNoCharge, ReconcileManualDebit,
             SetReservation, HeldState
  <2> QED
    BY <2>1, <2>2, <2>3
<1> QED
  BY <1>1, <1>2 DEF RowsAreOpened, Opened, OpenedNext

-----------------------------------------------------------------------------
(* Opened or not, a month is within its cap.                               *)
LEMMA CapOfEveryMonth ==
  ASSUME BudgetInv, NEW p \in Period
  PROVE  /\ net[p] \in Int /\ active[p] \in Int /\ Spendable(p) \in Nat
         /\ active[p] <= Spendable(p) /\ net[p] + active[p] <= Spendable(p)
  BY BudgetAssumption
     DEF BudgetInv, BudgetTypeOK, RowsAreOpened, WithinCap, Spendable

(* A decision spends no more than the hold that it gives up.               *)
LEMMA DecisionSpendsItsHold ==
  ASSUME BudgetInv, NEW j \in Job, Decides(j)
  PROVE  \E a \in Nat : a <= held[j] /\ Release(j, a)
<1>1. held[j] \in Nat /\ Amount \subseteq Nat
  BY BudgetAssumption DEF BudgetInv, BudgetTypeOK
<1>2. CASE WaiveCash(j)
  BY <1>1, <1>2 DEF WaiveCash
<1>3. CASE \E a \in Amount : SettleCash(j, a)
  BY <1>1, <1>3 DEF SettleCash
<1>4. CASE \E a \in Amount : DebitCash(j, a)
  BY <1>1, <1>4 DEF DebitCash
<1> QED
  BY <1>2, <1>3, <1>4 DEF Decides

(* No step lifts a month over its spendable cap.                           *)
LEMMA CapStep == BudgetInv /\ BudgetNext => WithinCap'
<1> SUFFICES ASSUME BudgetInv, BudgetNext, NEW p \in Period
             PROVE  active'[p] <= Spendable(p) /\ net'[p] + active'[p] <= Spendable(p)
  BY DEF WithinCap, Spendable
<1>1. /\ net \in [Period -> Int] /\ active \in [Period -> Int] /\ held \in [Job -> Nat]
      /\ Amount \subseteq Nat /\ RowsAreOpened
  BY BudgetAssumption DEF BudgetInv, BudgetTypeOK
<1>2. /\ net[p] \in Int /\ active[p] \in Int /\ Spendable(p) \in Nat
      /\ active[p] <= Spendable(p) /\ net[p] + active[p] <= Spendable(p)
  BY CapOfEveryMonth
<1>3. ASSUME NEW q \in Period, NEW k \in Key, NEW a \in Amount,
             NEW kind \in {"charge", "adjustment"}, RecordDebit(k, q, kind, a)
      PROVE  active'[p] <= Spendable(p) /\ net'[p] + active'[p] <= Spendable(p)
  BY <1>1, <1>2, <1>3 DEF RecordDebit, Available, Exposure
<1>4. ASSUME NEW q \in Period, NEW k \in Key, NEW a \in Amount, NEW kind, NEW of,
             RecordCredit(k, q, kind, a, of)
      PROVE  active'[p] <= Spendable(p) /\ net'[p] + active'[p] <= Spendable(p)
  BY <1>1, <1>2, <1>4 DEF RecordCredit
<1>5. ASSUME NEW j \in Job, NEW q \in Period, NEW a \in Amount, Holds(j, q, a)
      PROVE  active'[p] <= Spendable(p) /\ net'[p] + active'[p] <= Spendable(p)
  BY <1>1, <1>2, <1>5 DEF Holds, Hold, Available, Exposure
<1>6. ASSUME NEW j \in Job, Decides(j)
      PROVE  active'[p] <= Spendable(p) /\ net'[p] + active'[p] <= Spendable(p)
  <2>1. PICK a \in Nat : a <= held[j] /\ Release(j, a)
    BY <1>6, DecisionSpendsItsHold
  <2>2. month[j] \in Period
    BY <1>1, <1>6, DecidesOpened
  <2> QED
    BY <1>1, <1>2, <2>1, <2>2 DEF Release
<1>7. CASE UNCHANGED <<net, active>>
  BY <1>2, <1>7
<1>8. \/ UNCHANGED <<net, active>>
      \/ \E q \in Period, k \in Key, a \in Amount, kind \in {"charge", "adjustment"} :
           RecordDebit(k, q, kind, a)
      \/ \E q \in Period, k \in Key, a \in Amount, kind \in {"adjustment", "refund"} :
           \E of : RecordCredit(k, q, kind, a, of)
      \/ \E j \in Job, q \in Period, a \in Amount : Holds(j, q, a)
      \/ \E j \in Job : Decides(j)
  BY BudgetCases DEF InitializePeriod, Keeps, cashVars, Decides
<1> QED
  BY <1>3, <1>4, <1>5, <1>6, <1>7, <1>8

(* What DecisionsAreEntered says of one job.                               *)
DecisionIsEntered(j) ==
  /\ reservation[j] = "settled" =>
       \E e \in entries : e.key = j /\ e.kind = "charge" /\ e.period = month[j]
  /\ reservation[j] # "settled" =>
       \A e \in entries :
         e.key = j =>
           reservation[j] = "reconciled" /\ e.kind = "adjustment" /\ e.period = month[j]

(* A row entered under another key says nothing of the job.                *)
LEMMA OtherKeys ==
  ASSUME NEW k, NEW p, NEW kind, NEW direction, NEW a, NEW of,
         Enter(k, p, kind, direction, a, of), NEW j \in Job, j # k,
         UNCHANGED <<reservation[j], month[j]>>, DecisionIsEntered(j)
  PROVE  DecisionIsEntered(j)'
<1> DEFINE row == [key |-> k, period |-> p, kind |-> kind, direction |-> direction,
                   amount |-> a, of |-> of]
<1>1. entries' = entries \cup {row} /\ row.key # j
  BY DEF Enter
<1> HIDE DEF row
<1> QED
  BY <1>1 DEF DecisionIsEntered

(* The row of a decision, for the job that is decided.                     *)
LEMMA OwnKey ==
  ASSUME NEW j \in Job, NEW kind, NEW a,
         Enter(j, month[j], kind, "debit", a, "none"),
         month' = month, DecisionIsEntered(j), reservation[j] \in HeldState,
         \/ kind = "charge" /\ reservation'[j] = "settled"
         \/ kind = "adjustment" /\ reservation'[j] = "reconciled"
  PROVE  DecisionIsEntered(j)'
<1> DEFINE row == [key |-> j, period |-> month[j], kind |-> kind, direction |-> "debit",
                   amount |-> a, of |-> "none"]
<1>1. entries' = entries \cup {row}
  BY DEF Enter
<1>2. row.key = j /\ row.kind = kind /\ row.period = month[j]
  OBVIOUS
<1>3. \A e \in entries : e.key # j
  BY DEF DecisionIsEntered, HeldState
<1> HIDE DEF row
<1> QED
  BY <1>1, <1>2, <1>3 DEF DecisionIsEntered

(* A reservation's entry is made when it is decided, in its own month, and *)
(* nothing else is ever entered under its key.                             *)
LEMMA DecisionsStep == BudgetInv /\ BudgetNext => DecisionsAreEntered'
<1> SUFFICES ASSUME BudgetInv, BudgetNext, NEW j \in Job
             PROVE  DecisionIsEntered(j)'
  BY DEF DecisionsAreEntered, DecisionIsEntered
<1>0. /\ DecisionIsEntered(j)
      /\ reservation \in [Job -> ReservationState]
      /\ month \in [Job -> Period \cup {"none"}]
  BY DEF BudgetInv, BudgetTypeOK, LedgerTypeOK, DecisionsAreEntered, DecisionIsEntered
<1>1. ASSUME NEW p \in Period, InitializePeriod(p)
      PROVE  DecisionIsEntered(j)'
  BY <1>0, <1>1, OtherKeys, BudgetAssumption DEF InitializePeriod, ledgerVars
<1>2. ASSUME NEW p \in Period, NEW k \in Key, NEW a \in Amount,
             NEW kind \in {"charge", "adjustment"}, RecordDebit(k, p, kind, a)
      PROVE  DecisionIsEntered(j)'
  BY <1>0, <1>2, OtherKeys, BudgetAssumption DEF RecordDebit, ledgerVars
<1>3. ASSUME NEW p \in Period, NEW k \in Key, NEW a \in Amount, NEW kind, NEW of,
             RecordCredit(k, p, kind, a, of)
      PROVE  DecisionIsEntered(j)'
  BY <1>0, <1>3, OtherKeys, BudgetAssumption DEF RecordCredit, ledgerVars
<1>4. ASSUME NEW i \in Job, NEW p \in Period, NEW a \in Amount, Holds(i, p, a)
      PROVE  DecisionIsEntered(j)'
  <2>1. /\ entries' = entries
        /\ reservation[i] = "none"
        /\ reservation' = [reservation EXCEPT ![i] = "dispatching"]
        /\ month' = [month EXCEPT ![i] = p]
    BY <1>4 DEF Holds, Hold, Reserve, Authorize, SetReservation
  <2> QED
    BY <1>0, <2>1 DEF DecisionIsEntered
<1>5. ASSUME NEW i \in Job, Keeps(i)
      PROVE  DecisionIsEntered(j)'
  <2>1. /\ entries' = entries /\ month' = month
        /\ \/ reservation' = reservation
           \/ /\ reservation[i] \in HeldState
              /\ reservation' = [reservation EXCEPT ![i] = "uncertain"]
    BY <1>5
       DEF Keeps, cashVars, Authorize, Launch, MarkReservationUncertain, SettleQuota,
           ReleaseQuota, MarkQuotaUncertain, TransitionQuota, SetReservation
  <2> QED
    BY <1>0, <2>1 DEF DecisionIsEntered, HeldState
<1>6. ASSUME NEW i \in Job, WaiveCash(i)
      PROVE  DecisionIsEntered(j)'
  <2>1. /\ entries' = entries /\ month' = month
        /\ reservation[i] \in HeldState
        /\ reservation' = [reservation EXCEPT ![i] = "reconciled"]
    BY <1>6 DEF WaiveCash, Release, ReconcileNoCharge, SetReservation
  <2> QED
    BY <1>0, <2>1 DEF DecisionIsEntered, HeldState
<1>7. ASSUME NEW i \in Job, NEW a \in Amount, SettleCash(i, a) \/ DebitCash(i, a)
      PROVE  DecisionIsEntered(j)'
  <2>1. PICK kind \in {"charge", "adjustment"} :
          /\ Enter(i, month[i], kind, "debit", a, "none")
          /\ month' = month /\ reservation[i] \in HeldState
          /\ reservation' = [reservation EXCEPT
               ![i] = IF kind = "charge" THEN "settled" ELSE "reconciled"]
    BY <1>7
       DEF SettleCash, DebitCash, Release, SettleReservation, ReconcileManualDebit,
           SetReservation
  <2>2. CASE i = j
    BY <1>0, <2>1, <2>2, OwnKey
  <2>3. CASE i # j
    <3>1. UNCHANGED <<reservation[j], month[j]>>
      BY <1>0, <2>1, <2>3
    <3> QED
      BY <1>0, <2>1, <2>3, <3>1, OtherKeys
  <2> QED
    BY <2>2, <2>3
<1> QED
  BY <1>1, <1>2, <1>3, <1>4, <1>5, <1>6, <1>7, BudgetCases

-----------------------------------------------------------------------------
(* Every step keeps the invariant.                                         *)
LEMMA BudgetNextInv == BudgetInv /\ [BudgetNext]_budgetVars => BudgetInv'
<1> SUFFICES ASSUME BudgetInv, [BudgetNext]_budgetVars PROVE BudgetInv'
  OBVIOUS
<1>1. CASE UNCHANGED budgetVars
  BY <1>1
     DEF budgetVars, cashVars, ledgerVars, BudgetInv, BudgetTypeOK, LedgerInv, LedgerTypeOK,
         LinkedStatesAgree, OnlyMeteredReserve, RowsAreOpened, WithinCap,
         DecisionsAreEntered, Opened
<1>2. CASE BudgetNext
  <2>1. LedgerInv'
    BY <1>2, BudgetStepIsLedgerStep, LedgerNextInv, LedgerStutterInv DEF BudgetInv
  <2> QED
    BY <1>2, <2>1, BudgetTypeStep, RowsStep, CapStep, DecisionsStep DEF BudgetInv
<1> QED
  BY <1>1, <1>2

(* So it holds in every state.                                             *)
LEMMA BudgetInvariant == BudgetSpec => []BudgetInv
  BY BudgetInitInv, BudgetNextInv, PTL DEF BudgetSpec

(* For any months, caps, jobs and amounts, every stored value of the       *)
(* ledger stays in its domain.                                             *)
THEOREM BudgetTypeCorrect == BudgetSpec => []BudgetTypeOK
<1>1. BudgetInv => BudgetTypeOK
  BY DEF BudgetInv
<1> QED
  BY <1>1, BudgetInvariant, PTL

(* For any months, caps, jobs and amounts, no order of holds, charges,     *)
(* credits, refunds and decisions lifts a month over its spendable cap.    *)
THEOREM WithinCapCorrect == BudgetSpec => []WithinCap
<1>1. BudgetInv => WithinCap
  BY DEF BudgetInv
<1> QED
  BY <1>1, BudgetInvariant, PTL

(* Every settled or manually debited reservation has its own entry in the  *)
(* month that held its cash, however late it was decided.                  *)
THEOREM DecisionsAreEnteredCorrect == BudgetSpec => []DecisionsAreEntered
<1>1. BudgetInv => DecisionsAreEntered
  BY DEF BudgetInv
<1> QED
  BY <1>1, BudgetInvariant, PTL

-----------------------------------------------------------------------------
(* A credit is a new row of its month.                                     *)
LEMMA CreditIsNew ==
  ASSUME NEW k \in Key, NEW p, NEW kind, NEW a, NEW of, RecordCredit(k, p, kind, a, of)
  PROVE  \E e \in entries' \ entries : e.period = p /\ e.direction = "credit"
<1> DEFINE row == [key |-> k, period |-> p, kind |-> kind, direction |-> "credit",
                   amount |-> a, of |-> of]
<1>1. entries' = entries \cup {row} /\ ~ Recorded(k)
  BY DEF RecordCredit, Enter
<1>2. row.key = k /\ row.period = p /\ row.direction = "credit"
  OBVIOUS
<1>3. row \notin entries
  BY <1>1, <1>2 DEF Recorded
<1> HIDE DEF row
<1> QED
  BY <1>1, <1>2, <1>3

(* A step that lowers what a month may have to pay decides a reservation   *)
(* of it or enters a credit.                                               *)
LEMMA FreedStep ==
  ASSUME BudgetInv, [BudgetNext]_budgetVars, NEW p \in Period,
         Exposure(p)' < Exposure(p)
  PROVE  \/ \E e \in entries' \ entries : e.period = p /\ e.direction = "credit"
         \/ \E j \in Holding(p) : reservation'[j] \in {"settled", "reconciled"}
<1>1. /\ net \in [Period -> Int] /\ active \in [Period -> Int] /\ held \in [Job -> Nat]
      /\ reservation \in [Job -> ReservationState]
      /\ Amount \subseteq Nat /\ RowsAreOpened
  BY BudgetAssumption DEF BudgetInv, BudgetTypeOK, LedgerTypeOK
<1>2. ~ (net'[p] >= net[p] /\ active'[p] >= active[p])
  <2>1. SUFFICES ASSUME net'[p] >= net[p], active'[p] >= active[p]
                 PROVE  Exposure(p)' >= Exposure(p)
    <3>1. Exposure(p) \in Int /\ Exposure(p)' \in Int
      BY <1>1, BudgetTypeStep DEF Exposure, BudgetTypeOK, budgetVars, cashVars
    <3> QED
      BY <3>1
  <2>2. net'[p] \in Int /\ active'[p] \in Int
    BY <1>1, BudgetTypeStep DEF BudgetTypeOK, budgetVars, cashVars
  <2> QED
    BY <1>1, <2>1, <2>2 DEF Exposure
<1>3. BudgetNext
  BY <1>1, <1>2 DEF budgetVars, cashVars
<1>4. ASSUME NEW q \in Period, NEW k \in Key, NEW a \in Amount, NEW kind, NEW of,
             RecordCredit(k, q, kind, a, of)
      PROVE  \E e \in entries' \ entries : e.period = p /\ e.direction = "credit"
  <2>1. q = p
    BY <1>1, <1>2, <1>4 DEF RecordCredit
  <2> QED
    BY <1>4, <2>1, CreditIsNew
<1>5. ASSUME NEW j \in Job, Decides(j)
      PROVE  \E i \in Holding(p) : reservation'[i] \in {"settled", "reconciled"}
  <2>1. PICK a \in Nat : a <= held[j] /\ Release(j, a)
    BY <1>5, DecisionSpendsItsHold
  <2>2. reservation[j] \in HeldState /\ month[j] \in Period
    BY <1>1, <1>5, DecidesOpened
  <2>3. month[j] = p
    BY <1>1, <1>2, <2>1, <2>2 DEF Release
  <2>4. reservation'[j] \in {"settled", "reconciled"}
    BY <1>1, <1>5
       DEF Decides, WaiveCash, SettleCash, DebitCash, SettleReservation, ReconcileNoCharge,
           ReconcileManualDebit, SetReservation
  <2> QED
    BY <2>2, <2>3, <2>4 DEF Holding
<1>6. ASSUME NEW q \in Period, NEW k \in Key, NEW a \in Amount,
             NEW kind \in {"charge", "adjustment"}, RecordDebit(k, q, kind, a)
      PROVE  FALSE
  BY <1>1, <1>2, <1>6 DEF RecordDebit
<1>7. ASSUME NEW j \in Job, NEW q \in Period, NEW a \in Amount, Holds(j, q, a)
      PROVE  FALSE
  BY <1>1, <1>2, <1>7 DEF Holds, Hold
<1>8. ~ UNCHANGED <<net, active>>
  BY <1>1, <1>2
<1>9. \/ UNCHANGED <<net, active>>
      \/ \E q \in Period, k \in Key, a \in Amount, kind \in {"charge", "adjustment"} :
           RecordDebit(k, q, kind, a)
      \/ \E q \in Period, k \in Key, a \in Amount, kind \in {"adjustment", "refund"} :
           \E of : RecordCredit(k, q, kind, a, of)
      \/ \E j \in Job, q \in Period, a \in Amount : Holds(j, q, a)
      \/ \E j \in Job : Decides(j)
  BY <1>3, BudgetCases DEF InitializePeriod, Keeps, cashVars, Decides
<1> QED
  BY <1>4, <1>5, <1>6, <1>7, <1>8, <1>9

(* For any months, caps, jobs and amounts, uncertainty, late receipts and  *)
(* replays free no budget: only credits and decisions do.                  *)
THEOREM BudgetIsFreedCorrect == BudgetSpec => BudgetIsFreedByDecision
<1>1. BudgetInv /\ [BudgetNext]_budgetVars =>
        [\A p \in Period :
           Exposure(p)' < Exposure(p) =>
             \/ \E e \in entries' \ entries : e.period = p /\ e.direction = "credit"
             \/ \E j \in Holding(p) : reservation'[j] \in {"settled", "reconciled"}]_budgetVars
  BY FreedStep
<1> QED
  BY <1>1, BudgetInvariant, PTL DEF BudgetSpec, BudgetIsFreedByDecision

-----------------------------------------------------------------------------
(* What the rows amount to, as functions of the row.                       *)
AmountOf == [e \in Entry |-> e.amount]
SignedOf == [e \in Entry |-> SignedAmount(e)]

(* The terms of those sums are numbers.                                    *)
LEMMA AmountsAreNumbers ==
  \A e \in Entry : AmountOf[e] \in Nat /\ SignedOf[e] \in Int
<1> SUFFICES ASSUME NEW e \in Entry PROVE AmountOf[e] \in Nat /\ SignedOf[e] \in Int
  OBVIOUS
<1>1. e.amount \in Nat /\ - e.amount \in Int
  BY DEF Entry
<1> QED
  BY <1>1 DEF AmountOf, SignedOf, SignedAmount

(* The sums the ledger recomputes are sums of those functions.             *)
LEMMA SumOfAmounts ==
  ASSUME NEW T \in SUBSET Entry, IsFiniteSet(T)
  PROVE  MapThenSumSet(LAMBDA e : e.amount, T) = SumOf(AmountOf, T)
<1>0. \A x \in T : AmountOf[x] \in Int
  BY AmountsAreNumbers
<1>1. PICK g \in [SUBSET T -> Int] : IsSumTable(g, AmountOf, T) /\ SumOf(AmountOf, T) = g[T]
  BY <1>0, SumIsInATable
<1> DEFINE Table(f) ==
             [u \in SUBSET T |->
                IF u = {} THEN 0
                ELSE (CHOOSE x \in u : TRUE).amount + f[u \ {CHOOSE x \in u : TRUE}]]
           iter == CHOOSE f : f = Table(f)
<1>2. ASSUME NEW u \in SUBSET T, u # {} PROVE AmountOf[Taken(u)] = Taken(u).amount
  BY <1>2, TakenIsElement DEF AmountOf
<1>3. g = Table(g)
  BY <1>1, <1>2 DEF IsSumTable, Taken
<1>4. iter = Table(iter)
  BY <1>3, Zenon
<1>5. MapThenSumSet(LAMBDA e : e.amount, T) = iter[T]
  BY Zenon DEF MapThenSumSet, MapThenFoldSet
<1>6. IsSumTable(iter, AmountOf, T)
  <2> DEFINE term(u) == IF u = {} THEN 0 ELSE AmountOf[Taken(u)] + iter[u \ {Taken(u)}]
  <2> HIDE DEF iter
  <2>1. iter = [u \in SUBSET T |-> iter[u]]
    BY <1>4
  <2>2. \A u \in SUBSET T : iter[u] = term(u)
    BY <1>2, <1>4 DEF Taken
  <2> HIDE DEF term
  <2>3. iter = [u \in SUBSET T |-> term(u)]
    BY <2>1, <2>2
  <2> QED
    BY <2>3 DEF IsSumTable, term
<1>7. iter[T] = g[T]
  BY <1>1, <1>6, TablesAgree
<1> QED
  BY <1>1, <1>5, <1>7

(* The same of what the rows add to a balance.                             *)
LEMMA SumOfSigned ==
  ASSUME NEW T \in SUBSET Entry, IsFiniteSet(T)
  PROVE  MapThenSumSet(SignedAmount, T) = SumOf(SignedOf, T)
<1>0. \A x \in T : SignedOf[x] \in Int
  BY AmountsAreNumbers
<1>1. PICK g \in [SUBSET T -> Int] : IsSumTable(g, SignedOf, T) /\ SumOf(SignedOf, T) = g[T]
  BY <1>0, SumIsInATable
<1> DEFINE Table(f) ==
             [u \in SUBSET T |->
                IF u = {} THEN 0
                ELSE SignedAmount(CHOOSE x \in u : TRUE) + f[u \ {CHOOSE x \in u : TRUE}]]
           iter == CHOOSE f : f = Table(f)
<1>2. ASSUME NEW u \in SUBSET T, u # {} PROVE SignedOf[Taken(u)] = SignedAmount(Taken(u))
  BY <1>2, TakenIsElement DEF SignedOf
<1>3. g = Table(g)
  BY <1>1, <1>2 DEF IsSumTable, Taken
<1>4. iter = Table(iter)
  BY <1>3, Zenon
<1>5. MapThenSumSet(SignedAmount, T) = iter[T]
  BY Zenon DEF MapThenSumSet, MapThenFoldSet
<1>6. IsSumTable(iter, SignedOf, T)
  <2> DEFINE term(u) == IF u = {} THEN 0 ELSE SignedOf[Taken(u)] + iter[u \ {Taken(u)}]
  <2> HIDE DEF iter
  <2>1. iter = [u \in SUBSET T |-> iter[u]]
    BY <1>4
  <2>2. \A u \in SUBSET T : iter[u] = term(u)
    BY <1>2, <1>4 DEF Taken
  <2> HIDE DEF term
  <2>3. iter = [u \in SUBSET T |-> term(u)]
    BY <2>1, <2>2
  <2> QED
    BY <2>3 DEF IsSumTable, term
<1>7. iter[T] = g[T]
  BY <1>1, <1>6, TablesAgree
<1> QED
  BY <1>1, <1>5, <1>7

-----------------------------------------------------------------------------
(* A key is that of one row, a refund's charge is recorded, and only       *)
(* finitely many rows are summed: what the sums need to follow each step.  *)
KeysAreUnique == \A d, e \in entries : d.key = e.key => d = e
OnlyRecordedRefunds == \A e \in entries : e.of = "none" \/ Recorded(e.of)
RowsAreFinite ==
  IsFiniteSet(entries) /\ \A p \in Period : IsFiniteSet(Holding(p))

(* BooksBalance, with the sums of those functions.                         *)
NetIsSum ==
  \A p \in Period : net[p] = SumOf(SignedOf, {e \in entries : e.period = p})
ActiveIsSum == \A p \in Period : active[p] = SumOf(held, Holding(p))
RefundsFit ==
  \A e \in entries :
    e.kind = "charge" => SumOf(AmountOf, {r \in entries : r.of = e.key}) <= e.amount

BooksInv ==
  /\ BudgetInv /\ KeysAreUnique /\ OnlyRecordedRefunds /\ RowsAreFinite
  /\ NetIsSum /\ ActiveIsSum /\ RefundsFit

(* What was refunded of a charge, in the same terms.                       *)
LEMMA RefundedIsSum ==
  ASSUME BooksInv, NEW k
  PROVE  Refunded(k) = SumOf(AmountOf, {e \in entries : e.of = k})
<1> DEFINE refunds == {e \in entries : e.of = k}
<1>1. refunds \in SUBSET Entry /\ IsFiniteSet(refunds)
  BY FS_Subset DEF BooksInv, BudgetInv, BudgetTypeOK, RowsAreFinite
<1>2. MapThenSumSet(LAMBDA e : e.amount, refunds) = SumOf(AmountOf, refunds)
  BY <1>1, SumOfAmounts
<1> QED
  BY <1>2, Zenon DEF Refunded

(* The sums of the functions are the sums of the ledger.                   *)
LEMMA BooksInvBalances == BooksInv => BooksBalance
<1> SUFFICES ASSUME BooksInv PROVE BooksBalance
  OBVIOUS
<1>0. entries \subseteq Entry /\ IsFiniteSet(entries)
  BY DEF BooksInv, BudgetInv, BudgetTypeOK, RowsAreFinite
<1>1. ASSUME NEW p \in Period
      PROVE  net[p] = MapThenSumSet(SignedAmount, {e \in entries : e.period = p})
  <2> DEFINE rows == {e \in entries : e.period = p}
  <2>1. rows \in SUBSET Entry /\ IsFiniteSet(rows)
    BY <1>0, FS_Subset
  <2>2. net[p] = SumOf(SignedOf, rows)
    BY DEF BooksInv, NetIsSum
  <2> QED
    BY <2>1, <2>2, SumOfSigned
<1>2. ActiveIsHeld
  BY Zenon DEF BooksInv, ActiveIsSum, ActiveIsHeld, SumOf
<1>3. ASSUME NEW e \in entries, e.kind = "charge"
      PROVE  MapThenSumSet(LAMBDA r : r.amount, {r \in entries : r.of = e.key}) <= e.amount
  <2>1. Refunded(e.key) <= e.amount
    BY <1>3, RefundedIsSum DEF BooksInv, RefundsFit
  <2> QED
    BY <2>1, Zenon DEF Refunded
<1> QED
  BY <1>1, <1>2, <1>3, Zenon DEF BooksBalance, NetIsExplained, RefundsAreCovered

(* What a row adds to its month's balance.                                 *)
Effect(direction, a) ==
  CASE direction = "debit" -> a [] direction = "credit" -> - a [] OTHER -> 0

(* One new row, under a key that had none, whose month's balance moves by  *)
(* what the row says; a refund fits what is left of its charge.            *)
Books(k, p, kind, direction, a, of) ==
  /\ ~ Recorded(k)
  /\ Enter(k, p, kind, direction, a, of)
  /\ net' = [net EXCEPT ![p] = @ + Effect(direction, a)]
  /\ of = "none" \/ \E e \in entries :
                      e.kind = "charge" /\ e.key = of /\ Refunded(of) + a <= e.amount

(* Every step leaves entries and balances alone or books one row: the rows *)
(* of decisions are new because a held reservation has no entry.           *)
LEMMA EntryCases ==
  ASSUME BudgetInv, BudgetNext
  PROVE  \/ UNCHANGED <<entries, net>>
         \/ \E k \in EntryKey, p \in Period, a \in Nat, of \in EntryKey \cup {"none"},
              kind \in {"charge", "refund", "adjustment", "allocation"},
              direction \in {"debit", "credit", "allocation"} :
              Books(k, p, kind, direction, a, of)
<1>1. /\ net \in [Period -> Int] /\ entries \subseteq Entry /\ RowsAreOpened
      /\ Amount \subseteq Nat
  BY BudgetAssumption DEF BudgetInv, BudgetTypeOK
<1>2. ASSUME NEW p \in Period, InitializePeriod(p)
      PROVE  Books(p, p, "allocation", "allocation", EmergencyReserve[p], "none")
             /\ EmergencyReserve[p] \in Nat /\ p \in EntryKey
  <2>1. net' = [net EXCEPT ![p] = @ + Effect("allocation", EmergencyReserve[p])]
    BY <1>1, <1>2 DEF InitializePeriod, Effect
  <2> QED
    BY <1>2, <2>1, BudgetAssumption
       DEF InitializePeriod, Books, Opened, Recorded, EntryKey
<1>3. ASSUME NEW p \in Period, NEW k \in Key, NEW a \in Amount,
             NEW kind \in {"charge", "adjustment"}, RecordDebit(k, p, kind, a)
      PROVE  Books(k, p, kind, "debit", a, "none") /\ k \in EntryKey /\ a \in Nat
  BY <1>1, <1>3 DEF RecordDebit, Books, Effect, EntryKey
<1>4. ASSUME NEW p \in Period, NEW k \in Key, NEW a \in Amount,
             NEW kind, NEW of, RecordCredit(k, p, kind, a, of),
             of = "none" \/ \E e \in entries :
                      e.kind = "charge" /\ e.key = of /\ Refunded(of) + a <= e.amount
      PROVE  Books(k, p, kind, "credit", a, of) /\ k \in EntryKey /\ a \in Nat
  <2>1. net' = [net EXCEPT ![p] = @ + Effect("credit", a)]
    BY <1>1, <1>4 DEF RecordCredit, Effect
  <2> QED
    BY <1>1, <1>4, <2>1 DEF RecordCredit, Books, EntryKey
<1>5. ASSUME NEW j \in Job, NEW a \in Amount, NEW kind \in {"charge", "adjustment"},
             Enter(j, month[j], kind, "debit", a, "none"), Release(j, a),
             Decides(j)
      PROVE  /\ Books(j, month[j], kind, "debit", a, "none")
             /\ j \in EntryKey /\ a \in Nat /\ month[j] \in Period
  <2>1. reservation[j] \in HeldState /\ month[j] \in Period
    BY <1>1, <1>5, DecidesOpened
  <2>2. ~ Recorded(j)
    BY <2>1 DEF BudgetInv, DecisionsAreEntered, Recorded, HeldState
  <2> QED
    BY <1>1, <1>5, <2>1, <2>2 DEF Release, Books, Effect, EntryKey
<1>6. ASSUME NEW j \in Job, WaiveCash(j)
      PROVE  UNCHANGED <<entries, net>>
  <2>1. month[j] \in Period
    BY <1>1, <1>6, DecidesOpened DEF Decides
  <2> QED
    BY <1>1, <1>6, <2>1 DEF WaiveCash, Release
<1>7. \/ UNCHANGED <<entries, net>>
      \/ \E p \in Period : InitializePeriod(p)
      \/ \E p \in Period, k \in Key, a \in Amount, kind \in {"charge", "adjustment"} :
           RecordDebit(k, p, kind, a)
      \/ \E p \in Period, k \in Key, a \in Amount :
           \/ RecordCredit(k, p, "adjustment", a, "none")
           \/ RecordRefund(k, p, a)
      \/ \E j \in Job : \E a \in Amount : SettleCash(j, a) \/ DebitCash(j, a)
  BY <1>6 DEF BudgetNext, EntryNext, JobNext, ReserveCash, AuthorizeCash, AuthorizeQuota,
       LaunchCash, Hold, MoveNoCash, cashVars
<1>8. ASSUME NEW p \in Period, NEW k \in Key, NEW a \in Amount, RecordRefund(k, p, a)
      PROVE  \E of \in EntryKey : Books(k, p, "refund", "credit", a, of)
                                  /\ k \in EntryKey /\ a \in Nat
  <2>1. PICK e \in entries : /\ e.kind = "charge" /\ Refunded(e.key) + a <= e.amount
                             /\ RecordCredit(k, p, "refund", a, e.key)
    BY <1>8 DEF RecordRefund
  <2>2. e.key \in EntryKey
    BY <1>1 DEF Entry
  <2> QED
    BY <1>4, <2>1, <2>2
<1>9. ASSUME NEW j \in Job, NEW a \in Amount, SettleCash(j, a) \/ DebitCash(j, a)
      PROVE  \E kind \in {"charge", "adjustment"} :
               /\ Books(j, month[j], kind, "debit", a, "none")
               /\ j \in EntryKey /\ a \in Nat /\ month[j] \in Period
  BY <1>5, <1>9 DEF Decides, SettleCash, DebitCash
<1> QED
  BY <1>2, <1>3, <1>4, <1>7, <1>8, <1>9

-----------------------------------------------------------------------------
(* An empty ledger has balanced books.                                     *)
LEMMA BooksInitInv == BudgetInit => BooksInv
<1> SUFFICES ASSUME BudgetInit PROVE BooksInv
  OBVIOUS
<1>1. BudgetInv
  BY BudgetInitInv
<1>2. entries = {} /\ \A p \in Period : Holding(p) = {}
  BY DEF BudgetInit, LedgerInit, Holding, HeldState
<1>3. KeysAreUnique /\ OnlyRecordedRefunds /\ RefundsFit
  BY <1>2 DEF KeysAreUnique, OnlyRecordedRefunds, RefundsFit
<1>4. RowsAreFinite
  BY <1>2, FS_EmptySet DEF RowsAreFinite
<1>5. ActiveIsSum
  BY <1>2, SumEmpty DEF BudgetInit, ActiveIsSum
<1>6. ASSUME NEW p \in Period
      PROVE  net[p] = SumOf(SignedOf, {e \in entries : e.period = p})
  <2>1. {e \in entries : e.period = p} = {}
    BY <1>2
  <2> QED
    BY <2>1, SumEmpty DEF BudgetInit
<1> QED
  BY <1>1, <1>3, <1>4, <1>5, <1>6 DEF BooksInv, NetIsSum

-----------------------------------------------------------------------------
(* The books after a step that makes an entry.                             *)
LEMMA NewRow ==
  ASSUME BooksInv, NEW k \in EntryKey, NEW p \in Period, NEW a \in Nat,
         NEW of \in EntryKey \cup {"none"},
         NEW kind \in {"charge", "refund", "adjustment", "allocation"},
         NEW direction \in {"debit", "credit", "allocation"},
         Books(k, p, kind, direction, a, of)
  PROVE  \E row \in Entry :
           /\ entries' = entries \cup {row} /\ row \notin entries
           /\ row.key = k /\ row.period = p /\ row.kind = kind /\ row.of = of
           /\ AmountOf[row] = a /\ row.amount = a /\ SignedOf[row] = Effect(direction, a)
<1> DEFINE row == [key |-> k, period |-> p, kind |-> kind, direction |-> direction,
                   amount |-> a, of |-> of]
<1>1. row \in Entry
  BY DEF Entry
<1>2. entries' = entries \cup {row} /\ row \notin entries
  BY DEF Books, Enter, Recorded
<1>3. AmountOf[row] = a /\ SignedOf[row] = Effect(direction, a)
  BY <1>1 DEF AmountOf, SignedOf, SignedAmount, Effect
<1> QED
  BY <1>1, <1>2, <1>3

(* The row's month, and no other, has its balance moved by the row.        *)
LEMMA EntryKeepsNet ==
  ASSUME BooksInv, NEW k \in EntryKey, NEW p \in Period, NEW a \in Nat,
         NEW of \in EntryKey \cup {"none"},
         NEW kind \in {"charge", "refund", "adjustment", "allocation"},
         NEW direction \in {"debit", "credit", "allocation"},
         Books(k, p, kind, direction, a, of)
  PROVE  NetIsSum'
<1>1. PICK row \in Entry :
        /\ entries' = entries \cup {row} /\ row \notin entries
        /\ row.period = p /\ SignedOf[row] = Effect(direction, a)
  BY NewRow
<1>2. entries \subseteq Entry /\ IsFiniteSet(entries) /\ net \in [Period -> Int]
  BY DEF BooksInv, RowsAreFinite, BudgetInv, BudgetTypeOK
<1> SUFFICES ASSUME NEW q \in Period
             PROVE  net'[q] = SumOf(SignedOf, {e \in entries' : e.period = q})
  BY DEF NetIsSum
<1> DEFINE old == {e \in entries : e.period = q}
           new == {e \in entries' : e.period = q}
<1>3. old \in SUBSET Entry /\ IsFiniteSet(old)
  BY <1>2, FS_Subset
<1>4. net[q] = SumOf(SignedOf, old)
  BY DEF BooksInv, NetIsSum
<1>5. \A x \in old \cup {row} : SignedOf[x] \in Int
  BY <1>3, AmountsAreNumbers
<1>6. new = IF q = p THEN old \cup {row} ELSE old
  BY <1>1
<1>7. row \notin old
  BY <1>1
<1> HIDE DEF old, new
<1>8. SumOf(SignedOf, new) = IF q = p THEN SumOf(SignedOf, old) + SignedOf[row]
                                      ELSE SumOf(SignedOf, old)
  <2>1. SumOf(SignedOf, old \cup {row}) = SumOf(SignedOf, old) + SignedOf[row]
    BY <1>3, <1>5, <1>7, SumAdd
  <2>2. CASE q = p
    BY <1>6, <2>1, <2>2
  <2>3. CASE q # p
    BY <1>6, <2>3
  <2> QED
    BY <2>2, <2>3
<1>9. net' = [net EXCEPT ![p] = @ + Effect(direction, a)]
  BY DEF Books
<1>10. net'[q] = SumOf(SignedOf, new)
  BY <1>1, <1>2, <1>4, <1>8, <1>9
<1> QED
  BY <1>10 DEF new

(* A refund row counts against its own charge and no other.                *)
LEMMA EntryKeepsRefunds ==
  ASSUME BooksInv, NEW k \in EntryKey, NEW p \in Period, NEW a \in Nat,
         NEW of \in EntryKey \cup {"none"},
         NEW kind \in {"charge", "refund", "adjustment", "allocation"},
         NEW direction \in {"debit", "credit", "allocation"},
         Books(k, p, kind, direction, a, of)
  PROVE  RefundsFit'
<1>1. PICK row \in Entry :
        /\ entries' = entries \cup {row} /\ row \notin entries
        /\ row.key = k /\ row.of = of /\ AmountOf[row] = a /\ row.amount = a
  BY NewRow
<1>2. /\ entries \subseteq Entry /\ IsFiniteSet(entries)
      /\ KeysAreUnique /\ OnlyRecordedRefunds /\ ~ Recorded(k)
      /\ "none" \notin EntryKey
  BY BudgetAssumption
     DEF BooksInv, RowsAreFinite, BudgetInv, BudgetTypeOK, Books, EntryKey
<1> SUFFICES ASSUME NEW e \in entries', e.kind = "charge"
             PROVE  SumOf(AmountOf, {r \in entries' : r.of = e.key}) <= e.amount
  BY DEF RefundsFit
<1> DEFINE old == {r \in entries : r.of = e.key}
           new == {r \in entries' : r.of = e.key}
<1>3. old \in SUBSET Entry /\ IsFiniteSet(old) /\ row \notin old
  BY <1>1, <1>2, FS_Subset
<1>4. new = IF of = e.key THEN old \cup {row} ELSE old
  BY <1>1
<1>5. \A x \in old \cup {row} : AmountOf[x] \in Int
  <2>1. old \cup {row} \subseteq Entry
    BY <1>3
  <2> HIDE DEF old
  <2>2. \A x \in Entry : AmountOf[x] \in Int
    BY AmountsAreNumbers
  <2> QED
    BY <2>1, <2>2
<1>6. e \in Entry /\ e.key \in EntryKey /\ e.amount \in Nat
  <2>1. e \in Entry
    BY <1>1, <1>2
  <2> QED
    BY <2>1 DEF Entry
<1>7. e = row => old = {}
  BY <1>1, <1>2, <1>6 DEF OnlyRecordedRefunds
<1>8. e # row => e \in entries
  BY <1>1
<1>9. e \in entries => SumOf(AmountOf, old) <= e.amount
  BY DEF BooksInv, RefundsFit
<1>10. of = e.key => e \in entries /\ SumOf(AmountOf, old) + a <= e.amount
  <2> SUFFICES ASSUME of = e.key
               PROVE  e \in entries /\ SumOf(AmountOf, old) + a <= e.amount
    OBVIOUS
  <2>1. PICK c \in entries : c.key = of /\ Refunded(of) + a <= c.amount
    BY <1>2, <1>6 DEF Books
  <2>2. Refunded(of) = SumOf(AmountOf, old)
    BY RefundedIsSum
  <2>3. e # row
    BY <1>1, <1>2, <2>1 DEF Recorded
  <2>4. c = e
    BY <1>2, <1>8, <2>1, <2>3 DEF KeysAreUnique
  <2> QED
    BY <1>8, <2>1, <2>2, <2>3, <2>4
<1> HIDE DEF old, new
<1>11. SumOf(AmountOf, new) <= e.amount
  <2>1. CASE of = e.key
    <3>1. SumOf(AmountOf, old \cup {row}) = SumOf(AmountOf, old) + AmountOf[row]
      BY <1>3, <1>5, SumAdd
    <3> QED
      BY <1>1, <1>4, <1>10, <2>1, <3>1
  <2>2. CASE of # e.key /\ e = row
    BY <1>4, <1>6, <1>7, <2>2, SumEmpty
  <2>3. CASE of # e.key /\ e # row
    BY <1>4, <1>8, <1>9, <2>3
  <2> QED
    BY <2>1, <2>2, <2>3
<1> QED
  BY <1>11 DEF new

(* Keys stay unique, and refunds stay those of recorded charges.           *)
LEMMA EntryKeepsRows ==
  ASSUME BooksInv, NEW k \in EntryKey, NEW p \in Period, NEW a \in Nat,
         NEW of \in EntryKey \cup {"none"},
         NEW kind \in {"charge", "refund", "adjustment", "allocation"},
         NEW direction \in {"debit", "credit", "allocation"},
         Books(k, p, kind, direction, a, of)
  PROVE  KeysAreUnique' /\ OnlyRecordedRefunds' /\ IsFiniteSet(entries)'
<1>1. PICK row \in Entry :
        entries' = entries \cup {row} /\ row.key = k /\ row.of = of
  BY NewRow
<1>2. IsFiniteSet(entries) /\ KeysAreUnique /\ OnlyRecordedRefunds /\ ~ Recorded(k)
  BY DEF BooksInv, RowsAreFinite, Books
<1>3. IsFiniteSet(entries')
  BY <1>1, <1>2, FS_AddElement
<1>4. KeysAreUnique'
  BY <1>1, <1>2 DEF KeysAreUnique, Recorded
<1>5. of = "none" \/ Recorded(of)
  BY DEF Books, Recorded
<1>6. OnlyRecordedRefunds'
  BY <1>1, <1>2, <1>5 DEF OnlyRecordedRefunds, Recorded
<1> QED
  BY <1>3, <1>4, <1>6

-----------------------------------------------------------------------------
(* What a step does to the holds of the months.                            *)
LEMMA HoldingCases ==
  ASSUME BudgetInv, BudgetNext
  PROVE  \/ /\ UNCHANGED <<active, held>>
            /\ \A p \in Period : Holding(p)' = Holding(p)
         \/ \E j \in Job, p \in Period, a \in Nat :
              /\ j \notin Holding(p)
              /\ active' = [active EXCEPT ![p] = @ + a] /\ held' = [held EXCEPT ![j] = a]
              /\ \A q \in Period : j \notin Holding(q)
              /\ \A q \in Period :
                   Holding(q)' = IF q = p THEN Holding(q) \cup {j} ELSE Holding(q)
         \/ \E j \in Job, p \in Period :
              /\ j \in Holding(p) /\ held' = held
              /\ active' = [active EXCEPT ![p] = @ - held[j]]
              /\ \A q \in Period :
                   Holding(q)' = IF q = p THEN Holding(q) \ {j} ELSE Holding(q)
<1>1. /\ reservation \in [Job -> ReservationState]
      /\ month \in [Job -> Period \cup {"none"}]
      /\ held \in [Job -> Nat] /\ RowsAreOpened /\ Amount \subseteq Nat
      /\ active \in [Period -> Int]
  BY BudgetAssumption DEF BudgetInv, BudgetTypeOK, LedgerTypeOK
<1>2. ASSUME UNCHANGED <<reservation, active, month, held>>
      PROVE  UNCHANGED <<active, held>> /\ \A p \in Period : Holding(p)' = Holding(p)
  BY <1>2 DEF Holding
<1>3. ASSUME NEW j \in Job, Keeps(j)
      PROVE  UNCHANGED <<active, held>> /\ \A p \in Period : Holding(p)' = Holding(p)
  <2>1. UNCHANGED <<active, month, held>>
    BY <1>3 DEF Keeps, cashVars
  <2>2. \A i \in Job : reservation'[i] \in HeldState <=> reservation[i] \in HeldState
    BY <1>1, <1>3
       DEF Keeps, Authorize, Launch, MarkReservationUncertain, SettleQuota, ReleaseQuota,
           MarkQuotaUncertain, TransitionQuota, SetReservation, HeldState
  <2> QED
    BY <2>1, <2>2 DEF Holding
<1>4. ASSUME NEW j \in Job, NEW p \in Period, NEW a \in Amount, Holds(j, p, a)
      PROVE  /\ \A q \in Period : j \notin Holding(q)
             /\ active' = [active EXCEPT ![p] = @ + a] /\ held' = [held EXCEPT ![j] = a]
             /\ \A q \in Period :
                  Holding(q)' = IF q = p THEN Holding(q) \cup {j} ELSE Holding(q)
  <2>1. /\ reservation[j] = "none"
        /\ reservation' = [reservation EXCEPT ![j] = "dispatching"]
        /\ month' = [month EXCEPT ![j] = p]
        /\ active' = [active EXCEPT ![p] = @ + a] /\ held' = [held EXCEPT ![j] = a]
    BY <1>4 DEF Holds, Hold, Reserve, Authorize, SetReservation
  <2>2. \A q \in Period : j \notin Holding(q)
    BY <2>1 DEF Holding, HeldState
  <2>3. ASSUME NEW q \in Period, NEW i
        PROVE  i \in Holding(q)' <=> i \in Holding(q) \/ (q = p /\ i = j)
    BY <1>1, <2>1 DEF Holding, HeldState
  <2> QED
    BY <2>1, <2>2, <2>3
<1>5. ASSUME NEW j \in Job, Decides(j)
      PROVE  /\ month[j] \in Period /\ j \in Holding(month[j]) /\ held' = held
             /\ active' = [active EXCEPT ![month[j]] = @ - held[j]]
             /\ \A q \in Period :
                  Holding(q)' = IF q = month[j] THEN Holding(q) \ {j} ELSE Holding(q)
  <2>1. /\ reservation[j] \in HeldState /\ month[j] \in Period
        /\ \E state \in {"settled", "reconciled"} :
             reservation' = [reservation EXCEPT ![j] = state]
        /\ month' = month /\ held' = held
        /\ active' = [active EXCEPT ![month[j]] = @ - held[j]]
    BY <1>1, <1>5, DecidesOpened
       DEF Decides, WaiveCash, SettleCash, DebitCash, Release, SettleReservation,
           ReconcileNoCharge, ReconcileManualDebit, SetReservation
  <2>2. j \in Holding(month[j])
    BY <2>1 DEF Holding
  <2>3. ASSUME NEW q \in Period, NEW i
        PROVE  i \in Holding(q)' <=> i \in Holding(q) /\ i # j
    BY <1>1, <2>1 DEF Holding, HeldState
  <2>4. \A q \in Period : q # month[j] => j \notin Holding(q)
    BY DEF Holding
  <2> QED
    BY <2>1, <2>2, <2>3, <2>4
<1>6. \/ UNCHANGED <<reservation, active, month, held>>
      \/ \E j \in Job, p \in Period, a \in Amount : Holds(j, p, a)
      \/ \E j \in Job : Keeps(j) \/ Decides(j)
  BY BudgetCases
     DEF InitializePeriod, RecordDebit, RecordCredit, Decides, ledgerVars
<1> QED
  BY <1>1, <1>2, <1>3, <1>4, <1>5, <1>6

(* The cached holds of every month follow.                                 *)
LEMMA HoldsStep ==
  ASSUME BooksInv, BudgetNext
  PROVE  ActiveIsSum' /\ \A p \in Period : IsFiniteSet(Holding(p))'
<1>1. /\ held \in [Job -> Nat] /\ active \in [Period -> Int]
      /\ \A p \in Period : IsFiniteSet(Holding(p)) /\ Holding(p) \subseteq Job
      /\ \A p \in Period : active[p] = SumOf(held, Holding(p))
  BY DEF BooksInv, BudgetInv, BudgetTypeOK, RowsAreFinite, ActiveIsSum, Holding
<1> SUFFICES ASSUME NEW q \in Period
             PROVE  active'[q] = SumOf(held', Holding(q)') /\ IsFiniteSet(Holding(q)')
  BY DEF ActiveIsSum
<1>2. CASE UNCHANGED <<active, held>> /\ Holding(q)' = Holding(q)
  BY <1>1, <1>2
<1>3. ASSUME NEW j \in Job, NEW p \in Period, NEW a \in Nat, j \notin Holding(q),
             active' = [active EXCEPT ![p] = @ + a], held' = [held EXCEPT ![j] = a],
             Holding(q)' = IF q = p THEN Holding(q) \cup {j} ELSE Holding(q)
      PROVE  active'[q] = SumOf(held', Holding(q)') /\ IsFiniteSet(Holding(q)')
  <2>1. \A x \in Holding(q) : held[x] \in Int /\ held'[x] = held[x]
    BY <1>1, <1>3
  <2>2. SumOf(held', Holding(q)) = active[q]
    BY <1>1, <2>1, SumSame
  <2>3. held'[j] = a /\ \A x \in Holding(q) \cup {j} : held'[x] \in Int
    BY <1>1, <1>3, <2>1
  <2>4. SumOf(held', Holding(q) \cup {j}) = SumOf(held', Holding(q)) + held'[j]
    BY <1>1, <1>3, <2>3, SumAdd
  <2> QED
    BY <1>1, <1>3, <2>2, <2>3, <2>4, FS_AddElement
<1>4. ASSUME NEW j \in Job, NEW p \in Period, j \in Holding(p), held' = held,
             active' = [active EXCEPT ![p] = @ - held[j]],
             Holding(q)' = IF q = p THEN Holding(q) \ {j} ELSE Holding(q)
      PROVE  active'[q] = SumOf(held', Holding(q)') /\ IsFiniteSet(Holding(q)')
  <2>1. \A x \in Holding(q) : held[x] \in Int
    BY <1>1
  <2>2. CASE q = p
    <3>1. SumOf(held, Holding(q)) = SumOf(held, Holding(q) \ {j}) + held[j]
      BY <1>1, <1>4, <2>1, <2>2, SumTake
    <3>2. IsFiniteSet(Holding(q) \ {j}) /\ \A x \in Holding(q) \ {j} : held[x] \in Int
      BY <1>1, <2>1, FS_RemoveElement
    <3>3. SumOf(held, Holding(q) \ {j}) \in Int /\ held[j] \in Int
      BY <1>1, <3>2, SumType
    <3> QED
      BY <1>1, <1>4, <2>2, <3>1, <3>2, <3>3
  <2>3. CASE q # p
    BY <1>1, <1>4, <2>3
  <2> QED
    BY <2>2, <2>3
<1> QED
  BY <1>2, <1>3, <1>4, HoldingCases DEF BooksInv

-----------------------------------------------------------------------------
(* Every step of the ledger keeps the books.                               *)
LEMMA BooksNextInv == BooksInv /\ [BudgetNext]_budgetVars => BooksInv'
<1> SUFFICES ASSUME BooksInv, [BudgetNext]_budgetVars PROVE BooksInv'
  OBVIOUS
<1>0. BudgetInv'
  BY BudgetNextInv DEF BooksInv
<1>1. CASE UNCHANGED budgetVars
  <2>1. UNCHANGED <<reservation, net, active, entries, month, held>>
    BY <1>1 DEF budgetVars, cashVars, ledgerVars
  <2> QED
    BY <1>0, <2>1
       DEF BooksInv, KeysAreUnique, OnlyRecordedRefunds, RowsAreFinite, NetIsSum,
           ActiveIsSum, RefundsFit, Holding, Recorded
<1>2. CASE BudgetNext
  <2>1. CASE UNCHANGED <<entries, net>>
    BY <1>0, <1>2, <2>1, HoldsStep
       DEF BooksInv, KeysAreUnique, OnlyRecordedRefunds, RowsAreFinite, NetIsSum,
           RefundsFit, Recorded
  <2>2. ASSUME NEW k \in EntryKey, NEW p \in Period, NEW a \in Nat,
               NEW of \in EntryKey \cup {"none"},
               NEW kind \in {"charge", "refund", "adjustment", "allocation"},
               NEW direction \in {"debit", "credit", "allocation"},
               Books(k, p, kind, direction, a, of)
        PROVE  BooksInv'
    <3>1. NetIsSum' /\ RefundsFit'
      BY <2>2, EntryKeepsNet, EntryKeepsRefunds
    <3>2. KeysAreUnique' /\ OnlyRecordedRefunds' /\ IsFiniteSet(entries)'
      BY <2>2, EntryKeepsRows
    <3>3. ActiveIsSum' /\ \A q \in Period : IsFiniteSet(Holding(q))'
      BY <1>2, HoldsStep
    <3> QED
      BY <1>0, <3>1, <3>2, <3>3 DEF BooksInv, RowsAreFinite
  <2> QED
    BY <1>2, <2>1, <2>2, EntryCases DEF BooksInv
<1> QED
  BY <1>1, <1>2

(* Whatever order charges, credits, refunds, holds and decisions come in,  *)
(* and however many months, jobs and entries there are, the cached sums of *)
(* a month are those of its rows and no charge is refunded twice: no       *)
(* operation can leave books that would close the ledger to the next.      *)
THEOREM BooksBalanceCorrect == BudgetSpec => []BooksBalance
  BY BooksInvBalances, BooksInitInv, BooksNextInv, PTL DEF BudgetSpec

-----------------------------------------------------------------------------
(* A cash job's authorization is launched by LaunchCash only.              *)
LEMMA LaunchIsLaunchCash ==
  ASSUME BudgetInv, BudgetNext, NEW j \in Metered,
         authorization[j] = "active", authorization'[j] = "launched"
  PROVE  \E p \in Period : LaunchCash(j, p)
<1>1. /\ reservation \in [Job -> ReservationState]
      /\ authorization \in [Job -> AuthorizationState]
      /\ j \in Job
  BY BillingAssumption DEF BudgetInv, BudgetTypeOK, LedgerTypeOK
<1>2. JobNext
  BY <1>1 DEF BudgetNext, EntryNext, InitializePeriod, RecordDebit, RecordCredit,
              RecordRefund, ledgerVars
<1>3. PICK i \in Job :
        \/ \E p \in Period :
             \/ \E a \in Amount : ReserveCash(i, p, a) \/ AuthorizeCash(i, p, a)
             \/ AuthorizeQuota(i, p)
             \/ LaunchCash(i, p)
        \/ \E a \in Amount : SettleCash(i, a) \/ DebitCash(i, a)
        \/ WaiveCash(i)
        \/ MoveNoCash(i)
  BY <1>2 DEF JobNext
<1>4. ASSUME NEW state, SetAuthorization(i, state), state # "launched" PROVE FALSE
  BY <1>1, <1>4 DEF SetAuthorization
<1>5. authorization' # authorization
  BY <1>1
<1>6. ASSUME NEW p \in Period, NEW a \in Amount,
             ReserveCash(i, p, a) \/ AuthorizeCash(i, p, a)
      PROVE  FALSE
  BY <1>4, <1>5, <1>6 DEF ReserveCash, AuthorizeCash, Reserve, Authorize
<1>7. ASSUME NEW p \in Period, AuthorizeQuota(i, p) PROVE FALSE
  BY <1>4, <1>7 DEF AuthorizeQuota, Authorize
<1>8. ASSUME NEW a \in Amount, SettleCash(i, a) \/ DebitCash(i, a) PROVE FALSE
  BY <1>4, <1>5, <1>8 DEF SettleCash, DebitCash, SettleReservation, ReconcileManualDebit
<1>9. ~ WaiveCash(i)
  BY <1>4, <1>5 DEF WaiveCash, ReconcileNoCharge
<1>10. ~ MoveNoCash(i)
  BY <1>4, <1>5
     DEF MoveNoCash, MarkReservationUncertain, SettleQuota, ReleaseQuota,
         MarkQuotaUncertain, TransitionQuota
<1>11. PICK p \in Period : LaunchCash(i, p)
  BY <1>3, <1>6, <1>7, <1>8, <1>9, <1>10
<1>12. i = j
  BY <1>1, <1>11 DEF LaunchCash, Launch, SetAuthorization
<1> QED
  BY <1>11, <1>12

(* A launch counts the job's own hold and passes the thresholds.           *)
LEMMA LaunchStep ==
  ASSUME BooksInv, [BudgetNext]_budgetVars, NEW j \in Metered, NEW p \in Period,
         authorization[j] = "active", authorization'[j] = "launched", month[j] = p
  PROVE  /\ held[j] <= active'[p]
         /\ 10 * Exposure(p)' < 9 * CashCap[p]
         /\ j \in Experiment => 10 * Exposure(p)' < 8 * CashCap[p]
<1>1. BudgetInv /\ BudgetNext
  BY DEF BooksInv, budgetVars, ledgerVars
<1>2. PICK q \in Period : LaunchCash(j, q)
  BY <1>1, LaunchIsLaunchCash
<1>3. q = p /\ UNCHANGED cashVars /\ BelowThresholds(j, p, Exposure(p))
  BY <1>2 DEF LaunchCash
<1>4. UNCHANGED <<net, active, held>> /\ Exposure(p)' = Exposure(p)
  BY <1>3 DEF cashVars, Exposure
<1>5. j \in Holding(p)
  BY <1>2, BillingAssumption DEF LaunchCash, Launch, Holding, HeldState
<1>6. held \in [Job -> Nat] /\ IsFiniteSet(Holding(p)) /\ active[p] = SumOf(held, Holding(p))
  BY BudgetAssumption
     DEF BooksInv, BudgetInv, BudgetTypeOK, RowsAreFinite, ActiveIsSum
<1>7. held[j] <= active[p]
  <2>1. \A i \in Holding(p) : held[i] \in Nat
    BY <1>6 DEF Holding
  <2>2. {j} \in SUBSET Holding(p) /\ IsFiniteSet({}) /\ IsFiniteSet({j})
    BY <1>5, FS_EmptySet, FS_Singleton
  <2>3. SumOf(held, {j}) <= active[p]
    BY <1>6, <2>1, <2>2, SumPart
  <2>4. SumOf(held, {j}) = SumOf(held, {j} \ {j}) + held[j]
    <3>1. \A x \in {j} : held[x] \in Int
      BY <1>5, <2>1
    <3> QED
      BY <2>2, <3>1, SumTake
  <2>5. SumOf(held, {j} \ {j}) = 0
    <3>1. {j} \ {j} = {}
      OBVIOUS
    <3> QED
      BY <3>1, SumEmpty
  <2>6. held[j] \in Nat
    BY <1>5, <2>1
  <2> QED
    BY <2>3, <2>4, <2>5, <2>6
<1> QED
  BY <1>3, <1>4, <1>7 DEF BelowThresholds

(* For any months, caps, jobs and amounts, and whatever was held, charged  *)
(* or refunded since it was authorized, a cash job starts only with margin *)
(* under its month's cap and its own hold counted.                         *)
THEOREM LaunchLeavesMarginCorrect == BudgetSpec => LaunchLeavesMargin
<1>1. BooksInv /\ [BudgetNext]_budgetVars =>
        [\A j \in Metered : \A p \in Period :
           authorization[j] = "active" /\ authorization'[j] = "launched" /\ month[j] = p
             => /\ held[j] <= active'[p]
                /\ 10 * Exposure(p)' < 9 * CashCap[p]
                /\ j \in Experiment => 10 * Exposure(p)' < 8 * CashCap[p]]_budgetVars
  BY LaunchStep
<1> QED
  BY <1>1, BooksInitInv, BooksNextInv, PTL DEF BudgetSpec, LaunchLeavesMargin

-----------------------------------------------------------------------------
(* Provider units                                                          *)


(* The ledger's rows move by DispatchAuthority's transactions or not at    *)
(* all.                                                                    *)
LEMMA QuotaStepIsLedgerStep ==
  [QuotaNext]_quotaVars => [LedgerNext]_ledgerVars
<1> SUFFICES ASSUME [QuotaNext]_quotaVars
             PROVE  [LedgerNext]_ledgerVars
  OBVIOUS
<1>1. CASE OthersUse \/ SignReading \/ Advance
  BY <1>1 DEF OthersUse, SignReading, Advance
<1>2. ASSUME NEW j \in Job, MeterCatchesUp(j) \/ Prepare(j) \/ Drop(j)
      PROVE  [LedgerNext]_ledgerVars
  BY <1>2 DEF MeterCatchesUp, Prepare, Drop
<1>3. ASSUME NEW j \in Job, LedgerOpens,
             Authorize(j) \/ Launch(j) \/ SettleReservation(j) \/ SettleQuota(j)
               \/ ReconcileNoCharge(j) \/ ReleaseQuota(j)
               \/ MarkReservationUncertain(j) \/ ReconcileManualDebit(j)
               \/ MarkQuotaUncertain(j)
      PROVE  LedgerNext
  BY <1>3 DEF LedgerNext
<1>4. ASSUME NEW j \in Job, LedgerOpens,
             QuotaAuthorize(j) \/ QuotaLaunch(j) \/ QuotaSettle(j)
               \/ QuotaRelease(j) \/ QuotaUncertain(j)
      PROVE  LedgerNext
  BY <1>3, <1>4
  DEF QuotaAuthorize, QuotaLaunch, QuotaSettle, QuotaRelease, QuotaUncertain
<1>5. CASE UNCHANGED quotaVars
  BY <1>5 DEF quotaVars
<1> QED
  BY <1>1, <1>2, <1>4, <1>5 DEF QuotaNext

(* Whatever the readings and limits, the quota ledger is a ledger: every   *)
(* result about DispatchAuthority holds of it.                             *)
THEOREM QuotaImplementsLedger == QuotaSpec => ImplementsLedger
<1>1. QuotaInit => LedgerInit
  BY DEF QuotaInit
<1> QED
  BY <1>1, QuotaStepIsLedgerStep, PTL DEF QuotaSpec, ImplementsLedger, LedgerSpec

-----------------------------------------------------------------------------
(* SpentIsHeld is inductive with the types of what it compares.            *)
SpentInv ==
  /\ LedgerInv
  /\ spent \in [Job -> Nat]
  /\ launchedAt \in [Job -> Int]
  /\ now \in Int
  /\ SpentIsHeld

(* Nothing is spent at first.                                              *)
LEMMA SpentInvInitially == QuotaInit => SpentInv
  BY LedgerInitInv DEF QuotaInit, SpentInv, SpentIsHeld

(* A step that leaves spent units, launches and holds alone only has to    *)
(* keep the authorization of every job that spent on the books.            *)
LEMMA BooksAreKept ==
  ASSUME SpentInv, LedgerInv',
         UNCHANGED <<lane, spent, launchedAt, hold>>, now' \in Int,
         \A j \in Job : spent[j] > 0 =>
           authorization'[j] \in {"launched", "settled", "uncertain"}
  PROVE  SpentInv'
  BY DEF SpentInv, SpentIsHeld, HoldWindow, Window

(* A launch spends within the window of its hold; no other step touches    *)
(* what was spent, and none gives up the hold of a job that spent.         *)
LEMMA SpentInvIsInductive == SpentInv /\ [QuotaNext]_quotaVars => SpentInv'
<1> SUFFICES ASSUME SpentInv, [QuotaNext]_quotaVars
             PROVE  SpentInv'
  OBVIOUS
<1>0. LedgerInv'
  BY QuotaStepIsLedgerStep, LedgerNextInv, LedgerStutterInv DEF SpentInv
<1>a. \A j \in Job : spent[j] > 0 =>
        authorization[j] \in {"launched", "settled", "uncertain"}
  BY DEF SpentInv, SpentIsHeld
<1>b. now \in Int /\ now + 1 \in Int
  BY DEF SpentInv
<1>1. CASE OthersUse \/ SignReading \/ Advance
  BY <1>0, <1>1, <1>a, <1>b, BooksAreKept
  DEF OthersUse, SignReading, Advance, ledgerVars, providerVars, holdVars
<1>2. ASSUME NEW j \in Job, MeterCatchesUp(j) \/ Prepare(j) \/ Drop(j)
      PROVE  SpentInv'
  BY <1>0, <1>2, <1>a, <1>b, BooksAreKept
  DEF MeterCatchesUp, Prepare, Drop, ledgerVars, providerVars, holdVars
<1>3. ASSUME NEW j \in Job, QuotaAuthorize(j)
      PROVE  SpentInv'
  <2>1. authorization[j] = "none" /\ authorization' = [authorization EXCEPT ![j] = "active"]
    BY <1>3 DEF QuotaAuthorize, Authorize, SetAuthorization
  <2>2. ~ (spent[j] > 0)
    BY <2>1, <1>a
  <2>3. UNCHANGED <<lane, spent, launchedAt, now>>
        /\ hold' = [hold EXCEPT ![j] = request[j]]
    BY <1>3 DEF QuotaAuthorize, providerVars
  <2>4. ASSUME NEW k \in Job, spent'[k] > 0
        PROVE  /\ authorization'[k] \in {"launched", "settled", "uncertain"}
               /\ spent'[k] <= Envelope[k]
               /\ \A q \in lane' : launchedAt'[k] \in HoldWindow(q, k)'
    <3>1. k # j /\ spent[k] > 0
      BY <2>2, <2>3, <2>4
    <3>2. hold'[k] = hold[k] /\ authorization'[k] = authorization[k]
      BY <2>1, <2>3, <3>1 DEF SpentInv, LedgerInv, LedgerTypeOK
    <3> QED
      BY <2>3, <3>1, <3>2 DEF SpentInv, SpentIsHeld, HoldWindow, Window
  <2> QED
    BY <1>0, <2>3, <2>4 DEF SpentInv, SpentIsHeld
<1>4. ASSUME NEW j \in Job, QuotaLaunch(j)
      PROVE  SpentInv'
  <2>1. PICK units \in 0 .. Envelope[j] : spent' = [spent EXCEPT ![j] = units]
    BY <1>4 DEF QuotaLaunch
  <2>2. /\ authorization' = [authorization EXCEPT ![j] = "launched"]
        /\ launchedAt' = [launchedAt EXCEPT ![j] = now]
        /\ UNCHANGED <<lane, now, hold>>
        /\ \A q \in lane : now \in HoldWindow(q, j)
    BY <1>4 DEF QuotaLaunch, Launch, StillValid, SetAuthorization, holdVars
  <2>3. spent' \in [Job -> Nat] /\ launchedAt' \in [Job -> Int]
    BY <2>1, <2>2, QuotaAssumption DEF SpentInv
  <2>4. ASSUME NEW k \in Job, spent'[k] > 0
        PROVE  /\ authorization'[k] \in {"launched", "settled", "uncertain"}
               /\ spent'[k] <= Envelope[k]
               /\ \A q \in lane' : launchedAt'[k] \in HoldWindow(q, k)'
    <3>1. CASE k = j
      BY <2>1, <2>2, <3>1, QuotaAssumption
      DEF SpentInv, LedgerInv, LedgerTypeOK, HoldWindow, Window
    <3>2. CASE k # j
      BY <2>1, <2>2, <2>4, <3>2
      DEF SpentInv, SpentIsHeld, LedgerInv, LedgerTypeOK, HoldWindow, Window
    <3> QED
      BY <3>1, <3>2
  <2> QED
    BY <1>0, <1>b, <2>2, <2>3, <2>4 DEF SpentInv, SpentIsHeld
<1>5. ASSUME NEW j \in Job, QuotaSettle(j)
      PROVE  SpentInv'
  BY <1>0, <1>5, <1>a, <1>b, BooksAreKept
  DEF QuotaSettle, SettleReservation, SettleQuota, TransitionQuota, SetAuthorization,
      providerVars, SpentInv, LedgerInv, LedgerTypeOK
<1>6. ASSUME NEW j \in Job, QuotaRelease(j)
      PROVE  SpentInv'
  <2>1. ~ (spent[j] > 0)
    BY <1>6, <1>a DEF QuotaRelease, ReleaseQuota, TransitionQuota
  <2> QED
    BY <1>0, <1>6, <1>a, <1>b, <2>1, BooksAreKept
    DEF QuotaRelease, ReconcileNoCharge, ReleaseQuota, TransitionQuota, SetAuthorization,
        providerVars, holdVars, SpentInv, LedgerInv, LedgerTypeOK
<1>7. ASSUME NEW j \in Job, QuotaUncertain(j)
      PROVE  SpentInv'
  BY <1>0, <1>7, <1>a, <1>b, BooksAreKept
  DEF QuotaUncertain, MarkReservationUncertain, ReconcileManualDebit, MarkQuotaUncertain,
      TransitionQuota, SetAuthorization, providerVars, holdVars, SpentInv, LedgerInv,
      LedgerTypeOK
<1>8. CASE UNCHANGED quotaVars
  BY <1>0, <1>8, <1>a, <1>b, BooksAreKept
  DEF quotaVars, ledgerVars, providerVars, holdVars
<1> QED
  BY <1>1, <1>2, <1>3, <1>4, <1>5, <1>6, <1>7, <1>8 DEF QuotaNext

(* Whatever is launched, released, rejected and reconciled in whichever    *)
(* order, a unit the provider bills stays held or settled, in the windows  *)
(* its job was admitted for.                                               *)
THEOREM SpentIsHeldCorrect == QuotaSpec => []SpentIsHeld
<1>1. SpentInv => SpentIsHeld
  BY DEF SpentInv
<1> QED
  BY <1>1, SpentInvInitially, SpentInvIsInductive, PTL DEF QuotaSpec

-----------------------------------------------------------------------------
(* Readings and requests                                                   *)

(* What a reading was signed as including was on the meter, and the meter  *)
(* only goes on from there.                                                *)
ReadingsAreSeen ==
  \A r \in signed :
    /\ r.metered \subseteq metered /\ r.others \subseteq others
    /\ \A q \in lane : r.included[q] \subseteq r.metered

Before(r, s) == r.metered \subseteq s.metered /\ r.others \subseteq s.others
ReadingsAreOrdered == \A r, s \in signed : Before(r, s) \/ Before(s, r)

(* A job is authorized by a request made of a signed reading, and its cash *)
(* is reserved by no one else.                                             *)
HoldsAreSigned ==
  /\ \A j \in Job : request[j] # NoRequest => request[j].reading \in signed
  /\ \A j \in Authorized : hold[j].reading \in signed
  /\ \A j \in Job \ Authorized : reservation[j] = "none"

(* On the meter is what a launched job spent, after its reading.           *)
MeterIsSpent ==
  /\ \A j \in metered : spent[j] > 0
  /\ \A j \in Job : spent[j] > 0 => hold[j].reading.at <= launchedAt[j]

QuotaInv ==
  /\ QuotaTypeOK /\ SpentInv
  /\ \A r \in signed : r.at <= now
  /\ ReadingsAreSeen /\ ReadingsAreOrdered /\ HoldsAreSigned /\ MeterIsSpent

(* Nothing is signed, asked for, spent or held in the empty ledger.         *)
LEMMA QuotaInitInv == QuotaInit => QuotaInv
<1> SUFFICES ASSUME QuotaInit PROVE QuotaInv
  OBVIOUS
<1>1. SpentInv
  BY SpentInvInitially
<1>2. 0 \in Tick
  BY QuotaAssumption DEF Tick
<1>3. QuotaTypeOK
  BY <1>1, <1>2 DEF QuotaInit, QuotaTypeOK, SpentInv, LedgerInv
<1>4. ReadingsAreSeen /\ ReadingsAreOrdered /\ HoldsAreSigned /\ MeterIsSpent
  BY DEF QuotaInit, LedgerInit, ReadingsAreSeen, ReadingsAreOrdered, HoldsAreSigned,
         MeterIsSpent, Authorized
<1> QED
  BY <1>1, <1>3, <1>4 DEF QuotaInv, QuotaInit

(* What a decision does to the rows of its job: it was authorized, and what*)
(* was settled or given back stays so.                                     *)
Decision(j) == QuotaSettle(j) \/ QuotaRelease(j) \/ QuotaUncertain(j)

(* It leaves the provider, the readings and all other jobs alone.          *)
LEMMA DecisionMoves ==
  ASSUME QuotaInv, NEW j \in Job, Decision(j)
  PROVE  /\ j \in Authorized
         /\ UNCHANGED <<lane, now, providerVars, signed, request, hold>>
         /\ \E state \in AuthorizationState :
              /\ authorization' = [authorization EXCEPT ![j] = state]
              /\ \/ state = authorization[j]
                 \/ /\ authorization[j] \in OpenState /\ state = "settled"
                 \/ /\ authorization[j] \in OpenState \cup {"uncertain"}
                    /\ state = "released" /\ ~ (spent[j] > 0)
                 \/ authorization[j] \in OpenState \cup {"uncertain"} /\ state = "uncertain"
<1>1. /\ authorization \in [Job -> AuthorizationState]
      /\ reservation \in [Job -> ReservationState]
      /\ authorization[j] = "none" => reservation[j] = "none"
  BY DEF QuotaInv, QuotaTypeOK, LedgerTypeOK, HoldsAreSigned, Authorized
<1>2. reservation[j] \in HeldState => j \in Authorized
  BY <1>1 DEF HeldState, Authorized
<1>3. ~ (authorization[j] = "active" /\ spent[j] > 0)
  BY DEF QuotaInv, SpentInv, SpentIsHeld
<1>4. CASE QuotaSettle(j)
  BY <1>1, <1>2, <1>4
     DEF QuotaSettle, SettleReservation, SettleQuota, TransitionQuota, SetAuthorization,
         OpenState, Authorized, AuthorizationState, providerVars
<1>5. CASE QuotaRelease(j)
  BY <1>1, <1>2, <1>3, <1>5
     DEF QuotaRelease, ReconcileNoCharge, ReleaseQuota, TransitionQuota, SetAuthorization,
         OpenState, Authorized, AuthorizationState, providerVars, holdVars
<1>6. CASE QuotaUncertain(j)
  BY <1>1, <1>2, <1>6
     DEF QuotaUncertain, MarkReservationUncertain, ReconcileManualDebit, MarkQuotaUncertain,
         TransitionQuota, SetAuthorization, OpenState, Authorized, AuthorizationState,
         providerVars, holdVars
<1> QED
  BY <1>4, <1>5, <1>6 DEF Decision

(* Every step, for the cases of the proofs.                                *)
LEMMA QuotaCases ==
  ASSUME [QuotaNext]_quotaVars
  PROVE  \/ UNCHANGED quotaVars
         \/ OthersUse \/ SignReading \/ Advance
         \/ \E j \in Job : MeterCatchesUp(j) \/ Prepare(j) \/ Drop(j)
         \/ \E j \in Job : QuotaAuthorize(j)
         \/ \E j \in Job : QuotaLaunch(j)
         \/ \E j \in Job : Decision(j)
  BY DEF QuotaNext, Decision

(* Every step leaves every row and reading in its domain.                  *)
LEMMA QuotaTypeStep ==
  QuotaInv /\ [QuotaNext]_quotaVars => QuotaTypeOK'
<1> SUFFICES ASSUME QuotaInv, [QuotaNext]_quotaVars PROVE QuotaTypeOK'
  OBVIOUS
<1>0. LedgerTypeOK'
  BY SpentInvIsInductive DEF QuotaInv, SpentInv, LedgerInv
<1>1. QuotaTypeOK /\ \A k \in Job : Envelope[k] \in Nat
  BY QuotaAssumption DEF QuotaInv
<1>2. now \in Tick /\ (now < MaxTime => now + 1 \in Tick)
  BY <1>1, QuotaAssumption DEF Tick, QuotaTypeOK
<1>3. CASE UNCHANGED quotaVars
  BY <1>0, <1>1, <1>3
     DEF quotaVars, providerVars, holdVars, QuotaTypeOK, Reading, Request, NoRequest
<1>4. CASE OthersUse \/ Advance
  BY <1>0, <1>1, <1>2, <1>4
     DEF OthersUse, Advance, providerVars, holdVars, QuotaTypeOK, Reading, Request
<1>5. CASE SignReading
  <2>1. PICK included \in [lane -> {{}, metered}] :
          signed' = signed \cup {[at |-> now, metered |-> metered, others |-> others,
                                  included |-> included]}
    BY <1>5 DEF SignReading
  <2>2. /\ metered \in SUBSET Job /\ others \in SUBSET Tick
        /\ included \in [lane -> SUBSET Job]
    BY <1>1 DEF QuotaTypeOK
  <2>3. [at |-> now, metered |-> metered, others |-> others, included |-> included]
          \in Reading
    BY <1>2, <2>2 DEF Reading
  <2>4. signed' \subseteq Reading
    BY <1>1, <2>1, <2>3 DEF QuotaTypeOK
  <2>5. UNCHANGED <<lane, now, providerVars, holdVars>>
    BY <1>5 DEF SignReading
  <2> QED
    BY <1>0, <1>1, <2>4, <2>5 DEF providerVars, holdVars, QuotaTypeOK, Reading, Request
<1>6. ASSUME NEW j \in Job, MeterCatchesUp(j) \/ Prepare(j) \/ Drop(j)
      PROVE  QuotaTypeOK'
  <2>1. CASE MeterCatchesUp(j)
    BY <1>0, <1>1, <2>1 DEF MeterCatchesUp, holdVars, QuotaTypeOK, Reading, Request
  <2>2. CASE Prepare(j)
    <3>1. PICK r \in signed :
            request' = [request EXCEPT ![j] = [reading |-> r, decided |-> now]]
      BY <2>2 DEF Prepare
    <3>2. [reading |-> r, decided |-> now] \in Request
      BY <1>1, <1>2, <3>1 DEF QuotaTypeOK, Request
    <3>3. UNCHANGED <<lane, now, providerVars, signed, hold, settledAt>>
      BY <2>2 DEF Prepare
    <3>4. request' \in [Job -> Request \cup {NoRequest}]
      BY <1>1, <3>1, <3>2 DEF QuotaTypeOK
    <3> QED
      BY <1>0, <1>1, <3>3, <3>4 DEF providerVars, QuotaTypeOK, Reading, Request
  <2>3. CASE Drop(j)
    BY <1>0, <1>1, <2>3 DEF Drop, providerVars, QuotaTypeOK, Reading, Request
  <2> QED
    BY <1>6, <2>1, <2>2, <2>3
<1>7. ASSUME NEW j \in Job, QuotaAuthorize(j) PROVE QuotaTypeOK'
  BY <1>0, <1>1, <1>7 DEF QuotaAuthorize, providerVars, QuotaTypeOK, Reading, Request
<1>8. ASSUME NEW j \in Job, QuotaLaunch(j) PROVE QuotaTypeOK'
  <2>1. PICK units \in 0 .. Envelope[j] : spent' = [spent EXCEPT ![j] = units]
    BY <1>8 DEF QuotaLaunch
  <2>2. spent' \in [Job -> Nat]
    BY <1>1, <2>1 DEF QuotaTypeOK
  <2> QED
    BY <1>0, <1>1, <1>8, <2>2 DEF QuotaLaunch, holdVars, QuotaTypeOK, Reading, Request
<1>9. ASSUME NEW j \in Job, Decision(j) PROVE QuotaTypeOK'
  <2>1. UNCHANGED <<lane, now, providerVars, signed, request, hold>>
    BY <1>9, DecisionMoves
  <2>2. settledAt' \in [Job -> Tick]
    BY <1>1, <1>9
       DEF Decision, QuotaSettle, QuotaRelease, QuotaUncertain, holdVars, QuotaTypeOK
  <2> QED
    BY <1>0, <1>1, <2>1, <2>2 DEF providerVars, QuotaTypeOK, Reading, Request
<1> QED
  BY <1>3, <1>4, <1>5, <1>6, <1>7, <1>8, <1>9, QuotaCases

(* Readings and requests stay in order through every step.                 *)
LEMMA ReadingsStep ==
  ASSUME QuotaInv, [QuotaNext]_quotaVars
  PROVE  /\ \A r \in signed' : r.at <= now'
         /\ ReadingsAreSeen' /\ ReadingsAreOrdered'
<1>1. /\ \A r \in signed : r.at <= now
      /\ ReadingsAreSeen /\ ReadingsAreOrdered /\ now \in Nat
      /\ \A r \in signed : r.at \in Nat
  BY QuotaAssumption DEF QuotaInv, QuotaTypeOK, Tick, Reading
<1>2. CASE signed' = signed /\ lane' = lane /\ metered \subseteq metered'
             /\ others \subseteq others' /\ now' \in Nat /\ now <= now'
  BY <1>1, <1>2 DEF ReadingsAreSeen, ReadingsAreOrdered
<1>3. CASE SignReading
  <2>1. PICK included \in [lane -> {{}, metered}] :
          signed' = signed \cup {[at |-> now, metered |-> metered, others |-> others,
                                  included |-> included]}
    BY <1>3 DEF SignReading
  <2> DEFINE new == [at |-> now, metered |-> metered, others |-> others,
                     included |-> included]
  <2>2. /\ new.at = now /\ new.metered = metered /\ new.others = others
        /\ \A q \in lane : new.included[q] \subseteq metered
    OBVIOUS
  <2>3. signed' = signed \cup {new}
    BY <2>1
  <2>4. UNCHANGED <<lane, now, others, metered>>
    BY <1>3 DEF SignReading, providerVars
  <2> HIDE DEF new
  <2>5. \A r \in signed' : r.at <= now'
    BY <1>1, <2>2, <2>3, <2>4
  <2>6. ReadingsAreSeen'
    BY <1>1, <2>2, <2>3, <2>4 DEF ReadingsAreSeen
  <2>7. \A r \in signed : Before(r, new)
    BY <1>1, <2>2 DEF ReadingsAreSeen, Before
  <2>8. Before(new, new)
    BY DEF Before
  <2>9. ReadingsAreOrdered'
    BY <1>1, <2>3, <2>7, <2>8 DEF ReadingsAreOrdered
  <2> QED
    BY <2>5, <2>6, <2>9
<1>4. \/ SignReading
      \/ signed' = signed /\ lane' = lane /\ metered \subseteq metered'
             /\ others \subseteq others' /\ now' \in Nat /\ now <= now'
  BY <1>1, DecisionMoves, QuotaCases
     DEF quotaVars, OthersUse, Advance, MeterCatchesUp, Prepare, Drop, QuotaAuthorize,
         QuotaLaunch, providerVars
<1> QED
  BY <1>2, <1>3, <1>4

(* A hold is placed from a request of a signed reading, and only a launch  *)
(* within its authority puts units on a job.                               *)
LEMMA RequestsStep ==
  ASSUME QuotaInv, [QuotaNext]_quotaVars
  PROVE  HoldsAreSigned' /\ MeterIsSpent'
<1>1. /\ QuotaTypeOK /\ HoldsAreSigned /\ MeterIsSpent
      /\ \A r \in signed : r.at <= now
  BY DEF QuotaInv
<1>2. /\ authorization \in [Job -> AuthorizationState]
      /\ reservation \in [Job -> ReservationState]
      /\ \A j \in Job : spent[j] > 0 =>
           authorization[j] \in {"launched", "settled", "uncertain"}
  BY DEF QuotaInv, SpentInv, SpentIsHeld, QuotaTypeOK, LedgerTypeOK
<1>3. CASE /\ UNCHANGED <<ledgerVars, hold, spent, launchedAt>> /\ signed \subseteq signed'
           /\ \A j \in Job : request'[j] # NoRequest => request'[j].reading \in signed'
           /\ \A j \in metered' : spent[j] > 0
  BY <1>1, <1>3 DEF ledgerVars, HoldsAreSigned, MeterIsSpent, Authorized
<1>4. CASE OthersUse \/ SignReading \/ Advance \/ UNCHANGED quotaVars
  BY <1>1, <1>3, <1>4
     DEF OthersUse, SignReading, Advance, quotaVars, providerVars, holdVars,
         HoldsAreSigned, MeterIsSpent
<1>5. ASSUME NEW j \in Job, MeterCatchesUp(j) \/ Prepare(j) \/ Drop(j)
      PROVE  HoldsAreSigned' /\ MeterIsSpent'
  <2>1. CASE MeterCatchesUp(j)
    BY <1>1, <1>3, <2>1 DEF MeterCatchesUp, holdVars, HoldsAreSigned, MeterIsSpent
  <2>2. CASE Prepare(j)
    <3>1. PICK r \in signed :
            request' = [request EXCEPT ![j] = [reading |-> r, decided |-> now]]
      BY <2>2 DEF Prepare
    <3>2. \A k \in Job : request'[k] # NoRequest => request'[k].reading \in signed
      BY <1>1, <3>1 DEF QuotaTypeOK, HoldsAreSigned
    <3> QED
      BY <1>1, <1>3, <2>2, <3>2 DEF Prepare, providerVars, MeterIsSpent
  <2>3. CASE Drop(j)
    <3>1. \A k \in Job : request'[k] # NoRequest => request'[k].reading \in signed
      BY <1>1, <2>3 DEF Drop, QuotaTypeOK, HoldsAreSigned
    <3> QED
      BY <1>1, <1>3, <2>3, <3>1 DEF Drop, providerVars, MeterIsSpent
  <2> QED
    BY <1>5, <2>1, <2>2, <2>3
<1>6. ASSUME NEW j \in Job, QuotaAuthorize(j)
      PROVE  HoldsAreSigned' /\ MeterIsSpent'
  <2>1. /\ authorization[j] = "none" /\ request[j] # NoRequest
        /\ authorization' = [authorization EXCEPT ![j] = "active"]
        /\ \A k \in Job \ {j} : reservation'[k] = reservation[k]
        /\ hold' = [hold EXCEPT ![j] = request[j]]
        /\ request' = [request EXCEPT ![j] = NoRequest]
        /\ UNCHANGED <<signed, spent, launchedAt, metered>>
    BY <1>2, <1>6
       DEF QuotaAuthorize, Authorize, SetAuthorization, SetReservation, providerVars
  <2>2. ~ (spent[j] > 0)
    BY <1>2, <2>1
  <2>3. /\ request \in [Job -> Request \cup {NoRequest}]
        /\ hold \in [Job -> Request \cup {NoRequest}]
    BY <1>1 DEF QuotaTypeOK
  <2>4. HoldsAreSigned'
    BY <1>1, <1>2, <2>1, <2>3 DEF HoldsAreSigned, Authorized
  <2>5. MeterIsSpent'
    BY <1>1, <2>1, <2>2, <2>3 DEF MeterIsSpent
  <2> QED
    BY <2>4, <2>5
<1>7. ASSUME NEW j \in Job, QuotaLaunch(j)
      PROVE  HoldsAreSigned' /\ MeterIsSpent'
  <2>1. /\ authorization[j] = "active"
        /\ authorization' = [authorization EXCEPT ![j] = "launched"]
        /\ UNCHANGED <<reservation, signed, hold, request, metered>>
        /\ launchedAt' = [launchedAt EXCEPT ![j] = now]
        /\ hold[j].reading.at <= now
        /\ \E units \in 0 .. Envelope[j] : spent' = [spent EXCEPT ![j] = units]
    BY <1>7 DEF QuotaLaunch, Launch, SetAuthorization, StillValid, Fresh, holdVars
  <2>2. ~ (spent[j] > 0) /\ j \notin metered
    BY <1>1, <1>2, <2>1 DEF MeterIsSpent
  <2>3. launchedAt \in [Job -> Tick] /\ spent \in [Job -> Nat]
    BY <1>1 DEF QuotaTypeOK
  <2>4. HoldsAreSigned'
    BY <1>1, <1>2, <2>1 DEF HoldsAreSigned, Authorized
  <2>5. MeterIsSpent'
    BY <1>1, <2>1, <2>2, <2>3 DEF MeterIsSpent, QuotaTypeOK
  <2> QED
    BY <2>4, <2>5
<1>8. ASSUME NEW j \in Job, Decision(j)
      PROVE  HoldsAreSigned' /\ MeterIsSpent'
  <2>1. /\ j \in Authorized
        /\ UNCHANGED <<signed, request, hold, spent, launchedAt, metered>>
        /\ \E state \in AuthorizationState \ {"none"} :
             authorization' = [authorization EXCEPT ![j] = state]
    BY <1>8, DecisionMoves DEF Authorized, providerVars
  <2>2. \A k \in Job \ {j} : reservation'[k] = reservation[k]
    BY <1>2, <1>8
       DEF Decision, QuotaSettle, QuotaRelease, QuotaUncertain, SettleReservation,
           SettleQuota, ReconcileNoCharge, ReleaseQuota, MarkReservationUncertain,
           ReconcileManualDebit, MarkQuotaUncertain, TransitionQuota, SetReservation
  <2>3. HoldsAreSigned'
    BY <1>1, <1>2, <2>1, <2>2 DEF HoldsAreSigned, Authorized
  <2> QED
    BY <1>1, <2>1, <2>3 DEF MeterIsSpent
<1> QED
  BY <1>4, <1>5, <1>6, <1>7, <1>8, QuotaCases

(* QuotaInv is inductive.                                                  *)
LEMMA QuotaNextInv == QuotaInv /\ [QuotaNext]_quotaVars => QuotaInv'
<1> SUFFICES ASSUME QuotaInv, [QuotaNext]_quotaVars PROVE QuotaInv'
  OBVIOUS
<1>1. SpentInv'
  BY SpentInvIsInductive DEF QuotaInv
<1> QED
  BY <1>1, QuotaTypeStep, ReadingsStep, RequestsStep DEF QuotaInv

(* Hence it holds in every state.                                          *)
LEMMA QuotaInvariant == QuotaSpec => []QuotaInv
  BY QuotaInitInv, QuotaNextInv, PTL DEF QuotaSpec

(* Whatever is signed, asked for, launched and settled, the ledger's rows, *)
(* readings, requests and holds stay in their domains.                     *)
THEOREM QuotaTypeCorrect == QuotaSpec => []QuotaTypeOK
<1>1. QuotaInv => QuotaTypeOK
  BY DEF QuotaInv
<1> QED
  BY <1>1, QuotaInvariant, PTL

-----------------------------------------------------------------------------
(* Windows                                                                 *)

(* The cycle a tick lies in begins at or before it and ends after it, and  *)
(* no other cycle holds the tick.                                          *)
LEMMA Cycle ==
  ASSUME NEW t \in Nat, NEW n \in Nat \ {0}
  PROVE  /\ t \div n \in Nat /\ (t \div n) * n \in Nat
         /\ (t \div n) * n <= t /\ t <= (t \div n) * n + n - 1
  OBVIOUS

(* A tick lies in one cycle only.                                          *)
LEMMA CycleIsOne ==
  ASSUME NEW c \in Nat, NEW d \in Nat, NEW n \in Nat \ {0}, NEW x \in Nat,
         c * n <= x, x <= c * n + n - 1, d * n <= x, x <= d * n + n - 1
  PROVE  c = d
<1>1. ASSUME NEW a \in Nat, NEW b \in Nat, a < b, b * n <= x, x <= a * n + n - 1
      PROVE  FALSE
  <2>1. (a + 1) * n <= b * n
    BY <1>1
  <2>2. (a + 1) * n = a * n + n
    OBVIOUS
  <2> QED
    BY <1>1, <2>1, <2>2
<1> QED
  BY <1>1

(* A window holds the tick it is named by.                                 *)
LEMMA WindowHolds ==
  ASSUME NEW q \in Quota, NEW t \in Nat
  PROVE  t \in Window(q, t) /\ Window(q, t) \subseteq Int
<1>1. Length[q] \in Nat \ {0}
  BY QuotaAssumption
<1>2. CASE q \in Rolling
  BY <1>1, <1>2 DEF Window
<1>3. CASE q \notin Rolling
  <2> DEFINE start == (t \div Length[q]) * Length[q]
  <2>1. start \in Nat /\ start <= t /\ t <= start + Length[q] - 1
    BY <1>1, Cycle
  <2>2. Window(q, t) = start .. (start + Length[q] - 1)
    BY <1>3 DEF Window
  <2> HIDE DEF start
  <2> QED
    BY <1>1, <2>1, <2>2
<1> QED
  BY <1>2, <1>3

(* Cycles do not overlap: each tick has one.                               *)
LEMMA CyclesPart ==
  ASSUME NEW q \in Quota \ Rolling, NEW s \in Nat, NEW t \in Nat, NEW x \in Nat,
         x \in Window(q, s), x \in Window(q, t)
  PROVE  Window(q, s) = Window(q, t)
<1>1. Length[q] \in Nat \ {0}
  BY QuotaAssumption
<1> DEFINE c == s \div Length[q]
           d == t \div Length[q]
<1>2. c \in Nat /\ d \in Nat
  BY <1>1, Cycle
<1>3. /\ Window(q, s) = (c * Length[q]) .. (c * Length[q] + Length[q] - 1)
      /\ Window(q, t) = (d * Length[q]) .. (d * Length[q] + Length[q] - 1)
  <2>1. q \notin Rolling
    OBVIOUS
  <2> QED
    BY <2>1, Zenon DEF Window
<1> HIDE DEF c, d
<1>4. /\ c * Length[q] <= x /\ x <= c * Length[q] + Length[q] - 1
      /\ d * Length[q] <= x /\ x <= d * Length[q] + Length[q] - 1
  BY <1>1, <1>2, <1>3
<1>5. c = d
  BY <1>1, <1>2, <1>4, CycleIsOne
<1> QED
  BY <1>3, <1>5

(* A job that launches in the window of its reading, no earlier than the   *)
(* reading was taken, lies in exactly the windows that hold the reading.   *)
LEMMA LaunchesWithItsReading ==
  ASSUME NEW q \in Quota, NEW a \in Nat, NEW x \in Nat, a <= x, x \in Window(q, a),
         NEW t \in Nat
  PROVE  x \in Window(q, t) <=> a \in Window(q, t)
<1>1. CASE q \in Rolling
  <2>1. x = a
    BY <1>1, QuotaAssumption DEF Window
  <2> QED
    BY <2>1
<1>2. CASE q \notin Rolling
  BY <1>2, CyclesPart, WindowHolds
<1> QED
  BY <1>1, <1>2

(* What lies in a window together with a later tick lies in the window     *)
(* that this tick names.                                                   *)
LEMMA EarlierIsNear ==
  ASSUME NEW q \in Quota, NEW a \in Nat, NEW b \in Nat, b <= a, NEW t \in Nat,
         a \in Window(q, t), b \in Window(q, t)
  PROVE  b \in Window(q, a) /\ Overlap(Window(q, b), Window(q, a))
<1>1. b \in Window(q, a)
  <2>1. CASE q \in Rolling
    BY <2>1, QuotaAssumption DEF Window
  <2>2. CASE q \notin Rolling
    BY <2>2, CyclesPart, WindowHolds
  <2> QED
    BY <2>1, <2>2
<1> QED
  BY <1>1, WindowHolds DEF Overlap

(* A window that an earlier reading names and that holds a later one is    *)
(* the one that the later reading names.                                   *)
LEMMA SameWindow ==
  ASSUME NEW q \in Quota, NEW a \in Nat, NEW b \in Nat, b <= a, a \in Window(q, b)
  PROVE  Window(q, b) = Window(q, a)
<1>1. CASE q \in Rolling
  <2>1. a = b
    BY <1>1, QuotaAssumption DEF Window
  <2> QED
    BY <2>1
<1>2. CASE q \notin Rolling
  BY <1>2, CyclesPart, WindowHolds
<1> QED
  BY <1>1, <1>2

-----------------------------------------------------------------------------
(* What was accepted stays covered                                         *)

(* What the meter shows of a job does not change any more.                 *)
LEMMA MeteredStays ==
  ASSUME QuotaInv, [QuotaNext]_quotaVars, NEW j \in metered
  PROVE  spent'[j] = spent[j] /\ launchedAt'[j] = launchedAt[j]
<1>1. /\ j \in Job /\ spent[j] > 0
      /\ authorization[j] \in {"launched", "settled", "uncertain"}
      /\ spent \in [Job -> Nat] /\ launchedAt \in [Job -> Tick]
  BY DEF QuotaInv, QuotaTypeOK, MeterIsSpent, SpentInv, SpentIsHeld
<1>2. ASSUME NEW i \in Job, QuotaLaunch(i)
      PROVE  spent'[j] = spent[j] /\ launchedAt'[j] = launchedAt[j]
  BY <1>1, <1>2 DEF QuotaLaunch, Launch
<1> QED
  BY <1>2, DecisionMoves, QuotaCases
     DEF quotaVars, providerVars, OthersUse, SignReading, Advance, MeterCatchesUp, Prepare,
         Drop, QuotaAuthorize

(* What is settled stays settled, as of the time it was settled at.        *)
LEMMA SettledStays ==
  ASSUME QuotaInv, [QuotaNext]_quotaVars, NEW j \in Job, authorization[j] = "settled"
  PROVE  /\ authorization'[j] = "settled" /\ settledAt'[j] = settledAt[j]
         /\ hold'[j] = hold[j]
<1>1. /\ authorization \in [Job -> AuthorizationState] /\ settledAt \in [Job -> Tick]
      /\ hold \in [Job -> Request \cup {NoRequest}]
  BY DEF QuotaInv, QuotaTypeOK, LedgerTypeOK
<1>2. ASSUME NEW i \in Job, QuotaAuthorize(i) \/ QuotaLaunch(i)
      PROVE  /\ authorization'[j] = "settled" /\ settledAt'[j] = settledAt[j]
             /\ hold'[j] = hold[j]
  BY <1>1, <1>2
     DEF QuotaAuthorize, QuotaLaunch, Authorize, Launch, SetAuthorization, holdVars
<1>3. ASSUME NEW i \in Job, Decision(i)
      PROVE  /\ authorization'[j] = "settled" /\ settledAt'[j] = settledAt[j]
             /\ hold'[j] = hold[j]
  <2>1. authorization'[j] = "settled" /\ hold'[j] = hold[j]
    BY <1>1, <1>3, DecisionMoves DEF OpenState
  <2>2. settledAt'[j] = settledAt[j]
    <3>1. CASE QuotaSettle(i)
      <4>1. authorization[i] # "settled"
        <5>1. authorization[i] = "settled" => ~ SettleQuota(i) /\ ~ SettleReservation(i)
          BY DEF SettleReservation, SettleQuota, TransitionQuota, OpenState
        <5> QED
          BY <3>1, <5>1 DEF QuotaSettle
      <4> QED
        BY <1>1, <3>1, <4>1 DEF QuotaSettle
    <3>2. CASE QuotaRelease(i) \/ QuotaUncertain(i)
      BY <3>2 DEF QuotaRelease, QuotaUncertain, holdVars
    <3> QED
      BY <1>3, <3>1, <3>2 DEF Decision
  <2> QED
    BY <2>1, <2>2
<1> QED
  BY <1>2, <1>3, QuotaCases
     DEF quotaVars, ledgerVars, holdVars, OthersUse, SignReading, Advance, MeterCatchesUp,
         Prepare, Drop

(* The sums of units, as sums of the function spent.                       *)
Billed(w, jobs) == {j \in jobs : launchedAt[j] \in w}

(* What jobs spent in a window, as a sum of a function.                    *)
LEMMA SpentInIsSum == \A w, jobs : SpentIn(w, jobs) = SumOf(spent, Billed(w, jobs))
  BY Zenon DEF SpentIn, Billed, SumOf

(* Covers in the same terms, of states of the ledger and the provider.     *)
CoversIn(q, r, states, since, holds, units, launches) ==
  /\ \A j \in r.included[q] :
       /\ states[j] = "settled"
       /\ since[j] <= r.at
       /\ Overlap(Window(q, holds[j].reading.at), Window(q, r.at))
  /\ SumOf(units, r.included[q])
       <= SumOf(units, {j \in r.metered : launches[j] \in Window(q, r.at)})
            + Cardinality(r.others \cap Window(q, r.at))

CoversSum(q, r) ==
  CoversIn(q, r, authorization, settledAt, hold, spent, launchedAt)

(* Whether a reading is still covered, with those sums.                    *)
LEMMA CoversIsSum == \A q, r : Covers(q, r) <=> CoversSum(q, r)
<1> TAKE q, r
<1>1. MapThenSumSet(LAMBDA j : spent[j], r.included[q]) = SumOf(spent, r.included[q])
  BY Zenon DEF SumOf
<1>2. Used(q, r) = SumOf(spent, Billed(Window(q, r.at), r.metered))
                     + Cardinality(r.others \cap Window(q, r.at))
  BY SpentInIsSum DEF Used
<1> QED
  BY <1>1, <1>2, Zenon DEF Covers, CoversSum, CoversIn, HoldWindow, Billed

CoversNext(q, r) ==
  CoversIn(q, r, authorization', settledAt', hold', spent', launchedAt')

(* A reading that a settled set of jobs covers stays covered: their units, *)
(* and all that is on its meter, are settled for good.                     *)
LEMMA CoveredStays ==
  ASSUME QuotaInv, [QuotaNext]_quotaVars, NEW r \in signed, NEW q \in lane, CoversSum(q, r)
  PROVE  CoversNext(q, r)
<1>1. /\ r.included[q] \subseteq r.metered /\ r.metered \subseteq metered
      /\ metered \subseteq Job /\ spent \in [Job -> Nat]
  BY DEF QuotaInv, QuotaTypeOK, ReadingsAreSeen
<1>2. \A j \in r.metered : spent'[j] = spent[j] /\ launchedAt'[j] = launchedAt[j]
  BY <1>1, MeteredStays
<1> DEFINE billed == {j \in r.metered : launchedAt[j] \in Window(q, r.at)}
<1>3. /\ {j \in r.metered : launchedAt'[j] \in Window(q, r.at)} = billed
      /\ billed \subseteq r.metered
  BY <1>2
<1>4. /\ r.included[q] \subseteq Job /\ billed \subseteq Job
      /\ IsFiniteSet(r.included[q]) /\ IsFiniteSet(billed)
  <2>1. r.included[q] \subseteq Job /\ billed \subseteq Job
    BY <1>1, <1>3
  <2> QED
    BY <2>1, FS_Subset, QuotaAssumption
<1> HIDE DEF billed
<1>5. SumOf(spent', r.included[q]) = SumOf(spent, r.included[q])
  <2>1. \A x \in r.included[q] : spent[x] \in Int /\ spent'[x] = spent[x]
    BY <1>1, <1>2
  <2> QED
    BY <1>4, <2>1, SumSame
<1>6. SumOf(spent', billed) = SumOf(spent, billed)
  <2>1. \A x \in billed : spent[x] \in Int /\ spent'[x] = spent[x]
    BY <1>1, <1>2, <1>3
  <2> QED
    BY <1>4, <2>1, SumSame
<1>7. ASSUME NEW j \in r.included[q]
      PROVE  /\ authorization'[j] = "settled" /\ settledAt'[j] <= r.at
             /\ Overlap(Window(q, hold'[j].reading.at), Window(q, r.at))
  <2>1. /\ j \in Job /\ authorization[j] = "settled" /\ settledAt[j] <= r.at
        /\ Overlap(Window(q, hold[j].reading.at), Window(q, r.at))
    BY <1>1 DEF CoversSum, CoversIn
  <2> QED
    BY <2>1, SettledStays
<1>8. SumOf(spent, r.included[q])
        <= SumOf(spent, billed) + Cardinality(r.others \cap Window(q, r.at))
  BY DEF CoversSum, CoversIn, billed
<1> QED
  BY <1>3, <1>5, <1>6, <1>7, <1>8 DEF CoversNext, CoversIn

Covered == \A j \in Authorized, q \in lane : CoversSum(q, hold[j].reading)

(* Readings of the holds stay covered: those held before by the lemma      *)
(* above, a new one because its admission looked at it.                    *)
LEMMA CoveredStep ==
  QuotaInv /\ Covered /\ [QuotaNext]_quotaVars => Covered'
<1> SUFFICES ASSUME QuotaInv, Covered, [QuotaNext]_quotaVars,
                    NEW j \in Authorized', NEW q \in lane'
             PROVE  CoversNext(q, hold'[j].reading)
  BY DEF Covered, CoversSum, CoversNext
<1>1. lane' = lane
  BY DecisionMoves, QuotaCases
     DEF quotaVars, providerVars, OthersUse, SignReading, Advance, MeterCatchesUp, Prepare,
         Drop, QuotaAuthorize, QuotaLaunch
<1>2. CASE j \in Authorized /\ hold'[j] = hold[j]
  <2>1. hold[j].reading \in signed /\ CoversSum(q, hold[j].reading)
    BY <1>1, <1>2 DEF QuotaInv, HoldsAreSigned, Covered
  <2>2. CoversNext(q, hold[j].reading)
    BY <1>1, <2>1, CoveredStays
  <2> QED
    BY <1>2, <2>2
<1>3. CASE QuotaAuthorize(j)
  <2>1. /\ request[j].reading \in signed /\ Covers(q, request[j].reading)
        /\ hold'[j] = request[j]
    BY <1>1, <1>3
       DEF QuotaAuthorize, QuotaInv, HoldsAreSigned, QuotaTypeOK, Authorized
  <2>2. CoversSum(q, request[j].reading)
    BY <2>1, CoversIsSum
  <2>3. CoversNext(q, request[j].reading)
    BY <1>1, <2>1, <2>2, CoveredStays
  <2> QED
    BY <2>1, <2>3
<1>4. QuotaAuthorize(j) \/ (j \in Authorized /\ hold'[j] = hold[j])
  <2>1. /\ j \in Job /\ authorization'[j] # "none"
        /\ authorization \in [Job -> AuthorizationState]
        /\ hold \in [Job -> Request \cup {NoRequest}]
    BY DEF Authorized, QuotaInv, QuotaTypeOK, LedgerTypeOK
  <2>2. ASSUME NEW i \in Job, QuotaAuthorize(i) \/ QuotaLaunch(i)
        PROVE  QuotaAuthorize(j) \/ (j \in Authorized /\ hold'[j] = hold[j])
    BY <2>1, <2>2
       DEF QuotaAuthorize, QuotaLaunch, Authorize, Launch, SetAuthorization, Authorized,
           holdVars
  <2>3. ASSUME NEW i \in Job, Decision(i)
        PROVE  j \in Authorized /\ hold'[j] = hold[j]
    BY <2>1, <2>3, DecisionMoves DEF Authorized
  <2> QED
    BY <2>1, <2>2, <2>3, QuotaCases
       DEF Authorized, quotaVars, ledgerVars, holdVars, OthersUse, SignReading, Advance,
           MeterCatchesUp, Prepare, Drop
<1> QED
  BY <1>2, <1>3, <1>4

(* No reading the ledger accepted loses what it was signed to include,     *)
(* whatever is launched, settled, given back or admitted later: the check  *)
(* on opening never refuses the ledger for it.                             *)
THEOREM ReadingsStayCoveredCorrect == QuotaSpec => []ReadingsStayCovered
<1>1. QuotaInit => Covered
  BY DEF QuotaInit, LedgerInit, Covered, Authorized
<1>2. Covered => ReadingsStayCovered
  BY CoversIsSum DEF Covered, ReadingsStayCovered
<1> QED
  BY <1>1, <1>2, CoveredStep, QuotaInvariant, PTL DEF QuotaSpec

-----------------------------------------------------------------------------
(* No window is overcommitted                                              *)

(* What a job may still cost a window, the jobs whose readings lie in it,  *)
(* and the use by others that those readings saw.                          *)
ChargeOf(states, units) ==
  [j \in Job |-> IF states[j] \in {"active", "launched", "uncertain"} THEN Envelope[j]
                 ELSE IF states[j] = "settled" THEN units[j] ELSE 0]
HeldIn(w, states, holds) ==
  {j \in Job : states[j] # "none" /\ holds[j].reading.at \in w}
SeenIn(q, w, states, holds) ==
  {Cardinality(holds[j].reading.others \cap w) :
     j \in {k \in Job : states[k] # "none" /\ Window(q, holds[k].reading.at) = w}}

KeptIn(q, w, states, holds, units) ==
  \A seen \in SeenIn(q, w, states, holds) \cup {0} :
    SumOf(ChargeOf(states, units), HeldIn(w, states, holds)) + seen <= Limit[q]

WindowsAreKept ==
  \A q \in lane, t \in Tick : KeptIn(q, Window(q, t), authorization, hold, spent)

(* Charges are numbers within the envelope, no less than what was spent.   *)
LEMMA ChargeType ==
  ASSUME QuotaInv, NEW j \in Job
  PROVE  /\ Envelope[j] \in Nat /\ spent[j] \in Nat
         /\ ChargeOf(authorization, spent)[j] \in Nat
         /\ spent[j] <= ChargeOf(authorization, spent)[j] \/ spent[j] = 0
         /\ ChargeOf(authorization, spent)[j] <= Envelope[j]
<1>1. Envelope[j] \in Nat /\ spent[j] \in Nat
  BY QuotaAssumption DEF QuotaInv, QuotaTypeOK
<1>2. spent[j] > 0 =>
        authorization[j] \in {"launched", "settled", "uncertain"} /\ spent[j] <= Envelope[j]
  BY DEF QuotaInv, SpentInv, SpentIsHeld
<1> QED
  BY <1>1, <1>2 DEF ChargeOf

(* The times at which others used the account are finitely many.           *)
LEMMA SeenType ==
  ASSUME QuotaInv, NEW r \in signed, NEW w
  PROVE  IsFiniteSet(r.others \cap w) /\ Cardinality(r.others \cap w) \in Nat
<1>1. r.others \subseteq Tick /\ IsFiniteSet(Tick)
  BY QuotaAssumption, FS_Interval DEF QuotaInv, QuotaTypeOK, Reading, Tick
<1> QED
  BY <1>1, FS_Subset, FS_CardinalityType

(* A step that admits nothing and raises no charge keeps the windows.      *)
LEMMA LessIsKept ==
  ASSUME QuotaInv, WindowsAreKept, QuotaInv',
         UNCHANGED <<lane, hold>>, Authorized' = Authorized,
         \A j \in Job : ChargeOf(authorization', spent')[j]
                          <= ChargeOf(authorization, spent)[j]
  PROVE  WindowsAreKept'
<1> SUFFICES ASSUME NEW q \in lane, NEW t \in Tick
             PROVE  KeptIn(q, Window(q, t), authorization', hold, spent')
  BY DEF WindowsAreKept
<1> DEFINE w == Window(q, t)
           jobs == HeldIn(w, authorization, hold)
           old == ChargeOf(authorization, spent)
           new == ChargeOf(authorization', spent')
<1>1. /\ HeldIn(w, authorization', hold) = jobs
      /\ SeenIn(q, w, authorization', hold) = SeenIn(q, w, authorization, hold)
  BY DEF HeldIn, SeenIn, Authorized
<1>2. jobs \subseteq Job /\ IsFiniteSet(jobs)
  BY FS_Subset, QuotaAssumption DEF HeldIn
<1>3. \A j \in jobs : old[j] \in Int /\ new[j] \in Int /\ new[j] <= old[j]
  <2> SUFFICES ASSUME NEW j \in jobs
               PROVE  old[j] \in Int /\ new[j] \in Int /\ new[j] <= old[j]
    OBVIOUS
  <2>1. j \in Job
    BY <1>2
  <2>2. old[j] \in Nat
    BY <2>1, ChargeType
  <2>3. new[j] \in Nat
    BY <2>1, QuotaAssumption DEF QuotaInv, QuotaTypeOK, ChargeOf
  <2> QED
    BY <2>1, <2>2, <2>3
<1>4. \A seen \in SeenIn(q, w, authorization, hold) \cup {0} : seen \in Int
  <2>1. \A k \in Authorized : Cardinality(hold[k].reading.others \cap w) \in Nat
    BY SeenType DEF QuotaInv, HoldsAreSigned
  <2>2. SeenIn(q, w, authorization, hold) \subseteq
          {Cardinality(hold[k].reading.others \cap w) : k \in Authorized}
    BY DEF SeenIn, Authorized
  <2> DEFINE usedBy(k) == Cardinality(hold[k].reading.others \cap w)
  <2>3. /\ \A k \in Authorized : usedBy(k) \in Nat
        /\ SeenIn(q, w, authorization, hold) \subseteq {usedBy(k) : k \in Authorized}
    BY <2>1, <2>2
  <2> HIDE DEF usedBy, w
  <2> QED
    BY <2>3
<1> HIDE DEF jobs, old, new
<1>5. SumOf(new, jobs) <= SumOf(old, jobs)
  BY <1>2, <1>3, SumBelow
<1>6. SumOf(new, jobs) \in Int /\ SumOf(old, jobs) \in Int
  BY <1>2, <1>3, SumType
<1>7. \A seen \in SeenIn(q, w, authorization, hold) \cup {0} :
        SumOf(old, jobs) + seen <= Limit[q]
  BY DEF WindowsAreKept, KeptIn, jobs, old
<1>8. Limit[q] \in Int
  BY QuotaAssumption DEF QuotaInv, QuotaTypeOK
<1> QED
  BY <1>1, <1>4, <1>5, <1>6, <1>7, <1>8 DEF KeptIn, jobs, old, new

-----------------------------------------------------------------------------
(* An admission.  The charges of the jobs that share a window with the new *)
(* one are among the units that its reading shows or may lack.             *)
OpenNear(q, r) ==
  {j \in Authorized : /\ Overlap(HoldWindow(q, j), Window(q, r.at))
                      /\ authorization[j] \in {"active", "launched", "uncertain"}}
SettledNear(q, r) ==
  {j \in Authorized \ r.included[q] :
     Overlap(HoldWindow(q, j), Window(q, r.at)) /\ authorization[j] = "settled"}

(* Fits, with the sums of functions.                                       *)
LEMMA FitsIsSum ==
  ASSUME NEW j, NEW q, NEW r, Fits(j, q, r)
  PROVE  SumOf(spent, Billed(Window(q, r.at), r.metered))
           + Cardinality(r.others \cap Window(q, r.at))
           + (SumOf(Envelope, OpenNear(q, r)) + SumOf(spent, SettledNear(q, r)))
           + Envelope[j] <= Limit[q]
<1> DEFINE near == {k \in Authorized : Overlap(HoldWindow(q, k), Window(q, r.at))}
           open == {k \in near : authorization[k] \in {"active", "launched", "uncertain"}}
           settled == {k \in near \ r.included[q] : authorization[k] = "settled"}
<1>1. open = OpenNear(q, r) /\ settled = SettledNear(q, r)
  BY DEF OpenNear, SettledNear
<1>2. Outstanding(q, r) = SumOf(Envelope, open) + SumOf(spent, settled)
  BY Zenon DEF Outstanding, SumOf
<1>3. Used(q, r) = SumOf(spent, Billed(Window(q, r.at), r.metered))
                     + Cardinality(r.others \cap Window(q, r.at))
  BY SpentInIsSum DEF Used
<1> QED
  BY <1>1, <1>2, <1>3, Zenon DEF Fits

(* What the jobs of a window may cost is counted by any later reading of it*)
(* that covers what it includes: open and uncertain holds and settled ones *)
(* it may lack as outstanding, the rest on its meter.                      *)
LEMMA ChargesAreCounted ==
  ASSUME QuotaInv, NEW q \in lane, NEW r \in signed, Covers(q, r),
         NEW t \in Tick, r.at \in Window(q, t),
         \A k \in Authorized : hold[k].reading.at <= r.at
  PROVE  SumOf(ChargeOf(authorization, spent), HeldIn(Window(q, t), authorization, hold))
           <= SumOf(spent, Billed(Window(q, r.at), r.metered))
                + (SumOf(Envelope, OpenNear(q, r)) + SumOf(spent, SettledNear(q, r)))
<1> DEFINE charge == ChargeOf(authorization, spent)
           jobs == HeldIn(Window(q, t), authorization, hold)
           A == {k \in jobs : authorization[k] \in {"active", "launched", "uncertain"}}
           B == {k \in jobs : authorization[k] = "settled" /\ k \notin r.included[q]}
           C == {k \in jobs : authorization[k] = "settled" /\ k \in r.included[q]}
           rest == jobs \ A
           rest2 == rest \ B
           D == rest2 \ C
           X == OpenNear(q, r)
           Y == SettledNear(q, r)
           Z == Billed(Window(q, r.at), r.metered)
<1>1. /\ q \in Quota /\ t \in Nat /\ r.at \in Nat
      /\ r.included[q] \subseteq r.metered /\ r.metered \subseteq metered
      /\ metered \subseteq Job
  BY QuotaAssumption DEF QuotaInv, QuotaTypeOK, ReadingsAreSeen, Tick, Reading
<1>2. ASSUME NEW k \in jobs
      PROVE  /\ k \in Authorized /\ hold[k].reading.at \in Nat
             /\ hold[k].reading.at <= r.at
             /\ hold[k].reading.at \in Window(q, r.at)
             /\ Overlap(HoldWindow(q, k), Window(q, r.at))
  <2>1. k \in Authorized /\ hold[k].reading.at \in Window(q, t)
    BY DEF HeldIn, Authorized
  <2>2. hold[k].reading \in signed /\ hold[k].reading.at <= r.at
    BY <2>1 DEF QuotaInv, HoldsAreSigned
  <2>3. hold[k].reading.at \in Nat
    BY <2>2, QuotaAssumption DEF QuotaInv, QuotaTypeOK, Reading, Tick
  <2> QED
    BY <1>1, <2>1, <2>2, <2>3, EarlierIsNear DEF HoldWindow
<1>3. A \subseteq X /\ B \subseteq Y
  BY <1>2 DEF OpenNear, SettledNear
<1>4. C \subseteq Z
  <2> SUFFICES ASSUME NEW k \in C PROVE k \in Z
    OBVIOUS
  <2>1. /\ k \in r.metered /\ k \in Job /\ spent[k] > 0
        /\ launchedAt[k] \in Nat /\ hold[k].reading.at <= launchedAt[k]
    BY <1>1, QuotaAssumption DEF QuotaInv, MeterIsSpent, QuotaTypeOK, Tick
  <2>2. launchedAt[k] \in Window(q, hold[k].reading.at)
    BY <2>1 DEF QuotaInv, SpentInv, SpentIsHeld, HoldWindow
  <2>3. launchedAt[k] \in Window(q, r.at)
    BY <1>1, <1>2, <2>1, <2>2, LaunchesWithItsReading
  <2> QED
    BY <2>1, <2>3 DEF Billed
<1>5. /\ jobs \subseteq Job /\ X \subseteq Job /\ Y \subseteq Job /\ Z \subseteq Job
      /\ \A U \in SUBSET Job : IsFiniteSet(U)
  BY <1>1, FS_Subset, QuotaAssumption
     DEF HeldIn, OpenNear, SettledNear, Billed, Authorized
<1>6. \A k \in Job : charge[k] \in Nat /\ spent[k] \in Nat /\ Envelope[k] \in Nat
  BY ChargeType
<1>7. /\ \A k \in A : charge[k] = Envelope[k]
      /\ \A k \in B \cup C : charge[k] = spent[k]
      /\ \A k \in D : charge[k] = 0
  <2>1. \A k \in jobs : k \in Job /\ authorization[k] # "none"
    BY DEF HeldIn
  <2> HIDE DEF jobs
  <2>2. \A k \in A : charge[k] = Envelope[k]
    BY <2>1 DEF ChargeOf
  <2>3. \A k \in B \cup C : charge[k] = spent[k]
    BY <2>1 DEF ChargeOf
  <2>4. \A k \in D : charge[k] = 0
    BY <2>1 DEF ChargeOf
  <2> QED
    BY <2>2, <2>3, <2>4
<1>8. /\ A \subseteq jobs /\ B \subseteq rest /\ C \subseteq rest2
      /\ rest \subseteq jobs /\ rest2 \subseteq jobs /\ D \subseteq jobs
  OBVIOUS
<1> HIDE DEF charge, jobs, A, B, C, D, X, Y, Z, rest2, rest
<1>9. \A V \in SUBSET jobs : \A U \in SUBSET V :
        SumOf(charge, V) = SumOf(charge, U) + SumOf(charge, V \ U)
  <2> SUFFICES ASSUME NEW V \in SUBSET jobs, NEW U \in SUBSET V
               PROVE  SumOf(charge, V) = SumOf(charge, U) + SumOf(charge, V \ U)
    OBVIOUS
  <2>1. IsFiniteSet(V) /\ \A k \in V : charge[k] \in Int
    BY <1>5, <1>6
  <2> QED
    BY <2>1, SumSplit
<1>10. /\ SumOf(charge, jobs) = SumOf(charge, A) + SumOf(charge, rest)
       /\ SumOf(charge, rest) = SumOf(charge, B) + SumOf(charge, rest2)
  BY <1>8, <1>9 DEF rest, rest2
<1>11. SumOf(charge, rest2) = SumOf(charge, C) + SumOf(charge, D)
  BY <1>8, <1>9 DEF D
<1>12. /\ A \subseteq Job /\ B \subseteq Job /\ C \subseteq Job /\ D \subseteq Job
  BY <1>5, <1>8
<1>13. SumOf(charge, A) <= SumOf(Envelope, X)
  <2>1. SumOf(Envelope, A) = SumOf(charge, A)
    BY <1>5, <1>6, <1>7, <1>12, SumSame
  <2>2. SumOf(Envelope, A) <= SumOf(Envelope, X)
    BY <1>3, <1>5, <1>6, SumPart
  <2> QED
    BY <2>1, <2>2
<1>14. SumOf(charge, B) <= SumOf(spent, Y)
  <2>1. SumOf(spent, B) = SumOf(charge, B)
    BY <1>5, <1>6, <1>7, <1>12, SumSame
  <2>2. SumOf(spent, B) <= SumOf(spent, Y)
    BY <1>3, <1>5, <1>6, SumPart
  <2> QED
    BY <2>1, <2>2
<1>15. SumOf(charge, C) <= SumOf(spent, Z)
  <2>1. SumOf(spent, C) = SumOf(charge, C)
    BY <1>5, <1>6, <1>7, <1>12, SumSame
  <2>2. SumOf(spent, C) <= SumOf(spent, Z)
    BY <1>4, <1>5, <1>6, SumPart
  <2> QED
    BY <2>1, <2>2
<1>16. SumOf(charge, D) = 0
  BY <1>5, <1>7, <1>12, SumZero
<1>17. /\ \A U \in SUBSET Job : SumOf(charge, U) \in Int
       /\ SumOf(Envelope, X) \in Int /\ SumOf(spent, Y) \in Int /\ SumOf(spent, Z) \in Int
  <2>1. ASSUME NEW U \in SUBSET Job
        PROVE  /\ SumOf(charge, U) \in Int /\ SumOf(spent, U) \in Int
               /\ SumOf(Envelope, U) \in Int
    <3>1. /\ IsFiniteSet(U) /\ \A k \in U : charge[k] \in Int
          /\ \A k \in U : spent[k] \in Int /\ Envelope[k] \in Int
      BY <1>5, <1>6
    <3> QED
      BY <3>1, SumType
  <2> QED
    BY <1>5, <2>1
<1>18. /\ SumOf(charge, A) \in Int /\ SumOf(charge, B) \in Int /\ SumOf(charge, C) \in Int
       /\ SumOf(charge, D) \in Int /\ SumOf(charge, rest) \in Int
       /\ SumOf(charge, rest2) \in Int
  BY <1>5, <1>8, <1>12, <1>17
<1> QED
  BY <1>10, <1>11, <1>13, <1>14, <1>15, <1>16, <1>17, <1>18
     DEF charge, jobs, X, Y, Z

(* Of two readings of one window, the one that shows no less use saw no    *)
(* less use by others.                                                     *)
LEMMA LaterSeesMore ==
  ASSUME QuotaInv, NEW q \in lane, NEW s \in signed, NEW r \in signed,
         Window(q, s.at) = Window(q, r.at), Used(q, s) <= Used(q, r)
  PROVE  Cardinality(s.others \cap Window(q, r.at))
           <= Cardinality(r.others \cap Window(q, r.at))
<1> DEFINE w == Window(q, r.at)
           billed(x) == SumOf(spent, Billed(w, x.metered))
           seen(x) == Cardinality(x.others \cap w)
<1>1. Used(q, s) = billed(s) + seen(s) /\ Used(q, r) = billed(r) + seen(r)
  BY SpentInIsSum DEF Used
<1>2. /\ IsFiniteSet(s.others \cap w) /\ IsFiniteSet(r.others \cap w)
      /\ seen(s) \in Nat /\ seen(r) \in Nat
  BY SeenType
<1>3. CASE Before(s, r)
  <2>1. s.others \cap w \subseteq r.others \cap w
    BY <1>3 DEF Before
  <2> QED
    BY <1>2, <2>1, FS_Subset
<1>4. CASE Before(r, s)
  <2>1. /\ Billed(w, r.metered) \subseteq Billed(w, s.metered)
        /\ Billed(w, s.metered) \subseteq Job
    BY <1>4 DEF Before, Billed, QuotaInv, QuotaTypeOK, ReadingsAreSeen
  <2>2. /\ IsFiniteSet(Billed(w, s.metered)) /\ IsFiniteSet(Billed(w, r.metered))
        /\ \A k \in Billed(w, s.metered) : spent[k] \in Nat
    BY <2>1, FS_Subset, QuotaAssumption, ChargeType
  <2>3. billed(r) <= billed(s)
    BY <2>1, <2>2, SumPart
  <2>4. billed(r) \in Nat /\ billed(s) \in Nat
    BY <2>1, <2>2, SumNat
  <2> HIDE DEF billed, seen
  <2>5. seen(s) <= seen(r)
    BY <1>1, <1>2, <2>3, <2>4
  <2> QED
    BY <2>5 DEF seen
<1> QED
  BY <1>3, <1>4 DEF QuotaInv, ReadingsAreOrdered

(* An admission keeps every window: those that do not hold its reading are *)
(* as they were, and of the others the reading shows all that is charged.  *)
LEMMA AdmissionIsKept ==
  ASSUME QuotaInv, WindowsAreKept, QuotaInv', NEW j \in Job, QuotaAuthorize(j)
  PROVE  WindowsAreKept'
<1> DEFINE r == request[j].reading
<1>1. /\ authorization[j] = "none" /\ r \in signed
      /\ authorization' = [authorization EXCEPT ![j] = "active"]
      /\ hold' = [hold EXCEPT ![j] = request[j]]
      /\ UNCHANGED <<spent, lane>>
      /\ \A q \in lane : InOrder(q, r) /\ Covers(q, r) /\ Fits(j, q, r)
  BY DEF QuotaAuthorize, Authorize, SetAuthorization, QuotaInv, HoldsAreSigned, providerVars
<1>2. /\ authorization' \in [Job -> AuthorizationState]
      /\ authorization \in [Job -> AuthorizationState]
      /\ hold \in [Job -> Request \cup {NoRequest}]
  BY DEF QuotaInv, QuotaTypeOK, LedgerTypeOK
<1>3. /\ authorization'[j] = "active" /\ hold'[j].reading = r
      /\ \A k \in Job \ {j} : authorization'[k] = authorization[k] /\ hold'[k] = hold[k]
  BY <1>1, <1>2
<1> SUFFICES ASSUME NEW q \in lane, NEW t \in Tick
             PROVE  KeptIn(q, Window(q, t), authorization', hold', spent')
  BY <1>1 DEF WindowsAreKept
<1> HIDE DEF r
<1> DEFINE w == Window(q, t)
           jobs == HeldIn(w, authorization, hold)
           old == ChargeOf(authorization, spent)
           new == ChargeOf(authorization', spent')
           seenNow == Cardinality(r.others \cap Window(q, r.at))
<1>4. /\ jobs \subseteq Job /\ IsFiniteSet(jobs) /\ j \notin jobs
  BY <1>1, FS_Subset, QuotaAssumption DEF HeldIn
<1>5. /\ \A k \in Job : old[k] \in Int
      /\ \A k \in jobs : new[k] = old[k]
      /\ new[j] = Envelope[j] /\ Envelope[j] \in Nat
  BY <1>1, <1>3, <1>4, ChargeType DEF ChargeOf
<1>6. SumOf(new, jobs) = SumOf(old, jobs) /\ SumOf(old, jobs) \in Int
  <2>1. \A k \in jobs : old[k] \in Int
    BY <1>4, <1>5
  <2> HIDE DEF jobs, old, new
  <2> QED
    BY <1>4, <1>5, <2>1, SumSame, SumType
<1>7. /\ q \in Quota /\ t \in Nat /\ r.at \in Nat /\ Limit[q] \in Int
      /\ \A k \in Authorized : hold[k].reading \in signed /\ hold[k].reading.at \in Nat
  BY <1>1, QuotaAssumption
     DEF QuotaInv, QuotaTypeOK, HoldsAreSigned, Reading, Tick
<1>8. CASE r.at \notin w
  <2>1. HeldIn(w, authorization', hold') = jobs
    BY <1>1, <1>3, <1>8 DEF HeldIn
  <2>2. Window(q, r.at) # w
    BY <1>7, <1>8, WindowHolds
  <2>3. SeenIn(q, w, authorization', hold') = SeenIn(q, w, authorization, hold)
    <3>1. {k \in Job : authorization'[k] # "none" /\ Window(q, hold'[k].reading.at) = w}
            = {k \in Job : authorization[k] # "none" /\ Window(q, hold[k].reading.at) = w}
      BY <1>1, <1>3, <2>2
    <3>2. \A k \in Job : authorization[k] # "none" => hold'[k] = hold[k]
      BY <1>1, <1>3
    <3> QED
      BY <3>1, <3>2 DEF SeenIn
  <2>4. \A seen \in SeenIn(q, w, authorization, hold) \cup {0} :
          SumOf(old, jobs) + seen <= Limit[q]
    BY DEF WindowsAreKept, KeptIn
  <2> QED
    BY <1>6, <2>1, <2>3, <2>4 DEF KeptIn
<1>9. CASE r.at \in w
  <2>1. HeldIn(w, authorization', hold') = jobs \cup {j}
    BY <1>1, <1>3, <1>9 DEF HeldIn
  <2>2. SumOf(new, jobs \cup {j}) = SumOf(old, jobs) + Envelope[j]
    <3>1. \A k \in jobs \cup {j} : new[k] \in Int
      BY <1>4, <1>5
    <3> HIDE DEF jobs, old, new
    <3> QED
      BY <1>4, <1>5, <1>6, <3>1, SumAdd
  <2>3. SumOf(old, jobs) + seenNow + Envelope[j] <= Limit[q]
    <3> DEFINE shown == SumOf(spent, Billed(Window(q, r.at), r.metered))
               lacked == SumOf(Envelope, OpenNear(q, r)) + SumOf(spent, SettledNear(q, r))
    <3>1. SumOf(old, jobs) <= shown + lacked
      BY <1>1, <1>9, ChargesAreCounted DEF InOrder
    <3>2. shown + seenNow + lacked + Envelope[j] <= Limit[q]
      BY <1>1, FitsIsSum
    <3>3. shown \in Int /\ lacked \in Int
      <4>1. ASSUME NEW U \in SUBSET Job
            PROVE  SumOf(spent, U) \in Int /\ SumOf(Envelope, U) \in Int
        <5>1. IsFiniteSet(U) /\ \A k \in U : spent[k] \in Int /\ Envelope[k] \in Int
          BY FS_Subset, QuotaAssumption, ChargeType
        <5> QED
          BY <5>1, SumType
      <4>2. /\ Billed(Window(q, r.at), r.metered) \subseteq Job
            /\ OpenNear(q, r) \subseteq Job /\ SettledNear(q, r) \subseteq Job
        BY <1>1 DEF Billed, OpenNear, SettledNear, Authorized, QuotaInv, QuotaTypeOK,
                    ReadingsAreSeen
      <4> QED
        BY <4>1, <4>2
    <3>4. seenNow \in Nat
      BY <1>1, SeenType
    <3> HIDE DEF shown, lacked, seenNow, jobs, old
    <3> QED
      BY <1>5, <1>6, <1>7, <3>1, <3>2, <3>3, <3>4
  <2>4. ASSUME NEW k \in Job, authorization'[k] # "none",
               Window(q, hold'[k].reading.at) = w
        PROVE  /\ Cardinality(hold'[k].reading.others \cap w) \in Nat
               /\ Cardinality(hold'[k].reading.others \cap w) <= seenNow
    <3>1. CASE k = j
      <4>1. w = Window(q, r.at) /\ hold'[k].reading = r
        BY <1>3, <2>4, <3>1
      <4>2. Cardinality(hold'[k].reading.others \cap w) = seenNow
        BY <4>1
      <4>3. seenNow \in Nat
        BY <1>1, SeenType
      <4> HIDE DEF seenNow
      <4> QED
        BY <4>2, <4>3
    <3>2. CASE k # j
      <4>1. k \in Authorized /\ hold'[k] = hold[k]
        BY <1>3, <2>4, <3>2 DEF Authorized
      <4> DEFINE last == hold[k].reading
      <4>2. /\ last \in signed /\ last.at \in Nat /\ last.at <= r.at
            /\ Window(q, last.at) = Window(q, r.at) => Used(q, last) <= Used(q, r)
        BY <1>1, <1>7, <4>1 DEF InOrder
      <4>3. Window(q, last.at) = w
        BY <2>4, <4>1
      <4>4. Window(q, last.at) = Window(q, r.at)
        BY <1>7, <1>9, <4>2, <4>3, SameWindow
      <4>5. Cardinality(last.others \cap Window(q, r.at)) <= seenNow
        BY <1>1, <4>2, <4>4, LaterSeesMore
      <4>6. Cardinality(last.others \cap Window(q, r.at)) \in Nat
        BY <4>2, SeenType
      <4> QED
        BY <4>1, <4>3, <4>4, <4>5, <4>6
    <3> QED
      BY <3>1, <3>2
  <2>5. \A seen \in SeenIn(q, w, authorization', hold') \cup {0} :
          seen \in Nat /\ seen <= seenNow
    <3>1. seenNow \in Nat
      BY <1>1, SeenType
    <3> DEFINE usedBy(k) == Cardinality(hold'[k].reading.others \cap w)
               near == {k \in Job : authorization'[k] # "none"
                                      /\ Window(q, hold'[k].reading.at) = w}
    <3>2. /\ \A k \in near : usedBy(k) \in Nat /\ usedBy(k) <= seenNow
          /\ SeenIn(q, w, authorization', hold') = {usedBy(k) : k \in near}
      BY <2>4 DEF SeenIn
    <3> HIDE DEF seenNow, usedBy, near, w
    <3> QED
      BY <3>1, <3>2
  <2> HIDE DEF jobs, old, new, seenNow
  <2>6. seenNow \in Nat
    BY <1>1, SeenType DEF seenNow
  <2>7. \A seen \in SeenIn(q, w, authorization', hold') \cup {0} :
          SumOf(new, jobs \cup {j}) + seen <= Limit[q]
    BY <1>5, <1>6, <1>7, <2>2, <2>3, <2>5, <2>6
  <2> QED
    BY <1>1, <2>1, <2>7 DEF KeptIn, new
<1> QED
  BY <1>8, <1>9

(* No window has a charge at first.                                        *)
LEMMA WindowsInit == QuotaInit => WindowsAreKept
<1> SUFFICES ASSUME QuotaInit, NEW q \in lane, NEW t \in Tick
             PROVE  KeptIn(q, Window(q, t), authorization, hold, spent)
  BY DEF WindowsAreKept
<1> DEFINE w == Window(q, t)
           charge == ChargeOf(authorization, spent)
<1>1. \A k \in Job : authorization[k] = "none"
  BY DEF QuotaInit, LedgerInit
<1>2. HeldIn(w, authorization, hold) = {} /\ SeenIn(q, w, authorization, hold) = {}
  BY <1>1 DEF HeldIn, SeenIn
<1>3. SumOf(charge, {}) = 0
  BY SumEmpty
<1>4. Limit[q] \in Nat
  BY QuotaAssumption DEF QuotaInit
<1>5. \A seen \in {} \cup {0} : SumOf(charge, {}) + seen <= Limit[q]
  BY <1>3, <1>4
<1> QED
  BY <1>2, <1>5 DEF KeptIn

(* No step overcommits a window: an admission by the lemma above, the      *)
(* others because they raise no charge.                                    *)
LEMMA WindowsStep ==
  QuotaInv /\ WindowsAreKept /\ [QuotaNext]_quotaVars => WindowsAreKept'
<1> SUFFICES ASSUME QuotaInv, WindowsAreKept, [QuotaNext]_quotaVars
             PROVE  WindowsAreKept'
  OBVIOUS
<1>1. QuotaInv'
  BY QuotaNextInv
<1>2. /\ authorization \in [Job -> AuthorizationState] /\ spent \in [Job -> Nat]
      /\ \A k \in Job : ChargeOf(authorization, spent)[k] \in Nat
  BY ChargeType DEF QuotaInv, QuotaTypeOK, LedgerTypeOK
<1>3. CASE UNCHANGED <<lane, hold, authorization, spent>>
  BY <1>1, <1>2, <1>3, LessIsKept DEF Authorized
<1>4. ASSUME NEW j \in Job, QuotaLaunch(j)
      PROVE  WindowsAreKept'
  <2>1. /\ authorization[j] = "active" /\ UNCHANGED <<lane, hold>>
        /\ authorization' = [authorization EXCEPT ![j] = "launched"]
        /\ \A k \in Job \ {j} : spent'[k] = spent[k]
    BY <1>2, <1>4 DEF QuotaLaunch, Launch, SetAuthorization, holdVars
  <2>2. Authorized' = Authorized
    BY <1>2, <2>1 DEF Authorized
  <2>3. ASSUME NEW k \in Job
        PROVE  ChargeOf(authorization', spent')[k] <= ChargeOf(authorization, spent)[k]
    <3>1. ChargeOf(authorization', spent')[k] = ChargeOf(authorization, spent)[k]
      BY <1>2, <2>1 DEF ChargeOf
    <3> QED
      BY <1>2, <3>1
  <2> QED
    BY <1>1, <1>2, <2>1, <2>2, <2>3, LessIsKept
<1>5. ASSUME NEW j \in Job, Decision(j)
      PROVE  WindowsAreKept'
  <2>1. /\ j \in Authorized /\ UNCHANGED <<lane, hold, spent>>
        /\ \E state \in AuthorizationState :
             /\ authorization' = [authorization EXCEPT ![j] = state]
             /\ \/ state = authorization[j]
                \/ /\ authorization[j] \in OpenState \cup {"uncertain"}
                   /\ state \in {"settled", "released"}
                \/ authorization[j] \in OpenState \cup {"uncertain"} /\ state = "uncertain"
    BY <1>5, DecisionMoves DEF providerVars
  <2>2. Authorized' = Authorized
    BY <1>2, <2>1 DEF Authorized
  <2>3. ASSUME NEW k \in Job
        PROVE  ChargeOf(authorization', spent')[k] <= ChargeOf(authorization, spent)[k]
    <3>1. /\ Envelope[k] \in Nat /\ spent[k] \in Nat
          /\ spent[k] <= Envelope[k] \/ spent[k] = 0
      BY ChargeType
    <3> QED
      BY <1>2, <2>1, <3>1 DEF ChargeOf, OpenState
  <2> QED
    BY <1>1, <2>1, <2>2, <2>3, LessIsKept
<1>6. ASSUME NEW j \in Job, MeterCatchesUp(j) \/ Prepare(j) \/ Drop(j)
      PROVE  WindowsAreKept'
  BY <1>3, <1>6 DEF MeterCatchesUp, Prepare, Drop, ledgerVars, providerVars, holdVars
<1>7. CASE UNCHANGED quotaVars \/ OthersUse \/ SignReading \/ Advance
  BY <1>3, <1>7
     DEF quotaVars, OthersUse, SignReading, Advance, ledgerVars, providerVars, holdVars
<1> QED
  BY <1>1, <1>4, <1>5, <1>6, <1>7, AdmissionIsKept, QuotaCases

(* What the provider bills in a window is among what the jobs of the       *)
(* readings of that window may cost.                                       *)
LEMMA BilledIsCharged ==
  ASSUME QuotaInv, NEW q \in lane, NEW t \in Tick
  PROVE  /\ SumOf(spent, Billed(Window(q, t), Job))
              <= SumOf(ChargeOf(authorization, spent),
                       HeldIn(Window(q, t), authorization, hold))
         /\ SumOf(spent, Billed(Window(q, t), Job)) \in Int
         /\ SumOf(ChargeOf(authorization, spent),
                  HeldIn(Window(q, t), authorization, hold)) \in Int
<1> DEFINE w == Window(q, t)
           charge == ChargeOf(authorization, spent)
           jobs == HeldIn(w, authorization, hold)
           billed == Billed(w, Job)
           costly == {k \in billed : spent[k] > 0}
<1>1. /\ jobs \subseteq Job /\ billed \subseteq Job /\ costly \subseteq billed
      /\ IsFiniteSet(jobs) /\ IsFiniteSet(billed) /\ IsFiniteSet(costly)
      /\ IsFiniteSet(billed \ costly)
  BY FS_Subset, QuotaAssumption DEF HeldIn, Billed
<1>2. \A k \in Job : /\ charge[k] \in Nat /\ spent[k] \in Nat
                     /\ spent[k] <= charge[k] \/ spent[k] = 0
  BY ChargeType
<1>3. costly \subseteq jobs
  <2> SUFFICES ASSUME NEW k \in costly PROVE k \in jobs
    OBVIOUS
  <2>1. k \in Job /\ spent[k] > 0 /\ launchedAt[k] \in w
    BY DEF Billed
  <2>2. /\ authorization[k] \in {"launched", "settled", "uncertain"}
        /\ launchedAt[k] \in Window(q, hold[k].reading.at)
        /\ hold[k].reading.at <= launchedAt[k]
    BY <2>1 DEF QuotaInv, SpentInv, SpentIsHeld, HoldWindow, MeterIsSpent
  <2>3. hold[k].reading \in signed
    BY <2>1, <2>2 DEF QuotaInv, HoldsAreSigned, Authorized
  <2>4. /\ q \in Quota /\ t \in Nat /\ launchedAt[k] \in Nat
        /\ hold[k].reading.at \in Nat
    BY <2>1, <2>3, QuotaAssumption DEF QuotaInv, QuotaTypeOK, Reading, Tick
  <2>5. hold[k].reading.at \in w
    BY <2>1, <2>2, <2>4, LaunchesWithItsReading
  <2> QED
    BY <2>1, <2>2, <2>5 DEF HeldIn
<1> HIDE DEF charge, jobs, billed
<1>4. ASSUME NEW k \in costly PROVE spent[k] <= charge[k]
  <2>1. k \in Job /\ spent[k] > 0
    BY <1>1
  <2> QED
    BY <1>2, <2>1
<1>5. ASSUME NEW k \in billed \ costly PROVE spent[k] = 0
  <2>1. k \in Job /\ ~ (spent[k] > 0)
    BY <1>1
  <2> QED
    BY <1>2, <2>1
<1> HIDE DEF costly
<1>12. /\ \A k \in costly : /\ spent[k] \in Int /\ charge[k] \in Int
                           /\ spent[k] <= charge[k]
      /\ \A k \in jobs : charge[k] \in Nat
  BY <1>1, <1>2, <1>4
<1>6. SumOf(spent, billed) = SumOf(spent, costly) + SumOf(spent, billed \ costly)
  BY <1>1, <1>2, SumSplit
<1>7. SumOf(spent, billed \ costly) = 0
  BY <1>1, <1>5, SumZero
<1>8. SumOf(spent, costly) <= SumOf(charge, costly)
  BY <1>1, <1>12, SumBelow
<1>9. SumOf(charge, costly) <= SumOf(charge, jobs)
  BY <1>1, <1>3, <1>12, SumPart
<1>10. /\ SumOf(spent, costly) \in Int /\ SumOf(charge, costly) \in Int
       /\ SumOf(charge, jobs) \in Int /\ SumOf(spent, billed) \in Int
  BY <1>1, <1>2, SumType
<1>11. SumOf(spent, billed) <= SumOf(charge, jobs)
  BY <1>6, <1>7, <1>8, <1>9, <1>10
<1> QED
  BY <1>10, <1>11 DEF billed, charge, jobs

(* In no window does the provider bill the factory, on top of what the     *)
(* accepted readings saw others use, more than the quota: for every lane,  *)
(* limit, window length, number of jobs and readings, and every order of   *)
(* launches, settlements, late meters and admissions.                      *)
THEOREM QuotaIsKeptCorrect == QuotaSpec => []QuotaIsKept
<1>1. QuotaInv /\ WindowsAreKept => QuotaIsKept
  <2> SUFFICES ASSUME QuotaInv, WindowsAreKept, NEW q \in lane, NEW t \in Tick,
                      NEW seen \in SeenOthers(q, Window(q, t)) \cup {0}
               PROVE  SpentIn(Window(q, t), Job) + seen <= Limit[q]
    BY DEF QuotaIsKept
  <2> DEFINE w == Window(q, t)
             charged == SumOf(ChargeOf(authorization, spent),
                              HeldIn(w, authorization, hold))
             near == {k \in Authorized : Window(q, hold[k].reading.at) = w}
             usedBy(k) == Cardinality(hold[k].reading.others \cap w)
  <2>1. SpentIn(w, Job) = SumOf(spent, Billed(w, Job))
    BY SpentInIsSum
  <2>2. SeenIn(q, w, authorization, hold) = SeenOthers(q, w)
    BY Zenon DEF SeenIn, SeenOthers, HoldWindow, Authorized
  <2>3. charged + seen <= Limit[q]
    BY <2>2 DEF WindowsAreKept, KeptIn
  <2>4. seen \in Int
    <3>1. SeenOthers(q, w) = {usedBy(k) : k \in near}
      BY DEF SeenOthers, HoldWindow
    <3>2. \A k \in near : usedBy(k) \in Nat
      BY SeenType DEF QuotaInv, HoldsAreSigned
    <3> HIDE DEF usedBy, near, w
    <3> QED
      BY <3>1, <3>2 DEF w
  <2>5. Limit[q] \in Int
    BY QuotaAssumption DEF QuotaInv, QuotaTypeOK
  <2>6. /\ SumOf(spent, Billed(w, Job)) <= charged
        /\ SumOf(spent, Billed(w, Job)) \in Int /\ charged \in Int
    BY BilledIsCharged
  <2> HIDE DEF w, charged
  <2> QED
    BY <2>1, <2>3, <2>4, <2>5, <2>6 DEF w
<1> QED
  BY <1>1, WindowsInit, WindowsStep, QuotaInvariant, PTL DEF QuotaSpec
=============================================================================
