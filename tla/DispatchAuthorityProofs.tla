------------------------ MODULE DispatchAuthorityProofs ------------------------
(***************************************************************************)
(* The safety properties of DispatchAuthority, for any set of jobs.        *)
(* LedgerInv is inductive as it stands: what the two rows of one job say   *)
(* of each other is enough to decide every later transition of that job,   *)
(* and no action touches two jobs.  The lemmas at the end are those on      *)
(* numbers and finite sums that the proofs about money, quota and retries, *)
(* which extend this module, lean on.                                      *)
(***************************************************************************)
EXTENDS DispatchAuthority, Integers, FiniteSetsExt, FiniteSetTheorems,
        WellFoundedInduction, TLAPS

(* Only cash jobs ever have a reservation row.                             *)
OnlyMeteredReserve == \A j \in Job \ Metered : reservation[j] = "none"

LedgerInv == LedgerTypeOK /\ LinkedStatesAgree /\ OnlyMeteredReserve

(* The empty ledger satisfies the invariant.                               *)
LEMMA LedgerInitInv == LedgerInit => LedgerInv
  BY BillingAssumption DEF LedgerInit, LedgerInv, LedgerTypeOK, LinkedStatesAgree,
         OnlyMeteredReserve, ReservationState, AuthorizationState

(* Every transaction of the ledger keeps both rows of every job in their   *)
(* domains and in agreement.                                               *)
LEMMA LedgerNextInv == LedgerInv /\ LedgerNext => LedgerInv'
<1> SUFFICES ASSUME LedgerInv, LedgerNext PROVE LedgerInv'
  OBVIOUS
<1> USE BillingAssumption DEF LedgerInv, LedgerTypeOK, LinkedStatesAgree,
            OnlyMeteredReserve, ReservationState, AuthorizationState, SetReservation,
            SetAuthorization, HeldState, OpenState
<1>0. PICK j \in Job :
        \/ Authorize(j) \/ Reserve(j) \/ Launch(j) \/ SettleReservation(j)
        \/ MarkReservationUncertain(j) \/ ReconcileNoCharge(j)
        \/ ReconcileManualDebit(j) \/ SettleQuota(j) \/ ReleaseQuota(j)
        \/ MarkQuotaUncertain(j)
  BY DEF LedgerNext
<1>1. CASE Authorize(j)
  BY <1>1 DEF Authorize
<1>2. CASE Reserve(j)
  BY <1>2 DEF Reserve
<1>3. CASE Launch(j)
  BY <1>3 DEF Launch
<1>4. CASE SettleReservation(j)
  BY <1>4 DEF SettleReservation
<1>5. CASE MarkReservationUncertain(j)
  BY <1>5 DEF MarkReservationUncertain
<1>6. CASE ReconcileNoCharge(j)
  BY <1>6 DEF ReconcileNoCharge
<1>7. CASE ReconcileManualDebit(j)
  BY <1>7 DEF ReconcileManualDebit
<1>8. CASE SettleQuota(j) \/ ReleaseQuota(j) \/ MarkQuotaUncertain(j)
  BY <1>8, BillingAssumption
     DEF SettleQuota, ReleaseQuota, MarkQuotaUncertain, TransitionQuota
<1> QED
  BY <1>0, <1>1, <1>2, <1>3, <1>4, <1>5, <1>6, <1>7, <1>8

(* Nothing changes in a stutter.                                           *)
LEMMA LedgerStutterInv == LedgerInv /\ UNCHANGED ledgerVars => LedgerInv'
  BY DEF LedgerInv, LedgerTypeOK, LinkedStatesAgree, OnlyMeteredReserve, ledgerVars

(* For any number of jobs, the rows of the ledger stay in their domains.   *)
THEOREM LedgerTypeCorrect == LedgerSpec => []LedgerTypeOK
<1>1. LedgerInv => LedgerTypeOK
  BY DEF LedgerInv
<1> QED
  BY <1>1, LedgerInitInv, LedgerNextInv, LedgerStutterInv, PTL DEF LedgerSpec

(* For any number of jobs and any order of the ledger's transactions, an   *)
(* authorization past "active" agrees with its reservation.                *)
THEOREM LinkedStatesCorrect == LedgerSpec => []LinkedStatesAgree
<1>1. LedgerInv => LinkedStatesAgree
  BY DEF LedgerInv
<1> QED
  BY <1>1, LedgerInitInv, LedgerNextInv, LedgerStutterInv, PTL DEF LedgerSpec

(* No transaction makes spent authority launchable again.                  *)
LEMMA SingleUseStep ==
  ASSUME LedgerInv, [LedgerNext]_ledgerVars,
         NEW j \in Job, authorization[j] \notin {"none", "active"}
  PROVE  authorization'[j] \in
           {authorization[j], "settled", "released", "uncertain"}
<1>1. CASE UNCHANGED ledgerVars
  BY <1>1 DEF ledgerVars
<1>2. CASE LedgerNext
  <2>1. PICK k \in Job :
          \/ Authorize(k) \/ Reserve(k) \/ Launch(k) \/ SettleReservation(k)
          \/ MarkReservationUncertain(k) \/ ReconcileNoCharge(k)
          \/ ReconcileManualDebit(k) \/ SettleQuota(k) \/ ReleaseQuota(k)
          \/ MarkQuotaUncertain(k)
    BY <1>2 DEF LedgerNext
  <2>2. authorization \in [Job -> AuthorizationState]
    BY DEF LedgerInv, LedgerTypeOK
  <2> QED
    BY <2>1, <2>2
       DEF SetAuthorization, OpenState, Authorize, Reserve, Launch,
           SettleReservation, MarkReservationUncertain, ReconcileNoCharge,
           ReconcileManualDebit, SettleQuota, ReleaseQuota, MarkQuotaUncertain,
           TransitionQuota
<1> QED
  BY <1>1, <1>2

(* For any number of jobs, an authorization is launched at most once and   *)
(* never comes back from settlement, release or rejection.                 *)
THEOREM AuthorityIsSingleUseCorrect == LedgerSpec => AuthorityIsSingleUse
<1>1. LedgerInv /\ [LedgerNext]_ledgerVars =>
        [\A j \in Job : authorization[j] \notin {"none", "active"}
          => authorization'[j] \in
               {authorization[j], "settled", "released", "uncertain"}]_ledgerVars
  BY SingleUseStep
<1> QED
  BY <1>1, LedgerInitInv, LedgerNextInv, LedgerStutterInv, PTL
     DEF LedgerSpec, AuthorityIsSingleUse

(* No transaction touches a reservation that is settled or reconciled.     *)
LEMMA CashIsFinalStep ==
  ASSUME LedgerInv, [LedgerNext]_ledgerVars,
         NEW j \in Job, reservation[j] \in {"settled", "reconciled"}
  PROVE  reservation'[j] = reservation[j]
<1>1. CASE UNCHANGED ledgerVars
  BY <1>1 DEF ledgerVars
<1>2. CASE LedgerNext
  <2>1. PICK k \in Job :
          \/ Authorize(k) \/ Reserve(k) \/ Launch(k) \/ SettleReservation(k)
          \/ MarkReservationUncertain(k) \/ ReconcileNoCharge(k)
          \/ ReconcileManualDebit(k) \/ SettleQuota(k) \/ ReleaseQuota(k)
          \/ MarkQuotaUncertain(k)
    BY <1>2 DEF LedgerNext
  <2>2. reservation \in [Job -> ReservationState]
    BY DEF LedgerInv, LedgerTypeOK
  <2> QED
    BY <2>1, <2>2
       DEF SetReservation, HeldState, Authorize, Reserve, Launch,
           SettleReservation, MarkReservationUncertain, ReconcileNoCharge,
           ReconcileManualDebit, SettleQuota, ReleaseQuota, MarkQuotaUncertain,
           TransitionQuota
<1> QED
  BY <1>1, <1>2

(* For any number of jobs, spent or returned cash is accounted for once.   *)
THEOREM CashIsFinalCorrect == LedgerSpec => CashIsFinal
<1>1. LedgerInv /\ [LedgerNext]_ledgerVars =>
        [\A j \in Job : reservation[j] \in {"settled", "reconciled"}
          => reservation'[j] = reservation[j]]_ledgerVars
  BY CashIsFinalStep
<1> QED
  BY <1>1, LedgerInitInv, LedgerNextInv, LedgerStutterInv, PTL
     DEF LedgerSpec, CashIsFinal

(* Without cash behind it, authority that is settled or released stays so. *)
LEMMA SettledQuotaStays ==
  ASSUME LedgerInv, [LedgerNext]_ledgerVars, NEW j \in Job \ Metered,
         authorization[j] \in {"settled", "released"}
  PROVE  authorization'[j] = authorization[j]
<1>1. CASE UNCHANGED ledgerVars
  BY <1>1 DEF ledgerVars
<1>2. CASE LedgerNext
  <2>1. PICK k \in Job :
          \/ Authorize(k) \/ Reserve(k) \/ Launch(k) \/ SettleReservation(k)
          \/ MarkReservationUncertain(k) \/ ReconcileNoCharge(k)
          \/ ReconcileManualDebit(k) \/ SettleQuota(k) \/ ReleaseQuota(k)
          \/ MarkQuotaUncertain(k)
    BY <1>2 DEF LedgerNext
  <2>2. /\ authorization \in [Job -> AuthorizationState]
        /\ reservation[j] = "none"
    BY DEF LedgerInv, LedgerTypeOK, OnlyMeteredReserve
  <2> QED
    BY <2>1, <2>2
       DEF SetAuthorization, OpenState, HeldState, Authorize, Reserve, Launch,
           SettleReservation, MarkReservationUncertain, ReconcileNoCharge,
           ReconcileManualDebit, SettleQuota, ReleaseQuota, MarkQuotaUncertain,
           TransitionQuota
<1> QED
  BY <1>1, <1>2
-----------------------------------------------------------------------------
(* Induction by least counterexample.  Every set of natural numbers but the*)
(* empty one has a least element.                                          *)
LEMMA LeastElement ==
  ASSUME NEW S \in SUBSET Nat, S # {}
  PROVE  \E m \in S : \A k \in S : m <= k
<1> DEFINE Below == {ss \in Nat \X Nat : ss[1] < ss[2]}
<1>1. IsWellFoundedOn(Below, Nat)
  BY NatLessThanWellFounded DEF OpToRel
<1> HIDE DEF Below
<1>2. PICK m \in S : \A k \in S : <<k, m>> \notin Below
  BY <1>1, WFMin
<1>3. SUFFICES ASSUME NEW k \in S, k < m PROVE FALSE
  BY <1>2
<1>4. <<k, m>> \in Nat \X Nat /\ <<k, m>>[1] < <<k, m>>[2]
  BY <1>3
<1> QED
  BY <1>2, <1>4 DEF Below

(* The element a fold takes out of a set next, and what it then says of u. *)
Taken(u) == CHOOSE x \in u : TRUE
Adds(g, h, u) == g[u] = IF u = {} THEN 0 ELSE h[Taken(u)] + g[u \ {Taken(u)}]

(* g is the table of the sums of h over the subsets of S.                  *)
IsSumTable(g, h, S) ==
  g = [u \in SUBSET S |-> IF u = {} THEN 0 ELSE h[Taken(u)] + g[u \ {Taken(u)}]]

(* What a sum takes first is an element.                                   *)
LEMMA TakenIsElement ==
  ASSUME NEW u, u # {}
  PROVE  Taken(u) \in u
  BY DEF Taken

(* Tables that are right for the subsets of at most k elements.            *)
RightUpTo(g, h, S, k) ==
  \A u \in SUBSET S : Cardinality(u) <= k => Adds(g, h, u)
HasTable(h, S, k) == \E g \in [SUBSET S -> Int] : RightUpTo(g, h, S, k)

(* There is a table that is right for the empty set.                       *)
LEMMA FirstTable ==
  ASSUME NEW S, IsFiniteSet(S), NEW h, \A x \in S : h[x] \in Int
  PROVE  HasTable(h, S, 0)
<1> DEFINE g == [u \in SUBSET S |-> 0]
<1>1. g \in [SUBSET S -> Int]
  OBVIOUS
<1>2. ASSUME NEW u \in SUBSET S, Cardinality(u) <= 0 PROVE Adds(g, h, u)
  <2>1. IsFiniteSet(u) /\ Cardinality(u) \in Nat
    BY FS_Subset, FS_CardinalityType
  <2>2. u = {}
    BY <1>2, <2>1, FS_EmptySet
  <2> QED
    BY <2>2 DEF Adds
<1> QED
  BY <1>1, <1>2 DEF HasTable, RightUpTo

(* A table that is right up to a size has a successor right for one more.  *)
LEMMA NextTable ==
  ASSUME NEW S, IsFiniteSet(S), NEW h, \A x \in S : h[x] \in Int,
         NEW k \in Nat, HasTable(h, S, k)
  PROVE  HasTable(h, S, k + 1)
<1>1. PICK g \in [SUBSET S -> Int] : RightUpTo(g, h, S, k)
  BY DEF HasTable
<1> DEFINE f == [u \in SUBSET S |-> IF Cardinality(u) = k + 1
                                    THEN h[Taken(u)] + g[u \ {Taken(u)}] ELSE g[u]]
<1>2. ASSUME NEW u \in SUBSET S
      PROVE  /\ IsFiniteSet(u) /\ Cardinality(u) \in Nat
             /\ u = {} <=> Cardinality(u) = 0
             /\ u # {} => /\ Taken(u) \in u /\ u \ {Taken(u)} \in SUBSET S
                          /\ Cardinality(u \ {Taken(u)}) = Cardinality(u) - 1
  BY FS_Subset, FS_CardinalityType, FS_EmptySet, FS_RemoveElement, TakenIsElement
<1>3. ASSUME NEW u \in SUBSET S PROVE f[u] \in Int
  <2>1. CASE Cardinality(u) = k + 1
    <3>1. u # {} /\ Taken(u) \in S /\ u \ {Taken(u)} \in SUBSET S
      BY <1>2, <2>1
    <3> QED
      BY <2>1, <3>1
  <2>2. CASE Cardinality(u) # k + 1
    BY <2>2
  <2> QED
    BY <2>1, <2>2
<1>4. f \in [SUBSET S -> Int]
  BY <1>3
<1>5. ASSUME NEW u \in SUBSET S, Cardinality(u) <= k + 1 PROVE Adds(f, h, u)
  <2>1. CASE u = {}
    <3>1. f[u] = g[u] /\ Adds(g, h, u)
      BY <1>1, <1>2, <2>1 DEF RightUpTo
    <3> QED
      BY <2>1, <3>1 DEF Adds
  <2>2. CASE u # {}
    <3>1. u \ {Taken(u)} \in SUBSET S /\ Cardinality(u \ {Taken(u)}) # k + 1
      BY <1>2, <1>5, <2>2
    <3>2. f[u \ {Taken(u)}] = g[u \ {Taken(u)}]
      BY <3>1
    <3>3. f[u] = h[Taken(u)] + g[u \ {Taken(u)}]
      <4>1. CASE Cardinality(u) = k + 1
        BY <4>1
      <4>2. CASE Cardinality(u) # k + 1
        <5>1. Cardinality(u) \in Nat /\ Cardinality(u) <= k + 1
          BY <1>2, <1>5
        <5> HIDE DEF f
        <5>3. Cardinality(u) <= k
          BY <4>2, <5>1
        <5> USE DEF f
        <5>2. Adds(g, h, u) /\ f[u] = g[u]
          BY <1>1, <4>2, <5>3 DEF RightUpTo
        <5> QED
          BY <2>2, <5>2 DEF Adds
      <4> QED
        BY <4>1, <4>2
    <3> QED
      BY <2>2, <3>2, <3>3 DEF Adds
  <2> QED
    BY <2>1, <2>2
<1> QED
  BY <1>4, <1>5 DEF HasTable, RightUpTo

(* So there is a table that is right up to any size.                       *)
LEMMA TableUpTo ==
  ASSUME NEW S, IsFiniteSet(S), NEW h, \A x \in S : h[x] \in Int
  PROVE  \A k \in Nat : HasTable(h, S, k)
<1> DEFINE fails == {k \in Nat : ~ HasTable(h, S, k)}
<1> SUFFICES ASSUME fails # {} PROVE FALSE
  OBVIOUS
<1>1. PICK k \in fails : \A i \in fails : k <= i
  BY LeastElement
<1>2. k # 0
  BY <1>1, FirstTable
<1>3. k - 1 \in Nat /\ HasTable(h, S, k - 1)
  BY <1>1, <1>2
<1>4. HasTable(h, S, (k - 1) + 1)
  BY <1>3, NextTable
<1> QED
  BY <1>1, <1>4

(* Among sets of elements of a finite set there is one that is no longer   *)
(* among them whichever element it loses.                                  *)
LEMMA MinimalSet ==
  ASSUME NEW S, IsFiniteSet(S), NEW bad, bad \subseteq SUBSET S, bad # {}
  PROVE  \E u \in bad : \A y \in u : u \ {y} \notin bad
<1> DEFINE sizes == {Cardinality(u) : u \in bad}
<1>1. ASSUME NEW u \in SUBSET S
      PROVE  /\ IsFiniteSet(u) /\ Cardinality(u) \in Nat
             /\ \A y \in u : Cardinality(u \ {y}) = Cardinality(u) - 1
  BY FS_Subset, FS_CardinalityType, FS_RemoveElement
<1>2. sizes \in SUBSET Nat /\ sizes # {}
  BY <1>1
<1>3. PICK n \in sizes : \A i \in sizes : n <= i
  BY <1>2, LeastElement
<1>4. PICK u \in bad : n = Cardinality(u)
  BY <1>3
<1>5. ASSUME NEW y \in u, u \ {y} \in bad PROVE FALSE
  <2>1. n <= Cardinality(u \ {y}) /\ n \in Nat
    BY <1>2, <1>3, <1>5
  <2> QED
    BY <1>1, <1>4, <2>1
<1> QED
  BY <1>4, <1>5

(* A finite set has a table of its sums, of numbers.                       *)
LEMMA SumTable ==
  ASSUME NEW S, IsFiniteSet(S), NEW h, \A x \in S : h[x] \in Int
  PROVE  \E g \in [SUBSET S -> Int] : IsSumTable(g, h, S)
<1>1. PICK g \in [SUBSET S -> Int] : RightUpTo(g, h, S, Cardinality(S))
  BY TableUpTo, FS_CardinalityType DEF HasTable
<1>2. \A u \in SUBSET S : Adds(g, h, u)
  BY <1>1, FS_Subset DEF RightUpTo
<1> QED
  BY <1>2 DEF IsSumTable, Adds

(* Two tables agree wherever what they sum agrees: the smallest set they   *)
(* differ on would lose an element to a set they agree on.                 *)
LEMMA TablesAgree ==
  ASSUME NEW S, NEW R, NEW T, IsFiniteSet(T), T \subseteq S, T \subseteq R,
         NEW h, NEW k, \A x \in T : h[x] = k[x],
         NEW f, IsSumTable(f, h, S), NEW g, IsSumTable(g, k, R)
  PROVE  f[T] = g[T]
<1> DEFINE differ == {u \in SUBSET T : f[u] # g[u]}
<1> SUFFICES ASSUME differ # {} PROVE FALSE
  OBVIOUS
<1>1. PICK u \in differ : \A y \in u : u \ {y} \notin differ
  BY MinimalSet
<1>2. Adds(f, h, u) /\ Adds(g, k, u)
  BY DEF IsSumTable, Adds
<1>3. u # {}
  BY <1>1, <1>2 DEF Adds
<1>4. Taken(u) \in u
  BY <1>3, TakenIsElement, FS_Subset
<1>5. h[Taken(u)] = k[Taken(u)] /\ f[u \ {Taken(u)}] = g[u \ {Taken(u)}]
  BY <1>1, <1>4
<1> QED
  BY <1>1, <1>2, <1>3, <1>5 DEF Adds

(* In whatever order: any element may be the one that is taken out next.   *)
AddsAny(g, h, u) == \A y \in u : g[u] = h[y] + g[u \ {y}]

(* In a table of sums it does not matter which element is taken first.     *)
LEMMA TakesAny ==
  ASSUME NEW S, IsFiniteSet(S), NEW h, \A x \in S : h[x] \in Int,
         NEW g \in [SUBSET S -> Int], IsSumTable(g, h, S)
  PROVE  \A u \in SUBSET S : AddsAny(g, h, u)
<1> DEFINE fails == {u \in SUBSET S : ~ AddsAny(g, h, u)}
<1> SUFFICES ASSUME fails # {} PROVE FALSE
  OBVIOUS
<1>1. PICK u \in fails : \A y \in u : u \ {y} \notin fails
  BY MinimalSet
<1>2. PICK y \in u : g[u] # h[y] + g[u \ {y}]
  BY <1>1 DEF AddsAny
<1> DEFINE x == Taken(u)
<1>3. x \in u
  BY <1>2, TakenIsElement, FS_Subset
<1>4. g[u] = h[x] + g[u \ {x}]
  BY <1>2 DEF IsSumTable
<1>5. x # y
  BY <1>2, <1>4
<1> HIDE DEF x
<1>6. AddsAny(g, h, u \ {x}) /\ AddsAny(g, h, u \ {y})
  BY <1>1, <1>3
<1> DEFINE rest == g[u \ {x, y}]
<1>7. g[u \ {x}] = h[y] + rest /\ g[u \ {y}] = h[x] + rest
  <2>1. (u \ {x}) \ {y} = u \ {x, y} /\ (u \ {y}) \ {x} = u \ {x, y}
    OBVIOUS
  <2> QED
    BY <1>3, <1>5, <1>6, <2>1 DEF AddsAny
<1>8. rest \in Int /\ h[x] \in Int /\ h[y] \in Int
  BY <1>1, <1>3
<1> HIDE DEF rest
<1> QED
  BY <1>2, <1>4, <1>7, <1>8

-----------------------------------------------------------------------------
(* The sum that the modules write is such a table's.                       *)
SumOf(h, S) == MapThenSumSet(LAMBDA x : h[x], S)

(* The recursive sum is the entry of such a table.                         *)
LEMMA SumIsInATable ==
  ASSUME NEW S, IsFiniteSet(S), NEW h, \A x \in S : h[x] \in Int
  PROVE  \E g \in [SUBSET S -> Int] : IsSumTable(g, h, S) /\ SumOf(h, S) = g[S]
<1>1. PICK g \in [SUBSET S -> Int] : IsSumTable(g, h, S)
  BY SumTable
<1> DEFINE Table(f) ==
             [u \in SUBSET S |->
                IF u = {} THEN 0
                ELSE h[CHOOSE x \in u : TRUE] + f[u \ {CHOOSE x \in u : TRUE}]]
           iter == CHOOSE f : f = Table(f)
<1>2. g = Table(g)
  BY <1>1 DEF IsSumTable, Taken
<1>3. iter = Table(iter)
  BY <1>2, Zenon
<1>4. SumOf(h, S) = iter[S]
  BY Zenon DEF SumOf, MapThenSumSet, MapThenFoldSet
<1>5. IsSumTable(iter, h, S)
  BY <1>3 DEF IsSumTable, Taken
<1>6. iter[S] = g[S]
  BY <1>1, <1>5, TablesAgree
<1> QED
  BY <1>1, <1>4, <1>6

(* What a sum is: a number, none for the empty set, one term more for one  *)
(* element more, and the same for the same terms.                          *)
LEMMA SumType ==
  ASSUME NEW S, IsFiniteSet(S), NEW h, \A x \in S : h[x] \in Int
  PROVE  SumOf(h, S) \in Int
<1>1. PICK g \in [SUBSET S -> Int] : SumOf(h, S) = g[S]
  BY SumIsInATable
<1>2. S \in SUBSET S
  OBVIOUS
<1> QED
  BY <1>1, <1>2

(* The sum over nothing is zero.                                           *)
LEMMA SumEmpty == ASSUME NEW h PROVE SumOf(h, {}) = 0
<1>0. IsFiniteSet({}) /\ \A x \in {} : h[x] \in Int
  BY FS_EmptySet
<1>1. PICK g \in [SUBSET {} -> Int] : IsSumTable(g, h, {}) /\ SumOf(h, {}) = g[{}]
  BY <1>0, SumIsInATable
<1> QED
  BY <1>1 DEF IsSumTable

(* A sum loses what is taken out of it.                                    *)
LEMMA SumTake ==
  ASSUME NEW T, IsFiniteSet(T), NEW y \in T, NEW h, \A x \in T : h[x] \in Int
  PROVE  SumOf(h, T) = SumOf(h, T \ {y}) + h[y]
<1>1. PICK f \in [SUBSET T -> Int] : IsSumTable(f, h, T) /\ SumOf(h, T) = f[T]
  BY SumIsInATable
<1>2. AddsAny(f, h, T)
  BY <1>1, TakesAny
<1>3. f[T] = h[y] + f[T \ {y}]
  BY <1>2 DEF AddsAny
<1> DEFINE S == T \ {y}
<1>4. IsFiniteSet(S) /\ \A x \in S : h[x] \in Int
  BY FS_RemoveElement
<1>5. PICK g \in [SUBSET S -> Int] : IsSumTable(g, h, S) /\ SumOf(h, S) = g[S]
  BY <1>4, SumIsInATable, Zenon
<1>6. S \subseteq T /\ S \subseteq S
  OBVIOUS
<1>7. f[S] = g[S]
  BY <1>1, <1>4, <1>5, <1>6, TablesAgree
<1>8. f[S] \in Int /\ h[y] \in Int
  BY <1>6
<1> QED
  BY <1>1, <1>3, <1>5, <1>7, <1>8

(* A sum grows by what is added to it.                                     *)
LEMMA SumAdd ==
  ASSUME NEW S, IsFiniteSet(S), NEW y, y \notin S,
         NEW h, \A x \in S \cup {y} : h[x] \in Int
  PROVE  SumOf(h, S \cup {y}) = SumOf(h, S) + h[y]
<1>1. IsFiniteSet(S \cup {y}) /\ (S \cup {y}) \ {y} = S
  BY FS_AddElement
<1> QED
  BY <1>1, SumTake

(* A sum depends only on the summands of its set.                          *)
LEMMA SumSame ==
  ASSUME NEW S, IsFiniteSet(S), NEW h, \A x \in S : h[x] \in Int,
         NEW k, \A x \in S : k[x] = h[x]
  PROVE  SumOf(k, S) = SumOf(h, S)
<1>1. PICK f \in [SUBSET S -> Int] : IsSumTable(f, h, S) /\ SumOf(h, S) = f[S]
  BY SumIsInATable
<1>2. PICK g \in [SUBSET S -> Int] : IsSumTable(g, k, S) /\ SumOf(k, S) = g[S]
  BY SumIsInATable
<1> QED
  BY <1>1, <1>2, TablesAgree

(* A part of a set and the rest of it add up to the sum of the set: the    *)
(* smallest part for which they did not would lose an element.             *)
SplitsOff(h, S, T) == SumOf(h, S) = SumOf(h, T) + SumOf(h, S \ T)

(* A sum is that of a part and that of the rest.                           *)
LEMMA SumSplit ==
  ASSUME NEW S, IsFiniteSet(S), NEW T \in SUBSET S, NEW h, \A x \in S : h[x] \in Int
  PROVE  SumOf(h, S) = SumOf(h, T) + SumOf(h, S \ T)
<1> DEFINE fails == {U \in SUBSET S : ~ SplitsOff(h, S, U)}
<1> SUFFICES ASSUME fails # {} PROVE FALSE
  BY DEF SplitsOff
<1>1. PICK U \in fails : \A y \in U : U \ {y} \notin fails
  BY MinimalSet
<1>2. \A V \in SUBSET S : IsFiniteSet(V) /\ SumOf(h, V) \in Int
  <2> SUFFICES ASSUME NEW V \in SUBSET S PROVE IsFiniteSet(V) /\ SumOf(h, V) \in Int
    OBVIOUS
  <2>1. IsFiniteSet(V) /\ \A x \in V : h[x] \in Int
    BY FS_Subset
  <2> QED
    BY <2>1, SumType
<1>3. U # {}
  <2>1. SumOf(h, {}) = 0 /\ S \ {} = S /\ SumOf(h, S) \in Int
    BY <1>2, SumEmpty
  <2>2. SplitsOff(h, S, {})
    BY <2>1 DEF SplitsOff
  <2> QED
    BY <1>1, <2>2
<1>4. PICK y \in U : TRUE
  BY <1>3
<1> DEFINE V == U \ {y}
<1>5. SumOf(h, S) = SumOf(h, V) + SumOf(h, S \ V)
  BY <1>1 DEF SplitsOff
<1>6. SumOf(h, U) = SumOf(h, V) + h[y]
  BY <1>2, SumTake
<1>7. SumOf(h, S \ V) = SumOf(h, S \ U) + h[y]
  <2>1. (S \ V) \ {y} = S \ U /\ y \in S \ V /\ S \ V \in SUBSET S
    OBVIOUS
  <2>2. IsFiniteSet(S \ V) /\ \A x \in S \ V : h[x] \in Int
    BY <1>2, <2>1
  <2> HIDE DEF V
  <2> QED
    BY <2>1, <2>2, SumTake
<1>8. /\ SumOf(h, V) \in Int /\ SumOf(h, S \ U) \in Int /\ h[y] \in Int
  BY <1>2
<1>9. SumOf(h, S) = SumOf(h, U) + SumOf(h, S \ U)
  <2> HIDE DEF V
  <2> QED
    BY <1>5, <1>6, <1>7, <1>8
<1> QED
  BY <1>1, <1>9 DEF SplitsOff

(* A sum of terms that are at most those of another is at most its sum.    *)
IsBelow(h, k, T) == SumOf(h, T) <= SumOf(k, T)

(* Smaller summands have a smaller sum.                                    *)
LEMMA SumBelow ==
  ASSUME NEW S, IsFiniteSet(S), NEW h, NEW k,
         \A x \in S : h[x] \in Int /\ k[x] \in Int /\ h[x] <= k[x]
  PROVE  SumOf(h, S) <= SumOf(k, S)
<1> DEFINE fails == {U \in SUBSET S : ~ IsBelow(h, k, U)}
<1> SUFFICES ASSUME fails # {} PROVE FALSE
  BY DEF IsBelow
<1>1. PICK U \in fails : \A y \in U : U \ {y} \notin fails
  BY MinimalSet
<1>2. PICK y \in U : TRUE
  BY <1>1, SumEmpty DEF IsBelow
<1>3. /\ IsFiniteSet(U) /\ IsFiniteSet(U \ {y})
      /\ \A x \in U : h[x] \in Int /\ k[x] \in Int
  BY FS_Subset
<1>4. /\ SumOf(h, U) = SumOf(h, U \ {y}) + h[y]
      /\ SumOf(k, U) = SumOf(k, U \ {y}) + k[y]
  BY <1>3, SumTake
<1>5. SumOf(h, U \ {y}) \in Int /\ SumOf(k, U \ {y}) \in Int
  BY <1>3, SumType
<1>6. SumOf(h, U \ {y}) <= SumOf(k, U \ {y})
  BY <1>1 DEF IsBelow
<1>7. h[y] \in Int /\ k[y] \in Int /\ h[y] <= k[y]
  OBVIOUS
<1>8. SumOf(h, U) <= SumOf(k, U)
  <2> HIDE DEF fails
  <2> QED
    BY <1>4, <1>5, <1>6, <1>7
<1> QED
  BY <1>1, <1>8 DEF IsBelow

(* Natural numbers add up to a natural number.                             *)
LEMMA SumNat ==
  ASSUME NEW S, IsFiniteSet(S), NEW h, \A x \in S : h[x] \in Nat
  PROVE  SumOf(h, S) \in Nat
<1> DEFINE fails == {U \in SUBSET S : SumOf(h, U) \notin Nat}
<1> SUFFICES ASSUME fails # {} PROVE FALSE
  OBVIOUS
<1>1. PICK U \in fails : \A y \in U : U \ {y} \notin fails
  BY MinimalSet
<1>2. PICK y \in U : TRUE
  BY <1>1, SumEmpty
<1>3. IsFiniteSet(U) /\ \A x \in U : h[x] \in Int
  BY FS_Subset
<1>4. SumOf(h, U) = SumOf(h, U \ {y}) + h[y]
  BY <1>3, SumTake
<1>5. SumOf(h, U \ {y}) \in Nat /\ h[y] \in Nat
  BY <1>1
<1>6. SumOf(h, U) \in Nat
  BY <1>4, <1>5
<1> QED
  BY <1>1, <1>6

(* More terms, none of them negative, make no smaller sum.                 *)
LEMMA SumPart ==
  ASSUME NEW S, IsFiniteSet(S), NEW T \in SUBSET S, NEW h, \A x \in S : h[x] \in Nat
  PROVE  SumOf(h, T) <= SumOf(h, S)
<1>1. SumOf(h, S) = SumOf(h, T) + SumOf(h, S \ T)
  BY SumSplit
<1>2. IsFiniteSet(T) /\ IsFiniteSet(S \ T)
  BY FS_Subset, FS_Difference
<1>3. SumOf(h, T) \in Nat /\ SumOf(h, S \ T) \in Nat
  BY <1>2, SumNat
<1> QED
  BY <1>1, <1>3

(* Terms that are nothing make no sum.                                     *)
LEMMA SumZero ==
  ASSUME NEW S, IsFiniteSet(S), NEW h, \A x \in S : h[x] = 0
  PROVE  SumOf(h, S) = 0
<1> DEFINE fails == {U \in SUBSET S : SumOf(h, U) # 0}
<1> SUFFICES ASSUME fails # {} PROVE FALSE
  OBVIOUS
<1>1. PICK U \in fails : \A y \in U : U \ {y} \notin fails
  BY MinimalSet
<1>2. PICK y \in U : TRUE
  BY <1>1, SumEmpty
<1>3. IsFiniteSet(U) /\ (\A x \in U : h[x] \in Int) /\ h[y] = 0
  BY FS_Subset
<1>4. SumOf(h, U) = SumOf(h, U \ {y}) + h[y]
  BY <1>3, SumTake
<1>5. SumOf(h, U \ {y}) = 0
  BY <1>1
<1> QED
  BY <1>3, <1>4, <1>5
=============================================================================
