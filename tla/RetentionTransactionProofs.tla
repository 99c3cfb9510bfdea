----------------------- MODULE RetentionTransactionProofs -----------------------
(***************************************************************************)
(* Theorems about RetentionTransaction: what a plan takes is sound, for    *)
(* any artifacts, bundles, sizes and ceilings; what the transactions unlink*)
(* is what was planned, and bundles go whole or not at all, however many   *)
(* processes prune, whichever are killed and whatever the owners write.    *)
(***************************************************************************)
EXTENDS RetentionTransaction, Integers, WellFoundedInduction, TLAPS

(* Induction by least counterexample.  Every set of natural numbers but the*)
(* empty one has a least element.                                          *)
LEMMA LeastElement ==
  ASSUME NEW S \in SUBSET Nat, S # {}
  PROVE  \E m \in S : \A k \in S : m <= k
<1> DEFINE Below == {ss \in Nat \X Nat : ss[1] < ss[2]}
<1>1. IsWellFoundedOn(Below, Nat)
  BY NatLessThanWellFounded DEF OpToRel
<1> HIDE DEF Below
<1>2. PICK m \in S : \A k \in S : <<k, m>> \notin Below
  BY <1>1, WFMin
<1>3. SUFFICES ASSUME NEW k \in S, k < m PROVE FALSE
  BY <1>2
<1>4. <<k, m>> \in Nat \X Nat /\ <<k, m>>[1] < <<k, m>>[2]
  BY <1>3
<1> QED
  BY <1>2, <1>4 DEF Below

(* The oldest of some artifacts is among them.                             *)
LEMMA OldestIsThere ==
  ASSUME NEW S \in SUBSET Nat, S # {}
  PROVE  Min(S) \in S /\ \A x \in S : Min(S) <= x
<1>1. \E x \in S : \A y \in S : x <= y
  BY LeastElement
<1> QED
  BY <1>1, Zenon DEF Min

(* The youngest of them too.                                               *)
LEMMA YoungestIsThere ==
  ASSUME NEW n \in Nat, NEW S \in SUBSET (0 .. n), S # {}
  PROVE  Max(S) \in S /\ \A x \in S : x <= Max(S)
<1> DEFINE above == {y \in 0 .. n : \A x \in S : x <= y}
<1>1. PICK m \in above : \A y \in above : m <= y
  <2>1. n \in above
    <3>1. \A x \in S : x <= n
      OBVIOUS
    <3> QED
      BY <3>1
  <2>2. above \in SUBSET Nat
    OBVIOUS
  <2> QED
    BY <2>1, <2>2, LeastElement
<1>2. m \in S
  <2> SUFFICES ASSUME m \notin S PROVE FALSE
    OBVIOUS
  <2>1. PICK x \in S : TRUE
    OBVIOUS
  <2>2. \A y \in S : y <= m - 1
    BY <1>1
  <2>3. m - 1 \in 0 .. n
    BY <1>1, <2>1, <2>2
  <2>4. m - 1 \in above
    BY <2>2, <2>3
  <2> QED
    BY <1>1, <2>4
<1>3. \E z \in S : \A y \in S : z >= y
  BY <1>1, <1>2
<1>4. Max(S) \in S /\ \A y \in S : Max(S) >= y
  BY <1>3, Zenon DEF Max
<1> QED
  BY <1>4

-----------------------------------------------------------------------------
(* Where the processes stand                                               *)

OpenStatus == {"moving", "purging"}
StepName ==
  {"idle", "lock", "recover", "begin", "stage", "move", "verify", "save", "purge",
   "rollback", "return", "clean"}

Journal ==
  [status : {"none"} \cup OpenStatus \cup Terminal,
   operations : [Artifact -> OperationState], snapshots : [Artifact -> Content]]

(* The types with the domains of the functions.                            *)
RowsOK ==
  /\ source \in [Artifact -> Content]
  /\ trash \in [Txn -> [Artifact -> Content \cup {"torn"}]]
  /\ dirs \subseteq Txn /\ rewritten \subseteq Artifact /\ writes \in 0..MaxWrites
  /\ journal \in [Txn -> Journal]
  /\ at \in [Process -> [step : StepName, txn : 0..MaxTxns, own : BOOLEAN]]
  /\ plan \in [Process -> [Artifact -> Content]]
  /\ memory \in [Process -> [Artifact -> OperationState]]
  /\ left \in [Process -> SUBSET Artifact]
  /\ lock \in Process \cup {NoOne} /\ kills \in 0..MaxKills
  /\ \A p \in Process : at[p].step \notin {"idle", "lock"} => lock = p

(* A journal says which artifacts may be in the trash; one that purges has *)
(* there what it recorded, none of it held, and one that is over nothing.  *)
JournalIsTrue(t) ==
  /\ journal[t].status \notin OpenStatus => trash[t] = Nothing
  /\ \A a \in Artifact :
       /\ journal[t].snapshots[a] \notin HeldContent
       /\ trash[t][a] # "absent" => journal[t].operations[a] \notin {"unplanned", "purged"}
       /\ journal[t].status = "moving" => journal[t].operations[a] # "purged"
       /\ journal[t].status = "purging" =>
            trash[t][a] \in {"absent", "torn", journal[t].snapshots[a]}

Moves(p) ==
  \/ at[p].step \in {"stage", "move", "verify"}
  \/ at[p].step = "save" /\ journal[at[p].txn].status = "moving"
Purges(p) ==
  \/ at[p].step = "purge"
  \/ at[p].step = "save" /\ journal[at[p].txn].status # "moving"
Returns(p) == at[p].step \in {"rollback", "return"}

(* What a process knows of the transaction it works on: outside of what is *)
(* left to do, the artifacts are where this loop leaves them.              *)
WorkerIsRight(p) ==
  LET t == at[p].txn IN
  /\ at[p].step = "begin" => t \in Txn /\ journal[t].status = "none"
  /\ at[p].step = "clean" => t \in Txn /\ journal[t].status \in Terminal
  /\ at[p].step \in {"move", "verify", "save", "return"} => left[p] # {}
  /\ Moves(p) \/ Purges(p) \/ Returns(p) =>
       /\ t \in Txn
       /\ journal[t].status = IF Purges(p) THEN "purging" ELSE "moving"
       /\ Planned(memory[p]) = Planned(journal[t].operations)
       /\ left[p] \subseteq Planned(memory[p])
       /\ \A a \in Artifact : memory[p][a] = "purged" =>
            Purges(p) /\ trash[t][a] = "absent"
       /\ \A a \in Artifact \ left[p] :
            \/ trash[t][a] = "absent"
            \/ Moves(p) /\ trash[t][a] = journal[t].snapshots[a]
  /\ at[p].step = "return" => InTrash(p) = Snapshot(p)
  /\ at[p].step = "save" =>
       IF Purges(p) THEN memory[p][Operation(p)] = "purged" ELSE InTrash(p) = Snapshot(p)

TransactionInv ==
  /\ RowsOK
  /\ \A p \in Process : \A a \in Artifact : plan[p][a] \notin HeldContent
  /\ \A t \in Txn : JournalIsTrue(t)
  /\ \A p \in Process : WorkerIsRight(p)

-----------------------------------------------------------------------------
(* The recursion of a plan                                                 *)

(* f goes on as step says, as far as n.                                    *)
Follows(f, base, step, n) ==
  f[0] = base /\ \A k \in 1 .. n : f[k] = step[<<k, f[k - 1]>>]
Reaches(base, step, N, S, n) ==
  \E f \in [0 .. N -> S] : Follows(f, base, step, n)

(* Whatever is given for each step from the value before it, there is the  *)
(* sequence of these values: if not, for a least number of steps.          *)
LEMMA NextIteration ==
  ASSUME NEW N \in Nat, NEW S, NEW base \in S, NEW step \in [(1 .. N) \X S -> S],
         NEW n \in Nat, n < N, Reaches(base, step, N, S, n)
  PROVE  Reaches(base, step, N, S, n + 1)
<1>1. PICK f \in [0 .. N -> S] : Follows(f, base, step, n)
  BY DEF Reaches
<1> DEFINE g == [f EXCEPT ![n + 1] = step[<<n + 1, f[n]>>]]
<1>2. step[<<n + 1, f[n]>>] \in S
  <2>1. <<n + 1, f[n]>> \in (1 .. N) \X S
    OBVIOUS
  <2> QED
    BY <2>1
<1>3. g \in [0 .. N -> S] /\ g[n + 1] = step[<<n + 1, f[n]>>]
  BY <1>2
<1>4. \A k \in 0 .. n : g[k] = f[k]
  OBVIOUS
<1> HIDE DEF g
<1>5. \A k \in 1 .. n + 1 : g[k] = step[<<k, g[k - 1]>>]
  <2> SUFFICES ASSUME NEW k \in 1 .. n + 1 PROVE g[k] = step[<<k, g[k - 1]>>]
    OBVIOUS
  <2>1. g[k - 1] = f[k - 1]
    BY <1>4
  <2>2. CASE k = n + 1
    BY <1>3, <2>1, <2>2
  <2>3. CASE k # n + 1
    BY <1>1, <1>4, <2>1, <2>3 DEF Follows
  <2> QED
    BY <2>2, <2>3
<1>6. g[0] = base
  BY <1>1, <1>4 DEF Follows
<1> QED
  BY <1>3, <1>5, <1>6 DEF Reaches, Follows

(* All the steps can be taken.                                             *)
LEMMA IterationExists ==
  ASSUME NEW N \in Nat, NEW S, NEW base \in S, NEW step \in [(1 .. N) \X S -> S]
  PROVE  \E f \in [0 .. N -> S] : Follows(f, base, step, N)
<1> DEFINE fails == {n \in 0 .. N : ~ Reaches(base, step, N, S, n)}
<1> SUFFICES ASSUME fails # {} PROVE FALSE
  BY DEF Reaches
<1>1. PICK n \in fails : \A i \in fails : n <= i
  <2>1. fails \in SUBSET Nat
    OBVIOUS
  <2> QED
    BY <2>1, LeastElement
<1>2. n # 0
  <2>1. Reaches(base, step, N, S, 0)
    <3>1. [k \in 0 .. N |-> base] \in [0 .. N -> S]
      OBVIOUS
    <3>2. Follows([k \in 0 .. N |-> base], base, step, 0)
      BY DEF Follows
    <3> QED
      BY <3>1, <3>2, Zenon DEF Reaches
  <2> QED
    BY <1>1, <2>1
<1>3. n - 1 \in 0 .. N /\ n - 1 < n
  BY <1>2
<1>4. n - 1 \notin fails
  BY <1>1, <1>3
<1>5. Reaches(base, step, N, S, n - 1)
  BY <1>3, <1>4
<1>6. Reaches(base, step, N, S, (n - 1) + 1)
  BY <1>2, <1>3, <1>5, NextIteration
<1> QED
  BY <1>1, <1>6

(* Nothing goes wrong first, so nothing goes wrong.                        *)
LEMMA NothingGoesWrong ==
  ASSUME NEW n \in Nat, NEW Wrong \in SUBSET (0 .. n), 0 \notin Wrong,
         \A k \in 1 .. n : k - 1 \notin Wrong => k \notin Wrong
  PROVE  Wrong = {}
<1> SUFFICES ASSUME Wrong # {} PROVE FALSE
  OBVIOUS
<1>1. PICK k \in Wrong : \A i \in Wrong : k <= i
  BY LeastElement
<1>2. k \in 1 .. n /\ ~ (k <= k - 1)
  OBVIOUS
<1> QED
  BY <1>1, <1>2

(* Two sequences that go on in the same way are the same.                  *)
LEMMA SameSequence ==
  ASSUME NEW n \in Nat, NEW f, NEW g,
         f = [k \in 0 .. n |-> f[k]], g = [k \in 0 .. n |-> g[k]], f[0] = g[0],
         \A k \in 1 .. n : f[k - 1] = g[k - 1] => f[k] = g[k]
  PROVE  f = g
<1> DEFINE differ == {k \in 0 .. n : f[k] # g[k]}
<1>1. \A k \in 1 .. n : k \in 0 .. n /\ k - 1 \in 0 .. n
  OBVIOUS
<1>2. 0 \notin differ /\ \A k \in 1 .. n : k - 1 \notin differ => k \notin differ
  BY <1>1
<1>3. differ \in SUBSET (0 .. n)
  OBVIOUS
<1> HIDE DEF differ
<1>4. differ = {}
  BY <1>2, <1>3, NothingGoesWrong
<1>5. \A k \in 0 .. n : f[k] = g[k]
  BY <1>4 DEF differ
<1> QED
  BY <1>5

(* The bundles evicted up to the artifact k, from those before it.         *)
EvictedNext(found, k, before) ==
  IF /\ Oldest(found, k) /\ k \in Safe(found) \ before
     /\ ClassesOf(found, k) \cap Pressured(Present(found) \ before) # {}
  THEN before \cup Members(found, k)
  ELSE before
EvictedTo(f, found, aged) ==
  /\ f \in [0 .. Count -> SUBSET Present(found)] /\ f[0] = aged
  /\ \A k \in 1 .. Count : f[k] = EvictedNext(found, k, f[k - 1])

(* Evicted is where these end.                                             *)
LEMMA EvictedIs ==
  ASSUME NEW found, NEW aged \in SUBSET Present(found)
  PROVE  \E f : EvictedTo(f, found, aged) /\ Evicted(found, aged) = f[Count]
<1> DEFINE S == SUBSET Present(found)
           step == [x \in (1 .. Count) \X S |-> EvictedNext(found, x[1], x[2])]
           Table(f) ==
             [k \in 0 .. Count |->
                IF k = 0 THEN aged ELSE EvictedNext(found, k, f[k - 1])]
           TableOf(f) ==
             [k \in 0 .. Count |->
                IF k = 0 THEN aged
                ELSE LET before == f[k - 1] IN
                     IF /\ Oldest(found, k) /\ k \in Safe(found) \ before
                        /\ ClassesOf(found, k) \cap Pressured(Present(found) \ before) # {}
                     THEN before \cup Members(found, k)
                     ELSE before]
           evicted == CHOOSE f : f = TableOf(f)
<1>1. Count \in Nat
  BY RetentionPlanAssumption
<1>2. \A k \in 1 .. Count, before \in S : EvictedNext(found, k, before) \in S
  BY DEF EvictedNext, Members
<1>3. step \in [(1 .. Count) \X S -> S]
  BY <1>2
<1>4. PICK g \in [0 .. Count -> S] : Follows(g, aged, step, Count)
  BY <1>1, <1>3, IterationExists
<1>5. EvictedTo(g, found, aged)
  <2>1. ASSUME NEW k \in 1 .. Count PROVE g[k] = EvictedNext(found, k, g[k - 1])
    <3>1. k - 1 \in 0 .. Count
      BY <1>1
    <3>2. <<k, g[k - 1]>> \in (1 .. Count) \X S
      BY <3>1
    <3>3. step[<<k, g[k - 1]>>] = EvictedNext(found, k, g[k - 1])
      BY <3>2
    <3> QED
      BY <1>4, <3>3 DEF Follows
  <2> QED
    BY <1>4, <2>1 DEF EvictedTo, Follows
<1>6. \A f : Table(f) = TableOf(f)
  BY DEF EvictedNext
<1>7. g = Table(g)
  <2>1. \A k \in 0 .. Count : g[k] = Table(g)[k]
    BY <1>1, <1>5 DEF EvictedTo
  <2> QED
    BY <1>4, <2>1
<1>8. g = TableOf(g)
  BY <1>6, <1>7
<1>9. evicted = TableOf(evicted)
  BY <1>8, Zenon
<1>10. Evicted(found, aged) = evicted[Count]
  BY Zenon DEF Evicted
<1> HIDE DEF evicted
<1> HIDE DEF TableOf
<1>11. evicted = Table(evicted)
  BY <1>6, <1>9
<1>12. evicted = g
  <2>1. ASSUME NEW f, f = Table(f)
        PROVE  /\ f = [k \in 0 .. Count |-> f[k]] /\ f[0] = aged
               /\ \A k \in 1 .. Count : f[k] = EvictedNext(found, k, f[k - 1])
    <3>1. DOMAIN Table(f) = 0 .. Count /\ Table(f)[0] = aged
      BY <1>1
    <3>2. Table(f) = [k \in 0 .. Count |-> Table(f)[k]]
      OBVIOUS
    <3>3. \A k \in 1 .. Count : Table(f)[k] = EvictedNext(found, k, f[k - 1])
      BY <1>1
    <3> HIDE DEF Table
    <3> QED
      BY <2>1, <3>1, <3>2, <3>3
  <2> HIDE DEF Table
  <2> QED
    BY <1>1, <1>7, <1>11, <2>1, SameSequence
<1> QED
  BY <1>5, <1>10, <1>12

-----------------------------------------------------------------------------
(* Bundles                                                                 *)

(* What holds of a bundle holds of each of its members.                    *)
LEMMA OneBundle ==
  ASSUME NEW found, NEW a, NEW b \in Members(found, a)
  PROVE  Members(found, b) = Members(found, a)
BY DEF Members

(* A bundle is safe as a whole.                                            *)
LEMMA SafeTogether ==
  ASSUME NEW found, NEW a \in Safe(found), NEW b \in Members(found, a)
  PROVE  b \in Safe(found)
<1>1. Members(found, b) = Members(found, a)
  BY OneBundle
<1> QED
  BY <1>1 DEF Safe, Members

(* A bundle expires as a whole.                                            *)
LEMMA AgedTogether ==
  ASSUME NEW found, NEW cutoff, NEW a \in Aged(found, cutoff), NEW b \in Members(found, a)
  PROVE  b \in Aged(found, cutoff)
<1>1. Members(found, b) = Members(found, a)
  BY OneBundle
<1>2. b \in Safe(found)
  BY SafeTogether DEF Aged
<1> QED
  BY <1>1, <1>2 DEF Aged

(* Whole bundles, and nothing held.                                        *)
TakesBundles(found, taken) ==
  /\ taken \subseteq Safe(found)
  /\ \A a \in taken : Members(found, a) \subseteq taken

(* A bundle is evicted at its oldest artifact, whole or not at all.        *)
LEMMA EvictionTakesBundles ==
  ASSUME NEW found, NEW aged \in SUBSET Present(found), NEW f, EvictedTo(f, found, aged),
         TakesBundles(found, aged)
  PROVE  \A k \in 0 .. Count : TakesBundles(found, f[k])
<1> DEFINE wrong == {k \in 0 .. Count : ~ TakesBundles(found, f[k])}
<1>1. Count \in Nat
  BY RetentionPlanAssumption
<1>2. 0 \notin wrong
  BY DEF EvictedTo
<1>3. ASSUME NEW k \in 1 .. Count, k - 1 \notin wrong PROVE k \notin wrong
  <2>1. TakesBundles(found, f[k - 1])
    BY <1>1, <1>3
  <2>2. f[k] = EvictedNext(found, k, f[k - 1])
    BY DEF EvictedTo
  <2>3. CASE /\ Oldest(found, k) /\ k \in Safe(found) \ f[k - 1]
             /\ ClassesOf(found, k) \cap Pressured(Present(found) \ f[k - 1]) # {}
    <3>1. f[k] = f[k - 1] \cup Members(found, k)
      BY <2>2, <2>3 DEF EvictedNext
    <3>2. Members(found, k) \subseteq Safe(found)
      BY <2>3, SafeTogether
    <3>3. \A a \in Members(found, k) : Members(found, a) = Members(found, k)
      BY OneBundle
    <3> QED
      BY <2>1, <3>1, <3>2, <3>3 DEF TakesBundles
  <2>4. CASE ~(/\ Oldest(found, k) /\ k \in Safe(found) \ f[k - 1]
               /\ ClassesOf(found, k) \cap Pressured(Present(found) \ f[k - 1]) # {})
    BY <2>1, <2>2, <2>4 DEF EvictedNext
  <2> QED
    BY <2>3, <2>4
<1>4. wrong \in SUBSET (0 .. Count)
  OBVIOUS
<1> HIDE DEF wrong
<1>5. wrong = {}
  BY <1>1, <1>2, <1>3, <1>4, NothingGoesWrong
<1> QED
  BY <1>5 DEF wrong

(* Nothing that is evicted comes back.                                     *)
LEMMA EvictionGrows ==
  ASSUME NEW found, NEW aged \in SUBSET Present(found), NEW f, EvictedTo(f, found, aged),
         NEW i \in 0 .. Count
  PROVE  \A k \in i .. Count : f[i] \subseteq f[k]
<1> DEFINE wrong == {k \in 0 .. Count : i <= k /\ ~ (f[i] \subseteq f[k])}
<1>1. Count \in Nat
  BY RetentionPlanAssumption
<1>2. 0 \notin wrong
  OBVIOUS
<1>3. ASSUME NEW k \in 1 .. Count, k - 1 \notin wrong PROVE k \notin wrong
  <2>1. f[k - 1] \subseteq f[k]
    BY DEF EvictedTo, EvictedNext
  <2>2. CASE i = k
    BY <2>2
  <2>3. CASE i # k
    <3>1. i <= k => i <= k - 1
      BY <1>1, <2>3
    <3>2. k - 1 \in 0 .. Count
      BY <1>1
    <3> QED
      BY <1>3, <2>1, <3>1, <3>2
  <2> QED
    BY <2>2, <2>3
<1>4. wrong \in SUBSET (0 .. Count)
  OBVIOUS
<1> HIDE DEF wrong
<1>5. wrong = {}
  BY <1>1, <1>2, <1>3, <1>4, NothingGoesWrong
<1>6. \A k \in i .. Count : k \in 0 .. Count /\ i <= k
  BY <1>1
<1> QED
  BY <1>5, <1>6 DEF wrong

(* An artifact that is the oldest of its bundle goes at its own step.      *)
LEMMA OldestGoesAtItsStep ==
  ASSUME NEW found, NEW aged \in SUBSET Present(found), NEW f, EvictedTo(f, found, aged),
         NEW a \in Artifact, Oldest(found, a), a \notin aged
  PROVE  \A k \in 0 .. Count : a \in f[k] => a <= k /\ a \in f[a]
<1> DEFINE wrong == {k \in 0 .. Count : a \in f[k] /\ ~ (a <= k /\ a \in f[a])}
<1>1. Count \in Nat
  BY RetentionPlanAssumption
<1>2. 0 \notin wrong
  BY DEF EvictedTo
<1>3. ASSUME NEW k \in 1 .. Count, k - 1 \notin wrong PROVE k \notin wrong
  <2> SUFFICES ASSUME a \in f[k] PROVE a <= k /\ a \in f[a]
    OBVIOUS
  <2>1. k - 1 \in 0 .. Count /\ (a <= k - 1 => a <= k)
    BY <1>1 DEF Artifact
  <2>2. CASE a \in f[k - 1]
    BY <1>3, <2>1, <2>2
  <2>3. CASE a \notin f[k - 1]
    <3>1. a \in Members(found, k) /\ Oldest(found, k)
      BY <2>3 DEF EvictedTo, EvictedNext
    <3>2. k \in Members(found, a)
      BY <3>1 DEF Oldest, Members
    <3>3. a <= k /\ k <= a
      BY <3>1, <3>2 DEF Oldest
    <3>4. a = k
      BY <1>1, <3>3 DEF Artifact
    <3> QED
      BY <3>3, <3>4
  <2> QED
    BY <2>2, <2>3
<1>4. wrong \in SUBSET (0 .. Count)
  OBVIOUS
<1> HIDE DEF wrong
<1>5. wrong = {}
  BY <1>1, <1>2, <1>3, <1>4, NothingGoesWrong
<1> QED
  BY <1>5 DEF wrong

-----------------------------------------------------------------------------
(* Bytes                                                                   *)

(* The bytes of a class up to the artifact k, from those before it.        *)
BytesNext(kept, class, k, before) ==
  before + IF k \in kept /\ Class[k] = class THEN Size[k] ELSE 0
BytesTo(f, kept, class) ==
  /\ f \in [0 .. Count -> Nat] /\ f[0] = 0
  /\ \A k \in 1 .. Count : f[k] = BytesNext(kept, class, k, f[k - 1])

(* Bytes is where these end.                                               *)
LEMMA BytesIs ==
  ASSUME NEW kept, NEW class
  PROVE  \E f : BytesTo(f, kept, class) /\ Bytes(kept, class) = f[Count]
<1> DEFINE step == [x \in (1 .. Count) \X Nat |-> BytesNext(kept, class, x[1], x[2])]
           Table(f) ==
             [k \in 0 .. Count |->
                IF k = 0 THEN 0 ELSE BytesNext(kept, class, k, f[k - 1])]
           TableOf(f) ==
             [k \in 0 .. Count |->
                IF k = 0 THEN 0
                ELSE f[k - 1] + IF k \in kept /\ Class[k] = class THEN Size[k] ELSE 0]
           upTo == CHOOSE f : f = TableOf(f)
<1>1. Count \in Nat /\ Size \in [1 .. Count -> Nat]
  BY RetentionPlanAssumption DEF Artifact
<1>2. \A k \in 1 .. Count, before \in Nat : BytesNext(kept, class, k, before) \in Nat
  <2> SUFFICES ASSUME NEW k \in 1 .. Count, NEW before \in Nat
               PROVE  BytesNext(kept, class, k, before) \in Nat
    OBVIOUS
  <2>1. Size[k] \in Nat
    BY <1>1
  <2>2. CASE k \in kept /\ Class[k] = class
    BY <2>1, <2>2 DEF BytesNext
  <2>3. CASE ~(k \in kept /\ Class[k] = class)
    BY <2>3 DEF BytesNext
  <2> QED
    BY <2>2, <2>3
<1>3. step \in [(1 .. Count) \X Nat -> Nat]
  BY <1>2
<1>4. PICK g \in [0 .. Count -> Nat] : Follows(g, 0, step, Count)
  BY <1>1, <1>3, IterationExists
<1>5. BytesTo(g, kept, class)
  <2>1. ASSUME NEW k \in 1 .. Count PROVE g[k] = BytesNext(kept, class, k, g[k - 1])
    <3>1. k - 1 \in 0 .. Count
      BY <1>1
    <3>2. <<k, g[k - 1]>> \in (1 .. Count) \X Nat
      BY <3>1
    <3>3. step[<<k, g[k - 1]>>] = BytesNext(kept, class, k, g[k - 1])
      BY <3>2
    <3> QED
      BY <1>4, <3>3 DEF Follows
  <2> QED
    BY <1>4, <2>1 DEF BytesTo, Follows
<1>6. \A f : Table(f) = TableOf(f)
  BY Zenon DEF BytesNext
<1>7. g = Table(g)
  <2>1. \A k \in 0 .. Count : g[k] = Table(g)[k]
    BY <1>1, <1>5 DEF BytesTo
  <2> QED
    BY <1>4, <2>1
<1>8. g = TableOf(g)
  BY <1>6, <1>7
<1>9. upTo = TableOf(upTo)
  BY <1>8, Zenon
<1>10. Bytes(kept, class) = upTo[Count]
  BY Zenon DEF Bytes
<1> HIDE DEF upTo
<1> HIDE DEF TableOf
<1>11. upTo = Table(upTo)
  BY <1>6, <1>9
<1>12. upTo = g
  <2>1. ASSUME NEW f, f = Table(f)
        PROVE  /\ f = [k \in 0 .. Count |-> f[k]] /\ f[0] = 0
               /\ \A k \in 1 .. Count : f[k] = BytesNext(kept, class, k, f[k - 1])
    <3>1. DOMAIN Table(f) = 0 .. Count /\ Table(f)[0] = 0
      BY <1>1
    <3>2. Table(f) = [k \in 0 .. Count |-> Table(f)[k]]
      OBVIOUS
    <3>3. \A k \in 1 .. Count : Table(f)[k] = BytesNext(kept, class, k, f[k - 1])
      BY <1>1
    <3> HIDE DEF Table
    <3> QED
      BY <2>1, <3>1, <3>2, <3>3
  <2> HIDE DEF Table
  <2> QED
    BY <1>1, <1>7, <1>11, <2>1, SameSequence
<1> QED
  BY <1>5, <1>10, <1>12

(* Who keeps less has no more bytes, of any class.                         *)
LEMMA KeepingLess ==
  ASSUME NEW more, NEW less \in SUBSET more
  PROVE  Pressured(less) \subseteq Pressured(more)
<1> SUFFICES ASSUME NEW class \in Classes, Bytes(less, class) > Ceiling[class]
             PROVE  Bytes(more, class) > Ceiling[class]
  BY DEF Pressured
<1>1. PICK f : BytesTo(f, less, class) /\ Bytes(less, class) = f[Count]
  BY BytesIs
<1>2. PICK g : BytesTo(g, more, class) /\ Bytes(more, class) = g[Count]
  BY BytesIs
<1>3. Count \in Nat /\ Size \in [1 .. Count -> Nat] /\ Ceiling[class] \in Nat
  BY RetentionPlanAssumption DEF Artifact
<1> DEFINE wrong == {k \in 0 .. Count : ~ (f[k] <= g[k])}
<1>4. 0 \notin wrong
  BY <1>1, <1>2 DEF BytesTo
<1>5. ASSUME NEW k \in 1 .. Count, k - 1 \notin wrong PROVE k \notin wrong
  <2>1. k \in 0 .. Count /\ k - 1 \in 0 .. Count
    BY <1>3
  <2>2. f[k - 1] <= g[k - 1] /\ f[k - 1] \in Nat /\ g[k - 1] \in Nat /\ Size[k] \in Nat
    BY <1>1, <1>2, <1>3, <1>5, <2>1 DEF BytesTo
  <2>3. f[k] = BytesNext(less, class, k, f[k - 1])
    BY <1>1 DEF BytesTo
  <2>4. g[k] = BytesNext(more, class, k, g[k - 1])
    BY <1>2 DEF BytesTo
  <2>5. f[k] <= g[k]
    <3>1. CASE k \in less /\ Class[k] = class
      BY <2>2, <2>3, <2>4, <3>1 DEF BytesNext
    <3>2. CASE ~(k \in less /\ Class[k] = class)
      <4>1. f[k] = f[k - 1]
        BY <2>2, <2>3, <3>2 DEF BytesNext
      <4>2. CASE k \in more /\ Class[k] = class
        BY <2>2, <2>4, <4>1, <4>2 DEF BytesNext
      <4>3. CASE ~(k \in more /\ Class[k] = class)
        BY <2>2, <2>4, <4>1, <4>3 DEF BytesNext
      <4> QED
        BY <4>2, <4>3
    <3> QED
      BY <3>1, <3>2
  <2> QED
    BY <2>5
<1>6. wrong \in SUBSET (0 .. Count)
  OBVIOUS
<1> HIDE DEF wrong
<1>7. wrong = {}
  BY <1>3, <1>4, <1>5, <1>6, NothingGoesWrong
<1>8. f[Count] <= g[Count] /\ f[Count] \in Nat /\ g[Count] \in Nat
  BY <1>1, <1>2, <1>3, <1>7 DEF wrong, BytesTo
<1> QED
  BY <1>1, <1>2, <1>3, <1>8

-----------------------------------------------------------------------------
(* What a plan takes                                                       *)

(* What has expired is whole bundles.                                      *)
LEMMA AgedTakesBundles ==
  ASSUME NEW found, NEW cutoff
  PROVE  TakesBundles(found, Aged(found, cutoff))
BY AgedTogether DEF Aged, TakesBundles

(* The oldest artifact of a bundle is one of it.                           *)
LEMMA OldestOfBundle ==
  ASSUME NEW found, NEW a \in Present(found)
  PROVE  \E o \in Members(found, a) : Oldest(found, o) /\ Members(found, o) = Members(found, a)
<1>1. Members(found, a) \in SUBSET Nat /\ a \in Members(found, a)
  BY RetentionPlanAssumption DEF Members, Present, Artifact
<1>2. PICK o \in Members(found, a) : \A b \in Members(found, a) : o <= b
  BY <1>1, LeastElement
<1>3. Members(found, o) = Members(found, a)
  BY OneBundle
<1> QED
  BY <1>2, <1>3 DEF Oldest, Members

(* What a plan deletes is safe and whole; no class of what it could have   *)
(* deleted is over its ceiling; and a younger bundle does not go in place  *)
(* of an older one.                                                        *)
LEMMA DoomedIsSound ==
  ASSUME NEW found, NEW cutoff
  PROVE  LET doomed == Doomed(found, cutoff) IN
         /\ TakesBundles(found, doomed)
         /\ \A a \in Safe(found) \ doomed :
              ClassesOf(found, a) \cap Pressured(Present(found) \ doomed) = {}
         /\ \A old, young \in Artifact :
              /\ Oldest(found, old) /\ Oldest(found, young) /\ old < young
              /\ old \in Safe(found) \ doomed /\ young \in doomed
              /\ ClassesOf(found, young) \subseteq ClassesOf(found, old)
              => young \in Aged(found, cutoff)
<1> DEFINE aged == Aged(found, cutoff)
           doomed == Doomed(found, cutoff)
<1>1. aged \in SUBSET Present(found) /\ TakesBundles(found, aged)
  BY AgedTakesBundles DEF TakesBundles, Safe
<1>2. PICK f : EvictedTo(f, found, aged) /\ doomed = f[Count]
  <2>1. doomed = Evicted(found, aged)
    BY DEF Doomed
  <2> QED
    BY <1>1, <2>1, EvictedIs
<1>3. Count \in Nat
  BY RetentionPlanAssumption
<1> HIDE DEF aged, doomed
<1>4. TakesBundles(found, doomed)
  BY <1>1, <1>2, <1>3, EvictionTakesBundles
<1>5. ASSUME NEW o \in Artifact, Oldest(found, o), o \in Safe(found) \ doomed
      PROVE  ClassesOf(found, o) \cap Pressured(Present(found) \ f[o - 1]) = {}
  <2>1. o \in 1 .. Count /\ o \in 0 .. Count /\ Count \in o .. Count
    BY <1>3 DEF Artifact
  <2>2. f[o] \subseteq f[Count]
    BY <1>1, <1>2, <2>1, EvictionGrows
  <2>3. f[o] = EvictedNext(found, o, f[o - 1])
    BY <1>2, <2>1 DEF EvictedTo
  <2>4. o \notin f[o] /\ o \in Members(found, o)
    BY <1>2, <1>5, <2>2 DEF Oldest, Members
  <2>5. f[o - 1] \subseteq f[o]
    BY <2>3 DEF EvictedNext
  <2> QED
    BY <1>5, <2>3, <2>4, <2>5 DEF EvictedNext
<1>6. ASSUME NEW a \in Safe(found) \ doomed
      PROVE  ClassesOf(found, a) \cap Pressured(Present(found) \ doomed) = {}
  <2>1. PICK o \in Members(found, a) :
          Oldest(found, o) /\ Members(found, o) = Members(found, a)
    BY OldestOfBundle DEF Safe
  <2>2. o \in Artifact /\ a \in Members(found, o) /\ o \in Safe(found)
    BY <2>1, SafeTogether DEF Members, Present, Safe
  <2>3. o \notin doomed
    BY <1>4, <2>2 DEF TakesBundles
  <2>4. ClassesOf(found, o) \cap Pressured(Present(found) \ f[o - 1]) = {}
    BY <1>5, <2>1, <2>2, <2>3
  <2>5. o - 1 \in 0 .. Count /\ Count \in (o - 1) .. Count
    BY <1>3, <2>2 DEF Artifact
  <2>6. f[o - 1] \subseteq doomed
    BY <1>1, <1>2, <2>5, EvictionGrows
  <2>7. Pressured(Present(found) \ doomed) \subseteq Pressured(Present(found) \ f[o - 1])
    BY <2>6, KeepingLess
  <2>8. ClassesOf(found, o) = ClassesOf(found, a)
    BY <2>1 DEF ClassesOf
  <2> QED
    BY <2>4, <2>7, <2>8
<1>7. ASSUME NEW old \in Artifact, NEW young \in Artifact,
             Oldest(found, old), Oldest(found, young), old < young,
             old \in Safe(found) \ doomed, young \in doomed,
             ClassesOf(found, young) \subseteq ClassesOf(found, old), young \notin aged
      PROVE  FALSE
  <2>1. /\ young \in 1 .. Count /\ young - 1 \in 0 .. Count /\ Count \in 0 .. Count
        /\ old - 1 \in 0 .. Count /\ young - 1 \in (old - 1) .. Count
        /\ ~ (young <= young - 1)
    BY <1>3, <1>7 DEF Artifact
  <2>2. young \notin f[young - 1] /\ young \in f[young]
    BY <1>1, <1>2, <1>7, <2>1, OldestGoesAtItsStep
  <2>3. ClassesOf(found, young) \cap Pressured(Present(found) \ f[young - 1]) # {}
    BY <1>2, <2>1, <2>2 DEF EvictedTo, EvictedNext
  <2>4. ClassesOf(found, old) \cap Pressured(Present(found) \ f[old - 1]) = {}
    BY <1>5, <1>7
  <2>5. f[old - 1] \subseteq f[young - 1]
    BY <1>1, <1>2, <2>1, EvictionGrows
  <2>6. Pressured(Present(found) \ f[young - 1])
          \subseteq Pressured(Present(found) \ f[old - 1])
    BY <2>5, KeepingLess
  <2> QED
    BY <1>7, <2>3, <2>4, <2>6
<1> QED
  BY <1>4, <1>6, <1>7 DEF aged, doomed

-----------------------------------------------------------------------------
(* What a step leaves alone                                                *)

(* A process that has no lock has nothing to be right about.               *)
LEMMA OutsideIsRight ==
  ASSUME NEW p, at'[p].step \in {"idle", "lock", "recover"}
  PROVE  WorkerIsRight(p)'
BY DEF WorkerIsRight, Moves, Purges, Returns

(* What a worker knows stays true while its rows and the trash stay.       *)
LEMMA KeepsWorking ==
  ASSUME NEW p, WorkerIsRight(p), at'[p] = at[p], memory'[p] = memory[p],
         left'[p] = left[p], journal' = journal, trash' = trash
  PROVE  WorkerIsRight(p)'
<1>1. /\ Moves(p)' = Moves(p) /\ Purges(p)' = Purges(p) /\ Returns(p)' = Returns(p)
      /\ Operation(p)' = Operation(p)
  BY DEF Moves, Purges, Returns, Operation
<1>2. InTrash(p)' = InTrash(p) /\ Snapshot(p)' = Snapshot(p)
  BY <1>1 DEF InTrash, Snapshot
<1> QED
  BY <1>1, <1>2 DEF WorkerIsRight

(* A journal stays true while it and its trash stay.                       *)
LEMMA KeepsJournal ==
  ASSUME NEW t, JournalIsTrue(t), journal'[t] = journal[t], trash'[t] = trash[t]
  PROVE  JournalIsTrue(t)'
BY DEF JournalIsTrue

(* While a process has the lock, the others stand outside.                 *)
LEMMA HolderSteps ==
  ASSUME TransactionInv, NEW p \in Process, lock = p, lock' = p, plan' = plan,
         \A q \in Process \ {p} : at'[q] = at[q],
         NEW t \in Txn, JournalIsTrue(t)',
         \A u \in Txn \ {t} : journal'[u] = journal[u] /\ trash'[u] = trash[u],
         RowsOK', WorkerIsRight(p)'
  PROVE  TransactionInv'
<1>1. ASSUME NEW q \in Process, q # p PROVE WorkerIsRight(q)'
  <2>1. at[q].step \in {"idle", "lock"}
    BY <1>1 DEF TransactionInv, RowsOK
  <2> QED
    BY <1>1, <2>1, OutsideIsRight
<1>2. ASSUME NEW u \in Txn, u # t PROVE JournalIsTrue(u)'
  BY <1>2, KeepsJournal DEF TransactionInv
<1> QED
  BY <1>1, <1>2 DEF TransactionInv

(* A process that ends, or is killed, leaves the files as they are.        *)
LEMMA LeaveStep ==
  ASSUME TransactionInv, NEW p \in Process, Leave(p),
         UNCHANGED <<source, trash, journal, owners>>, dirs' \subseteq Txn,
         kills' \in 0 .. MaxKills
  PROVE  TransactionInv'
<1>1. RowsOK'
  <2>1. Idle \in [step : StepName, txn : 0 .. MaxTxns, own : BOOLEAN]
    BY RetentionAssumption DEF Idle, StepName
  <2>2. Nothing \in [Artifact -> Content] /\ NoOperations \in [Artifact -> OperationState]
    BY DEF Nothing, NoOperations, Content, OperationState
  <2>3. at' \in [Process -> [step : StepName, txn : 0 .. MaxTxns, own : BOOLEAN]]
    BY <2>1 DEF TransactionInv, RowsOK, Leave
  <2>4. \A q \in Process : at'[q].step \notin {"idle", "lock"} => lock' = q
    BY DEF TransactionInv, RowsOK, Leave, Idle
  <2>5. /\ plan' \in [Process -> [Artifact -> Content]]
        /\ memory' \in [Process -> [Artifact -> OperationState]]
        /\ left' \in [Process -> SUBSET Artifact]
        /\ lock' \in Process \cup {NoOne}
    BY <2>2 DEF TransactionInv, RowsOK, Leave
  <2> QED
    BY <2>3, <2>4, <2>5 DEF TransactionInv, RowsOK, owners
<1>2. ASSUME NEW q \in Process PROVE WorkerIsRight(q)'
  <2>1. CASE q = p
    <3>1. at'[p].step = "idle"
      BY DEF TransactionInv, RowsOK, Leave, Idle
    <3> QED
      BY <2>1, <3>1, OutsideIsRight
  <2>2. CASE q # p
    <3>1. /\ at'[q] = at[q] /\ memory'[q] = memory[q] /\ left'[q] = left[q]
          /\ WorkerIsRight(q)
      BY <2>2 DEF TransactionInv, RowsOK, Leave
    <3> QED
      BY <3>1, KeepsWorking
  <2> QED
    BY <2>1, <2>2
<1>3. \A t \in Txn : JournalIsTrue(t)'
  BY KeepsJournal DEF TransactionInv
<1>4. \A q \in Process : \A a \in Artifact : plan'[q][a] \notin HeldContent
  BY DEF TransactionInv, RowsOK, Leave, Nothing, HeldContent
<1> QED
  BY <1>1, <1>2, <1>3, <1>4 DEF TransactionInv

-----------------------------------------------------------------------------
(* The steps of a transaction                                              *)

(* A step of the lock's holder changes no other process.                   *)
LEMMA GoesOn ==
  ASSUME RowsOK, NEW p \in Process, NEW step \in StepName, Goto(p, step), lock = p, lock' = p
  PROVE  /\ at' \in [Process -> [step : StepName, txn : 0 .. MaxTxns, own : BOOLEAN]]
         /\ at'[p].step = step /\ at'[p].txn = at[p].txn
         /\ \A q \in Process \ {p} : at'[q] = at[q]
         /\ \A q \in Process : at'[q].step \notin {"idle", "lock"} => lock' = q
<1>1. at' = [at EXCEPT ![p] = [@ EXCEPT !.step = step]]
  BY DEF Goto
<1>2. [at[p] EXCEPT !.step = step] \in [step : StepName, txn : 0 .. MaxTxns, own : BOOLEAN]
  <2>1. at[p] \in [step : StepName, txn : 0 .. MaxTxns, own : BOOLEAN]
    BY DEF RowsOK
  <2> QED
    BY <2>1
<1>3. at' \in [Process -> [step : StepName, txn : 0 .. MaxTxns, own : BOOLEAN]]
  BY <1>1, <1>2 DEF RowsOK
<1>4. at'[p].step = step /\ at'[p].txn = at[p].txn
  BY <1>1 DEF RowsOK
<1>5. \A q \in Process \ {p} : at'[q] = at[q]
  BY <1>1 DEF RowsOK
<1> QED
  BY <1>3, <1>4, <1>5 DEF RowsOK

(* The operation a loop is at is one of those that are left.               *)
LEMMA OperationIsLeft ==
  ASSUME RowsOK, NEW p \in Process, left[p] # {}
  PROVE  Operation(p) \in left[p] /\ Operation(p) \in Artifact
<1>1. left[p] \in SUBSET Artifact /\ Count \in Nat
  BY RetentionPlanAssumption DEF RowsOK
<1>2. left[p] \in SUBSET Nat /\ left[p] \in SUBSET (0 .. Count)
  BY <1>1 DEF Artifact
<1>3. Min(left[p]) \in left[p]
  BY <1>2, OldestIsThere
<1>4. Max(left[p]) \in left[p]
  BY <1>1, <1>2, YoungestIsThere
<1> QED
  BY <1>1, <1>3, <1>4 DEF Operation

(* The holder goes on with its transaction t.                              *)
LEMMA GoStep ==
  ASSUME TransactionInv, NEW p \in Process, NEW step \in StepName, NEW t \in Txn,
         Goto(p, step), lock = p, lock' = p, plan' = plan,
         source' \in [Artifact -> Content], dirs' \subseteq Txn,
         trash' \in [Txn -> [Artifact -> Content \cup {"torn"}]],
         journal' \in [Txn -> Journal],
         memory' \in [Process -> [Artifact -> OperationState]],
         left' \in [Process -> SUBSET Artifact],
         UNCHANGED <<owners, kills>>,
         \A u \in Txn \ {t} : journal'[u] = journal[u] /\ trash'[u] = trash[u],
         JournalIsTrue(t)', WorkerIsRight(p)'
  PROVE  TransactionInv'
<1>1. RowsOK
  BY DEF TransactionInv
<1>2. /\ at' \in [Process -> [step : StepName, txn : 0 .. MaxTxns, own : BOOLEAN]]
      /\ \A q \in Process \ {p} : at'[q] = at[q]
      /\ \A q \in Process : at'[q].step \notin {"idle", "lock"} => lock' = q
  BY <1>1, GoesOn
<1>3. RowsOK'
  BY <1>1, <1>2 DEF RowsOK, owners
<1> QED
  BY <1>2, <1>3, HolderSteps

(* It only looks where the artifacts are.                                  *)
LEMMA StayStep ==
  ASSUME TransactionInv, NEW p \in Process, NEW step \in StepName,
         at[p].txn \in Txn, Stay(p, step), lock = p,
         UNCHANGED <<files, owners, kills>>, WorkerIsRight(p)'
  PROVE  TransactionInv'
<1>1. PICK t \in Txn : t = at[p].txn
  OBVIOUS
<1>2. RowsOK /\ JournalIsTrue(t)'
  BY <1>1, KeepsJournal DEF TransactionInv, files
<1>3. /\ source' \in [Artifact -> Content] /\ dirs' \subseteq Txn
      /\ trash' \in [Txn -> [Artifact -> Content \cup {"torn"}]]
      /\ journal' \in [Txn -> Journal]
      /\ memory' \in [Process -> [Artifact -> OperationState]]
      /\ left' \in [Process -> SUBSET Artifact]
      /\ lock' = p /\ plan' = plan /\ Goto(p, step)
      /\ \A u \in Txn \ {t} : journal'[u] = journal[u] /\ trash'[u] = trash[u]
  BY <1>2 DEF RowsOK, files, Stay
<1> QED
  BY <1>2, <1>3, GoStep

(* What a worker that moves, purges or returns knows of its transaction,   *)
(* and what it must know after its step.                                   *)
LEMMA WhenMoving ==
  ASSUME NEW p \in Process, WorkerIsRight(p), NEW t, t = at[p].txn,
         at[p].step \in {"stage", "move", "verify"}
           \/ (at[p].step = "save" /\ journal[t].status = "moving")
  PROVE  /\ t \in Txn /\ journal[t].status = "moving"
         /\ Planned(memory[p]) = Planned(journal[t].operations)
         /\ left[p] \subseteq Planned(memory[p])
         /\ \A a \in Artifact : memory[p][a] # "purged"
         /\ \A a \in Artifact \ left[p] : trash[t][a] \in {"absent", journal[t].snapshots[a]}
         /\ at[p].step # "stage" => left[p] # {}
         /\ at[p].step = "save" => InTrash(p) = Snapshot(p)
<1>1. Moves(p) /\ ~ Purges(p) /\ ~ Returns(p)
  BY DEF Moves, Purges, Returns
<1> QED
  BY <1>1 DEF WorkerIsRight

(* What a worker must know to go on moving.                                *)
LEMMA MovesOn ==
  ASSUME NEW p \in Process, NEW t \in Txn, at'[p].txn = t,
         at'[p].step \in {"stage", "move", "verify", "save"},
         journal'[t].status = "moving",
         Planned(memory'[p]) = Planned(journal'[t].operations),
         left'[p] \subseteq Planned(memory'[p]),
         \A a \in Artifact : memory'[p][a] # "purged",
         \A a \in Artifact \ left'[p] : trash'[t][a] \in {"absent", journal'[t].snapshots[a]},
         at'[p].step # "stage" => left'[p] # {},
         at'[p].step = "save" => InTrash(p)' = Snapshot(p)'
  PROVE  WorkerIsRight(p)'
<1>1. Moves(p)' /\ ~ Purges(p)' /\ ~ Returns(p)'
  BY DEF Moves, Purges, Returns
<1>2. Planned(memory[p])' = Planned(memory'[p])
  BY DEF Planned
<1>3. Planned(journal[at[p].txn].operations)' = Planned(journal'[t].operations)
  BY DEF Planned
<1> QED
  BY <1>1, <1>2, <1>3 DEF WorkerIsRight

(* What a worker that purges knows.                                        *)
LEMMA WhenPurging ==
  ASSUME NEW p \in Process, WorkerIsRight(p), NEW t, t = at[p].txn,
         at[p].step = "purge" \/ (at[p].step = "save" /\ journal[t].status # "moving")
  PROVE  /\ t \in Txn /\ journal[t].status = "purging"
         /\ Planned(memory[p]) = Planned(journal[t].operations)
         /\ left[p] \subseteq Planned(memory[p])
         /\ \A a \in Artifact : memory[p][a] = "purged" => trash[t][a] = "absent"
         /\ \A a \in Artifact \ left[p] : trash[t][a] = "absent"
         /\ at[p].step = "save" => left[p] # {} /\ memory[p][Operation(p)] = "purged"
<1>1. ~ Moves(p) /\ Purges(p) /\ ~ Returns(p)
  BY DEF Moves, Purges, Returns
<1> QED
  BY <1>1 DEF WorkerIsRight

(* What a worker must know to go on purging.                               *)
LEMMA PurgesOn ==
  ASSUME NEW p \in Process, NEW t \in Txn, at'[p].txn = t,
         at'[p].step \in {"purge", "save"}, journal'[t].status = "purging",
         Planned(memory'[p]) = Planned(journal'[t].operations),
         left'[p] \subseteq Planned(memory'[p]),
         \A a \in Artifact : memory'[p][a] = "purged" => trash'[t][a] = "absent",
         \A a \in Artifact \ left'[p] : trash'[t][a] = "absent",
         at'[p].step = "save" => left'[p] # {} /\ memory'[p][Operation(p)'] = "purged"
  PROVE  WorkerIsRight(p)'
<1>1. ~ Moves(p)' /\ Purges(p)' /\ ~ Returns(p)'
  BY DEF Moves, Purges, Returns
<1>2. Planned(memory[p])' = Planned(memory'[p])
  BY DEF Planned
<1>3. Planned(journal[at[p].txn].operations)' = Planned(journal'[t].operations)
  BY DEF Planned
<1> QED
  BY <1>1, <1>2, <1>3 DEF WorkerIsRight

(* What a worker that rolls back knows.                                    *)
LEMMA WhenReturning ==
  ASSUME NEW p \in Process, WorkerIsRight(p), NEW t, t = at[p].txn,
         at[p].step \in {"rollback", "return"}
  PROVE  /\ t \in Txn /\ journal[t].status = "moving"
         /\ Planned(memory[p]) = Planned(journal[t].operations)
         /\ left[p] \subseteq Planned(memory[p])
         /\ \A a \in Artifact : memory[p][a] # "purged"
         /\ \A a \in Artifact \ left[p] : trash[t][a] = "absent"
         /\ at[p].step = "return" => left[p] # {} /\ InTrash(p) = Snapshot(p)
<1>1. ~ Moves(p) /\ ~ Purges(p) /\ Returns(p)
  BY DEF Moves, Purges, Returns
<1> QED
  BY <1>1 DEF WorkerIsRight

(* What a worker must know to go on rolling back.                          *)
LEMMA ReturnsOn ==
  ASSUME NEW p \in Process, NEW t \in Txn, at'[p].txn = t,
         at'[p].step \in {"rollback", "return"}, journal'[t].status = "moving",
         Planned(memory'[p]) = Planned(journal'[t].operations),
         left'[p] \subseteq Planned(memory'[p]),
         \A a \in Artifact : memory'[p][a] # "purged",
         \A a \in Artifact \ left'[p] : trash'[t][a] = "absent",
         at'[p].step = "return" => left'[p] # {} /\ InTrash(p)' = Snapshot(p)'
  PROVE  WorkerIsRight(p)'
<1>1. ~ Moves(p)' /\ ~ Purges(p)' /\ Returns(p)'
  BY DEF Moves, Purges, Returns
<1>2. Planned(memory[p])' = Planned(memory'[p])
  BY DEF Planned
<1>3. Planned(journal[at[p].txn].operations)' = Planned(journal'[t].operations)
  BY DEF Planned
<1> QED
  BY <1>1, <1>2, <1>3 DEF WorkerIsRight

(* The same operation is compared again where nothing moved.               *)
LEMMA SameOperation ==
  ASSUME NEW p, left'[p] = left[p], at'[p].txn = at[p].txn,
         at'[p].step \in {"rollback", "return"} <=> at[p].step \in {"rollback", "return"}
  PROVE  /\ Operation(p)' = Operation(p)
         /\ InTrash(p)' = trash'[at[p].txn][Operation(p)]
         /\ Snapshot(p)' = journal'[at[p].txn].snapshots[Operation(p)]
<1>1. Operation(p)' = Operation(p)
  BY DEF Operation
<1> QED
  BY <1>1 DEF InTrash, Snapshot

(* Comparing the next operation keeps the invariant.                       *)
LEMMA StageStep ==
  ASSUME TransactionInv, NEW p \in Process, Stage(p)
  PROVE  TransactionInv'
<1>1. /\ RowsOK /\ WorkerIsRight(p) /\ at[p].step = "stage" /\ lock = p /\ left[p] # {}
      /\ trash' = trash /\ journal' = journal /\ source' = source /\ dirs' = dirs
      /\ UNCHANGED <<files, owners, kills>>
  BY DEF TransactionInv, Stage, Doing, files
<1>2. PICK t \in Txn : t = at[p].txn
  BY <1>1, WhenMoving
<1>3. ASSUME NEW step \in {"move", "save"}, Stay(p, step),
             step = "save" => InTrash(p) = Snapshot(p)
      PROVE  TransactionInv'
  <2>1. /\ Goto(p, step) /\ memory' = memory /\ left' = left /\ lock' = p
        /\ step \in StepName
    BY <1>1, <1>3 DEF Stay, StepName
  <2>2. at'[p].step = step /\ at'[p].txn = t
    BY <1>1, <1>2, <2>1, GoesOn
  <2>3. InTrash(p)' = InTrash(p) /\ Snapshot(p)' = Snapshot(p)
    BY <1>1, <1>2, <2>1, <2>2, SameOperation DEF InTrash, Snapshot
  <2>6. WorkerIsRight(p)'
    BY <1>1, <1>2, <1>3, <2>1, <2>2, <2>3, WhenMoving, MovesOn
  <2> QED
    BY <1>1, <1>2, <1>3, <2>1, <2>6, StayStep
<1>4. ASSUME Leave(p) PROVE TransactionInv'
  <2>1. dirs' \subseteq Txn /\ kills' \in 0 .. MaxKills
    BY <1>1 DEF RowsOK
  <2> QED
    BY <1>1, <1>4, <2>1, LeaveStep
<1> QED
  BY <1>3, <1>4 DEF Stage

(* A move fills the trash of an operation that the journal plans.          *)
LEMMA MoveStep ==
  ASSUME TransactionInv, NEW p \in Process, Move(p)
  PROVE  TransactionInv'
<1>1. /\ RowsOK /\ WorkerIsRight(p) /\ at[p].step = "move" /\ lock = p
      /\ journal' = journal /\ dirs' = dirs /\ UNCHANGED <<owners, kills>>
  BY DEF TransactionInv, Move, Doing
<1>2. /\ journal[at[p].txn].status = "moving" /\ at[p].txn \in Txn /\ left[p] # {}
      /\ left[p] \subseteq Planned(journal[at[p].txn].operations)
  BY <1>1, WhenMoving
<1>3. PICK t \in Txn : t = at[p].txn
  BY <1>2
<1>4. PICK o \in left[p] : o = Operation(p) /\ o \in Artifact
  BY <1>1, <1>2, OperationIsLeft
<1>5. CASE InPlace(p) # "absent"
  <2>1. /\ trash' = [trash EXCEPT ![t][o] = source[o]]
        /\ source' = [source EXCEPT ![o] = "absent"]
        /\ Stay(p, "verify")
    BY <1>3, <1>4, <1>5 DEF Move, InPlace
  <2>2. /\ Goto(p, "verify") /\ memory' = memory /\ left' = left /\ plan' = plan /\ lock' = p
        /\ "verify" \in StepName
    BY <1>1, <2>1 DEF Stay, StepName
  <2>3. at'[p].step = "verify" /\ at'[p].txn = t
    BY <1>1, <1>3, <2>2, GoesOn
  <2>4. /\ source' \in [Artifact -> Content] /\ dirs' \subseteq Txn
        /\ trash' \in [Txn -> [Artifact -> Content \cup {"torn"}]]
        /\ journal' \in [Txn -> Journal]
        /\ memory' \in [Process -> [Artifact -> OperationState]]
        /\ left' \in [Process -> SUBSET Artifact]
        /\ \A u \in Txn \ {t} : journal'[u] = journal[u] /\ trash'[u] = trash[u]
        /\ \A a \in Artifact \ {o} : trash'[t][a] = trash[t][a]
    BY <1>1, <1>4, <2>1, <2>2 DEF RowsOK, Content
  <2>5. /\ journal[t].status = "moving"
        /\ journal[t].operations[o] \notin {"unplanned", "purged"}
    BY <1>2, <1>3, <1>4 DEF TransactionInv, JournalIsTrue, Planned
  <2>6. JournalIsTrue(t)'
    BY <1>1, <2>4, <2>5 DEF TransactionInv, JournalIsTrue, OpenStatus
  <2>7. \A a \in Artifact \ left[p] : trash'[t][a] \in {"absent", journal[t].snapshots[a]}
    BY <1>1, <1>3, <1>4, <2>4, WhenMoving
  <2>8. WorkerIsRight(p)'
    BY <1>1, <1>3, <2>2, <2>3, <2>7, WhenMoving, MovesOn
  <2> QED
    BY <1>1, <2>2, <2>4, <2>6, <2>8, GoStep
<1>6. CASE InPlace(p) = "absent"
  <2>1. source' = source /\ trash' = trash /\ Leave(p)
    BY <1>6 DEF Move
  <2>2. dirs' \subseteq Txn /\ kills' \in 0 .. MaxKills
    BY <1>1 DEF RowsOK
  <2> QED
    BY <1>1, <2>1, <2>2, LeaveStep
<1> QED
  BY <1>5, <1>6

(* Writing the status and the operations of a journal.                      *)
LEMMA JournalWritten ==
  ASSUME RowsOK, NEW t \in Txn, NEW status \in OpenStatus,
         NEW operations \in [Artifact -> OperationState],
         journal' = [journal EXCEPT ![t].status = status, ![t].operations = operations]
  PROVE  /\ journal' \in [Txn -> Journal]
         /\ journal'[t].status = status /\ journal'[t].operations = operations
         /\ journal'[t].snapshots = journal[t].snapshots
         /\ \A u \in Txn \ {t} : journal'[u] = journal[u]
<1> DEFINE row == [status |-> status, operations |-> operations,
                   snapshots |-> journal[t].snapshots]
<1>1. journal \in [Txn -> Journal] /\ journal[t] \in Journal
  BY DEF RowsOK
<1>2. row \in Journal
  BY <1>1 DEF Journal
<1>3. [[journal[t] EXCEPT !.status = status] EXCEPT !.operations = operations] = row
  <2> DEFINE once == [journal[t] EXCEPT !.status = status]
  <2>1. once \in Journal /\ once.status = status /\ once.snapshots = journal[t].snapshots
    BY <1>1 DEF Journal
  <2> HIDE DEF once
  <2>2. [once EXCEPT !.operations = operations] =
          [status |-> once.status, operations |-> operations, snapshots |-> once.snapshots]
    BY <2>1 DEF Journal
  <2> QED
    BY <2>1, <2>2 DEF once
<1>4. journal' = [journal EXCEPT ![t] = row]
  BY <1>1, <1>3
<1> QED
  BY <1>1, <1>2, <1>4

(* A journaled operation is done: what Verify and Save have in common.     *)
LEMMA SaveProgressStep ==
  ASSUME TransactionInv, NEW p \in Process, at[p].step \in {"verify", "save"}, lock = p,
         SaveProgress(p), UNCHANGED <<source, trash, dirs, owners, kills>>,
         memory' \in [Process -> [Artifact -> OperationState]],
         Planned(memory'[p]) = Planned(memory[p]),
         \A a \in Artifact : memory'[p][a] = "purged" => memory[p][a] = "purged",
         InTrash(p) = Snapshot(p) \/ memory'[p][Operation(p)] = "purged"
  PROVE  TransactionInv'
<1>1. /\ RowsOK /\ WorkerIsRight(p) /\ trash' = trash /\ source' = source /\ dirs' = dirs
      /\ UNCHANGED <<owners, kills>>
  BY DEF TransactionInv
<1>2. at[p].txn \in Txn /\ journal[at[p].txn].status \in OpenStatus /\ left[p] # {}
  BY <1>1, WhenMoving, WhenPurging DEF OpenStatus
<1>3. PICK t \in Txn : t = at[p].txn
  BY <1>2
<1>4. PICK o \in left[p] : o = Operation(p) /\ o \in Artifact
  BY <1>1, <1>2, OperationIsLeft
<1> DEFINE step == IF journal[t].status = "moving" THEN "stage" ELSE "purge"
<1>5. /\ Goto(p, step) /\ plan' = plan /\ lock' = p
      /\ journal' = [journal EXCEPT ![t].status = journal[t].status,
                                    ![t].operations = memory'[p]]
      /\ left' = [left EXCEPT ![p] = left[p] \ {o}]
  BY <1>3, <1>4 DEF SaveProgress, WriteJournal
<1>6. step \in StepName
  BY DEF StepName
<1>7. at'[p].step = step /\ at'[p].txn = t
  BY <1>1, <1>3, <1>5, <1>6, GoesOn
<1>8. /\ journal' \in [Txn -> Journal] /\ left' \in [Process -> SUBSET Artifact]
      /\ left'[p] = left[p] \ {o}
      /\ journal'[t].status = journal[t].status /\ journal'[t].operations = memory'[p]
      /\ journal'[t].snapshots = journal[t].snapshots
      /\ \A u \in Txn \ {t} : journal'[u] = journal[u]
  <2>1. journal[t].status \in OpenStatus /\ memory'[p] \in [Artifact -> OperationState]
    BY <1>2, <1>3
  <2>2. \A u \in Process : left'[u] = IF u = p THEN left[p] \ {o} ELSE left[u]
    BY <1>1, <1>5 DEF RowsOK
  <2>3. left' \in [Process -> SUBSET Artifact]
    BY <1>1, <1>5 DEF RowsOK
  <2>4. PICK operations \in [Artifact -> OperationState] : operations = memory'[p]
    BY <2>1
  <2>5. PICK status \in OpenStatus : status = journal[t].status
    BY <2>1
  <2>6. journal' = [journal EXCEPT ![t].status = status, ![t].operations = operations]
    BY <1>5, <2>4, <2>5
  <2>7. /\ journal' \in [Txn -> Journal]
        /\ journal'[t].status = status /\ journal'[t].operations = operations
        /\ journal'[t].snapshots = journal[t].snapshots
        /\ \A u \in Txn \ {t} : journal'[u] = journal[u]
    BY <1>1, <2>6, JournalWritten
  <2> QED
    BY <1>1, <2>2, <2>3, <2>4, <2>5, <2>7
<1>9. /\ Planned(memory[p]) = Planned(journal[t].operations)
      /\ left[p] \subseteq Planned(memory[p])
      /\ \A a \in Artifact : memory[p][a] = "purged" =>
           journal[t].status = "purging" /\ trash[t][a] = "absent"
  BY <1>1, <1>2, <1>3, WhenMoving, WhenPurging DEF OpenStatus
<1>10. JournalIsTrue(t)
  BY DEF TransactionInv
<1>11. JournalIsTrue(t)'
  <2>1. \A a \in Artifact :
          trash[t][a] # "absent" => memory'[p][a] \notin {"unplanned", "purged"}
    BY <1>9, <1>10 DEF JournalIsTrue, Planned
  <2>2. journal[t].status = "moving" => \A a \in Artifact : memory'[p][a] # "purged"
    BY <1>9
  <2> QED
    BY <1>1, <1>2, <1>3, <1>8, <1>10, <2>1, <2>2 DEF JournalIsTrue
<1>12. WorkerIsRight(p)'
  <2>1. CASE journal[t].status = "moving"
    <3>1. trash[t][o] = journal[t].snapshots[o]
      BY <1>3, <1>4, <1>9, <2>1 DEF InTrash, Snapshot
    <3>2. \A a \in Artifact \ left'[p] : trash'[t][a] \in {"absent", journal'[t].snapshots[a]}
      BY <1>1, <1>3, <1>8, <2>1, <3>1, WhenMoving
    <3> QED
      BY <1>7, <1>8, <1>9, <2>1, <3>2, MovesOn
  <2>2. CASE journal[t].status # "moving"
    <3>1. /\ at[p].step = "save" /\ journal[t].status = "purging" /\ trash[t][o] = "absent"
          /\ \A a \in Artifact \ left[p] : trash[t][a] = "absent"
      BY <1>1, <1>3, <1>4, <2>2, WhenMoving, WhenPurging
    <3>2. \A a \in Artifact \ left'[p] : trash'[t][a] = "absent"
      BY <1>1, <1>8, <3>1
    <3> QED
      BY <1>1, <1>7, <1>8, <1>9, <3>1, <3>2, PurgesOn
  <2> QED
    BY <2>1, <2>2
<1> HIDE DEF step
<1>13. /\ source' \in [Artifact -> Content] /\ dirs' \subseteq Txn
       /\ trash' \in [Txn -> [Artifact -> Content \cup {"torn"}]]
       /\ \A u \in Txn \ {t} : journal'[u] = journal[u] /\ trash'[u] = trash[u]
  BY <1>1, <1>8 DEF RowsOK
<1> QED
  BY <1>1, <1>5, <1>6, <1>8, <1>11, <1>12, <1>13, GoStep

(* Verifying journals a move of the planned content, or refuses.           *)
LEMMA VerifyStep ==
  ASSUME TransactionInv, NEW p \in Process, Verify(p)
  PROVE  TransactionInv'
<1>1. /\ RowsOK /\ WorkerIsRight(p) /\ at[p].step = "verify" /\ lock = p
      /\ UNCHANGED <<source, trash, dirs, owners, kills>>
  BY DEF TransactionInv, Verify, Doing
<1>2. CASE MovedAsPlanned(p)
  <2>1. left[p] # {} /\ left[p] \subseteq Planned(memory[p])
    BY <1>1, WhenMoving
  <2>2. PICK o \in left[p] : o = Operation(p) /\ o \in Artifact
    BY <1>1, <2>1, OperationIsLeft
  <2>3. memory' = [memory EXCEPT ![p][o] = "staged"] /\ SaveProgress(p)
    BY <1>2, <2>2 DEF Verify
  <2>4. memory' \in [Process -> [Artifact -> OperationState]]
    BY <1>1, <2>2, <2>3 DEF RowsOK, OperationState
  <2>5. \A a \in Artifact : memory'[p][a] = IF a = o THEN "staged" ELSE memory[p][a]
    BY <1>1, <2>3 DEF RowsOK
  <2>6. Planned(memory'[p]) = Planned(memory[p])
    BY <2>1, <2>2, <2>5 DEF Planned
  <2> QED
    BY <1>1, <1>2, <2>3, <2>4, <2>5, <2>6, SaveProgressStep DEF MovedAsPlanned
<1>3. CASE ~ MovedAsPlanned(p)
  <2>1. journal' = journal /\ Leave(p) /\ dirs' \subseteq Txn /\ kills' \in 0 .. MaxKills
    BY <1>1, <1>3 DEF Verify, RowsOK
  <2> QED
    BY <1>1, <2>1, LeaveStep
<1> QED
  BY <1>2, <1>3

(* Saving an operation that is done keeps the invariant.                   *)
LEMMA SaveStep ==
  ASSUME TransactionInv, NEW p \in Process, Save(p)
  PROVE  TransactionInv'
<1>1. /\ RowsOK /\ WorkerIsRight(p) /\ at[p].step = "save" /\ lock = p /\ SaveProgress(p)
      /\ UNCHANGED <<source, trash, dirs, owners, kills>> /\ memory' = memory
  BY DEF TransactionInv, Save, Doing
<1>2. memory' \in [Process -> [Artifact -> OperationState]]
  BY <1>1 DEF RowsOK
<1>3. InTrash(p) = Snapshot(p) \/ memory[p][Operation(p)] = "purged"
  BY <1>1, WhenMoving, WhenPurging
<1> QED
  BY <1>1, <1>2, <1>3, SaveProgressStep

(* When nothing is left to stage, the trash holds exactly the plan.        *)
LEMMA StartPurgeStep ==
  ASSUME TransactionInv, NEW p \in Process, StartPurge(p)
  PROVE  TransactionInv'
<1>1. /\ RowsOK /\ WorkerIsRight(p) /\ at[p].step = "stage" /\ lock = p /\ left[p] = {}
      /\ memory' = memory /\ plan' = plan /\ lock' = p /\ Goto(p, "purge")
      /\ trash' = trash /\ source' = source /\ dirs' = dirs /\ UNCHANGED <<owners, kills>>
  BY DEF TransactionInv, StartPurge, Doing
<1>2. at[p].txn \in Txn
  BY <1>1, WhenMoving
<1>3. PICK t \in Txn : t = at[p].txn
  BY <1>2
<1>4. /\ journal[t].status = "moving" /\ Planned(memory[p]) = Planned(journal[t].operations)
      /\ \A a \in Artifact : memory[p][a] # "purged"
      /\ \A a \in Artifact : trash[t][a] \in {"absent", journal[t].snapshots[a]}
  BY <1>1, <1>3, WhenMoving
<1>5. /\ journal' = [journal EXCEPT ![t].status = "purging", ![t].operations = memory[p]]
      /\ left' = [left EXCEPT ![p] = Planned(memory[p])]
  BY <1>1, <1>3 DEF StartPurge, WriteJournal
<1>6. "purge" \in StepName
  BY DEF StepName
<1>7. at'[p].step = "purge" /\ at'[p].txn = t
  BY <1>1, <1>3, <1>6, GoesOn
<1>8. /\ journal' \in [Txn -> Journal]
      /\ journal'[t].status = "purging" /\ journal'[t].operations = memory[p]
      /\ journal'[t].snapshots = journal[t].snapshots
      /\ \A u \in Txn \ {t} : journal'[u] = journal[u]
  <2>1. memory[p] \in [Artifact -> OperationState] /\ "purging" \in OpenStatus
    BY <1>1 DEF RowsOK, OpenStatus
  <2> QED
    BY <1>1, <1>5, <2>1, JournalWritten
<1>9. left' \in [Process -> SUBSET Artifact] /\ left'[p] = Planned(memory[p])
  BY <1>1, <1>5 DEF RowsOK, Planned
<1>10. JournalIsTrue(t)'
  <2>1. JournalIsTrue(t)
    BY DEF TransactionInv
  <2>2. \A a \in Artifact :
          trash[t][a] # "absent" => memory[p][a] \notin {"unplanned", "purged"}
    BY <1>4, <2>1 DEF JournalIsTrue, Planned
  <2> QED
    BY <1>1, <1>4, <1>8, <2>1, <2>2 DEF JournalIsTrue, OpenStatus
<1>11. \A a \in Artifact \ left'[p] : trash'[t][a] = "absent"
  <2>1. JournalIsTrue(t)
    BY DEF TransactionInv
  <2> QED
    BY <1>1, <1>4, <1>9, <2>1 DEF JournalIsTrue, Planned
<1>12. WorkerIsRight(p)'
  BY <1>1, <1>4, <1>7, <1>8, <1>9, <1>11, PurgesOn
<1>13. /\ source' \in [Artifact -> Content] /\ dirs' \subseteq Txn
       /\ trash' \in [Txn -> [Artifact -> Content \cup {"torn"}]]
       /\ memory' \in [Process -> [Artifact -> OperationState]]
       /\ \A u \in Txn \ {t} : journal'[u] = journal[u] /\ trash'[u] = trash[u]
  BY <1>1, <1>8 DEF RowsOK
<1> QED
  BY <1>1, <1>6, <1>8, <1>9, <1>10, <1>12, <1>13, GoStep

(* A worker that leaves refuses, and changes nothing.                      *)
LEMMA RefuseStep ==
  ASSUME TransactionInv, NEW p \in Process, Leave(p), UNCHANGED <<files, owners, kills>>
  PROVE  TransactionInv'
<1>1. dirs' \subseteq Txn /\ kills' \in 0 .. MaxKills /\ UNCHANGED <<source, trash, journal>>
  BY DEF TransactionInv, RowsOK, files
<1> QED
  BY <1>1, LeaveStep

(* A purge unlinks what the journal still has in the trash.                *)
LEMMA PurgeStep ==
  ASSUME TransactionInv, NEW p \in Process, Purge(p)
  PROVE  TransactionInv'
<1>1. /\ RowsOK /\ WorkerIsRight(p) /\ at[p].step = "purge" /\ lock = p /\ left[p] # {}
      /\ source' = source /\ dirs' = dirs /\ journal' = journal /\ UNCHANGED <<owners, kills>>
  BY DEF TransactionInv, Purge, Doing
<1>2. at[p].txn \in Txn
  BY <1>1, WhenPurging
<1>3. PICK t \in Txn : t = at[p].txn
  BY <1>2
<1>4. /\ journal[t].status = "purging" /\ Planned(memory[p]) = Planned(journal[t].operations)
      /\ left[p] \subseteq Planned(memory[p])
      /\ \A a \in Artifact : memory[p][a] = "purged" => trash[t][a] = "absent"
      /\ \A a \in Artifact \ left[p] : trash[t][a] = "absent"
  BY <1>1, <1>3, WhenPurging
<1>5. PICK o \in left[p] : o = Operation(p) /\ o \in Artifact
  BY <1>1, OperationIsLeft
<1>6. JournalIsTrue(t) /\ memory[p][o] # "unplanned" /\ journal[t].operations[o] # "unplanned"
  BY <1>4, <1>5 DEF TransactionInv, Planned
<1>7. ASSUME Goto(p, "save"), UNCHANGED <<plan, left, lock>>,
             memory' = [memory EXCEPT ![p][o] = "purged"],
             trash' = [trash EXCEPT ![t][o] = "absent"]
      PROVE  TransactionInv'
  <2>1. "save" \in StepName
    BY DEF StepName
  <2>2. at'[p].step = "save" /\ at'[p].txn = t
    BY <1>1, <1>3, <1>7, <2>1, GoesOn
  <2>3. /\ memory' \in [Process -> [Artifact -> OperationState]]
        /\ \A a \in Artifact : memory'[p][a] = IF a = o THEN "purged" ELSE memory[p][a]
    BY <1>1, <1>7 DEF RowsOK, OperationState
  <2>4. /\ trash' \in [Txn -> [Artifact -> Content \cup {"torn"}]]
        /\ \A a \in Artifact : trash'[t][a] = IF a = o THEN "absent" ELSE trash[t][a]
        /\ \A u \in Txn \ {t} : journal'[u] = journal[u] /\ trash'[u] = trash[u]
    BY <1>1, <1>5, <1>7 DEF RowsOK, Content
  <2>5. JournalIsTrue(t)'
    BY <1>1, <1>4, <1>6, <2>4 DEF JournalIsTrue, OpenStatus
  <2>6. Operation(p)' = o
    BY <1>1, <1>3, <1>5, <1>7, <2>2 DEF Operation
  <2>7. Planned(memory'[p]) = Planned(memory[p])
    BY <1>5, <1>6, <2>3 DEF Planned
  <2>8. /\ \A a \in Artifact : memory'[p][a] = "purged" => trash'[t][a] = "absent"
        /\ \A a \in Artifact \ left'[p] : trash'[t][a] = "absent"
        /\ left'[p] # {} /\ memory'[p][Operation(p)'] = "purged"
    BY <1>1, <1>4, <1>5, <1>7, <2>3, <2>4, <2>6
  <2>9. WorkerIsRight(p)'
    BY <1>1, <1>4, <1>7, <2>2, <2>7, <2>8, PurgesOn
  <2> QED
    BY <1>1, <1>7, <2>1, <2>3, <2>4, <2>5, <2>9, GoStep DEF RowsOK
<1>8. ASSUME Stay(p, "purge"), trash[t][o] # "absent",
             trash' = [trash EXCEPT ![t][o] = "torn"]
      PROVE  TransactionInv'
  <2>1. "purge" \in StepName /\ Goto(p, "purge") /\ UNCHANGED <<plan, memory, left, lock>>
    BY <1>8 DEF Stay, StepName
  <2>2. at'[p].step = "purge" /\ at'[p].txn = t
    BY <1>1, <1>3, <2>1, GoesOn
  <2>3. /\ trash' \in [Txn -> [Artifact -> Content \cup {"torn"}]]
        /\ \A a \in Artifact : trash'[t][a] = IF a = o THEN "torn" ELSE trash[t][a]
        /\ \A u \in Txn \ {t} : journal'[u] = journal[u] /\ trash'[u] = trash[u]
    BY <1>1, <1>5, <1>8 DEF RowsOK, Content
  <2>4. JournalIsTrue(t)'
    BY <1>1, <1>4, <1>6, <1>8, <2>3 DEF JournalIsTrue, OpenStatus
  <2>5. /\ \A a \in Artifact : memory[p][a] = "purged" => trash'[t][a] = "absent"
        /\ \A a \in Artifact \ left[p] : trash'[t][a] = "absent"
    BY <1>4, <1>5, <1>8, <2>3
  <2>6. WorkerIsRight(p)'
    BY <1>1, <1>4, <2>1, <2>2, <2>5, PurgesOn
  <2> QED
    BY <1>1, <2>1, <2>3, <2>4, <2>6, GoStep DEF RowsOK
<1>9. ASSUME Stay(p, "save"), memory[p][o] = "purged", trash' = trash
      PROVE  TransactionInv'
  <2>1. "save" \in StepName /\ Goto(p, "save") /\ UNCHANGED <<plan, memory, left, lock>>
    BY <1>9 DEF Stay, StepName
  <2>2. at'[p].step = "save" /\ at'[p].txn = t
    BY <1>1, <1>3, <2>1, GoesOn
  <2>3. Operation(p)' = o
    BY <1>1, <1>3, <1>5, <2>1, <2>2 DEF Operation
  <2>4. WorkerIsRight(p)'
    BY <1>1, <1>4, <1>9, <2>1, <2>2, <2>3, PurgesOn
  <2>5. at[p].txn \in Txn /\ UNCHANGED <<files, owners, kills>>
    BY <1>1, <1>2, <1>9 DEF files
  <2> QED
    BY <1>1, <1>9, <2>1, <2>4, <2>5, StayStep
<1>10. ASSUME Leave(p), trash' = trash PROVE TransactionInv'
  <2>1. UNCHANGED <<files, owners, kills>>
    BY <1>1, <1>10 DEF files
  <2> QED
    BY <1>10, <2>1, RefuseStep
<1>11. InTrash(p) = trash[t][o]
  BY <1>3, <1>5 DEF InTrash
<1> QED
  BY <1>3, <1>5, <1>7, <1>8, <1>9, <1>10, <1>11 DEF Purge

(* A transaction is over when nothing of it is in the trash.               *)
LEMMA FinishStep ==
  ASSUME TransactionInv, NEW p \in Process, NEW t \in Txn, t = at[p].txn,
         NEW status \in Terminal, Finish(p, status), Goto(p, "clean"),
         trash[t] = Nothing, lock = p, memory' = [memory EXCEPT ![p] = NoOperations],
         UNCHANGED <<source, trash, dirs, owners, plan, left, lock, kills>>
  PROVE  TransactionInv'
<1>1. RowsOK /\ "clean" \in StepName
  BY DEF TransactionInv, StepName
<1>2. at'[p].step = "clean" /\ at'[p].txn = t
  BY <1>1, GoesOn
<1> DEFINE over == [NoJournal EXCEPT !.status = status]
<1>3. /\ over \in Journal /\ over.status = status /\ status \notin OpenStatus
      /\ \A a \in Artifact : over.snapshots[a] \notin HeldContent
  BY DEF NoJournal, NoOperations, Nothing, Journal, Terminal, OpenStatus, OperationState,
         Content, HeldContent
<1>4. journal' = [journal EXCEPT ![t] = over]
  BY DEF Finish
<1> HIDE DEF over
<1>5. /\ journal' \in [Txn -> Journal] /\ journal'[t] = over
      /\ \A u \in Txn \ {t} : journal'[u] = journal[u] /\ trash'[u] = trash[u]
  BY <1>1, <1>3, <1>4 DEF RowsOK
<1>6. memory' \in [Process -> [Artifact -> OperationState]]
  BY <1>1 DEF RowsOK, NoOperations, OperationState
<1>7. JournalIsTrue(t)'
  BY <1>3, <1>5 DEF JournalIsTrue, OpenStatus, Nothing, Terminal
<1>8. WorkerIsRight(p)'
  BY <1>2, <1>3, <1>5 DEF WorkerIsRight, Moves, Purges, Returns
<1> QED
  BY <1>1, <1>5, <1>6, <1>7, <1>8, GoStep DEF RowsOK

(* When nothing is left to purge, the trash is empty.                      *)
LEMMA CompleteStep ==
  ASSUME TransactionInv, NEW p \in Process, Complete(p)
  PROVE  TransactionInv'
<1>1. /\ RowsOK /\ WorkerIsRight(p) /\ at[p].step = "purge" /\ lock = p /\ left[p] = {}
  BY DEF TransactionInv, Complete, Doing
<1>2. at[p].txn \in Txn
  BY <1>1, WhenPurging
<1>3. PICK t \in Txn : t = at[p].txn
  BY <1>2
<1>4. trash[t] = Nothing
  BY <1>1, <1>3, WhenPurging DEF RowsOK, Nothing
<1>5. "completed" \in Terminal
  BY DEF Terminal
<1> QED
  BY <1>1, <1>3, <1>4, <1>5, FinishStep DEF Complete

(* When nothing is left to return, the trash is empty.                     *)
LEMMA RolledBackStep ==
  ASSUME TransactionInv, NEW p \in Process, RolledBack(p)
  PROVE  TransactionInv'
<1>1. /\ RowsOK /\ WorkerIsRight(p) /\ at[p].step = "rollback" /\ lock = p /\ left[p] = {}
  BY DEF TransactionInv, RolledBack, Doing
<1>2. at[p].txn \in Txn
  BY <1>1, WhenReturning
<1>3. PICK t \in Txn : t = at[p].txn
  BY <1>2
<1>4. trash[t] = Nothing
  BY <1>1, <1>3, WhenReturning DEF RowsOK, Nothing
<1>5. "rolled_back" \in Terminal
  BY DEF Terminal
<1> QED
  BY <1>1, <1>3, <1>4, <1>5, FinishStep DEF RolledBack

(* Comparing an operation to roll back keeps the invariant.                *)
LEMMA RollBackStep ==
  ASSUME TransactionInv, NEW p \in Process, RollBack(p)
  PROVE  TransactionInv'
<1>1. /\ RowsOK /\ WorkerIsRight(p) /\ at[p].step = "rollback" /\ lock = p /\ left[p] # {}
      /\ source' = source /\ dirs' = dirs /\ journal' = journal /\ trash' = trash
      /\ UNCHANGED <<files, owners, kills>>
  BY DEF TransactionInv, RollBack, Doing, files
<1>2. at[p].txn \in Txn
  BY <1>1, WhenReturning
<1>3. PICK t \in Txn : t = at[p].txn
  BY <1>2
<1>4. PICK o \in left[p] : o = Operation(p) /\ o \in Artifact
  BY <1>1, OperationIsLeft
<1>5. /\ journal[t].status = "moving" /\ Planned(memory[p]) = Planned(journal[t].operations)
      /\ left[p] \subseteq Planned(memory[p])
      /\ \A a \in Artifact : memory[p][a] # "purged"
      /\ \A a \in Artifact \ left[p] : trash[t][a] = "absent"
  BY <1>1, <1>3, WhenReturning
<1>6. ASSUME trash[t][o] = "absent", memory' = [memory EXCEPT ![p][o] = "restored"],
             left' = [left EXCEPT ![p] = left[p] \ {o}], UNCHANGED <<at, plan, lock>>
      PROVE  TransactionInv'
  <2>1. /\ memory' \in [Process -> [Artifact -> OperationState]]
        /\ \A a \in Artifact : memory'[p][a] = IF a = o THEN "restored" ELSE memory[p][a]
    BY <1>1, <1>6 DEF RowsOK, OperationState
  <2>2. left' \in [Process -> SUBSET Artifact] /\ left'[p] = left[p] \ {o}
    BY <1>1, <1>6 DEF RowsOK
  <2>3. Planned(memory'[p]) = Planned(memory[p])
    BY <1>4, <1>5, <2>1 DEF Planned
  <2>4. WorkerIsRight(p)'
    <3>1. \A a \in Artifact \ left'[p] : trash'[t][a] = "absent"
      BY <1>1, <1>5, <1>6, <2>2
    <3>2. at'[p].txn = t /\ at'[p].step = "rollback"
      BY <1>1, <1>3, <1>6
    <3> QED
      BY <1>1, <1>5, <2>1, <2>2, <2>3, <3>1, <3>2, ReturnsOn
  <2>5. JournalIsTrue(t)'
    BY <1>1, KeepsJournal DEF TransactionInv
  <2>6. RowsOK'
    BY <1>1, <1>6, <2>1, <2>2 DEF RowsOK, owners
  <2> QED
    BY <1>1, <1>6, <2>4, <2>5, <2>6, HolderSteps
<1>7. ASSUME Stay(p, "return"), InTrash(p) = Snapshot(p)
      PROVE  TransactionInv'
  <2>1. "return" \in StepName /\ Goto(p, "return") /\ UNCHANGED <<plan, memory, left, lock>>
    BY <1>7 DEF Stay, StepName
  <2>2. at'[p].step = "return" /\ at'[p].txn = t
    BY <1>1, <1>3, <2>1, GoesOn
  <2>3. InTrash(p)' = InTrash(p) /\ Snapshot(p)' = Snapshot(p)
    BY <1>1, <1>3, <2>1, <2>2, SameOperation DEF InTrash, Snapshot
  <2>4. WorkerIsRight(p)'
    BY <1>1, <1>5, <1>7, <2>1, <2>2, <2>3, ReturnsOn
  <2> QED
    BY <1>1, <1>2, <1>7, <2>1, <2>4, StayStep
<1>8. ASSUME Leave(p) PROVE TransactionInv'
  BY <1>1, <1>8, RefuseStep
<1>9. InTrash(p) = trash[t][o]
  BY <1>3, <1>4 DEF InTrash
<1> QED
  BY <1>4, <1>6, <1>7, <1>8, <1>9 DEF RollBack

(* A return empties the trash of one operation.                            *)
LEMMA ReturnStep ==
  ASSUME TransactionInv, NEW p \in Process, Return(p)
  PROVE  TransactionInv'
<1>1. /\ RowsOK /\ WorkerIsRight(p) /\ at[p].step = "return" /\ lock = p
      /\ dirs' = dirs /\ journal' = journal /\ plan' = plan /\ lock' = p
      /\ Goto(p, "rollback") /\ UNCHANGED <<owners, kills>>
  BY DEF TransactionInv, Return, Doing
<1>2. at[p].txn \in Txn /\ left[p] # {}
  BY <1>1, WhenReturning
<1>3. PICK t \in Txn : t = at[p].txn
  BY <1>2
<1>4. PICK o \in left[p] : o = Operation(p) /\ o \in Artifact
  BY <1>1, <1>2, OperationIsLeft
<1>5. /\ journal[t].status = "moving" /\ Planned(memory[p]) = Planned(journal[t].operations)
      /\ left[p] \subseteq Planned(memory[p])
      /\ \A a \in Artifact : memory[p][a] # "purged"
      /\ \A a \in Artifact \ left[p] : trash[t][a] = "absent"
      /\ trash[t][o] = journal[t].snapshots[o]
  BY <1>1, <1>3, <1>4, WhenReturning DEF InTrash, Snapshot
<1>6. /\ source' = [source EXCEPT ![o] = trash[t][o]]
      /\ trash' = [trash EXCEPT ![t][o] = "absent"]
      /\ memory' = [memory EXCEPT ![p][o] = "restored"]
      /\ left' = [left EXCEPT ![p] = left[p] \ {o}]
  BY <1>3, <1>4 DEF Return, InTrash
<1>7. "rollback" \in StepName
  BY DEF StepName
<1>8. at'[p].step = "rollback" /\ at'[p].txn = t
  BY <1>1, <1>3, <1>7, GoesOn
<1>9. journal[t] \in Journal /\ journal[t].snapshots[o] \in Content
  BY <1>1, <1>4 DEF RowsOK, Journal
<1>10. source' \in [Artifact -> Content]
  BY <1>1, <1>5, <1>6, <1>9 DEF RowsOK
<1>11. /\ trash' \in [Txn -> [Artifact -> Content \cup {"torn"}]]
       /\ \A a \in Artifact : trash'[t][a] = IF a = o THEN "absent" ELSE trash[t][a]
       /\ \A u \in Txn \ {t} : journal'[u] = journal[u] /\ trash'[u] = trash[u]
  BY <1>1, <1>4, <1>6 DEF RowsOK, Content
<1>12. /\ memory' \in [Process -> [Artifact -> OperationState]]
       /\ \A a \in Artifact : memory'[p][a] = IF a = o THEN "restored" ELSE memory[p][a]
  BY <1>1, <1>6 DEF RowsOK, OperationState
<1>13. left' \in [Process -> SUBSET Artifact] /\ left'[p] = left[p] \ {o}
  BY <1>1, <1>6 DEF RowsOK
<1>14. Planned(memory'[p]) = Planned(memory[p])
  BY <1>4, <1>5, <1>12 DEF Planned
<1>15. WorkerIsRight(p)'
  <2>1. \A a \in Artifact \ left'[p] : trash'[t][a] = "absent"
    BY <1>5, <1>11, <1>13
  <2> QED
    BY <1>1, <1>5, <1>8, <1>12, <1>13, <1>14, <2>1, ReturnsOn
<1>16. JournalIsTrue(t)'
  BY <1>1, <1>5, <1>11 DEF TransactionInv, JournalIsTrue, OpenStatus
<1> QED
  BY <1>1, <1>7, <1>10, <1>11, <1>12, <1>13, <1>15, <1>16, GoStep DEF RowsOK

-----------------------------------------------------------------------------
(* The steps before and after a transaction                                *)

(* The holder takes up another transaction, or none.                       *)
LEMMA TurnStep ==
  ASSUME TransactionInv, NEW p \in Process, lock = p, lock' = p, plan' = plan,
         NEW row \in [step : StepName, txn : 0 .. MaxTxns, own : BOOLEAN],
         at' = [at EXCEPT ![p] = row], dirs' \subseteq Txn,
         memory' \in [Process -> [Artifact -> OperationState]],
         left' \in [Process -> SUBSET Artifact],
         UNCHANGED <<source, trash, journal, owners, kills>>, WorkerIsRight(p)', Txn # {}
  PROVE  TransactionInv'
<1>1. RowsOK
  BY DEF TransactionInv
<1>2. /\ at' \in [Process -> [step : StepName, txn : 0 .. MaxTxns, own : BOOLEAN]]
      /\ \A q \in Process \ {p} : at'[q] = at[q]
  BY <1>1 DEF RowsOK
<1>3. RowsOK'
  BY <1>1, <1>2 DEF RowsOK, owners
<1>4. PICK t \in Txn : TRUE
  OBVIOUS
<1>5. JournalIsTrue(t)'
  BY KeepsJournal DEF TransactionInv
<1> QED
  BY <1>2, <1>3, <1>5, HolderSteps

(* Removing the directory of a finished transaction changes no file.       *)
LEMMA CleanStep ==
  ASSUME TransactionInv, NEW p \in Process, Clean(p)
  PROVE  TransactionInv'
<1>1. /\ RowsOK /\ WorkerIsRight(p) /\ at[p].step = "clean" /\ lock = p
      /\ dirs' \subseteq Txn /\ kills' \in 0 .. MaxKills
      /\ UNCHANGED <<source, trash, journal, owners, kills>>
  BY DEF TransactionInv, Clean, Doing, RowsOK
<1>2. at[p].txn \in Txn
  BY <1>1 DEF WorkerIsRight
<1> DEFINE row == [step |-> "recover", txn |-> 0, own |-> FALSE]
<1>3. ASSUME at' = [at EXCEPT ![p] = row], UNCHANGED <<plan, memory, left, lock>>
      PROVE  TransactionInv'
  <2>1. row \in [step : StepName, txn : 0 .. MaxTxns, own : BOOLEAN]
    BY RetentionAssumption DEF StepName
  <2>2. at'[p].step = "recover"
    BY <1>1, <1>3 DEF RowsOK
  <2>3. WorkerIsRight(p)'
    BY <2>2, OutsideIsRight
  <2> HIDE DEF row
  <2> QED
    BY <1>1, <1>2, <1>3, <2>1, <2>3, TurnStep DEF RowsOK
<1>4. ASSUME Leave(p) PROVE TransactionInv'
  BY <1>1, <1>4, LeaveStep
<1> QED
  BY <1>3, <1>4 DEF Clean

(* The same for a transaction that an earlier process finished.            *)
LEMMA CleanEarlierStep ==
  ASSUME TransactionInv, NEW p \in Process, CleanEarlier(p)
  PROVE  TransactionInv'
<1>1. /\ RowsOK /\ at[p].step = "recover" /\ lock = p
      /\ dirs' \subseteq Txn /\ kills' \in 0 .. MaxKills /\ Txn # {}
      /\ UNCHANGED <<source, trash, journal, owners, kills>>
  BY DEF TransactionInv, CleanEarlier, Doing, RowsOK
<1>2. CASE Stay(p, "recover")
  <2>1. /\ Goto(p, "recover") /\ lock' = p /\ "recover" \in StepName
        /\ UNCHANGED <<plan, memory, left>>
    BY <1>1, <1>2 DEF Stay, StepName
  <2>2. /\ at'[p].step = "recover" /\ \A q \in Process \ {p} : at'[q] = at[q]
        /\ at' \in [Process -> [step : StepName, txn : 0 .. MaxTxns, own : BOOLEAN]]
        /\ \A q \in Process : at'[q].step \notin {"idle", "lock"} => lock' = q
    BY <1>1, <2>1, GoesOn
  <2>3. WorkerIsRight(p)'
    BY <2>2, OutsideIsRight
  <2>4. PICK t \in Txn : TRUE
    BY <1>1
  <2>5. JournalIsTrue(t)'
    BY <1>1, KeepsJournal DEF TransactionInv
  <2>6. RowsOK'
    BY <1>1, <2>1, <2>2 DEF RowsOK, owners
  <2> QED
    BY <1>1, <2>1, <2>2, <2>3, <2>5, <2>6, HolderSteps
<1>3. CASE Leave(p)
  BY <1>1, <1>3, LeaveStep
<1> QED
  BY <1>2, <1>3 DEF CleanEarlier

(* A worker that resumes knows what the journal says.                      *)
LEMMA ResumeStep ==
  ASSUME TransactionInv, NEW p \in Process, Resume(p)
  PROVE  TransactionInv'
<1>1. /\ RowsOK /\ at[p].step = "recover" /\ lock = p
      /\ source' = source /\ dirs' = dirs /\ journal' = journal /\ trash' = trash
      /\ UNCHANGED <<files, owners, kills>>
  BY DEF TransactionInv, Resume, Doing, files
<1>2. PICK t \in Txn :
        /\ journal[t].status \in {"moving", "purging"}
        /\ \/ Leave(p)
           \/ /\ memory' = [memory EXCEPT ![p] = journal[t].operations]
              /\ left' = [left EXCEPT ![p] = Planned(journal[t].operations)]
              /\ \E step \in {"purge", "rollback", "stage"} :
                   /\ step = "purge" <=> journal[t].status = "purging"
                   /\ at' = [at EXCEPT ![p] = [step |-> step, txn |-> t, own |-> FALSE]]
              /\ UNCHANGED <<plan, lock>>
  <2>1. PICK t \in Txn :
          /\ journal[t].status \in {"moving", "purging"}
          /\ IF t \notin dirs THEN Leave(p)
             ELSE /\ memory' = [memory EXCEPT ![p] = journal[t].operations]
                  /\ left' = [left EXCEPT ![p] = Planned(journal[t].operations)]
                  /\ at' = [at EXCEPT ![p] =
                       [step |-> IF journal[t].status = "purging" THEN "purge"
                                 ELSE IF MustRollBack(journal[t].operations) THEN "rollback"
                                 ELSE "stage",
                        txn |-> t, own |-> FALSE]]
                  /\ UNCHANGED <<plan, lock>>
    BY DEF Resume
  <2> DEFINE next == IF journal[t].status = "purging" THEN "purge"
                     ELSE IF MustRollBack(journal[t].operations) THEN "rollback"
                     ELSE "stage"
  <2>2. /\ next \in {"purge", "rollback", "stage"}
        /\ next = "purge" <=> journal[t].status = "purging"
    OBVIOUS
  <2> HIDE DEF next
  <2> QED
    BY <2>1, <2>2 DEF next
<1>3. CASE Leave(p)
  BY <1>1, <1>3, RefuseStep
<1>4. CASE ~ Leave(p)
  <2>1. PICK step \in {"purge", "rollback", "stage"} :
          /\ step = "purge" <=> journal[t].status = "purging"
          /\ at' = [at EXCEPT ![p] = [step |-> step, txn |-> t, own |-> FALSE]]
    BY <1>2, <1>4
  <2> DEFINE row == [step |-> step, txn |-> t, own |-> FALSE]
  <2>2. /\ row \in [step : StepName, txn : 0 .. MaxTxns, own : BOOLEAN]
        /\ row.step = step /\ row.txn = t
    BY RetentionAssumption DEF StepName, Txn
  <2>3. at' = [at EXCEPT ![p] = row]
    BY <2>1
  <2> HIDE DEF row
  <2>4. at'[p].step = step /\ at'[p].txn = t
    BY <1>1, <2>2, <2>3 DEF RowsOK
  <2>5. journal[t].operations \in [Artifact -> OperationState]
    BY <1>1 DEF RowsOK, Journal
  <2>6. /\ memory' \in [Process -> [Artifact -> OperationState]]
        /\ left' \in [Process -> SUBSET Artifact]
        /\ memory'[p] = journal[t].operations /\ left'[p] = Planned(journal[t].operations)
    <3> DEFINE operations == journal[t].operations
               planned == Planned(journal[t].operations)
    <3>1. planned \in SUBSET Artifact
      BY DEF Planned
    <3>2. memory' = [memory EXCEPT ![p] = operations] /\ left' = [left EXCEPT ![p] = planned]
      BY <1>2, <1>4
    <3> HIDE DEF operations, planned
    <3>3. operations \in [Artifact -> OperationState]
      BY <2>5 DEF operations
    <3>4. /\ memory' \in [Process -> [Artifact -> OperationState]] /\ memory'[p] = operations
          /\ left' \in [Process -> SUBSET Artifact] /\ left'[p] = planned
      BY <1>1, <3>1, <3>2, <3>3 DEF RowsOK
    <3> QED
      BY <3>4 DEF operations, planned
  <2>7. /\ \A a \in Artifact \ left'[p] : trash[t][a] = "absent"
        /\ \A a \in Artifact : memory'[p][a] = "purged" => trash[t][a] = "absent"
        /\ step # "purge" => \A a \in Artifact : memory'[p][a] # "purged"
    BY <1>2, <2>1, <2>6 DEF TransactionInv, JournalIsTrue, Planned
  <2>8. WorkerIsRight(p)'
    <3>1. CASE step = "purge"
      BY <1>1, <1>2, <2>1, <2>4, <2>6, <2>7, <3>1, PurgesOn
    <3>2. CASE step = "rollback"
      BY <1>1, <1>2, <2>1, <2>4, <2>6, <2>7, <3>2, ReturnsOn
    <3>3. CASE step = "stage"
      BY <1>1, <1>2, <2>1, <2>4, <2>6, <2>7, <3>3, MovesOn
    <3> QED
      BY <3>1, <3>2, <3>3
  <2> QED
    BY <1>1, <1>2, <1>4, <2>2, <2>3, <2>6, <2>8, TurnStep DEF RowsOK
<1> QED
  BY <1>3, <1>4

(* A new transaction takes a journal that was never written.               *)
LEMMA CompareStep ==
  ASSUME TransactionInv, NEW p \in Process, Compare(p)
  PROVE  TransactionInv'
<1>1. /\ RowsOK /\ at[p].step = "recover" /\ lock = p
      /\ UNCHANGED <<source, trash, journal, owners, kills>>
      /\ kills' \in 0 .. MaxKills
  BY DEF TransactionInv, Compare, Doing, RowsOK
<1> DEFINE fresh == {t \in Txn \ dirs : journal[t].status = "none"}
<1>2. CASE fresh # {} /\ dirs' = dirs \cup {Min(fresh)}
           /\ at' = [at EXCEPT ![p] = [step |-> "begin", txn |-> Min(fresh), own |-> TRUE]]
           /\ UNCHANGED <<plan, memory, left, lock>>
  <2>1. fresh \in SUBSET Nat
    BY DEF Txn
  <2>2. Min(fresh) \in fresh
    BY <1>2, <2>1, OldestIsThere
  <2>3. PICK t \in Txn : t = Min(fresh) /\ journal[t].status = "none"
    BY <2>2
  <2> HIDE DEF fresh
  <2> DEFINE row == [step |-> "begin", txn |-> t, own |-> TRUE]
  <2>4. /\ row \in [step : StepName, txn : 0 .. MaxTxns, own : BOOLEAN]
        /\ row.step = "begin" /\ row.txn = t
    BY RetentionAssumption DEF StepName, Txn
  <2>5. at' = [at EXCEPT ![p] = row] /\ dirs' \subseteq Txn
    BY <1>1, <1>2, <2>3 DEF RowsOK
  <2> HIDE DEF row
  <2>6. at'[p].step = "begin" /\ at'[p].txn = t
    BY <1>1, <2>4, <2>5 DEF RowsOK
  <2>7. WorkerIsRight(p)'
    BY <1>1, <2>3, <2>6 DEF WorkerIsRight, Moves, Purges, Returns
  <2> QED
    BY <1>1, <1>2, <2>4, <2>5, <2>7, TurnStep DEF RowsOK
<1>3. CASE dirs' = dirs /\ Leave(p)
  <2>1. dirs' \subseteq Txn
    BY <1>1, <1>3 DEF RowsOK
  <2> QED
    BY <1>1, <1>3, <2>1, LeaveStep
<1> QED
  BY <1>2, <1>3 DEF Compare

(* A new journal plans nothing that is held, and its trash is empty.       *)
LEMMA BeginStep ==
  ASSUME TransactionInv, NEW p \in Process, Begin(p)
  PROVE  TransactionInv'
<1>1. /\ RowsOK /\ WorkerIsRight(p) /\ at[p].step = "begin" /\ lock = p
      /\ source' = source /\ dirs' = dirs /\ trash' = trash /\ plan' = plan /\ lock' = p
      /\ Goto(p, "stage") /\ UNCHANGED <<owners, kills>>
  BY DEF TransactionInv, Begin, Doing
<1>2. PICK t \in Txn : t = at[p].txn /\ journal[t].status = "none"
  BY <1>1 DEF WorkerIsRight
<1> DEFINE operations ==
             [a \in Artifact |-> IF plan[p][a] = "absent" THEN "unplanned" ELSE "pending"]
           row == [status |-> "moving", operations |-> operations, snapshots |-> plan[p]]
<1>3. /\ operations \in [Artifact -> OperationState] /\ plan[p] \in [Artifact -> Content]
      /\ Planned(operations) = Present(plan[p])
      /\ \A a \in Artifact : operations[a] # "purged"
  BY <1>1 DEF RowsOK, OperationState, Planned, Present
<1>4. /\ row \in Journal /\ row.status = "moving" /\ row.operations = operations
      /\ row.snapshots = plan[p]
  BY <1>3 DEF Journal, OpenStatus
<1>5. memory' = [memory EXCEPT ![p] = operations]
  BY DEF Begin
<1>6. memory' \in [Process -> [Artifact -> OperationState]] /\ memory'[p] = operations
  BY <1>1, <1>3, <1>5 DEF RowsOK
<1>7. journal' = [journal EXCEPT ![t] = row]
  BY <1>2, <1>6 DEF Begin
<1> HIDE DEF operations, row
<1>8. /\ journal' \in [Txn -> Journal] /\ journal'[t] = row
      /\ \A u \in Txn \ {t} : journal'[u] = journal[u] /\ trash'[u] = trash[u]
  BY <1>1, <1>4, <1>7 DEF RowsOK
<1>9. left' \in [Process -> SUBSET Artifact] /\ left'[p] = Present(plan[p])
  BY <1>1 DEF Begin, RowsOK, Present
<1>10. "stage" \in StepName
  BY DEF StepName
<1>11. at'[p].step = "stage" /\ at'[p].txn = t
  BY <1>1, <1>2, <1>10, GoesOn
<1>12. \A a \in Artifact : trash[t][a] = "absent"
  BY <1>2 DEF TransactionInv, JournalIsTrue, OpenStatus, Nothing
<1>13. JournalIsTrue(t)'
  BY <1>1, <1>3, <1>4, <1>8, <1>12 DEF TransactionInv, JournalIsTrue, OpenStatus
<1>14. WorkerIsRight(p)'
  BY <1>1, <1>3, <1>4, <1>6, <1>8, <1>9, <1>11, <1>12, MovesOn
<1> QED
  BY <1>1, <1>6, <1>8, <1>9, <1>10, <1>13, <1>14, GoStep DEF RowsOK

(* A process that has not the lock may plan and wait for it.               *)
LEMMA OutsideStep ==
  ASSUME TransactionInv, NEW p \in Process, at[p].step \in {"idle", "lock"},
         NEW step \in {"lock", "recover"}, Goto(p, step),
         lock' \in Process \cup {NoOne}, lock' = lock \/ (lock = NoOne /\ lock' = p),
         step = "recover" => lock' = p,
         plan' \in [Process -> [Artifact -> Content]],
         \A q \in Process : \A a \in Artifact : plan'[q][a] \notin HeldContent,
         UNCHANGED <<files, owners, memory, left, kills>>
  PROVE  TransactionInv'
<1>1. RowsOK /\ UNCHANGED <<source, trash, dirs, journal>>
  BY DEF TransactionInv, files
<1>2. at' = [at EXCEPT ![p] = [@ EXCEPT !.step = step]]
  BY DEF Goto
<1>3. [at[p] EXCEPT !.step = step] \in [step : StepName, txn : 0 .. MaxTxns, own : BOOLEAN]
  <2>1. at[p] \in [step : StepName, txn : 0 .. MaxTxns, own : BOOLEAN] /\ step \in StepName
    BY <1>1 DEF RowsOK, StepName
  <2> QED
    BY <2>1
<1>4. /\ at' \in [Process -> [step : StepName, txn : 0 .. MaxTxns, own : BOOLEAN]]
      /\ at'[p].step = step /\ \A q \in Process \ {p} : at'[q] = at[q]
  BY <1>1, <1>2, <1>3 DEF RowsOK
<1>5. \A q \in Process : at'[q].step \notin {"idle", "lock"} => lock' = q
  BY <1>1, <1>4, RetentionAssumption DEF RowsOK
<1>6. RowsOK'
  BY <1>1, <1>4, <1>5 DEF RowsOK, owners
<1>7. ASSUME NEW q \in Process PROVE WorkerIsRight(q)'
  <2>1. CASE q = p
    BY <1>4, <2>1, OutsideIsRight
  <2>2. CASE q # p
    <3>1. WorkerIsRight(q) /\ at'[q] = at[q]
      BY <1>4, <2>2 DEF TransactionInv
    <3> QED
      BY <1>1, <3>1, KeepsWorking
  <2> QED
    BY <2>1, <2>2
<1>8. \A t \in Txn : JournalIsTrue(t)'
  BY <1>1, KeepsJournal DEF TransactionInv
<1> QED
  BY <1>6, <1>7, <1>8 DEF TransactionInv

(* A plan names nothing that is held.                                      *)
LEMMA MakePlanStep ==
  ASSUME TransactionInv, NEW p \in Process, NEW cutoff \in Cutoff, MakePlan(p, cutoff)
  PROVE  TransactionInv'
<1>1. /\ RowsOK /\ at[p].step = "idle" /\ Goto(p, "lock") /\ lock' = lock
      /\ UNCHANGED <<files, owners, memory, left, kills>>
  BY DEF TransactionInv, MakePlan
<1> DEFINE new == IF Orphans(source) = {} THEN Only(source, Doomed(source, cutoff))
                  ELSE Nothing
<1>2. plan' = [plan EXCEPT ![p] = new]
  BY DEF MakePlan
<1>3. Doomed(source, cutoff) \subseteq Safe(source)
  BY DoomedIsSound DEF TakesBundles
<1>4. \A a \in Safe(source) : source[a] \notin HeldContent
  BY DEF Safe, Members
<1>5. new \in [Artifact -> Content] /\ \A a \in Artifact : new[a] \notin HeldContent
  <2>1. CASE Orphans(source) = {}
    BY <1>1, <1>3, <1>4, <2>1 DEF Only, RowsOK, Content, HeldContent
  <2>2. CASE Orphans(source) # {}
    BY <2>2 DEF Nothing, Content, HeldContent
  <2> QED
    BY <2>1, <2>2
<1> HIDE DEF new
<1>6. /\ plan' \in [Process -> [Artifact -> Content]]
      /\ \A q \in Process : \A a \in Artifact : plan'[q][a] \notin HeldContent
  BY <1>1, <1>2, <1>5 DEF RowsOK, TransactionInv
<1>7. lock' \in Process \cup {NoOne}
  BY <1>1 DEF RowsOK
<1> QED
  BY <1>1, <1>6, <1>7, OutsideStep

(* Only a free lock is taken.                                              *)
LEMMA LockStep ==
  ASSUME TransactionInv, NEW p \in Process, Lock(p)
  PROVE  TransactionInv'
<1>1. /\ RowsOK /\ at[p].step = "lock" /\ UNCHANGED <<files, owners, kills>>
  BY DEF TransactionInv, Lock
<1>2. CASE lock = NoOne
  <2>1. lock' = p /\ Goto(p, "recover") /\ UNCHANGED <<plan, memory, left>>
    BY <1>2 DEF Lock
  <2>2. /\ plan' \in [Process -> [Artifact -> Content]]
        /\ \A q \in Process : \A a \in Artifact : plan'[q][a] \notin HeldContent
    BY <1>1, <2>1 DEF RowsOK, TransactionInv
  <2> QED
    BY <1>1, <1>2, <2>1, <2>2, OutsideStep
<1>3. CASE lock # NoOne
  <2>1. Leave(p)
    BY <1>3 DEF Lock
  <2> QED
    BY <1>1, <2>1, RefuseStep
<1> QED
  BY <1>2, <1>3

(* A killed process leaves the files as they are.                          *)
LEMMA KillStep ==
  ASSUME TransactionInv, NEW p \in Process, Kill(p)
  PROVE  TransactionInv'
<1>1. /\ Leave(p) /\ UNCHANGED <<source, trash, journal, owners>>
      /\ dirs' \subseteq Txn /\ kills' \in 0 .. MaxKills
  BY RetentionAssumption DEF TransactionInv, RowsOK, Kill, files
<1> QED
  BY <1>1, LeaveStep

(* The owners write in place, and nothing that a worker knows is about     *)
(* what is in place.                                                       *)
LEMMA OwnerStep ==
  ASSUME TransactionInv, NEW a \in Artifact, Write(a) \/ WriteAgain(a)
  PROVE  TransactionInv'
<1>1. /\ RowsOK /\ UNCHANGED <<trash, dirs, journal, lock, kills, at, plan, memory, left>>
      /\ writes < MaxWrites /\ writes' = writes + 1
  BY DEF TransactionInv, Write, WriteAgain, process
<1>2. /\ source' \in [Artifact -> Content] /\ rewritten' \subseteq Artifact
  BY <1>1 DEF RowsOK, Content, Write, WriteAgain
<1>3. RowsOK'
  <2>1. writes' \in 0 .. MaxWrites
    BY <1>1, RetentionAssumption DEF RowsOK
  <2> QED
    BY <1>1, <1>2, <2>1 DEF RowsOK
<1>4. \A q \in Process : WorkerIsRight(q)'
  BY <1>1, KeepsWorking DEF TransactionInv
<1>5. \A t \in Txn : JournalIsTrue(t)'
  BY <1>1, KeepsJournal DEF TransactionInv
<1> QED
  BY <1>1, <1>3, <1>4, <1>5 DEF TransactionInv

-----------------------------------------------------------------------------
(* Theorems                                                                *)

(* The invariant holds at first.                                           *)
LEMMA TransactionInit == RetentionInit => TransactionInv
<1> SUFFICES ASSUME RetentionInit PROVE TransactionInv
  OBVIOUS
<1>1. Idle \in [step : StepName, txn : 0 .. MaxTxns, own : BOOLEAN]
  BY RetentionAssumption DEF Idle, StepName
<1>2. /\ Nothing \in [Artifact -> Content] /\ NoOperations \in [Artifact -> OperationState]
      /\ \A a \in Artifact : Nothing[a] \notin HeldContent
      /\ Nothing \in [Artifact -> Content \cup {"torn"}]
  BY DEF Nothing, NoOperations, Content, OperationState, HeldContent
<1>3. NoJournal \in Journal /\ NoJournal.status = "none" /\ NoJournal.snapshots = Nothing
  BY <1>2 DEF NoJournal, Journal
<1>4. RowsOK
  BY <1>1, <1>2, <1>3, RetentionAssumption DEF RetentionInit, RowsOK, Content, Idle
<1>5. ASSUME NEW t \in Txn PROVE JournalIsTrue(t)
  <2>1. trash[t] = Nothing /\ journal[t] = NoJournal
    BY DEF RetentionInit
  <2> QED
    BY <1>2, <1>3, <2>1 DEF JournalIsTrue, OpenStatus, Nothing
<1>6. ASSUME NEW p \in Process PROVE WorkerIsRight(p)
  <2>1. at[p].step = "idle"
    BY DEF RetentionInit, Idle
  <2> QED
    BY <2>1 DEF WorkerIsRight, Moves, Purges, Returns
<1>7. \A p \in Process : \A a \in Artifact : plan[p][a] \notin HeldContent
  BY <1>2 DEF RetentionInit
<1> QED
  BY <1>4, <1>5, <1>6, <1>7 DEF TransactionInv

(* Every step keeps it.                                                    *)
LEMMA TransactionNext == TransactionInv /\ [RetentionNext]_retentionVars => TransactionInv'
<1> SUFFICES ASSUME TransactionInv, [RetentionNext]_retentionVars PROVE TransactionInv'
  OBVIOUS
<1>1. CASE UNCHANGED retentionVars
  <2>1. /\ UNCHANGED <<source, trash, dirs, journal, writes, rewritten, lock, kills>>
        /\ UNCHANGED <<at, plan, memory, left>>
    BY <1>1 DEF retentionVars, files, owners, process
  <2>2. \A q \in Process : WorkerIsRight(q)'
    BY <2>1, KeepsWorking DEF TransactionInv
  <2>3. \A t \in Txn : JournalIsTrue(t)'
    BY <2>1, KeepsJournal DEF TransactionInv
  <2> QED
    BY <2>1, <2>2, <2>3 DEF TransactionInv, RowsOK
<1>2. CASE \E p \in Process, cutoff \in Cutoff : MakePlan(p, cutoff)
  BY <1>2, MakePlanStep
<1>3. CASE \E p \in Process : Apply(p) \/ Kill(p)
  BY <1>3, LockStep, CleanEarlierStep, ResumeStep, CompareStep, BeginStep, StageStep,
     MoveStep, VerifyStep, SaveStep, StartPurgeStep, PurgeStep, CompleteStep, RollBackStep,
     ReturnStep, RolledBackStep, CleanStep, KillStep DEF Apply
<1>4. CASE \E a \in Artifact : Write(a) \/ WriteAgain(a)
  BY <1>4, OwnerStep
<1> QED
  BY <1>1, <1>2, <1>3, <1>4 DEF RetentionNext

(* The inductive invariant of the transactions holds always.               *)
THEOREM TransactionInvariant == RetentionSpec => []TransactionInv
<1> QED
  BY TransactionInit, TransactionNext, PTL DEF RetentionSpec

(* Every variable keeps its type, and no two processes are past the lock.  *)
THEOREM RetentionTypeCorrect == RetentionSpec => []RetentionTypeOK
<1>1. TransactionInv => RetentionTypeOK
  <2> SUFFICES ASSUME TransactionInv PROVE RetentionTypeOK
    OBVIOUS
  <2>1. \A t \in Txn : journal[t] \in Journal
    BY DEF TransactionInv, RowsOK
  <2>2. \A t \in Txn :
          /\ journal[t].status \in {"none", "moving", "purging"} \cup Terminal
          /\ journal[t].operations \in [Artifact -> OperationState]
          /\ journal[t].snapshots \in [Artifact -> Content]
    BY <2>1 DEF Journal, OpenStatus
  <2> QED
    BY <2>2 DEF TransactionInv, RowsOK, RetentionTypeOK
<1> QED
  BY <1>1, TransactionInvariant, PTL

(* A journal that says that it is over tells the truth about its trash.    *)
THEOREM FinishedIsCleanCorrect == RetentionSpec => []FinishedIsClean
<1>1. TransactionInv => FinishedIsClean
  BY DEF TransactionInv, JournalIsTrue, FinishedIsClean, OpenStatus, Terminal
<1> QED
  BY <1>1, TransactionInvariant, PTL

(* Only an unlink takes a content out of the trash for good, and it takes  *)
(* what was planned: a rollback puts back what it takes.                   *)
LEMMA StepPurgesThePlan ==
  ASSUME TransactionInv, [RetentionNext]_retentionVars,
         NEW t \in Txn, NEW a \in Artifact,
         trash'[t][a] \in {"absent", "torn"}, trash[t][a] \notin {"absent", "torn"}
  PROVE  \/ source'[a] = trash[t][a]
         \/ /\ journal[t].status = "purging"
            /\ trash[t][a] = journal[t].snapshots[a]
            /\ trash[t][a] \notin HeldContent
<1>1. trash' # trash /\ RowsOK
  BY DEF TransactionInv
<1>2. CASE \E p \in Process : Purge(p)
  <2>1. PICK p \in Process : Purge(p)
    BY <1>2
  <2>2. WorkerIsRight(p) /\ at[p].step = "purge"
    BY <2>1 DEF TransactionInv, Purge, Doing
  <2>3. PICK u \in Txn : u = at[p].txn /\ journal[u].status = "purging"
    BY <2>2, WhenPurging
  <2>4. \E c \in {"absent", "torn"} : trash' = [trash EXCEPT ![u][Operation(p)] = c]
    BY <1>1, <2>1, <2>3 DEF Purge
  <2>5. t = u
    BY <1>1, <2>3, <2>4 DEF RowsOK
  <2>6. JournalIsTrue(t)
    BY DEF TransactionInv
  <2> QED
    BY <2>3, <2>5, <2>6 DEF JournalIsTrue
<1>3. CASE \E p \in Process : Return(p)
  <2>1. PICK p \in Process : Return(p)
    BY <1>3
  <2>2. WorkerIsRight(p) /\ at[p].step = "return"
    BY <2>1 DEF TransactionInv, Return, Doing
  <2>3. at[p].txn \in Txn /\ left[p] # {}
    BY <2>2, WhenReturning
  <2>4. PICK u \in Txn : u = at[p].txn
    BY <2>3
  <2>5. PICK o \in Artifact : o = Operation(p)
    BY <1>1, <2>3, OperationIsLeft
  <2>6. /\ source' = [source EXCEPT ![o] = trash[u][o]]
        /\ trash' = [trash EXCEPT ![u][o] = "absent"]
    BY <2>1, <2>4, <2>5 DEF Return, InTrash
  <2>7. t = u /\ a = o
    BY <1>1, <2>4, <2>5, <2>6 DEF RowsOK
  <2> QED
    BY <1>1, <2>6, <2>7 DEF RowsOK
<1>4. CASE \E p \in Process : Move(p)
  <2>1. PICK p \in Process : Move(p)
    BY <1>4
  <2>2. WorkerIsRight(p) /\ at[p].step = "move"
    BY <2>1 DEF TransactionInv, Move, Doing
  <2>3. at[p].txn \in Txn /\ left[p] # {}
    BY <2>2, WhenMoving
  <2>4. PICK u \in Txn : u = at[p].txn
    BY <2>3
  <2>5. PICK o \in Artifact : o = Operation(p)
    BY <1>1, <2>3, OperationIsLeft
  <2>6. source[o] # "absent" /\ trash' = [trash EXCEPT ![u][o] = source[o]]
    BY <1>1, <2>1, <2>4, <2>5 DEF Move, InPlace
  <2>7. source[o] \notin {"absent", "torn"}
    BY <1>1, <2>5, <2>6 DEF RowsOK, Content
  <2>8. trash'[t][a] = IF t = u /\ a = o THEN source[o] ELSE trash[t][a]
    BY <1>1, <2>4, <2>5, <2>6 DEF RowsOK
  <2> QED
    BY <2>7, <2>8
<1>5. CASE ~ \E p \in Process : Purge(p) \/ Return(p) \/ Move(p)
  <2>1. trash' = trash
    BY <1>5 DEF RetentionNext, retentionVars, files, Apply, MakePlan, Lock, CleanEarlier,
       Resume, Compare, Begin, Stage, Verify, Save, StartPurge, Complete, RollBack,
       RolledBack, Clean, Kill, Write, WriteAgain
  <2> QED
    BY <1>1, <2>1
<1> QED
  BY <1>2, <1>3, <1>4, <1>5

(* What is unlinked is the very content that was planned and journaled,    *)
(* and nothing is unlinked before the whole plan is staged.                *)
THEOREM PurgesThePlanCorrect == RetentionSpec => PurgesThePlan
<1> DEFINE Step ==
      \A t \in Txn, a \in Artifact :
        trash'[t][a] \in {"absent", "torn"} /\ trash[t][a] \notin {"absent", "torn"}
          => \/ source'[a] = trash[t][a]
             \/ /\ journal[t].status = "purging"
                /\ trash[t][a] = journal[t].snapshots[a]
                /\ trash[t][a] \notin HeldContent
<1>1. TransactionInv /\ [RetentionNext]_retentionVars => Step
  BY StepPurgesThePlan
<1>2. TransactionInv /\ [RetentionNext]_retentionVars => [Step]_retentionVars
  BY <1>1
<1> HIDE DEF Step
<1>3. RetentionSpec => [][Step]_retentionVars
  BY <1>2, TransactionInvariant, PTL DEF RetentionSpec
<1>4. (RetentionSpec => [][Step]_retentionVars) => (RetentionSpec => PurgesThePlan)
  BY DEF PurgesThePlan, Step
<1> QED
  BY <1>3, <1>4

(* Only making a plan goes from idle to the wait for the lock.             *)
LEMMA PlanningStep ==
  ASSUME TransactionInv, [RetentionNext]_retentionVars, NEW p \in Process, Plans(p)
  PROVE  \E cutoff \in Cutoff : MakePlan(p, cutoff)
<1>1. RowsOK /\ at[p].step = "idle" /\ at'[p].step = "lock"
  BY DEF TransactionInv, Plans
<1>2. \A q \in Process : ~ Leave(q)
  <2> SUFFICES ASSUME NEW q \in Process, Leave(q) PROVE FALSE
    OBVIOUS
  <2>1. at'[p] = IF p = q THEN Idle ELSE at[p]
    BY <1>1 DEF Leave, RowsOK
  <2> QED
    BY <1>1, <2>1 DEF Idle
<1>3. \A q \in Process, step \in StepName \ {"lock"} : ~ Goto(q, step)
  <2> SUFFICES ASSUME NEW q \in Process, NEW step \in StepName \ {"lock"}, Goto(q, step)
               PROVE  FALSE
    OBVIOUS
  <2>1. at'[p].step = IF p = q THEN step ELSE at[p].step
    BY <1>1 DEF Goto, RowsOK
  <2> QED
    BY <1>1, <2>1
<1>4. ASSUME NEW q \in Process, NEW cutoff \in Cutoff, MakePlan(q, cutoff) PROVE q = p
  <2>1. at'[p] = IF p = q THEN at'[p] ELSE at[p]
    BY <1>1, <1>4 DEF MakePlan, Goto, RowsOK
  <2> QED
    BY <1>1, <2>1
<1>5. \A q \in Process : ~ \E row : row.step # "lock" /\ at' = [at EXCEPT ![q] = row]
  <2> SUFFICES ASSUME NEW q \in Process, NEW row, row.step # "lock",
                      at' = [at EXCEPT ![q] = row]
               PROVE  FALSE
    OBVIOUS
  <2>1. at'[p] = IF p = q THEN row ELSE at[p]
    BY <1>1 DEF RowsOK
  <2> QED
    BY <1>1, <2>1
<1>6. at' # at
  BY <1>1
<1>7. ASSUME NEW q \in Process, Apply(q) \/ Kill(q) PROVE FALSE
  <2>1. /\ \A step \in StepName \ {"lock"} : ~ Goto(q, step)
        /\ {"recover", "stage", "move", "verify", "save", "purge", "return", "rollback",
            "clean"} \subseteq StepName \ {"lock"}
    BY <1>3 DEF StepName
  <2>2. CASE Lock(q) \/ CleanEarlier(q) \/ Begin(q) \/ Stage(q) \/ Move(q) \/ Kill(q)
    BY <1>2, <2>1, <2>2 DEF Lock, CleanEarlier, Begin, Stage, Move, Kill, Stay
  <2>3. CASE Verify(q) \/ Save(q) \/ StartPurge(q) \/ Complete(q) \/ Return(q) \/ RolledBack(q)
    BY <1>2, <2>1, <2>3 DEF Verify, Save, StartPurge, Complete, Return, RolledBack,
       SaveProgress
  <2>4. CASE Purge(q) \/ RollBack(q)
    BY <1>2, <1>6, <2>1, <2>4 DEF Purge, RollBack, Stay
  <2>5. CASE Resume(q)
    <3> DEFINE row(t) == [step |-> IF journal[t].status = "purging" THEN "purge"
                                   ELSE IF MustRollBack(journal[t].operations) THEN "rollback"
                                   ELSE "stage",
                          txn |-> t, own |-> FALSE]
    <3>1. PICK t \in Txn : at' = [at EXCEPT ![q] = row(t)]
      BY <1>2, <2>5 DEF Resume
    <3>2. row(t).step # "lock"
      OBVIOUS
    <3> QED
      BY <1>5, <3>1, <3>2
  <2>6. CASE Compare(q)
    <3>1. PICK t : at' = [at EXCEPT ![q] = [step |-> "begin", txn |-> t, own |-> TRUE]]
      BY <1>2, <2>6 DEF Compare
    <3> QED
      BY <1>5, <3>1
  <2>7. CASE Clean(q)
    <3>1. at' = [at EXCEPT ![q] = [step |-> "recover", txn |-> 0, own |-> FALSE]]
      BY <1>2, <2>7 DEF Clean
    <3> QED
      BY <1>5, <3>1
  <2> QED
    BY <1>7, <2>2, <2>3, <2>4, <2>5, <2>6, <2>7 DEF Apply
<1>8. ~ UNCHANGED retentionVars /\ \A a \in Artifact : ~ Write(a) /\ ~ WriteAgain(a)
  BY <1>6 DEF retentionVars, process, Write, WriteAgain
<1> QED
  BY <1>4, <1>7, <1>8 DEF RetentionNext

(* What a plan takes is sound: the temporal statement of DoomedIsSound.    *)
LEMMA PlansSoundly ==
  ASSUME TransactionInv, NEW p \in Process, NEW cutoff, MakePlan(p, cutoff)
  PROVE  Present(plan'[p]) = IF Orphans(source) = {} THEN Doomed(source, cutoff) ELSE {}
<1> DEFINE new == IF Orphans(source) = {} THEN Only(source, Doomed(source, cutoff))
                  ELSE Nothing
<1>1. plan'[p] = new
  BY DEF MakePlan, TransactionInv, RowsOK
<1>2. Doomed(source, cutoff) \subseteq Present(source)
  BY DoomedIsSound DEF TakesBundles, Safe
<1> QED
  BY <1>1, <1>2 DEF Only, Nothing, Present

(* A plan takes whole bundles and nothing held, no safe bundle of a class  *)
(* over its ceiling is left, and the oldest bundles go first.              *)
THEOREM PlansAreSoundCorrect == RetentionSpec => PlansAreSound
<1> DEFINE Sound(p) ==
             LET doomed == Present(plan'[p]) IN
             Plans(p) =>
               /\ \A a \in doomed : \A b \in Members(source, a) :
                    b \in doomed /\ source[b] \notin HeldContent
               /\ Orphans(source) = {} =>
                    \A a \in Safe(source) \ doomed :
                      ClassesOf(source, a) \cap Pressured(Present(source) \ doomed) = {}
               /\ Orphans(source) # {} => doomed = {}
           OldestFirst(p) ==
             Plans(p) => \A cutoff \in Cutoff, old, young \in Artifact :
               /\ MakePlan(p, cutoff)
               /\ Oldest(source, old) /\ Oldest(source, young) /\ old < young
               /\ old \in Safe(source) \ Present(plan'[p]) /\ young \in Present(plan'[p])
               /\ ClassesOf(source, young) \subseteq ClassesOf(source, old)
               => young \in Aged(source, cutoff)
           Step == \A p \in Process : Sound(p)
           Order == \A p \in Process : OldestFirst(p)
<1>1. ASSUME TransactionInv, [RetentionNext]_retentionVars, NEW p \in Process PROVE Sound(p)
  <2> SUFFICES ASSUME Plans(p)
               PROVE  LET doomed == Present(plan'[p]) IN
                      /\ \A a \in doomed : \A b \in Members(source, a) :
                           b \in doomed /\ source[b] \notin HeldContent
                      /\ Orphans(source) = {} =>
                           \A a \in Safe(source) \ doomed :
                             ClassesOf(source, a) \cap Pressured(Present(source) \ doomed) = {}
                      /\ Orphans(source) # {} => doomed = {}
    OBVIOUS
  <2>1. PICK cutoff \in Cutoff : MakePlan(p, cutoff)
    BY <1>1, PlanningStep
  <2>2. Present(plan'[p]) = IF Orphans(source) = {} THEN Doomed(source, cutoff) ELSE {}
    BY <1>1, <2>1, PlansSoundly
  <2>3. CASE Orphans(source) # {}
    BY <2>2, <2>3
  <2>4. CASE Orphans(source) = {}
    <3> DEFINE doomed == Doomed(source, cutoff)
    <3>1. /\ TakesBundles(source, doomed)
          /\ \A a \in Safe(source) \ doomed :
               ClassesOf(source, a) \cap Pressured(Present(source) \ doomed) = {}
      BY DoomedIsSound
    <3> HIDE DEF doomed
    <3>2. Present(plan'[p]) = doomed
      BY <2>2, <2>4 DEF doomed
    <3>3. \A a \in doomed : \A b \in Members(source, a) :
            b \in doomed /\ source[b] \notin HeldContent
      BY <3>1 DEF TakesBundles, Safe, Members
    <3> QED
      BY <2>4, <3>1, <3>2, <3>3
  <2> QED
    BY <2>3, <2>4
<1>2. ASSUME TransactionInv, NEW p \in Process PROVE OldestFirst(p)
  <2> SUFFICES ASSUME NEW cutoff \in Cutoff, NEW old \in Artifact, NEW young \in Artifact,
                      MakePlan(p, cutoff),
                      Oldest(source, old), Oldest(source, young), old < young,
                      old \in Safe(source) \ Present(plan'[p]), young \in Present(plan'[p]),
                      ClassesOf(source, young) \subseteq ClassesOf(source, old)
               PROVE  young \in Aged(source, cutoff)
    OBVIOUS
  <2>1. Present(plan'[p]) = IF Orphans(source) = {} THEN Doomed(source, cutoff) ELSE {}
    BY <1>2, PlansSoundly
  <2>2. Present(plan'[p]) = Doomed(source, cutoff)
    BY <2>1
  <2> QED
    BY <2>2, DoomedIsSound
<1>3. TransactionInv /\ [RetentionNext]_retentionVars => [Step]_retentionVars
  BY <1>1
<1>4. TransactionInv => [Order]_retentionVars
  BY <1>2
<1> HIDE DEF Step, Order, Sound, OldestFirst
<1>5. RetentionSpec => [][Step]_retentionVars
  BY <1>3, TransactionInvariant, PTL DEF RetentionSpec
<1>6. RetentionSpec => [][Order]_retentionVars
  BY <1>4, TransactionInvariant, PTL
<1>7. (RetentionSpec => [][Step]_retentionVars) => (RetentionSpec => PlanIsSound)
  BY DEF PlanIsSound, Step, Sound
<1>8. (RetentionSpec => [][Order]_retentionVars) => (RetentionSpec => OldestGoFirst)
  BY DEF OldestGoFirst, Order, OldestFirst
<1> QED
  BY <1>5, <1>6, <1>7, <1>8 DEF PlansAreSound

-----------------------------------------------------------------------------
(* Whole bundles                                                           *)

(* A transaction that is not over, and the artifacts that it chose.        *)
IsOpen(t) == journal[t].status \in OpenStatus
Chosen(t) == Planned(journal[t].operations)

(* What is chosen has jobs for all its bundles, and takes them whole, but  *)
(* for what its owner wrote again.                                         *)
NamesJobs(chosen) ==
  \A a \in chosen : \E j \in chosen \ Review : Bundle[j] = Bundle[a]
TakesWhole(chosen) ==
  \A a \in chosen \ rewritten, b \in Artifact \ rewritten :
    Bundle[a] = Bundle[b] => b \in chosen

(* An open journal that finds an artifact both in its place and in the     *)
(* trash refuses, whoever resumes it.                                      *)
Returning(t, j) ==
  \E p \in Process : at[p].step = "return" /\ at[p].txn = t /\ Operation(p) = j
Blocked(t, j) ==
  IsOpen(t) /\ source[j] # "absent" /\ trash[t][j] # "absent" /\ ~ Returning(t, j)
Stuck == \E t \in Txn, j \in Artifact : Blocked(t, j)

(* An open journal chose whole bundles, and its artifacts are where it says*)
(* they are: moved in order, and back in reverse order.                    *)
JournalIsWhole(t) ==
  IsOpen(t) =>
    /\ NamesJobs(Chosen(t)) /\ TakesWhole(Chosen(t))
    /\ \A a \in Chosen(t) : journal[t].snapshots[a] # "absent"
    /\ \A a \in Chosen(t) \ rewritten :
         source[a] = "absent" <=> trash[t][a] # "absent" \/ journal[t].status = "purging"
    /\ \A a, b \in Chosen(t) :
         journal[t].status = "moving" /\ a < b /\ trash[t][b] # "absent"
           => trash[t][a] # "absent"

(* What no open transaction chose is there, or gone, bundle by bundle.     *)
OneOpenJournal == \A t, u \in Txn : IsOpen(t) /\ IsOpen(u) => t = u
UntouchedIsWhole ==
  \A a, b \in Artifact \ rewritten :
    /\ Bundle[a] = Bundle[b]
    /\ \A t \in Txn : IsOpen(t) => a \notin Chosen(t) /\ b \notin Chosen(t)
    => (source[a] = "absent" <=> source[b] = "absent")
FilesAreWhole ==
  OneOpenJournal /\ UntouchedIsWhole /\ \A t \in Txn : JournalIsWhole(t)

(* A plan takes whole bundles, except one that was made from what another  *)
(* transaction left half moved; that transaction then stays open, so the   *)
(* plan is never applied.                                                  *)
PlanIsWhole(p) ==
  NamesJobs(Present(plan[p])) /\ (TakesWhole(Present(plan[p])) \/ Stuck)

(* A process begins with nothing open and all of its plan there, and moves *)
(* from the oldest artifact on.                                            *)
WorkerInOrder(p) ==
  LET t == at[p].txn IN
  /\ at[p].step = "begin" =>
       /\ \A u \in Txn : ~ IsOpen(u)
       /\ \A a \in Present(plan[p]) : source[a] # "absent"
  /\ Moves(p) => \A a \in Chosen(t) \ left[p] :
                   trash[t][a] # "absent" /\ \A b \in left[p] : a < b
  /\ at[p].step = "move" => InTrash(p) = "absent"

(* The inductive invariant of bundles, together with TransactionInv.       *)
BundleInv ==
  /\ JobsComeFirst /\ FilesAreWhole
  /\ \A p \in Process : PlanIsWhole(p) /\ WorkerInOrder(p)

-----------------------------------------------------------------------------
(* Bundles stay whole while only the owners, a purge and the progress in a *)
(* journal touch anything.                                                 *)
LEMMA QuietFiles ==
  ASSUME FilesAreWhole, rewritten \subseteq rewritten',
         \A a \in Artifact \ rewritten' : source'[a] = "absent" <=> source[a] = "absent",
         \A t \in Txn :
           /\ journal'[t].status = journal[t].status /\ Chosen(t)' = Chosen(t)
           /\ journal'[t].snapshots = journal[t].snapshots
           /\ trash'[t] = trash[t] \/ journal[t].status = "purging"
  PROVE  FilesAreWhole'
<1>1. \A t \in Txn : IsOpen(t)' <=> IsOpen(t)
  BY DEF IsOpen
<1>2. OneOpenJournal'
  BY <1>1 DEF FilesAreWhole, OneOpenJournal
<1>3. UntouchedIsWhole'
  BY <1>1 DEF FilesAreWhole, UntouchedIsWhole
<1>4. ASSUME NEW t \in Txn PROVE JournalIsWhole(t)'
  <2>1. JournalIsWhole(t) /\ Chosen(t)' = Chosen(t) /\ Chosen(t) \subseteq Artifact
    BY DEF FilesAreWhole, Chosen, Planned
  <2>2. CASE journal[t].status = "purging"
    BY <1>1, <2>1, <2>2 DEF JournalIsWhole, NamesJobs, TakesWhole
  <2>3. CASE trash'[t] = trash[t]
    BY <1>1, <2>1, <2>3 DEF JournalIsWhole, NamesJobs, TakesWhole
  <2> QED
    BY <2>2, <2>3
<1> QED
  BY <1>2, <1>3, <1>4 DEF FilesAreWhole

(* An artifact that is moved away is one of the transaction's.             *)
LEMMA MoveKeepsFiles ==
  ASSUME TransactionInv, FilesAreWhole, NEW p \in Process, WorkerInOrder(p), Move(p)
  PROVE  FilesAreWhole'
<1>1. /\ RowsOK /\ WorkerIsRight(p) /\ at[p].step = "move" /\ Moves(p)
      /\ journal' = journal /\ rewritten' = rewritten
  BY DEF TransactionInv, Move, Doing, owners, Moves
<1>2. PICK t \in Txn : t = at[p].txn
  BY <1>1, WhenMoving
<1>3. /\ journal[t].status = "moving" /\ left[p] # {} /\ left[p] \subseteq Chosen(t)
      /\ Chosen(t) \subseteq Artifact
  BY <1>1, <1>2, WhenMoving DEF Chosen, Planned
<1>4. PICK o \in left[p] : o = Operation(p) /\ o \in Artifact
  BY <1>1, <1>3, OperationIsLeft
<1>5. \A u \in Txn : Chosen(u)' = Chosen(u) /\ (IsOpen(u)' <=> IsOpen(u))
  BY <1>1 DEF Chosen, Planned, IsOpen
<1>6. CASE source[o] = "absent"
  <2>1. source' = source /\ trash' = trash
    BY <1>4, <1>6 DEF Move, InPlace
  <2> QED
    BY <1>1, <1>5, <2>1, QuietFiles
<1>7. CASE source[o] # "absent"
  <2>1. /\ trash' = [trash EXCEPT ![t][o] = source[o]]
        /\ source' = [source EXCEPT ![o] = "absent"]
    BY <1>2, <1>4, <1>7 DEF Move, InPlace
  <2>2. /\ source'[o] = "absent" /\ \A a \in Artifact \ {o} : source'[a] = source[a]
        /\ trash'[t][o] # "absent" /\ \A a \in Artifact \ {o} : trash'[t][a] = trash[t][a]
        /\ \A u \in Txn \ {t} : trash'[u] = trash[u]
    BY <1>1, <1>4, <1>7, <2>1 DEF RowsOK
  <2>3. OneOpenJournal' /\ \A u \in Txn : IsOpen(u) <=> u = t
    BY <1>3, <1>5 DEF FilesAreWhole, OneOpenJournal, IsOpen, OpenStatus
  <2>4. UntouchedIsWhole'
    BY <1>1, <1>3, <1>5, <2>2, <2>3 DEF FilesAreWhole, UntouchedIsWhole
  <2>5. \A a \in Chosen(t) \ left[p] : trash[t][a] # "absent"
    BY <1>1, <1>2 DEF WorkerInOrder
  <2>6. \A b \in left[p] : o <= b
    <3>1. left[p] \in SUBSET Nat
      BY <1>3 DEF Artifact
    <3>2. Operation(p) = Min(left[p])
      BY <1>1 DEF Operation
    <3> QED
      BY <1>4, <3>1, <3>2, OldestIsThere
  <2>7. \A a \in Chosen(t) : a < o => trash[t][a] # "absent"
    <3>1. Chosen(t) \subseteq Int
      BY <1>3 DEF Artifact
    <3> QED
      BY <1>3, <2>5, <2>6, <3>1
  <2>8. JournalIsWhole(t)'
    <3>1. JournalIsWhole(t) /\ IsOpen(t)
      BY <2>3 DEF FilesAreWhole
    <3>2. /\ NamesJobs(Chosen(t))' /\ TakesWhole(Chosen(t))'
          /\ \A a \in Chosen(t) : journal[t].snapshots[a] # "absent"
      BY <1>1, <1>5, <3>1 DEF JournalIsWhole, NamesJobs, TakesWhole
    <3>3. \A a \in Chosen(t) \ rewritten : source'[a] = "absent" <=> trash'[t][a] # "absent"
      BY <1>3, <2>2, <3>1 DEF JournalIsWhole
    <3>4. ASSUME NEW a \in Chosen(t), NEW b \in Chosen(t), a < b, trash'[t][b] # "absent"
          PROVE  trash'[t][a] # "absent"
      BY <1>3, <2>2, <2>7, <3>1, <3>4 DEF JournalIsWhole
    <3> QED
      BY <1>1, <1>3, <1>5, <3>2, <3>3, <3>4 DEF JournalIsWhole
  <2>9. ASSUME NEW u \in Txn, u # t PROVE JournalIsWhole(u)'
    BY <1>5, <2>3, <2>9 DEF JournalIsWhole
  <2> QED
    BY <2>3, <2>4, <2>8, <2>9 DEF FilesAreWhole
<1> QED
  BY <1>6, <1>7

(* What a rollback puts back is the last that was in the trash.            *)
LEMMA ReturnKeepsFiles ==
  ASSUME TransactionInv, FilesAreWhole, NEW p \in Process, Return(p)
  PROVE  FilesAreWhole'
<1>1. /\ RowsOK /\ WorkerIsRight(p) /\ at[p].step = "return"
      /\ journal' = journal /\ rewritten' = rewritten
  BY DEF TransactionInv, Return, Doing, owners
<1>2. PICK t \in Txn : t = at[p].txn
  BY <1>1, WhenReturning
<1>3. /\ journal[t].status = "moving" /\ left[p] # {} /\ left[p] \subseteq Chosen(t)
      /\ Chosen(t) \subseteq Artifact
      /\ \A a \in Artifact \ left[p] : trash[t][a] = "absent"
      /\ InTrash(p) = Snapshot(p)
  BY <1>1, <1>2, WhenReturning DEF Chosen, Planned
<1>4. PICK o \in left[p] : o = Operation(p) /\ o \in Artifact
  BY <1>1, <1>3, OperationIsLeft
<1>5. \A u \in Txn : Chosen(u)' = Chosen(u) /\ (IsOpen(u)' <=> IsOpen(u))
  BY <1>1 DEF Chosen, Planned, IsOpen
<1>6. OneOpenJournal' /\ \A u \in Txn : IsOpen(u) <=> u = t
  BY <1>3, <1>5 DEF FilesAreWhole, OneOpenJournal, IsOpen, OpenStatus
<1>7. JournalIsWhole(t) /\ IsOpen(t)
  BY <1>6 DEF FilesAreWhole
<1>8. trash[t][o] # "absent"
  BY <1>2, <1>3, <1>4, <1>7 DEF JournalIsWhole, InTrash, Snapshot
<1>9. /\ source'[o] # "absent" /\ \A a \in Artifact \ {o} : source'[a] = source[a]
      /\ trash'[t][o] = "absent" /\ \A a \in Artifact \ {o} : trash'[t][a] = trash[t][a]
      /\ \A u \in Txn \ {t} : trash'[u] = trash[u]
  <2>1. /\ trash' = [trash EXCEPT ![t][o] = "absent"]
        /\ source' = [source EXCEPT ![o] = trash[t][o]]
    BY <1>2, <1>4 DEF Return, InTrash
  <2> QED
    BY <1>1, <1>4, <1>8, <2>1 DEF RowsOK
<1>10. UntouchedIsWhole'
  BY <1>1, <1>3, <1>5, <1>6, <1>9 DEF FilesAreWhole, UntouchedIsWhole
<1>11. \A b \in Chosen(t) : o < b => trash[t][b] = "absent"
  <2>1. Count \in Nat /\ Chosen(t) \subseteq Int /\ o \in Int
    BY <1>3, <1>4, RetentionPlanAssumption DEF Artifact
  <2>2. left[p] \in SUBSET (0 .. Count)
    BY <1>3, <2>1 DEF Artifact
  <2>3. \A b \in left[p] : b <= o
    <3>1. Operation(p) = Max(left[p])
      BY <1>1 DEF Operation
    <3> QED
      BY <1>3, <1>4, <2>1, <2>2, <3>1, YoungestIsThere
  <2>4. ASSUME NEW b \in Chosen(t), o < b PROVE b \notin left[p]
    BY <2>1, <2>3, <2>4
  <2> QED
    BY <1>3, <2>4
<1>12. JournalIsWhole(t)'
  <2>1. /\ NamesJobs(Chosen(t))' /\ TakesWhole(Chosen(t))'
        /\ \A a \in Chosen(t) : journal[t].snapshots[a] # "absent"
    BY <1>1, <1>5, <1>7 DEF JournalIsWhole, NamesJobs, TakesWhole
  <2>2. \A a \in Chosen(t) \ rewritten : source'[a] = "absent" <=> trash'[t][a] # "absent"
    BY <1>3, <1>7, <1>9 DEF JournalIsWhole
  <2>3. ASSUME NEW a \in Chosen(t), NEW b \in Chosen(t), a < b, trash'[t][b] # "absent"
        PROVE  trash'[t][a] # "absent"
    BY <1>3, <1>7, <1>9, <1>11, <2>3 DEF JournalIsWhole
  <2> QED
    BY <1>1, <1>3, <1>5, <2>1, <2>2, <2>3 DEF JournalIsWhole
<1>13. ASSUME NEW u \in Txn, u # t PROVE JournalIsWhole(u)'
  BY <1>5, <1>6, <1>13 DEF JournalIsWhole
<1> QED
  BY <1>6, <1>10, <1>12, <1>13 DEF FilesAreWhole

(* A transaction that is over leaves whole bundles: all that it planned is *)
(* gone, or all is back.                                                   *)
LEMMA FinishKeepsFiles ==
  ASSUME TransactionInv, FilesAreWhole, NEW t \in Txn, IsOpen(t), trash[t] = Nothing,
         journal'[t].status \notin OpenStatus,
         \A u \in Txn \ {t} : journal'[u] = journal[u],
         UNCHANGED <<source, trash, rewritten>>
  PROVE  FilesAreWhole'
<1>1. \A u \in Txn : ~ IsOpen(u)' /\ (IsOpen(u) <=> u = t)
  BY DEF FilesAreWhole, OneOpenJournal, IsOpen
<1>2. ASSUME NEW a \in Artifact \ rewritten, NEW b \in Artifact \ rewritten,
             Bundle[a] = Bundle[b]
      PROVE  source[a] = "absent" <=> source[b] = "absent"
  <2>1. Chosen(t) \subseteq Artifact /\ JournalIsWhole(t)
    BY DEF Chosen, Planned, FilesAreWhole
  <2>2. a \in Chosen(t) <=> b \in Chosen(t)
    BY <1>2, <2>1 DEF JournalIsWhole, TakesWhole
  <2>3. CASE a \in Chosen(t)
    BY <2>1, <2>2, <2>3 DEF JournalIsWhole, Nothing
  <2>4. CASE a \notin Chosen(t)
    BY <1>1, <1>2, <2>2, <2>4 DEF FilesAreWhole, UntouchedIsWhole
  <2> QED
    BY <2>3, <2>4
<1> QED
  BY <1>1, <1>2 DEF FilesAreWhole, OneOpenJournal, UntouchedIsWhole, JournalIsWhole

(* Both ends of a transaction.                                             *)
LEMMA EndsKeepFiles ==
  ASSUME TransactionInv, FilesAreWhole, NEW p \in Process, Complete(p) \/ RolledBack(p)
  PROVE  FilesAreWhole'
<1>1. /\ RowsOK /\ WorkerIsRight(p) /\ at[p].step \in {"purge", "rollback"} /\ left[p] = {}
      /\ UNCHANGED <<source, trash, rewritten>>
  BY DEF TransactionInv, Complete, RolledBack, Doing, owners
<1>2. PICK t \in Txn : t = at[p].txn
  BY <1>1, WhenPurging, WhenReturning
<1>3. IsOpen(t) /\ \A a \in Artifact : trash[t][a] = "absent"
  BY <1>1, <1>2, WhenPurging, WhenReturning DEF IsOpen, OpenStatus
<1>4. trash[t] = Nothing
  BY <1>1, <1>3 DEF RowsOK, Nothing
<1>5. PICK status \in Terminal : Finish(p, status)
  BY DEF Complete, RolledBack, Terminal
<1> DEFINE over == [NoJournal EXCEPT !.status = status]
<1>6. over.status \notin OpenStatus
  BY DEF NoJournal, Terminal, OpenStatus
<1>7. journal' = [journal EXCEPT ![t] = over]
  BY <1>2, <1>5 DEF Finish
<1> HIDE DEF over
<1>8. journal'[t] = over /\ \A u \in Txn \ {t} : journal'[u] = journal[u]
  BY <1>1, <1>7 DEF RowsOK
<1> QED
  BY <1>1, <1>3, <1>4, <1>6, <1>8, FinishKeepsFiles

(* When a purge starts, everything that was planned is in the trash.       *)
LEMMA StartPurgeKeepsFiles ==
  ASSUME TransactionInv, FilesAreWhole, NEW p \in Process, WorkerInOrder(p), StartPurge(p)
  PROVE  FilesAreWhole'
<1>1. /\ RowsOK /\ WorkerIsRight(p) /\ at[p].step = "stage" /\ left[p] = {} /\ Moves(p)
      /\ UNCHANGED <<source, trash, rewritten>>
  BY DEF TransactionInv, StartPurge, Doing, owners, Moves
<1>2. PICK t \in Txn : t = at[p].txn
  BY <1>1, WhenMoving
<1>3. /\ journal[t].status = "moving" /\ Planned(memory[p]) = Chosen(t)
      /\ Chosen(t) \subseteq Artifact
      /\ \A a \in Chosen(t) : trash[t][a] # "absent"
  BY <1>1, <1>2, WhenMoving DEF Chosen, Planned, WorkerInOrder
<1>4. /\ journal' \in [Txn -> Journal]
      /\ journal'[t].status = "purging" /\ journal'[t].operations = memory[p]
      /\ journal'[t].snapshots = journal[t].snapshots
      /\ \A u \in Txn \ {t} : journal'[u] = journal[u]
  <2>1. memory[p] \in [Artifact -> OperationState] /\ "purging" \in OpenStatus
    BY <1>1 DEF RowsOK, OpenStatus
  <2>2. journal' = [journal EXCEPT ![t].status = "purging", ![t].operations = memory[p]]
    BY <1>2 DEF StartPurge, WriteJournal
  <2> QED
    BY <1>1, <2>1, <2>2, JournalWritten
<1>5. \A u \in Txn : Chosen(u)' = Chosen(u) /\ (IsOpen(u)' <=> IsOpen(u))
  BY <1>3, <1>4 DEF Chosen, Planned, IsOpen, OpenStatus
<1>6. OneOpenJournal' /\ UntouchedIsWhole'
  BY <1>1, <1>5 DEF FilesAreWhole, OneOpenJournal, UntouchedIsWhole
<1>7. JournalIsWhole(t)'
  <2>1. JournalIsWhole(t) /\ IsOpen(t)
    BY <1>3 DEF FilesAreWhole, IsOpen, OpenStatus
  <2>2. /\ NamesJobs(Chosen(t))' /\ TakesWhole(Chosen(t))'
        /\ \A a \in Chosen(t) : journal[t].snapshots[a] # "absent"
        /\ \A a \in Chosen(t) \ rewritten : source[a] = "absent"
    BY <1>1, <1>3, <1>5, <2>1 DEF JournalIsWhole, NamesJobs, TakesWhole
  <2> QED
    BY <1>1, <1>4, <1>5, <2>2 DEF JournalIsWhole
<1>8. ASSUME NEW u \in Txn, u # t PROVE JournalIsWhole(u)'
  BY <1>1, <1>4, <1>5, <1>8 DEF FilesAreWhole, JournalIsWhole, NamesJobs, TakesWhole
<1> QED
  BY <1>6, <1>7, <1>8 DEF FilesAreWhole

(* A new transaction takes bundles that are whole and there.               *)
LEMMA BeginKeepsFiles ==
  ASSUME TransactionInv, FilesAreWhole, NEW p \in Process, PlanIsWhole(p), WorkerInOrder(p),
         Begin(p)
  PROVE  FilesAreWhole'
<1>1. /\ RowsOK /\ WorkerIsRight(p) /\ at[p].step = "begin"
      /\ UNCHANGED <<source, trash, rewritten>>
  BY DEF TransactionInv, Begin, Doing, owners
<1>2. PICK t \in Txn : t = at[p].txn /\ journal[t].status = "none"
  BY <1>1 DEF WorkerIsRight
<1>3. /\ \A u \in Txn : ~ IsOpen(u)
      /\ \A a \in Present(plan[p]) : source[a] # "absent"
  BY <1>1 DEF WorkerInOrder
<1>4. NamesJobs(Present(plan[p])) /\ TakesWhole(Present(plan[p]))
  BY <1>3 DEF PlanIsWhole, Stuck, Blocked
<1>5. trash[t] = Nothing
  BY <1>2 DEF TransactionInv, JournalIsTrue, OpenStatus
<1> DEFINE operations ==
             [a \in Artifact |-> IF plan[p][a] = "absent" THEN "unplanned" ELSE "pending"]
<1>6. /\ journal'[t].status = "moving" /\ journal'[t].operations = operations
      /\ journal'[t].snapshots = plan[p]
      /\ \A u \in Txn \ {t} : journal'[u] = journal[u]
  <2>1. memory'[p] = operations
    BY <1>1 DEF Begin, RowsOK
  <2>2. journal' = [journal EXCEPT ![t] =
                      [status |-> "moving", operations |-> operations, snapshots |-> plan[p]]]
    BY <1>2, <2>1 DEF Begin
  <2> HIDE DEF operations
  <2> QED
    BY <1>1, <2>2 DEF RowsOK
<1>7. Chosen(t)' = Present(plan[p])
  BY <1>6 DEF Chosen, Planned, Present
<1>8. \A u \in Txn : IsOpen(u)' <=> u = t
  BY <1>3, <1>6 DEF IsOpen, OpenStatus
<1>9. OneOpenJournal'
  BY <1>8 DEF OneOpenJournal
<1>10. UntouchedIsWhole'
  BY <1>1, <1>3 DEF FilesAreWhole, UntouchedIsWhole
<1>11. JournalIsWhole(t)'
  <2>1. NamesJobs(Chosen(t))' /\ TakesWhole(Chosen(t))'
    BY <1>1, <1>4, <1>7 DEF NamesJobs, TakesWhole
  <2>2. Present(plan[p]) \subseteq Artifact
    BY DEF Present
  <2>3. \A a \in Present(plan[p]) : plan[p][a] # "absent" /\ trash[t][a] = "absent"
    BY <1>5, <2>2 DEF Present, Nothing
  <2> QED
    BY <1>1, <1>3, <1>6, <1>7, <2>1, <2>3 DEF JournalIsWhole
<1>12. ASSUME NEW u \in Txn, u # t PROVE JournalIsWhole(u)'
  BY <1>8, <1>12 DEF JournalIsWhole
<1> QED
  BY <1>9, <1>10, <1>11, <1>12 DEF FilesAreWhole
(* Progress that is journaled leaves what the journal has chosen.          *)
LEMMA ProgressIsJournaled ==
  ASSUME TransactionInv, NEW p \in Process, Verify(p) \/ Save(p), SaveProgress(p)
  PROVE  \A t \in Txn : /\ journal'[t].status = journal[t].status
                        /\ journal'[t].snapshots = journal[t].snapshots
                        /\ Chosen(t)' = Chosen(t)
<1>1. RowsOK /\ WorkerIsRight(p) /\ at[p].step \in {"verify", "save"}
  BY DEF TransactionInv, Verify, Save, Doing
<1>2. PICK t \in Txn : t = at[p].txn
  BY <1>1, WhenMoving, WhenPurging
<1>3. /\ journal[t].status \in OpenStatus /\ Planned(memory[p]) = Chosen(t)
      /\ left[p] # {} /\ left[p] \subseteq Planned(memory[p])
  BY <1>1, <1>2, WhenMoving, WhenPurging DEF Chosen, OpenStatus
<1>4. PICK o \in left[p] : o = Operation(p) /\ o \in Artifact
  BY <1>1, <1>3, OperationIsLeft
<1>5. /\ memory'[p] \in [Artifact -> OperationState]
      /\ Planned(memory'[p]) = Planned(memory[p])
  <2>1. CASE memory' = memory
    BY <1>1, <2>1 DEF RowsOK, Planned
  <2>2. CASE memory' = [memory EXCEPT ![p][o] = "staged"]
    <3>1. memory'[p] = [memory[p] EXCEPT ![o] = "staged"]
      BY <1>1, <2>2 DEF RowsOK
    <3>2. memory[p] \in [Artifact -> OperationState] /\ memory[p][o] # "unplanned"
      BY <1>1, <1>3, <1>4 DEF RowsOK, Planned
    <3> QED
      BY <3>1, <3>2 DEF Planned, OperationState
  <2>3. CASE Leave(p)
    <3>1. lock = p /\ lock' = NoOne /\ lock' = lock
      BY <2>3 DEF Leave, Verify, Save, SaveProgress, Doing
    <3> QED
      BY <1>1, <3>1, RetentionAssumption DEF RowsOK
  <2> QED
    BY <1>4, <2>1, <2>2, <2>3 DEF Verify, Save
<1>6. PICK status \in OpenStatus : status = journal[t].status
  BY <1>3
<1>7. PICK operations \in [Artifact -> OperationState] : operations = memory'[p]
  BY <1>5
<1>8. journal' = [journal EXCEPT ![t].status = status, ![t].operations = operations]
  BY <1>2, <1>6, <1>7 DEF SaveProgress, WriteJournal
<1>9. /\ journal' \in [Txn -> Journal]
      /\ journal'[t].status = status /\ journal'[t].operations = operations
      /\ journal'[t].snapshots = journal[t].snapshots
      /\ \A u \in Txn \ {t} : journal'[u] = journal[u]
  BY <1>1, <1>8, JournalWritten
<1> QED
  BY <1>3, <1>5, <1>6, <1>7, <1>9 DEF Chosen, Planned

(* Journaled progress changes nothing that a bundle rests on.              *)
LEMMA ProgressKeepsFiles ==
  ASSUME TransactionInv, FilesAreWhole, NEW p \in Process, Verify(p) \/ Save(p)
  PROVE  FilesAreWhole'
<1>1. UNCHANGED <<source, trash, rewritten>> /\ (journal' = journal \/ SaveProgress(p))
  BY DEF Verify, Save, owners
<1>2. CASE journal' = journal
  BY <1>1, <1>2, QuietFiles DEF Chosen, Planned
<1>3. CASE SaveProgress(p)
  BY <1>1, <1>3, ProgressIsJournaled, QuietFiles
<1> QED
  BY <1>1, <1>2, <1>3

(* Nor does unlinking: what a transaction that purges chose counts as gone.*)
LEMMA PurgeKeepsFiles ==
  ASSUME TransactionInv, FilesAreWhole, NEW p \in Process, Purge(p)
  PROVE  FilesAreWhole'
<1>1. /\ RowsOK /\ WorkerIsRight(p) /\ at[p].step = "purge" /\ left[p] # {}
      /\ UNCHANGED <<source, journal, rewritten>>
  BY DEF TransactionInv, Purge, Doing, owners
<1>2. PICK t \in Txn : t = at[p].txn /\ journal[t].status = "purging"
  BY <1>1, WhenPurging
<1>3. \A u \in Txn \ {t} : trash'[u] = trash[u]
  BY <1>1, <1>2 DEF Purge, RowsOK
<1> QED
  BY <1>1, <1>2, <1>3, QuietFiles DEF Chosen, Planned

(* Every step keeps the files of bundles together.                         *)
LEMMA FilesNext ==
  ASSUME TransactionInv, BundleInv, [RetentionNext]_retentionVars
  PROVE  FilesAreWhole'
<1>1. /\ FilesAreWhole /\ RowsOK
      /\ \A p \in Process : PlanIsWhole(p) /\ WorkerInOrder(p)
  BY DEF BundleInv, TransactionInv
<1>2. ASSUME UNCHANGED <<trash, journal>>, rewritten \subseteq rewritten',
             \A a \in Artifact \ rewritten' : source'[a] = "absent" <=> source[a] = "absent"
      PROVE  FilesAreWhole'
  BY <1>1, <1>2, QuietFiles DEF Chosen, Planned
<1>3. CASE \E p \in Process :
             \/ Move(p) \/ Return(p) \/ Complete(p) \/ RolledBack(p) \/ StartPurge(p)
             \/ Begin(p) \/ Verify(p) \/ Save(p) \/ Purge(p)
  BY <1>1, <1>3, MoveKeepsFiles, ReturnKeepsFiles, EndsKeepFiles, StartPurgeKeepsFiles,
     BeginKeepsFiles, ProgressKeepsFiles, PurgeKeepsFiles
<1>4. CASE \E p \in Process :
             \/ Lock(p) \/ CleanEarlier(p) \/ Resume(p) \/ Compare(p) \/ Stage(p)
             \/ RollBack(p) \/ Clean(p) \/ Kill(p) \/ \E cutoff \in Cutoff : MakePlan(p, cutoff)
  BY <1>2, <1>4 DEF Lock, CleanEarlier, Resume, Compare, Stage, RollBack, Clean, Kill,
     MakePlan, files, owners
<1>5. CASE UNCHANGED retentionVars
  BY <1>2, <1>5 DEF retentionVars, files, owners
<1>6. CASE \E a \in Artifact : Write(a) \/ WriteAgain(a)
  <2>1. PICK a \in Artifact : Write(a) \/ WriteAgain(a)
    BY <1>6
  <2>2. \A b \in Artifact \ {a} : source'[b] = source[b]
    BY <1>1, <2>1 DEF Write, WriteAgain, RowsOK
  <2>3. (source[a] # "absent" /\ source'[a] # "absent") \/ a \in rewritten'
    BY <1>1, <2>1 DEF Write, WriteAgain, RowsOK
  <2>4. UNCHANGED <<trash, journal>> /\ rewritten \subseteq rewritten'
    BY <2>1 DEF Write, WriteAgain
  <2> QED
    BY <1>2, <2>2, <2>3, <2>4
<1> QED
  BY <1>3, <1>4, <1>5, <1>6 DEF RetentionNext, Apply

-----------------------------------------------------------------------------
(* A process that steps changes its own row.                               *)
LEMMA RowChanges ==
  ASSUME RowsOK, [RetentionNext]_retentionVars, NEW q \in Process
  PROVE  \/ at'[q] = at[q] /\ plan'[q] = plan[q] /\ left'[q] = left[q]
         \/ \E cutoff \in Cutoff : MakePlan(q, cutoff)
         \/ Apply(q) \/ Kill(q)
<1> DEFINE Kept == at'[q] = at[q] /\ plan'[q] = plan[q] /\ left'[q] = left[q]
<1>1. ASSUME NEW p \in Process, p # q, Apply(p) \/ Kill(p) PROVE Kept
  <2>1. /\ Leave(p) => Kept
        /\ \A step : Goto(p, step) => at'[q] = at[q]
        /\ \A step : Stay(p, step) => Kept
    BY <1>1 DEF RowsOK, Leave, Goto, Stay
  <2>2. CASE Lock(p) \/ CleanEarlier(p) \/ Kill(p) \/ Stage(p) \/ Move(p) \/ Clean(p)
    <3>1. CASE Lock(p)
      BY <2>1, <3>1 DEF Lock
    <3>2. CASE Clean(p)
      BY <1>1, <2>1, <3>2 DEF Clean, RowsOK
    <3> QED
      BY <2>1, <2>2, <3>1, <3>2 DEF CleanEarlier, Kill, Stage, Move
  <2>3. CASE Resume(p)
    BY <1>1, <2>1, <2>3 DEF Resume, RowsOK
  <2>4. CASE Compare(p)
    BY <1>1, <2>1, <2>4 DEF Compare, RowsOK
  <2>5. CASE Begin(p) \/ StartPurge(p) \/ Return(p)
    BY <1>1, <2>1, <2>5 DEF Begin, StartPurge, Return, RowsOK
  <2>6. CASE Verify(p) \/ Save(p)
    <3>1. SaveProgress(p) => Kept
      BY <1>1, <2>1 DEF SaveProgress, RowsOK
    <3> QED
      BY <2>1, <2>6, <3>1 DEF Verify, Save
  <2>7. CASE Purge(p)
    BY <1>1, <2>1, <2>7 DEF Purge, RowsOK
  <2>8. CASE RollBack(p)
    BY <1>1, <2>1, <2>8 DEF RollBack, RowsOK
  <2>9. CASE Complete(p) \/ RolledBack(p)
    BY <1>1, <2>1, <2>9 DEF Complete, RolledBack
  <2> QED
    BY <1>1, <2>2, <2>3, <2>4, <2>5, <2>6, <2>7, <2>8, <2>9 DEF Apply
<1>2. ASSUME NEW p \in Process, p # q, NEW cutoff \in Cutoff, MakePlan(p, cutoff) PROVE Kept
  BY <1>2 DEF MakePlan, Goto, RowsOK
<1>3. (\E a \in Artifact : Write(a) \/ WriteAgain(a)) \/ UNCHANGED retentionVars => Kept
  BY DEF Write, WriteAgain, retentionVars, process
<1> QED
  BY <1>1, <1>2, <1>3 DEF RetentionNext
(* Only a rollback that finds the place empty returns an artifact to it.   *)
LEMMA ReturningStarts ==
  ASSUME TransactionInv, [RetentionNext]_retentionVars, NEW t, NEW j, Returning(t, j)'
  PROVE  Returning(t, j) \/ (source[j] = "absent" /\ UNCHANGED <<source, trash, journal>>)
<1>1. RowsOK
  BY DEF TransactionInv
<1>2. PICK q \in Process :
        at'[q].step = "return" /\ at'[q].txn = t /\ Operation(q)' = j
  BY DEF Returning
<1>3. CASE at'[q] = at[q] /\ left'[q] = left[q]
  <2>1. Operation(q)' = Operation(q)
    BY <1>3 DEF Operation
  <2> QED
    BY <1>2, <1>3, <2>1 DEF Returning
<1>4. CASE RollBack(q)
  <2>1. ~ Leave(q)
    BY <1>1, <1>2 DEF Leave, Idle, RowsOK
  <2>2. at[q].step = "rollback"
    BY <1>4 DEF RollBack, Doing
  <2>3. InPlace(q) = "absent" /\ left' = left /\ files' = files
    BY <1>2, <1>4, <2>1, <2>2 DEF RollBack, Stay
  <2>4. Operation(q)' = Operation(q)
    BY <1>2, <2>2, <2>3 DEF Operation
  <2> QED
    BY <1>2, <2>3, <2>4 DEF InPlace, files
<1>5. ASSUME ~ RollBack(q), at'[q] # at[q] \/ left'[q] # left[q] PROVE FALSE
  <2>1. ~ Leave(q) /\ \A step : Goto(q, step) \/ Stay(q, step) => step = "return"
    BY <1>1, <1>2 DEF Leave, Idle, Goto, Stay, RowsOK
  <2>2. ~ \E row : row.step # "return" /\ at' = [at EXCEPT ![q] = row]
    BY <1>1, <1>2 DEF RowsOK
  <2>3. ~ \E cutoff \in Cutoff : MakePlan(q, cutoff)
    BY <2>1 DEF MakePlan
  <2>4. ~ (Lock(q) \/ CleanEarlier(q) \/ Begin(q) \/ Stage(q) \/ Move(q) \/ Kill(q))
    BY <2>1 DEF Lock, CleanEarlier, Begin, Stage, Move, Kill, Stay
  <2>5. ~ (Verify(q) \/ Save(q) \/ StartPurge(q) \/ Complete(q) \/ Return(q) \/ RolledBack(q))
    BY <2>1 DEF Verify, Save, StartPurge, Complete, Return, RolledBack, SaveProgress
  <2>6. ~ Purge(q)
    BY <2>1 DEF Purge
  <2>7. ~ Resume(q)
    <3> DEFINE row(u) == [step |-> IF journal[u].status = "purging" THEN "purge"
                                   ELSE IF MustRollBack(journal[u].operations) THEN "rollback"
                                   ELSE "stage",
                          txn |-> u, own |-> FALSE]
    <3> SUFFICES ASSUME Resume(q) PROVE FALSE
      OBVIOUS
    <3>1. PICK u \in Txn : at' = [at EXCEPT ![q] = row(u)]
      BY <2>1 DEF Resume
    <3>2. row(u).step # "return"
      OBVIOUS
    <3> QED
      BY <2>2, <3>1, <3>2
  <2>8. ~ Compare(q)
    BY <2>1, <2>2 DEF Compare
  <2>9. ~ Clean(q)
    BY <2>1, <2>2 DEF Clean
  <2> QED
    BY <1>1, <1>5, <2>3, <2>4, <2>5, <2>6, <2>7, <2>8, <2>9, RowChanges DEF Apply
<1> QED
  BY <1>3, <1>4, <1>5

(* A blocked journal stays blocked: each loop refuses the artifact that is *)
(* in both places.                                                         *)
LEMMA BlockedStays ==
  ASSUME TransactionInv, BundleInv, [RetentionNext]_retentionVars,
         NEW t \in Txn, NEW j \in Artifact, Blocked(t, j)
  PROVE  Blocked(t, j)'
<1>1. /\ RowsOK /\ IsOpen(t) /\ source[j] # "absent" /\ trash[t][j] # "absent"
      /\ ~ Returning(t, j) /\ \A u \in Txn : IsOpen(u) => u = t
      /\ \A p \in Process : WorkerIsRight(p) /\ WorkerInOrder(p)
  BY DEF TransactionInv, BundleInv, FilesAreWhole, OneOpenJournal, Blocked
<1>2. ~ Returning(t, j)'
  BY <1>1, ReturningStarts
<1> DEFINE Kept == IsOpen(t)' /\ source'[j] # "absent" /\ trash'[t][j] # "absent"
<1>3. ASSUME NEW p \in Process, Move(p) PROVE Kept
  <2>1. at[p].step = "move" /\ journal' = journal
    BY <1>3 DEF Move, Doing
  <2>2. PICK u \in Txn : u = at[p].txn
    BY <1>1, <2>1, WhenMoving
  <2>3. IsOpen(u) /\ left[p] # {}
    BY <1>1, <2>1, <2>2, WhenMoving DEF IsOpen, OpenStatus
  <2>4. PICK o \in Artifact : o = Operation(p)
    BY <1>1, <2>3, OperationIsLeft
  <2>5. u = t /\ o # j
    BY <1>1, <2>1, <2>2, <2>3, <2>4 DEF WorkerInOrder, InTrash
  <2>6. source'[j] = source[j] /\ trash'[t][j] = trash[t][j]
    BY <1>1, <1>3, <2>2, <2>4, <2>5 DEF Move, RowsOK
  <2> QED
    BY <1>1, <2>1, <2>6 DEF IsOpen
<1>4. ASSUME NEW p \in Process, Return(p) PROVE Kept
  <2>1. at[p].step = "return" /\ journal' = journal
    BY <1>4 DEF Return, Doing
  <2>2. PICK u \in Txn : u = at[p].txn
    BY <1>1, <2>1, WhenReturning
  <2>3. IsOpen(u) /\ left[p] # {}
    BY <1>1, <2>1, <2>2, WhenReturning DEF IsOpen, OpenStatus
  <2>4. PICK o \in Artifact : o = Operation(p)
    BY <1>1, <2>3, OperationIsLeft
  <2>5. u = t /\ o # j
    BY <1>1, <2>1, <2>2, <2>3, <2>4 DEF Returning
  <2>6. source'[j] = source[j] /\ trash'[t][j] = trash[t][j]
    BY <1>1, <1>4, <2>2, <2>4, <2>5 DEF Return, RowsOK
  <2> QED
    BY <1>1, <2>1, <2>6 DEF IsOpen
<1>5. ASSUME NEW p \in Process, Purge(p) PROVE Kept
  <2>1. at[p].step = "purge" /\ journal' = journal /\ source' = source /\ left[p] # {}
    BY <1>5 DEF Purge, Doing
  <2>2. PICK u \in Txn : u = at[p].txn
    BY <1>1, <2>1, WhenPurging
  <2>3. PICK o \in Artifact : o = Operation(p)
    BY <1>1, <2>1, OperationIsLeft
  <2>4. trash'[t][j] # "absent"
    <3>1. CASE trash' = trash
      BY <1>1, <3>1
    <3>2. CASE trash' # trash
      <4>1. source[o] = "absent"
        BY <1>5, <2>3, <3>2 DEF Purge, InPlace
      <4>2. \E c : trash' = [trash EXCEPT ![u][o] = c]
        BY <1>5, <2>2, <2>3, <3>2 DEF Purge
      <4> QED
        BY <1>1, <2>3, <4>1, <4>2 DEF RowsOK
    <3> QED
      BY <3>1, <3>2
  <2> QED
    BY <1>1, <2>1, <2>4 DEF IsOpen
<1>6. ASSUME NEW p \in Process, Complete(p) \/ RolledBack(p) PROVE FALSE
  <2>1. at[p].step \in {"purge", "rollback"} /\ left[p] = {}
    BY <1>6 DEF Complete, RolledBack, Doing
  <2>2. PICK u \in Txn : u = at[p].txn
    BY <1>1, <2>1, WhenPurging, WhenReturning
  <2>3. IsOpen(u) /\ trash[u][j] = "absent"
    BY <1>1, <2>1, <2>2, WhenPurging, WhenReturning DEF IsOpen, OpenStatus
  <2> QED
    BY <1>1, <2>3
<1>7. ASSUME NEW p \in Process, Begin(p) PROVE Kept
  <2>1. /\ at[p].txn # t /\ UNCHANGED <<source, trash>>
        /\ \E row : journal' = [journal EXCEPT ![at[p].txn] = row]
    BY <1>1, <1>7 DEF Begin, Doing, WorkerInOrder
  <2>2. journal'[t] = journal[t]
    BY <1>1, <2>1 DEF RowsOK
  <2> QED
    BY <1>1, <2>1, <2>2 DEF IsOpen
<1>8. ASSUME NEW p \in Process, Verify(p) \/ Save(p) \/ StartPurge(p) PROVE Kept
  <2>1. at[p].step \in {"verify", "save", "stage"} /\ UNCHANGED <<source, trash>>
    BY <1>8 DEF Verify, Save, StartPurge, Doing
  <2>2. PICK u \in Txn : u = at[p].txn
    BY <1>1, <2>1, WhenMoving, WhenPurging
  <2>3. journal[u].status \in OpenStatus
    BY <1>1, <2>1, <2>2, WhenMoving, WhenPurging DEF OpenStatus
  <2>4. CASE journal' = journal
    BY <1>1, <2>1, <2>4 DEF IsOpen
  <2>5. CASE journal' # journal
    <3>1. PICK status \in OpenStatus : WriteJournal(p, status)
      BY <1>8, <2>2, <2>3, <2>5 DEF Verify, Save, StartPurge, SaveProgress, OpenStatus
    <3>2. journal'[t].status \in OpenStatus
      BY <1>1, <2>2, <2>3, <3>1 DEF WriteJournal, RowsOK, Journal, IsOpen
    <3> QED
      BY <1>1, <2>1, <3>2 DEF IsOpen
  <2> QED
    BY <2>4, <2>5
<1>9. ASSUME NEW a \in Artifact, Write(a) \/ WriteAgain(a) PROVE Kept
  <2>1. source'[j] # "absent" /\ UNCHANGED <<trash, journal>>
    BY <1>1, <1>9 DEF Write, WriteAgain, RowsOK
  <2> QED
    BY <1>1, <2>1 DEF IsOpen
<1>10. ASSUME \/ \E p \in Process :
                   \/ Lock(p) \/ CleanEarlier(p) \/ Resume(p) \/ Compare(p) \/ Stage(p)
                   \/ RollBack(p) \/ Clean(p) \/ Kill(p)
                   \/ \E cutoff \in Cutoff : MakePlan(p, cutoff)
              \/ UNCHANGED retentionVars
       PROVE  Kept
  <2>1. UNCHANGED <<source, trash, journal>>
    BY <1>10 DEF Lock, CleanEarlier, Resume, Compare, Stage, RollBack, Clean, Kill,
       MakePlan, files, retentionVars
  <2> QED
    BY <1>1, <2>1 DEF IsOpen
<1>11. Kept => Blocked(t, j)'
  BY <1>2 DEF Blocked
<1> HIDE DEF Kept
<1>12. Kept
  BY <1>3, <1>4, <1>5, <1>6, <1>7, <1>8, <1>9, <1>10 DEF RetentionNext, Apply
<1> QED
  BY <1>11, <1>12
(* Where no review is without its job, what takes bundles takes them whole,*)
(* unless a part of one is in the trash of a journal that is blocked now:  *)
(* its job is there too, as the older artifact, and in its place.          *)
LEMMA BundlesAreWhole ==
  ASSUME TransactionInv, BundleInv, NEW doomed, TakesBundles(source, doomed),
         Orphans(source) = {}
  PROVE  NamesJobs(doomed) /\ (TakesWhole(doomed) \/ Stuck)
<1>1. /\ FilesAreWhole /\ JobsComeFirst /\ \A p \in Process : WorkerIsRight(p)
      /\ RowsOK /\ doomed \subseteq Present(source) /\ Present(source) \subseteq Artifact
      /\ \A a \in doomed : Members(source, a) \subseteq doomed
  BY DEF BundleInv, TransactionInv, TakesBundles, Safe, Present
<1>2. NamesJobs(doomed)
  <2> SUFFICES ASSUME NEW a \in doomed PROVE \E j \in doomed \ Review : Bundle[j] = Bundle[a]
    BY DEF NamesJobs
  <2>1. a \in Present(source) /\ ~ (a \in Review /\ Members(source, a) \subseteq Review)
    BY <1>1 DEF Orphans
  <2> QED
    BY <1>1, <2>1 DEF Members
<1>3. ASSUME NEW a \in doomed \ rewritten, NEW b \in Artifact \ rewritten,
             Bundle[a] = Bundle[b], b \notin doomed
      PROVE  Stuck
  <2>1. source[a] # "absent" /\ source[b] = "absent"
    BY <1>1, <1>3 DEF Present, Members
  <2>2. PICK t \in Txn : IsOpen(t) /\ (a \in Chosen(t) \/ b \in Chosen(t))
    BY <1>1, <1>3, <2>1 DEF FilesAreWhole, UntouchedIsWhole
  <2>3. JournalIsWhole(t) /\ Chosen(t) \subseteq Artifact
    BY <1>1 DEF FilesAreWhole, Chosen, Planned
  <2>4. a \in Chosen(t) /\ b \in Chosen(t)
    BY <1>1, <1>3, <2>2, <2>3 DEF JournalIsWhole, TakesWhole
  <2>5. journal[t].status = "moving" /\ trash[t][b] # "absent"
    BY <1>3, <2>1, <2>2, <2>3, <2>4 DEF JournalIsWhole, IsOpen, OpenStatus
  <2>6. PICK j \in doomed \ Review : Bundle[j] = Bundle[a]
    BY <1>2 DEF NamesJobs
  <2>7. PICK i \in Chosen(t) \ Review : Bundle[i] = Bundle[a]
    BY <2>2, <2>3, <2>4 DEF JournalIsWhole, NamesJobs
  <2>8. i = j /\ source[j] # "absent" /\ j \in Artifact
    BY <1>1, <2>3, <2>6, <2>7 DEF JobsComeFirst, Present
  <2>9. j < b
    BY <1>1, <1>3, <2>1, <2>6, <2>8 DEF JobsComeFirst
  <2>10. trash[t][j] # "absent"
    BY <2>2, <2>3, <2>4, <2>5, <2>7, <2>8, <2>9 DEF JournalIsWhole
  <2>11. ~ Returning(t, j)
    <3> SUFFICES ASSUME NEW p \in Process, at[p].step = "return", at[p].txn = t,
                        Operation(p) = j
                 PROVE  FALSE
      BY DEF Returning
    <3>1. /\ left[p] # {} /\ left[p] \subseteq Artifact /\ b \in left[p]
      BY <1>1, <1>3, <2>5, WhenReturning DEF RowsOK
    <3>2. left[p] \in SUBSET (0 .. Count) /\ Count \in Nat /\ j \in Int /\ b \in Int
      BY <1>3, <2>8, <3>1, RetentionPlanAssumption DEF Artifact
    <3>3. b <= Max(left[p]) /\ Operation(p) = Max(left[p])
      BY <3>1, <3>2, YoungestIsThere DEF Operation
    <3> QED
      BY <2>9, <3>2, <3>3
  <2> QED
    BY <2>2, <2>8, <2>10, <2>11 DEF Stuck, Blocked
<1> QED
  BY <1>2, <1>3 DEF TakesWhole

(* Every step keeps the plans whole.                                       *)
LEMMA PlansNext ==
  ASSUME TransactionInv, BundleInv, [RetentionNext]_retentionVars, NEW p \in Process
  PROVE  PlanIsWhole(p)'
<1>1. RowsOK /\ PlanIsWhole(p)
  BY DEF TransactionInv, BundleInv
<1>2. Stuck => Stuck'
  BY BlockedStays DEF Stuck
<1>3. rewritten \subseteq rewritten'
  BY DEF RetentionNext, retentionVars, files, owners, Apply, MakePlan, Lock, CleanEarlier,
     Resume, Compare, Begin, Stage, Move, Verify, Save, StartPurge, Purge, Complete,
     RollBack, Return, RolledBack, Clean, Kill, Write, WriteAgain
<1>5. CASE plan'[p] = plan[p]
  BY <1>1, <1>2, <1>3, <1>5 DEF PlanIsWhole, NamesJobs, TakesWhole, Present
<1>6. CASE plan'[p] = Nothing
  BY <1>6 DEF PlanIsWhole, NamesJobs, TakesWhole, Present, Nothing
<1>7. CASE \E cutoff \in Cutoff : MakePlan(p, cutoff)
  <2>1. PICK cutoff \in Cutoff : MakePlan(p, cutoff)
    BY <1>7
  <2>2. Present(plan'[p]) = IF Orphans(source) = {} THEN Doomed(source, cutoff) ELSE {}
    BY <2>1, PlansSoundly
  <2>3. CASE Orphans(source) # {}
    BY <2>2, <2>3 DEF PlanIsWhole, NamesJobs, TakesWhole, Present
  <2>4. CASE Orphans(source) = {}
    <3> DEFINE doomed == Doomed(source, cutoff)
    <3>1. TakesBundles(source, doomed)
      BY DoomedIsSound
    <3> HIDE DEF doomed
    <3>2. NamesJobs(doomed) /\ (TakesWhole(doomed) \/ Stuck)
      BY <2>4, <3>1, BundlesAreWhole
    <3>3. Present(plan'[p]) = doomed
      BY <2>2, <2>4 DEF doomed
    <3>4. Present(plan[p])' = doomed
      BY <3>3 DEF Present
    <3> QED
      BY <1>2, <1>3, <3>2, <3>4 DEF PlanIsWhole, NamesJobs, TakesWhole
  <2> QED
    BY <2>3, <2>4
<1>8. CASE Apply(p) \/ Kill(p)
  <2>1. plan'[p] = plan[p] \/ Leave(p)
    BY <1>8 DEF Apply, Lock, CleanEarlier, Resume, Compare, Begin, Stage, Move, Verify, Save,
       StartPurge, Purge, Complete, RollBack, Return, RolledBack, Clean, Kill, Stay,
       SaveProgress
  <2>2. Leave(p) => plan'[p] = Nothing
    BY <1>1 DEF Leave, RowsOK
  <2> QED
    BY <1>5, <1>6, <2>1, <2>2
<1> QED
  BY <1>1, <1>5, <1>7, <1>8, RowChanges
-----------------------------------------------------------------------------
(* Only a process that begins or moves has an order to keep.               *)
LEMMA OutsideIsInOrder ==
  ASSUME NEW p \in Process,
         \/ at'[p].step \notin {"begin", "stage", "move", "verify", "save"}
         \/ at'[p].step = "save" /\ journal'[at'[p].txn].status # "moving"
  PROVE  WorkerInOrder(p)'
BY DEF WorkerInOrder, Moves

(* What the lock's holder relies on, no other process takes away.          *)
LEMMA OthersKeepOrder ==
  ASSUME TransactionInv, BundleInv, [RetentionNext]_retentionVars, NEW p \in Process,
         ~ Apply(p), ~ Kill(p)
  PROVE  WorkerInOrder(p)'
<1>1. RowsOK /\ WorkerInOrder(p)
  BY DEF TransactionInv, BundleInv
<1>2. CASE \E cutoff \in Cutoff : MakePlan(p, cutoff)
  BY <1>1, <1>2, OutsideIsInOrder DEF MakePlan, Goto, RowsOK
<1>3. CASE at'[p] = at[p] /\ plan'[p] = plan[p] /\ left'[p] = left[p]
  <2>1. CASE at[p].step \in {"idle", "lock"}
    BY <1>3, <2>1, OutsideIsInOrder
  <2>2. CASE at[p].step \notin {"idle", "lock"}
    <3>1. lock = p
      BY <1>1, <2>2 DEF RowsOK
    <3>2. /\ trash' = trash /\ journal' = journal
          /\ \A a \in Artifact : source[a] # "absent" => source'[a] # "absent"
      <4>1. CASE \E q \in Process \ {p} :
                   Apply(q) \/ Kill(q) \/ \E cutoff \in Cutoff : MakePlan(q, cutoff)
        <5>1. PICK q \in Process \ {p} : Lock(q) \/ \E cutoff \in Cutoff : MakePlan(q, cutoff)
          BY <3>1, <4>1 DEF Apply, CleanEarlier, Resume, Compare, Begin, Stage, Move, Verify,
             Save, StartPurge, Purge, Complete, RollBack, Return, RolledBack, Clean, Kill,
             Doing
        <5> QED
          BY <5>1 DEF Lock, MakePlan, files
      <4>2. CASE \E a \in Artifact : Write(a) \/ WriteAgain(a)
        BY <1>1, <4>2 DEF Write, WriteAgain, RowsOK
      <4>3. CASE UNCHANGED retentionVars
        BY <4>3 DEF retentionVars, files
      <4>4. CASE \E cutoff \in Cutoff : MakePlan(p, cutoff)
        BY <4>4 DEF MakePlan, files
      <4> QED
        BY <4>1, <4>2, <4>3, <4>4 DEF RetentionNext
    <3>3. Operation(p)' = Operation(p) /\ (Moves(p)' <=> Moves(p))
      BY <1>3, <3>2 DEF Operation, Moves
    <3>4. InTrash(p)' = InTrash(p)
      BY <1>3, <3>2, <3>3 DEF InTrash
    <3>5. Present(plan[p])' = Present(plan[p]) /\ Present(plan[p]) \subseteq Artifact
      BY <1>3 DEF Present
    <3>6. \A t : Chosen(t)' = Chosen(t) /\ (IsOpen(t)' <=> IsOpen(t))
      BY <3>2 DEF Chosen, Planned, IsOpen
    <3> QED
      BY <1>1, <1>3, <3>2, <3>3, <3>4, <3>5, <3>6 DEF WorkerInOrder
  <2> QED
    BY <2>1, <2>2
<1> QED
  BY <1>1, <1>2, <1>3, RowChanges

(* What was moved, and is journaled, is older than what is left.           *)
LEMMA ProgressKeepsOrder ==
  ASSUME TransactionInv, BundleInv, NEW p \in Process, Verify(p) \/ Save(p)
  PROVE  WorkerInOrder(p)'
<1>1. /\ RowsOK /\ WorkerIsRight(p) /\ at[p].step \in {"verify", "save"} /\ lock = p
      /\ UNCHANGED <<source, trash, rewritten>> /\ FilesAreWhole /\ WorkerInOrder(p)
  BY DEF TransactionInv, BundleInv, Verify, Save, Doing, owners
<1>2. PICK t \in Txn : t = at[p].txn
  BY <1>1, WhenMoving, WhenPurging
<1>3. /\ journal[t].status \in OpenStatus /\ Planned(memory[p]) = Chosen(t)
      /\ left[p] # {} /\ left[p] \subseteq Chosen(t) /\ Chosen(t) \subseteq Artifact
  BY <1>1, <1>2, WhenMoving, WhenPurging DEF Chosen, Planned, OpenStatus
<1>4. PICK o \in left[p] : o = Operation(p) /\ o \in Artifact
  BY <1>1, <1>3, OperationIsLeft
<1>5. CASE Leave(p)
  BY <1>1, <1>5, OutsideIsInOrder DEF Leave, Idle, RowsOK
<1>6. CASE ~ Leave(p)
  <2>1. /\ SaveProgress(p)
        /\ at[p].step = "verify" => InTrash(p) = Snapshot(p)
    BY <1>6 DEF Verify, Save, MovedAsPlanned, Doing
  <2>2. /\ at'[p].txn = t
        /\ at'[p].step = IF journal[t].status = "moving" THEN "stage" ELSE "purge"
        /\ left'[p] = left[p] \ {o}
    BY <1>1, <1>2, <1>4, <2>1 DEF SaveProgress, Goto, RowsOK
  <2>3. CASE journal[t].status # "moving"
    BY <2>2, <2>3, OutsideIsInOrder
  <2>4. CASE journal[t].status = "moving"
    <3>1. Moves(p) /\ InTrash(p) = Snapshot(p)
      BY <1>1, <1>2, <2>1, <2>4, WhenMoving DEF Moves
    <3>2. /\ trash[t][o] # "absent"
          /\ \A a \in Chosen(t) \ left[p] :
               trash[t][a] # "absent" /\ \A b \in left[p] : a < b
      <4>1. JournalIsWhole(t) /\ IsOpen(t)
        BY <1>1, <1>3 DEF FilesAreWhole, IsOpen
      <4>2. trash[t][o] = journal[t].snapshots[o]
        BY <1>2, <1>4, <3>1 DEF InTrash, Snapshot
      <4> QED
        BY <1>1, <1>2, <1>3, <1>4, <3>1, <4>1, <4>2 DEF JournalIsWhole, WorkerInOrder
    <3>3. \A b \in left[p] \ {o} : o < b
      <4>1. left[p] \in SUBSET Nat
        BY <1>3 DEF Artifact
      <4>2. Operation(p) = Min(left[p])
        BY <1>1 DEF Operation
      <4>3. \A b \in left[p] : o <= b
        BY <1>4, <4>1, <4>2, OldestIsThere
      <4> QED
        BY <4>1, <4>3
    <3>4. Chosen(t)' = Chosen(t)
      BY <2>1, ProgressIsJournaled
    <3> QED
      BY <1>1, <2>2, <2>4, <3>2, <3>3, <3>4 DEF WorkerInOrder
  <2> QED
    BY <2>3, <2>4
<1> QED
  BY <1>5, <1>6
(* Each step of a process keeps its own order.                             *)
LEMMA OwnStepKeepsOrder ==
  ASSUME TransactionInv, BundleInv, NEW p \in Process, Apply(p) \/ Kill(p)
  PROVE  WorkerInOrder(p)'
<1>1. RowsOK /\ WorkerIsRight(p) /\ WorkerInOrder(p) /\ FilesAreWhole
  BY DEF TransactionInv, BundleInv
<1>2. /\ Leave(p) => WorkerInOrder(p)'
      /\ \A step : (Goto(p, step) \/ Stay(p, step))
                     /\ step \notin {"begin", "stage", "move", "verify", "save"}
                   => WorkerInOrder(p)'
  BY <1>1, OutsideIsInOrder DEF Leave, Idle, Goto, Stay, RowsOK
<1>3. CASE \/ Lock(p) \/ CleanEarlier(p) \/ StartPurge(p) \/ Complete(p) \/ RollBack(p)
           \/ Return(p) \/ RolledBack(p) \/ Kill(p)
  <2>1. CASE RollBack(p) /\ at' = at
    <3>1. at'[p].step = "rollback"
      BY <2>1 DEF RollBack, Doing
    <3> QED
      BY <3>1, OutsideIsInOrder
  <2>2. CASE ~ (RollBack(p) /\ at' = at)
    BY <1>2, <1>3, <2>2 DEF Lock, CleanEarlier, StartPurge, Complete, RollBack, Return,
       RolledBack, Kill
  <2> QED
    BY <2>1, <2>2
<1>4. CASE Verify(p) \/ Save(p)
  BY <1>4, ProgressKeepsOrder
<1>5. CASE Resume(p)
  <2>1. CASE Leave(p)
    BY <1>2, <2>1
  <2>2. CASE ~ Leave(p)
    <3>1. PICK t \in Txn :
            /\ left' = [left EXCEPT ![p] = Planned(journal[t].operations)]
            /\ at' = [at EXCEPT ![p] =
                 [step |-> IF journal[t].status = "purging" THEN "purge"
                           ELSE IF MustRollBack(journal[t].operations) THEN "rollback"
                           ELSE "stage",
                  txn |-> t, own |-> FALSE]]
      BY <1>5, <2>2 DEF Resume
    <3>2. left'[p] = Chosen(t) /\ Chosen(t)' = Chosen(t)
      BY <1>1, <1>5, <3>1 DEF Resume, RowsOK, files, Chosen, Planned
    <3>3. at'[p].txn = t /\ at'[p].step \in {"purge", "rollback", "stage"}
      BY <1>1, <3>1 DEF RowsOK
    <3> QED
      BY <3>2, <3>3 DEF WorkerInOrder
  <2> QED
    BY <2>1, <2>2
<1>6. CASE Compare(p)
  <2>1. CASE Leave(p)
    BY <1>2, <2>1
  <2>2. CASE ~ Leave(p)
    <3>1. PICK t :
            /\ PlanIsFresh(p) /\ plan' = plan
            /\ at' = [at EXCEPT ![p] = [step |-> "begin", txn |-> t, own |-> TRUE]]
      BY <1>6, <2>2 DEF Compare
    <3>2. at'[p].step = "begin"
      BY <1>1, <3>1 DEF RowsOK
    <3>3. \A a \in Present(plan[p]) : source[a] # "absent"
      BY <3>1 DEF PlanIsFresh, Present
    <3>4. UNCHANGED <<source, journal>> /\ \A u \in Txn : ~ IsOpen(u)
      BY <1>6 DEF Compare, IsOpen, OpenStatus, Terminal
    <3> QED
      BY <3>1, <3>2, <3>3, <3>4 DEF WorkerInOrder, Moves, IsOpen, Present
  <2> QED
    BY <2>1, <2>2
<1>7. CASE Begin(p)
  <2>1. PICK t \in Txn : t = at[p].txn
    BY <1>1, <1>7 DEF WorkerIsRight, Begin, Doing
  <2> DEFINE operations ==
               [a \in Artifact |-> IF plan[p][a] = "absent" THEN "unplanned" ELSE "pending"]
             row == [status |-> "moving", operations |-> operations, snapshots |-> plan[p]]
  <2>2. memory'[p] = operations
    BY <1>1, <1>7 DEF Begin, RowsOK
  <2>3. journal' = [journal EXCEPT ![t] = row]
    BY <1>7, <2>1, <2>2 DEF Begin
  <2>4. Planned(operations) = Present(plan[p]) /\ row.operations = operations
    BY DEF Planned, Present
  <2> HIDE DEF operations, row
  <2>5. journal'[t].operations = operations
    BY <1>1, <2>3, <2>4 DEF RowsOK
  <2>6. Chosen(t)' = Present(plan[p])
    BY <2>4, <2>5 DEF Chosen, Planned
  <2>7. /\ left'[p] = Present(plan[p])
        /\ at'[p].step = "stage" /\ at'[p].txn = t
    BY <1>1, <1>7, <2>1 DEF Begin, Goto, RowsOK
  <2> QED
    BY <2>6, <2>7 DEF WorkerInOrder
<1>8. CASE Stage(p)
  <2>1. CASE Leave(p)
    BY <1>2, <2>1
  <2>2. CASE ~ Leave(p)
    <3>1. PICK step \in {"move", "save"} :
            Stay(p, step) /\ (step = "move" => InTrash(p) = "absent")
      BY <1>8, <2>2 DEF Stage
    <3>2. at[p].step = "stage" /\ UNCHANGED <<source, trash, journal>> /\ Moves(p)
      BY <1>8 DEF Stage, Doing, files, Moves
    <3>3. at'[p].txn = at[p].txn /\ at'[p].step = step /\ left' = left
      BY <1>1, <3>1 DEF Stay, Goto, RowsOK
    <3>4. InTrash(p)' = InTrash(p)
      BY <3>2, <3>3 DEF InTrash, Operation
    <3>5. Chosen(at[p].txn)' = Chosen(at[p].txn)
      BY <3>2, <3>3 DEF Chosen, Planned
    <3> QED
      BY <1>1, <3>1, <3>2, <3>3, <3>4, <3>5 DEF WorkerInOrder
  <2> QED
    BY <2>1, <2>2
<1>9. CASE Move(p)
  <2>1. CASE Leave(p)
    BY <1>2, <2>1
  <2>2. CASE ~ Leave(p)
    <3>1. at[p].step = "move" /\ Moves(p) /\ journal' = journal
      BY <1>9 DEF Move, Doing, Moves
    <3>2. PICK t \in Txn : t = at[p].txn
      BY <1>1, <3>1, WhenMoving
    <3>3. left[p] # {} /\ Chosen(t) \subseteq Artifact
      BY <1>1, <3>1, <3>2, WhenMoving DEF Chosen, Planned
    <3>4. PICK o \in left[p] : o = Operation(p) /\ o \in Artifact
      BY <1>1, <3>3, OperationIsLeft
    <3>5. trash' = [trash EXCEPT ![t][o] = source[o]] /\ Stay(p, "verify")
      BY <1>9, <2>2, <3>2, <3>4 DEF Move, InPlace
    <3>6. at'[p].txn = t /\ at'[p].step = "verify" /\ left' = left
      BY <1>1, <3>2, <3>5 DEF Stay, Goto, RowsOK
    <3>7. \A a \in Artifact \ {o} : trash'[t][a] = trash[t][a]
      BY <1>1, <3>4, <3>5 DEF RowsOK
    <3>8. Chosen(t)' = Chosen(t)
      BY <3>1 DEF Chosen, Planned
    <3> QED
      BY <1>1, <3>1, <3>2, <3>3, <3>4, <3>6, <3>7, <3>8 DEF WorkerInOrder
  <2> QED
    BY <2>1, <2>2
<1>10. CASE Purge(p)
  <2>1. at[p].step = "purge" /\ journal' = journal
    BY <1>10 DEF Purge, Doing
  <2>2. PICK t \in Txn : t = at[p].txn /\ journal[t].status = "purging"
    BY <1>1, <2>1, WhenPurging
  <2>3. Goto(p, "save") => at'[p].step = "save" /\ at'[p].txn = t
    BY <1>1, <2>2 DEF Goto, RowsOK
  <2>4. Goto(p, "save") => WorkerInOrder(p)'
    BY <2>1, <2>2, <2>3, OutsideIsInOrder
  <2> QED
    BY <1>2, <1>10, <2>4 DEF Purge, Stay
<1>11. CASE Clean(p)
  <2>1. CASE Leave(p)
    BY <1>2, <2>1
  <2>2. CASE ~ Leave(p)
    <3>1. at' = [at EXCEPT ![p] = [step |-> "recover", txn |-> 0, own |-> FALSE]]
      BY <1>11, <2>2 DEF Clean
    <3> QED
      BY <1>1, <3>1, OutsideIsInOrder DEF RowsOK
  <2> QED
    BY <2>1, <2>2
<1> QED
  BY <1>3, <1>4, <1>5, <1>6, <1>7, <1>8, <1>9, <1>10, <1>11 DEF Apply

(* At the start all is there, and nothing is planned.                      *)
LEMMA BundleInit == RetentionInit /\ JobsComeFirst => BundleInv
<1> SUFFICES ASSUME RetentionInit, JobsComeFirst PROVE BundleInv
  OBVIOUS
<1>1. \A t \in Txn : ~ IsOpen(t)
  BY DEF RetentionInit, NoJournal, IsOpen, OpenStatus
<1>2. FilesAreWhole
  BY <1>1 DEF RetentionInit, FilesAreWhole, OneOpenJournal, UntouchedIsWhole, JournalIsWhole
<1>3. ASSUME NEW p \in Process PROVE PlanIsWhole(p) /\ WorkerInOrder(p)
  <2>1. Present(plan[p]) = {} /\ at[p].step = "idle"
    BY DEF RetentionInit, Present, Nothing, Idle
  <2> QED
    BY <2>1 DEF PlanIsWhole, NamesJobs, TakesWhole, WorkerInOrder, Moves
<1> QED
  BY <1>2, <1>3 DEF BundleInv

(* Every step keeps it.                                                    *)
LEMMA BundleNext ==
  TransactionInv /\ BundleInv /\ [RetentionNext]_retentionVars => BundleInv'
<1> SUFFICES ASSUME TransactionInv, BundleInv, [RetentionNext]_retentionVars
             PROVE  BundleInv'
  OBVIOUS
<1>1. FilesAreWhole'
  BY FilesNext
<1>2. ASSUME NEW p \in Process PROVE PlanIsWhole(p)' /\ WorkerInOrder(p)'
  <2>1. CASE Apply(p) \/ Kill(p)
    BY <2>1, PlansNext, OwnStepKeepsOrder
  <2>2. CASE ~ (Apply(p) \/ Kill(p))
    BY <2>2, PlansNext, OthersKeepOrder
  <2> QED
    BY <2>1, <2>2
<1> QED
  BY <1>1, <1>2 DEF BundleInv

(* Where every bundle's job is its oldest artifact, bundles go whole or not*)
(* at all, finished journals are true, and everything keeps its type,      *)
(* whoever is killed, and whatever the owners write.                       *)
THEOREM RetentionInvCorrect == JobsComeFirst /\ RetentionSpec => []RetentionInv
<1>1. TransactionInv /\ BundleInv => BundlesStayWhole
  <2> SUFFICES ASSUME BundleInv PROVE BundlesStayWhole
    OBVIOUS
  <2>1. (\A t \in Txn : journal[t].status \in Terminal \cup {"none"})
          => \A t \in Txn : ~ IsOpen(t)
    BY DEF IsOpen, OpenStatus, Terminal
  <2> QED
    BY <2>1 DEF BundleInv, FilesAreWhole, UntouchedIsWhole, BundlesStayWhole
<1>2. JobsComeFirst /\ RetentionSpec => []BundleInv
  BY BundleInit, BundleNext, TransactionInvariant, PTL DEF RetentionSpec
<1> QED
  BY <1>1, <1>2, TransactionInvariant, RetentionTypeCorrect, FinishedIsCleanCorrect, PTL
     DEF RetentionInv
=============================================================================
