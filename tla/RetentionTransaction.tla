------------------------- MODULE RetentionTransaction -------------------------
(***************************************************************************)
(* Applying a retention plan (scripts/factory_retention_apply.py and       *)
(* factory_retention_transaction.py).  Under the retention lock a process  *)
(* recovers what earlier ones left, compares its plan with the artifacts,  *)
(* journals it, moves each artifact to a trash directory and, when all are *)
(* there, unlinks them.  It may be killed between two file operations; the *)
(* owners of the artifacts, the queue and the inbox, take no lock and may  *)
(* write at any time.  A plan is computed before the lock is taken.        *)
(***************************************************************************)
EXTENDS RetentionPlan

CONSTANTS
  Process,    \* processes that run `prune --apply`
  NoOne,      \* who holds a free lock
  MaxTxns,    \* bound on the number of journals
  MaxKills,   \* bound on the number of killed processes
  Cutoff,     \* the age limits of a plan: per class, the oldest that stays
  MaxWrites   \* bound on the number of writes of the owners

ASSUME RetentionAssumption ==
  /\ MaxTxns \in Nat /\ MaxKills \in Nat /\ MaxWrites \in Nat
  /\ NoOne \notin Process
  /\ Cutoff \subseteq [Classes -> Nat]

VARIABLES
  source,     \* the content of each artifact in its place
  writes,     \* number of writes of the owners
  rewritten,  \* artifacts that their owner has created again
  trash,      \* the content of each artifact in each trash directory
  dirs,       \* the trash directories that exist
  journal,    \* the journal of each transaction
  lock,       \* the process that holds the retention lock
  at,         \* the next step of each process and its transaction
  plan,       \* the artifacts each process will delete, as it found them
  memory,     \* each process' copy of the journal's operations
  left,       \* the operations the current loop of a process still visits
  kills

files == <<source, trash, dirs, journal>>
owners == <<writes, rewritten>>
process == <<at, plan, memory, left>>
retentionVars == <<files, owners, lock, process, kills>>

Txn == 1..MaxTxns
Content == {"absent", "final", "reopened", "again"}
OperationState == {"unplanned", "pending", "staged", "purged", "restored"}
Terminal == {"completed", "rolled_back"}

Nothing == [a \in Artifact |-> "absent"]
NoOperations == [a \in Artifact |-> "unplanned"]
NoJournal == [status |-> "none", operations |-> NoOperations, snapshots |-> Nothing]
Idle == [step |-> "idle", txn |-> 0, own |-> FALSE]
Planned(operations) == {a \in Artifact : operations[a] # "unplanned"}
Only(found, chosen) == [a \in Artifact |-> IF a \in chosen THEN found[a] ELSE "absent"]

RetentionInit ==
  /\ source = [a \in Artifact |-> "final"]
  /\ rewritten = {} /\ writes = 0
  /\ trash = [t \in Txn |-> Nothing] /\ dirs = {}
  /\ journal = [t \in Txn |-> NoJournal]
  /\ lock = NoOne
  /\ at = [p \in Process |-> Idle]
  /\ plan = [p \in Process |-> Nothing]
  /\ memory = [p \in Process |-> NoOperations]
  /\ left = [p \in Process |-> {}]
  /\ kills = 0

Goto(p, step) == at' = [at EXCEPT ![p].step = step]
Doing(p, step) == at[p].step = step /\ lock = p

(* The process ends, and with it its lock: done, refused or killed.        *)
Leave(p) ==
  /\ at' = [at EXCEPT ![p] = Idle]
  /\ plan' = [plan EXCEPT ![p] = Nothing]
  /\ memory' = [memory EXCEPT ![p] = NoOperations]
  /\ left' = [left EXCEPT ![p] = {}]
  /\ lock' = IF lock = p THEN NoOne ELSE lock

Stay(p, step) == Goto(p, step) /\ UNCHANGED <<plan, memory, left, lock>>

-----------------------------------------------------------------------------
(* Planning, and recovering what earlier processes left                    *)

(* The age limits and the instant of the plan are the operator's.  A plan  *)
(* over an inventory with errors recovers and then applies nothing.        *)
MakePlan(p, cutoff) ==
  /\ at[p].step = "idle"
  /\ plan' = [plan EXCEPT ![p] =
       IF Orphans(source) = {} THEN Only(source, Doomed(source, cutoff)) ELSE Nothing]
  /\ Goto(p, "lock")
  /\ UNCHANGED <<files, owners, lock, memory, left, kills>>

Lock(p) ==
  /\ at[p].step = "lock"
  /\ IF lock = NoOne
       THEN lock' = p /\ Goto(p, "recover") /\ UNCHANGED <<plan, memory, left>>
       ELSE Leave(p)
  /\ UNCHANGED <<files, owners, kills>>

(* A finished transaction whose trash directory is still there.            *)
CleanEarlier(p) ==
  /\ Doing(p, "recover")
  /\ \E t \in dirs :
       /\ journal[t].status \in Terminal
       /\ IF trash[t] = Nothing
            THEN dirs' = dirs \ {t} /\ Stay(p, "recover")
            ELSE UNCHANGED dirs /\ Leave(p)
  /\ UNCHANGED <<source, trash, journal, owners, kills>>

MustRollBack(operations) == \E a \in Artifact : operations[a] = "pending"

Resume(p) ==
  /\ Doing(p, "recover")
  /\ \E t \in Txn :
       /\ journal[t].status \in {"moving", "purging"}
       /\ IF t \notin dirs THEN Leave(p)
          ELSE /\ memory' = [memory EXCEPT ![p] = journal[t].operations]
               /\ left' = [left EXCEPT ![p] = Planned(journal[t].operations)]
               /\ at' = [at EXCEPT ![p] =
                    [step |-> IF journal[t].status = "purging" THEN "purge"
                              ELSE IF MustRollBack(journal[t].operations) THEN "rollback"
                              ELSE "stage",
                     txn |-> t, own |-> FALSE]]
               /\ UNCHANGED <<plan, lock>>
  /\ UNCHANGED <<files, owners, kills>>

PlanIsFresh(p) ==
  \A a \in Present(plan[p]) : source[a] = plan[p][a]

(* With nothing left to recover, the plan is compared with the artifacts.  *)
Compare(p) ==
  /\ Doing(p, "recover")
  /\ \A t \in Txn : journal[t].status \in Terminal \cup {"none"}
  /\ \A t \in dirs : journal[t].status = "none"
  /\ LET fresh == {t \in Txn \ dirs : journal[t].status = "none"} IN
     IF plan[p] # Nothing /\ Orphans(source) = {} /\ PlanIsFresh(p) /\ fresh # {}
       THEN /\ dirs' = dirs \cup {Min(fresh)}
            /\ at' = [at EXCEPT ![p] = [step |-> "begin", txn |-> Min(fresh), own |-> TRUE]]
            /\ UNCHANGED <<plan, memory, left, lock>>
       ELSE UNCHANGED dirs /\ Leave(p)
  /\ UNCHANGED <<source, trash, journal, owners, kills>>

-----------------------------------------------------------------------------
(* One transaction                                                         *)

WriteJournal(p, status) ==
  journal' = [journal EXCEPT ![at[p].txn].status = status,
                             ![at[p].txn].operations = memory'[p]]

(* Nobody reads the operations of a finished journal any more.             *)
Finish(p, status) ==
  journal' = [journal EXCEPT ![at[p].txn] = [NoJournal EXCEPT !.status = status]]

Begin(p) ==
  /\ Doing(p, "begin")
  /\ memory' = [memory EXCEPT ![p] =
       [a \in Artifact |-> IF plan[p][a] = "absent" THEN "unplanned" ELSE "pending"]]
  /\ left' = [left EXCEPT ![p] = Present(plan[p])]
  /\ journal' = [journal EXCEPT ![at[p].txn] =
       [status |-> "moving", operations |-> memory'[p], snapshots |-> plan[p]]]
  /\ Goto(p, "stage")
  /\ UNCHANGED <<source, trash, dirs, owners, plan, lock, kills>>

(* The operation a loop is at: in order, or in reverse when rolling back.  *)
Operation(p) == IF at[p].step \in {"rollback", "return"} THEN Max(left[p]) ELSE Min(left[p])
Snapshot(p) == journal[at[p].txn].snapshots[Operation(p)]
InPlace(p) == source[Operation(p)]
InTrash(p) == trash[at[p].txn][Operation(p)]

Stage(p) ==
  /\ Doing(p, "stage") /\ left[p] # {}
  /\ LET state == memory[p][Operation(p)] IN
     CASE state = "pending" /\ InTrash(p) = "absent" /\ InPlace(p) = Snapshot(p) ->
            Stay(p, "move")
       [] state = "staged" /\ InPlace(p) = "absent" /\ InTrash(p) = Snapshot(p) ->
            Stay(p, "save")
       [] OTHER -> Leave(p)
  /\ UNCHANGED <<files, owners, kills>>

(* The owner may have written, or removed, the artifact since the check.   *)
Move(p) ==
  /\ Doing(p, "move")
  /\ IF InPlace(p) = "absent" THEN UNCHANGED <<source, trash>> /\ Leave(p)
     ELSE /\ trash' = [trash EXCEPT ![at[p].txn][Operation(p)] = InPlace(p)]
          /\ source' = [source EXCEPT ![Operation(p)] = "absent"]
          /\ Stay(p, "verify")
  /\ UNCHANGED <<dirs, journal, owners, kills>>

SaveProgress(p) ==
  /\ WriteJournal(p, journal[at[p].txn].status)
  /\ left' = [left EXCEPT ![p] = @ \ {Operation(p)}]
  /\ Goto(p, IF journal[at[p].txn].status = "moving" THEN "stage" ELSE "purge")
  /\ UNCHANGED <<plan, lock>>

MovedAtAll(p) == TRUE  \* mutant of MovedAsPlanned
MovedAsPlanned(p) == InTrash(p) = Snapshot(p)

(* What was moved is compared again before the move is journaled.          *)
Verify(p) ==
  /\ Doing(p, "verify")
  /\ IF MovedAsPlanned(p)
       THEN /\ memory' = [memory EXCEPT ![p][Operation(p)] = "staged"]
            /\ SaveProgress(p)
       ELSE UNCHANGED journal /\ Leave(p)
  /\ UNCHANGED <<source, trash, dirs, owners, kills>>

Save(p) ==
  /\ Doing(p, "save")
  /\ UNCHANGED memory
  /\ SaveProgress(p)
  /\ UNCHANGED <<source, trash, dirs, owners, kills>>

StartPurge(p) ==
  /\ Doing(p, "stage") /\ left[p] = {}
  /\ UNCHANGED memory
  /\ WriteJournal(p, "purging")
  /\ left' = [left EXCEPT ![p] = Planned(memory[p])]
  /\ Goto(p, "purge")
  /\ UNCHANGED <<source, trash, dirs, owners, plan, lock, kills>>

PurgeTwice(p) ==  \* mutant of Purge: an entry that is not in the trash is refused
  /\ Doing(p, "purge") /\ left[p] # {}
  /\ IF InPlace(p) # "absent" \/ InTrash(p) = "absent"
       THEN Leave(p) /\ UNCHANGED trash
       ELSE /\ trash' = [trash EXCEPT ![at[p].txn][Operation(p)] = "absent"]
            /\ memory' = [memory EXCEPT ![p][Operation(p)] = "purged"]
            /\ Goto(p, "save") /\ UNCHANGED <<plan, left, lock>>
  /\ UNCHANGED <<source, dirs, journal, owners, kills>>

(* A directory is unlinked entry by entry and may be left torn.            *)
Purge(p) ==
  /\ Doing(p, "purge") /\ left[p] # {}
  /\ \/ /\ memory[p][Operation(p)] = "purged"
        /\ Stay(p, "save") /\ UNCHANGED trash
     \/ /\ memory[p][Operation(p)] # "purged" /\ InPlace(p) # "absent"
        /\ Leave(p) /\ UNCHANGED trash
     \/ /\ memory[p][Operation(p)] # "purged" /\ InPlace(p) = "absent"
        /\ \/ /\ trash' = [trash EXCEPT ![at[p].txn][Operation(p)] = "absent"]
              /\ memory' = [memory EXCEPT ![p][Operation(p)] = "purged"]
              /\ Goto(p, "save") /\ UNCHANGED <<plan, left, lock>>
           \/ /\ InTrash(p) \notin {"absent", "torn"}
              /\ trash' = [trash EXCEPT ![at[p].txn][Operation(p)] = "torn"]
              /\ Stay(p, "purge")
  /\ UNCHANGED <<source, dirs, journal, owners, kills>>

Complete(p) ==
  /\ Doing(p, "purge") /\ left[p] = {}
  /\ Finish(p, "completed")
  /\ Goto(p, "clean")
  /\ memory' = [memory EXCEPT ![p] = NoOperations]
  /\ UNCHANGED <<source, trash, dirs, owners, plan, left, lock, kills>>

RollBackStaged(p) ==  \* mutant of RollBack: a pending operation was never moved
  /\ Doing(p, "rollback") /\ left[p] # {}
  /\ IF memory[p][Operation(p)] = "pending"
       THEN /\ memory' = [memory EXCEPT ![p][Operation(p)] = "restored"]
            /\ left' = [left EXCEPT ![p] = @ \ {Operation(p)}]
            /\ UNCHANGED <<at, plan, lock>>
       ELSE IF InPlace(p) = "absent" THEN Stay(p, "return") ELSE Leave(p)
  /\ UNCHANGED <<files, owners, kills>>

(* A staged operation must be in the trash only; a pending one may be in   *)
(* either place, as its move was perhaps not journaled.                    *)
RollBack(p) ==
  /\ Doing(p, "rollback") /\ left[p] # {}
  /\ \/ /\ memory[p][Operation(p)] = "pending"
        /\ InTrash(p) = "absent" /\ InPlace(p) = Snapshot(p)
        /\ memory' = [memory EXCEPT ![p][Operation(p)] = "restored"]
        /\ left' = [left EXCEPT ![p] = @ \ {Operation(p)}]
        /\ UNCHANGED <<at, plan, lock>>
     \/ /\ InPlace(p) = "absent" /\ InTrash(p) = Snapshot(p)
        /\ Stay(p, "return")
     \/ /\ ~(memory[p][Operation(p)] = "pending"
              /\ InTrash(p) = "absent" /\ InPlace(p) = Snapshot(p))
        /\ ~(InPlace(p) = "absent" /\ InTrash(p) = Snapshot(p))
        /\ Leave(p)
  /\ UNCHANGED <<files, owners, kills>>

Return(p) ==
  /\ Doing(p, "return")
  /\ source' = [source EXCEPT ![Operation(p)] = InTrash(p)]
  /\ trash' = [trash EXCEPT ![at[p].txn][Operation(p)] = "absent"]
  /\ memory' = [memory EXCEPT ![p][Operation(p)] = "restored"]
  /\ left' = [left EXCEPT ![p] = @ \ {Operation(p)}]
  /\ Goto(p, "rollback")
  /\ UNCHANGED <<dirs, journal, owners, plan, lock, kills>>

(* Only the end of a rollback is journaled.                                *)
RolledBack(p) ==
  /\ Doing(p, "rollback") /\ left[p] = {}
  /\ Finish(p, "rolled_back")
  /\ Goto(p, "clean")
  /\ memory' = [memory EXCEPT ![p] = NoOperations]
  /\ UNCHANGED <<source, trash, dirs, owners, plan, left, lock, kills>>

Clean(p) ==
  /\ Doing(p, "clean")
  /\ IF trash[at[p].txn] = Nothing
       THEN /\ dirs' = dirs \ {at[p].txn}
            /\ IF at[p].own THEN Leave(p)
               ELSE /\ at' = [at EXCEPT ![p] = [step |-> "recover", txn |-> 0, own |-> FALSE]]
                    /\ UNCHANGED <<plan, memory, left, lock>>
       ELSE UNCHANGED dirs /\ Leave(p)
  /\ UNCHANGED <<source, trash, journal, owners, kills>>

-----------------------------------------------------------------------------
(* Everything else                                                         *)

Kill(p) ==
  /\ kills < MaxKills /\ lock = p
  /\ kills' = kills + 1
  /\ Leave(p)
  /\ UNCHANGED <<files, owners>>

(* A review is opened again and decided, a job gets an open settlement.    *)
Write(a) ==
  /\ writes < MaxWrites /\ writes' = writes + 1
  /\ \/ source[a] = "final" /\ source' = [source EXCEPT ![a] = "reopened"]
     \/ source[a] = "reopened" /\ source' = [source EXCEPT ![a] = "again"]
  /\ UNCHANGED <<rewritten, trash, dirs, journal, lock, process, kills>>

(* A file that was moved away is written again.                            *)
WriteAgain(a) ==
  /\ writes < MaxWrites /\ writes' = writes + 1
  /\ source[a] = "absent"
  /\ source' = [source EXCEPT ![a] = "again"]
  /\ rewritten' = rewritten \cup {a}
  /\ UNCHANGED <<trash, dirs, journal, lock, process, kills>>

Apply(p) ==
  \/ Lock(p) \/ CleanEarlier(p) \/ Resume(p) \/ Compare(p) \/ Begin(p)
  \/ Stage(p) \/ Move(p) \/ Verify(p) \/ Save(p) \/ StartPurge(p) \/ Purge(p)
  \/ Complete(p) \/ RollBack(p) \/ Return(p) \/ RolledBack(p) \/ Clean(p)

RetentionNext ==
  \/ \E p \in Process, cutoff \in Cutoff : MakePlan(p, cutoff)
  \/ \E p \in Process : Apply(p) \/ Kill(p)
  \/ \E a \in Artifact : Write(a) \/ WriteAgain(a)

(* Somebody keeps pruning, and a process that is not killed goes on.       *)
RetentionSpec ==
  /\ RetentionInit /\ [][RetentionNext]_retentionVars
  /\ \A p \in Process : WF_retentionVars(Apply(p))
  /\ WF_retentionVars(\E p \in Process, cutoff \in Cutoff : MakePlan(p, cutoff))

-----------------------------------------------------------------------------
(* Properties                                                              *)

(* Every variable keeps its type, and a process past the lock holds it.    *)
RetentionTypeOK ==
  /\ source \in [Artifact -> Content]
  /\ trash \in [Txn -> [Artifact -> Content \cup {"torn"}]]
  /\ dirs \subseteq Txn /\ rewritten \subseteq Artifact /\ writes \in 0..MaxWrites
  /\ \A t \in Txn :
       /\ journal[t].status \in {"none", "moving", "purging"} \cup Terminal
       /\ journal[t].operations \in [Artifact -> OperationState]
       /\ journal[t].snapshots \in [Artifact -> Content]
  /\ \A p \in Process :
       /\ memory[p] \in [Artifact -> OperationState]
       /\ left[p] \subseteq Artifact /\ plan[p] \in [Artifact -> Content]
       /\ at[p].step \notin {"idle", "lock"} => lock = p
  /\ lock \in Process \cup {NoOne} /\ kills \in 0..MaxKills

Plans(p) == at[p].step = "idle" /\ at'[p].step = "lock"

(* ADR-0023: retention protects bundles with unsettled or undecided        *)
(* evidence, and otherwise frees the bytes over a class's ceiling as far   *)
(* as safe bundles allow; an inventory with errors is left as it is.       *)
PlanIsSound ==
  [][\A p \in Process :
       LET doomed == Present(plan'[p]) IN
       Plans(p) =>
         /\ \A a \in doomed : \A b \in Members(source, a) :
              b \in doomed /\ source[b] \notin HeldContent
         /\ Orphans(source) = {} =>
              \A a \in Safe(source) \ doomed :
                ClassesOf(source, a) \cap Pressured(Present(source) \ doomed) = {}
         /\ Orphans(source) # {} => doomed = {}]_retentionVars

(* The oldest bundles go first: a bundle that is younger than one that is  *)
(* kept, and that is of no other class, goes only if its age has passed.   *)
OldestGoFirst ==
  [][\A p \in Process : Plans(p) => \A cutoff \in Cutoff, old, young \in Artifact :
       /\ MakePlan(p, cutoff)
       /\ Oldest(source, old) /\ Oldest(source, young) /\ old < young
       /\ old \in Safe(source) \ Present(plan'[p]) /\ young \in Present(plan'[p])
       /\ ClassesOf(source, young) \subseteq ClassesOf(source, old)
       => young \in Aged(source, cutoff)]_retentionVars

(* A plan takes what it must, from the oldest on, and nothing that is held.*)
PlansAreSound == PlanIsSound /\ OldestGoFirst

(* What is unlinked is the very content that was planned and journaled,    *)
(* and nothing is unlinked before the whole plan is staged: a review that  *)
(* is opened again between the plan and its move is never destroyed.       *)
PurgesThePlan ==
  [][\A t \in Txn, a \in Artifact :
       trash'[t][a] \in {"absent", "torn"} /\ trash[t][a] \notin {"absent", "torn"}
         => \/ source'[a] = trash[t][a]
            \/ /\ journal[t].status = "purging"
               /\ trash[t][a] = journal[t].snapshots[a]
               /\ trash[t][a] \notin HeldContent]_retentionVars

(* A bundle is deleted whole or kept whole, whoever was killed on the way, *)
(* as far as its artifacts were not created again.                         *)
BundlesStayWhole ==
  lock = NoOne /\ (\A t \in Txn : journal[t].status \in Terminal \cup {"none"})
    => \A a, b \in Artifact \ rewritten :
         Bundle[a] = Bundle[b] => (source[a] = "absent" <=> source[b] = "absent")

(* A journal that says that it is over tells the truth about its trash.    *)
FinishedIsClean ==
  \A t \in Txn : journal[t].status \in Terminal \cup {"none"} => trash[t] = Nothing

(* After any kills and recoveries, bundles are whole, finished journals are*)
(* true, and no two processes are past the lock.                           *)
RetentionInv == RetentionTypeOK /\ BundlesStayWhole /\ FinishedIsClean

(* FACTORY_OPERATIONS: "a fully staged or purging journal completes its    *)
(* recorded purge", after any number of interruptions.                     *)
PurgeCompletes ==
  \A t \in Txn :
    journal[t].status = "purging" ~>
      \/ journal[t].status = "completed"
      \/ \E a \in rewritten : journal[t].snapshots[a] # "absent"

(* FACTORY_OPERATIONS: "Recovery rolls back a moving journal that still    *)
(* has pending operations".                                                *)
MovingIsRecovered ==
  \A t \in Txn : journal[t].status = "moving" ~> journal[t].status # "moving"
=============================================================================
