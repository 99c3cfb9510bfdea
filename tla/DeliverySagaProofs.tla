--------------------------- MODULE DeliverySagaProofs ---------------------------
(***************************************************************************)
(* Proofs about DeliverySaga, for any number of controllers.  What a       *)
(* controller has learned is never undone: the journal only moves on, a    *)
(* merge, a receipt, a removed branch and a completion are final.  So a    *)
(* controller that wakes up in the middle of a saga may be late, but what  *)
(* its next step relies on still holds.                                    *)
(***************************************************************************)
EXTENDS DeliverySaga, TLAPS

Started == Lifecycle \ {"prepared"}                     \* a commit is announced
Offered == Started \ {"commit-intent", "committed"}     \* a push is announced
Published == Offered \ {"push-intent"}                  \* the push is recorded
Merging == Published \ {"pushed"}                       \* a merge is announced

(* The effects and what the journal must have announced before.            *)
EffectsAreAnnounced ==
  /\ branch # "base" => journal \in Started
  /\ remote = "head" => journal \in Offered
  /\ pull # "none" => journal \in Published
  /\ pull \in MergedPull => journal \in Merging

(* What receipt, cleanup phase and completion say of one another.          *)
ReceiptInv ==
  /\ receipt # "none" => pull = "merged" /\ journal \in {"merged", "uncertain"}
  /\ cleanup > 0 => receipt # "none"
  /\ cleanup >= 2 => branch = "gone"
  /\ cleanup = 5 => work = "delivered"
  /\ receipt = "completed" => cleanup = 5
  /\ branch = "gone" \/ removal > 0 => receipt # "none"
  /\ work = "delivered" => receipt # "none" /\ branch = "gone"

(* What the next step of a controller relies on.                           *)
StepsAreFounded ==
  \A c \in Controller :
    /\ pc[c] = "commit" => journal \in Started
    /\ pc[c] \in {"look", "push"} => journal \in Offered
    /\ pc[c] = "pull" => journal \in Published
    /\ pc[c] = "merge" => journal \in Merging
    /\ pc[c] = "merged" => pull = "merged"
    /\ pc[c] \in CleanupStep => receipt # "none"
    /\ pc[c] = "finish-cleaned" => branch = "gone"
    /\ pc[c] = "scheduler-completed" => work = "delivered"

SagaIInv ==
  /\ SagaTypeOK
  /\ MergesAreExact
  /\ EffectsAreAnnounced
  /\ ReceiptInv
  /\ StepsAreFounded

-----------------------------------------------------------------------------
(* Nothing is undone                                                       *)

Known ==
  /\ journal \in Started => journal' \in Started
  /\ journal \in Offered => journal' \in Offered
  /\ journal \in Published => journal' \in Published
  /\ journal \in Merging => journal' \in Merging
  /\ pull = "merged" => pull' = "merged"
  /\ receipt # "none" => receipt' # "none"
  /\ branch = "gone" => branch' = "gone"
  /\ work = "delivered" => work' = "delivered"

AllSteps == Step \cup CleanupStep \cup {"idle"}

(* A controller moves by its own program counter only.                     *)
LEMMA GotoStep ==
  ASSUME SagaTypeOK, NEW c \in Controller, NEW step, Goto(c, step)
  PROVE  /\ pc'[c] = step /\ \A d \in Controller \ {c} : pc'[d] = pc[d]
         /\ step \in AllSteps => pc' \in [Controller -> AllSteps]
  BY DEF Goto, SagaTypeOK, AllSteps

(* A step that delivers undoes nothing of what another controller saw.     *)
LEMMA DeliverKeepsKnown ==
  ASSUME SagaIInv, NEW c \in Controller, Deliver(c)
  PROVE  Known
<1> USE DEF Known, Started, Offered, Published, Merging, Lifecycle
<1>1. CASE Start(c) \/ Observe(c) \/ ApplyGit(c) \/ Look(c) \/ ObserveCi(c) \/ Reconcile(c)
  BY <1>1 DEF Start, Observe, ApplyGit, Look, ObserveCi, Reconcile, book, local, hub
<1>2. CASE Recover(c) \/ RecoverCommit(c)
  BY <1>2 DEF Recover, RecoverCommit, Recovered, local, hub, SagaIInv, SagaTypeOK
<1>3. CASE Prepare(c) \/ CommitIntent(c) \/ Committed(c) \/ PushIntent(c) \/ Pushed(c)
            \/ MergeIntent(c)
  BY <1>3
  DEF Prepare, CommitIntent, Committed, PushIntent, Pushed, MergeIntent, Transition, local, hub
<1>4. CASE Commit(c) \/ Push(c) \/ EnsurePull(c) \/ Merge(c)
  BY <1>4 DEF Commit, Push, EnsurePull, Merge, MergeOf, book, local, hub
<1>5. CASE Merged(c)
  BY <1>5 DEF Merged, local, hub
<1> QED
  BY <1>1, <1>2, <1>3, <1>4, <1>5 DEF Deliver

(* Nor does a step that cleans up.                                         *)
LEMMA CleanUpKeepsKnown ==
  ASSUME SagaIInv, NEW c \in Controller, CleanUp(c)
  PROVE  Known
<1> USE DEF Known
<1>1. CASE Advance(c) \/ FinishLook(c) \/ DeleteLook(c)
  BY <1>1 DEF Advance, FinishLook, DeleteLook, book, local, hub
<1>2. CASE CleanupIntent(c) \/ FinishCleaned(c) \/ RemoteAbsent(c)
            \/ CompletionIntent(c) \/ SchedulerCompleted(c)
  BY <1>2
  DEF CleanupIntent, FinishCleaned, RemoteAbsent, CompletionIntent, SchedulerCompleted,
      StoreProof, local, hub
<1>3. CASE MarkWorktreeRemoval(c) \/ RemoveWorktree(c) \/ MarkBranchDeletion(c)
            \/ RemoveBranch(c) \/ Delete(c) \/ Complete(c) \/ Conclude(c)
  BY <1>3
  DEF MarkWorktreeRemoval, RemoveWorktree, MarkBranchDeletion, RemoveBranch, Delete,
      Complete, Conclude, book, local, hub
<1> QED
  BY <1>1, <1>2, <1>3 DEF CleanUp

(* Nor do others, or a controller that stops.                              *)
LEMMA OthersKeepKnown ==
  ASSUME Others \/ (\E c \in Controller : Stop(c)) \/ UNCHANGED sagaVars
  PROVE  Known
  BY DEF Others, SchedulerMoves, Withdraw, ForeignPush, RestoreWorktree, Stop, sagaVars,
         book, local, hub, Known

(* So no step undoes what some controller already knows.                   *)
LEMMA KnownStep == SagaIInv /\ [SagaNext]_sagaVars => Known
  BY DeliverKeepsKnown, CleanUpKeepsKnown, OthersKeepKnown DEF SagaNext

-----------------------------------------------------------------------------
(* The steps of a delivery and of its cleanup keep the invariant           *)

(* A controller that did nothing keeps what it relied on.                  *)
LEMMA FoundedIfOwn ==
  ASSUME SagaIInv, [SagaNext]_sagaVars, NEW c \in Controller,
         \A d \in Controller \ {c} : pc'[d] = pc[d],
         /\ pc'[c] = "commit" => journal' \in Started
         /\ pc'[c] \in {"look", "push"} => journal' \in Offered
         /\ pc'[c] = "pull" => journal' \in Published
         /\ pc'[c] = "merge" => journal' \in Merging
         /\ pc'[c] = "merged" => pull' = "merged"
         /\ pc'[c] \in CleanupStep => receipt' # "none"
         /\ pc'[c] = "finish-cleaned" => branch' = "gone"
         /\ pc'[c] = "scheduler-completed" => work' = "delivered"
  PROVE  StepsAreFounded'
  BY KnownStep DEF SagaIInv, StepsAreFounded, Known

(* A delivering step stores what its rows may hold, and merges only the    *)
(* reviewed commit.                                                        *)
LEMMA DeliverTypes ==
  ASSUME SagaIInv, NEW c \in Controller, Deliver(c)
  PROVE  SagaTypeOK' /\ MergesAreExact'
<1> USE DEF SagaIInv, SagaTypeOK, MergesAreExact, Lifecycle, MergedPull
<1>1. CASE Start(c) \/ Observe(c) \/ ApplyGit(c) \/ Look(c) \/ ObserveCi(c) \/ Reconcile(c)
  BY <1>1, GotoStep
  DEF Start, Observe, ApplyGit, Look, ObserveCi, Reconcile, book, local, hub, AllSteps, Step,
      CleanupStep
<1>2. CASE Recover(c) \/ RecoverCommit(c) \/ Merged(c)
  BY <1>2, GotoStep
  DEF Recover, RecoverCommit, Merged, Recovered, local, hub, AllSteps, Step
<1>3. CASE Prepare(c) \/ CommitIntent(c) \/ Committed(c) \/ PushIntent(c) \/ Pushed(c)
            \/ MergeIntent(c)
  BY <1>3, GotoStep
  DEF Prepare, CommitIntent, Committed, PushIntent, Pushed, MergeIntent, Transition, local, hub,
      AllSteps, Step
<1>4. CASE Commit(c) \/ Push(c) \/ EnsurePull(c)
  BY <1>4, GotoStep DEF Commit, Push, EnsurePull, book, local, hub, AllSteps, Step
<1>5. CASE Merge(c)
  BY <1>5, GotoStep DEF Merge, MergeOf, MatchesHead, book, local, hub, AllSteps, Step
<1> QED
  BY <1>1, <1>2, <1>3, <1>4, <1>5 DEF Deliver

(* After a delivering step each controller still has grounds for its next  *)
(* step.                                                                   *)
LEMMA DeliverFounded ==
  ASSUME SagaIInv, NEW c \in Controller, Deliver(c)
  PROVE  StepsAreFounded'
<1>n. SagaNext /\ SagaTypeOK
  BY DEF SagaNext, SagaIInv
<1>g. ASSUME NEW step, Goto(c, step)
      PROVE  pc'[c] = step /\ \A d \in Controller \ {c} : pc'[d] = pc[d]
  BY <1>n, <1>g, GotoStep
<1> USE DEF Step, CleanupStep
<1>1. CASE Start(c)
  BY <1>1, <1>n, <1>g, FoundedIfOwn DEF Start, book
<1>2. CASE ApplyGit(c)
  BY <1>2, <1>n, <1>g, FoundedIfOwn DEF ApplyGit, book, Offered, Published, Started, Lifecycle
<1>3. CASE Observe(c) \/ Prepare(c) \/ Recover(c) \/ RecoverCommit(c)
  BY <1>3, <1>n, <1>g, FoundedIfOwn DEF Observe, Prepare, Recover, RecoverCommit
<1>4. CASE CommitIntent(c) \/ PushIntent(c) \/ Pushed(c) \/ MergeIntent(c) \/ Committed(c)
  BY <1>4, <1>n, <1>g, FoundedIfOwn
  DEF CommitIntent, PushIntent, Pushed, MergeIntent, Committed, Transition,
      Started, Offered, Published, Merging, Lifecycle
<1>5. CASE Look(c)
  BY <1>5, <1>n, <1>g, FoundedIfOwn DEF Look, At, book, SagaIInv, StepsAreFounded
<1>6. CASE Commit(c) \/ Push(c) \/ EnsurePull(c) \/ ObserveCi(c) \/ Merge(c) \/ Merged(c)
  BY <1>6, <1>n, <1>g, FoundedIfOwn DEF Commit, Push, EnsurePull, ObserveCi, Merge, Merged
<1>7. CASE Reconcile(c)
  BY <1>7, <1>n, <1>g, FoundedIfOwn DEF Reconcile, MergedExactly, hub
<1> QED
  BY <1>1, <1>2, <1>3, <1>4, <1>5, <1>6, <1>7 DEF Deliver

(* A delivering step has no effect that the journal did not announce.      *)
LEMMA DeliverEffects ==
  ASSUME SagaIInv, NEW c \in Controller, Deliver(c)
  PROVE  EffectsAreAnnounced'
<1> USE DEF EffectsAreAnnounced, Started, Offered, Published, Merging, Lifecycle, MergedPull
<1>k. Known /\ SagaTypeOK /\ EffectsAreAnnounced /\ MergesAreExact
  BY DeliverKeepsKnown DEF SagaIInv
<1>1. CASE UNCHANGED <<branch, remote, pull>>
  BY <1>1, <1>k DEF Known
<1>2. CASE Commit(c) \/ Push(c) \/ EnsurePull(c) \/ Merge(c)
  BY <1>2, <1>k
  DEF Commit, Push, EnsurePull, Merge, MergeOf, MatchesHead, At, book, local, hub, SagaIInv,
      StepsAreFounded
<1>3. CASE Start(c) \/ Observe(c) \/ ApplyGit(c) \/ Look(c) \/ ObserveCi(c) \/ Reconcile(c)
            \/ Recover(c) \/ RecoverCommit(c) \/ Merged(c) \/ Prepare(c) \/ CommitIntent(c)
            \/ Committed(c) \/ PushIntent(c) \/ Pushed(c) \/ MergeIntent(c)
  BY <1>1, <1>3
  DEF Start, Observe, ApplyGit, Look, ObserveCi, Reconcile, Recover, RecoverCommit, Merged,
      Prepare, CommitIntent, Committed, PushIntent, Pushed, MergeIntent, local, hub
<1> QED
  BY <1>2, <1>3 DEF Deliver

(* A delivering step leaves the receipt true.                              *)
LEMMA DeliverReceipt ==
  ASSUME SagaIInv, NEW c \in Controller, Deliver(c)
  PROVE  ReceiptInv'
<1> USE DEF ReceiptInv
<1>k. Known /\ ReceiptInv /\ SagaTypeOK
  BY DeliverKeepsKnown DEF SagaIInv
<1>1. CASE Merged(c)
  BY <1>1, <1>k DEF Merged, At, local, hub, SagaIInv, StepsAreFounded
<1>2. CASE Recover(c) \/ RecoverCommit(c)
  BY <1>2, <1>k DEF Recover, RecoverCommit, Recovered, local, hub
<1>3. CASE Prepare(c) \/ CommitIntent(c) \/ Committed(c) \/ PushIntent(c) \/ Pushed(c)
            \/ MergeIntent(c)
  BY <1>3, <1>k
  DEF Prepare, CommitIntent, Committed, PushIntent, Pushed, MergeIntent, Transition, local, hub
<1>4. CASE Start(c) \/ Observe(c) \/ ApplyGit(c) \/ Look(c) \/ ObserveCi(c) \/ Reconcile(c)
            \/ Commit(c) \/ Push(c) \/ EnsurePull(c) \/ Merge(c)
  BY <1>4, <1>k
  DEF Start, Observe, ApplyGit, Look, ObserveCi, Reconcile, Commit, Push, EnsurePull, Merge,
      book, local, hub, Known
<1> QED
  BY <1>1, <1>2, <1>3, <1>4 DEF Deliver

(* A cleaning step keeps types, merges and announcements.                  *)
LEMMA CleanUpTypes ==
  ASSUME SagaIInv, NEW c \in Controller, CleanUp(c)
  PROVE  SagaTypeOK' /\ MergesAreExact' /\ EffectsAreAnnounced'
<1>k. Known /\ SagaTypeOK /\ MergesAreExact /\ EffectsAreAnnounced
  BY CleanUpKeepsKnown DEF SagaIInv
<1> USE DEF SagaTypeOK, MergesAreExact, EffectsAreAnnounced
<1>1. CASE Advance(c) \/ FinishLook(c) \/ DeleteLook(c)
  BY <1>1, <1>k, GotoStep
  DEF Advance, FinishLook, Removal, DeleteLook, book, local, hub, AllSteps, CleanupStep
<1>2. CASE CleanupIntent(c) \/ FinishCleaned(c) \/ RemoteAbsent(c)
            \/ CompletionIntent(c) \/ SchedulerCompleted(c)
  BY <1>2, <1>k, GotoStep
  DEF CleanupIntent, FinishCleaned, RemoteAbsent, CompletionIntent, SchedulerCompleted,
      StoreProof, local, hub, AllSteps
<1>3. CASE MarkWorktreeRemoval(c) \/ RemoveWorktree(c) \/ MarkBranchDeletion(c)
  <2>0. worktree' \in BOOLEAN
    BY <1>3, <1>k DEF MarkWorktreeRemoval, RemoveWorktree, MarkBranchDeletion
  <2>1. UNCHANGED <<book, branch, hub, work>> /\ removal' \in 0..2
    BY <1>3, <1>k DEF MarkWorktreeRemoval, RemoveWorktree, MarkBranchDeletion
  <2>2. pc' \in [Controller -> AllSteps]
    BY <1>3, <1>k, GotoStep
    DEF MarkWorktreeRemoval, RemoveWorktree, MarkBranchDeletion, AllSteps, CleanupStep
  <2> QED
    BY <1>k, <2>0, <2>1, <2>2 DEF book, hub, AllSteps
<1>4. CASE Delete(c)
  BY <1>4, <1>k, GotoStep DEF Delete, book, local, AllSteps, CleanupStep
<1>5. CASE Complete(c) \/ Conclude(c)
  BY <1>5, <1>k, GotoStep DEF Complete, Conclude, book, local, hub, AllSteps, CleanupStep
<1>6. CASE RemoveBranch(c)
  BY <1>6, <1>k, GotoStep DEF RemoveBranch, book, hub, AllSteps, CleanupStep
<1> QED
  BY <1>1, <1>2, <1>3, <1>4, <1>5, <1>6 DEF CleanUp

(* After a cleaning step each controller still has grounds for its next    *)
(* step.                                                                   *)
LEMMA CleanUpFounded ==
  ASSUME SagaIInv, NEW c \in Controller, CleanUp(c)
  PROVE  StepsAreFounded'
<1>n. SagaNext /\ SagaTypeOK
  BY DEF SagaNext, SagaIInv
<1>g. ASSUME NEW step, Goto(c, step)
      PROVE  pc'[c] = step /\ \A d \in Controller \ {c} : pc'[d] = pc[d]
  BY <1>n, <1>g, GotoStep
<1>r. pc[c] \in CleanupStep => receipt # "none" /\ receipt' # "none"
  BY CleanUpKeepsKnown DEF SagaIInv, StepsAreFounded, Known
<1> USE DEF CleanupStep, At
<1>1. CASE Advance(c) \/ FinishLook(c) \/ DeleteLook(c)
  BY <1>1, <1>n, <1>g, <1>r, FoundedIfOwn
  DEF Advance, FinishLook, Removal, DeleteLook, SagaTypeOK
<1>2. CASE CleanupIntent(c) \/ FinishCleaned(c) \/ RemoteAbsent(c)
            \/ CompletionIntent(c) \/ SchedulerCompleted(c) \/ Conclude(c)
  BY <1>2, <1>n, <1>g, <1>r, FoundedIfOwn
  DEF CleanupIntent, FinishCleaned, RemoteAbsent, CompletionIntent, SchedulerCompleted, Conclude
<1>3. CASE MarkWorktreeRemoval(c) \/ RemoveWorktree(c) \/ MarkBranchDeletion(c)
            \/ RemoveBranch(c) \/ Delete(c) \/ Complete(c)
  BY <1>3, <1>n, <1>g, <1>r, FoundedIfOwn
  DEF MarkWorktreeRemoval, RemoveWorktree, MarkBranchDeletion, RemoveBranch, Delete, Complete
<1> QED
  BY <1>1, <1>2, <1>3 DEF CleanUp

(* A cleaning step writes only a receipt that is true.                     *)
LEMMA CleanUpReceipt ==
  ASSUME SagaIInv, NEW c \in Controller, CleanUp(c)
  PROVE  ReceiptInv'
<1> USE DEF ReceiptInv
<1>k. Known /\ ReceiptInv /\ SagaTypeOK /\ StepsAreFounded
  BY CleanUpKeepsKnown DEF SagaIInv
<1>r. pc[c] \in CleanupStep => receipt # "none"
  BY <1>k DEF StepsAreFounded
<1>1. CASE Advance(c) \/ FinishLook(c) \/ DeleteLook(c) \/ Delete(c) \/ RemoveWorktree(c)
  BY <1>1, <1>k DEF Advance, FinishLook, DeleteLook, Delete, RemoveWorktree, book, local, hub
<1>2. CASE CleanupIntent(c) \/ FinishCleaned(c) \/ RemoteAbsent(c)
            \/ CompletionIntent(c) \/ SchedulerCompleted(c)
  BY <1>2, <1>k
  DEF CleanupIntent, FinishCleaned, RemoteAbsent, CompletionIntent, SchedulerCompleted,
      StoreProof, At, local, hub, StepsAreFounded, SagaTypeOK
<1>3. CASE MarkWorktreeRemoval(c) \/ MarkBranchDeletion(c) \/ RemoveBranch(c)
  BY <1>3, <1>k, <1>r
  DEF MarkWorktreeRemoval, MarkBranchDeletion, RemoveBranch, At, CleanupStep, book, hub
<1>4. CASE Complete(c) \/ Conclude(c)
  BY <1>4, <1>k DEF Complete, Conclude, MayComplete, book, local, hub, SagaTypeOK
<1> QED
  BY <1>1, <1>2, <1>3, <1>4 DEF CleanUp

-----------------------------------------------------------------------------
(* The invariant                                                           *)

(* A delivery that has not begun satisfies the invariant.                  *)
LEMMA SagaInitInv == SagaInit => SagaIInv
  BY DEF SagaInit, SagaIInv, SagaTypeOK, MergesAreExact, EffectsAreAnnounced, ReceiptInv,
         StepsAreFounded, CleanupStep, MergedPull

(* Others, and controllers that stop, keep the invariant.                  *)
LEMMA OthersInv ==
  ASSUME SagaIInv, Others \/ (\E c \in Controller : Stop(c)) \/ UNCHANGED sagaVars
  PROVE  SagaIInv'
<1>1. CASE Others \/ UNCHANGED sagaVars
  <2> USE DEF SagaIInv
  <2>1. SagaTypeOK' /\ MergesAreExact'
    BY <1>1
    DEF Others, SchedulerMoves, Withdraw, ForeignPush, RestoreWorktree, sagaVars, book, local,
        hub, SagaTypeOK, MergesAreExact
  <2>2. EffectsAreAnnounced' /\ ReceiptInv' /\ StepsAreFounded'
    BY <1>1
    DEF Others, SchedulerMoves, Withdraw, ForeignPush, RestoreWorktree, sagaVars, book, local,
        hub, EffectsAreAnnounced, ReceiptInv, StepsAreFounded
  <2> QED
    BY <2>1, <2>2
<1>2. ASSUME NEW c \in Controller, Stop(c)
      PROVE  SagaIInv'
  <2>1. SagaTypeOK' /\ StepsAreFounded'
    BY <1>2, GotoStep
    DEF Stop, SagaIInv, SagaTypeOK, AllSteps, StepsAreFounded, CleanupStep, book, local, hub
  <2> QED
    BY <1>2, <2>1
    DEF Stop, SagaIInv, MergesAreExact, EffectsAreAnnounced, ReceiptInv, book, local, hub
<1> QED
  BY <1>1, <1>2

(* Every step keeps the invariant.                                         *)
LEMMA SagaNextInv == SagaIInv /\ [SagaNext]_sagaVars => SagaIInv'
<1>1. ASSUME SagaIInv, NEW c \in Controller, Deliver(c)
      PROVE  SagaIInv'
  BY <1>1, DeliverTypes, DeliverFounded, DeliverEffects, DeliverReceipt DEF SagaIInv
<1>2. ASSUME SagaIInv, NEW c \in Controller, CleanUp(c)
      PROVE  SagaIInv'
  BY <1>2, CleanUpTypes, CleanUpFounded, CleanUpReceipt DEF SagaIInv
<1> QED
  BY <1>1, <1>2, OthersInv DEF SagaNext

(* So it holds in every state of the delivery.                             *)
LEMMA SagaInvariant == SagaSpec => []SagaIInv
<1> QED
  BY SagaInitInv, SagaNextInv, PTL DEF SagaSpec

(* Whichever controllers raced, stopped or resumed, no effect is without   *)
(* its intent and the receipt claims nothing that has not happened.        *)
THEOREM JournalIsTruthfulCorrect == SagaSpec => []JournalIsTruthful
<1>1. SagaIInv => IntentBeforeEffect
  BY DEF SagaIInv, IntentBeforeEffect, Before, EffectsAreAnnounced, Started, Offered, Published,
         Merging, Lifecycle
<1>2. SagaIInv => ReceiptIsTruthful
  BY DEF SagaIInv, ReceiptIsTruthful, ReceiptInv
<1> QED
  BY <1>1, <1>2, SagaInvariant, PTL DEF JournalIsTruthful

(* Nothing but the checked commit lands, and its copies outlive all that   *)
(* comes before.                                                           *)
THEOREM DeliveryInvCorrect == SagaSpec => []DeliveryInv
<1>1. SagaIInv => DeliveryInv
  BY DEF SagaIInv, DeliveryInv, LandedBeforeRemoval, ReceiptInv
<1> QED
  BY <1>1, SagaInvariant, PTL

-----------------------------------------------------------------------------
(* What belongs to others                                                  *)

(* No step takes back a branch that others took over.                      *)
LEMMA ForeignStep ==
  [SagaNext]_sagaVars /\ remote = "foreign" => remote' = "foreign"
<1> SUFFICES ASSUME [SagaNext]_sagaVars, remote = "foreign"
             PROVE  remote' = "foreign"
  OBVIOUS
<1>1. ASSUME NEW c \in Controller, Deliver(c)
      PROVE  remote' = "foreign"
  BY <1>1
  DEF Deliver, Start, Recover, Observe, ApplyGit, Prepare, CommitIntent, Commit, Committed,
      RecoverCommit, PushIntent, Look, Push, Pushed, EnsurePull, ObserveCi, MergeIntent, Merge,
      Reconcile, Merged, hub
<1>2. ASSUME NEW c \in Controller, CleanUp(c)
      PROVE  remote' = "foreign"
  BY <1>2
  DEF CleanUp, Advance, CleanupIntent, FinishLook, MarkWorktreeRemoval, RemoveWorktree,
      MarkBranchDeletion, RemoveBranch, FinishCleaned, DeleteLook, Delete, LeaseHolds,
      RemoteAbsent, CompletionIntent, Complete, SchedulerCompleted, Conclude, hub
<1>3. CASE Others \/ (\E c \in Controller : Stop(c)) \/ UNCHANGED sagaVars
  BY <1>3 DEF Others, SchedulerMoves, Withdraw, ForeignPush, RestoreWorktree, Stop, sagaVars, hub
<1> QED
  BY <1>1, <1>2, <1>3 DEF SagaNext

(* No step takes back work that a recovery has taken.                      *)
LEMMA MovedStep ==
  [SagaNext]_sagaVars /\ work = "moved" => work' = "moved"
<1> SUFFICES ASSUME [SagaNext]_sagaVars, work = "moved"
             PROVE  work' = "moved"
  OBVIOUS
<1>1. ASSUME NEW c \in Controller, Deliver(c)
      PROVE  work' = "moved"
  BY <1>1
  DEF Deliver, Start, Recover, Observe, ApplyGit, Prepare, CommitIntent, Commit, Committed,
      RecoverCommit, PushIntent, Look, Push, Pushed, EnsurePull, ObserveCi, MergeIntent, Merge,
      Reconcile, Merged
<1>2. ASSUME NEW c \in Controller, CleanUp(c)
      PROVE  work' = "moved"
  BY <1>2
  DEF CleanUp, Advance, CleanupIntent, FinishLook, MarkWorktreeRemoval, RemoveWorktree,
      MarkBranchDeletion, RemoveBranch, FinishCleaned, DeleteLook, Delete, RemoteAbsent,
      CompletionIntent, Complete, MayComplete, SchedulerCompleted, Conclude
<1>3. CASE Others \/ (\E c \in Controller : Stop(c)) \/ UNCHANGED sagaVars
  BY <1>3 DEF Others, SchedulerMoves, Withdraw, ForeignPush, RestoreWorktree, Stop, sagaVars
<1> QED
  BY <1>1, <1>2, <1>3 DEF SagaNext

(* However stale a controller's observations are, a branch that somebody   *)
(* else moved and work that the scheduler gave away stay theirs.           *)
THEOREM OthersAreLeftAloneCorrect == SagaSpec => OthersAreLeftAlone
<1>1. [SagaNext]_sagaVars => [remote = "foreign" => remote' = "foreign"]_sagaVars
  BY ForeignStep
<1>2. [SagaNext]_sagaVars => [work = "moved" => work' = "moved"]_sagaVars
  BY MovedStep
<1> QED
  BY <1>1, <1>2, PTL
  DEF SagaSpec, OthersAreLeftAlone, ForeignWorkSurvives, MovedWorkIsLeftAlone

-----------------------------------------------------------------------------
(* The refinement of DeliveryOrder                                         *)

(* A step that changes none of the four variables the order is about.      *)
LEMMA Stutters ==
  ASSUME UNCHANGED <<pull, work, receipt>>, branch' = "gone" <=> branch = "gone"
  PROVE  UNCHANGED Order!orderVars
  BY DEF Order!orderVars, Stage

(* Proposing and landing are steps of the pull request, learning one of    *)
(* the receipt.                                                            *)
LEMMA DeliverInOrder ==
  ASSUME SagaIInv, NEW c \in Controller, Deliver(c)
  PROVE  [Order!Next]_(Order!orderVars)
<1> USE DEF SagaIInv
<1>1. CASE EnsurePull(c)
  <2>1. work # "delivered"
    BY <1>1 DEF EnsurePull, ReceiptInv
  <2>2. UNCHANGED <<branch, receipt, work>> /\ pull \in {"none", "open"} /\ pull' = "open"
    BY <1>1 DEF EnsurePull, book, local
  <2>3. CASE pull = "open"
    BY <2>2, <2>3, Stutters
  <2>4. CASE pull = "none"
    BY <2>1, <2>2, <2>4 DEF Order!Next, Order!Propose, Stage
  <2> QED
    BY <2>2, <2>3, <2>4
<1>2. CASE Merge(c)
  <2>1. UNCHANGED <<branch, receipt, work>>
    BY <1>2 DEF Merge, book, local
  <2>2. CASE pull = "open" /\ pull' \in MergedPull
    <3>1. work # "delivered"
      BY <2>2 DEF ReceiptInv
    <3> QED
      BY <2>1, <2>2, <3>1 DEF Order!Next, Order!Land, Stage, MergedPull
  <2>3. CASE UNCHANGED pull
    BY <2>1, <2>3, Stutters
  <2> QED
    BY <1>2, <2>2, <2>3 DEF Merge, MergeOf, MatchesHead, MergedPull
<1>3. CASE Merged(c)
  <2>1. UNCHANGED <<branch, pull, work>> /\ pull = "merged"
    BY <1>3 DEF Merged, At, local, hub, StepsAreFounded
  <2>2. CASE journal = "merge-intent" /\ receipt' = "merged"
    <3>1. receipt = "none" /\ work # "delivered"
      BY <2>2 DEF ReceiptInv
    <3> QED
      BY <2>1, <2>2, <3>1 DEF Order!Next, Order!Learn, Stage
  <2>3. CASE UNCHANGED receipt
    BY <2>1, <2>3, Stutters
  <2> QED
    BY <1>3, <2>2, <2>3 DEF Merged
<1>4. CASE Commit(c)
  BY <1>4, Stutters DEF Commit, book, hub
<1>5. CASE Start(c) \/ Observe(c) \/ ApplyGit(c) \/ Look(c) \/ ObserveCi(c) \/ Reconcile(c)
            \/ Recover(c) \/ RecoverCommit(c) \/ Prepare(c) \/ CommitIntent(c)
            \/ Committed(c) \/ PushIntent(c) \/ Push(c) \/ Pushed(c) \/ MergeIntent(c)
  BY <1>5, Stutters
  DEF Start, Observe, ApplyGit, Look, ObserveCi, Reconcile, Recover, RecoverCommit, Prepare,
      CommitIntent, Committed, PushIntent, Push, Pushed, MergeIntent, Transition, book, local, hub
<1> QED
  BY <1>1, <1>2, <1>3, <1>4, <1>5 DEF Deliver

(* The copy is dropped with the local branch, the work settled with the    *)
(* scheduler, and both only after what must have happened before.          *)
LEMMA CleanUpInOrder ==
  ASSUME SagaIInv, NEW c \in Controller, CleanUp(c)
  PROVE  [Order!Next]_(Order!orderVars)
<1> USE DEF SagaIInv
<1>r. pc[c] \in CleanupStep => receipt # "none"
  BY DEF StepsAreFounded
<1>1. CASE RemoveBranch(c)
  <2>1. /\ UNCHANGED <<receipt, pull, work>>
        /\ branch \in {"head", "gone"} /\ branch' = "gone"
    BY <1>1 DEF RemoveBranch, book, hub
  <2>2. CASE branch = "gone"
    BY <2>1, <2>2, Stutters
  <2>3. CASE branch = "head"
    <3>1. receipt = "merged"
      BY <1>1, <1>r, <2>3
      DEF RemoveBranch, At, CleanupStep, ReceiptInv, SagaTypeOK
    <3> QED
      BY <2>1, <2>3, <3>1 DEF Order!Next, Order!Drop, Stage
  <2> QED
    BY <2>1, <2>2, <2>3
<1>2. CASE Complete(c)
  <2>1. /\ UNCHANGED <<receipt, pull, branch>> /\ receipt = "merged" /\ work' = "delivered"
        /\ work = "delivered" \/ (work = "unsettled" /\ cleanup = 4)
    BY <1>2 DEF Complete, MayComplete, book, local, hub
  <2>2. CASE work = "delivered"
    BY <2>1, <2>2, Stutters
  <2>3. CASE work = "unsettled" /\ cleanup = 4
    <3>1. branch = "gone" /\ pull = "merged"
      BY <2>1, <2>3 DEF ReceiptInv
    <3> QED
      BY <2>1, <2>3, <3>1 DEF Order!Next, Order!Settle, Stage
  <2> QED
    BY <2>1, <2>2, <2>3
<1>3. CASE Conclude(c)
  <2>1. /\ UNCHANGED <<work, pull, branch>> /\ cleanup = 5 /\ receipt' = "completed"
        /\ receipt \in {"merged", "completed"}
    BY <1>3, <1>r DEF Conclude, At, CleanupStep, local, hub, SagaTypeOK
  <2>2. CASE receipt = "completed"
    BY <2>1, <2>2, Stutters
  <2>3. CASE receipt = "merged"
    <3>1. work = "delivered"
      BY <2>1 DEF ReceiptInv
    <3> QED
      BY <2>1, <2>3, <3>1 DEF Order!Next, Order!Conclude, Stage
  <2> QED
    BY <2>1, <2>2, <2>3
<1>4. CASE Advance(c) \/ FinishLook(c) \/ DeleteLook(c) \/ Delete(c) \/ RemoveWorktree(c)
            \/ MarkWorktreeRemoval(c) \/ MarkBranchDeletion(c)
  BY <1>4, Stutters
  DEF Advance, FinishLook, DeleteLook, Delete, RemoveWorktree, MarkWorktreeRemoval,
      MarkBranchDeletion, book, local, hub
<1>5. CASE CleanupIntent(c) \/ FinishCleaned(c) \/ RemoteAbsent(c)
            \/ CompletionIntent(c) \/ SchedulerCompleted(c)
  BY <1>5, Stutters
  DEF CleanupIntent, FinishCleaned, RemoteAbsent, CompletionIntent, SchedulerCompleted,
      StoreProof, local, hub
<1> QED
  BY <1>1, <1>2, <1>3, <1>4, <1>5 DEF CleanUp

(* Others, and controllers that stop, do nothing the order of a delivery   *)
(* forbids.                                                                *)
LEMMA OthersInOrder ==
  ASSUME SagaIInv, Others \/ (\E c \in Controller : Stop(c)) \/ UNCHANGED sagaVars
  PROVE  [Order!Next]_(Order!orderVars)
<1>1. UNCHANGED <<pull, receipt, branch>> /\ (work = "delivered" <=> work' = "delivered")
  BY DEF Others, SchedulerMoves, Withdraw, ForeignPush, RestoreWorktree, Stop, sagaVars, book,
         local, hub
<1> QED
  BY <1>1 DEF Order!orderVars, Stage

(* The controllers, their journal and their recoveries implement the order *)
(* that DeliveryOrder promises: no interleaving of any number of them      *)
(* settles what has not landed, or drops the only copy of it.              *)
THEOREM DeliversInOrderCorrect == SagaSpec => DeliversInOrder
<1>1. SagaInit => Order!Init
  BY DEF SagaInit, Order!Init, Stage
<1>2. SagaIInv /\ [SagaNext]_sagaVars => [Order!Next]_(Order!orderVars)
  BY DeliverInOrder, CleanUpInOrder, OthersInOrder DEF SagaNext
<1> QED
  BY <1>1, <1>2, SagaInvariant, PTL DEF SagaSpec, DeliversInOrder, Order!Spec
=============================================================================
