---------------------------- MODULE DeliverySaga ----------------------------
(***************************************************************************)
(* `factoryctl deliver --apply` (scripts/factory_pr_delivery_*.py and      *)
(* scripts/finish_issue.sh) for one accepted proposal.  Controllers are    *)
(* processes that a maintainer starts, any number at a time, and that may  *)
(* stop between any two steps.  Each journals its intent, changes the      *)
(* world (local Git, the remote branch, the pull request, the scheduler)   *)
(* and journals the result; the next controller resumes from the journal.  *)
(* A step is one journal transaction, one command, or one observation, so  *)
(* what a controller has observed may be stale when it acts on it.         *)
(***************************************************************************)
EXTENDS Naturals

CONSTANTS
  Controller,   \* processes running the command
  Maintained    \* somebody recreates a worktree directory the cleanup needs

ASSUME SagaAssumption == Controller # {} /\ Maintained \in BOOLEAN

VARIABLES
  journal,    \* delivery_lifecycle.lifecycle; "none" without a row
  cleanup,    \* delivery_cleanup.phase_version; 0 without a row
  receipt,    \* lifecycle of the stored terminal receipt, or "none"
  branch,     \* the local branch: at the base, at the delivered commit, gone
  worktree,   \* the issue's worktree directory exists
  removal,    \* finish_issue's replay evidence: 0, 1 worktree, 2 branch
  remote,     \* the branch on the remote: absent, at the commit, elsewhere
  pull,       \* the pull request and, once merged, what its merge records
  issue,      \* the issue: eligible for autonomous delivery, withdrawn, closed
  work,       \* the scheduler's assignment of this proposal
  pc          \* the next step of each controller

book == <<journal, cleanup, receipt>>
local == <<branch, worktree, removal>>
hub == <<remote, pull, issue>>
sagaVars == <<book, local, hub, work, pc>>

Lifecycle ==
  {"prepared", "commit-intent", "committed", "push-intent", "pushed",
   "merge-intent", "merged", "uncertain"}
MergedPull == {"merged", "merged-anew", "merged-foreign"}

Step ==
  {"observe", "git", "prepare", "commit-intent", "commit", "committed",
   "recover-commit", "push-intent", "look", "push", "pushed", "pull", "ci",
   "merge-intent", "merge", "reconcile", "rejected", "merged", "recover"}
CleanupStep ==
  {"advance", "cleanup-intent", "finish", "mark-worktree", "remove-worktree",
   "mark-branch", "remove-branch", "finish-cleaned", "delete-look", "delete",
   "remote-absent", "completion-intent", "complete", "scheduler-completed",
   "conclude"}

SagaInit ==
  /\ journal = "none" /\ cleanup = 0 /\ receipt = "none"
  /\ branch = "base" /\ worktree = TRUE /\ removal = 0
  /\ remote = "absent" /\ pull = "none" /\ issue = "eligible"
  /\ work = "unsettled"
  /\ pc = [c \in Controller |-> "idle"]

At(c, step) == pc[c] = step
Goto(c, step) == pc' = [pc EXCEPT ![c] = step]

(* Every read of the journal refuses a cleanup row beside any lifecycle    *)
(* but "merged".                                                           *)
Readable == cleanup > 0 => journal = "merged"

(* A lifecycle transition is a compare-and-set on the expected lifecycle.  *)
Transition(from, to) ==
  /\ Readable
  /\ journal = from
  /\ journal' = to
  /\ UNCHANGED <<cleanup, receipt>>

-----------------------------------------------------------------------------
(* Starting, resuming and recovering                                       *)

Start(c) ==
  /\ At(c, "idle")
  /\ Readable
  /\ Goto(c, CASE receipt # "none" -> "advance"
               [] receipt = "none" /\ journal = "merge-intent" -> "recover"
               [] OTHER -> "observe")
  /\ UNCHANGED <<book, local, hub, work>>

(* What DeliveryJournal.recover makes of the lifecycle it reads, given the *)
(* local and remote heads its caller tells it.                             *)
Recovered(from, localHead, remoteHead) ==
  CASE from = "commit-intent" /\ localHead = "head" -> "committed"
    [] from = "push-intent" /\ remoteHead = "head" -> "pushed"
    [] from = "push-intent" /\ localHead = "head" /\ remoteHead = "base" -> from
    [] OTHER -> "uncertain"

(* Resuming from a merge intent, and a merge whose outcome cannot be       *)
(* observed, both recover with the recorded heads.  The lifecycle is read  *)
(* again here: it may have moved on since the caller read it.              *)
Recover(c) ==
  /\ At(c, "recover")
  /\ Readable /\ journal # "none"
  /\ journal' = Recovered(journal, "head", "head")
  /\ Goto(c, "idle")
  /\ UNCHANGED <<cleanup, receipt, local, hub, work>>

(* The open issue with its Tier A label is observed once, at the start.    *)
Observe(c) ==
  /\ At(c, "observe")
  /\ issue = "eligible"
  /\ Goto(c, "git")
  /\ UNCHANGED <<book, local, hub, work>>

ApplyGit(c) ==
  /\ At(c, "git")
  /\ work = "unsettled"
  /\ Readable
  /\ journal = "commit-intent" => worktree /\ branch = "head"
  /\ \E resume \in
       {<<"none", "prepare">>, <<"prepared", "prepare">>,
        <<"commit-intent", "recover-commit">>, <<"committed", "push-intent">>,
        <<"push-intent", "look">>, <<"pushed", "pull">>} :
       journal = resume[1] /\ Goto(c, resume[2])
  /\ UNCHANGED <<book, local, hub, work>>

-----------------------------------------------------------------------------
(* Committing and pushing                                                  *)

Prepare(c) ==
  /\ At(c, "prepare")
  /\ worktree /\ branch = "base" /\ work = "unsettled"
  /\ Readable /\ journal # "uncertain"
  /\ journal' = IF journal = "none" THEN "prepared" ELSE journal
  /\ Goto(c, "commit-intent")
  /\ UNCHANGED <<cleanup, receipt, local, hub, work>>

CommitUnannounced(c) ==  \* mutant of CommitIntent: nothing is journalled
  At(c, "commit-intent") /\ Goto(c, "commit") /\ UNCHANGED <<book, local, hub, work>>

CommitIntent(c) ==
  /\ At(c, "commit-intent")
  /\ Transition("prepared", "commit-intent")
  /\ Goto(c, "commit")
  /\ UNCHANGED <<local, hub, work>>

(* update-ref moves the branch only from the recorded base.                *)
Commit(c) ==
  /\ At(c, "commit")
  /\ worktree /\ branch = "base"
  /\ branch' = "head"
  /\ Goto(c, "committed")
  /\ UNCHANGED <<book, worktree, removal, hub, work>>

Committed(c) ==
  /\ At(c, "committed")
  /\ Transition("commit-intent", "committed")
  /\ Goto(c, "push-intent")
  /\ UNCHANGED <<local, hub, work>>

RecoverCommit(c) ==
  /\ At(c, "recover-commit")
  /\ Readable
  /\ journal' = Recovered(journal, "head", "base")
  /\ Goto(c, IF journal' = "committed" THEN "push-intent" ELSE "idle")
  /\ UNCHANGED <<cleanup, receipt, local, hub, work>>

PushIntent(c) ==
  /\ At(c, "push-intent")
  /\ Transition("committed", "push-intent")
  /\ Goto(c, "look")
  /\ UNCHANGED <<local, hub, work>>

(* A branch that is already at the commit is a replay, one that is         *)
(* elsewhere is refused.                                                   *)
Look(c) ==
  /\ At(c, "look")
  /\ worktree
  /\ \/ remote = "head" /\ Goto(c, "pushed")
     \/ remote = "absent" /\ Goto(c, "push")
  /\ UNCHANGED <<book, local, hub, work>>

(* The push does not force, so it cannot move a branch that is elsewhere.  *)
Push(c) ==
  /\ At(c, "push")
  /\ worktree
  /\ remote # "foreign"
  /\ remote' = "head"
  /\ Goto(c, "pushed")
  /\ UNCHANGED <<book, local, pull, issue, work>>

Pushed(c) ==
  /\ At(c, "pushed")
  /\ Transition("push-intent", "pushed")
  /\ Goto(c, "pull")
  /\ UNCHANGED <<local, hub, work>>

-----------------------------------------------------------------------------
(* The pull request and its merge                                          *)

EnsurePull(c) ==
  /\ At(c, "pull")
  /\ remote # "absent" /\ pull \in {"none", "open"}
  /\ pull' = "open"
  /\ Goto(c, "ci")
  /\ UNCHANGED <<book, local, remote, issue, work>>

(* The pull request's head, base and content are compared with the         *)
(* recorded ones, and the checks of that head have passed.                 *)
ObserveCi(c) ==
  /\ At(c, "ci")
  /\ pull = "open" /\ remote = "head"
  /\ Goto(c, "merge-intent")
  /\ UNCHANGED <<book, local, hub, work>>

MergeIntent(c) ==
  /\ At(c, "merge-intent")
  /\ Transition("pushed", "merge-intent")
  /\ Goto(c, "merge")
  /\ UNCHANGED <<local, hub, work>>

(* What a merge of a branch leaves in the pull request: the host records   *)
(* the branch's own commit or a new merge commit.                          *)
MergeOf(head) ==
  IF head = "head" THEN {"merged", "merged-anew"} ELSE {"merged-foreign"}

MatchesAnyHead == remote # "absent"  \* mutant of MatchesHead: option dropped
MatchesHead == remote = "head"

(* --match-head-commit merges nothing but the expected commit.  The        *)
(* command may also fail, or fail to answer.                               *)
Merge(c) ==
  /\ At(c, "merge")
  /\ \/ /\ pull = "open" /\ MatchesHead
        /\ pull' \in MergeOf(remote)
        /\ issue' = "closed"
     \/ UNCHANGED <<pull, issue>>
  /\ Goto(c, "reconcile")
  /\ UNCHANGED <<book, local, remote, work>>

MergedExactly == pull = "merged"

(* Whatever the command answered, the pull request decides.                *)
Reconcile(c) ==
  /\ At(c, "reconcile")
  /\ \/ Goto(c, "recover")
     \/ Goto(c, IF MergedExactly THEN "merged" ELSE "rejected")
  /\ UNCHANGED <<book, local, hub, work>>

Merged(c) ==
  /\ At(c, "merged")
  /\ Readable
  /\ \/ /\ journal = "merge-intent"
        /\ journal' = "merged" /\ receipt' = "merged"
     \/ journal = "merged" /\ UNCHANGED <<journal, receipt>>
  /\ Goto(c, "idle")
  /\ UNCHANGED <<cleanup, local, hub, work>>

-----------------------------------------------------------------------------
(* Cleaning up and settling, one phase for each run of the command         *)

(* Phases 0 to 3 re-check the scheduler's authority for the work.          *)
Advance(c) ==
  /\ At(c, "advance")
  /\ Readable
  /\ IF receipt = "completed" THEN Goto(c, "idle") ELSE
       /\ cleanup <= 3 => work = "unsettled"
       /\ Goto(c, CASE cleanup = 0 -> "cleanup-intent"
                    [] cleanup = 1 -> "finish"
                    [] cleanup = 2 -> "delete-look"
                    [] cleanup = 3 -> "completion-intent"
                    [] cleanup = 4 -> "complete"
                    [] cleanup = 5 -> "conclude")
  /\ UNCHANGED <<book, local, hub, work>>

(* A proof is stored once, over the one before it; a later replay of the   *)
(* same proof is accepted and changes nothing.                             *)
StoreProof(phase) ==
  /\ journal = "merged" /\ receipt = "merged"
  /\ cleanup >= phase - 1
  /\ cleanup' = IF cleanup = phase - 1 THEN phase ELSE cleanup
  /\ UNCHANGED <<journal, receipt>>

CleanupIntent(c) ==
  /\ At(c, "cleanup-intent")
  /\ StoreProof(1)
  /\ Goto(c, "idle")
  /\ UNCHANGED <<local, hub, work>>

(* What finish_issue.sh finds must fit the replay evidence it left before. *)
FirstAttemptFits ==  \* mutant of ReplayFits: a removed worktree never fits
  removal < 2 /\ worktree /\ branch = "head"
ReplayFits ==
  CASE removal = 0 -> worktree /\ branch = "head"
    [] removal = 1 -> branch = "head"
    [] removal = 2 -> ~worktree

RemovedWorktreeIsEnough ==  \* mutant of Removal
  IF worktree THEN "mark-worktree" ELSE "finish-cleaned"
Removal == IF worktree THEN "mark-worktree" ELSE "mark-branch"

FinishLook(c) ==
  /\ At(c, "finish")
  /\ issue = "closed" /\ pull \in MergedPull
  /\ branch \in {"head", "gone"}
  /\ ReplayFits
  /\ Goto(c, Removal)
  /\ UNCHANGED <<book, local, hub, work>>

MarkWorktreeRemoval(c) ==
  /\ At(c, "mark-worktree")
  /\ removal \in {0, 1} /\ removal' = 1
  /\ Goto(c, "remove-worktree")
  /\ UNCHANGED <<book, branch, worktree, hub, work>>

RemoveWorktree(c) ==
  /\ At(c, "remove-worktree")
  /\ worktree /\ worktree' = FALSE
  /\ Goto(c, "mark-branch")
  /\ UNCHANGED <<book, branch, removal, hub, work>>

MarkBranchDeletion(c) ==
  /\ At(c, "mark-branch")
  /\ ~worktree
  /\ removal \in {1, 2} /\ removal' = 2
  /\ Goto(c, "remove-branch")
  /\ UNCHANGED <<book, branch, worktree, hub, work>>

RemoveBranch(c) ==
  /\ At(c, "remove-branch")
  /\ branch \in {"head", "gone"} /\ branch' = "gone"
  /\ Goto(c, "finish-cleaned")
  /\ UNCHANGED <<book, worktree, removal, hub, work>>

FinishCleaned(c) ==
  /\ At(c, "finish-cleaned")
  /\ StoreProof(2)
  /\ Goto(c, "idle")
  /\ UNCHANGED <<local, hub, work>>

(* Git runs in the worktree directory here as it did for the push.         *)
DeleteLook(c) ==
  /\ At(c, "delete-look")
  /\ worktree
  /\ \/ remote = "absent" /\ Goto(c, "remote-absent")
     \/ remote = "head" /\ Goto(c, "delete")
  /\ UNCHANGED <<book, local, hub, work>>

WithoutLease == TRUE  \* mutant of LeaseHolds: the option is dropped
LeaseHolds == remote # "foreign"

(* --force-with-lease deletes the branch only at the expected commit.      *)
Delete(c) ==
  /\ At(c, "delete")
  /\ worktree
  /\ LeaseHolds
  /\ remote' = "absent"
  /\ Goto(c, "remote-absent")
  /\ UNCHANGED <<book, local, pull, issue, work>>

RemoteAbsent(c) ==
  /\ At(c, "remote-absent")
  /\ StoreProof(3)
  /\ Goto(c, "idle")
  /\ UNCHANGED <<local, hub, work>>

(* The completion time is stored before the scheduler is told.             *)
CompletionIntent(c) ==
  /\ At(c, "completion-intent")
  /\ StoreProof(4)
  /\ Goto(c, "idle")
  /\ UNCHANGED <<local, hub, work>>

MayComplete == work = "delivered" \/ (work = "unsettled" /\ cleanup = 4)

Complete(c) ==
  /\ At(c, "complete")
  /\ journal = "merged" /\ receipt = "merged"
  /\ MayComplete
  /\ work' = "delivered"
  /\ Goto(c, "scheduler-completed")
  /\ UNCHANGED <<book, local, hub>>

SchedulerCompleted(c) ==
  /\ At(c, "scheduler-completed")
  /\ StoreProof(5)
  /\ Goto(c, "idle")
  /\ UNCHANGED <<local, hub, work>>

Conclude(c) ==
  /\ At(c, "conclude")
  /\ journal = "merged" /\ cleanup = 5
  /\ receipt' = "completed"
  /\ Goto(c, "idle")
  /\ UNCHANGED <<journal, cleanup, local, hub, work>>

-----------------------------------------------------------------------------
(* Everybody else                                                          *)

(* An error, a refusal, a timeout or a kill between any two steps.         *)
Stop(c) ==
  /\ pc[c] # "idle"
  /\ Goto(c, "idle")
  /\ UNCHANGED <<book, local, hub, work>>

(* The scheduler recovers the finished work of a dead owner.               *)
SchedulerMoves ==
  /\ work = "unsettled" /\ work' = "moved"
  /\ UNCHANGED <<book, local, hub, pc>>

(* A maintainer closes the issue or takes its label away.                  *)
Withdraw ==
  /\ issue = "eligible" /\ issue' = "withdrawn"
  /\ UNCHANGED <<book, local, remote, pull, work, pc>>

(* Somebody else pushes to the branch.                                     *)
ForeignPush ==
  /\ remote' = "foreign"
  /\ UNCHANGED <<book, local, pull, issue, work, pc>>

RestoreWorktree ==
  /\ Maintained /\ cleanup = 2 /\ ~worktree
  /\ worktree' = TRUE
  /\ UNCHANGED <<book, branch, removal, hub, work, pc>>

Deliver(c) ==
  \/ Start(c) \/ Recover(c) \/ Observe(c) \/ ApplyGit(c)
  \/ Prepare(c) \/ CommitIntent(c) \/ Commit(c) \/ Committed(c)
  \/ RecoverCommit(c) \/ PushIntent(c) \/ Look(c) \/ Push(c) \/ Pushed(c)
  \/ EnsurePull(c) \/ ObserveCi(c) \/ MergeIntent(c) \/ Merge(c)
  \/ Reconcile(c) \/ Merged(c)

CleanUp(c) ==
  \/ Advance(c) \/ CleanupIntent(c)
  \/ FinishLook(c) \/ MarkWorktreeRemoval(c) \/ RemoveWorktree(c)
  \/ MarkBranchDeletion(c) \/ RemoveBranch(c) \/ FinishCleaned(c)
  \/ DeleteLook(c) \/ Delete(c) \/ RemoteAbsent(c)
  \/ CompletionIntent(c) \/ Complete(c) \/ SchedulerCompleted(c) \/ Conclude(c)

Others == SchedulerMoves \/ Withdraw \/ ForeignPush \/ RestoreWorktree

SagaNext ==
  \/ \E c \in Controller : Deliver(c) \/ CleanUp(c) \/ Stop(c)
  \/ Others

SagaSpec == SagaInit /\ [][SagaNext]_sagaVars

-----------------------------------------------------------------------------
(* Properties                                                              *)

(* Every variable keeps its type.                                          *)
SagaTypeOK ==
  /\ journal \in Lifecycle \cup {"none"}
  /\ cleanup \in 0..5
  /\ receipt \in {"none", "merged", "completed"}
  /\ branch \in {"base", "head", "gone"}
  /\ worktree \in BOOLEAN
  /\ removal \in 0..2
  /\ remote \in {"absent", "head", "foreign"}
  /\ pull \in MergedPull \cup {"none", "open"}
  /\ issue \in {"eligible", "withdrawn", "closed"}
  /\ work \in {"unsettled", "moved", "delivered"}
  /\ pc \in [Controller -> Step \cup CleanupStep \cup {"idle"}]

(* A journal that has not yet promised an effect.                          *)
Before(intent) ==
  CASE intent = "commit-intent" -> {"none", "prepared"}
    [] intent = "push-intent" ->
         {"none", "prepared", "commit-intent", "committed"}
    [] intent = "merge-intent" ->
         {"none", "prepared", "commit-intent", "committed", "push-intent",
          "pushed"}

(* ADR-0032: the journal persists intent before each mutation, whichever   *)
(* controllers raced or died.  A commit, a push or a merge that the        *)
(* journal does not know could never be recovered by a later controller.   *)
IntentBeforeEffect ==
  /\ branch # "base" => journal \notin Before("commit-intent")
  /\ remote = "head" => journal \notin Before("push-intent")
  /\ pull # "none" => journal \notin Before("push-intent") \cup {"push-intent"}
  /\ pull \in MergedPull => journal \notin Before("merge-intent")

(* The stored receipt says "merged" only of a pull request that merged as  *)
(* the exact delivered commit, and "completed" only once the local copy is *)
(* removed and the scheduler has the completion.                           *)
ReceiptIsTruthful ==
  /\ receipt # "none" => pull = "merged"
  /\ receipt = "completed" => branch = "gone" /\ work = "delivered"

(* ADR-0032: journal and receipt tell the truth to the controller that     *)
(* comes next: no effect without its intent, no claim without its effect.  *)
JournalIsTruthful == IntentBeforeEffect /\ ReceiptIsTruthful

(* No commit but the one whose checks were observed is ever merged, though *)
(* somebody else may push to the branch between the check and the merge.   *)
MergesAreExact == pull # "merged-foreign"

(* The local copies of the proposal are removed only after it landed.      *)
LandedBeforeRemoval == (branch = "gone" \/ removal > 0) => pull = "merged"

(* Of a delivery nothing but the very commit that was checked lands, and   *)
(* its local copies outlive every step before that.                        *)
DeliveryInv == SagaTypeOK /\ MergesAreExact /\ LandedBeforeRemoval

(* Neither the push nor the deletion touches a branch that somebody else   *)
(* has moved, however stale the controller's observation of it is.         *)
ForeignWorkSurvives == [][remote = "foreign" => remote' = "foreign"]_sagaVars

(* Work that the scheduler has given to a recovery is never completed by   *)
(* the delivery.                                                           *)
MovedWorkIsLeftAlone == [][work = "moved" => work' = "moved"]_sagaVars

(* What others took over while a controller looked elsewhere, the branch   *)
(* or the assignment, stays theirs.                                        *)
OthersAreLeftAlone == ForeignWorkSurvives /\ MovedWorkIsLeftAlone

Stage ==
  CASE work = "delivered" -> "settled"
    [] work # "delivered" /\ pull = "none" -> "accepted"
    [] work # "delivered" /\ pull = "open" -> "proposed"
    [] OTHER -> "landed"

Order ==
  INSTANCE DeliveryOrder WITH
    stage <- Stage,
    known <- receipt,
    copy <- IF branch = "gone" THEN "dropped" ELSE "kept"

(* The controllers implement the order promised by DeliveryOrder.          *)
DeliversInOrder == Order!Spec

(* Interruptions end: from some time on a controller stops only where the  *)
(* code refuses to go on, and it is started again after it stopped.        *)
Advances(c) == Deliver(c) \/ CleanUp(c)

SagaFairness ==
  /\ \A c \in Controller :
       WF_sagaVars(Advances(c)) /\ WF_sagaVars(Stop(c))
  /\ <>[][\A c \in Controller :
           Stop(c) => Advances(c) \/ ~ENABLED Advances(c)]_sagaVars
  /\ WF_sagaVars(RestoreWorktree)

SagaLiveSpec == SagaSpec /\ SagaFairness

(* ADR-0032: a delivery whose cleanup has begun is completed by repeating  *)
(* the command, whatever steps fail, unless somebody else moved the branch *)
(* or the scheduler moved the work.                                        *)
CleanupEnds ==
  cleanup > 0 ~>
    receipt = "completed" \/ journal = "uncertain"
      \/ remote = "foreign" \/ work = "moved"

(* A delivery that stopped between its intent to push and the record of    *)
(* the push resumes without pushing twice.                                 *)
PushResumes ==
  journal = "push-intent" ~>
    journal # "push-intent" \/ issue # "eligible"
      \/ remote = "foreign" \/ work = "moved"

(* Repeating the command ends both a delivery and its cleanup, wherever    *)
(* earlier controllers stopped.                                            *)
InterruptionsEnd == CleanupEnds /\ PushResumes
=============================================================================
