------------------------ MODULE WorktreeOrchestration ------------------------
(***************************************************************************)
(* `factoryctl orchestrate --apply` (scripts/factory_orchestration_*.py):  *)
(* calls of several processes, for several requests about one issue and    *)
(* its worktree, each apply the exact proposal to the worktree and run the *)
(* gates on it.  A call may stop between any two steps: killed, or by an   *)
(* error nothing catches.  The journal is a compare-and-set on a request's *)
(* lifecycle; worktree, main checkout and scheduler authority are read     *)
(* without a lock and belong to others as well.  The planning mode, which  *)
(* changes nothing, is left out.                                           *)
(***************************************************************************)
EXTENDS Naturals

CONSTANTS
  Caller,    \* processes running the command
  Request,   \* requests about the one issue and worktree, by request id
  Gates      \* number of gate commands of the lane

ASSUME OrchestrationAssumption == Gates \in Nat \ {0}

VARIABLES
  lifecycle,  \* orchestration_lifecycle.lifecycle; "none" without a row
  worktree,   \* what the issue's worktree holds
  main,       \* the main checkout: at the request's base, or changed
  authority,  \* the scheduler's assignment and lease behind the requests
  call,       \* each caller's next step and what it has observed
  landed      \* how often each request's patch was applied (for LandsOnce)

world == <<worktree, main, authority>>
orchestrationVars == <<lifecycle, world, call, landed>>

Running == {"applying", "applied", "gating"}
Terminal == {"accepted", "failed", "cancelled"}
Lifecycle == {"none", "prepared", "uncertain"} \cup Running \cup Terminal

(* "unmarked" is the patch before its new files are marked intent-to-add,  *)
(* "mixed" the patch with somebody's edit to the same files.               *)
Content == {"absent", "clean", "unmarked", "patched", "mixed", "other"}
Checkout == {"base", "changed"}

Step ==
  {"idle", "observe", "prepare", "create", "uncreated", "created", "ready",
   "claim", "check", "apply", "mark", "bind", "unclear", "gave-up", "landed",
   "recheck", "gate", "gate-failed", "inspect", "accept"}

(* What a call holds in memory; `tested`, the contents its gates have run  *)
(* on, is history for GatedAsBound.                                        *)
Returned ==
  [step |-> "idle", request |-> "none", fresh |-> FALSE, main |-> "base",
   truth |-> "none", passed |-> 0, tested |-> {}]

OrchestrationInit ==
  /\ lifecycle = [r \in Request |-> "none"]
  /\ worktree \in {"absent", "clean"}
  /\ main = "base"
  /\ authority = "held"
  /\ call = [c \in Caller |-> Returned]
  /\ landed = [r \in Request |-> 0]

At(c, step) == call[c].step = step
Goto(c, step) == call' = [call EXCEPT ![c].step = step]
Return(c) == call' = [call EXCEPT ![c] = Returned]
Of(c) == call[c].request

-----------------------------------------------------------------------------
(* The journal                                                             *)

(* Mutant of MayMove: whoever holds the request may move it on.            *)
MayMoveAnyOpen(r, from) == lifecycle[r] \notin Terminal \cup {"none"}
MayMove(r, from) == lifecycle[r] = from

(* transition: a request that is no longer where this call left it raises. *)
Transition(c, from, to, next) ==
  IF MayMove(Of(c), from)
    THEN /\ lifecycle' = [lifecycle EXCEPT ![Of(c)] = to]
         /\ IF next = "idle" THEN Return(c) ELSE Goto(c, next)
    ELSE Return(c) /\ UNCHANGED lifecycle

(* Before most transitions: ensure_main_or_uncertain.                      *)
Close(c, from, to, next) ==
  IF main = call[c].main
    THEN Transition(c, from, to, next)
    ELSE Transition(c, from, "uncertain", "idle")

OccupiedByCertain(r) ==   \* mutant of Occupied: uncertain work is not counted
  \E q \in Request \ {r} : lifecycle[q] \in {"prepared"} \cup Running

Occupied(r) ==
  \E q \in Request \ {r} : lifecycle[q] \in {"prepared", "uncertain"} \cup Running

(* prepare: a new record, the caller's own prepared one, or a verdict on   *)
(* work that another call has left or is still doing.                      *)
Prepare(c) ==
  LET r == Of(c)
      Go == call' = [call EXCEPT ![c].fresh = FALSE,
                                 ![c].step = IF call[c].fresh THEN "create" ELSE "ready"]
  IN
  /\ At(c, "prepare")
  /\ \/ /\ lifecycle[r] = "none" /\ ~Occupied(r)
        /\ lifecycle' = [lifecycle EXCEPT ![r] = "prepared"]
        /\ Go
     \/ lifecycle[r] = "prepared" /\ Go /\ UNCHANGED lifecycle
     \/ /\ lifecycle[r] \in Running
        /\ lifecycle' = [lifecycle EXCEPT ![r] = "uncertain"]
        /\ Return(c)
     \/ /\ \/ lifecycle[r] = "none" /\ Occupied(r)
           \/ lifecycle[r] \in Terminal \cup {"uncertain"}
        /\ Return(c) /\ UNCHANGED lifecycle
  /\ UNCHANGED <<world, landed>>

-----------------------------------------------------------------------------
(* From the request to the worktree                                        *)

(* preflight; a finished or uncertain request ends the call at once.       *)
Preflight(c) ==
  /\ At(c, "idle")
  /\ authority = "held" /\ main = "base"
  /\ \E r \in Request :
       /\ lifecycle[r] \notin Terminal \cup {"uncertain"}
       /\ call' = [call EXCEPT ![c].step = "observe", ![c].request = r]
  /\ UNCHANGED <<lifecycle, world, landed>>

Observe(c) ==
  /\ At(c, "observe")
  /\ IF worktree \in {"absent", "clean"}
       THEN call' = [call EXCEPT ![c].step = "prepare", ![c].main = main,
                                 ![c].fresh = (worktree = "absent")]
       ELSE Return(c)
  /\ UNCHANGED <<lifecycle, world, landed>>

(* start_issue.sh refuses an existing worktree, and may stop half-way.     *)
Create(c) ==
  /\ At(c, "create")
  /\ \/ worktree = "absent" /\ worktree' = "clean" /\ Goto(c, "created")
     \/ worktree = "absent" /\ worktree' = "clean" /\ Goto(c, "uncreated")
     \/ UNCHANGED worktree /\ Goto(c, "uncreated")
  /\ UNCHANGED <<lifecycle, main, authority, landed>>

Created(c) ==
  /\ \/ At(c, "uncreated") /\ Transition(c, "prepared", "uncertain", "idle")
     \/ /\ At(c, "created")
        /\ IF worktree = "clean" /\ main = call[c].main
             THEN Goto(c, "ready") /\ UNCHANGED lifecycle
             ELSE Transition(c, "prepared", "uncertain", "idle")
  /\ UNCHANGED <<world, landed>>

(* Cancelled before anything happened, or authority is gone: the latter    *)
(* leaves the prepared record behind.                                      *)
Authorize(c) ==
  /\ At(c, "ready")
  /\ \/ Close(c, "prepared", "cancelled", "idle")
     \/ /\ IF authority = "held" THEN Goto(c, "claim") ELSE Return(c)
        /\ UNCHANGED lifecycle
  /\ UNCHANGED <<world, landed>>

Claim(c) ==
  /\ At(c, "claim")
  /\ Transition(c, "prepared", "applying", "check")
  /\ UNCHANGED <<world, landed>>

(* The last look before `git apply`: a worktree that is not exactly clean, *)
(* a patch that does not fit, or a cancellation ends the request.          *)
Check(c) ==
  /\ At(c, "check")
  /\ \/ worktree = "clean" /\ Goto(c, "apply") /\ UNCHANGED lifecycle
     \/ Close(c, "applying", "failed", "idle")
     \/ Close(c, "applying", "cancelled", "idle")
  /\ UNCHANGED <<world, landed>>

(* git apply writes all of a patch or refuses it; interrupted or timed out *)
(* it may have written anything.                                           *)
Apply(c) ==
  /\ At(c, "apply")
  /\ \/ /\ worktree \in {"clean", "other"}
        /\ worktree' = IF worktree = "clean" THEN "unmarked" ELSE "other"
        /\ landed' = [landed EXCEPT ![Of(c)] = @ + 1]
        /\ \E next \in {"mark", "unclear", "gave-up"} : Goto(c, next)
     \/ /\ worktree' = IF worktree = "clean" THEN "other" ELSE worktree
        /\ \E next \in {"unclear", "gave-up"} : Goto(c, next)
        /\ UNCHANGED landed
     \/ Goto(c, "gave-up") /\ UNCHANGED <<worktree, landed>>
  /\ UNCHANGED <<lifecycle, main, authority>>

Mark(c) ==
  /\ At(c, "mark")
  /\ \/ /\ worktree' = IF worktree = "unmarked" THEN "patched" ELSE worktree
        /\ Goto(c, "bind")
     \/ UNCHANGED worktree /\ \E next \in {"unclear", "gave-up"} : Goto(c, next)
  /\ UNCHANGED <<lifecycle, main, authority, landed>>

(* _patch_truth binds what the worktree holds now, provided the paths are  *)
(* those of the proposal.                                                  *)
Bind(c) ==
  /\ At(c, "bind")
  /\ IF worktree \in {"patched", "mixed"}
       THEN call' = [call EXCEPT ![c].step = "landed", ![c].truth = worktree]
       ELSE Goto(c, "gave-up")
  /\ UNCHANGED <<lifecycle, world, landed>>

(* Only an interruption leaves the request uncertain; every other failure  *)
(* of the Git commands, a time limit included, fails it.                   *)
NotApplied(c) ==
  /\ \/ At(c, "unclear") /\ Transition(c, "applying", "uncertain", "idle")
     \/ At(c, "gave-up") /\ Close(c, "applying", "failed", "idle")
  /\ UNCHANGED <<world, landed>>

Applied(c) ==
  /\ At(c, "landed")
  /\ Close(c, "applying", "applied", "recheck")
  /\ UNCHANGED <<world, landed>>

-----------------------------------------------------------------------------
(* The gates                                                               *)

RaiseOnRecheck(c) ==   \* mutant of Recheck: the lapse is only reported
  /\ At(c, "recheck")
  /\ IF authority = "held"
       THEN Transition(c, "applied", "gating", "gate")
       ELSE Return(c) /\ UNCHANGED lifecycle
  /\ UNCHANGED <<world, landed>>

Recheck(c) ==
  /\ At(c, "recheck")
  /\ IF authority = "held"
       THEN Transition(c, "applied", "gating", "gate")
       ELSE Transition(c, "applied", "uncertain", "idle")
  /\ UNCHANGED <<world, landed>>

(* A gate runs scripts of the worktree, which may change what is in it.    *)
Gate(c) ==
  /\ At(c, "gate")
  /\ worktree' \in {worktree} \cup (IF worktree = "absent" THEN {} ELSE {"other"})
  /\ \E next \in {"inspect", "gate-failed"} :
       call' = [call EXCEPT ![c].step = next, ![c].tested = @ \cup {worktree}]
  /\ UNCHANGED <<lifecycle, main, authority, landed>>

GateFailed(c) ==
  /\ \/ At(c, "gate") /\ Close(c, "gating", "cancelled", "idle")
     \/ /\ At(c, "gate-failed")
        /\ \E to \in {"failed", "cancelled"} : Close(c, "gating", to, "idle")
  /\ UNCHANGED <<world, landed>>

IntactByAuthority(c) == authority = "held"   \* mutant of Intact

(* authority_and_integrity *)
Intact(c) == authority = "held" /\ worktree = call[c].truth

Inspect(c) ==
  /\ At(c, "inspect")
  /\ IF Intact(c) /\ main = call[c].main
       THEN /\ call' = [call EXCEPT ![c].passed = @ + 1,
                          ![c].step = IF call[c].passed + 1 = Gates THEN "accept" ELSE "gate"]
            /\ UNCHANGED lifecycle
       ELSE Transition(c, "gating", "uncertain", "idle")
  /\ UNCHANGED <<world, landed>>

Accept(c) ==
  /\ At(c, "accept")
  /\ IF Intact(c)
       THEN Close(c, "gating", "accepted", "idle")
       ELSE Transition(c, "gating", "uncertain", "idle")
  /\ UNCHANGED <<world, landed>>

-----------------------------------------------------------------------------
(* Everybody else                                                          *)

Stops(c) ==
  /\ ~At(c, "idle")
  /\ Return(c)
  /\ UNCHANGED <<lifecycle, world, landed>>

(* Somebody edits the worktree, puts it back to its commit, or removes it. *)
EditWorktree ==
  /\ worktree # "absent"
  /\ worktree' \in {"clean", "absent", "other"}
       \cup (IF worktree \in {"unmarked", "patched"} THEN {"mixed"} ELSE {})
  /\ UNCHANGED <<lifecycle, main, authority, call, landed>>

(* The lease runs out, its owner renews it, or the assignment ends.        *)
Lapse ==
  /\ \/ authority = "held" /\ authority' \in {"lapsed", "ended"}
     \/ authority = "lapsed" /\ authority' \in {"held", "ended"}
  /\ UNCHANGED <<lifecycle, worktree, main, call, landed>>

EditMain ==
  /\ main' \in Checkout \ {main}
  /\ UNCHANGED <<lifecycle, worktree, authority, call, landed>>

CallStep(c) ==
  \/ Preflight(c) \/ Observe(c) \/ Prepare(c) \/ Create(c) \/ Created(c)
  \/ Authorize(c) \/ Claim(c) \/ Check(c) \/ Apply(c) \/ Mark(c) \/ Bind(c)
  \/ NotApplied(c) \/ Applied(c) \/ Recheck(c) \/ Gate(c) \/ GateFailed(c)
  \/ Inspect(c) \/ Accept(c)

OrchestrationNext ==
  \/ \E c \in Caller : CallStep(c) \/ Stops(c)
  \/ EditWorktree \/ Lapse \/ EditMain

OrchestrationSpec == OrchestrationInit /\ [][OrchestrationNext]_orchestrationVars

-----------------------------------------------------------------------------
(* Every record keeps to the schema of its table and calls to their steps. *)
OrchestrationTypeOK ==
  /\ lifecycle \in [Request -> Lifecycle]
  /\ worktree \in Content
  /\ main \in Checkout
  /\ authority \in {"held", "lapsed", "ended"}
  /\ call \in [Caller ->
       [step : Step, request : Request \cup {"none"}, fresh : BOOLEAN, main : Checkout,
        truth : {"none", "patched", "mixed"}, passed : 0 .. Gates,
        tested : SUBSET Content]]
  /\ landed \in [Request -> Nat]

(* No two calls are ever between their intent and the last Git command on  *)
(* the one worktree, although a call may outlive its own record: a second  *)
(* call declares the first one's work uncertain while it still runs.       *)
OneWriter ==
  \A c, d \in Caller :
    {call[c].step, call[d].step} \subseteq {"check", "apply", "mark", "bind"} => c = d

(* A patch lands at most once per request, however many calls start,       *)
(* replay or resume it and however often the worktree is cleaned.          *)
LandsOnce == \A r \in Request : landed[r] <= 1

(* The journal tells of every patch that may be in the worktree: a call    *)
(* that dies right after `git apply` has left its intent.                  *)
LandedIsRecorded ==
  \A r \in Request : landed[r] > 0 => lifecycle[r] \notin {"none", "prepared"}

(* Calls that race, replay or die leave one writer of the worktree, one    *)
(* patch per request and a record of it.                                   *)
OrchestrationInv ==
  OrchestrationTypeOK /\ OneWriter /\ LandsOnce /\ LandedIsRecorded

(* A request is accepted only by a call whose gates all ran on exactly the *)
(* content the receipt binds, whoever edited the worktree meanwhile.       *)
GatedAsBound ==
  [][\A r \in Request : lifecycle[r] # "accepted" /\ lifecycle'[r] = "accepted"
       => \E c \in Caller :
            /\ Of(c) = r
            /\ call[c].passed = Gates
            /\ call[c].tested = {call[c].truth}]_orchestrationVars

(* A finished or uncertain record is final: the call whose work it was     *)
(* cannot write over the verdict of another one.                           *)
VerdictsAreFinal ==
  [][\A r \in Request : lifecycle[r] \in Terminal \cup {"uncertain"}
       => lifecycle'[r] = lifecycle[r]]_orchestrationVars

(* A call that ends by itself, after the intent, leaves no record that     *)
(* looks like work in progress.                                            *)
CallsSettleTheirRecord ==
  [][\A c \in Caller :
       /\ CallStep(c)
       /\ call[c].step \in
            {"check", "unclear", "gave-up", "landed", "recheck", "gate",
             "gate-failed", "inspect", "accept"}
       /\ call'[c].step = "idle"
       => lifecycle'[Of(c)] \notin Running]_orchestrationVars
=============================================================================
