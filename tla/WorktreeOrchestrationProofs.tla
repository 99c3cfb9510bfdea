---------------------- MODULE WorktreeOrchestrationProofs ----------------------
(***************************************************************************)
(* Proofs about WorktreeOrchestration, for any callers, requests and       *)
(* number of gates.  The idea: a request is claimed once, by the one call  *)
(* that finds it prepared, and while it is claimed no other request gets   *)
(* past its preparation; so one call at most is past its claim, and what   *)
(* it has bound can be lost by others' edits but not be brought back.      *)
(***************************************************************************)
EXTENDS WorktreeOrchestration, TLAPS

Writing == {"check", "apply", "mark", "bind"}
Applying == Writing \cup {"unclear", "gave-up", "landed"}
Testing == {"gate", "gate-failed", "inspect", "accept"}
Claimed == Applying \cup {"recheck"} \cup Testing
Bound == {"landed", "recheck"} \cup Testing
Open == {"prepared", "uncertain"} \cup Running

Call ==
  [step : Step, request : Request \cup {"none"}, fresh : BOOLEAN, main : Checkout,
   truth : {"none", "patched", "mixed"}, passed : 0 .. Gates, tested : SUBSET Content]

(* The record of a claimed request is where its call left it, or somebody  *)
(* has declared it uncertain.                                              *)
RecordsAgree ==
  \A c \in Caller :
    /\ call[c].step # "idle" => Of(c) \in Request
    /\ call[c].step \in Applying => lifecycle[Of(c)] \in {"applying", "uncertain"}
    /\ call[c].step = "recheck" => lifecycle[Of(c)] \in {"applied", "uncertain"}
    /\ call[c].step \in Testing => lifecycle[Of(c)] \in {"gating", "uncertain"}

OneOpen ==
  \A r, q \in Request : lifecycle[r] \in Open /\ lifecycle[q] \in Open => r = q

OneClaimant ==
  \A c, d \in Caller : call[c].step \in Claimed /\ call[d].step \in Claimed => c = d

LandingsAreRecorded ==
  /\ LandsOnce
  /\ LandedIsRecorded
  /\ \A c \in Caller : call[c].step \in {"check", "apply"} => landed[Of(c)] = 0

(* Content that was bound and lost does not come back: nobody else may     *)
(* write a patch, so "mixed" is never made of a patch again.  What the     *)
(* gates saw is the bound content as long as the worktree still is.        *)
TestsAreBound ==
  \A c \in Caller :
    /\ call[c].step \notin Testing => call[c].passed = 0 /\ call[c].tested = {}
    /\ call[c].step \in {"gate", "inspect"} => call[c].passed < Gates
    /\ call[c].step = "inspect" \/ call[c].passed > 0 => call[c].tested # {}
    /\ call[c].step = "accept" => call[c].passed = Gates
    /\ call[c].step \in Bound =>
         /\ call[c].truth # "none"
         /\ call[c].truth = "mixed" => worktree \notin {"patched", "unmarked"}
         /\ worktree = call[c].truth => call[c].tested \subseteq {call[c].truth}

OrchestrationIInv ==
  /\ OrchestrationTypeOK
  /\ RecordsAgree
  /\ OneOpen
  /\ OneClaimant
  /\ LandingsAreRecorded
  /\ TestsAreBound
-----------------------------------------------------------------------------
(* How a call changes                                                      *)

Others(c) == \A d \in Caller \ {c} : call'[d] = call[d]

Moved(c, step) ==
  /\ call' \in [Caller -> Call] /\ Others(c)
  /\ call'[c].step = step
  /\ call'[c].request = call[c].request /\ call'[c].main = call[c].main
  /\ call'[c].truth = call[c].truth /\ call'[c].passed = call[c].passed
  /\ call'[c].tested = call[c].tested

Gone(c) ==
  /\ call' \in [Caller -> Call] /\ Others(c)
  /\ call'[c].step = "idle" /\ call'[c].passed = 0 /\ call'[c].tested = {}

(* A call moves on alone.                                                  *)
LEMMA GotoMoves ==
  ASSUME call \in [Caller -> Call], NEW c \in Caller, NEW step \in Step, Goto(c, step)
  PROVE  Moved(c, step)
  BY DEF Goto, Moved, Others, Call

(* A call that returns holds nothing any more.                             *)
LEMMA ReturnGoes ==
  ASSUME call \in [Caller -> Call], NEW c \in Caller, Return(c)
  PROVE  Gone(c)
<1>1. Returned \in Call
  BY OrchestrationAssumption DEF Returned, Call, Step, Checkout
<1> QED
  BY <1>1 DEF Return, Gone, Others, Returned

(* A gate tests the content of the worktree as it stands, and changes no   *)
(* record.                                                                 *)
LEMMA GateTests ==
  ASSUME OrchestrationTypeOK, NEW c \in Caller, Gate(c)
  PROVE  /\ call' \in [Caller -> Call] /\ Others(c)
         /\ call'[c].step \in {"inspect", "gate-failed"}
         /\ call'[c].tested = call[c].tested \cup {worktree}
         /\ call'[c].request = call[c].request /\ call'[c].main = call[c].main
         /\ call'[c].truth = call[c].truth /\ call'[c].passed = call[c].passed
<1>1. call \in [Caller -> Call] /\ worktree \in Content
  BY DEF OrchestrationTypeOK, Call
<1>2. PICK next \in {"inspect", "gate-failed"} :
        call' = [call EXCEPT ![c].step = next, ![c].tested = @ \cup {worktree}]
  BY DEF Gate
<1>3. call[c] \in Call /\ call[c].tested \cup {worktree} \in SUBSET Content
  BY <1>1 DEF Call
<1>4. [call[c] EXCEPT !.step = next, !.tested = @ \cup {worktree}] \in Call
  BY <1>3 DEF Call, Step
<1> QED
  BY <1>1, <1>2, <1>3, <1>4 DEF Others, Call

(* A transition that the journal accepts, or one that it refuses.          *)
LEMMA TransitionCases ==
  ASSUME call \in [Caller -> Call], NEW c \in Caller, NEW from, NEW to,
         NEW step \in Step, Transition(c, from, to, step)
  PROVE  \/ /\ lifecycle[Of(c)] = from
            /\ lifecycle' = [lifecycle EXCEPT ![Of(c)] = to]
            /\ Gone(c) \/ Moved(c, step)
            /\ step = "idle" => Gone(c)
            /\ step # "idle" => Moved(c, step)
         \/ lifecycle[Of(c)] # from /\ UNCHANGED lifecycle /\ Gone(c)
  BY GotoMoves, ReturnGoes DEF Transition, MayMove

(* Closing a record gives it the verdict or, where that is refused,        *)
(* leaves it uncertain.                                                    *)
LEMMA CloseCases ==
  ASSUME call \in [Caller -> Call], NEW c \in Caller, NEW from, NEW to,
         NEW step \in Step, Close(c, from, to, step)
  PROVE  \/ Transition(c, from, to, step)
         \/ Transition(c, from, "uncertain", "idle")
  BY DEF Close

-----------------------------------------------------------------------------
(* The verdicts of others                                                  *)

(* A step of a call changes at most its own request's record, and only     *)
(* along the edges of the lifecycle; past its claim a record is moved by   *)
(* its claimant or declared uncertain.                                     *)
LEMMA LifecycleStep ==
  ASSUME OrchestrationIInv, NEW c \in Caller, CallStep(c)
  PROVE  /\ Others(c) /\ call' \in [Caller -> Call]
         /\ \/ UNCHANGED lifecycle
            \/ /\ Of(c) \in Request /\ lifecycle[Of(c)] \notin Terminal \cup {"uncertain"}
               /\ \E to \in Lifecycle :
                    /\ lifecycle' = [lifecycle EXCEPT ![Of(c)] = to]
                    /\ \/ lifecycle[Of(c)] = "none" /\ ~Occupied(Of(c)) /\ to = "prepared"
                       \/ lifecycle[Of(c)] = "prepared" /\ to \in {"uncertain", "cancelled"}
                       \/ call[c].step = "claim" /\ lifecycle[Of(c)] = "prepared" /\ to = "applying"
                       \/ lifecycle[Of(c)] \in Running /\ to = "uncertain"
                       \/ /\ call[c].step \in Claimed /\ lifecycle[Of(c)] \in Running
                          /\ to \in Lifecycle \ {"none", "prepared"}
<1> USE DEF OrchestrationIInv, OrchestrationTypeOK, Lifecycle, Running, Terminal
<1>t. call \in [Caller -> Call]
  BY DEF Call
<1>r. call[c].step # "idle" => Of(c) \in Request
  BY DEF RecordsAgree
<1>1. CASE Preflight(c) \/ Observe(c)
  BY <1>1, <1>t, ReturnGoes DEF Preflight, Observe, Gone, Others, Call, Step
<1>2. CASE Prepare(c)
  BY <1>2, <1>t, <1>r, ReturnGoes DEF Prepare, At, Gone, Others, Call, Step
<1>3. CASE Create(c)
  BY <1>3, <1>t, GotoMoves DEF Create, Moved, Step
<1>4. CASE Created(c)
  BY <1>4, <1>t, <1>r, TransitionCases, GotoMoves DEF Created, At, Moved, Gone, Step
<1>5. CASE Authorize(c) \/ Claim(c)
  BY <1>5, <1>t, <1>r, TransitionCases, CloseCases, GotoMoves, ReturnGoes
  DEF Authorize, Claim, At, Moved, Gone, Step
<1>6. CASE Check(c)
  BY <1>6, <1>t, <1>r, TransitionCases, CloseCases, GotoMoves
  DEF Check, At, Moved, Gone, Step, Claimed, Applying, Writing
<1>7. CASE Apply(c) \/ Mark(c)
  BY <1>7, <1>t, GotoMoves DEF Apply, Mark, Moved, Step
<1>8. CASE Bind(c)
  BY <1>8, <1>t, GotoMoves DEF Bind, Moved, Step, Others, Call
<1>9. CASE NotApplied(c) \/ Applied(c)
  BY <1>9, <1>t, <1>r, TransitionCases, CloseCases
  DEF NotApplied, Applied, At, Moved, Gone, Step, Claimed, Applying
<1>10. CASE Recheck(c)
  BY <1>10, <1>t, <1>r, TransitionCases DEF Recheck, At, Moved, Gone, Step, Claimed
<1>11. CASE Gate(c)
  BY <1>11, GateTests DEF Gate
<1>12. CASE GateFailed(c) \/ Accept(c)
  BY <1>12, <1>t, <1>r, TransitionCases, CloseCases
  DEF GateFailed, Accept, At, Moved, Gone, Step, Claimed, Testing
<1>13. CASE Inspect(c)
  BY <1>13, <1>t, <1>r, TransitionCases, OrchestrationAssumption
  DEF Inspect, TestsAreBound, At, Others, Gone, Call, Step, Claimed, Testing
<1> QED
  BY <1>1, <1>2, <1>3, <1>4, <1>5, <1>6, <1>7, <1>8, <1>9, <1>10, <1>11, <1>12, <1>13
  DEF CallStep

(* The same for steps of everybody else.                                   *)
LEMMA OthersLeaveCalls ==
  ASSUME OrchestrationIInv, EditWorktree \/ Lapse \/ EditMain \/ UNCHANGED orchestrationVars
  PROVE  UNCHANGED <<lifecycle, call, landed>>
  BY DEF EditWorktree, Lapse, EditMain, orchestrationVars

(* A finished or uncertain record is final, whatever its call still does.  *)
LEMMA VerdictStep ==
  ASSUME OrchestrationIInv, NEW c \in Caller, CallStep(c), NEW r \in Request,
         lifecycle[r] \in Terminal \cup {"uncertain"}
  PROVE  lifecycle'[r] = lifecycle[r]
  BY LifecycleStep DEF OrchestrationIInv, OrchestrationTypeOK

-----------------------------------------------------------------------------
(* One open request, one claimant                                          *)

(* A step of a call leaves at most one request open.                       *)
LEMMA OneOpenStep ==
  ASSUME OrchestrationIInv, NEW c \in Caller, CallStep(c)
  PROVE  OneOpen'
<1>1. ASSUME NEW r \in Request, lifecycle'[r] \in Open, lifecycle[r] \notin Open
      PROVE  /\ \A q \in Request \ {r} : lifecycle[q] \notin Open /\ lifecycle'[q] = lifecycle[q]
  BY <1>1, LifecycleStep
  DEF OrchestrationIInv, OrchestrationTypeOK, Lifecycle, Open, Occupied, Running, Terminal
<1> QED
  BY <1>1 DEF OneOpen, OrchestrationIInv

(* Two calls past their claim are one: their requests are open.            *)
LEMMA ClaimedIsOpen ==
  ASSUME OrchestrationIInv, NEW c \in Caller, call[c].step \in Claimed
  PROVE  /\ Of(c) \in Request
         /\ lifecycle[Of(c)] \in {"applying", "applied", "gating", "uncertain"}
         /\ lifecycle[Of(c)] \in Open
  BY DEF OrchestrationIInv, RecordsAgree, Claimed, Applying, Writing, Testing, Open, Running

(* The record of another claimed call stays, or is declared uncertain.     *)
LEMMA OthersRecordStays ==
  ASSUME OrchestrationIInv, NEW c \in Caller, CallStep(c),
         NEW d \in Caller \ {c}, call[d].step \in Claimed
  PROVE  lifecycle'[Of(d)] \in {lifecycle[Of(d)], "uncertain"}
<1>1. Of(d) \in Request /\ lifecycle[Of(d)] \in Running \cup {"uncertain"}
  BY ClaimedIsOpen DEF Running
<1>2. call[c].step \notin Claimed
  BY DEF OrchestrationIInv, OneClaimant
<1> QED
  BY <1>1, <1>2, LifecycleStep DEF OrchestrationIInv, OrchestrationTypeOK, Running

(* Where a call stands after a step of its own.                            *)
LEMMA OwnRecord ==
  ASSUME OrchestrationIInv, NEW c \in Caller, CallStep(c)
  PROVE  /\ call'[c].step # "idle" => call'[c].request \in Request
         /\ call'[c].step \in Applying =>
              lifecycle'[call'[c].request] \in {"applying", "uncertain"}
         /\ call'[c].step = "recheck" =>
              lifecycle'[call'[c].request] \in {"applied", "uncertain"}
         /\ call'[c].step \in Testing =>
              lifecycle'[call'[c].request] \in {"gating", "uncertain"}
         /\ call[c].step \notin Claimed /\ call'[c].step \in Claimed =>
              /\ call[c].step = "claim" /\ lifecycle[Of(c)] = "prepared"
              /\ call'[c].step = "check" /\ call'[c].request = Of(c)
         /\ call'[c].step = "idle" \/ call[c].step = "idle" \/ call'[c].request = Of(c)
<1> USE DEF OrchestrationIInv, OrchestrationTypeOK, RecordsAgree
<1>t. call \in [Caller -> Call] /\ (call[c].step # "idle" => Of(c) \in Request)
  BY DEF Call
<1>1. CASE Preflight(c) \/ Observe(c)
  BY <1>1, <1>t, ReturnGoes
  DEF Preflight, Observe, At, Gone, Call, Claimed, Applying, Writing, Testing, Of
<1>2. CASE Prepare(c)
  BY <1>2, <1>t, ReturnGoes
  DEF Prepare, At, Gone, Call, Claimed, Applying, Writing, Testing, Of
<1>3. CASE Create(c) \/ Created(c)
  BY <1>3, <1>t, TransitionCases, GotoMoves
  DEF Create, Created, At, Moved, Gone, Step, Claimed, Applying, Writing, Testing, Of
<1>4. CASE Authorize(c) \/ Claim(c)
  BY <1>4, <1>t, TransitionCases, CloseCases, GotoMoves, ReturnGoes
  DEF Authorize, Claim, At, Moved, Gone, Step, Claimed, Applying, Writing, Testing, Of
<1>5. CASE Check(c)
  BY <1>5, <1>t, TransitionCases, CloseCases, GotoMoves
  DEF Check, At, Moved, Gone, Step, Claimed, Applying, Writing, Testing, Of
<1>6. CASE Apply(c) \/ Mark(c)
  BY <1>6, <1>t, GotoMoves
  DEF Apply, Mark, At, Moved, Step, Claimed, Applying, Writing, Testing, Of
<1>7. CASE Bind(c)
  BY <1>7, <1>t, GotoMoves
  DEF Bind, At, Moved, Step, Call, Claimed, Applying, Writing, Testing, Of
<1>8. CASE NotApplied(c) \/ Applied(c)
  BY <1>8, <1>t, TransitionCases, CloseCases
  DEF NotApplied, Applied, At, Moved, Gone, Step, Claimed, Applying, Writing, Testing, Of
<1>9. CASE Recheck(c)
  BY <1>9, <1>t, TransitionCases
  DEF Recheck, At, Moved, Gone, Step, Claimed, Applying, Writing, Testing, Of
<1>10. CASE Gate(c)
  BY <1>10, <1>t, GateTests DEF Gate, At, Claimed, Applying, Writing, Testing, Of
<1>11. CASE GateFailed(c) \/ Accept(c)
  BY <1>11, <1>t, TransitionCases, CloseCases
  DEF GateFailed, Accept, At, Moved, Gone, Step, Claimed, Applying, Writing, Testing, Of
<1>12. CASE Inspect(c)
  BY <1>12, <1>t, TransitionCases
  DEF Inspect, At, Gone, Call, Step, Claimed, Applying, Writing, Testing, Of
<1> QED
  BY <1>1, <1>2, <1>3, <1>4, <1>5, <1>6, <1>7, <1>8, <1>9, <1>10, <1>11, <1>12
  DEF CallStep

(* A step of a call leaves its record in agreement with how far it is.     *)
LEMMA RecordsStep ==
  ASSUME OrchestrationIInv, NEW c \in Caller, CallStep(c)
  PROVE  RecordsAgree'
<1>1. ASSUME NEW d \in Caller \ {c}
      PROVE  /\ call'[d] = call[d]
             /\ call[d].step \in Claimed =>
                  lifecycle'[Of(d)] \in {lifecycle[Of(d)], "uncertain"}
  BY LifecycleStep, OthersRecordStays DEF Others
<1> QED
  BY <1>1, OwnRecord
  DEF RecordsAgree, OrchestrationIInv, Claimed, Of

(* A step of a call leaves at most one call past its claim.                *)
LEMMA OneClaimantStep ==
  ASSUME OrchestrationIInv, NEW c \in Caller, CallStep(c)
  PROVE  OneClaimant'
<1>1. \A d \in Caller \ {c} : call'[d] = call[d]
  BY LifecycleStep DEF Others
<1>2. ASSUME NEW d \in Caller \ {c}, call[d].step \in Claimed
      PROVE  call'[c].step \notin Claimed
  <2>1. call[c].step \notin Claimed
    BY <1>2 DEF OrchestrationIInv, OneClaimant
  <2>2. SUFFICES ASSUME call'[c].step \in Claimed PROVE FALSE
    OBVIOUS
  <2>3. call[c].step = "claim" /\ lifecycle[Of(c)] = "prepared" /\ Of(c) \in Request
    BY <2>1, <2>2, OwnRecord DEF OrchestrationIInv, RecordsAgree
  <2> QED
    BY <1>2, <2>3, ClaimedIsOpen DEF OrchestrationIInv, OneOpen, Open
<1> QED
  BY <1>1, <1>2 DEF OneClaimant, OrchestrationIInv

-----------------------------------------------------------------------------
(* One patch per request                                                   *)

(* A patch lands only in `git apply`, and its request is the caller's.     *)
LEMMA LandedStep ==
  ASSUME OrchestrationIInv, NEW c \in Caller, CallStep(c)
  PROVE  /\ \/ UNCHANGED landed
            \/ /\ call[c].step = "apply" /\ landed' = [landed EXCEPT ![Of(c)] = @ + 1]
               /\ call'[c].step \in {"mark", "unclear", "gave-up"}
         /\ call'[c].step = "check" => call[c].step = "claim"
         /\ call'[c].step = "apply" => call[c].step = "check" /\ UNCHANGED lifecycle
<1>t. call \in [Caller -> Call]
  BY DEF OrchestrationIInv, OrchestrationTypeOK, Call
<1>1. CASE Apply(c) \/ Mark(c)
  BY <1>1, <1>t, GotoMoves DEF Apply, Mark, At, Moved, Step
<1>2. CASE Preflight(c) \/ Observe(c) \/ Prepare(c) \/ Bind(c)
  BY <1>2, <1>t, GotoMoves, ReturnGoes
  DEF Preflight, Observe, Prepare, Bind, Moved, Gone, Step, Call
<1>3. CASE Create(c) \/ Created(c) \/ Authorize(c) \/ Claim(c) \/ Check(c)
  BY <1>3, <1>t, TransitionCases, CloseCases, GotoMoves, ReturnGoes
  DEF Create, Created, Authorize, Claim, Check, At, Moved, Gone, Step
<1>4. CASE NotApplied(c) \/ Applied(c) \/ Recheck(c) \/ GateFailed(c) \/ Accept(c)
  BY <1>4, <1>t, TransitionCases, CloseCases
  DEF NotApplied, Applied, Recheck, GateFailed, Accept, Moved, Gone, Step
<1>5. CASE Gate(c)
  BY <1>5, GateTests DEF Gate, OrchestrationIInv
<1>6. CASE Inspect(c)
  BY <1>6, <1>t, TransitionCases DEF Inspect, Gone, Step, Call
<1> QED
  BY <1>1, <1>2, <1>3, <1>4, <1>5, <1>6 DEF CallStep

(* A step of a call lands a patch only under its record, and once.         *)
LEMMA LandingsStep ==
  ASSUME OrchestrationIInv, NEW c \in Caller, CallStep(c)
  PROVE  LandingsAreRecorded'
<1> USE DEF OrchestrationIInv, OrchestrationTypeOK, LandingsAreRecorded, LandsOnce, LandedIsRecorded
<1>c. /\ \A d \in Caller \ {c} : call'[d] = call[d]
      /\ \A r \in Request : lifecycle[r] \notin {"none", "prepared"} =>
           lifecycle'[r] \notin {"none", "prepared"}
  BY LifecycleStep DEF Others, Running
<1>1. CASE UNCHANGED landed
  <2>1. call'[c].step \in {"check", "apply"} => landed[call'[c].request] = 0
    <3>1. CASE call'[c].step = "check"
      BY <3>1, LandedStep, OwnRecord DEF Claimed, Applying, Writing, Testing, RecordsAgree, Of
    <3>2. CASE call'[c].step = "apply"
      BY <3>2, LandedStep, OwnRecord DEF Of
    <3> QED
      BY <3>1, <3>2
  <2> QED
    BY <1>1, <1>c, <2>1 DEF Of
<1>2. CASE call[c].step = "apply" /\ landed' = [landed EXCEPT ![Of(c)] = @ + 1]
           /\ call'[c].step \in {"mark", "unclear", "gave-up"}
  <2>1. /\ Of(c) \in Request /\ landed[Of(c)] = 0
        /\ lifecycle[Of(c)] \notin {"none", "prepared"}
    BY <1>2, ClaimedIsOpen DEF Claimed, Applying, Writing
  <2>2. \A d \in Caller \ {c} : call[d].step \notin {"check", "apply"}
    BY <1>2 DEF OneClaimant, Claimed, Applying, Writing
  <2> QED
    BY <1>2, <1>c, <2>1, <2>2 DEF Of
<1> QED
  BY <1>1, <1>2, LandedStep

-----------------------------------------------------------------------------
(* Gates on what is bound                                                  *)

(* Nobody but a writer makes a patch of the worktree, and an edit turns a  *)
(* patch into a mixture but nothing into a patch.                          *)
LEMMA WorktreeStep ==
  ASSUME OrchestrationIInv,
         \/ \E c \in Caller : CallStep(c) /\ call[c].step \notin Writing
         \/ EditWorktree \/ Lapse \/ EditMain \/ UNCHANGED orchestrationVars
  PROVE  \/ worktree' \in {worktree, "clean", "absent", "other"}
         \/ worktree \in {"unmarked", "patched"} /\ worktree' = "mixed"
<1>1. ASSUME NEW c \in Caller, CallStep(c), call[c].step \notin Writing
      PROVE  worktree' \in {worktree, "clean", "absent", "other"}
  BY <1>1
  DEF CallStep, Preflight, Observe, Prepare, Create, Created, Authorize, Claim, Check,
      Apply, Mark, Bind, NotApplied, Applied, Recheck, Gate, GateFailed, Inspect, Accept,
      Writing, At, world
<1>2. CASE EditWorktree \/ Lapse \/ EditMain \/ UNCHANGED orchestrationVars
  BY <1>2 DEF EditWorktree, Lapse, EditMain, orchestrationVars, world
<1> QED
  BY <1>1, <1>2

(* While a call has bound its patch nobody writes: content it has bound    *)
(* and lost is not brought back.                                           *)
LEMMA LostIsLost ==
  ASSUME OrchestrationIInv, NEW d \in Caller, call[d].step \in Bound,
         \/ \E c \in Caller : CallStep(c)
         \/ EditWorktree \/ Lapse \/ EditMain \/ UNCHANGED orchestrationVars
  PROVE  /\ call[d].truth = "mixed" => worktree' \notin {"patched", "unmarked"}
         /\ worktree' = call[d].truth => worktree = call[d].truth
<1>1. \A c \in Caller : call[c].step \notin Writing
  BY DEF OrchestrationIInv, OneClaimant, Claimed, Applying, Writing, Bound, Testing
<1>2. \/ worktree' \in {worktree, "clean", "absent", "other"}
      \/ worktree \in {"unmarked", "patched"} /\ worktree' = "mixed"
  BY <1>1, WorktreeStep
<1>3. /\ call[d].truth \in {"patched", "mixed"}
      /\ call[d].truth = "mixed" => worktree \notin {"patched", "unmarked"}
  BY DEF OrchestrationIInv, TestsAreBound, OrchestrationTypeOK
<1> QED
  BY <1>2, <1>3

(* What a call holds after a step of its own.                              *)
LEMMA OwnTests ==
  ASSUME OrchestrationIInv, NEW c \in Caller, CallStep(c)
  PROVE  /\ call'[c].step \notin Testing => call'[c].passed = 0 /\ call'[c].tested = {}
         /\ call'[c].step \in {"gate", "inspect"} => call'[c].passed < Gates
         /\ call'[c].step = "inspect" \/ call'[c].passed > 0 => call'[c].tested # {}
         /\ call'[c].step = "accept" => call'[c].passed = Gates
         /\ call'[c].step \in Bound =>
              \/ /\ call[c].step \in Bound
                 /\ call'[c].truth = call[c].truth
                 /\ call'[c].tested \in {call[c].tested, call[c].tested \cup {worktree}}
              \/ /\ call'[c].truth = worktree /\ worktree \in {"patched", "mixed"}
                 /\ worktree' = worktree /\ call'[c].tested = {}
<1> USE DEF OrchestrationIInv, OrchestrationTypeOK, TestsAreBound
<1>t. call \in [Caller -> Call] /\ Gates > 0
  BY OrchestrationAssumption DEF Call
<1>1. CASE Preflight(c) \/ Observe(c) \/ Prepare(c)
  BY <1>1, <1>t, ReturnGoes
  DEF Preflight, Observe, Prepare, At, Gone, Call, Testing, Bound
<1>2. CASE Create(c) \/ Created(c) \/ Authorize(c) \/ Claim(c) \/ Check(c)
  BY <1>2, <1>t, TransitionCases, CloseCases, GotoMoves, ReturnGoes
  DEF Create, Created, Authorize, Claim, Check, At, Moved, Gone, Step, Testing, Bound
<1>3. CASE Apply(c) \/ Mark(c)
  BY <1>3, <1>t, GotoMoves DEF Apply, Mark, At, Moved, Step, Testing, Bound
<1>4. CASE Bind(c)
  BY <1>4, <1>t, GotoMoves DEF Bind, At, Moved, Step, Call, Testing, Bound, world
<1>5. CASE NotApplied(c) \/ Applied(c)
  BY <1>5, <1>t, TransitionCases, CloseCases
  DEF NotApplied, Applied, At, Moved, Gone, Step, Testing, Bound
<1>6. CASE Recheck(c)
  BY <1>6, <1>t, TransitionCases DEF Recheck, At, Moved, Gone, Step, Testing, Bound
<1>7. CASE Gate(c)
  BY <1>7, <1>t, GateTests DEF Gate, At, Testing, Bound
<1>8. CASE GateFailed(c) \/ Accept(c)
  BY <1>8, <1>t, TransitionCases, CloseCases
  DEF GateFailed, Accept, At, Moved, Gone, Step, Testing, Bound
<1>9. CASE Inspect(c)
  BY <1>9, <1>t, TransitionCases DEF Inspect, At, Gone, Call, Step, Testing, Bound
<1> QED
  BY <1>1, <1>2, <1>3, <1>4, <1>5, <1>6, <1>7, <1>8, <1>9 DEF CallStep

(* A step of a call counts gates only on the bound content.                *)
LEMMA TestsStep ==
  ASSUME OrchestrationIInv, NEW c \in Caller, CallStep(c)
  PROVE  TestsAreBound'
<1>1. ASSUME NEW d \in Caller \ {c}, call[d].step \in Bound
      PROVE  /\ call[d].truth = "mixed" => worktree' \notin {"patched", "unmarked"}
             /\ worktree' = call[d].truth => worktree = call[d].truth
  BY <1>1, LostIsLost
<1>2. \A d \in Caller \ {c} : call'[d] = call[d]
  BY LifecycleStep DEF Others
<1>3. ASSUME call'[c].step \in Bound
      PROVE  /\ call'[c].truth # "none"
             /\ call'[c].truth = "mixed" => worktree' \notin {"patched", "unmarked"}
             /\ worktree' = call'[c].truth => call'[c].tested \subseteq {call'[c].truth}
  BY <1>3, OwnTests, LostIsLost DEF OrchestrationIInv, TestsAreBound
<1> QED
  BY <1>1, <1>2, <1>3, OwnTests DEF TestsAreBound, OrchestrationIInv

-----------------------------------------------------------------------------
(* The invariant                                                           *)

(* Before the first request the invariant holds.                           *)
LEMMA OrchestrationInitInv == OrchestrationInit => OrchestrationIInv
<1> SUFFICES ASSUME OrchestrationInit PROVE OrchestrationIInv
  OBVIOUS
<1>1. OrchestrationTypeOK
  BY OrchestrationAssumption
  DEF OrchestrationInit, OrchestrationTypeOK, Returned, Lifecycle, Content, Checkout, Step
<1>2. RecordsAgree /\ OneClaimant /\ LandingsAreRecorded /\ TestsAreBound
  BY DEF OrchestrationInit, Returned, RecordsAgree, OneClaimant, LandingsAreRecorded,
         LandsOnce, LandedIsRecorded, TestsAreBound, Claimed, Applying, Writing, Testing, Bound
<1>3. OneOpen
  BY DEF OrchestrationInit, OneOpen, Open, Running
<1> QED
  BY <1>1, <1>2, <1>3 DEF OrchestrationIInv

(* A step of a call stores values of their domains.                        *)
LEMMA OrchestrationTypeStep ==
  ASSUME OrchestrationIInv, NEW c \in Caller, CallStep(c)
  PROVE  OrchestrationTypeOK'
<1> USE DEF OrchestrationIInv, OrchestrationTypeOK
<1>1. lifecycle' \in [Request -> Lifecycle] /\ call' \in [Caller -> Call]
  BY LifecycleStep
<1>2. landed' \in [Request -> Nat]
  BY LandedStep
<1>3. worktree' \in Content /\ main' = main /\ authority' = authority
  BY DEF CallStep, Preflight, Observe, Prepare, Create, Created, Authorize, Claim, Check,
      Apply, Mark, Bind, NotApplied, Applied, Recheck, Gate, GateFailed, Inspect, Accept,
      Content, world
<1> QED
  BY <1>1, <1>2, <1>3 DEF Call

(* A call that stops is past nothing and holds nothing.                    *)
LEMMA StopInv ==
  ASSUME OrchestrationIInv, NEW c \in Caller, Stops(c)
  PROVE  OrchestrationIInv'
<1>1. /\ call' \in [Caller -> Call] /\ \A d \in Caller \ {c} : call'[d] = call[d]
      /\ call'[c].step = "idle" /\ call'[c].passed = 0 /\ call'[c].tested = {}
      /\ UNCHANGED <<lifecycle, worktree, main, authority, landed>>
  BY ReturnGoes
  DEF Stops, Gone, Others, OrchestrationIInv, OrchestrationTypeOK, Call, world
<1>2. OrchestrationTypeOK' /\ OneOpen'
  BY <1>1 DEF OrchestrationIInv, OrchestrationTypeOK, OneOpen, Call
<1>3. RecordsAgree' /\ OneClaimant'
  BY <1>1
  DEF OrchestrationIInv, RecordsAgree, OneClaimant, Claimed, Applying, Writing, Testing, Of
<1>4. LandingsAreRecorded'
  BY <1>1
  DEF OrchestrationIInv, LandingsAreRecorded, LandsOnce, LandedIsRecorded, Of
<1>5. TestsAreBound'
  BY <1>1 DEF OrchestrationIInv, TestsAreBound, Testing, Bound
<1> QED
  BY <1>2, <1>3, <1>4, <1>5 DEF OrchestrationIInv

(* Edits by others and lost authority keep the invariant.                  *)
LEMMA OthersInv ==
  ASSUME OrchestrationIInv, EditWorktree \/ Lapse \/ EditMain \/ UNCHANGED orchestrationVars
  PROVE  OrchestrationIInv'
<1>1. UNCHANGED <<lifecycle, call, landed>>
  BY OthersLeaveCalls
<1>2. OrchestrationTypeOK'
  BY <1>1
  DEF OrchestrationIInv, OrchestrationTypeOK, EditWorktree, Lapse, EditMain,
      orchestrationVars, world, Content, Checkout
<1>3. RecordsAgree' /\ OneOpen' /\ OneClaimant' /\ LandingsAreRecorded'
  BY <1>1
  DEF OrchestrationIInv, RecordsAgree, OneOpen, OneClaimant, LandingsAreRecorded,
      LandsOnce, LandedIsRecorded, Of
<1>4. TestsAreBound'
  BY <1>1, LostIsLost DEF OrchestrationIInv, TestsAreBound
<1> QED
  BY <1>2, <1>3, <1>4 DEF OrchestrationIInv

(* Every step keeps the invariant.                                         *)
LEMMA OrchestrationNextInv ==
  OrchestrationIInv /\ [OrchestrationNext]_orchestrationVars => OrchestrationIInv'
<1>1. ASSUME OrchestrationIInv, NEW c \in Caller, CallStep(c)
      PROVE  OrchestrationIInv'
  BY <1>1, OrchestrationTypeStep, RecordsStep, OneOpenStep, OneClaimantStep, LandingsStep,
     TestsStep
  DEF OrchestrationIInv
<1> QED
  BY <1>1, StopInv, OthersInv DEF OrchestrationNext

(* So it holds in every state.                                             *)
LEMMA OrchestrationInvariant == OrchestrationSpec => []OrchestrationIInv
<1> QED
  BY OrchestrationInitInv, OrchestrationNextInv, PTL DEF OrchestrationSpec

(* Calls that race, replay, stop or outlive their own record leave one     *)
(* writer of the worktree, one patch per request, and a record of it.      *)
THEOREM OrchestrationInvCorrect == OrchestrationSpec => []OrchestrationInv
<1>1. OrchestrationIInv => OrchestrationInv
  BY DEF OrchestrationIInv, OrchestrationInv, OneWriter, OneClaimant, LandingsAreRecorded,
         Claimed, Applying, Writing
<1> QED
  BY <1>1, OrchestrationInvariant, PTL

(* No call writes over a verdict, its own or another's.                    *)
THEOREM VerdictsAreFinalCorrect == OrchestrationSpec => VerdictsAreFinal
<1>1. OrchestrationIInv /\ [OrchestrationNext]_orchestrationVars =>
        [\A r \in Request : lifecycle[r] \in Terminal \cup {"uncertain"}
           => lifecycle'[r] = lifecycle[r]]_orchestrationVars
  BY VerdictStep, OthersLeaveCalls DEF OrchestrationNext, Stops
<1> QED
  BY <1>1, OrchestrationInvariant, PTL DEF OrchestrationSpec, VerdictsAreFinal

(* Only the call that works on a request accepts it, from its last look at *)
(* a worktree that holds what it bound.                                    *)
LEMMA AcceptStep ==
  ASSUME OrchestrationIInv, NEW c \in Caller, CallStep(c),
         NEW r \in Request, lifecycle[r] # "accepted", lifecycle'[r] = "accepted"
  PROVE  Of(c) = r /\ call[c].step = "accept" /\ worktree = call[c].truth
<1> USE DEF OrchestrationIInv, OrchestrationTypeOK
<1>t. call \in [Caller -> Call]
  BY DEF Call
<1>1. CASE Accept(c)
  BY <1>1, <1>t, TransitionCases, CloseCases DEF Accept, Intact, At, Step
<1>2. CASE Preflight(c) \/ Observe(c) \/ Prepare(c) \/ Create(c) \/ Gate(c)
             \/ Apply(c) \/ Mark(c) \/ Bind(c)
  BY <1>2 DEF Preflight, Observe, Prepare, Create, Gate, Apply, Mark, Bind
<1>3. CASE Created(c) \/ Authorize(c) \/ Claim(c) \/ Check(c) \/ Recheck(c)
  BY <1>3, <1>t, TransitionCases, CloseCases
  DEF Created, Authorize, Claim, Check, Recheck, Step
<1>4. CASE NotApplied(c) \/ Applied(c) \/ GateFailed(c) \/ Inspect(c)
  BY <1>4, <1>t, TransitionCases, CloseCases
  DEF NotApplied, Applied, GateFailed, Inspect, Step
<1> QED
  BY <1>1, <1>2, <1>3, <1>4 DEF CallStep

(* A request is accepted by the call that holds it, after every gate, and  *)
(* each gate ran on the content that the receipt binds.                    *)
THEOREM GatedAsBoundCorrect == OrchestrationSpec => GatedAsBound
<1>1. ASSUME OrchestrationIInv, [OrchestrationNext]_orchestrationVars,
             NEW r \in Request, lifecycle[r] # "accepted", lifecycle'[r] = "accepted"
      PROVE  \E c \in Caller :
               Of(c) = r /\ call[c].passed = Gates /\ call[c].tested = {call[c].truth}
  <2>1. PICK c \in Caller : CallStep(c)
    BY <1>1, OthersLeaveCalls DEF OrchestrationNext, Stops
  <2>2. Of(c) = r /\ call[c].step = "accept" /\ worktree = call[c].truth
    BY <1>1, <2>1, AcceptStep
  <2>3. call[c].passed = Gates /\ call[c].tested # {} /\ call[c].tested \subseteq {call[c].truth}
    BY <1>1, <2>2, OrchestrationAssumption
    DEF OrchestrationIInv, TestsAreBound, Testing, Bound
  <2> QED
    BY <2>2, <2>3
<1>2. OrchestrationIInv /\ [OrchestrationNext]_orchestrationVars =>
        [\A r \in Request : lifecycle[r] # "accepted" /\ lifecycle'[r] = "accepted"
           => \E c \in Caller :
                /\ Of(c) = r
                /\ call[c].passed = Gates
                /\ call[c].tested = {call[c].truth}]_orchestrationVars
  BY <1>1
<1> QED
  BY <1>2, OrchestrationInvariant, PTL DEF OrchestrationSpec, GatedAsBound

(* A call that ends by itself had moved its record on, or found that       *)
(* somebody had declared it uncertain.                                     *)
LEMMA SettleStep ==
  ASSUME OrchestrationIInv, NEW c \in Caller, CallStep(c),
         call[c].step \in
           {"check", "unclear", "gave-up", "landed", "recheck", "gate",
            "gate-failed", "inspect", "accept"},
         call'[c].step = "idle"
  PROVE  lifecycle'[Of(c)] \notin Running
<1> USE DEF OrchestrationIInv, OrchestrationTypeOK
<1>t. call \in [Caller -> Call]
  BY DEF Call
<1>r. /\ Of(c) \in Request
      /\ call[c].step \in Applying => lifecycle[Of(c)] \in {"applying", "uncertain"}
      /\ call[c].step = "recheck" => lifecycle[Of(c)] \in {"applied", "uncertain"}
      /\ call[c].step \in Testing => lifecycle[Of(c)] \in {"gating", "uncertain"}
  BY DEF RecordsAgree
<1>1. CASE Check(c) \/ NotApplied(c) \/ Applied(c)
  BY <1>1, <1>t, <1>r, TransitionCases, CloseCases, GotoMoves
  DEF Check, NotApplied, Applied, At, Moved, Step, Running, Applying, Writing
<1>2. CASE Recheck(c)
  BY <1>2, <1>t, <1>r, TransitionCases DEF Recheck, At, Moved, Step, Running
<1>3. CASE Gate(c)
  BY <1>3, GateTests
<1>4. CASE GateFailed(c) \/ Accept(c)
  BY <1>4, <1>t, <1>r, TransitionCases, CloseCases
  DEF GateFailed, Accept, At, Moved, Step, Running, Testing
<1>5. CASE Inspect(c)
  BY <1>5, <1>t, <1>r, TransitionCases DEF Inspect, At, Call, Step, Running, Testing
<1>6. CASE Preflight(c) \/ Observe(c) \/ Prepare(c) \/ Create(c) \/ Created(c)
             \/ Authorize(c) \/ Claim(c) \/ Apply(c) \/ Mark(c) \/ Bind(c)
  BY <1>6
  DEF Preflight, Observe, Prepare, Create, Created, Authorize, Claim, Apply, Mark, Bind, At
<1> QED
  BY <1>1, <1>2, <1>3, <1>4, <1>5, <1>6 DEF CallStep

(* Whoever interferes, a call past its claim that is not killed leaves no  *)
(* record that looks like work in progress.                                *)
THEOREM CallsSettleTheirRecordCorrect == OrchestrationSpec => CallsSettleTheirRecord
<1>1. OrchestrationIInv /\ [OrchestrationNext]_orchestrationVars =>
        [\A c \in Caller :
           /\ CallStep(c)
           /\ call[c].step \in
                {"check", "unclear", "gave-up", "landed", "recheck", "gate",
                 "gate-failed", "inspect", "accept"}
           /\ call'[c].step = "idle"
           => lifecycle'[Of(c)] \notin Running]_orchestrationVars
  BY SettleStep
<1> QED
  BY <1>1, OrchestrationInvariant, PTL DEF OrchestrationSpec, CallsSettleTheirRecord
=============================================================================
