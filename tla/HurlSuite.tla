------------------------------ MODULE HurlSuite ------------------------------
(***************************************************************************)
(* Running the selected Hurl files of a run (core/hurl_runner.py,          *)
(* hurl_attempt.py, hurl_structured.py, run_gate_results.py): a bounded    *)
(* pool of threads attempts each file until it passes or its retries are   *)
(* used up, the main thread collects the results as they arrive and, with  *)
(* --fail-fast, stops submitting after a failure.  Hurl and the services   *)
(* it calls are external: each attempt reports what they answered.         *)
(***************************************************************************)
EXTENDS Integers, Sequences, FiniteSets, Functions

CONSTANTS
  Run,        \* invocations of `entroping run`
  Count,      \* number of selected files, in selection order
  Gate,       \* governance gates
  Blocking,   \* the gates whose enforcement is "block"
  Injected,   \* the gates injected into each file
  Exit,       \* how a Hurl process may end
  Retries,    \* settings.retry
  Options     \* the modes of a run: workers and failFast

Test == 1..Count

ASSUME HurlSuiteAssumption ==
  /\ Count \in Nat \ {0} /\ Retries \in Nat
  /\ Blocking \subseteq Gate /\ Injected \in [Test -> SUBSET Gate]
  /\ "source" \notin Gate  \* a file's own assertions are no gate
  /\ Exit \subseteq {"zero", "nonzero", "timeout", "unlaunched"}
  /\ \A o \in Options : o.workers \in Nat \ {0} /\ o.failFast \in BOOLEAN

VARIABLES
  mode,       \* the mode of each run
  next,       \* the next file each run will submit
  flight,     \* submitted files whose result was not collected yet
  running,    \* the files a thread is at
  report,     \* what the final attempt at a file reported
  made,       \* the number of attempts at a file
  outcome,    \* the result of a file
  raised      \* an exception waits for the threads to end

suiteVars == <<mode, next, flight, running, report, made, outcome, raised>>

Assertion == Gate \cup {"source"}
Status == {"passed", "failed", "timeout", "error"}

(* What Hurl answers.  Evidence is asked for files with gates only.  It    *)
(* exits with zero when everything held; a runtime error leaves evidence   *)
(* out, the captured response of some entry, and tells nothing reliable.   *)
Report == [exit : Exit, failed : SUBSET Assertion, whole : BOOLEAN]
Unread == [exit |-> "none", failed |-> {}, whole |-> FALSE]

Reports(t) ==
  {r \in Report :
     /\ r.failed \subseteq Injected[t] \cup {"source"}
     /\ Injected[t] = {} \/ r.exit \in {"timeout", "unlaunched"} => r.failed = {} /\ ~r.whole
     /\ ~r.whole => r.failed = {}
     /\ Injected[t] # {} /\ r.exit = "zero" => r.failed = {} /\ r.whole
     /\ Injected[t] # {} /\ r.exit = "nonzero" => r.failed # {} \/ ~r.whole}

-----------------------------------------------------------------------------
(* Classifying one attempt                                                 *)

ProcessStatus(r) ==
  CASE r.exit = "zero" -> "passed"
    [] r.exit = "nonzero" -> "failed"
    [] r.exit = "timeout" -> "timeout"
    [] OTHER -> "error"

Blocked(r) == "source" \in r.failed \/ r.failed \cap Blocking # {}

ClassifyByGates(t, r) ==  \* mutant of Classify: the file's own assertions are not asked
  IF r.failed \cap Blocking # {} THEN "failed"
  ELSE IF r.failed # {} THEN "passed" ELSE ProcessStatus(r)

(* A failed gate that only warns is all that kept Hurl from passing.       *)
Classify(t, r) ==
  IF Blocked(r) THEN IF ProcessStatus(r) = "passed" THEN "failed" ELSE ProcessStatus(r)
  ELSE IF r.failed # {} THEN "passed" ELSE ProcessStatus(r)

(* Only a file with gates is asked for evidence, and has it read.          *)
AttemptStatus(t, r) ==
  IF Injected[t] = {} \/ r.exit \in {"timeout", "unlaunched"} THEN ProcessStatus(r)
  ELSE IF ~r.whole THEN "error"
  ELSE Classify(t, r)

(* The gates are judged again over the collected result.                   *)
GatedStatus(t, status, r) ==
  IF status = "passed" /\ Injected[t] # {} /\ ~r.whole THEN "error"
  ELSE IF status = "passed" /\ r.failed \cap Injected[t] \cap Blocking # {} THEN "failed"
  ELSE status

-----------------------------------------------------------------------------
(* The pool                                                                *)

NoSuite ==
  [mode |-> [workers |-> 1, failFast |-> FALSE], next |-> 1, flight |-> {}, running |-> {}, report |-> [t \in Test |-> Unread],
   made |-> [t \in Test |-> 0], outcome |-> [t \in Test |-> "none"], raised |-> FALSE]

SuiteInit ==
  /\ mode = [p \in Run |-> NoSuite.mode]
  /\ next = [p \in Run |-> NoSuite.next]
  /\ flight = [p \in Run |-> NoSuite.flight]
  /\ running = [p \in Run |-> NoSuite.running]
  /\ report = [p \in Run |-> NoSuite.report]
  /\ made = [p \in Run |-> NoSuite.made]
  /\ outcome = [p \in Run |-> NoSuite.outcome]
  /\ raised = [p \in Run |-> NoSuite.raised]

(* The run ends or is killed: nothing of its suite is left.                *)
SuiteDrop(p) ==
  /\ mode' = [mode EXCEPT ![p] = NoSuite.mode]
  /\ next' = [next EXCEPT ![p] = NoSuite.next]
  /\ flight' = [flight EXCEPT ![p] = NoSuite.flight]
  /\ running' = [running EXCEPT ![p] = NoSuite.running]
  /\ report' = [report EXCEPT ![p] = NoSuite.report]
  /\ made' = [made EXCEPT ![p] = NoSuite.made]
  /\ outcome' = [outcome EXCEPT ![p] = NoSuite.outcome]
  /\ raised' = [raised EXCEPT ![p] = NoSuite.raised]

(* The rows are built: the results are not looked at again.                *)
SuiteDone(p) ==
  /\ report' = [report EXCEPT ![p] = NoSuite.report]
  /\ made' = [made EXCEPT ![p] = NoSuite.made]
  /\ outcome' = [outcome EXCEPT ![p] = NoSuite.outcome]
  /\ UNCHANGED <<mode, next, flight, running, raised>>

Workers(p) == mode[p].workers
Pooled(p) == Workers(p) > 1 /\ Count > 1
HurlRan(p) == next[p] > 1
Collected(p) == {t \in Test : t < next[p]} \ flight[p]
Stopped(p, collected) ==
  mode[p].failFast /\ \E t \in collected : outcome[p][t] # "passed"

(* Without --fail-fast a pool is handed every file at once; with one       *)
(* worker there is no pool and the files follow each other.                *)
Capacity(p) == IF mode[p].failFast \/ ~Pooled(p) THEN Workers(p) ELSE Count

Refill(p, waiting, collected) ==
  LET room == IF Stopped(p, collected) THEN 0 ELSE Capacity(p) - Cardinality(waiting)
      upTo == IF next[p] + room > Count + 1 THEN Count + 1 ELSE next[p] + room
  IN /\ flight' = [flight EXCEPT ![p] = waiting \cup (next[p]..(upTo - 1))]
     /\ next' = [next EXCEPT ![p] = upTo]

Submit(p) ==
  /\ ~HurlRan(p)
  /\ Refill(p, {}, {})
  /\ UNCHANGED <<mode, running, report, made, outcome, raised>>

(* A free thread takes the file that waits longest.  The file or the Hurl  *)
(* binary may be gone by then, which is an exception and no result.        *)
Take(p) ==
  LET waiting == {t \in flight[p] \ running[p] : outcome[p][t] = "none"} IN
  /\ waiting # {} /\ Cardinality(running[p]) < Workers(p)
  /\ LET t == CHOOSE x \in waiting : \A y \in waiting : x <= y IN
     \/ running' = [running EXCEPT ![p] = @ \cup {t}] /\ UNCHANGED outcome
     \/ outcome' = [outcome EXCEPT ![p][t] = "raised"] /\ UNCHANGED running
  /\ UNCHANGED <<mode, next, flight, report, made, raised>>

LastAttempt(n) == n = Retries + 1

(* Hurl runs and answers; a file that did not pass is tried again.         *)
Attempt(p) ==
  \E t \in running[p] : \E r \in Reports(t) :
    LET status == AttemptStatus(t, r) IN
    /\ made' = [made EXCEPT ![p][t] = @ + 1]
    /\ IF status = "passed" \/ LastAttempt(made[p][t] + 1)
         THEN /\ outcome' = [outcome EXCEPT ![p][t] = status]
              /\ running' = [running EXCEPT ![p] = @ \ {t}]
              /\ report' = [report EXCEPT ![p][t] = r]
         ELSE UNCHANGED <<outcome, running, report>>
    /\ UNCHANGED <<mode, next, flight, raised>>

(* The main thread looks at the files that had ended when it woke up; an   *)
(* exception ends its loop, but the pool still runs what was submitted.    *)
Collect(p) ==
  /\ ~raised[p]
  /\ \E done \in SUBSET {t \in flight[p] : outcome[p][t] # "none"} :
       /\ done # {}
       /\ IF \E t \in done : outcome[p][t] = "raised"
            THEN raised' = [raised EXCEPT ![p] = TRUE] /\ UNCHANGED <<flight, next>>
            ELSE /\ Refill(p, flight[p] \ done, Collected(p) \cup done)
                 /\ UNCHANGED raised
  /\ UNCHANGED <<mode, running, report, made, outcome>>

SuiteStep(p) == Submit(p) \/ Take(p) \/ Attempt(p) \/ Collect(p)

RaisedAtOnce(p) == raised[p]  \* mutant of SuiteRaised: the pool is not waited for

(* Leaving the pool waits for every file that was submitted.               *)
SuiteRaised(p) == raised[p] /\ \A t \in flight[p] : outcome[p][t] # "none"

EndedAtFailure(p) ==  \* mutant of SuiteEnded: what still runs is not collected
  HurlRan(p) /\ ~raised[p] /\ (flight[p] = {} \/ Stopped(p, Collected(p)))

SuiteEnded(p) == HurlRan(p) /\ ~raised[p] /\ flight[p] = {}

(* The rows of the run report: whether each executed file passed.          *)
Rows(p) ==
  [t \in Collected(p) |-> GatedStatus(t, outcome[p][t], report[p][t]) = "passed"]
=============================================================================
