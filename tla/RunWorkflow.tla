----------------------------- MODULE RunWorkflow -----------------------------
(***************************************************************************)
(* `entroping run` (core/run_workflow.py, run_event_log.py, safe_write.py):*)
(* a run takes the lock directory of the project, starts the event log     *)
(* anew, selects files, has them run, and writes the latest-run state and  *)
(* the requested reports, each write followed by its event.  Any write may *)
(* fail, the user may interrupt the run, and the process may be killed,    *)
(* which leaves the directory for the operator to remove.                  *)
(***************************************************************************)
EXTENDS HurlSuite

CONSTANTS
  NoRun,      \* who holds a free lock
  MaxFaults   \* bound on failed writes, errors, interrupts and kills

ASSUME RunWorkflowAssumption == MaxFaults \in Nat /\ NoRun \notin Run

VARIABLES
  at,         \* the next step of each run
  lock,       \* the run that made the lock directory
  rows,       \* the report that each run has built
  log,        \* what latest-run-events.jsonl tells
  latest,     \* the run whose report is latest-run.json
  requested,  \* the run whose report is reports/run-latest.json
  wants,      \* the runs that request a report
  faults

artifacts == <<log, latest, requested>>
runVars == <<suiteVars, at, lock, rows, artifacts, wants, faults>>

NoRows == [t \in {} |-> FALSE]
NoLog == [run |-> NoRun, rows |-> NoRows, named |-> {}, last |-> "none", status |-> "none"]

RunInit ==
  /\ SuiteInit
  /\ at = [p \in Run |-> "idle"]
  /\ lock = NoRun
  /\ rows = [p \in Run |-> NoRows]
  /\ log = NoLog /\ latest = NoRun /\ requested = NoRun
  /\ wants = {}
  /\ faults = 0

Goto(p, step) == at' = [at EXCEPT ![p] = step]
Then(p, from, step) == at[p] = from /\ Goto(p, step)

(* The process is over, by itself or by a kill.                            *)
Exits(p, how) ==
  /\ Goto(p, how) /\ SuiteDrop(p)
  /\ rows' = [rows EXCEPT ![p] = NoRows] /\ wants' = wants \ {p}

-----------------------------------------------------------------------------
(* The lock and the event log                                              *)

Open(p) ==
  /\ at[p] = "idle"
  /\ IF lock # NoRun THEN Exits(p, "done") /\ UNCHANGED lock
     ELSE \E o \in Options, w \in {{}, {p}} :
            /\ lock' = p /\ Goto(p, "start") /\ UNCHANGED rows
            /\ mode' = [mode EXCEPT ![p] = o] /\ wants' = wants \cup w
            /\ UNCHANGED <<next, flight, running, report, made, outcome, raised>>
  /\ UNCHANGED <<artifacts, faults>>

(* The first event replaces the file, the others are appended.             *)
Start(p) ==
  /\ Then(p, "start", "select")
  /\ log' = [NoLog EXCEPT !.run = p, !.last = "run_started"]
  /\ UNCHANGED <<suiteVars, lock, rows, latest, requested, wants, faults>>

(* Nothing guards the first event: if it fails, the directory stays.       *)
StartFails(p) ==
  /\ at[p] = "start" /\ faults < MaxFaults /\ faults' = faults + 1
  /\ Exits(p, "done")
  /\ UNCHANGED <<lock, artifacts>>

Complete(p, status) ==
  log' = [log EXCEPT !.last = "run_completed", !.status = status]

Close(p) ==
  /\ at[p] = "close"
  /\ lock' = NoRun /\ Exits(p, "done")
  /\ UNCHANGED <<artifacts, faults>>

-----------------------------------------------------------------------------
(* Selecting and running                                                   *)

(* The selection has files, none, or some that safety blocks.              *)
Select(p) ==
  /\ at[p] = "select"
  /\ \/ /\ Goto(p, "suite")
        /\ log' = [log EXCEPT !.last = "test_selected"]
        /\ UNCHANGED rows
     \/ \E blocked \in (SUBSET Test) \ {{}} :
          /\ Goto(p, "results")
          /\ log' = [log EXCEPT !.last = "test_selected"]
          /\ rows' = [rows EXCEPT ![p] = [t \in blocked |-> FALSE]]
     \/ /\ Goto(p, "close") /\ Complete(p, "no_match")
        /\ UNCHANGED rows
  /\ UNCHANGED <<suiteVars, lock, latest, requested, wants, faults>>

Execute(p) ==
  /\ at[p] = "suite" /\ SuiteStep(p)
  /\ UNCHANGED <<at, lock, rows, artifacts, wants, faults>>

(* The gates are judged, the report is built, and its rows are recorded.   *)
Ended(p) ==
  /\ Then(p, "suite", "results") /\ SuiteEnded(p)
  /\ rows' = [rows EXCEPT ![p] = Rows(p)] /\ SuiteDone(p)
  /\ UNCHANGED <<lock, artifacts, wants, faults>>

Raised(p) ==
  /\ Then(p, "suite", "error") /\ SuiteRaised(p)
  /\ UNCHANGED <<suiteVars, lock, rows, artifacts, wants, faults>>

Results(p) ==
  /\ Then(p, "results", "latest")
  /\ log' = [log EXCEPT !.last = "test_result", !.rows = rows[p]]
  /\ UNCHANGED <<suiteVars, lock, rows, latest, requested, wants, faults>>

-----------------------------------------------------------------------------
(* The artifacts                                                           *)

WriteLatest(p) ==
  /\ Then(p, "latest", "record latest")
  /\ latest' = p
  /\ UNCHANGED <<suiteVars, lock, rows, log, requested, wants, faults>>

RecordLatest(p) ==
  /\ Then(p, "record latest", IF p \in wants THEN "report" ELSE "complete")
  /\ log' = [log EXCEPT !.last = "artifact_written", !.named = @ \cup {"latest-run"}]
  /\ UNCHANGED <<suiteVars, lock, rows, latest, requested, wants, faults>>

WriteReport(p) ==
  /\ Then(p, "report", "record report")
  /\ requested' = p
  /\ UNCHANGED <<suiteVars, lock, rows, log, latest, wants, faults>>

RecordReport(p) ==
  /\ Then(p, "record report", "complete")
  /\ log' = [log EXCEPT !.last = "artifact_written", !.named = @ \cup {"json-report"}]
  /\ UNCHANGED <<suiteVars, lock, rows, latest, requested, wants, faults>>

AllPass(built) == \A t \in DOMAIN built : built[t]

(* A blocked run has failing rows; a passing one may have drifted.         *)
Finish(p) ==
  /\ Then(p, "complete", "close")
  /\ \E drifted \in BOOLEAN :
       Complete(p, IF ~HurlRan(p) THEN "blocked"
                   ELSE IF AllPass(rows[p]) /\ ~drifted THEN "passed" ELSE "failed")
  /\ UNCHANGED <<suiteVars, lock, rows, latest, requested, wants, faults>>

-----------------------------------------------------------------------------
(* Errors, interrupts and kills                                            *)

Guarded == {"select", "results", "latest", "record latest", "report", "record report", "complete"}

RecordError(p) ==
  /\ Then(p, "error", "failed")
  /\ log' = [log EXCEPT !.last = "run_error"]
  /\ UNCHANGED <<suiteVars, lock, rows, latest, requested, wants, faults>>

RecordFailed(p) ==
  /\ Then(p, "failed", "close")
  /\ Complete(p, "error")
  /\ UNCHANGED <<suiteVars, lock, rows, latest, requested, wants, faults>>

LeaveWithoutClosing(p) ==  \* mutant of Fail: the handler that fails ends the run
  /\ faults < MaxFaults /\ faults' = faults + 1
  /\ \/ at[p] \in Guarded /\ Goto(p, "error") /\ UNCHANGED <<suiteVars, rows, wants>>
     \/ at[p] \in {"error", "failed"} /\ Exits(p, "done")
  /\ UNCHANGED <<lock, artifacts>>

(* A write fails, a baseline or a source file is unreadable; the handler   *)
(* that records the error may fail as well.                                *)
Fail(p) ==
  /\ faults < MaxFaults /\ faults' = faults + 1
  /\ \/ at[p] \in Guarded /\ Goto(p, "error")
     \/ at[p] \in {"error", "failed"} /\ Goto(p, "close")
  /\ UNCHANGED <<suiteVars, lock, rows, artifacts, wants>>

(* Ctrl-C is no Exception: no event tells of it, but the lock is released. *)
(* A pool ends what was submitted first; without one, Hurl is stopped.     *)
Interrupt(p) ==
  /\ faults < MaxFaults /\ faults' = faults + 1
  /\ \/ /\ at[p] \in Guarded \cup {"error", "failed"}
        /\ Goto(p, "close") /\ UNCHANGED suiteVars
     \/ /\ at[p] = "suite" /\ Pooled(p)
        /\ Goto(p, "leaving") /\ UNCHANGED suiteVars
     \/ /\ at[p] = "suite" /\ ~Pooled(p)
        /\ Goto(p, "close") /\ SuiteDrop(p)
  /\ UNCHANGED <<lock, rows, artifacts, wants>>

Drain(p) ==
  /\ at[p] = "leaving"
  /\ IF \A t \in flight[p] : outcome[p][t] # "none"
       THEN Goto(p, "close") /\ UNCHANGED suiteVars
       ELSE (Take(p) \/ Attempt(p)) /\ UNCHANGED at
  /\ UNCHANGED <<lock, rows, artifacts, wants, faults>>

Over == {"done", "killed"}

Kill(p) ==
  /\ at[p] \notin Over \cup {"idle"} /\ faults < MaxFaults /\ faults' = faults + 1
  /\ Exits(p, "killed")
  /\ UNCHANGED <<lock, artifacts>>

(* "If no run is active, remove that stale directory and rerun."           *)
RemoveStale ==
  /\ lock # NoRun /\ at[lock] \in Over
  /\ lock' = NoRun
  /\ UNCHANGED <<suiteVars, at, rows, artifacts, wants, faults>>

-----------------------------------------------------------------------------

RunStep(p) ==
  \/ Start(p) \/ Select(p) \/ Execute(p) \/ Ended(p) \/ Raised(p) \/ Results(p)
  \/ WriteLatest(p) \/ RecordLatest(p) \/ WriteReport(p) \/ RecordReport(p)
  \/ Finish(p) \/ RecordError(p) \/ RecordFailed(p) \/ Drain(p) \/ Close(p)

RunNext ==
  \/ \E p \in Run : Open(p) \/ RunStep(p) \/ StartFails(p) \/ Fail(p) \/ Interrupt(p) \/ Kill(p)
  \/ RemoveStale

(* A run that is not killed goes on, and Hurl ends: it has a timeout.      *)
RunSpec ==
  /\ RunInit /\ [][RunNext]_runVars
  /\ \A p \in Run : WF_runVars(RunStep(p))

-----------------------------------------------------------------------------
(* Properties                                                              *)

Steps == Guarded \cup
  {"idle", "start", "suite", "leaving", "error", "failed", "close"} \cup Over

(* Every variable keeps its type.                                          *)
RunTypeOK ==
  /\ at \in [Run -> Steps] /\ lock \in Run \cup {NoRun}
  /\ wants \subseteq Run /\ faults \in 0..MaxFaults
  /\ \A p \in Run :
       /\ next[p] \in 1..(Count + 1) /\ flight[p] \subseteq 1..(next[p] - 1)
       /\ running[p] \subseteq flight[p] /\ Cardinality(running[p]) <= Workers(p)
       /\ DOMAIN rows[p] \subseteq Test /\ raised[p] \in BOOLEAN
       /\ \A t \in Test :
            /\ report[p][t] \in Report \cup {Unread}
            /\ made[p][t] \in 0..(Retries + 1)
            /\ outcome[p][t] \in Status \cup {"none", "raised"}

(* TDS: concurrent runs "fail fast before Hurl execution".  Hurl runs only *)
(* for the run that holds the lock, and a run that ends, in whatever way   *)
(* but a kill, leaves no thread behind that still sends requests.          *)
HurlRunsUnderTheLock ==
  \A p \in Run : running[p] # {} => lock = p /\ at[p] \in {"suite", "leaving"}

(* TDS: fail-fast reports "include only executed tests".  Whatever order   *)
(* the results arrived in, the rows are those of the first files in        *)
(* selection order; files are missing only after a failure under           *)
(* --fail-fast, and the first failing file is always among them.           *)
RowsAreThePrefix ==
  [][\A p \in Run : at[p] = "suite" /\ at'[p] = "results" =>
       \E k \in Test :
         /\ DOMAIN rows'[p] = 1..k
         /\ \A t \in Test : made[p][t] > 0 <=> t <= k
         /\ k < Count => mode[p].failFast /\ ~AllPass(rows'[p])]_runVars

(* TDS: fail-fast "schedules no additional tests after the first failure   *)
(* is observed": beyond the files up to the first failure only those ran   *)
(* that could have been in flight with it.                                 *)
FewRunAfterAFailure ==
  \A p \in Run : at[p] = "suite" /\ mode[p].failFast =>
    \A t \in Collected(p) : outcome[p][t] # "passed" =>
      Cardinality({u \in Test : u < next[p] /\ outcome[p][u] # "passed"}) <= Workers(p)

(* TDS: a run "stops retrying as soon as a Hurl file passes, never hides a *)
(* final failure".  A file is not attempted again once it has its result,  *)
(* and it fails only when every attempt did.                               *)
RetriesAreHonest ==
  [][\A p \in Run, t \in Test :
       at[p] \in {"suite", "leaving"} /\ at'[p] = at[p] =>
         /\ made'[p][t] # made[p][t] => outcome[p][t] = "none"
         /\ outcome'[p][t] # outcome[p][t] /\ outcome'[p][t] \in Status =>
              outcome'[p][t] = "passed" \/ made'[p][t] = Retries + 1]_runVars

(* TDS: "Only a failed block gate contributes to the run exit status".  A  *)
(* row passes when Hurl ran, told everything it was asked, and nothing but *)
(* gates that warn failed; and such a file does pass.                      *)
PassIsEarned ==
  [][\A p \in Run : at[p] = "suite" /\ at'[p] = "results" =>
       \A t \in DOMAIN rows'[p] :
         Injected[t] # {} =>
           (rows'[p][t] <=> /\ report[p][t].exit \in {"zero", "nonzero"}
                            /\ report[p][t].whole
                            /\ report[p][t].failed \subseteq Gate \ Blocking)]_runVars

(* TDS: the lock "preserves complete latest evidence instead of            *)
(* interleaving two runs into one audit stream".  A log that says a run    *)
(* completed tells of that run only, and latest-run.json and the report it *)
(* requested hold the very rows that the log recorded.                     *)
EvidenceAgrees ==
  log.last = "run_completed" /\ log.status \in {"passed", "failed", "blocked"} =>
    /\ "latest-run" \in log.named
    /\ latest = log.run
    /\ "json-report" \in log.named => requested = latest
    /\ log.status = "passed" => AllPass(log.rows)
    /\ log.status = "blocked" => ~AllPass(log.rows)

(* A run that recorded its start, and is not killed, completes or errs and *)
(* lets the lock go.                                                       *)
RunsEnd ==
  \A p \in Run :
    (lock = p /\ at[p] = "select") ~> (lock # p \/ at[p] = "killed")

(* What two runs, their threads and their faults leave behind is the work  *)
(* of one run under the lock, and its log, rows and reports agree.         *)
RunInv == RunTypeOK /\ HurlRunsUnderTheLock /\ FewRunAfterAFailure /\ EvidenceAgrees

(* Parallel files, fail-fast and retries change neither which rows a run   *)
(* reports nor what a row says.                                            *)
ResultsAreHonest == RowsAreThePrefix /\ RetriesAreHonest
=============================================================================
