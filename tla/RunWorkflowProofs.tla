-------------------------- MODULE RunWorkflowProofs --------------------------
(***************************************************************************)
(* Proofs about RunWorkflow, for any number of runs, files, threads,       *)
(* retries, faults and kills: Hurl runs under the lock only, a run's rows  *)
(* are earned and complete, and its log agrees with the artifacts.         *)
(*                                                                         *)
(* One run is past the lock, so a step needs a look at the run that takes  *)
(* it only (HolderStep); the others are away and say nothing.  Of that run *)
(* the invariant says what its pool may hold, that a result is the status  *)
(* of its last attempt, and what its log tells at each step.               *)
(***************************************************************************)
EXTENDS RunWorkflow, FiniteSetTheorems, WellFoundedInduction, TLAPS

-----------------------------------------------------------------------------
(* The inductive invariant                                                 *)

IsLog(l) == l = [run |-> l.run, rows |-> l.rows, named |-> l.named, last |-> l.last,
                 status |-> l.status]

RowsOK ==
  /\ at \in [Run -> Steps] /\ lock \in Run \cup {NoRun}
  /\ wants \subseteq Run /\ faults \in 0 .. MaxFaults
  /\ mode \in [Run -> Options \cup {NoSuite.mode}]
  /\ next \in [Run -> 1 .. Count + 1] /\ flight \in [Run -> SUBSET Test]
  /\ running \in [Run -> SUBSET Test] /\ raised \in [Run -> BOOLEAN]
  /\ report \in [Run -> [Test -> Report \cup {Unread}]]
  /\ made \in [Run -> [Test -> 0 .. Retries + 1]]
  /\ outcome \in [Run -> [Test -> Status \cup {"none", "raised"}]]
  /\ DOMAIN rows = Run /\ \A p \in Run : DOMAIN rows[p] \subseteq Test
  /\ IsLog(log)

(* One run is past the lock, or its process was killed there.              *)
Away == {"idle"} \cup Over
OneRun == \A p \in Run : at[p] \notin Away => lock = p

(* A thread is at a submitted file that has no result yet, and no more     *)
(* files are in flight than the pool holds.                                *)
PoolIsRight(p) ==
  /\ at[p] \in Away \cup {"start", "select"} =>
       next[p] = 1 /\ flight[p] = {} /\ raised[p] = FALSE
  /\ running[p] # {} => at[p] \in {"suite", "leaving"}
  /\ \A t \in flight[p] : t < next[p]
  /\ Cardinality(flight[p]) <= Capacity(p)
  /\ running[p] \subseteq {t \in flight[p] : outcome[p][t] = "none"}
  /\ Cardinality(running[p]) <= Workers(p)
  /\ \A t \in Test :
       /\ outcome[p][t] = "none" => made[p][t] <= Retries
       /\ t >= next[p] => outcome[p][t] = "none" /\ made[p][t] = 0

Unpassed(p) == {t \in Test : t < next[p] /\ outcome[p][t] # "passed"}

(* While the files run: each result is that of its last attempt, few did   *)
(* not pass under --fail-fast, and all are submitted unless one failed.    *)
ResultsAreRight(p) ==
  at[p] = "suite" =>
    /\ \A t \in Collected(p) : outcome[p][t] \in Status
    /\ \A t \in Test : outcome[p][t] \in Status =>
         /\ made[p][t] > 0 /\ report[p][t] \in Reports(t)
         /\ outcome[p][t] = AttemptStatus(t, report[p][t])
    /\ mode[p].failFast => Cardinality(Unpassed(p)) <= Workers(p)
    /\ next[p] > 1 /\ flight[p] = {} /\ next[p] <= Count => Stopped(p, Collected(p))

(* What the log tells when the run is at a step.                           *)
Reporting == {"results", "latest", "record latest", "report", "record report", "complete"}
LogIsRight(p) ==
  /\ at[p] \notin Away \cup {"start", "close"} => log.run = p /\ log.last # "run_completed"
  /\ at[p] \in {"select", "suite", "results", "latest", "record latest"} => log.named = {}
  /\ at[p] \in {"record latest", "report", "record report", "complete"} => latest = p
  /\ at[p] \in {"report", "record report"} => log.named = {"latest-run"}
  /\ at[p] = "record report" => requested = p
  /\ at[p] = "complete" =>
       "latest-run" \in log.named /\ ("json-report" \in log.named => requested = p)
  /\ at[p] \in Reporting => (~ HurlRan(p) => ~ AllPass(rows[p]))
  /\ at[p] \in Reporting \ {"results"} => log.rows = rows[p]

RunIInv ==
  /\ RowsOK /\ OneRun /\ EvidenceAgrees
  /\ \A p \in Run : PoolIsRight(p) /\ ResultsAreRight(p) /\ LogIsRight(p)

-----------------------------------------------------------------------------
(* Sets of files                                                           *)

(* Sets of files can be counted.                                           *)
LEMMA FilesAreFinite ==
  /\ IsFiniteSet(Test) /\ Cardinality(Test) = Count /\ Count \in Nat
  /\ \A S \in SUBSET Test : IsFiniteSet(S) /\ Cardinality(S) \in 0 .. Count
<1>1. Count \in Nat
  BY HurlSuiteAssumption
<1>2. IsFiniteSet(Test) /\ Cardinality(Test) = Count
  BY <1>1, FS_Interval DEF Test
<1>3. ASSUME NEW S \in SUBSET Test
      PROVE  IsFiniteSet(S) /\ Cardinality(S) \in 0 .. Count
  BY <1>1, <1>2, <1>3, FS_Subset, FS_CardinalityType
<1> QED
  BY <1>1, <1>2, <1>3

(* A pool has a thread, and is handed at least one file.                   *)
LEMMA PoolHasRoom ==
  ASSUME RowsOK, NEW p \in Run
  PROVE  Workers(p) \in Nat \ {0} /\ Capacity(p) \in Nat \ {0}
<1>1. mode[p].workers \in Nat \ {0}
  BY HurlSuiteAssumption DEF RowsOK, NoSuite
<1> QED
  BY <1>1, HurlSuiteAssumption DEF Workers, Capacity

-----------------------------------------------------------------------------
(* What a step leaves alone                                                *)

Kept(q) ==
  /\ mode'[q] = mode[q] /\ next'[q] = next[q] /\ flight'[q] = flight[q]
  /\ running'[q] = running[q] /\ report'[q] = report[q] /\ made'[q] = made[q]
  /\ outcome'[q] = outcome[q] /\ raised'[q] = raised[q]

(* A pool that nobody touches stays right, wherever its run goes.          *)
LEMMA PoolKept ==
  ASSUME NEW q \in Run, PoolIsRight(q), Kept(q),
         at'[q] \in Away \cup {"start", "select"} => at[q] \in Away \cup {"start", "select"},
         running[q] # {} => at'[q] \in {"suite", "leaving"}
  PROVE  PoolIsRight(q)'
<1>1. Capacity(q)' = Capacity(q) /\ Workers(q)' = Workers(q)
  BY DEF Kept, Capacity, Workers, Pooled
<1> QED
  BY <1>1 DEF PoolIsRight, Kept

(* A run that is not there tells nothing.                                  *)
LEMMA AwayIsRight ==
  ASSUME NEW q \in Run, PoolIsRight(q), Kept(q), at[q] \in Away, at'[q] = at[q]
  PROVE  PoolIsRight(q)' /\ ResultsAreRight(q)' /\ LogIsRight(q)'
<1>1. PoolIsRight(q)'
  BY PoolKept DEF PoolIsRight, Away, Over
<1>2. at'[q] \in {"idle", "done", "killed"}
  BY DEF Away, Over
<1>3. ResultsAreRight(q)' /\ LogIsRight(q)'
  BY <1>2 DEF ResultsAreRight, LogIsRight, Away, Over, Reporting
<1> QED
  BY <1>1, <1>3

(* Nor does it change what is right about a run that others do not touch.  *)
LEMMA SameIsRight ==
  ASSUME RunIInv, NEW q \in Run, Kept(q), at'[q] = at[q], rows'[q] = rows[q],
         UNCHANGED artifacts
  PROVE  PoolIsRight(q)' /\ ResultsAreRight(q)' /\ LogIsRight(q)'
<1>1. PoolIsRight(q) /\ ResultsAreRight(q) /\ LogIsRight(q)
  BY DEF RunIInv
<1>2. PoolIsRight(q)'
  BY <1>1, PoolKept DEF PoolIsRight
<1>3. ResultsAreRight(q)'
  BY <1>1 DEF ResultsAreRight, Kept, Collected, Unpassed, Workers, Stopped
<1>4. LogIsRight(q)'
  BY <1>1 DEF LogIsRight, Kept, HurlRan, artifacts
<1> QED
  BY <1>2, <1>3, <1>4

(* While one run is past the lock, the others are away.                    *)
LEMMA OthersAreAway ==
  ASSUME OneRun, NEW p \in Run, at[p] \notin Away, NEW q \in Run, q # p
  PROVE  lock = p /\ at[q] \in Away
BY DEF OneRun

(* Whoever acts at a time, what is said of the others still holds: a step  *)
(* of a run keeps the pools of the others, and of their artifacts it       *)
(* changes some only if the others are away.                               *)
LEMMA OthersStayRight ==
  ASSUME RunIInv, NEW p \in Run, NEW q \in Run, q # p, Kept(q), at'[q] = at[q],
         at[p] \notin Away
  PROVE  PoolIsRight(q)' /\ ResultsAreRight(q)' /\ LogIsRight(q)'
BY AwayIsRight, OthersAreAway DEF RunIInv

Everything(q) == PoolIsRight(q) /\ ResultsAreRight(q) /\ LogIsRight(q)

(* A step of the run that holds the lock needs a look at that run only.    *)
LEMMA HolderStep ==
  ASSUME RunIInv, NEW p \in Run, at[p] \notin Away, RowsOK',
         \A q \in Run \ {p} : Kept(q) /\ at'[q] = at[q],
         lock' = lock \/ at'[p] \in Away,
         EvidenceAgrees', PoolIsRight(p)', ResultsAreRight(p)', LogIsRight(p)'
  PROVE  RunIInv'
<1>1. OneRun'
  BY OthersAreAway DEF OneRun, RunIInv
<1>2. \A q \in Run : q # p =>
        PoolIsRight(q)' /\ ResultsAreRight(q)' /\ LogIsRight(q)'
  BY OthersStayRight
<1> QED
  BY <1>1, <1>2 DEF RunIInv

(* While a run is past its first event, its log tells of no completion.    *)
LEMMA NotCompleted ==
  ASSUME RunIInv, NEW p \in Run, at[p] \notin Away \cup {"start", "close"}
  PROVE  log.run = p /\ log.last # "run_completed"
BY DEF RunIInv, LogIsRight

-----------------------------------------------------------------------------
(* Steps outside the pool                                                  *)

(* What Goto does to the steps of runs.                                    *)
LEMMA GotoCases ==
  ASSUME RowsOK, NEW p \in Run, NEW step \in Steps, Goto(p, step)
  PROVE  /\ at' \in [Run -> Steps] /\ at'[p] = step
         /\ \A q \in Run \ {p} : at'[q] = at[q]
BY DEF RowsOK, Goto

(* The first event: a log of its own, of a run that has no files yet.      *)
LEMMA StartStep ==
  ASSUME RunIInv, NEW p \in Run, Start(p)
  PROVE  RunIInv'
<1>1. /\ at' \in [Run -> Steps] /\ at'[p] = "select"
      /\ \A q \in Run \ {p} : at'[q] = at[q]
  BY GotoCases DEF RunIInv, Steps, Guarded, Start, Then
<1>2. at[p] = "start" /\ at[p] \notin Away
  BY DEF Away, Over, Start, Then
<1>3. UNCHANGED <<suiteVars, lock, rows, latest, requested, wants, faults>>
  BY DEF Start
<1>4. \A q \in Run : Kept(q)
  BY <1>3 DEF suiteVars, Kept
<1>5. log' = [run |-> p, rows |-> NoRows, named |-> {}, last |-> "run_started",
              status |-> "none"]
  BY DEF NoLog, Start
<1>6. RowsOK'
  BY <1>1, <1>3, <1>5 DEF RunIInv, RowsOK, suiteVars, IsLog
<1>7. PoolIsRight(p)'
  BY <1>1, <1>2, <1>4, PoolKept DEF RunIInv, PoolIsRight
<1>8. ResultsAreRight(p)'
  BY <1>1 DEF ResultsAreRight
<1>9. LogIsRight(p)'
  BY <1>1, <1>5 DEF LogIsRight, Reporting
<1>10. EvidenceAgrees'
  BY <1>5 DEF EvidenceAgrees
<1> QED
  BY <1>1, <1>2, <1>3, <1>4, <1>6, <1>7, <1>8, <1>9, <1>10, HolderStep

(* The selection: files to run, blocked files, which have failing rows, or *)
(* none.                                                                   *)
LEMMA SelectStep ==
  ASSUME RunIInv, NEW p \in Run, Select(p)
  PROVE  RunIInv'
<1>1. at[p] = "select" /\ at[p] \notin Away
  BY DEF Select, Away, Over
<1>2. log.run = p /\ log.named = {} /\ IsLog(log)
  BY <1>1 DEF RunIInv, LogIsRight, Away, Over, RowsOK
<1>3. UNCHANGED <<suiteVars, lock, latest, requested, wants, faults>>
  BY DEF Select
<1>4. \A q \in Run : Kept(q)
  BY <1>3 DEF suiteVars, Kept
<1>5. next[p] = 1 /\ flight[p] = {} /\ running[p] = {}
      /\ \A t \in Test : outcome[p][t] = "none"
  <2>1. next[p] = 1 /\ flight[p] = {} /\ running[p] = {}
    BY <1>1 DEF RunIInv, PoolIsRight
  <2>2. \A t \in Test : t >= 1
    BY DEF Test
  <2> QED
    BY <2>1, <2>2 DEF RunIInv, PoolIsRight
<1> DEFINE Told ==
             /\ at' \in [Run -> Steps] /\ at'[p] \in {"suite", "results", "close"}
             /\ \A q \in Run \ {p} : at'[q] = at[q]
             /\ DOMAIN rows' = Run
             /\ \A q \in Run : DOMAIN rows'[q] \subseteq Test
             /\ IsLog(log')
             /\ EvidenceAgrees'
             /\ LogIsRight(p)'
<1>6. Told
  <2>1. CASE /\ Goto(p, "suite") /\ UNCHANGED rows
             /\ log' = [log EXCEPT !.last = "test_selected"]
    <3>1. /\ at' \in [Run -> Steps] /\ at'[p] = "suite"
          /\ \A q \in Run \ {p} : at'[q] = at[q]
      BY <2>1, GotoCases DEF RunIInv, Steps, Guarded
    <3>2. log' = [run |-> p, rows |-> log.rows, named |-> {},
                  last |-> "test_selected", status |-> log.status]
      BY <2>1, <1>2 DEF IsLog
    <3>3. EvidenceAgrees' /\ LogIsRight(p)'
      BY <3>1, <3>2 DEF EvidenceAgrees, LogIsRight, Reporting
    <3> QED
      BY <2>1, <3>1, <3>2, <3>3 DEF RunIInv, RowsOK, IsLog
  <2>2. ASSUME NEW blocked \in (SUBSET Test) \ {{}}, Goto(p, "results"),
               log' = [log EXCEPT !.last = "test_selected"],
               rows' = [rows EXCEPT ![p] = [t \in blocked |-> FALSE]]
        PROVE  Told
    <3>1. /\ at' \in [Run -> Steps] /\ at'[p] = "results"
          /\ \A q \in Run \ {p} : at'[q] = at[q]
      BY <2>2, GotoCases DEF RunIInv, Steps, Guarded
    <3>2. log' = [run |-> p, rows |-> log.rows, named |-> {},
                  last |-> "test_selected", status |-> log.status]
      BY <2>2, <1>2 DEF IsLog
    <3>3. /\ DOMAIN rows' = Run /\ \A q \in Run : DOMAIN rows'[q] \subseteq Test
          /\ rows'[p] = [t \in blocked |-> FALSE]
      BY <2>2 DEF RunIInv, RowsOK
    <3>4. ~ AllPass(rows'[p])
      <4>0. blocked # {}
        BY <2>2
      <4>1. PICK t : t \in blocked
        BY <4>0
      <4>2. t \in DOMAIN rows'[p] /\ rows'[p][t] = FALSE
        BY <3>3, <4>1
      <4> QED
        BY <4>2, Zenon DEF AllPass
    <3>5. EvidenceAgrees'
      BY <3>2 DEF EvidenceAgrees
    <3>6. LogIsRight(p)'
      BY <3>1, <3>2, <3>4 DEF LogIsRight, Reporting
    <3> QED
      BY <3>1, <3>2, <3>3, <3>5, <3>6 DEF IsLog
  <2>3. CASE Goto(p, "close") /\ Complete(p, "no_match") /\ UNCHANGED rows
    <3>1. /\ at' \in [Run -> Steps] /\ at'[p] = "close"
          /\ \A q \in Run \ {p} : at'[q] = at[q]
      BY <2>3, GotoCases DEF RunIInv, Steps, Guarded
    <3>2. log' = [run |-> p, rows |-> log.rows, named |-> {},
                  last |-> "run_completed", status |-> "no_match"]
      BY <2>3, <1>2 DEF IsLog, Complete
    <3>3. EvidenceAgrees' /\ LogIsRight(p)'
      BY <3>1, <3>2 DEF EvidenceAgrees, LogIsRight, Reporting
    <3> QED
      BY <2>3, <3>1, <3>2, <3>3 DEF RunIInv, RowsOK, IsLog
  <2> QED
    BY <2>1, <2>2, <2>3 DEF Select
<1>7. RowsOK'
  BY <1>3, <1>6 DEF RunIInv, RowsOK, suiteVars
<1>8. PoolIsRight(p)'
  BY <1>1, <1>4, <1>5, PoolKept DEF RunIInv
<1>9. ResultsAreRight(p)'
  <2>1. Collected(p)' = {} /\ Unpassed(p)' = {}
    BY <1>4, <1>5 DEF Kept, Collected, Unpassed, Test
  <2>2. Cardinality(Unpassed(p)') <= Workers(p)'
    BY <2>1, <1>4, FS_EmptySet, PoolHasRoom DEF RunIInv, Kept, Workers
  <2> QED
    BY <2>1, <2>2, <1>4, <1>5 DEF ResultsAreRight, Kept, Status
<1>10. EvidenceAgrees' /\ LogIsRight(p)' /\ \A q \in Run \ {p} : at'[q] = at[q]
  BY <1>6
<1> HIDE DEF Told
<1> QED
  BY <1>1, <1>3, <1>4, <1>7, <1>8, <1>9, <1>10, HolderStep

(* A step between the files and the end that leaves the pool alone.        *)
LEMMA QuietStep ==
  ASSUME RunIInv, NEW p \in Run, NEW step \in Steps, Goto(p, step),
         at[p] \notin Away \cup {"start", "select"},
         step \notin Away \cup {"start", "select", "suite"},
         running[p] # {} => step = "leaving",
         UNCHANGED <<suiteVars, lock, rows, wants>>, faults' \in 0 .. MaxFaults,
         IsLog(log'), EvidenceAgrees', LogIsRight(p)'
  PROVE  RunIInv'
<1>1. /\ at' \in [Run -> Steps] /\ at'[p] = step
      /\ \A q \in Run \ {p} : at'[q] = at[q]
  BY GotoCases DEF RunIInv
<1>2. \A q \in Run : Kept(q)
  BY DEF suiteVars, Kept
<1>3. RowsOK'
  BY <1>1 DEF RunIInv, RowsOK, suiteVars
<1>4. PoolIsRight(p)'
  BY <1>1, <1>2, PoolKept DEF RunIInv
<1>5. ResultsAreRight(p)'
  BY <1>1 DEF ResultsAreRight
<1> QED
  BY <1>1, <1>2, <1>3, <1>4, <1>5, HolderStep

(* A thread is only at files while they run, or are waited for.            *)
LEMMA NothingRuns ==
  ASSUME RunIInv, NEW p \in Run,
         \/ at[p] \notin {"suite", "leaving"}
         \/ \A t \in flight[p] : outcome[p][t] # "none"
  PROVE  running[p] = {}
BY DEF RunIInv, PoolIsRight

(* An exception leaves the pool only when no thread is at a file.          *)
LEMMA RaisedStep ==
  ASSUME RunIInv, NEW p \in Run, Raised(p)
  PROVE  RunIInv'
<1>1. at[p] = "suite" /\ Goto(p, "error") /\ at'[p] = "error"
  BY GotoCases DEF Raised, Then, RunIInv, Steps
<1>2. UNCHANGED <<suiteVars, lock, rows, artifacts, wants, faults>>
  BY DEF Raised
<1>3. running[p] = {}
  BY NothingRuns DEF Raised, SuiteRaised
<1>4. log.run = p /\ log.last # "run_completed" /\ IsLog(log) /\ EvidenceAgrees
  BY <1>1, NotCompleted DEF RunIInv, RowsOK, Away, Over
<1>5. IsLog(log') /\ EvidenceAgrees' /\ LogIsRight(p)'
  BY <1>1, <1>2, <1>4 DEF artifacts, EvidenceAgrees, LogIsRight, Reporting
<1> QED
  BY <1>1, <1>2, <1>3, <1>5, QuietStep DEF Away, Over, Steps, artifacts, RunIInv, RowsOK

(* The log records the rows that the run has built.                        *)
LEMMA ResultsStep ==
  ASSUME RunIInv, NEW p \in Run, Results(p)
  PROVE  RunIInv'
<1>1. at[p] = "results" /\ Goto(p, "latest") /\ at'[p] = "latest"
  BY GotoCases DEF Results, Then, RunIInv, Steps, Guarded
<1>2. UNCHANGED <<suiteVars, lock, rows, latest, requested, wants, faults>>
  BY DEF Results
<1>3. log.run = p /\ log.named = {} /\ (~ HurlRan(p) => ~ AllPass(rows[p]))
  BY <1>1 DEF RunIInv, LogIsRight, Away, Over, Reporting
<1>4. log' = [run |-> p, rows |-> rows[p], named |-> {}, last |-> "test_result",
              status |-> log.status]
  BY <1>3 DEF RunIInv, RowsOK, IsLog, Results
<1>5. IsLog(log') /\ EvidenceAgrees'
  BY <1>4 DEF IsLog, EvidenceAgrees
<1>6. LogIsRight(p)'
  BY <1>1, <1>2, <1>3, <1>4 DEF LogIsRight, Reporting, HurlRan, suiteVars
<1> QED
  BY <1>1, <1>2, <1>5, <1>6, NothingRuns, QuietStep
  DEF Away, Over, Steps, Guarded, RunIInv, RowsOK

(* An artifact is written before its event.                                *)
LEMMA WriteStep ==
  ASSUME RunIInv, NEW p \in Run, WriteLatest(p) \/ WriteReport(p)
  PROVE  RunIInv'
<1>1. /\ UNCHANGED <<suiteVars, lock, rows, log, wants, faults>>
      /\ IsLog(log') /\ EvidenceAgrees'
  <2>1. UNCHANGED <<suiteVars, lock, rows, log, wants, faults>>
    BY DEF WriteLatest, WriteReport
  <2>2. log.last # "run_completed"
    BY NotCompleted DEF WriteLatest, WriteReport, Then, Away, Over
  <2> QED
    BY <2>1, <2>2 DEF EvidenceAgrees, RunIInv, RowsOK
<1>2. CASE WriteLatest(p)
  <2>1. at[p] = "latest" /\ Goto(p, "record latest") /\ at'[p] = "record latest"
    BY <1>2, GotoCases DEF WriteLatest, Then, RunIInv, Steps, Guarded
  <2>2. latest' = p /\ requested' = requested
    BY <1>2 DEF WriteLatest
  <2>3. /\ log.run = p /\ log.last # "run_completed" /\ log.named = {}
        /\ ~ HurlRan(p) => ~ AllPass(rows[p])
        /\ log.rows = rows[p]
    BY <2>1 DEF RunIInv, LogIsRight, Away, Over, Reporting
  <2>4. LogIsRight(p)'
    BY <1>1, <2>1, <2>2, <2>3 DEF LogIsRight, Reporting, HurlRan, suiteVars
  <2> QED
    BY <1>1, <2>1, <2>4, NothingRuns, QuietStep
    DEF Away, Over, Steps, Guarded, RunIInv, RowsOK
<1>3. CASE WriteReport(p)
  <2>1. at[p] = "report" /\ Goto(p, "record report") /\ at'[p] = "record report"
    BY <1>3, GotoCases DEF WriteReport, Then, RunIInv, Steps, Guarded
  <2>2. requested' = p /\ latest' = latest
    BY <1>3 DEF WriteReport
  <2>3. /\ log.run = p /\ log.last # "run_completed" /\ log.named = {"latest-run"}
        /\ latest = p /\ (~ HurlRan(p) => ~ AllPass(rows[p]))
        /\ log.rows = rows[p]
    BY <2>1 DEF RunIInv, LogIsRight, Away, Over, Reporting
  <2>4. LogIsRight(p)'
    BY <1>1, <2>1, <2>2, <2>3 DEF LogIsRight, Reporting, HurlRan, suiteVars
  <2> QED
    BY <1>1, <2>1, <2>4, NothingRuns, QuietStep
    DEF Away, Over, Steps, Guarded, RunIInv, RowsOK
<1> QED
  BY <1>2, <1>3

(* The log names latest-run.json after it was written.                     *)
LEMMA RecordLatestStep ==
  ASSUME RunIInv, NEW p \in Run, RecordLatest(p)
  PROVE  RunIInv'
<1>1. PICK step \in {"report", "complete"} : Goto(p, step)
  BY DEF RecordLatest, Then
<1>2. at[p] = "record latest" /\ at'[p] = step
  BY <1>1, GotoCases DEF RecordLatest, Then, RunIInv, Steps, Guarded
<1>3. UNCHANGED <<suiteVars, lock, rows, latest, requested, wants, faults>>
  BY DEF RecordLatest
<1>4. /\ log.run = p /\ log.named = {} /\ log.rows = rows[p] /\ latest = p
      /\ ~ HurlRan(p) => ~ AllPass(rows[p])
  BY <1>2 DEF RunIInv, LogIsRight, Away, Over, Reporting
<1>5. log' = [run |-> p, rows |-> rows[p], named |-> {"latest-run"},
              last |-> "artifact_written", status |-> log.status]
  BY <1>4 DEF RunIInv, RowsOK, IsLog, RecordLatest
<1>6. IsLog(log') /\ EvidenceAgrees'
  BY <1>5 DEF IsLog, EvidenceAgrees
<1>7. LogIsRight(p)'
  BY <1>2, <1>3, <1>4, <1>5 DEF LogIsRight, Reporting, HurlRan, suiteVars
<1> QED
  BY <1>1, <1>2, <1>3, <1>6, <1>7, NothingRuns, QuietStep
  DEF Away, Over, Steps, Guarded, RunIInv, RowsOK

(* And the requested report after that.                                    *)
LEMMA RecordReportStep ==
  ASSUME RunIInv, NEW p \in Run, RecordReport(p)
  PROVE  RunIInv'
<1>1. at[p] = "record report" /\ Goto(p, "complete") /\ at'[p] = "complete"
  BY GotoCases DEF RecordReport, Then, RunIInv, Steps, Guarded
<1>2. UNCHANGED <<suiteVars, lock, rows, latest, requested, wants, faults>>
  BY DEF RecordReport
<1>3. /\ log.run = p /\ log.named = {"latest-run"} /\ log.rows = rows[p]
      /\ latest = p /\ requested = p
      /\ ~ HurlRan(p) => ~ AllPass(rows[p])
  BY <1>1 DEF RunIInv, LogIsRight, Away, Over, Reporting
<1>4. log' = [run |-> p, rows |-> rows[p], named |-> {"latest-run", "json-report"},
              last |-> "artifact_written", status |-> log.status]
  BY <1>3 DEF RunIInv, RowsOK, IsLog, RecordReport
<1>5. IsLog(log') /\ EvidenceAgrees'
  BY <1>4 DEF IsLog, EvidenceAgrees
<1>6. LogIsRight(p)'
  BY <1>1, <1>2, <1>3, <1>4 DEF LogIsRight, Reporting, HurlRan, suiteVars
<1> QED
  BY <1>1, <1>2, <1>5, <1>6, NothingRuns, QuietStep
  DEF Away, Over, Steps, Guarded, RunIInv, RowsOK

(* A completed log tells of rows that the run built, and names the         *)
(* artifacts that hold them.                                               *)
LEMMA FinishStep ==
  ASSUME RunIInv, NEW p \in Run, Finish(p)
  PROVE  RunIInv'
<1>1. at[p] = "complete" /\ Goto(p, "close") /\ at'[p] = "close"
  BY GotoCases DEF Finish, Then, RunIInv, Steps, Guarded
<1>2. UNCHANGED <<suiteVars, lock, rows, latest, requested, wants, faults>>
  BY DEF Finish
<1>3. /\ log.run = p /\ "latest-run" \in log.named /\ log.rows = rows[p] /\ latest = p
      /\ "json-report" \in log.named => requested = p
      /\ ~ HurlRan(p) => ~ AllPass(rows[p])
  BY <1>1 DEF RunIInv, LogIsRight, Away, Over, Reporting
<1>4. PICK status : /\ Complete(p, status)
                    /\ status = "passed" => AllPass(rows[p])
                    /\ status = "blocked" => ~ HurlRan(p)
  BY DEF Finish
<1>5. log' = [run |-> p, rows |-> rows[p], named |-> log.named,
              last |-> "run_completed", status |-> status]
  BY <1>3, <1>4 DEF RunIInv, RowsOK, IsLog, Complete
<1>6. IsLog(log') /\ EvidenceAgrees'
  BY <1>2, <1>3, <1>4, <1>5 DEF IsLog, EvidenceAgrees
<1>7. LogIsRight(p)'
  BY <1>1 DEF LogIsRight, Reporting
<1> QED
  BY <1>1, <1>2, <1>6, <1>7, NothingRuns, QuietStep
  DEF Away, Over, Steps, Guarded, RunIInv, RowsOK

(* A run that erred says so, and that it completed with an error.          *)
LEMMA RecordErrorStep ==
  ASSUME RunIInv, NEW p \in Run, RecordError(p) \/ RecordFailed(p)
  PROVE  RunIInv'
<1>1. UNCHANGED <<suiteVars, lock, rows, latest, requested, wants, faults>>
  BY DEF RecordError, RecordFailed
<1>2. at[p] \in {"error", "failed"} /\ running[p] = {} /\ log.run = p /\ IsLog(log)
  BY NothingRuns DEF RecordError, RecordFailed, Then, RunIInv, LogIsRight, RowsOK, Away, Over
<1>3. CASE RecordError(p)
  <2>1. Goto(p, "failed") /\ at'[p] = "failed"
    BY <1>3, GotoCases DEF RecordError, Then, RunIInv, Steps
  <2>2. log' = [run |-> p, rows |-> log.rows, named |-> log.named, last |-> "run_error",
                status |-> log.status]
    BY <1>2, <1>3 DEF IsLog, RecordError
  <2>3. IsLog(log') /\ EvidenceAgrees' /\ LogIsRight(p)'
    BY <2>1, <2>2 DEF IsLog, EvidenceAgrees, LogIsRight, Reporting
  <2> QED
    BY <1>1, <1>2, <2>1, <2>3, QuietStep DEF Away, Over, Steps, Guarded, RunIInv, RowsOK
<1>4. CASE RecordFailed(p)
  <2>1. Goto(p, "close") /\ at'[p] = "close"
    BY <1>4, GotoCases DEF RecordFailed, Then, RunIInv, Steps
  <2>2. log' = [run |-> p, rows |-> log.rows, named |-> log.named, last |-> "run_completed",
                status |-> "error"]
    BY <1>2, <1>4 DEF IsLog, RecordFailed, Complete
  <2>3. IsLog(log') /\ EvidenceAgrees' /\ LogIsRight(p)'
    BY <2>1, <2>2 DEF IsLog, EvidenceAgrees, LogIsRight, Reporting
  <2> QED
    BY <1>1, <1>2, <2>1, <2>3, QuietStep DEF Away, Over, Steps, Guarded, RunIInv, RowsOK
<1> QED
  BY <1>3, <1>4

(* A failed write is told by the handler, or by nobody.                    *)
LEMMA FailStep ==
  ASSUME RunIInv, NEW p \in Run, Fail(p)
  PROVE  RunIInv'
<1>1. /\ UNCHANGED <<suiteVars, lock, rows, log, latest, requested, wants>>
      /\ faults' \in 0 .. MaxFaults
  BY RunWorkflowAssumption DEF Fail, RunIInv, RowsOK, artifacts
<1>2. at[p] \in Guarded \cup {"error", "failed"} /\ running[p] = {}
  BY NothingRuns DEF Fail, Guarded
<1>3. PICK step \in {"error", "close"} :
        Goto(p, step) /\ (step = "error" => at[p] \in Guarded)
  BY DEF Fail
<1>4. at'[p] = step
  BY <1>3, GotoCases DEF RunIInv, Steps
<1>5. IsLog(log') /\ EvidenceAgrees'
  BY <1>1 DEF RunIInv, RowsOK, EvidenceAgrees
<1>6. LogIsRight(p)'
  BY <1>1, <1>2, <1>3, <1>4 DEF RunIInv, LogIsRight, Reporting, Guarded, Away, Over
<1>8. CASE at[p] # "select"
  BY <1>1, <1>2, <1>3, <1>5, <1>6, <1>8, QuietStep DEF Away, Over, Steps, Guarded
<1>9. CASE at[p] = "select"
  <2>1. /\ at' \in [Run -> Steps] /\ \A q \in Run \ {p} : at'[q] = at[q]
    BY <1>3, GotoCases DEF RunIInv, Steps
  <2>2. \A q \in Run : Kept(q)
    BY <1>1 DEF suiteVars, Kept
  <2>3. RowsOK'
    BY <1>1, <1>5, <2>1 DEF RunIInv, RowsOK, suiteVars
  <2>4. PoolIsRight(p)'
    BY <1>2, <1>9, <2>2, PoolKept DEF RunIInv
  <2>5. ResultsAreRight(p)'
    BY <1>4 DEF ResultsAreRight
  <2>6. at[p] \notin Away
    BY <1>9 DEF Away, Over
  <2> QED
    BY <1>1, <1>5, <1>6, <2>1, <2>2, <2>3, <2>4, <2>5, <2>6, HolderStep
<1> QED
  BY <1>8, <1>9

(* What is left of the files of a run that is over.                        *)
LEMMA DropCases ==
  ASSUME RunIInv, NEW p \in Run, SuiteDrop(p)
  PROVE  /\ mode' \in [Run -> Options \cup {NoSuite.mode}]
         /\ next' \in [Run -> 1 .. Count + 1] /\ flight' \in [Run -> SUBSET Test]
         /\ running' \in [Run -> SUBSET Test] /\ raised' \in [Run -> BOOLEAN]
         /\ report' \in [Run -> [Test -> Report \cup {Unread}]]
         /\ made' \in [Run -> [Test -> 0 .. Retries + 1]]
         /\ outcome' \in [Run -> [Test -> Status \cup {"none", "raised"}]]
         /\ PoolIsRight(p)'
         /\ \A q \in Run \ {p} : Kept(q)
<1> USE DEF RunIInv, RowsOK
<1>1. /\ NoSuite.next \in 1 .. Count + 1 /\ NoSuite.flight \in SUBSET Test
      /\ NoSuite.running \in SUBSET Test /\ NoSuite.raised \in BOOLEAN
      /\ NoSuite.report \in [Test -> Report \cup {Unread}]
      /\ NoSuite.made \in [Test -> 0 .. Retries + 1]
      /\ NoSuite.outcome \in [Test -> Status \cup {"none", "raised"}]
  BY HurlSuiteAssumption DEF NoSuite
<1>2. /\ mode' \in [Run -> Options \cup {NoSuite.mode}]
      /\ next' \in [Run -> 1 .. Count + 1] /\ flight' \in [Run -> SUBSET Test]
      /\ running' \in [Run -> SUBSET Test] /\ raised' \in [Run -> BOOLEAN]
  BY <1>1 DEF SuiteDrop
<1>3. /\ report' \in [Run -> [Test -> Report \cup {Unread}]]
      /\ made' \in [Run -> [Test -> 0 .. Retries + 1]]
      /\ outcome' \in [Run -> [Test -> Status \cup {"none", "raised"}]]
  BY <1>1 DEF SuiteDrop
<1>4. \A q \in Run \ {p} : Kept(q)
  BY DEF SuiteDrop, Kept
<1>5. /\ mode'[p] = [workers |-> 1, failFast |-> FALSE]
      /\ next'[p] = 1 /\ flight'[p] = {} /\ running'[p] = {} /\ raised'[p] = FALSE
      /\ made'[p] = [t \in Test |-> 0] /\ outcome'[p] = [t \in Test |-> "none"]
  BY DEF SuiteDrop, NoSuite
<1>6. PoolIsRight(p)'
  <2>1. Workers(p)' = 1 /\ Capacity(p)' = 1
    BY <1>5 DEF Workers, Capacity, Pooled
  <2>2. Cardinality(flight'[p]) = 0 /\ Cardinality(running'[p]) = 0
    BY <1>5, FS_EmptySet
  <2> QED
    BY <1>5, <2>1, <2>2, HurlSuiteAssumption DEF PoolIsRight
<1> QED
  BY <1>2, <1>3, <1>4, <1>6

(* A run that is over says nothing, and may leave the lock behind.         *)
LEMMA ExitStep ==
  ASSUME RunIInv, NEW p \in Run, at[p] # "idle" => at[p] \notin Away,
         NEW how \in Over, Exits(p, how), UNCHANGED artifacts,
         lock' = lock \/ (lock' = NoRun /\ at[p] # "idle"),
         faults' \in 0 .. MaxFaults
  PROVE  RunIInv'
<1>1. /\ at' \in [Run -> Steps] /\ at'[p] = how
      /\ \A q \in Run \ {p} : at'[q] = at[q]
  BY GotoCases DEF RunIInv, Steps, Exits
<1>2. PoolIsRight(p)' /\ \A q \in Run \ {p} : Kept(q)
  BY DropCases DEF Exits
<1>3. DOMAIN rows' = Run /\ rows'[p] = NoRows /\ \A q \in Run \ {p} : rows'[q] = rows[q]
  BY DEF Exits, RunIInv, RowsOK
<1>4. RowsOK'
  <2>1. /\ at' \in [Run -> Steps] /\ lock' \in Run \cup {NoRun}
        /\ wants' \subseteq Run /\ faults' \in 0 .. MaxFaults
        /\ IsLog(log')
    BY <1>1 DEF RunIInv, RowsOK, Exits, artifacts
  <2>2. \A q \in Run : DOMAIN rows'[q] \subseteq Test
    BY <1>3 DEF RunIInv, RowsOK, NoRows
  <2> QED
    BY <1>3, <2>1, <2>2, DropCases DEF Exits, RowsOK
<1>5. ResultsAreRight(p)' /\ LogIsRight(p)'
  BY <1>1 DEF Over, Away, ResultsAreRight, LogIsRight, Reporting
<1>6. EvidenceAgrees'
  BY DEF RunIInv, EvidenceAgrees, artifacts
<1>7. CASE at[p] # "idle"
  BY <1>1, <1>2, <1>4, <1>5, <1>6, <1>7, HolderStep DEF Away
<1>8. CASE at[p] = "idle"
  <2>1. ASSUME NEW q \in Run, q # p
        PROVE  PoolIsRight(q)' /\ ResultsAreRight(q)' /\ LogIsRight(q)'
    BY <1>1, <1>2, <1>3, <2>1, SameIsRight
  <2>2. OneRun'
    BY <1>1, <1>8 DEF RunIInv, OneRun, Away
  <2> QED
    BY <1>2, <1>4, <1>5, <1>6, <2>1, <2>2 DEF RunIInv
<1> QED
  BY <1>7, <1>8

(* A run takes a free lock, or ends.                                       *)
LEMMA OpenStep ==
  ASSUME RunIInv, NEW p \in Run, Open(p)
  PROVE  RunIInv'
<1>1. at[p] = "idle" /\ UNCHANGED <<artifacts, faults>>
  BY DEF Open
<1>2. CASE lock # NoRun
  BY <1>1, <1>2, ExitStep DEF Open, Over, RunIInv, RowsOK
<1>3. CASE lock = NoRun
  <2>1. PICK o \in Options, w \in {{}, {p}} :
          /\ lock' = p /\ Goto(p, "start") /\ UNCHANGED rows
          /\ mode' = [mode EXCEPT ![p] = o] /\ wants' = wants \cup w
          /\ UNCHANGED <<next, flight, running, report, made, outcome, raised>>
    BY <1>3 DEF Open
  <2>2. /\ at' \in [Run -> Steps] /\ at'[p] = "start"
        /\ \A q \in Run \ {p} : at'[q] = at[q]
    BY <2>1, GotoCases DEF RunIInv, Steps
  <2>3. \A q \in Run : at[q] \in Away
    BY <1>3, RunWorkflowAssumption DEF RunIInv, OneRun
  <2>4. ASSUME NEW q \in Run, q # p
        PROVE  PoolIsRight(q)' /\ ResultsAreRight(q)' /\ LogIsRight(q)'
    <3>1. Kept(q) /\ PoolIsRight(q)
      BY <2>1, <2>4 DEF Kept, RunIInv, RowsOK
    <3> QED
      BY <3>1, <2>2, <2>3, <2>4, AwayIsRight
  <2>5. mode' \in [Run -> Options \cup {NoSuite.mode}] /\ mode'[p] = o
    BY <2>1 DEF RunIInv, RowsOK
  <2>6. RowsOK'
    BY <1>1, <2>1, <2>2, <2>5 DEF RunIInv, RowsOK, artifacts
  <2>7. PoolIsRight(p)'
    <3>1. /\ next[p] = 1 /\ flight[p] = {} /\ raised[p] = FALSE /\ running[p] = {}
          /\ PoolIsRight(p)
      BY <2>3, <1>1, NothingRuns DEF RunIInv, PoolIsRight
    <3>2. Cardinality(flight'[p]) = 0 /\ Cardinality(running'[p]) = 0
      BY <2>1, <3>1, FS_EmptySet
    <3>3. PICK n \in Nat, m \in Nat : Capacity(p)' = n /\ Workers(p)' = m
      <4>1. o.workers \in Nat
        BY HurlSuiteAssumption
      <4> QED
        BY <2>5, <4>1, HurlSuiteAssumption DEF Capacity, Workers
    <3> QED
      BY <2>1, <3>1, <3>2, <3>3 DEF PoolIsRight
  <2>8. ResultsAreRight(p)' /\ LogIsRight(p)'
    BY <2>2 DEF ResultsAreRight, LogIsRight, Reporting
  <2>9. EvidenceAgrees'
    BY <1>1 DEF RunIInv, EvidenceAgrees, artifacts
  <2>10. OneRun'
    BY <2>1, <2>2, <2>3 DEF OneRun
  <2> QED
    BY <2>4, <2>6, <2>7, <2>8, <2>9, <2>10 DEF RunIInv
<1> QED
  BY <1>2, <1>3

(* Closing, failing at the start and being killed end the process.         *)
LEMMA EndStep ==
  ASSUME RunIInv, NEW p \in Run, Close(p) \/ StartFails(p) \/ Kill(p)
  PROVE  RunIInv'
<1>1. faults' \in 0 .. MaxFaults /\ UNCHANGED artifacts
  BY RunWorkflowAssumption DEF Close, StartFails, Kill, RunIInv, RowsOK
<1>2. at[p] \notin Away
  BY DEF Close, StartFails, Kill, Away, Over
<1>3. \E how \in Over : Exits(p, how)
  BY DEF Close, StartFails, Kill, Over
<1>4. lock' = lock \/ (lock' = NoRun /\ at[p] # "idle")
  BY DEF Close, StartFails, Kill
<1> QED
  BY <1>1, <1>2, <1>3, <1>4, ExitStep

(* The lock that the operator removes is nobody's.                         *)
LEMMA StaleStep ==
  ASSUME RunIInv, RemoveStale
  PROVE  RunIInv'
<1>1. \A q \in Run : at[q] \in Away
  BY DEF RemoveStale, RunIInv, RowsOK, OneRun, Away
<1>2. UNCHANGED <<suiteVars, at, rows, artifacts, wants, faults>> /\ lock' = NoRun
  BY DEF RemoveStale
<1>3. ASSUME NEW q \in Run
      PROVE  PoolIsRight(q)' /\ ResultsAreRight(q)' /\ LogIsRight(q)'
  <2>1. Kept(q) /\ at'[q] = at[q] /\ PoolIsRight(q)
    BY <1>2 DEF suiteVars, Kept, RunIInv
  <2> QED
    BY <1>1, <2>1, AwayIsRight
<1>4. RowsOK' /\ OneRun' /\ EvidenceAgrees'
  BY <1>1, <1>2 DEF RunIInv, RowsOK, OneRun, EvidenceAgrees, suiteVars, artifacts
<1> QED
  BY <1>3, <1>4 DEF RunIInv

-----------------------------------------------------------------------------
(* The pool                                                                *)

(* What the pool is handed: no more than it holds, in selection order, and *)
(* nothing after a failure under --fail-fast.  Whatever it is handed, few  *)
(* files did not pass, and it has ended only if all were handed out or one *)
(* failed.                                                                 *)
LEMMA RefillIsRight ==
  ASSUME RunIInv, NEW p \in Run, at[p] = "suite", at'[p] = "suite",
         NEW waiting \in SUBSET flight[p], running[p] \subseteq waiting,
         \A t \in Collected(p) \cup (flight[p] \ waiting) : outcome[p][t] \in Status,
         Refill(p, waiting, Collected(p) \cup (flight[p] \ waiting)),
         UNCHANGED <<mode, running, report, made, outcome, raised>>
  PROVE  /\ PoolIsRight(p)' /\ ResultsAreRight(p)'
         /\ next' \in [Run -> 1 .. Count + 1] /\ flight' \in [Run -> SUBSET Test]
         /\ \A q \in Run \ {p} : Kept(q)
<1> DEFINE collected == Collected(p) \cup (flight[p] \ waiting)
           room == IF Stopped(p, collected) THEN 0 ELSE Capacity(p) - Cardinality(waiting)
           upTo == IF next[p] + room > Count + 1 THEN Count + 1 ELSE next[p] + room
           new == next[p] .. (upTo - 1)
<1>1. /\ flight' = [flight EXCEPT ![p] = waiting \cup new]
      /\ next' = [next EXCEPT ![p] = upTo]
  BY DEF Refill
<1>2. /\ next[p] \in 1 .. Count + 1 /\ flight[p] \in SUBSET Test /\ Count \in Nat
      /\ waiting \in SUBSET Test
      /\ mode' = mode /\ outcome' = outcome /\ raised' = raised /\ made' = made
      /\ running' = running /\ report' = report
  BY HurlSuiteAssumption DEF RunIInv, RowsOK
<1>3. /\ Workers(p) \in Nat \ {0} /\ Capacity(p) \in Nat \ {0}
      /\ Workers(p)' = Workers(p) /\ Capacity(p)' = Capacity(p)
  BY <1>2, PoolHasRoom DEF RunIInv, Workers, Capacity, Pooled
<1>4. /\ IsFiniteSet(waiting) /\ Cardinality(waiting) \in Nat
      /\ Cardinality(waiting) <= Capacity(p)
  <2>1. IsFiniteSet(flight[p]) /\ Cardinality(flight[p]) \in Nat
    BY <1>2, FilesAreFinite
  <2>2. IsFiniteSet(waiting) /\ Cardinality(waiting) <= Cardinality(flight[p])
    BY <2>1, FS_Subset
  <2>3. Cardinality(waiting) \in Nat
    BY <2>2, FS_CardinalityType
  <2> QED
    BY <1>3, <2>1, <2>2, <2>3 DEF RunIInv, PoolIsRight
<1>5. /\ room \in Nat /\ upTo \in next[p] .. Count + 1 /\ upTo <= next[p] + room
      /\ ~ Stopped(p, collected) => room = Capacity(p) - Cardinality(waiting)
      /\ Stopped(p, collected) => upTo = next[p]
      /\ upTo <= Count => upTo = next[p] + room
  <2>1. CASE Stopped(p, collected)
    <3>1. room = 0
      BY <2>1
    <3> QED
      BY <2>1, <3>1, <1>2
  <2>2. CASE ~ Stopped(p, collected)
    <3>1. room = Capacity(p) - Cardinality(waiting) /\ room \in Nat
      BY <2>2, <1>3, <1>4
    <3> QED
      BY <2>2, <3>1, <1>2
  <2> QED
    BY <2>1, <2>2
<1> HIDE DEF room, upTo
<1>6. IsFiniteSet(new) /\ Cardinality(new) = upTo - next[p]
  <2>1. next[p] \in Int /\ upTo - 1 \in Int
    BY <1>2, <1>5
  <2>2. IsFiniteSet(new)
        /\ Cardinality(new) = IF next[p] > upTo - 1 THEN 0 ELSE (upTo - 1) - next[p] + 1
    BY <2>1, FS_Interval
  <2> QED
    BY <1>2, <1>5, <2>2
<1>7. new \subseteq Test /\ \A t \in new : t >= next[p] /\ t < upTo
  BY <1>2, <1>5 DEF Test
<1>8. next'[p] = upTo /\ flight'[p] = waiting \cup new
  BY <1>1, <1>2 DEF RunIInv, RowsOK
<1>9. /\ IsFiniteSet(waiting \cup new) /\ Cardinality(waiting \cup new) \in Nat
      /\ Cardinality(waiting \cup new) <= Cardinality(waiting) + (upTo - next[p])
  <2>1. /\ IsFiniteSet(waiting \cup new)
        /\ Cardinality(waiting \cup new)
             = Cardinality(waiting) + Cardinality(new) - Cardinality(waiting \cap new)
    BY <1>4, <1>6, FS_Union
  <2>2. IsFiniteSet(waiting \cap new)
    BY <1>4, FS_Subset
  <2>3. Cardinality(waiting \cap new) \in Nat /\ Cardinality(waiting \cup new) \in Nat
    BY <2>1, <2>2, FS_CardinalityType
  <2> QED
    BY <1>2, <1>4, <1>5, <1>6, <2>1, <2>3
<1>10. Cardinality(waiting \cup new) <= Capacity(p)
  <2>1. CASE Stopped(p, collected)
    BY <2>1, <1>2, <1>3, <1>4, <1>5, <1>9
  <2>2. CASE ~ Stopped(p, collected)
    BY <2>2, <1>2, <1>3, <1>4, <1>5, <1>9
  <2> QED
    BY <2>1, <2>2
<1>11. \A t \in flight[p] : t < next[p]
  BY DEF RunIInv, PoolIsRight
<1>12. \A t \in Test : t < upTo /\ t \notin waiting \cup new <=> t \in collected
  BY <1>2, <1>5, <1>7, <1>11 DEF Collected, Test
<1>13. \A t \in Test : t >= next[p] => outcome[p][t] = "none" /\ made[p][t] = 0
  BY DEF RunIInv, PoolIsRight
<1>14. PoolIsRight(p)'
  <2>1. \A t \in flight'[p] : t < next'[p]
    <3>1. \A t \in waiting : t < upTo
      BY <1>2, <1>5, <1>11 DEF Test
    <3> HIDE DEF new
    <3> QED
      BY <3>1, <1>7, <1>8
  <2>2. /\ running'[p] \subseteq {t \in flight'[p] : outcome'[p][t] = "none"}
        /\ Cardinality(running'[p]) <= Workers(p)'
    BY <1>2, <1>3, <1>8 DEF RunIInv, PoolIsRight
  <2>3. \A t \in Test : /\ outcome'[p][t] = "none" => made'[p][t] <= Retries
                        /\ t >= next'[p] => outcome'[p][t] = "none" /\ made'[p][t] = 0
    BY <1>2, <1>5, <1>8, <1>13 DEF RunIInv, PoolIsRight, Test
  <2>4. Cardinality(flight'[p]) <= Capacity(p)'
    BY <1>3, <1>8, <1>10
  <2> QED
    BY <2>1, <2>2, <2>3, <2>4 DEF PoolIsRight, Away, Over
<1>15. ResultsAreRight(p)'
  <2>1. Collected(p)' = collected
    <3>1. collected \subseteq Test
      BY <1>2 DEF Collected
    <3>2. Collected(p)' = {t \in Test : t < upTo} \ (waiting \cup new)
      BY <1>8 DEF Collected
    <3> HIDE DEF collected, new
    <3> QED
      BY <3>1, <3>2, <1>12
  <2>2. \A t \in Collected(p)' : outcome'[p][t] \in Status
    BY <2>1, <1>2
  <2>3. mode'[p].failFast => Cardinality(Unpassed(p)') <= Workers(p)'
    <3>1. CASE Stopped(p, collected)
      <4>1. Unpassed(p)' = Unpassed(p)
        BY <3>1, <1>2, <1>5, <1>8 DEF Unpassed
      <4> QED
        BY <4>1, <1>2, <1>3 DEF RunIInv, ResultsAreRight
    <3>2. CASE ~ Stopped(p, collected) /\ mode[p].failFast
      <4>1. Capacity(p) = Workers(p)
        BY <3>2 DEF Capacity
      <4>2. Unpassed(p)' \subseteq waiting \cup new
        BY <3>2, <1>2, <1>8, <1>12 DEF Unpassed, Stopped
      <4>3. Cardinality(Unpassed(p)') <= Cardinality(waiting \cup new)
            /\ Cardinality(Unpassed(p)') \in Nat
        BY <4>2, <1>9, FS_Subset, FS_CardinalityType
      <4> QED
        BY <4>1, <4>3, <1>3, <1>9, <1>10
    <3> QED
      BY <3>1, <3>2, <1>2
  <2>4. next'[p] > 1 /\ flight'[p] = {} /\ next'[p] <= Count => Stopped(p, Collected(p))'
    <3> SUFFICES ASSUME flight'[p] = {}, next'[p] <= Count, ~ Stopped(p, collected)
                 PROVE  FALSE
      BY <2>1, <1>2 DEF Stopped
    <3>1. waiting = {} /\ Cardinality(waiting) = 0
      BY <1>8, FS_EmptySet
    <3>2. upTo > next[p]
      BY <3>1, <1>2, <1>3, <1>5, <1>8
    <3>3. next[p] \in new
      BY <3>2, <1>2, <1>5
    <3> QED
      BY <3>3, <1>8
  <2>5. \A t \in Test : outcome'[p][t] \in Status =>
          /\ made'[p][t] > 0 /\ report'[p][t] \in Reports(t)
          /\ outcome'[p][t] = AttemptStatus(t, report'[p][t])
    BY <1>2 DEF RunIInv, ResultsAreRight
  <2> QED
    BY <2>2, <2>3, <2>4, <2>5 DEF ResultsAreRight
<1>16. next' \in [Run -> 1 .. Count + 1] /\ flight' \in [Run -> SUBSET Test]
  BY <1>1, <1>2, <1>5, <1>7 DEF RunIInv, RowsOK
<1>17. \A q \in Run \ {p} : Kept(q)
  BY <1>1, <1>2 DEF Kept, RunIInv, RowsOK
<1> QED
  BY <1>14, <1>15, <1>16, <1>17

(* The first files are handed out.                                         *)
LEMMA SubmitStep ==
  ASSUME RunIInv, NEW p \in Run, at[p] = "suite", at'[p] = "suite", Submit(p)
  PROVE  /\ PoolIsRight(p)' /\ ResultsAreRight(p)'
         /\ next' \in [Run -> 1 .. Count + 1] /\ flight' \in [Run -> SUBSET Test]
         /\ UNCHANGED <<mode, running, report, made, outcome, raised>>
         /\ \A q \in Run \ {p} : Kept(q)
<1>1. next[p] = 1
  BY HurlSuiteAssumption DEF Submit, HurlRan, RunIInv, RowsOK
<1>2. flight[p] = {} /\ running[p] = {} /\ Collected(p) = {}
  BY <1>1 DEF RunIInv, RowsOK, PoolIsRight, Collected, Test
<1>3. Refill(p, {}, {}) /\ UNCHANGED <<mode, running, report, made, outcome, raised>>
  BY DEF Submit
<1>4. PICK waiting \in SUBSET flight[p] : waiting = {}
  OBVIOUS
<1>5. Collected(p) \cup (flight[p] \ waiting) = {}
  BY <1>2
<1> QED
  BY <1>2, <1>3, <1>4, <1>5, RefillIsRight

(* Results are collected in the order they come in, and files follow them. *)
LEMMA CollectStep ==
  ASSUME RunIInv, NEW p \in Run, at[p] = "suite", at'[p] = "suite", Collect(p)
  PROVE  /\ PoolIsRight(p)' /\ ResultsAreRight(p)'
         /\ next' \in [Run -> 1 .. Count + 1] /\ flight' \in [Run -> SUBSET Test]
         /\ raised' \in [Run -> BOOLEAN]
         /\ UNCHANGED <<mode, running, report, made, outcome>>
         /\ \A q \in Run \ {p} : Kept(q)
<1>1. UNCHANGED <<mode, running, report, made, outcome>>
  BY DEF Collect
<1>2. PICK done \in SUBSET {t \in flight[p] : outcome[p][t] # "none"} :
        IF \E t \in done : outcome[p][t] = "raised"
          THEN raised' = [raised EXCEPT ![p] = TRUE] /\ UNCHANGED <<flight, next>>
          ELSE /\ Refill(p, flight[p] \ done, Collected(p) \cup done)
               /\ UNCHANGED raised
  BY DEF Collect
<1>3. CASE \E t \in done : outcome[p][t] = "raised"
  <2>1. raised' = [raised EXCEPT ![p] = TRUE] /\ UNCHANGED <<flight, next>>
    BY <1>2, <1>3
  <2>2. Capacity(p)' = Capacity(p) /\ Workers(p)' = Workers(p)
    BY <1>1 DEF Capacity, Workers, Pooled
  <2>3. PoolIsRight(p)'
    BY <1>1, <2>1, <2>2 DEF RunIInv, PoolIsRight, Away, Over
  <2>4. ResultsAreRight(p)'
    BY <1>1, <2>1, <2>2
    DEF RunIInv, ResultsAreRight, Collected, Unpassed, Stopped
  <2> QED
    BY <1>1, <2>1, <2>3, <2>4 DEF RunIInv, RowsOK, Kept
<1>4. CASE ~ \E t \in done : outcome[p][t] = "raised"
  <2>1. Refill(p, flight[p] \ done, Collected(p) \cup done) /\ UNCHANGED raised
    BY <1>2, <1>4
  <2>2. PICK waiting \in SUBSET flight[p] : waiting = flight[p] \ done
    OBVIOUS
  <2>3. done = flight[p] \ waiting
    BY <2>2
  <2>4. running[p] \subseteq waiting
    BY <2>2 DEF RunIInv, PoolIsRight
  <2>5. \A t \in Collected(p) \cup done : outcome[p][t] \in Status
    BY <1>4 DEF RunIInv, RowsOK, ResultsAreRight
  <2> QED
    BY <1>1, <2>1, <2>2, <2>3, <2>4, <2>5, RefillIsRight DEF RunIInv, RowsOK
<1> QED
  BY <1>3, <1>4

(* The first of some files is among them.                                  *)
LEMMA FirstFile ==
  ASSUME NEW S \in SUBSET Test, S # {}
  PROVE  (CHOOSE x \in S : \A y \in S : x <= y) \in S
<1> DEFINE Below == {ss \in Nat \X Nat : ss[1] < ss[2]}
<1>1. IsWellFoundedOn(Below, Nat)
  BY NatLessThanWellFounded DEF OpToRel
<1>2. S \subseteq Nat
  BY DEF Test
<1> HIDE DEF Below
<1>3. PICK m \in S : \A k \in S : <<k, m>> \notin Below
  BY <1>1, <1>2, WFMin
<1>4. ASSUME NEW k \in S, k < m PROVE FALSE
  <2>1. <<k, m>> \in Nat \X Nat /\ <<k, m>>[1] < <<k, m>>[2]
    BY <1>2, <1>4
  <2> QED
    BY <1>3, <2>1 DEF Below
<1>5. \E x \in S : \A y \in S : x <= y
  BY <1>2, <1>4
<1> QED
  BY <1>5, Zenon

(* A thread takes a file that waits, or finds that it cannot be attempted. *)
LEMMA TakeStep ==
  ASSUME RunIInv, NEW p \in Run, at[p] \in {"suite", "leaving"}, at'[p] = at[p], Take(p)
  PROVE  /\ PoolIsRight(p)' /\ ResultsAreRight(p)'
         /\ running' \in [Run -> SUBSET Test]
         /\ outcome' \in [Run -> [Test -> Status \cup {"none", "raised"}]]
         /\ UNCHANGED <<mode, next, flight, report, made, raised>>
         /\ \A q \in Run \ {p} : Kept(q)
<1> DEFINE waiting == {t \in flight[p] \ running[p] : outcome[p][t] = "none"}
<1>1. PICK t \in waiting :
        /\ Cardinality(running[p]) < Workers(p)
        /\ \/ running' = [running EXCEPT ![p] = @ \cup {t}] /\ UNCHANGED outcome
           \/ outcome' = [outcome EXCEPT ![p][t] = "raised"] /\ UNCHANGED running
        /\ UNCHANGED <<mode, next, flight, report, made, raised>>
  <2>1. waiting \in SUBSET Test
    BY DEF RunIInv, RowsOK
  <2>2. waiting # {} /\ Cardinality(running[p]) < Workers(p)
        /\ UNCHANGED <<mode, next, flight, report, made, raised>>
    BY DEF Take
  <2>3. PICK t : t = CHOOSE x \in waiting : \A y \in waiting : x <= y
    OBVIOUS
  <2>4. t \in waiting
    BY <2>1, <2>2, <2>3, FirstFile
  <2>5. \/ running' = [running EXCEPT ![p] = @ \cup {t}] /\ UNCHANGED outcome
        \/ outcome' = [outcome EXCEPT ![p][t] = "raised"] /\ UNCHANGED running
    BY <2>3 DEF Take
  <2> QED
    BY <2>2, <2>4, <2>5
<1>2. /\ t \in Test /\ t \in flight[p] /\ t \notin running[p] /\ outcome[p][t] = "none"
      /\ t < next[p]
  BY <1>1 DEF RunIInv, RowsOK, PoolIsRight
<1>3. /\ Workers(p) \in Nat \ {0}
      /\ Workers(p)' = Workers(p) /\ Capacity(p)' = Capacity(p)
  BY <1>1, PoolHasRoom DEF RunIInv, Workers, Capacity, Pooled
<1> HIDE DEF waiting
<1>4. CASE running' = [running EXCEPT ![p] = @ \cup {t}] /\ UNCHANGED outcome
  <2>1. running'[p] = running[p] \cup {t} /\ running' \in [Run -> SUBSET Test]
        /\ \A q \in Run \ {p} : running'[q] = running[q]
    BY <1>2, <1>4 DEF RunIInv, RowsOK
  <2>2. Cardinality(running'[p]) <= Workers(p)'
    <3>1. IsFiniteSet(running[p]) /\ Cardinality(running[p]) \in Nat
      BY FilesAreFinite DEF RunIInv, RowsOK
    <3>2. Cardinality(running[p] \cup {t}) = Cardinality(running[p]) + 1
      BY <1>2, <3>1, FS_AddElement
    <3> QED
      BY <1>1, <1>3, <2>1, <3>1, <3>2
  <2>3. PoolIsRight(p)'
    BY <1>1, <1>2, <1>3, <1>4, <2>1, <2>2 DEF RunIInv, PoolIsRight
  <2>4. ResultsAreRight(p)'
    BY <1>1, <1>3, <1>4 DEF RunIInv, ResultsAreRight, Collected, Unpassed, Stopped
  <2> QED
    BY <1>1, <1>4, <2>1, <2>3, <2>4 DEF RunIInv, RowsOK, Kept
<1>5. CASE outcome' = [outcome EXCEPT ![p][t] = "raised"] /\ UNCHANGED running
  <2>1. /\ outcome' \in [Run -> [Test -> Status \cup {"none", "raised"}]]
        /\ outcome'[p][t] = "raised"
        /\ \A u \in Test \ {t} : outcome'[p][u] = outcome[p][u]
        /\ \A q \in Run \ {p} : outcome'[q] = outcome[q]
    BY <1>2, <1>5 DEF RunIInv, RowsOK
  <2>2. PoolIsRight(p)'
    <3>1. running'[p] \subseteq {u \in flight'[p] : outcome'[p][u] = "none"}
      BY <1>1, <1>2, <1>5, <2>1 DEF RunIInv, RowsOK, PoolIsRight
    <3>2. \A u \in Test :
            /\ outcome'[p][u] = "none" => made'[p][u] <= Retries
            /\ u >= next'[p] => outcome'[p][u] = "none" /\ made'[p][u] = 0
      <4> SUFFICES ASSUME NEW u \in Test
                   PROVE  /\ outcome'[p][u] = "none" => made[p][u] <= Retries
                          /\ u >= next[p] => outcome'[p][u] = "none" /\ made[p][u] = 0
        BY <1>1
      <4>1. CASE u = t
        BY <4>1, <1>2, <2>1 DEF Test, RunIInv, RowsOK
      <4>2. CASE u # t
        BY <4>2, <2>1 DEF RunIInv, PoolIsRight
      <4> QED
        BY <4>1, <4>2
    <3> QED
      BY <1>1, <1>3, <1>5, <3>1, <3>2 DEF RunIInv, PoolIsRight, Away, Over
  <2>3. ResultsAreRight(p)'
    <3> SUFFICES ASSUME at[p] = "suite" PROVE ResultsAreRight(p)'
      BY DEF ResultsAreRight
    <3>1. Collected(p)' = Collected(p) /\ t \notin Collected(p)
      BY <1>1, <1>2 DEF Collected
    <3>2. Unpassed(p)' = Unpassed(p)
      BY <1>1, <1>2, <2>1 DEF Unpassed
    <3>3. Collected(p) \subseteq Test
      BY DEF Collected
    <3>4. Stopped(p, Collected(p))' <=> Stopped(p, Collected(p))
      BY <1>1, <2>1, <3>1, <3>3 DEF Stopped
    <3>5. \A u \in Test : outcome'[p][u] \in Status => u # t
      BY <2>1 DEF Status
    <3> QED
      BY <1>1, <1>3, <2>1, <3>1, <3>2, <3>3, <3>4, <3>5 DEF RunIInv, ResultsAreRight
  <2> QED
    BY <1>1, <1>5, <2>1, <2>2, <2>3 DEF RunIInv, RowsOK, Kept
<1> QED
  BY <1>1, <1>4, <1>5

(* Whatever Hurl answers has a status.                                     *)
LEMMA StatusIsKnown ==
  ASSUME NEW t \in Test, NEW r \in Reports(t)
  PROVE  AttemptStatus(t, r) \in Status /\ r \in Report
BY DEF Reports, AttemptStatus, Classify, ProcessStatus, Status

(* A file is attempted until it passes or its retries are used up.         *)
LEMMA AttemptStep ==
  ASSUME RunIInv, NEW p \in Run, at[p] \in {"suite", "leaving"}, at'[p] = at[p], Attempt(p)
  PROVE  /\ PoolIsRight(p)' /\ ResultsAreRight(p)'
         /\ running' \in [Run -> SUBSET Test]
         /\ made' \in [Run -> [Test -> 0 .. Retries + 1]]
         /\ report' \in [Run -> [Test -> Report \cup {Unread}]]
         /\ outcome' \in [Run -> [Test -> Status \cup {"none", "raised"}]]
         /\ UNCHANGED <<mode, next, flight, raised>>
         /\ \A q \in Run \ {p} : Kept(q)
<1>0. PICK t \in running[p] : \E r \in Reports(t) :
        /\ made' = [made EXCEPT ![p][t] = @ + 1]
        /\ IF AttemptStatus(t, r) = "passed" \/ LastAttempt(made[p][t] + 1)
             THEN /\ outcome' = [outcome EXCEPT ![p][t] = AttemptStatus(t, r)]
                  /\ running' = [running EXCEPT ![p] = @ \ {t}]
                  /\ report' = [report EXCEPT ![p][t] = r]
             ELSE UNCHANGED <<outcome, running, report>>
        /\ UNCHANGED <<mode, next, flight, raised>>
  BY DEF Attempt
<1>1. PICK r \in Reports(t) :
        /\ made' = [made EXCEPT ![p][t] = @ + 1]
        /\ IF AttemptStatus(t, r) = "passed" \/ LastAttempt(made[p][t] + 1)
             THEN /\ outcome' = [outcome EXCEPT ![p][t] = AttemptStatus(t, r)]
                  /\ running' = [running EXCEPT ![p] = @ \ {t}]
                  /\ report' = [report EXCEPT ![p][t] = r]
             ELSE UNCHANGED <<outcome, running, report>>
        /\ UNCHANGED <<mode, next, flight, raised>>
  BY <1>0
<1>2. /\ t \in Test /\ t \in flight[p] /\ outcome[p][t] = "none" /\ t < next[p]
      /\ made[p][t] \in 0 .. Retries /\ Retries \in Nat
  BY <1>0, HurlSuiteAssumption DEF RunIInv, RowsOK, PoolIsRight
<1>3. /\ Workers(p) \in Nat \ {0}
      /\ Workers(p)' = Workers(p) /\ Capacity(p)' = Capacity(p)
  BY <1>1, PoolHasRoom DEF RunIInv, Workers, Capacity, Pooled
<1>4. AttemptStatus(t, r) \in Status /\ r \in Report
  BY <1>1, <1>2, StatusIsKnown
<1>5. /\ made' \in [Run -> [Test -> 0 .. Retries + 1]]
      /\ made'[p][t] = made[p][t] + 1
      /\ \A u \in Test \ {t} : made'[p][u] = made[p][u]
      /\ \A q \in Run \ {p} : made'[q] = made[q]
  BY <1>1, <1>2 DEF RunIInv, RowsOK
<1>6. CASE AttemptStatus(t, r) = "passed" \/ LastAttempt(made[p][t] + 1)
  <2>1. /\ outcome' = [outcome EXCEPT ![p][t] = AttemptStatus(t, r)]
        /\ running' = [running EXCEPT ![p] = @ \ {t}]
        /\ report' = [report EXCEPT ![p][t] = r]
    BY <1>1, <1>6
  <2>2. /\ outcome' \in [Run -> [Test -> Status \cup {"none", "raised"}]]
        /\ outcome'[p][t] = AttemptStatus(t, r)
        /\ \A u \in Test \ {t} : outcome'[p][u] = outcome[p][u]
        /\ \A q \in Run \ {p} : outcome'[q] = outcome[q]
    BY <1>2, <1>4, <2>1 DEF RunIInv, RowsOK
  <2>3. /\ report' \in [Run -> [Test -> Report \cup {Unread}]]
        /\ report'[p][t] = r
        /\ \A u \in Test \ {t} : report'[p][u] = report[p][u]
        /\ \A q \in Run \ {p} : report'[q] = report[q]
    BY <1>2, <1>4, <2>1 DEF RunIInv, RowsOK
  <2>4. /\ running' \in [Run -> SUBSET Test] /\ running'[p] = running[p] \ {t}
        /\ \A q \in Run \ {p} : running'[q] = running[q]
    BY <2>1 DEF RunIInv, RowsOK
  <2>5. Cardinality(running'[p]) <= Workers(p)'
    <3>1. IsFiniteSet(running[p]) /\ Cardinality(running[p]) \in Nat
      BY FilesAreFinite DEF RunIInv, RowsOK
    <3>2. Cardinality(running'[p]) <= Cardinality(running[p])
      BY <2>4, <3>1, FS_Subset
    <3>3. Cardinality(running'[p]) \in Nat
      BY <2>4, FilesAreFinite
    <3> QED
      BY <1>3, <3>1, <3>2, <3>3 DEF RunIInv, PoolIsRight
  <2>6. PoolIsRight(p)'
    <3>1. running'[p] # {} => at'[p] \in {"suite", "leaving"}
      OBVIOUS
    <3>2. running'[p] \subseteq {u \in flight'[p] : outcome'[p][u] = "none"}
      BY <1>1, <2>2, <2>4 DEF RunIInv, RowsOK, PoolIsRight
    <3>3. \A u \in Test :
            /\ outcome'[p][u] = "none" => made'[p][u] <= Retries
            /\ u >= next'[p] => outcome'[p][u] = "none" /\ made'[p][u] = 0
      <4> SUFFICES ASSUME NEW u \in Test
                   PROVE  /\ outcome'[p][u] = "none" => made'[p][u] <= Retries
                          /\ u >= next[p] => outcome'[p][u] = "none" /\ made'[p][u] = 0
        BY <1>1
      <4>1. CASE u = t
        BY <4>1, <1>2, <1>4, <2>2 DEF Status, Test, RunIInv, RowsOK
      <4>2. CASE u # t
        BY <4>2, <1>5, <2>2 DEF RunIInv, PoolIsRight
      <4> QED
        BY <4>1, <4>2
    <3> QED
      BY <1>1, <1>3, <2>5, <3>1, <3>2, <3>3 DEF RunIInv, PoolIsRight, Away, Over
  <2>7. ResultsAreRight(p)'
    <3> SUFFICES ASSUME at[p] = "suite" PROVE ResultsAreRight(p)'
      BY DEF ResultsAreRight
    <3>1. Collected(p)' = Collected(p) /\ t \notin Collected(p) /\ Collected(p) \subseteq Test
      BY <1>1, <1>2 DEF Collected
    <3>2. Unpassed(p)' \subseteq Unpassed(p)
      BY <1>1, <1>2, <2>2 DEF Unpassed
    <3>3. mode[p].failFast => Cardinality(Unpassed(p)') <= Workers(p)
      <4>1. IsFiniteSet(Unpassed(p)) /\ Cardinality(Unpassed(p)) \in Nat
        BY FilesAreFinite DEF Unpassed
      <4>2. IsFiniteSet(Unpassed(p)') /\ Cardinality(Unpassed(p)') <= Cardinality(Unpassed(p))
        BY <3>2, <4>1, FS_Subset
      <4>3. Cardinality(Unpassed(p)') \in Nat
        BY <4>2, FS_CardinalityType
      <4> QED
        BY <1>3, <4>1, <4>2, <4>3 DEF RunIInv, ResultsAreRight
    <3>4. Stopped(p, Collected(p))' <=> Stopped(p, Collected(p))
      BY <1>1, <2>2, <3>1 DEF Stopped
    <3>5. \A u \in Test : outcome'[p][u] \in Status =>
            /\ made'[p][u] > 0 /\ report'[p][u] \in Reports(u)
            /\ outcome'[p][u] = AttemptStatus(u, report'[p][u])
      <4> SUFFICES ASSUME NEW u \in Test, outcome'[p][u] \in Status
                   PROVE  /\ made'[p][u] > 0 /\ report'[p][u] \in Reports(u)
                          /\ outcome'[p][u] = AttemptStatus(u, report'[p][u])
        OBVIOUS
      <4>1. CASE u = t
        BY <4>1, <1>1, <1>2, <1>5, <2>2, <2>3
      <4>2. CASE u # t
        BY <4>2, <1>5, <2>2, <2>3 DEF RunIInv, ResultsAreRight
      <4> QED
        BY <4>1, <4>2
    <3>6. \A u \in Collected(p)' : outcome'[p][u] \in Status
      BY <2>2, <3>1 DEF RunIInv, ResultsAreRight
    <3> QED
      BY <1>1, <1>3, <3>3, <3>4, <3>5, <3>6 DEF RunIInv, ResultsAreRight
  <2> QED
    BY <1>1, <1>5, <2>2, <2>3, <2>4, <2>6, <2>7 DEF Kept
<1>7. CASE ~ (AttemptStatus(t, r) = "passed" \/ LastAttempt(made[p][t] + 1))
  <2>1. UNCHANGED <<outcome, running, report>>
    BY <1>1, <1>7
  <2>2. made'[p][t] \in 0 .. Retries
    BY <1>2, <1>5, <1>7 DEF LastAttempt
  <2>3. PoolIsRight(p)'
    <3>1. \A u \in Test :
            /\ outcome'[p][u] = "none" => made'[p][u] <= Retries
            /\ u >= next'[p] => outcome'[p][u] = "none" /\ made'[p][u] = 0
      <4> SUFFICES ASSUME NEW u \in Test
                   PROVE  /\ outcome[p][u] = "none" => made'[p][u] <= Retries
                          /\ u >= next[p] => outcome[p][u] = "none" /\ made'[p][u] = 0
        BY <1>1, <2>1
      <4>1. CASE u = t
        BY <4>1, <1>2, <2>2 DEF Test, RunIInv, RowsOK
      <4>2. CASE u # t
        BY <4>2, <1>5 DEF RunIInv, PoolIsRight
      <4> QED
        BY <4>1, <4>2
    <3> QED
      BY <1>1, <1>3, <2>1, <3>1 DEF RunIInv, PoolIsRight
  <2>4. ResultsAreRight(p)'
    <3> SUFFICES ASSUME at[p] = "suite" PROVE ResultsAreRight(p)'
      BY DEF ResultsAreRight
    <3>1. \A u \in Test : outcome'[p][u] \in Status => made'[p][u] > 0
      BY <1>2, <1>5, <2>1 DEF RunIInv, ResultsAreRight, Status
    <3> QED
      BY <1>1, <1>3, <2>1, <3>1 DEF RunIInv, ResultsAreRight, Collected, Unpassed, Stopped
  <2> QED
    BY <1>1, <1>5, <2>1, <2>3, <2>4 DEF RunIInv, RowsOK, Kept
<1> QED
  BY <1>6, <1>7

(* Whichever thread moves, or the main thread, the pool and its results    *)
(* stay right.                                                             *)
LEMMA ExecuteStep ==
  ASSUME RunIInv, NEW p \in Run, Execute(p)
  PROVE  RunIInv'
<1>1. at[p] = "suite" /\ at' = at /\ UNCHANGED <<lock, rows, artifacts, wants, faults>>
  BY DEF Execute
<1>2. at[p] \notin Away /\ log.run = p /\ log.named = {} /\ log.last # "run_completed"
  BY <1>1 DEF RunIInv, LogIsRight, Away, Over
<1>3. IsLog(log') /\ EvidenceAgrees' /\ LogIsRight(p)'
  BY <1>1, <1>2 DEF artifacts, EvidenceAgrees, LogIsRight, Reporting, RunIInv, RowsOK
<1>4. /\ PoolIsRight(p)' /\ ResultsAreRight(p)' /\ \A q \in Run \ {p} : Kept(q)
      /\ RowsOK'
  <2>1. CASE Submit(p)
    BY <2>1, <1>1, <1>3, SubmitStep DEF RunIInv, RowsOK
  <2>2. CASE Take(p)
    BY <2>2, <1>1, <1>3, TakeStep DEF RunIInv, RowsOK
  <2>3. CASE Attempt(p)
    BY <2>3, <1>1, <1>3, AttemptStep DEF RunIInv, RowsOK
  <2>4. CASE Collect(p)
    BY <2>4, <1>1, <1>3, CollectStep DEF RunIInv, RowsOK
  <2> QED
    BY <2>1, <2>2, <2>3, <2>4 DEF Execute, SuiteStep
<1> QED
  BY <1>1, <1>2, <1>3, <1>4, HolderStep

(* Waiting for the threads attempts nothing that was not submitted.        *)
LEMMA DrainStep ==
  ASSUME RunIInv, NEW p \in Run, Drain(p)
  PROVE  RunIInv'
<1>1. at[p] = "leaving" /\ UNCHANGED <<lock, rows, artifacts, wants, faults>>
  BY DEF Drain
<1>2. at[p] \notin Away /\ log.run = p /\ log.last # "run_completed"
  BY <1>1 DEF RunIInv, LogIsRight, Away, Over
<1>3. CASE \A t \in flight[p] : outcome[p][t] # "none"
  <2>1. Goto(p, "close") /\ at'[p] = "close" /\ UNCHANGED suiteVars
    BY <1>3, GotoCases DEF Drain, RunIInv, Steps
  <2>2. running[p] = {}
    BY <1>3, NothingRuns
  <2>3. IsLog(log') /\ EvidenceAgrees' /\ LogIsRight(p)'
    BY <1>1, <1>2, <2>1 DEF artifacts, EvidenceAgrees, LogIsRight, Reporting, RunIInv, RowsOK
  <2> QED
    BY <1>1, <2>1, <2>2, <2>3, QuietStep DEF Away, Over, Steps, artifacts, RunIInv, RowsOK
<1>4. CASE ~ \A t \in flight[p] : outcome[p][t] # "none"
  <2>1. at' = at /\ (Take(p) \/ Attempt(p))
    BY <1>4 DEF Drain
  <2>2. IsLog(log') /\ EvidenceAgrees' /\ LogIsRight(p)'
    BY <1>1, <1>2, <2>1 DEF artifacts, EvidenceAgrees, LogIsRight, Reporting, RunIInv, RowsOK
  <2>3. /\ PoolIsRight(p)' /\ ResultsAreRight(p)' /\ \A q \in Run \ {p} : Kept(q)
        /\ RowsOK'
    <3>1. CASE Take(p)
      BY <3>1, <1>1, <2>1, <2>2, TakeStep DEF RunIInv, RowsOK
    <3>2. CASE Attempt(p)
      BY <3>2, <1>1, <2>1, <2>2, AttemptStep DEF RunIInv, RowsOK
    <3> QED
      BY <2>1, <3>1, <3>2
  <2> QED
    BY <1>1, <1>2, <2>1, <2>2, <2>3, HolderStep
<1> QED
  BY <1>3, <1>4

(* An interrupted run waits for its pool, or stops Hurl.                   *)
LEMMA InterruptStep ==
  ASSUME RunIInv, NEW p \in Run, Interrupt(p)
  PROVE  RunIInv'
<1>1. faults' \in 0 .. MaxFaults /\ UNCHANGED <<lock, rows, artifacts, wants>>
  BY RunWorkflowAssumption DEF Interrupt, RunIInv, RowsOK
<1>2. at[p] \notin Away
  BY DEF Interrupt, Guarded, Away, Over
<1>3. IsLog(log') /\ EvidenceAgrees'
  BY <1>1 DEF artifacts, EvidenceAgrees, RunIInv, RowsOK
<1>4. PICK step \in {"leaving", "close"} :
        /\ Goto(p, step) /\ (step = "leaving" => at[p] = "suite")
        /\ at[p] # "suite" => UNCHANGED suiteVars /\ at[p] \in Guarded \cup {"error", "failed"}
        /\ at[p] = "suite" => IF step = "leaving" THEN UNCHANGED suiteVars ELSE SuiteDrop(p)
  BY DEF Interrupt, Guarded
<1>5. /\ at' \in [Run -> Steps] /\ at'[p] = step
      /\ \A q \in Run \ {p} : at'[q] = at[q]
  BY <1>4, GotoCases DEF RunIInv, Steps
<1>6. LogIsRight(p)'
  <2>1. step = "leaving" => log.run = p /\ log.last # "run_completed"
    BY <1>4, NotCompleted DEF Away, Over
  <2> QED
    BY <1>1, <1>5, <2>1 DEF artifacts, LogIsRight, Reporting, Away, Over
<1>7. ResultsAreRight(p)'
  BY <1>5 DEF ResultsAreRight
<1>8. /\ PoolIsRight(p)' /\ \A q \in Run \ {p} : Kept(q)
      /\ RowsOK'
  <2>1. CASE UNCHANGED suiteVars
    <3>1. \A q \in Run : Kept(q)
      BY <2>1 DEF suiteVars, Kept
    <3>2. running[p] # {} => step = "leaving"
      <4>1. CASE at[p] = "suite" /\ step # "leaving"
        <5>1. SuiteDrop(p)
          BY <4>1, <1>4
        <5>2. running'[p] = {}
          BY <5>1 DEF SuiteDrop, NoSuite, RunIInv, RowsOK
        <5> QED
          BY <5>2, <2>1 DEF suiteVars
      <4>2. CASE at[p] # "suite"
        BY <4>2, <1>4, NothingRuns DEF Guarded
      <4> QED
        BY <4>1, <4>2
    <3>3. PoolIsRight(p)'
      BY <1>4, <1>5, <3>1, <3>2, PoolKept DEF RunIInv, Away, Over
    <3> QED
      BY <1>1, <1>3, <1>5, <2>1, <3>1, <3>3 DEF RunIInv, RowsOK, suiteVars
  <2>2. CASE SuiteDrop(p)
    BY <1>1, <1>3, <1>5, <2>2, DropCases DEF RunIInv, RowsOK
  <2> QED
    BY <1>4, <2>1, <2>2
<1> QED
  BY <1>1, <1>2, <1>3, <1>5, <1>6, <1>7, <1>8, HolderStep

(* What the results of an ended suite say: they are those of the first     *)
(* files, and if some are missing, one of them failed.                     *)
LEMMA EndedSays ==
  ASSUME RunIInv, NEW p \in Run, at[p] = "suite", SuiteEnded(p)
  PROVE  /\ next[p] - 1 \in Test /\ Collected(p) = 1 .. (next[p] - 1)
         /\ \A t \in Test : made[p][t] > 0 <=> t <= next[p] - 1
         /\ next[p] - 1 < Count =>
              mode[p].failFast /\ \E t \in Collected(p) : outcome[p][t] # "passed"
<1>1. /\ flight[p] = {} /\ next[p] > 1 /\ next[p] \in 1 .. Count + 1 /\ Count \in Nat
      /\ made[p] \in [Test -> 0 .. Retries + 1] /\ Retries \in Nat
  BY HurlSuiteAssumption DEF SuiteEnded, HurlRan, RunIInv, RowsOK
<1>2. next[p] - 1 \in Test /\ Collected(p) = 1 .. (next[p] - 1)
  BY <1>1 DEF Collected, Test
<1>3. ASSUME NEW t \in Test
      PROVE  made[p][t] > 0 <=> t <= next[p] - 1
  <2>1. CASE t <= next[p] - 1
    <3>1. t \in Collected(p)
      BY <1>1, <2>1 DEF Collected, Test
    <3>2. outcome[p][t] \in Status
      BY <3>1 DEF RunIInv, ResultsAreRight
    <3> QED
      BY <2>1, <3>2 DEF RunIInv, ResultsAreRight
  <2>2. CASE ~ (t <= next[p] - 1)
    <3>1. t >= next[p]
      BY <1>1, <2>2 DEF Test
    <3>2. made[p][t] = 0
      BY <3>1 DEF RunIInv, PoolIsRight
    <3> QED
      BY <2>2, <3>2
  <2> QED
    BY <2>1, <2>2
<1>4. next[p] - 1 < Count =>
        mode[p].failFast /\ \E t \in Collected(p) : outcome[p][t] # "passed"
  BY <1>1 DEF RunIInv, ResultsAreRight, Stopped
<1> QED
  BY <1>2, <1>3, <1>4

(* The rows are built, and nothing of the files is looked at again.        *)
LEMMA EndedStep ==
  ASSUME RunIInv, NEW p \in Run, Ended(p)
  PROVE  RunIInv'
<1>1. /\ at[p] = "suite" /\ Goto(p, "results") /\ SuiteEnded(p)
      /\ rows' = [rows EXCEPT ![p] = Rows(p)] /\ SuiteDone(p)
      /\ UNCHANGED <<lock, artifacts, wants, faults>>
  BY DEF Ended, Then
<1>2. /\ at' \in [Run -> Steps] /\ at'[p] = "results"
      /\ \A q \in Run \ {p} : at'[q] = at[q]
  BY <1>1, GotoCases DEF RunIInv, Steps, Guarded
<1>3. at[p] \notin Away /\ log.run = p /\ log.named = {} /\ log.last # "run_completed"
  BY <1>1 DEF RunIInv, LogIsRight, Away, Over
<1>4. IsLog(log') /\ EvidenceAgrees'
  BY <1>1 DEF artifacts, EvidenceAgrees, RunIInv, RowsOK
<1>5. flight[p] = {} /\ next[p] > 1 /\ raised[p] = FALSE /\ running[p] = {}
  BY <1>1 DEF SuiteEnded, HurlRan, RunIInv, RowsOK, PoolIsRight
<1>6. LogIsRight(p)'
  BY <1>1, <1>2, <1>3, <1>5 DEF LogIsRight, Reporting, artifacts, SuiteDone, HurlRan
<1>7. /\ UNCHANGED <<mode, next, flight, running, raised>>
      /\ report' \in [Run -> [Test -> Report \cup {Unread}]]
      /\ made' \in [Run -> [Test -> 0 .. Retries + 1]]
      /\ outcome' \in [Run -> [Test -> Status \cup {"none", "raised"}]]
      /\ made'[p] = [t \in Test |-> 0] /\ outcome'[p] = [t \in Test |-> "none"]
      /\ \A q \in Run \ {p} : Kept(q)
  <2>1. /\ NoSuite.report \in [Test -> Report \cup {Unread}]
        /\ NoSuite.made \in [Test -> 0 .. Retries + 1]
        /\ NoSuite.outcome \in [Test -> Status \cup {"none", "raised"}]
    BY HurlSuiteAssumption DEF NoSuite
  <2> QED
    BY <1>1, <2>1 DEF SuiteDone, RunIInv, RowsOK, Kept, NoSuite
<1>8. RowsOK'
  <2>1. DOMAIN rows' = Run /\ \A q \in Run : DOMAIN rows'[q] \subseteq Test
    BY <1>1 DEF RunIInv, RowsOK, Rows, Collected
  <2> QED
    BY <1>1, <1>2, <1>4, <1>7, <2>1 DEF RunIInv, RowsOK
<1>9. PoolIsRight(p)'
  <2>1. Capacity(p)' = Capacity(p) /\ Workers(p)' = Workers(p)
    BY <1>7 DEF Capacity, Workers, Pooled
  <2> QED
    BY <1>2, <1>5, <1>7, <2>1, HurlSuiteAssumption DEF RunIInv, PoolIsRight, Away, Over
<1>10. ResultsAreRight(p)'
  BY <1>2 DEF ResultsAreRight
<1> QED
  BY <1>1, <1>2, <1>3, <1>4, <1>6, <1>7, <1>8, <1>9, <1>10, HolderStep

-----------------------------------------------------------------------------
(* The theorems                                                            *)

(* The first states.                                                       *)
LEMMA RunInitInv == RunInit => RunIInv
<1> SUFFICES ASSUME RunInit PROVE RunIInv
  OBVIOUS
<1> USE DEF RunInit
<1>1. /\ mode = [p \in Run |-> [workers |-> 1, failFast |-> FALSE]]
      /\ next = [p \in Run |-> 1] /\ flight = [p \in Run |-> {}]
      /\ running = [p \in Run |-> {}] /\ raised = [p \in Run |-> FALSE]
      /\ report = [p \in Run |-> [t \in Test |-> Unread]]
      /\ made = [p \in Run |-> [t \in Test |-> 0]]
      /\ outcome = [p \in Run |-> [t \in Test |-> "none"]]
  BY DEF SuiteInit, NoSuite
<1>2. RowsOK
  <2>1. IsLog(log)
    BY DEF NoLog, IsLog
  <2>2. at \in [Run -> Steps] /\ faults \in 0 .. MaxFaults
    BY RunWorkflowAssumption DEF Steps
  <2>3. \A p \in Run : DOMAIN rows[p] \subseteq Test
    BY DEF NoRows
  <2> QED
    BY <1>1, <2>1, <2>2, <2>3, HurlSuiteAssumption DEF RowsOK, NoSuite
<1>3. OneRun /\ EvidenceAgrees
  BY DEF OneRun, Away, EvidenceAgrees, NoLog
<1>4. ASSUME NEW p \in Run
      PROVE  PoolIsRight(p) /\ ResultsAreRight(p) /\ LogIsRight(p)
  <2>1. Capacity(p) = 1 /\ Workers(p) = 1
    BY <1>1 DEF Capacity, Workers, Pooled
  <2>2. PoolIsRight(p)
    BY <1>1, <2>1, FS_EmptySet, HurlSuiteAssumption DEF PoolIsRight
  <2> QED
    BY <2>2 DEF ResultsAreRight, LogIsRight, Away, Reporting
<1> QED
  BY <1>2, <1>3, <1>4 DEF RunIInv

(* Every step.                                                             *)
LEMMA RunNextInv == RunIInv /\ [RunNext]_runVars => RunIInv'
<1> SUFFICES ASSUME RunIInv, [RunNext]_runVars PROVE RunIInv'
  OBVIOUS
<1>1. ASSUME NEW p \in Run, RunStep(p) PROVE RunIInv'
  BY <1>1, StartStep, SelectStep, ExecuteStep, EndedStep, RaisedStep, ResultsStep, WriteStep,
     RecordLatestStep, RecordReportStep, FinishStep, RecordErrorStep, DrainStep, EndStep
  DEF RunStep
<1>2. ASSUME NEW p \in Run, Open(p) \/ StartFails(p) \/ Fail(p) \/ Interrupt(p) \/ Kill(p)
      PROVE  RunIInv'
  BY <1>2, OpenStep, EndStep, FailStep, InterruptStep
<1>3. CASE UNCHANGED runVars
  <2>1. UNCHANGED <<suiteVars, at, lock, rows, artifacts, wants, faults>>
    BY <1>3 DEF runVars
  <2>2. \A q \in Run : PoolIsRight(q)' /\ ResultsAreRight(q)' /\ LogIsRight(q)'
    BY <2>1, SameIsRight DEF suiteVars, Kept
  <2>3. RowsOK' /\ OneRun' /\ EvidenceAgrees'
    BY <2>1 DEF RunIInv, RowsOK, OneRun, EvidenceAgrees, suiteVars, artifacts
  <2> QED
    BY <2>2, <2>3 DEF RunIInv
<1> QED
  BY <1>1, <1>2, <1>3, StaleStep DEF RunNext

(* However runs, their threads, faults and kills interleave, the pool, the *)
(* results and the log of each run are right and one run is past the lock. *)
THEOREM RunInvariant == RunSpec => []RunIInv
  BY RunInitInv, RunNextInv, PTL DEF RunSpec

(* Every stored value keeps to its domain, for any runs, files and modes.  *)
THEOREM RunTypeCorrect == RunSpec => []RunTypeOK
<1>1. RunIInv => RunTypeOK
  <2> SUFFICES ASSUME RunIInv PROVE RunTypeOK
    OBVIOUS
  <2>1. ASSUME NEW p \in Run
        PROVE  flight[p] \subseteq 1 .. (next[p] - 1)
    <3>1. next[p] \in 1 .. Count + 1 /\ flight[p] \in SUBSET Test /\ Count \in Nat
      BY HurlSuiteAssumption DEF RunIInv, RowsOK
    <3>2. \A t \in flight[p] : t < next[p]
      BY DEF RunIInv, PoolIsRight
    <3> QED
      BY <3>1, <3>2 DEF Test
  <2>2. ASSUME NEW p \in Run
        PROVE  running[p] \subseteq flight[p] /\ Cardinality(running[p]) <= Workers(p)
    BY DEF RunIInv, PoolIsRight
  <2> QED
    BY <2>1, <2>2 DEF RunIInv, RowsOK, RunTypeOK
<1> QED
  BY <1>1, RunInvariant, PTL

(* For any number of runs of a project, files, threads, retries, faults    *)
(* and kills: Hurl runs under the lock only, few files run after a failure *)
(* under --fail-fast, and a completed log agrees with what was written.    *)
THEOREM RunInvCorrect == RunSpec => []RunInv
<1>1. RunIInv => HurlRunsUnderTheLock /\ FewRunAfterAFailure /\ EvidenceAgrees
  <2> SUFFICES ASSUME RunIInv
               PROVE  HurlRunsUnderTheLock /\ FewRunAfterAFailure /\ EvidenceAgrees
    OBVIOUS
  <2>1. HurlRunsUnderTheLock
    BY DEF RunIInv, HurlRunsUnderTheLock, PoolIsRight, OneRun, Away, Over
  <2>2. FewRunAfterAFailure
    BY DEF RunIInv, FewRunAfterAFailure, ResultsAreRight, Unpassed
  <2> QED
    BY <2>1, <2>2 DEF RunIInv
<1> QED
  BY <1>1, RunInvariant, RunTypeCorrect, PTL DEF RunInv

(* Only one action of a run leads from its files to their results.         *)
LEMMA ResultsAreBuiltOnce ==
  ASSUME RunIInv, [RunNext]_runVars, NEW p \in Run, at[p] = "suite", at'[p] = "results"
  PROVE  Ended(p)
<1>1. ~ UNCHANGED runVars /\ ~ RemoveStale
  BY DEF runVars, RemoveStale
<1>2. PICK q \in Run :
        Open(q) \/ RunStep(q) \/ StartFails(q) \/ Fail(q) \/ Interrupt(q) \/ Kill(q)
  BY <1>1 DEF RunNext
<1>3. /\ at \in [Run -> Steps]
      /\ \A step : Goto(q, step) => at'[q] = step /\ \A r \in Run \ {q} : at'[r] = at[r]
  BY DEF RunIInv, RowsOK, Goto
<1>4. Open(q) \/ StartFails(q) \/ Fail(q) \/ Interrupt(q) \/ Kill(q) \/ Close(q) => FALSE
  <2>1. ASSUME NEW step \in {"start", "error", "close", "leaving", "done", "killed"},
               Goto(q, step)
        PROVE  FALSE
    BY <1>3, <2>1
  <2>2. Open(q) \/ StartFails(q) \/ Kill(q) \/ Close(q) => FALSE
    BY <2>1 DEF Open, StartFails, Kill, Close, Exits
  <2>3. Fail(q) \/ Interrupt(q) => FALSE
    BY <2>1 DEF Fail, Interrupt
  <2> QED
    BY <2>2, <2>3
<1>5. Start(q) \/ Select(q) \/ Execute(q) \/ Raised(q) \/ Results(q) => FALSE
  BY <1>3 DEF Start, Select, Execute, Raised, Results, Then
<1>6. WriteLatest(q) \/ RecordLatest(q) \/ WriteReport(q) \/ RecordReport(q) \/ Finish(q)
        => FALSE
  BY <1>3 DEF WriteLatest, RecordLatest, WriteReport, RecordReport, Finish, Then
<1>7. RecordError(q) \/ RecordFailed(q) \/ Drain(q) => FALSE
  BY <1>3 DEF RecordError, RecordFailed, Drain, Then
<1>8. Ended(q)
  BY <1>2, <1>4, <1>5, <1>6, <1>7 DEF RunStep
<1> QED
  BY <1>3, <1>8 DEF Ended, Then

(* The rows of a run are those of its first files in selection order, and  *)
(* missing files are owed to a failure among them under --fail-fast.       *)
LEMMA RowsAreThePrefixStep ==
  ASSUME RunIInv, [RunNext]_runVars, NEW p \in Run, at[p] = "suite", at'[p] = "results"
  PROVE  \E k \in Test :
           /\ DOMAIN rows'[p] = 1..k
           /\ \A t \in Test : made[p][t] > 0 <=> t <= k
           /\ k < Count => mode[p].failFast /\ ~AllPass(rows'[p])
<1>1. SuiteEnded(p) /\ rows' = [rows EXCEPT ![p] = Rows(p)]
  BY ResultsAreBuiltOnce DEF Ended
<1>2. rows'[p] = Rows(p)
  BY <1>1 DEF RunIInv, RowsOK
<1>3. /\ next[p] - 1 \in Test /\ Collected(p) = 1 .. (next[p] - 1)
      /\ \A t \in Test : made[p][t] > 0 <=> t <= next[p] - 1
      /\ next[p] - 1 < Count =>
           mode[p].failFast /\ \E t \in Collected(p) : outcome[p][t] # "passed"
  BY <1>1, EndedSays
<1>4. DOMAIN rows'[p] = Collected(p)
  BY <1>2 DEF Rows
<1>5. ASSUME NEW t \in Collected(p), outcome[p][t] # "passed"
      PROVE  ~ AllPass(rows'[p])
  <2>1. GatedStatus(t, outcome[p][t], report[p][t]) # "passed"
    BY <1>5 DEF GatedStatus
  <2>2. rows'[p][t] = FALSE
    BY <1>2, <2>1 DEF Rows
  <2> QED
    BY <1>4, <2>2, Zenon DEF AllPass
<1> QED
  BY <1>3, <1>4, <1>5

(* While a run is at its files, only its threads report on them.           *)
LEMMA ThreadsReport ==
  ASSUME RunIInv, [RunNext]_runVars, NEW p \in Run,
         at[p] \in {"suite", "leaving"}, at'[p] = at[p]
  PROVE  Take(p) \/ Attempt(p) \/ (made'[p] = made[p] /\ outcome'[p] = outcome[p])
<1>1. CASE UNCHANGED suiteVars
  BY <1>1 DEF suiteVars
<1>2. CASE \E q \in Run :
             Open(q) \/ RunStep(q) \/ StartFails(q) \/ Fail(q) \/ Interrupt(q) \/ Kill(q)
  <2>1. PICK q \in Run :
          Open(q) \/ RunStep(q) \/ StartFails(q) \/ Fail(q) \/ Interrupt(q) \/ Kill(q)
    BY <1>2
  <2>2. /\ at \in [Run -> Steps]
        /\ \A step : Goto(q, step) => at'[q] = step
    BY DEF RunIInv, RowsOK, Goto
  <2>3. lock = p /\ lock # NoRun
    BY RunWorkflowAssumption DEF RunIInv, OneRun, Away, Over
  <2>4. CASE q = p
    <3>1. ASSUME NEW step \in {"start", "error", "close", "done", "killed"}, Goto(p, step)
          PROVE  FALSE
      BY <2>2, <2>4, <3>1
    <3>2. ~ (Open(p) \/ StartFails(p) \/ Kill(p) \/ Close(p))
      BY <3>1 DEF Open, StartFails, Kill, Close, Exits
    <3>3. ~ Fail(p)
      BY <3>1 DEF Fail
    <3>4. Interrupt(p) => at[p] = "suite" /\ Goto(p, "leaving")
      BY <3>1 DEF Interrupt, Guarded
    <3>5. ~ Interrupt(p)
      BY <3>4, <2>2, <2>4
    <3>6. ~ (Start(p) \/ Select(p) \/ Results(p) \/ WriteLatest(p) \/ RecordLatest(p)
             \/ WriteReport(p) \/ RecordReport(p) \/ Finish(p)
             \/ RecordError(p) \/ RecordFailed(p))
      BY DEF Start, Select, Results, WriteLatest, RecordLatest, WriteReport, RecordReport,
             Finish, RecordError, RecordFailed, Then
    <3>7. ~ (Ended(p) \/ Raised(p))
      BY <2>2, <2>4 DEF Ended, Raised, Then
    <3>8. Execute(p) \/ Drain(p)
      BY <2>1, <2>4, <3>2, <3>3, <3>5, <3>6, <3>7 DEF RunStep
    <3>9. Submit(p) \/ Collect(p) => made' = made /\ outcome' = outcome
      BY DEF Submit, Collect
    <3>10. CASE Execute(p)
      BY <3>9, <3>10 DEF Execute, SuiteStep
    <3>11. CASE Drain(p)
      BY <3>1, <3>11 DEF Drain
    <3> QED
      BY <3>8, <3>10, <3>11
  <2>5. CASE q # p
    <3>1. at[q] \in {"idle", "done", "killed"}
      BY <2>3, <2>5 DEF RunIInv, OneRun, Away, Over
    <3>2. ~ (StartFails(q) \/ Fail(q) \/ Interrupt(q) \/ Kill(q) \/ Close(q) \/ Drain(q)
             \/ Execute(q) \/ Select(q))
      BY <3>1 DEF StartFails, Fail, Interrupt, Kill, Guarded, Over, Close, Drain, Execute,
                  Select
    <3>3. ~ (Start(q) \/ Ended(q) \/ Raised(q) \/ Results(q) \/ WriteLatest(q)
             \/ RecordLatest(q) \/ WriteReport(q) \/ RecordReport(q) \/ Finish(q)
             \/ RecordError(q) \/ RecordFailed(q))
      BY <3>1 DEF Start, Ended, Raised, Results, WriteLatest, RecordLatest, WriteReport,
                  RecordReport, Finish, RecordError, RecordFailed, Then
    <3>4. Open(q)
      BY <2>1, <3>2, <3>3 DEF RunStep
    <3>5. SuiteDrop(q)
      BY <2>3, <3>4 DEF Open, Exits
    <3> QED
      BY <2>5, <3>5, DropCases DEF Kept
  <2> QED
    BY <2>4, <2>5
<1>3. CASE RemoveStale
  BY <1>1, <1>3 DEF RemoveStale
<1> QED
  BY <1>1, <1>2, <1>3 DEF RunNext, runVars

(* A file is not attempted again once it has a result, and a result that   *)
(* is no pass is that of the last attempt.                                 *)
LEMMA RetriesAreHonestStep ==
  ASSUME RunIInv, [RunNext]_runVars, NEW p \in Run, NEW t \in Test,
         at[p] \in {"suite", "leaving"}, at'[p] = at[p]
  PROVE  /\ made'[p][t] # made[p][t] => outcome[p][t] = "none"
         /\ outcome'[p][t] # outcome[p][t] /\ outcome'[p][t] \in Status =>
              outcome'[p][t] = "passed" \/ made'[p][t] = Retries + 1
<1>1. CASE made'[p] = made[p] /\ outcome'[p] = outcome[p]
  BY <1>1
<1>2. CASE Take(p)
  <2>1. made' = made
    BY <1>2 DEF Take
  <2>2. PICK u : outcome' = outcome \/ outcome' = [outcome EXCEPT ![p][u] = "raised"]
    BY <1>2 DEF Take
  <2>3. outcome'[p][t] \in {outcome[p][t], "raised"}
    BY <2>2 DEF RunIInv, RowsOK
  <2> QED
    BY <2>1, <2>3 DEF Status
<1>3. CASE Attempt(p)
  <2>1. PICK u \in running[p] : \E r \in Reports(u) :
          /\ made' = [made EXCEPT ![p][u] = @ + 1]
          /\ IF AttemptStatus(u, r) = "passed" \/ LastAttempt(made[p][u] + 1)
               THEN outcome' = [outcome EXCEPT ![p][u] = AttemptStatus(u, r)]
               ELSE UNCHANGED outcome
    BY <1>3 DEF Attempt
  <2>2. PICK r \in Reports(u) :
          /\ made' = [made EXCEPT ![p][u] = @ + 1]
          /\ IF AttemptStatus(u, r) = "passed" \/ LastAttempt(made[p][u] + 1)
               THEN outcome' = [outcome EXCEPT ![p][u] = AttemptStatus(u, r)]
               ELSE UNCHANGED outcome
    BY <2>1
  <2>3. u \in Test /\ outcome[p][u] = "none"
    BY <2>1 DEF RunIInv, RowsOK, PoolIsRight
  <2>4. CASE t # u
    BY <2>2, <2>3, <2>4 DEF RunIInv, RowsOK
  <2>5. CASE t = u
    <3>1. made'[p][t] = made[p][t] + 1
      BY <2>2, <2>3, <2>5 DEF RunIInv, RowsOK
    <3>2. outcome'[p][t] # outcome[p][t] =>
            /\ AttemptStatus(u, r) = "passed" \/ LastAttempt(made[p][u] + 1)
            /\ outcome'[p][t] = AttemptStatus(u, r)
      BY <2>2, <2>3, <2>5 DEF RunIInv, RowsOK
    <3> QED
      BY <2>3, <2>5, <3>1, <3>2 DEF LastAttempt
  <2> QED
    BY <2>4, <2>5
<1> QED
  BY <1>1, <1>2, <1>3, ThreadsReport

(* Neither the order in which threads finish, nor --fail-fast, nor retries *)
(* change which files a run has rows for, or let a failure be retried away.*)
THEOREM ResultsAreHonestCorrect == RunSpec => ResultsAreHonest
<1> DEFINE Prefix ==
             \A p \in Run : at[p] = "suite" /\ at'[p] = "results" =>
               \E k \in Test :
                 /\ DOMAIN rows'[p] = 1..k
                 /\ \A t \in Test : made[p][t] > 0 <=> t <= k
                 /\ k < Count => mode[p].failFast /\ ~AllPass(rows'[p])
           Honest ==
             \A p \in Run, t \in Test :
               at[p] \in {"suite", "leaving"} /\ at'[p] = at[p] =>
                 /\ made'[p][t] # made[p][t] => outcome[p][t] = "none"
                 /\ outcome'[p][t] # outcome[p][t] /\ outcome'[p][t] \in Status =>
                      outcome'[p][t] = "passed" \/ made'[p][t] = Retries + 1
<1>1. RunIInv /\ [RunNext]_runVars => Prefix /\ Honest
  BY RowsAreThePrefixStep, RetriesAreHonestStep
<1>2. RunIInv /\ [RunNext]_runVars => [Prefix]_runVars /\ [Honest]_runVars
  BY <1>1
<1> HIDE DEF Prefix, Honest
<1>3. RunSpec => [][Prefix]_runVars /\ [][Honest]_runVars
  BY <1>2, RunInvariant, PTL DEF RunSpec
<1> QED
  BY <1>3 DEF Prefix, Honest, ResultsAreHonest, RowsAreThePrefix, RetriesAreHonest

(* What the two looks at the gates of a file, at the attempt and at the    *)
(* collected result, amount to.                                            *)
LEMMA GatesAreJudged ==
  ASSUME NEW t \in Test, NEW r \in Reports(t), Injected[t] # {}
  PROVE  GatedStatus(t, AttemptStatus(t, r), r) = "passed"
           <=> /\ r.exit \in {"zero", "nonzero"} /\ r.whole
               /\ r.failed \subseteq Gate \ Blocking
<1>1. /\ r.exit \in {"zero", "nonzero", "timeout", "unlaunched"} /\ r.whole \in BOOLEAN
      /\ r.failed \subseteq Injected[t] \cup {"source"}
      /\ r.exit \in {"timeout", "unlaunched"} => r.failed = {} /\ ~r.whole
      /\ ~r.whole => r.failed = {}
      /\ r.exit = "zero" => r.failed = {} /\ r.whole
      /\ r.exit = "nonzero" => r.failed # {} \/ ~r.whole
  BY HurlSuiteAssumption DEF Reports, Report
<1>2. Injected[t] \subseteq Gate /\ "source" \notin Gate
  BY HurlSuiteAssumption
<1>3. CASE r.exit \in {"timeout", "unlaunched"}
  BY <1>1, <1>3 DEF AttemptStatus, ProcessStatus, GatedStatus
<1>4. CASE r.exit = "zero"
  <2>1. ~ Blocked(r) /\ AttemptStatus(t, r) = "passed"
    BY <1>1, <1>4 DEF AttemptStatus, Classify, Blocked, ProcessStatus
  <2> QED
    BY <1>1, <1>4, <2>1 DEF GatedStatus
<1>5. CASE r.exit = "nonzero" /\ ~ r.whole
  BY <1>1, <1>5 DEF AttemptStatus, GatedStatus
<1>6. CASE r.exit = "nonzero" /\ r.whole /\ Blocked(r)
  <2>1. AttemptStatus(t, r) = "failed"
    BY <1>6 DEF AttemptStatus, Classify, ProcessStatus
  <2>2. ~ (r.failed \subseteq Gate \ Blocking)
    BY <1>2, <1>6 DEF Blocked
  <2> QED
    BY <2>1, <2>2 DEF GatedStatus
<1>7. CASE r.exit = "nonzero" /\ r.whole /\ ~ Blocked(r)
  <2>1. AttemptStatus(t, r) = "passed"
    BY <1>1, <1>7 DEF AttemptStatus, Classify
  <2>2. r.failed \subseteq Gate \ Blocking /\ r.failed \cap Injected[t] \cap Blocking = {}
    BY <1>1, <1>2, <1>7 DEF Blocked
  <2> QED
    BY <1>7, <2>1, <2>2 DEF GatedStatus
<1> QED
  BY <1>1, <1>3, <1>4, <1>5, <1>6, <1>7

(* A row passes exactly when Hurl ran, told all it was asked, and nothing  *)
(* but gates that warn failed, whatever was retried, in any order.         *)
THEOREM PassIsEarnedCorrect == RunSpec => PassIsEarned
<1> DEFINE Earned ==
             \A p \in Run : at[p] = "suite" /\ at'[p] = "results" =>
               \A t \in DOMAIN rows'[p] :
                 Injected[t] # {} =>
                   (rows'[p][t] <=> /\ report[p][t].exit \in {"zero", "nonzero"}
                                    /\ report[p][t].whole
                                    /\ report[p][t].failed \subseteq Gate \ Blocking)
<1>1. ASSUME RunIInv, [RunNext]_runVars, NEW p \in Run, at[p] = "suite", at'[p] = "results",
             NEW t \in DOMAIN rows'[p], Injected[t] # {}
      PROVE  rows'[p][t] <=> /\ report[p][t].exit \in {"zero", "nonzero"}
                             /\ report[p][t].whole
                             /\ report[p][t].failed \subseteq Gate \ Blocking
  <2>1. rows'[p] = Rows(p)
    BY <1>1, ResultsAreBuiltOnce DEF Ended, RunIInv, RowsOK
  <2>2. t \in Collected(p) /\ t \in Test
    BY <1>1, <2>1 DEF Rows, Collected
  <2>3. report[p][t] \in Reports(t) /\ outcome[p][t] = AttemptStatus(t, report[p][t])
    BY <1>1, <2>2 DEF RunIInv, ResultsAreRight
  <2>4. rows'[p][t] <=> GatedStatus(t, AttemptStatus(t, report[p][t]), report[p][t]) = "passed"
    BY <2>1, <2>2, <2>3 DEF Rows
  <2> QED
    BY <1>1, <2>2, <2>3, <2>4, GatesAreJudged
<1>2. RunIInv /\ [RunNext]_runVars => [Earned]_runVars
  BY <1>1
<1> HIDE DEF Earned
<1>3. RunSpec => [][Earned]_runVars
  BY <1>2, RunInvariant, PTL DEF RunSpec
<1> QED
  BY <1>3 DEF Earned, PassIsEarned
=============================================================================
