# Verification of Entroping's factory control plane

TLA+ models, model-checking runs and machine-checked proofs for the parts of this
repository where processes, crashes, money and other people's files meet: the *factory*, a
set of short-lived command-line processes (`scripts/factory_*.py`, `scripts/ai_jobs.py`) that
hand out development work to workers, pay for it from a shared budget, deliver it and recover
what dead processes leave behind; and the product's own run command.

Check everything from this directory:

    tlc -workers 2 -config SchedulerRecovery.cfg MCFactoryScheduler.tla
    tlapm FactorySchedulerProofs.tla

`PROJECT.json` lists components, runs, theorems, hazards, and for every definition the
source lines it models.

## 1. Inventory

### The factory (`src/scripts`, decisions ADR-0022 to ADR-0032)

**Budget ledger, dispatch authority** (`factory_budget_reservations.py`,
`factory_budget_settlement*.py`, `factory_budget_uncertainty.py`,
`factory_budget_reconciliation.py`, `factory_quota_authorization.py`,
`factory_quota_settlement*.py`, `factory_quota_integrity.py`).
State: one SQLite file; per job at most one row in `cost_reservations` and one in
`dispatch_authorizations`. Operations: reserve, authorize, consume for launch, settle,
mark uncertain, reconcile (no charge, manual debit), and settle, release, mark uncertain
for quota-billed jobs. Each is one `BEGIN IMMEDIATE` transaction; on every connection the
whole database is validated first. Hard: six operations in two modules write two rows that
must agree; replays link new authority to old cash; receipts come late or twice. Correct
when: authority is spent once, the two rows tell one story, finished cash never moves
again, held cash can always be resolved.

**Budget ledger, cash accounting** (`factory_budget_ledger_entries.py`, `_rules.py`,
`_periods.py`, `_integrity.py`, `factory_budget_reservation_integrity.py`,
`factory_budget_reconciliation_mutations.py`, `factory_quota_thresholds.py`). State: months
with a cap and an emergency reserve, immutable entries (charges, refunds, adjustments), and
two cached sums per month: net spend and active holds. Hard: net spend may be negative, refunds
arrive in later months, four operations change row, entry and both sums together.
Correct when: spent plus held never exceeds cap less reserve, the cached sums are the sums of
the rows, refunds never exceed their charge, and launches keep the margin of the thresholds.

**Quota accounting** (`factory_quota_capacity.py`, `_inclusions.py`, `_windows.py`,
`_store.py`, `_evidence.py`). State: what the provider allows in calendar or rolling windows,
readings of its meter that the maintainer signs together with the work they include, and the
holds of authorized jobs. Operations: prepare a request on a reading, admit it, check it again
at the launch, settle, release, keep uncertain. Hard: the meter lags, readings arrive late,
requests reach the ledger after others, windows overlap. Correct when: no window is overspent,
units that were spent stay on the books, and an accepted reading stays valid.

**Ledger storage** (`factory_budget_ledger_storage.py`, `_locking.py`, `_fs.py`,
`_migration.py`). Files, `flock`, permissions, SQLite settings.

**Scheduler** (`factory_scheduler*.py`). State: one SQLite file with a clock row, one
lease row (owner, epoch, expiry), assignments, one execution row per assignment and
recovery receipts. Operations: tick (assign), heartbeat, transition, complete, recover.
It reads the ledger, under the ledger's write lock, whenever paid work is admitted,
completed or recovered. Hard: owners die between any two steps; a new owner takes the
lease or a single assignment; leases of siblings are renewed together; a completed or
failed dispatch is only known from what the caller declares and the ledger confirms.
Correct when: at most one running process drives accepted work, ambiguous work is never
sent again, slots are exclusive and return only when money is settled.

**Retry policy** (`factory_retry_policy.py`): attempt and elapsed limits, exponential
delay with deterministic jitter.

**Delivery admission** (`factory_scheduler_delivery.py`, `factory_delivery_admission.py`):
selects and revalidates the live issue before a free writer's tick.

**Paid dispatch preparation** (`factory_paid_dispatch_reservation.py`): policy evaluation
that builds the ledger requests.

**AI job queue** (`ai_jobs.py`, `ai_job_quarantine_modules/`): job files in the directories
`queued`, `running`, `completed`, `failed` and `quarantined`. Operations: submit, `run-next`
(first a scan that condemns abandoned running jobs, then a claim by rename, the launch of a
worker, a verdict), quarantine, requeue. Hard: every operation is several file operations and
ledger transactions, two processes do it side by side, either may be killed. Correct when: a
job has one worker, is never lost, never runs on written-off authority and never ends
completed while its money is open.

**Pull-request delivery** (`factory_pr_delivery_*.py`, `finish_issue.sh`): a journalled saga
of commit, push, pull request, checks, merge, removal of worktree and branches, and the
scheduler's completion. Hard: every external effect can happen without its journal entry, two
controllers may work on one delivery, and others own the branch, the issue and the work too.
Correct when: no effect lacks its intent, what merges is the commit that was checked, nothing
is removed before it landed, and repeating the command gets to the end.

**Worktree orchestration** (`factory_orchestration_*.py`): `factoryctl orchestrate --apply`
journals a request, creates the issue's worktree, applies a proposed patch to it, runs the
lane's gates and records acceptance. Hard: calls overlap, die and are repeated; worktree, main
checkout and authority change under them. Correct when: a patch lands once, by one call, after
its intent; verdicts are final; what is accepted is what the gates ran on.

**Retention** (`factory_retention_*.py`): prunes finished jobs and their reviews: a plan, then
under a lock the recovery of earlier journals, staging into a trash directory, purge or
rollback. Hard: a process may be killed between any two renames, unlinks and journal writes, and
the owners of the files keep writing. Correct when: bundles go whole, only planned content is
unlinked, and a purge that began is finished.

**Issue selector, metrics archive, status projection**: sequential filters, copies and
read-only reports.

### The product (`src/src/entroping`)

**Run workflow** (`core/run_workflow.py`, `core/run_event_log.py`): one CLI run takes a
directory lock, records events, runs the files, evaluates gates, writes the latest run and
reports. Hard: failed writes, interrupts and kills in between, two runs of one project.
**Hurl runner** (`core/hurl_runner.py`, `core/hurl_structured.py`): bounded parallel
subprocesses, fail-fast, retries, timeouts, results out of order. Correct when: one run at a
time sends requests, log and reports tell of the same run, and a row passes only when earned.
**Traffic store and proxy** (`core/traffic_store.py`): SQLite store with migration and bounded
retention. **Compilers, drift, mutation, reports, studio**: sequential transformations of files.

The documentation site, examples and tests hold no program logic.

### How the components interact

A caller first asks the ledger for authority (`authorize_dispatch`, which may insert the
cash reservation), then the scheduler for a slot (`tick`, which re-reads the reservation or
authorization under the ledger's write lock), then consumes the authority for one launch.
The worker's owner reports phases to the scheduler (`transition`), the receipt goes to the
ledger (`settle_reservation`), and `complete` or `recover` read the ledger again, under its
lock until the scheduler has committed, before they free a slot. There is no message between
the two databases: everything the scheduler knows of money it reads at that moment, and
everything else it knows of a worker is what a caller declares. The AI job queue drives the
same ledger from its own job files. Orchestration rechecks the scheduler's assignment and lease
around every command; a delivery ends by completing the assignment with the scheduler, unless a
recovery took it first. Retention reads the queue's directories. The product's run workflow
shares no state with the factory.

### Hazards

`PROJECT.json` lists the forty hazards that matter most, each with its line and the properties
that would catch it going wrong. Others were met and have no property; they are named in
sections 7 and 8.

## 2. Plan

Done, in this order:

1. `DispatchAuthority`: states of reservation and authorization.
2. `FactoryScheduler`, which EXTENDS it and `RetryPolicy`; `WorkOwnership`, the abstract
   specification it implements.
3. `BudgetLedger`, which EXTENDS `DispatchAuthority` with months, entries and sums.
4. `DeliverySaga` and the abstract `DeliveryOrder`; `AiJobQueue`, which EXTENDS
   `DispatchAuthority`; `RetentionPlan` and `RetentionTransaction`; `HurlSuite` and
   `RunWorkflow`; `WorktreeOrchestration`; `QuotaWindows`, which EXTENDS `DispatchAuthority`.
5. Proofs of every safety invariant and every action property of the passing runs, one under a
   hypothesis (section 5, Retention), and of the refinements.

Left, most important first:

| Subject | What is worth proving or modelling |
| --- | --- |
| `BudgetLedger` | the safety part of `HeldCashIsResolved`: in every state of an open ledger some reconciliation of a held reservation is accepted |
| Traffic store | migration under an exclusive lock, bounded retention |

## 3. Modules and the code

### DispatchAuthority

One reservation state and one authorization state per job. An action is one transaction that
commits; one that raises is rolled back and is no step.

| Action | Code |
| --- | --- |
| `Authorize`, `Reserve` | `authorize_dispatch`, `reserve_for_dispatch` |
| `Launch` | `consume_authorization_for_launch` |
| `SettleReservation` | `settle_reservation` with a receipt it accepts, and `settle_quota_holds` |
| `MarkReservationUncertain` | `mark_reservation_uncertain`, and `settle_reservation` with a receipt it rejects |
| `ReconcileNoCharge`, `ReconcileManualDebit` | `_reconcile` with amount zero and with a positive one |
| `SettleQuota`, `ReleaseQuota`, `MarkQuotaUncertain` | `_transition_authorization` |

`LedgerOpens` is `validate_quota_integrity`, which every connection runs before its
transaction. `Metered` jobs are billed in cash and reserve it, `IncludedQuota` jobs are
billed to a quota and have only an authorization (the CHECK in `factory_quota_schema.py`).

### BudgetLedger

`net` and `active` are the two cached sums of a month, `entries` the immutable rows,
`month` and `held` the authority of a reservation. Every action on a job is the action of
`DispatchAuthority` in conjunction with its accounting (`Hold`, `Release`, `Enter`);
`RecordDebit`, `RecordCredit` and `RecordRefund` are the branches of `record_entry`.
`BudgetOpens` is the integrity check of a connection, recomputed from the rows as the SQL
does, so a cached sum that is off by one stops the ledger in the model as it does in the code.
Thresholds guard `AuthorizeCash`, `AuthorizeQuota` and `LaunchCash`.
Idempotency keys of recorded entries are the set `Key`; a settlement's key is derived from
its receipt, and stands here for its job, since a reservation is decided once.

### QuotaWindows

What the ledger is for cash, this module is for provider units: each step on a job's rows is the
step of `DispatchAuthority` with the units added to it. `now` is a clock of ticks, a window the
set of its ticks; `spent` and `metered` are the provider's truth and what its meter shows of it,
`signed` the readings, `request` what a job was prepared with, `hold` what it was admitted with.

| Action | Code |
| --- | --- |
| `Prepare`, `Drop` | `prepare_paid_dispatch`, and a request that never reaches the ledger |
| `QuotaAuthorize` | `authorize_dispatch` with `record_validated_observation`: reading in order, covering what it was signed to include, and room for the envelope |
| `QuotaLaunch` | `consume_authorization_for_launch` with `validate_authorization` |
| `QuotaSettle`, `QuotaRelease`, `QuotaUncertain` | `settle_quota_holds`, `release_quota_holds`, `mark_quota_holds_uncertain` |
| `SignReading`, `OthersUse`, `MeterCatchesUp`, `Advance` | the maintainer, other users of the account, the provider's meter, time |

Assumed: one provider lane under one policy revision; the meter tells the truth, late; a reading
is signed as including only work that is on it, whatever work it leaves out; a call is billed to
the tick it was launched in; a rolling window is used in the tick it was read; the host clock does
not go back. Cash thresholds are `BudgetLedger`'s, and `Reserve` on its own, which has no units,
is left to `DispatchAuthority`. Signatures, identities and row limits only refuse.

### RetryPolicy

`retry_not_before` and the exhaustion test of `decide_recovery`. The jitter is a digest of job
and attempt in the code and any value of its range here.

### FactoryScheduler

`alive` are the processes that the operating system still runs; `clock`, `lastEpoch` and
`lease` are the singleton rows; `state` is the assignment row and `exec` the execution row of
a request; `receipts` counts recovery receipts.

| Action | Code |
| --- | --- |
| `Assign`, `AssignBlocked` | `tick` through `_plan_or_assign`: the slot is free, or it is not and only the lease is taken |
| `Heartbeat` | `heartbeat_lease` and `renew_execution_leases` |
| `Transition` | `transition_execution` |
| `Complete` | `complete_assignment` |
| `Recover...` | `recover_assignment`, one action per outcome of `decide_recovery` |
| `Crash` | the death of a process, which `probe_owner` observes by pid and start time |
| `LedgerStep` | any operation of `DispatchAuthority`, in between |

Abstracted: a stale caller's compare-and-set refusal, a replay and a plan-only call change
nothing and are stutters. Two observed times only matter by their order, so each action
carries one time not before the stored clock. Live issue selection may refuse a free
writer; since a tick is never forced, that is included. The settlement read and the scheduler
commit are one step because the ledger's lock is held over both
(`settlement_authority_handoff`).

### WorkOwnership

The promise: each request has at most one holder, it changes hands only once that process
is dead, every process that still runs and holds unfinished work is the same one, and
finished work stays finished. `Assign` maps to
`Accept`, `Complete` to `Finish`, `Recover` to `Inherit`, `Crash` to `Die`; every other step
is a stutter.

### DeliverySaga and DeliveryOrder

One delivery, several controllers, each with a program counter `pc`. `journal`, `cleanup` and
`receipt` are the durable records; `branch`, `worktree` and `removal` the local copy and
`finish_issue.sh`'s evidence; `remote`, `pull` and `issue` the host; `work` the scheduler's
assignment. A controller's action is one journal transaction, one command or one observation, in
the order of `factory_pr_delivery_service.py`: `Observe`, `ApplyGit`, `Prepare`, `CommitIntent`,
`Commit`, `Committed`, `PushIntent`, `Look`, `Push`, `Pushed`, `EnsurePull`, `ObserveCi`,
`MergeIntent`, `Merge`, `Reconcile`, `Merged`; then, phase by phase of
`factory_pr_delivery_terminal_completion.py`, `CleanupIntent` to `Conclude`. `Stop(c)` is a kill, or
an error, anywhere; `Recover` and `RecoverCommit` are `DeliveryJournal.recover`.

Others act too, and are external: `ForeignPush`, `Withdraw`, `SchedulerMoves`, the host's answer
to a merge (`MergeOf`), and, where the instance says `Maintained`, `RestoreWorktree`: somebody
recreates the worktree that the deletion of the remote branch runs in. Without that a cleanup
that stopped after the removal never ends, which is why the liveness run assumes it.
`DeliveryOrder` is the promise without journals: proposed, landed, known, dropped, settled,
concluded.

### AiJobQueue

`places[j]` is the set of directories that hold a file of the job (a crash between writing a
verdict and unlinking leaves two), `at` what each process is doing with which job, `todo` the
listing its scan still has to read, `evidence` what the checks of a claimed job will find,
`requeues` the durable requeue records, `late` the running jobs that look abandoned.

| Action | Code |
| --- | --- |
| `Begin`, `Examine`, `Inspect`, `WriteOff` | the scan of `run-next` with `recover_paid_dispatch` |
| `PassVerdict`, `Unlink` | a verdict is written, then the running file is unlinked |
| `Route`, `Claim`, `Open`, `Restore`, `Prepare`, `WriteStart`, `LaunchWorker`, `Release` | claim by rename up to the launch, and the ways back to the queue |
| `Settle` | the supervisor with the worker's receipt |
| `PlanQuarantine`, `WriteReceipt`, `Evict` | quarantine of a queued job |
| `PlanRequeue`, `Record`, `Enqueue`, `Commit` | requeue with its prepared and committed record |
| `Submit`, `Drift`, `Expire`, `Kill` | submissions, evidence that changes, time, and kills |

Abstracted: every lane of the queue is billed, so each claim prepares and consumes authority
(`--worker-dry-run`, which launches nothing, is left out); the replay branch of the authorization
cannot be reached because claims are exclusive; files are taken in name order in the code and in any
order here; a running job may look abandoned at any time.

### RetentionPlan and RetentionTransaction

`RetentionPlan` is the pure part (`factory_retention_plan.py`, `factory_retention_protection.py`): bundles of a job and its
reviews, which of them are safe, those over a class's age, and the oldest ones evicted until a
class is under its ceiling. `RetentionTransaction` executes a plan: `source` and `trash` are the
contents in place and staged, `journal` the durable record of a transaction, `memory` what the
process holds of it. `MakePlan`, `Lock`, `CleanEarlier`, `Resume`, `Compare`, `Begin`, `Stage`,
`Move`, `SaveProgress`, `Verify`, `StartPurge`, `Purge`, `RollBack`, `Return`, `Clean` are one file
operation each; `Kill` takes a process anywhere; `Write` and `WriteAgain` are the owners of the
artifacts. A content is a version ("final", "reopened", "again", or "torn" in the trash); ages and
sizes belong to the instance, the cutoff is the operator's choice. Left out: the journals of retention as artifacts of
retention, and other holders of the shared lock.

### HurlSuite and RunWorkflow

`HurlSuite` is one execution of the selected files: `flight` are the submitted files, `running`
those a thread of the pool sends, `made` the attempts, `report` what Hurl told of the last one,
`outcome` a file's status. `Submit`, `Take`, `Attempt`, `Collect` run in any order that the pool
allows; `Classify` and `GatedStatus` are the reading of an attempt's evidence. Hurl is external:
it exits with zero exactly if every assertion held, and a runtime error leaves the evidence out.
`RunWorkflow` puts it between the lock and the last event: `Open`, `Start`, `Select`, `Execute`,
`Results`, `WriteLatest`, `RecordLatest`, `WriteReport`, `RecordReport`, `Finish`, `Close`, with
`Fail`, `RecordError`, `Interrupt`, `Drain`, `Kill`, and `RemoveStale`, an operator that removes the
lock of a killed run. The log is summarised by its last event, status, rows and named artifacts, a
row by whether it passed, a report file by the run whose report it holds; the reports in JUnit and
HTML and of drift are not written in the model, and drift itself is any outcome.

### WorktreeOrchestration

`lifecycle` is a request's journal row, `worktree`, `main` and `authority` the world that others
change too (`EditWorktree`, `EditMain`, `Lapse`), `call` what each running command holds in memory.

| Action | Code |
| --- | --- |
| `Preflight`, `Observe`, `Prepare`, `Create`, `Created`, `Authorize` | from the request to the worktree; `Prepare` is the journal's verdict on work another call left |
| `Claim`, `Check`, `Apply`, `Mark`, `Bind`, `NotApplied`, `Applied` | intent, `git apply --check`, `git apply`, intent-to-add, binding of the content, the entry |
| `Recheck`, `Gate`, `GateFailed`, `Inspect`, `Accept` | authority and content around every gate, then the verdict |
| `Stops` | the call ends anywhere: killed, or by an error that nothing catches |

Transitions are compare-and-sets (`MayMove`). Contents are classes: the patch, the patch before
its new files are marked, the patch with somebody's edits, anything else. Reads that are rechecked
before they matter are merged with the step before. The planning mode changes nothing and is left out.

## 4. Runs

| Run | States | What it shows |
| --- | --- | --- |
| `budget` | 433,813 | two months, two cash jobs, a quota job, two recorded entries, up to the entry limit: sums are explained by rows, no order of credits, refunds and holds lifts a month over its cap, decisions land in their month, launches keep their margin |
| `scheduler_recovery` | 932,982 | a paid job and a free review under one lease pass through three processes that may die anywhere, with a delayed retry and an exhausted policy: leases, pacing, ambiguous work, ownership refinement |
| `scheduler_capacity` | 825,848 | a cash job, a quota job and a writer compete for slots and worktree: money and slots in step, the two rows of a job agree, finished cash is final, held cash is resolved |
| `quota` | 630,947 | three jobs against a cycle and a rolling window, late and partial readings, another user of the account: nothing is overspent, spent units stay held, readings stay valid; refines the ledger |
| `ai_queue` | 403,570 | two processes, a cash job requeued as a quota job, one kill: one worker per job, none lost, none run on written-off authority, running jobs are resolved |
| `delivery` | 16,997 | two controllers that stop anywhere, any number of times, and others who push, withdraw and move: truth of journal and receipt, `DeliveryOrder`, cleanups end |
| `retention` | 125,859 | two processes, a job with its review and another job, two writes by owners, one kill: only what was planned is unlinked, bundles are whole, purges finish |
| `project_run` | 499,628 | two runs, three files, pools of one and two, one fault, kills: one run sends requests, rows and evidence are honest, runs end |
| `orchestration` | 591,012 | two calls, two requests, two gates, edits by others: patches land once, verdicts are final, acceptance is of what was gated |
| `ledger_locked`, `double_verdict`, `rollback_stuck` | | the findings of section 7 |

A passing run's properties are few and each is about a hazard; several are conjunctions of named
parts that are stated, with the behaviour they are about, above them (`BooksBalance`,
`JournalIsTruthful`, `DeliveryInv`, `OthersAreLeftAlone`, `InterruptionsEnd`, `QueueInv`,
`JobsAreKept`, `RetentionInv`, `PlansAreSound`, `RunInv`, `ResultsAreHonest`,
`OrchestrationInv`). A type invariant that no run names is part of one of these or is proved; so
are `FencedEpochs`, `SlotsAreExclusive`, `LeaseIsNeverStolen`, `AuthorityIsSingleUse` and
`BudgetIsFreedByDecision`, which need no run.

Bounds and why they are enough:

- `Owner`: three processes are needed for the worst handover (a dead owner, a coordinator that
  takes the lease, a third that recovers work). Processes are symmetric, which is used only in
  runs without liveness. Each attempt costs a process, so a run sees two attempts and one delay;
  the growth of the delay is proved (`DelayBounds`).
- `MaxTime` bounds clocks, `MaxReceipts` the recovery receipts (10,000 in the code); both
  only stop behaviours. For that reason, and because all processes may be dead, the runs of
  scheduler, ledger and quota do not check for deadlock; nor do those of commands that end
  (`project_run`, `orchestration`). `delivery`, `ai_queue` and `retention` do.
- `LeaseLengths` is one length in the passing runs; the theorems are for every length.
- Amounts are 4 and 6 under caps of 11 and 5: they reach the cap, both thresholds, a partial
  settlement, a negative balance, and a refund that only fits once. `MaxEntries` (100,000 in the
  code) is one short of what all rows would need, so the limit is met; `LowestBalance` stands
  for the least signed 64-bit integer.
- Quota: three jobs of one unit in windows of two, so the last one never fits beside the other
  two; two ticks per window and one boundary, so windows overlap and follow each other; two
  readings, so one may be older than the other when it is used. The lane names both windows, so
  each call must fit in both; a lane with fewer windows only has fewer conditions to meet.
- `MaxKills` is one in queue and retention: a kill there is a state that anybody may find
  later, and the survivors' interleavings with it are all explored. `MaxWrites` is two (one write
  before and one after a move), `MaxTxns` two (one to recover, one to run), `MaxFaults` one.
- Two controllers, callers, processes or runs are what a race needs; each of them restarts any
  number of times in `delivery` and `orchestration`.

Fairness, in four modules:

- `LedgerFairness`: maintainers work through what is pending; a held reservation is
  eventually offered to one of the two reconciliations, a launched quota authorization to
  settlement or release. Both are guarded by `LedgerOpens`, because nothing helps a ledger that
  no longer opens. Nothing is assumed of workers, receipts or processes, and the scheduler itself
  has no fairness: the code gives no ground for any.
- `SagaFairness`: interruptions end. The command is repeated after it stopped, and from some time
  on it stops only where the code refuses to go on.
- `QueueFairness`: `run-next` keeps being called, workers are bounded by their timeout, and time
  passes, so an abandoned job is seen to be.
- Retention: somebody keeps pruning. A run: one that is not killed goes on, since Hurl has
  a timeout.

## 5. Proofs

All theorems hold for every value of the constants under the named assumptions, which TLC
evaluates in the runs. One, `RetentionInvCorrect`, has a hypothesis of its own, `JobsComeFirst`,
which the instance of its run meets (`MCJobsComeFirst`).

- `BillingAssumption`: a job is billed in cash or to a quota, not both.
- `BudgetAssumption`: reserves are positive and below the cap, keys of different origin differ,
  and the value of a NULL reference is no key.
- `QuotaAssumption`: finitely many jobs; lengths, limits and envelopes are positive.
- `SchedulerAssumption`, `RetryAssumption`: the field bounds of requests and policy.
- `QueueAssumption`: every job is billed somewhere, and no two jobs are requeued under one name,
  which the code derives from a digest of the source.
- `RetentionPlanAssumption`, `RetentionAssumption`, `HurlSuiteAssumption`, `RunWorkflowAssumption`,
  `OrchestrationAssumption`, `SagaAssumption`: domains of sizes, classes, options and counts; a
  gate is not called as a file's own assertions are.

Eight modules hold the proofs; `LedgerBooksProofs` has those of cash and of quota, which share
`DispatchAuthorityProofs` and its lemmas on sums.

- **Ledger.** `LedgerInv` is the type invariant with `LinkedStatesAgree` and the fact that
  only cash jobs have reservations; it is inductive because no action touches two jobs.
  `AuthorityIsSingleUse` and `CashIsFinal` follow from one step.
- **Sums.** The sums of the models are recursive functions on sets. `TableUpTo` shows that a table
  with their equation exists, `TablesAgree` that there is only one, both by looking at a smallest
  set that fails (`MinimalSet`); adding, taking out, splitting and comparing follow (`SumAdd`,
  `SumTake`, `SumSplit`, `SumPart`, `SumBelow`).
- **Cash.** `ImplementsAuthority`: every step of `BudgetLedger` is a step or a stutter of
  `DispatchAuthority`, which carries the ledger's invariant over. `WithinCap` needs no sums:
  a decision spends at most the hold it gives up (`DecisionSpendsItsHold`), and clamping a
  balance in credit keeps both `active` and `net + active` under the limit. What is needed
  besides is `RowsAreOpened`: an unopened month has nothing spent or held.
  `BudgetIsFreedByDecision` and `DecisionsAreEntered` rest on the same invariant.
  `BooksBalance` needs that a key is that of one row and that a refund names a recorded charge
  (`BooksInv`): then each step books one new row (`EntryCases`) or moves one job in or out of the
  holds of one month (`HoldsStep`), and the sums follow. `LaunchLeavesMargin` uses them once more:
  a hold of a month is part of its sum.
- **Quota.** `QuotaImplementsLedger`: each action is an action of `DispatchAuthority` or leaves
  its rows alone (`QuotaStepIsLedgerStep`), so the ledger's theorems hold of it.
  `SpentIsHeldCorrect`: `SpentInv` joins `LedgerInv`, the types and `SpentIsHeld`; it is inductive
  because a call starts only in the window of its hold (`StillValid`) and nothing releases an
  authorization that was launched (`BooksAreKept`). `ReadingsStayCovered`: what a reading was
  signed to include is settled and stays so, units on the meter do not change, and readings are
  accepted in order. `QuotaIsKept` bounds, for every window, what its jobs have spent or may still
  spend together with what accepted readings saw others use; only an admission adds to that, and
  an admission counts every job that was not signed as included.
- **Scheduler.** `SchedulerInv` strengthens the type invariant with `RowsAgree` (assignment,
  execution and attempts), `LeaseIsNumbered` (the lease's epoch is the last one issued),
  `FencedEpochs`, `LiveWorkIsLeased`, `LeaseCoversItsWork` and `SlotsAreExclusive`. The middle
  three are needed together: recovering one sibling replaces the global lease, and only
  because every other row of that lease belongs to a dead owner (`RecovererIsSole`,
  `LeaderIsSole`) does the next invariant state still hold. `Handover` states once what taking
  over does to rows and lease. `SettlementIsStable` says that a settled reservation stays
  settled under every ledger step, which makes `CompletedPaidIsSettled` an invariant of two
  components that share no lock after the commit.
- **Ownership.** `ImplementsOwnershipCorrect`: initial states map to initial states and each
  action to the abstract action named above, with `LiveWorkIsLeased` excluding a live
  former owner.
- **Retries.** `DelayBounds` and `DelayIsNotShort` for every attempt, jitter and hint.
  `BackoffPaces`: every row is not before its earliest start, and what its phase may still wait for
  (`PacedRow`) is enough for the next one; the earliest start itself is a recursive function of
  the attempt, whose equation is proved with its least counterexample.
- **Orchestration.** `OrchestrationIInv`: at most one request is open and at most one call is past
  its claim, because the claim is a compare-and-set from "prepared"; the record is where that call
  left it or was declared uncertain; content that was bound and lost is not made again by
  anybody. `LandsOnce`, `VerdictsAreFinal` and `GatedAsBound` follow.
- **Delivery.** `SagaIInv`: what the journal must have announced for each effect, what receipt and
  cleanup say of each other, and what the next step of each controller relies on
  (`StepsAreFounded`). The last is kept although others move on, because nothing that is known is
  ever undone (`KnownStep`). With it each step is a step of `DeliveryOrder` or a stutter
  (`DeliversInOrderCorrect`).
- **Queue.** `QueueIInv`: while a process works on a claimed job, the job is out of "queued" until
  that process restores it; a verdict is on file before the running file goes; a requeue is
  prepared by one process, and its new name is unused until that process writes it.
  `QueueImplementsLedger` carries the ledger's invariant over, which `CompletedIsSettled` needs.
- **Retention.** `TransactionInv`: the journal of the process past the lock says how far it
  is, trash holds only what its journal planned, and only the holder of the lock writes a
  journal. `PurgesThePlan` and `FinishedIsClean` follow. `PlansAreSound` is about the eviction
  loop: its states are taken as a sequence, and the first one that breaks what it keeps (bundles
  whole, oldest first, bytes counted) does not exist. `BundlesStayWhole` is proved from
  `JobsComeFirst`: a bundle has one job, and its reviews are dated after it. A plan is made
  without the lock, so it may be made from what an open transaction has half moved. As artifacts
  move oldest first, a bundle that is half moved then has lost its job, and its reviews are
  orphans, over which nothing is planned. The job is there only if its owner wrote it again, and
  then it is also in the trash, which every loop refuses: that transaction never ends
  (`BlockedStays`), so the plan is never applied (`PlanIsWhole`). The code does not enforce the
  hypothesis: dates are read from the files (`payload_timestamp`), a review decided through the
  inbox is dated after its job has completed, one that was only created or updated may be dated
  before, and a job with two verdicts (section 7, `double_verdict`) is two jobs in one bundle.
- **Run.** `RunIInv` has one part per run, and only a run that holds the lock is past it, so a
  step has to be looked at for that run alone (`HolderStep`). `PoolIsRight` counts the files in
  flight against the workers, which gives `FewRunAfterAFailure`; `ResultsAreRight` ties a file's
  status to its last attempt; `LogIsRight` says what log, latest run and report may show at each
  step between the first event and the last. `GatesAreJudged` is the lemma about the evidence of
  one attempt behind `PassIsEarned`.

## 6. Only model-checked

- `HeldCashIsResolved`, `InterruptionsEnd`, `RunningIsResolved`, `PurgeCompletes` and `RunsEnd` are
  liveness, which the prover cannot do.
- Neither checked nor proved is `BundlesStayWhole` for bundles with a review dated before the job,
  or with two jobs: there it does not hold (sections 5 and 7).
- Induction over data is done here by least counterexamples, which reaches recursive functions
  and sums but no `RECURSIVE` operator; no module that is proved about has one.
- The findings' properties are refuted, so there is nothing to prove.

## 7. Findings

- `ledger_locked`: a reservation that was settled, rejected or reconciled before its
  authorization is linked to a new active authorization; the ledger then fails its own check on
  every connection.
- `double_verdict`: a job that its owner completes between another process's listing and reading
  of it is condemned as corrupt, so it has a completed and a failed file.
- `rollback_stuck`: a process killed while it rolls a moving retention journal back leaves a
  journal that every later recovery refuses.

Each is quoted with its document or test and line in `PROJECT.json`. What is proved and checked
elsewhere holds in the presence of all three.

Observed while modelling, contained in the models, and not stated as a property:

- A cash job named by its authorization alone is admitted by the scheduler, but its settlement is
  then answered "invalid" for ever, so it keeps the paid slot
  (`factory_scheduler_reservation.py:27`).
- For a job with a reservation the scheduler reads "dispatching" whether or not its
  authorization was launched, so recovery may put spent authority on the retry path
  (`factory_scheduler_settlement_authority.py:79`).
- A quota authorization that turned uncertain has no operation left
  (`factory_quota_settlement_transition.py:108`).
- A process that put work into retry-wait owns it, so nobody resumes it while that process lives
  (`factory_scheduler_recovery_authority.py:68`); blocked recoveries use receipts up
  (`factory_scheduler_recovery_receipts.py:105`).
- A reservation reconciled without a charge is recovered by the queue as completed
  (`factory_paid_dispatch_recovery.py`); a job that cannot be dispatched returns to the head of
  the queue, before the others (`ai_jobs.py:1325`); a claim condemned before its authority is
  written, whose owner dies, leaves a held reservation that no job file names (`ai_jobs.py:1182`).
- A delivery observes its issue only once, so a withdrawn issue is merged
  (`factory_pr_delivery_service.py:70`); a controller that saw no remote branch may push it again
  after another one has merged and deleted it (`factory_pr_delivery_ssh.py:133`); a commit whose
  intent was journalled but whose branch never moved is not resumed; a merge recorded under another
  commit is answered as rejected; `recover` from "pushed" or "merged" ends uncertain
  (`factory_pr_delivery_journal.py:285`); without the worktree the remote deletion never ends.
- A `git apply` that exceeds its ten seconds fails the request for good although the patch may be
  there, and a call killed after `git apply` leaves a record that later calls, which refuse the
  dirty worktree first, never declare uncertain, where ADR-0031 wants an ambiguous end uncertain
  (`factory_orchestration_git_process.py:84`, `factory_orchestration_service.py:120`); the content
  is bound after the patch, so an edit of the same files in between is gated and accepted as proposed
  (`factory_orchestration_git.py:163`).
- A plan of retention made while another transaction has an older review in its trash sees the
  job alone and may orphan the review (`factory_retention_inventory_reviews.py:59`; the checked
  instance has the job older than its review); a rollback renames over what was written after its
  check (`factory_retention_transaction.py:173`).
- A failed first event leaves the run lock behind without a killed process
  (`run_workflow.py:358`, `StartFails`); a rerun of failures prefers a requested report that may
  be older than the latest run (`rerun_failures.py:54`).
- A rolling quota window signed ahead of its use leaves out as much of the oldest usage
  (`factory_paid_dispatch_policy.py:46`); a call that straddles the end of its window is billed
  by the provider to both (`factory_quota_capacity.py:82`).

## 8. Not modelled

Prices; limits on months, reservations and events; timestamps of the ledger. The check of a ledger
connection and its transaction are one step; in the code another process may commit in between
(`factory_budget_ledger_storage.py:99`), which only matters when the ledger has just become
invalid. Storage, permissions and schema migration. The planning modes, which change nothing.
Orphaned Hurl children after a kill, and an operator who removes a live lock. Parsing, redaction,
signatures and digests.

The product's compilers, bridges, drift, mutation and reports, issue selection, metrics and status
are most of this repository's lines. They are sequential transformations of files into files,
without state that two steps could disturb, and their correctness is in their formats; a model of
them would repeat the code. The share of the whole that the map covers is therefore small; `PROJECT.json` says of
each component whether it is modelled, and what is left out where it is only partly.
