# Verification of Tenet

Tenet is a deterministic compliance operating system: a Python program that
takes evidence, derives an audit verdict, runs an evidence-gated release
pipeline, tracks remediation work, and drives all of that on a schedule and
through an API. Its state lives in JSON and JSONL files that are read whole and
rewritten whole. There is no database behind this part and, with one exception
(`core/job_manager.py`), no lock. What is hard about it is therefore rarely a
single computation: it is what the files say to each other after requests of
several users, threads and processes, and after a process died between two
writes. This directory holds TLA+ models of that, TLC configurations that check
them on small instances, and proofs for every instance.

All paths below are relative to `src/` of the repository.

## 1. Inventory

| component | code | state | operations | what is hard |
|---|---|---|---|---|
| remediation lifecycle | `core/remediation_lifecycle.py` | item rows, timeline, index, gate | initialize, assign owner, transition, submit, apply result, recompute | long sequences; derived files; event rows built from mutated rows |
| operator service, due planner | `core/remediation_operator_service.py`, `core/remediation_due_planner.py`, `apps/api/routers/remediation.py` | the same, plus evidence metadata, audit log, outbox | seven requests, bootstrap, plan reminders | tenants and roles; seven files per request; deaths; several processes |
| upload sessions | `core/upload_session_service.py` | session rows, upload directories | create, finalize, fail, cancel | finalization writes five things |
| evidence items and gate | `core/evidence_application_service.py` | evidence rows, requirements, gate per audit | register, complete, fail, cancel, ready, seed, recompute | any order of requests; stale gate |
| evidence jobs | `core/evidence_job_service.py` | job rows | enqueue, run next | late results; deaths; two runners |
| blob store | `core/blob_store.py` | objects, manifests | promote, verify | content addressed, idempotent |
| webhooks | `core/webhook_delivery_service.py`, `api/routers/webhooks.py` | definitions, deliveries, log | create, update, delete, test, queue, dispatch | thread pool; state read before the send and written after it |
| notification outbox | `core/notification_outbox_service.py` | notifications, preferences, deliveries, log | queue, dispatch, preferences | the same, over channels |
| release pipeline | `core/tenet_e2e_orchestrator.py` and the engines it calls | twenty artifacts of a run | `run_tenet_e2e` | sticky execution records; partial runs; shared gate file |
| audit runner queue, intake | `core/canonical_audit_runner.py`, `core/audit_workflow_intake.py` and their scripts | jobs, runner index and state; work items, intake state | queue jobs, take in audits | the pipeline rewrites the same tables |
| pipeline reconciler | `core/end_to_end_pipeline_reconciler.py` | phase rows, readiness | reconcile | verdict and phases decided from different conditions |
| audit runs | `core/audit_runtime_service.py`, `core/audit_application_service.py`, `apps/api/routers/audits.py` | register of audits, table of runs, receipt per audit | create, execute, sync | tables read before the pipeline and written after it; a run left RUNNING; ids made of seconds |
| audit schedule chain | `core/audit_schedule_*.py`, `core/audit_workflow_intake.py` and their scripts | the output of a cycle; queue, outbox, alerts; requests, gates, records, work items; a state file per program | cycle, deliver, bridge, materialize, take in | deaths between the results and the state that ticks them off; missed days |
| job manager | `core/job_manager.py` | job files, a pool of four threads | submit, run | lost on restart |
| workflow, evidence packs, reviews | `core/workflow_service.py`, `core/evidence_pack_service.py`, `core/evidence_ingestion_service.py`, `core/evidence_processing_service.py`, `core/review_service.py`, `core/remediation_service.py`, `api/store.py` | evidence index, manifest and summary of a pack; workflow; stored audit, its review and remediations | ingest, process, refresh, execute, review, remediate | whole files read, and written back later, by threads and jobs; a run id executed again |
| release of an audit | `core/control_coverage_service.py`, `core/audit_dossier_service.py`, `core/release_gate_service.py`, `core/finalize_release_service.py`, `core/export_package.py`, `core/report_composer.py`, `core/model_augmentation_service.py`, `api/store.py` and their routers | detail, review, narrative, coverage, dossier, gate and finalization of a run id; the files and the manifest of two packages | execute, export, review, augment, build coverage, dossier or gate, finalize | seven files made of each other, left behind by earlier audits of the run id; a package overwritten file by file |
| verdict, reasons | `core/*audit*`, reason artifacts | none | pure functions | order of rules |
| others | schedules of the API, datasets, calls of models, rendering of reports, `backend/` with its regulation packs, front end | see `PROJECT.json` | | |

How they interact. `apps/api/main.py` serves coroutines that never await, so in
one process its requests do not interleave; `api/` serves plain functions,
which FastAPI runs on a thread pool. Scripts call the same services from
processes of their own. All of them meet in files: the operator service writes
the remediation gate that the release surface reads; upload sessions call the
blob store, the evidence service and the job queue in one handler; the audit
runtime calls the release pipeline between reading and writing its run table.

What makes each correct:

- *Remediation.* An item is closed only by a passed verification of the evidence
  it carries; the ledger tells the state; ledgers only grow; nothing crosses a
  tenant; the gate on disk is the gate of the rows on disk.
- *Evidence intake.* READY is final; a COMPLETED session or job is backed by
  what it promises; one live copy per content; a PASS is still covered.
- *Webhooks, notifications.* A webhook is disabled only when it earned it; SENT
  means accepted; deleted stays deleted; at most one row lost per death.
- *Release pipeline.* A ready receipt implies that every gate of the same run
  passed and every record is COMPLETED; a record is final; artifacts of two runs
  are never mixed into one PASS; no death and no script running in turn loses a
  work item or a job.
- *Audit runs.* COMPLETED was earned by a pipeline of the same audit; the register
  and the table agree; a run that is left RUNNING is the one a sync can end; a
  closed run is never lost or reopened.
- *Schedules.* What a program has ticked off is where the next one looks for it;
  a gate is ready only when all its requests are audits; an alert has blocked a
  snapshot; what is queued becomes a work item.
- *Release of an audit.* An approval counts for the audit it was given to; what
  decides of a release is one audit, the approved one, and the narrative in its report
  is of no later one; what is called verified is whole.
- *Packs, workflows, reviews.* A review and the remediations on file are those of
  the audit on file; an audit rests on processed evidence; no item and no job is
  left in the middle by anything but a death or an overlap.

`PROJECT.json` lists the hazards one by one, at the line where each bites, with
the properties that cover it or the reason none does yet.

## 2. Modules

| module | models | correspondence |
|---|---|---|
| `RemediationLifecycle` | `remediation_lifecycle.py` | a row is a record, a file of rows a set or a function from items; each lifecycle function is an operator on rows |
| `RemediationRequests` | `remediation_operator_service.py`, the planner | the workspace is one record, a field per file; each request is `XAllowed` (its checks) and `XResult` (the contents it writes) |
| `RemediationOperator` | the workspace as its users are to see it | one action per request, served in one step: the **abstract specification** |
| `RemediationWriters` | the workspace as it runs | the same requests taken apart: read the files in the code's order, compute, write them in the code's order; processes without a lock; deaths between and inside writes |
| `EvidenceIntake` | sessions, evidence rows, jobs, blobs, gate | one action per handler; a handler that writes several files carries out a prefix of its write list when the process dies |
| `WebhookDelivery` | `webhook_delivery_service.py` | threads with a local state `task`; one step per file read, file write and send |
| `ReleasePipeline` | `run_tenet_e2e` with its engines, gates and reconciler; the queueing script; intake | one action per write that a later step reads, in the order of `Writes` and `QueueSteps`; what the engines compute are operators |
| `AuditRuns` | the register and the runs of audits | `proc` holds the handler of each process: the steps it has yet to take (`Steps`) and the rows it read; one step per file read, file write and pipeline |
| `ScheduleChain` | the five programs from a schedule to a work item | a program run is one action that carries out its first `k` writes, all of them unless it dies |
| `EvidencePacks` | ingestion, processing, workflow, stored audits, reviews, remediations, jobs | `request` holds what each thread does and has read; one step per file that is read and written |
| `AuditRelease` | executions of one run id, its exports, reviews, model narrative, coverage, dossier, gate, composed report and finalization | as in `EvidencePacks`; a file is modelled by the number of the audit it is made of, and by the numbers of those its parts are made of |
| `RemediationProofs` | theorems of `RemediationOperator` and of `RemediationWriters` | |
| `ReleaseProofs`, `IntakeProofs`, `ScheduleProofs`, `WebhookProofs`, `AuditRunsProofs`, `PacksProofs`, `AuditReleaseProofs` | theorems of `ReleasePipeline`, `EvidenceIntake`, `ScheduleChain`, `WebhookDelivery`, `AuditRuns`, `EvidencePacks`, `AuditRelease` | |
| `MC...` | instances for TLC | |

`RemediationRequests` is shared by the abstract and the detailed specification,
so that they differ in exactly one thing: how a request is cut into steps.
`RemediationWriters` extends `RemediationOperator`, whose workspace, clock and row
numbers it uses, and has `Operator == INSTANCE RemediationOperator WITH files <-
Target`, where `Target` is the workspace as it will be once the pending writes
are done, and the property `OneProcessIsAtomic`: the initial
states and, until the process dies, the steps are those of `Operator`.

Abstractions. Rows of a file are sets or sequences without their sort order;
hashes, titles, notes, names and signatures are left out; a content is a model
value; times are ticks and days. A request that is refused changes nothing and
is left out. The due planner's `today` and `now`, which the API takes from the
caller, are the clock, their default. The order in which `run_next_job` takes
jobs (`created_at` in whole seconds, then random ids) is a free choice.
`_simulate_send` always answers 200 and stands for an HTTP client; the tests
replace it by one that answers 500, so the model's receiver may do either.
In `ReleasePipeline` an audit has one work item and one job, as their ids say
(`job_id` is the `work_item_id`); the reasons of a verdict are told apart only by
whether they block a release; report and export gates may be absent, as they are
for the script's defaults, or present, as they are for the API. Each file is
written in one step.
In `AuditRuns` the pipeline is one step that writes the receipt or raises before
or after that; whether an audit is prepared is free at each request. Rows are
kept in the order they were appended, which both readers follow: the code sorts
them when it writes, by ids no reader of these rows depends on. The register keeps
the flags of the last closed run while a run is RUNNING. Two runs, or two audits
of one subject, that start within a second share an id.
In `ScheduleChain` an execution, its queue entry, request, record and work item
have one name, as their ids are hashes of each other; a frequency is a number of
days; a death inside a write is left out. A second delivery of the same alerts
gives a snapshot that is not blocked, since it counts the new ones only, and the
bridge passes without a snapshot: both are in the model.
`EvidencePacks` has packs whose controls are planned, so that what a workflow
waits for is its corpus; stored audits are told apart by their order.
In `AuditRelease` of an audit's contents only what the gate asks is kept: is it
APPROVED and GREEN, has it a context pack, are all its controls supported, was its
package verified. In a clean audit every control is present, effective and has its
evidence types, so none is partial or blocked in its coverage either (`Outcome`). Of
a package's eleven files there are `FileCount`; a hash is the content hashed. Packages
have one name per kind (`DEFAULT_EXPORT_ROOT`, `DEFAULT_RELEASE_ROOT` and the
default name). A payload may bring a composed report of its own, which is then of the
audit of that payload; otherwise the report is composed twice, as the code does, once
for its fields and once for its text, and each time the detail and, if the request
includes it, the narrative of models are read again (`ReadReport`, `ReadNarrative`).
What models say is left out: a narrative is told apart by the audit it was made of,
and what decides of a release (`parts` of a payload) is kept apart from the narratives
in its report, which decide nothing (`narratives`).
These variables and fields are not in the code and only let properties speak of
the past: `seq`, `settled`, `intact`, `crashes`, `deaths`, `sends`, `known`,
`switchedOff`, `calm`, `runs` and `queueings` of `ReleasePipeline`, `started`,
`earned`, `overlapped`, `overrun`, `shown`, `processed`, `requests` of
`EvidencePacks`, `approved`, `releasable`, `narrated`, `raced`, `crossed`, `interrupted`, `audits`
and `requests` of `AuditRelease`, the field `session` of an evidence row, the field `run` of an
artifact and the field `n` of a run and of a stored audit. Some of them also carry the
bounds: `crashes`, `deaths`, `runs`, `queueings`, `started`, `audits`,
`requests`.

## 3. Runs

| run | instance | shows |
|---|---|---|
| `remediation_requests` | two tenants, an item each; an administrator, an analyst, an owner of the other tenant; one file, one due date; six requests, two days | every request of every user in every order: the ledger tells each status, only a verified evidence set closes an item, nothing crosses a tenant, one reminder a day |
| `writers_crash` | one process, two items, two users, two days, four requests, two deaths | that reading and rewriting file by file implements the one-step requests until the process dies; what the next complete request repairs, the order of the audit trail, and that a death puts at most one item out of step with its ledger |
| `evidence_intake` | two tenants upload one content to one audit; two sessions, two rows, one death | what COMPLETED, READY and PASS promise |
| `webhook_threads` | two threads, one webhook, two deliveries, two attempts, a limit of two failures, one death | what lost updates can do and what they cannot; exact counting while no two requests overlap |
| `release_pipeline` | two audits, two runs of the pipeline, two of the queueing script and intake at any time, any verdict and any gates in each run; one death anywhere, or scripts beside the pipeline, not both | what is final, that taking turns loses nothing wherever one dies, that a PASS stands on a PASS everywhere before, and that a ready package, receipt or readiness covers every record and item, every job, and releases no work item that was not executed |
| `audit_runs` | two processes, one subject, one audit, two runs, two seconds; handlers that overlap or one death | what COMPLETED says, whatever overlaps or dies; what the register and the table say of each other when handlers take turns |
| `schedule_chain` | one schedule that is due every day, three days, ready or stale evidence, one death | that a death loses no execution, opens no gate early and hides no alert, and that what is queued becomes a work item |
| `evidence_packs` | two threads, two items, one job; four requests with a death, or two that overlap; two audits stored under one run id | what the files of a pack, its workflow, its audit and its review say of each other |
| `audit_release` | two threads, one run id, two audits, packages of two files; six requests; five with overlaps, four when an execution overlaps, a narrative is made or the process dies | that an approval counts for its audit, that what decides of a release is one audit, the approved one, and its narrative of no later one, and that verified packages are whole |
| `remediation_from_status` | as the first | a finding, section 6 |
| `remediation_race` | two processes, one item | a finding |
| `webhook_deleted` | two threads, one webhook | a finding |

Why the bounds are enough. A tenant boundary takes two tenants and a user on
each side. The longest cycle of the lifecycle (start, submit, verify, reopen) is
four requests after a bootstrap, so six requests (`MaxSeq` = 12, two numbers
each) go once around with one to spare. One release-blocking item and one that
is not are the two kinds the gate tells apart. Two deaths suffice for a death
during the repair of a death. Two sessions, two rows and one death give every
overtaking of one upload by another, and a limit of two failures is the smallest
one at which the count and the limit differ. The first PASS of the pipeline takes
a queueing, a run, a queueing that closes the runner index, and a run. Two runs of
an audit are the first that can contradict each other, and one audit with two
processes is where they meet. Every day due and three days give a materialization
that dies, is run again and is overtaken by the next request. A repeated execution
of one run id with a review between needs two stored audits and four requests. A
finalization needs an execution with an export and an approval before it; six
requests go on to a second execution, its approval and its finalization, beside the
files of the first. Two files are the least that can be of two packages. Every bound is a named constant
(`MaxSeq`, `MaxTime`, `MaxCrashes`, `MaxSessions`, `MaxEvidence`, `MaxDeaths`,
`MaxFailures`, `MaxDeliveries`, `MaxSends`, `MaxRuns`, `MaxQueueings`,
`MaxAudits`, `MaxDay`, `MaxRequests`, `OverlapRequests`, `FaultRequests`, `MaxStores`) and a guard of the action it bounds
(`OneFault` and `Bounded` of the MC modules add that a behaviour has one kind of fault, to keep
their runs short: each kind is checked, their combination is not);
`CHECK_DEADLOCK FALSE` stands where these bounds stop the model. `MaxFailures`
is a constant of the code (`MAX_CONSECUTIVE_FAILURES`, 10; the run takes the
smallest that differs from a single failure, 2).

Fairness. `ScheduleChain` alone assumes any: weak fairness of complete runs of the
bridge, the materialization and the intake, for `QueuedBecomesWork`. These are
programs that a timer starts again and again; the assumption is that they are not
killed each time. It is not assumed of the cycle and the delivery, and the days
need not go on. Elsewhere nothing in the modelled code runs by itself: a job runs
when a request asks for it, a webhook is sent when a request dispatches it, the
planner when somebody calls it, a RUNNING run ends when somebody asks for a sync.
Those specifications are `Init /\ [][Next]_vars` and all their properties are
safety properties.

Every property has a mutant in `PROJECT.json`: an operator, defined next to the
one it replaces, that changes the code the way a plausible mistake would, and
under which TLC finds the property violated.

## 4. Proofs

Of `RemediationOperator`, for any sets of items, users, tenants, files and dates
and any bounds, under the named assumptions of the modules
(`LifecycleAssumption`, `DirectoryAssumption`, `BoundsAssumption`: the directory
is a function, `None` is none of the values, a day has at least one second):

- `TypeCorrect`: the type invariant.
- `LedgerTells`, `ClosedVerified`: `LedgerTellsStatus` and `ClosedIsVerified`.
  Neither is inductive. A status row is the newest because no row carries the
  number that the next request will take, and a verification closes over the
  right evidence because an item in VERIFYING has a queued row over the evidence
  it carries and metadata for every file of it. `IInv` says all that, for every item; `Inductive` is `Spec => []IInv`. The
  argument of a step is the same for each request: the row of one item changes
  and gets newer events than any before (`...Good`), the others keep theirs
  (`OthersStayGood`).
- `OnlyAlongLifecycle`, `LedgersGrow`: the action properties `LifecycleOnly` and
  `LedgersOnlyGrow`, from `IInv`, since only an item of which `IInv` holds has no
  EVIDENCE_SUBMITTED in its file.
- `TenantsApart`, `RemindedOnce`: `TenantIsolation`
  and `OneReminderADay`. Together with the types they are inductive as they stand
  (`TInv`); the lemmas say for each request which owners, audit rows and
  notifications it may add (`Kept`).

Of `RemediationWriters`, for any items, users, tenants, files, dates and deaths, when
`Proc` has one element: `OneProcess`, that is `OneProcessIsAtomic`, the
refinement of `RemediationOperator`. The request takes effect when it is computed;
what precedes and what follows it are stutters, since `Target` already has the
writes that are pending (`WriteStutters`). `LoneInv` carries the argument to that
step: what the process has read is still what the files hold, and the checks
it has passed still hold. A request is computed from the files it read only, so what
remains is that it makes of them, in the files it writes, what it makes of the whole
workspace (`ResultMerges`, one lemma per kind of request). The `Same...` lemmas
say that the operators of the instance `Operator` are those of the module.

Three more theorems say what a death leaves of it, again when `Proc` has one element
and for finitely many items (a workspace is a file of rows): `WorkspaceSettles`
(`SettledWorkspace`), `TrailOrdered` (`TrailInOrder`) and `OneItemADeath`
(`OneItemPerCrash`). `LoneInv` holds after deaths too, also of files that a death cut
off. `DeathInv` adds, for the process between requests (`Rests`) and for each kind of
request that is being written, which of the files already have what the request made
of them and which are still as they were: the writes that are done are a prefix of
its list, so the rows are one write ahead of the ledger, the ledger of the audit log
and that of the outbox. A death then leaves the files of such a prefix, in
which one item at most is not yet in the ledger, and no request on other items
changes that.

Of `ReleasePipeline`, for any audits, verdicts, gates, runs, queueings and deaths
(the specification `Spec`, in which a run may also die while the script runs beside
it, which `MCSpec` leaves out), with no assumption on the constants:

- `RecordsFinal`: `RecordsAreFinal`, from the steps alone.
- `DoneWritten`: `DoneMeansWritten`. It is inductive together with what a run has
  written at the point where it saves what it has done (`DInv`, proved in
  `DoneInductive`): before the state of the executions is saved, a record for
  every job it loaded; before the state of the remediation is saved, an item for
  every reason. `RunShape` says where a run can be.
- `ReleaseEarned` (`ReleaseIsEarned`) and `EndedRunsAgree` (`RunsAgree`). The files
  keep what earlier runs wrote, and dead ones, so nothing can be said of the chain as
  such: `GInv` speaks of the artifacts that the run under way has already passed. They
  are its own (`Owns`), the readiness on disk is not, and each that is ready stands on
  the one before it, down to the items and the records (`Stands`), which no step
  behind the first three writes of the run changes.
- `ReadinessCovers` (`ReadinessCoversJobs`) and `ReleasedExecuted`
  (`ReleasedWasExecuted`). Work items and jobs are computed from tables the run has
  read and are written later; `TablesEarned` says the same of the tables it holds as
  of those in the files, and records are final. Needs the types (`TypesHold`), since
  a record with any other status would map to nothing.
- `NothingLost` (`NothingIsLost`) from `TakeTurns`: while the script, intake and the
  pipeline take turns, the tables the run holds have the rows of the files, and what
  the script is about to remember is in the table it has written.

Of `ScheduleChain`, for any schedules, intervals, days and deaths, under
`ChainAssumption`, `StatusAssumption` and `NoFileIsNone`: `NothingDropped`,
`ReadyMaterialized` and `AlertsShown` on top of `TypesHold`. Each program keeps
what it has handled below what it has written, because the state is its last
write; a ready gate needs that the requests handled by the materialization are
records, and an alert that is known to the delivery needs that it was shown.

Of `EvidenceIntake`, for any tenants, audits, documents, categories and bounds,
under its assumption on the bounds: `CompletedBacked`, `DoneReady`, `OneCopy`,
`PassKeeps`, `ReadyFinal`, `DeathsStrand`. The invariant adds to these properties that every job
names a row that is stored, with its blob, unless the process died
(`JobsAreStored`). Every action is first shown to change one row in one of a few
ways (`StepOK`); the properties then follow from those ways, not from the
handlers. `DeathsStrand` (`StrandedByDeath`) counts: every step that is not a death
leaves no row stranded that was not, and a death adds at most the row it was about to
enqueue or had taken (`OneByDeath`).

Of `AuditRuns`, for any processes, subjects and bounds, under `RunsAssumption` and
`NoRunIsNone`: `TypesHold` and `CompletedEarned`. The invariant speaks of the files
and of the memory of every handler alike (`GoodRegistry`, `GoodRuns`, `GoodProc`),
since a handler writes back what it read: rows that say COMPLETED are of audits
that earned it, the receipts and what was read of them too, and the steps left
to a handler are a tail of its list, so that it writes only what it has read.
Two more theorems are about handlers that take turns and do not die:
`ClosedStay` (`ClosedRunsStay`) from `FreshInv`, that at most one handler is under
way and that the table of runs it holds is the one in the file; and
`RegisterAndRuns` (`RegisterAgrees`) from `CalmInv`. The register and the table are
written one after the other, so between two requests they agree and within one they
do not: `Before` says, for every step left to the handler, which run of which audit
is in one of the two files and not in the other (by `View` they agree but for it),
and `Rests` that they agree when no handler is under way.

Of `WebhookDelivery`, for any threads, webhooks, limit of failures and bounds, under
`WebhookAssumption`: `TypesHold`, `EarnedDisabling` and `SentAccepted`, that is
`DisablingIsEarned` and `SentWasAccepted`. Rows go stale in the memory of a thread
and are then written over newer ones, so no argument about files alone is inductive:
`IInv` says of every row in a file and of every row a thread holds (`GoodRow`,
`GoodCounter`) what is true of the attempts there were. Attempts, deliveries and
users' decisions are only ever added (`Grows`), so what was true of a row stays true
(`RowKept`, `CounterKept`, `TaskKept`), and a step has only to answer for the row it
writes (`HookWritten`, `RowWritten`).
While no two requests overlap more can be said: `ExactCounts` (`CountsTheStreak`),
`LogLacksDeaths` (`LogMissesOnlyDeaths`) and the action property `DecisionsStand`
(`UsersDecide`). `CalmInv` says that one thread at most is at work (`Lone`), that what
it has read of a webhook is what the file says (`Mirrors`), that the counter on file,
or the one it is about to write, is the number of attempts that failed since the last
one accepted (`Exact`), and that the log lacks one attempt per death and the one in
hand (`Logs`).

Of `EvidencePacks`, for any threads, items, jobs and bounds, under `PackAssumption`
and `NoneIsNoValue`, all its properties. `TypesHold` and `JobsEnd` (`StrandedByDeath`)
hold however requests overlap: `Shape` and `ShapeOfFlow` say for every step what
the request at it holds, which is what keeps a job from a step that ends without
saving it; `JobsHeld` says which thread has a job that is not in the pool.
`CatalogHolds`, `AuditRests`, `ReviewHolds` and `NoneStuck` speak of requests that
take turns. Then one thread at most is at work (`Turns`), what it has read is what
the files say (`Fresh`), and what is not yet true of the files is what it has
begun (`Unfinished`): between a new audit and its first remediations the review is
missing, and an item in the middle of its processing is the one in its hands. A step
has to answer for its own thread only (`TurnStep`), and most steps touch nothing of
this (`PlainIsGood`).

Of `AuditRelease`, for any threads, files of a package and bounds, under
`ReleaseAssumption` and `NoneIsNoFile` (a file that is missing is not one that was
written), all its properties: `GateIsEarned` (`ReadyIsEarned`), `ReleaseIsOneAudit`
(`ReleasedIsOneAudit`) and `PackagesBacked` (`PackagesAreBacked`). For each step of a
request one lemma (`...Moves`) says what it makes of the request and of the files; the
parts of `ReleaseInv` are then shown from these lemmas, each for the request of the
step and the file it writes:
- `Types`: what every file holds, and what a request holds at each of its steps.
- `Earned`: a gate, in a file or in the hands of a request, that is ready is of an
  audit that was clean and exported, and a payload that is released has it among its
  parts. This needs nothing of how requests overlap.
- `Current`: while no execution overlapped, none has company, and what the others
  have read or made is of the audit on file, step by step from the coverage to the
  gate. Two finalizations, or a build beside them, may write over each other's files:
  they write what is of the same audit.
- `Turned`: while, besides, no death came between the detail and the reset of the
  review, the review is of the audit on file or about to be reset, and what is approved
  was approved for the audit it names.
- `Told`: while no execution overlapped, whatever dies, narratives were made of no audit
  after the one on file, the narrative on file is of that one as soon as one was made of
  it, and what a request has read or released is of no audit after its own.
- `Packed`: while no execution and no two finalizations overlapped and no death came in
  the middle of a package, how many of the files of its package a request has written
  and hashed, and that a package nobody is writing is whole.

Every safety property that a passing run checks is proved: for any values of the
constants, but for `RemediationWriters`, whose theorems speak of one process, as with
two finding 2 comes in. Only model-checked are `QueuedBecomesWork`, since liveness and
ENABLED are out of the prover's reach, as is induction over data, and the findings,
which are counterexamples. The type invariants, `LifecycleOnly`, `LedgersOnlyGrow` and
`ReadyIsFinal` are proved and not checked again by a run.

## 5. What is not modelled

- The rest of the table in section 1. `notification_outbox_service.py` repeats the
  pattern of webhook delivery with channels that always succeed; schedules
  and datasets of the api application are single files written by single
  requests, or reads. The largest part of the repository is data: the regulation
  packs under `backend/app/agents/packs/` are some fifteen thousand lines of rules
  written as literals, the scripts of the proof data are reports over them, and the
  reason engines map one document to another. They have no state, no order and
  no concurrency to check.
- Three older scripts (`scripts/remediation_assign_owner.py`,
  `remediation_transition_status.py`, `remediation_apply_verification_result.py`)
  that call the lifecycle functions without the service's checks. They default
  to the generated items, whose rows have neither an owner nor a due date field,
  and fail there before writing.
- Torn files outside `RemediationWriters`: the other stores replace files
  atomically, or are modelled between whole writes only.
- What overlapping loses: while the queueing script or intake runs beside the
  pipeline, either may drop the other's rows, and jobs that `runner_state.json`
  remembers are never queued again. `ReleasePipeline` has these steps;
  `NothingIsLost` promises nothing once they overlapped (`calm`).
- Two release pipelines at once, and the operator workspace writing the same
  `remediation_gate.json`. That a rerun can release what an earlier run blocked:
  it cannot, since records are final and items are only ever written OPEN, and
  `RecordsAreFinal` states the half of it that the tests state too.
- That a PASS covers every work item. It does not: open work items give the
  reconciler no reason (hazard at `core/end_to_end_pipeline_reconciler.py:379`).
- Evidence intake by several processes (section 7).
- Audit runs: `trigger_audit_run`, which nothing calls, and the findings table.
- Schedules: a caller of `run_schedule_cycle`, which the repository does not have
  outside its tests; a cycle whose output replaces one that was not delivered loses
  it (`overrun`), and a due date on which no cycle runs is skipped for good
  (`core/audit_schedule_policy.py:264`). Calendars, where a schedule of the 31st
  drifts (`:120`).
- What overlapping requests lose in `EvidencePacks`: the index and the workflow are
  written back as they were read, so statuses, items and AUDIT_EXECUTED can be
  undone. The model has these steps; its properties promise nothing about them
  once requests overlapped. A pack that was created with controls or with evidence
  in its manifest, and an ingestion that died between the index and the manifest,
  which nothing repairs.
- What `AuditRelease` shows to fail, and states nothing about. A gate that is built
  by a request of its own takes coverage and dossier as it finds them, of an older
  audit too (`core/release_gate_service.py:100`). An execution that overlaps with
  other requests, or dies between the detail and the reset of the review
  (`api/store.py:117`), lets an old approval count for the new audit, and a
  finalization that overlaps with it mixes the two, or writes the older detail back
  over the newer one (`core/finalize_release_service.py:177`). Two finalizations at
  once, or a death in the middle of an export, leave a package that is of two
  payloads under a manifest or a finalization that calls it verified
  (`core/export_package.py:292`). The model has these steps; `raced`, `crossed` and
  `interrupted` say where its properties stop. Left out: reads
  that write nothing.
- The narrative of models (`report_augmentation.json`) is not made anew, nor removed,
  by a new execution of a run id, and the composed report takes it as it is
  (`core/report_composer.py:64`): after execute, augment, execute, approve, finalize,
  strictly in turn, the report of the second audit carries the narrative of the first.
  `AuditRelease` has this, and `ReleasedIsOneAudit` is restricted accordingly: the
  parts that decide (payload, coverage, dossier, gate, findings) are of the approved
  audit; of the narrative it says only that it is of no later one, and that the file
  is of the audit on file once one was made of it. Without the restriction TLC finds
  it violated by that sequence. No document says otherwise, as the narrative is marked
  `non_authoritative`, so it is no finding of section 6.
- Formatting, hashing, prompts, the wording of reports and of models, retrieval and the
  augmentation of evidence, which are downstream of the verdict and advisory.

## 6. Findings

1. `transition_status` logs the status *after* the transition as `from_status`
   (`core/remediation_lifecycle.py:494,502,545`).
2. Two processes that serve requests at once lose rows of the ledger whose rows
   say `immutable: True` (`core/remediation_lifecycle.py:170`).
3. A request that read a webhook before it was deleted writes it back
   (`core/webhook_delivery_service.py:232,366`).

## 7. Plan

What is left, in this order:

1. `EvidenceIntake` with two runners of jobs (`core/evidence_job_service.py:117`: both
   take the same job, and FAILED overwrites COMPLETED).
2. `NotificationOutbox`, and the schedules of the api application.
3. The operator workspace and the pipeline on one `remediation_gate.json`
   (`core/tenet_e2e_orchestrator.py:203`).
