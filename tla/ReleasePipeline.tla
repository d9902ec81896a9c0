--------------------------- MODULE ReleasePipeline ---------------------------
(***************************************************************************)
(* The release pipeline: core/tenet_e2e_orchestrator.py, run_tenet_e2e,    *)
(* with the engines it calls, and the script that queues its jobs          *)
(* (core/canonical_audit_runner.py).  One run of the pipeline turns the    *)
(* outputs of the reason engine into execution records, remediation items, *)
(* a chain of gates up to a finalization receipt, and reconciles work      *)
(* items and jobs with them, rewriting one file after the other.  A run    *)
(* may die between two writes, and jobs may be queued while it runs.       *)
(*                                                                         *)
(* An audit has one work item and one job of the same id, so all tables    *)
(* are indexed by audits.  Hashes, counters and reason texts are left out, *)
(* and so are the files nothing here reads again (canonical artifacts,     *)
(* outcomes, execution and remediation index, and the materialized audits, *)
(* which mirror the work items).  Each file is written in one step.        *)
(***************************************************************************)
EXTENDS Naturals, Sequences

CONSTANTS
    Audit,
    Gate,            \* the gate artifacts other tools may hand in
    Absent,          \* no such file
    MaxRuns,         \* bound on runs of the pipeline
    MaxQueueings,    \* bound on runs of the queueing script
    MaxDeaths        \* bound on deaths of either

ASSUME PipelineAssumption ==
    /\ Gate \subseteq [status : {"PASS", "BLOCKED", "UNKNOWN"}, ready : BOOLEAN,
                       reasons : BOOLEAN]
    /\ Absent \notin Gate
    /\ MaxRuns \in Nat /\ MaxQueueings \in Nat /\ MaxDeaths \in Nat

VARIABLES
    work,        \* work_items.jsonl: rows by audit
    received,    \* the work items that intake has emitted
    jobs,        \* jobs.jsonl: run status by audit
    emitted,     \* runner_state.json: jobs the queueing script has emitted
    openJobs,    \* runner_index.json: total_open_jobs > 0
    records,     \* execution_records.jsonl: execution status by audit
    executed,    \* execution_state.json
    items,       \* remediation_items.jsonl, all of them OPEN
    tracked,     \* remediation_state.json
    disk,        \* the artifacts of the gate chain
    run,         \* the pipeline: how far its run is, and what it has read
    queue,       \* the queueing script, likewise
    runs, queueings, deaths,
    calm         \* never did one of them start while another was under way

inputs  == <<work, received, jobs, emitted, openJobs>>
engines == <<records, executed, items, tracked>>
vars == <<inputs, engines, disk, run, queue, runs, queueings, deaths, calm>>

\* What the reason engine says of an audit: nothing yet, no blocking reason,
\* only reasons that do not block a release, or some that do.
Verdict == {"absent", "clean", "minor", "major"}

ExecutionStatus == {"PENDING_EXECUTION", "BLOCKED", "COMPLETED"}

WorkRow == [status : ExecutionStatus \cup {"NOT_STARTED"}, release : BOOLEAN]

RunStatus == {"QUEUED", "FAILED", "COMPLETED"}

Item == [audit : Audit, source : {"minor", "major", "execution"}]

\* The artifacts that say whether a release is ready, in the order written.
Chain == <<"gate", "discipline", "surface", "finalize", "decision", "package",
           "receipt", "readiness">>

Artifact == {Chain[n] : n \in DOMAIN Chain}

\* run is the number of the run that wrote it; it is not in the code.
NoArtifact == [run |-> 0, ready |-> FALSE]

Tables(V) == UNION {[D -> V] : D \in SUBSET Audit}

Empty == [a \in {} |-> "none"]

\* The rows of f, and those of g for the audits that have none.
Extend(f, g) ==
    [a \in DOMAIN f \cup DOMAIN g |-> IF a \in DOMAIN f THEN f[a] ELSE g[a]]

Idle == [at |-> 0]

Init ==
    /\ work = Empty /\ received = {} /\ jobs = Empty /\ emitted = {} /\ openJobs = FALSE
    /\ records = Empty /\ executed = {} /\ items = {} /\ tracked = {}
    /\ disk = [x \in Artifact |-> NoArtifact]
    /\ run = Idle /\ queue = Idle
    /\ runs = 0 /\ queueings = 0 /\ deaths = 0 /\ calm = TRUE

-----------------------------------------------------------------------------
(* What the engines compute.                                                *)

\* _to_execution_outcome and _build_execution_record
StatusOf(verdict) ==
    CASE verdict = "absent" -> "PENDING_EXECUTION"
      [] verdict = "clean"  -> "COMPLETED"
      [] verdict \in {"minor", "major"} -> "BLOCKED"

\* Mutant: a record that is not COMPLETED is made anew.
RecordsRetried(rows, done, loaded, verdict) ==
    Extend([a \in loaded |-> StatusOf(verdict[a])], rows)

\* build_execution_outputs and append_execution_records: a record for every
\* job that was loaded and has none.
RecordsAfter(rows, done, loaded, verdict) ==
    Extend(rows, [a \in loaded \ done |-> StatusOf(verdict[a])])

\* build_remediation_tracking_outputs: an item for every reason of an artifact
\* and for every record that is BLOCKED.
ItemsOf(rows, verdict) ==
    {i \in Item :
        \/ i.source \in {"minor", "major"} /\ verdict[i.audit] = i.source
        \/ /\ i.source = "execution" /\ i.audit \in DOMAIN rows
           /\ rows[i.audit] = "BLOCKED"}

\* Items are only ever written OPEN.
Blockers(I) == {i \in I : i.source # "minor"}

\* _normalize_gate: a PASS with reasons is none.
Passes(g) == g # Absent /\ g.status = "PASS" /\ ~g.reasons

\* build_final_execution_discipline: a report or export gate that is absent
\* is not evaluated, an absent schedule gate is BLOCKED.
Discipline(I, schedule, report, export) ==
    /\ Passes(schedule)
    /\ Blockers(I) = {}
    /\ report # Absent => Passes(report)
    /\ export # Absent => Passes(export)

\* What build_release_surface wants of the report and the export gate ...
ExportsReady(report, export) ==
    report # Absent /\ report.ready /\ export # Absent /\ export.ready

\* ... and in all, once the discipline is ready.
Surface(I, exports, open) == Blockers(I) = {} /\ ~open /\ exports

\* Mutant: only the records that are BLOCKED count.
ExecutionUnblocked(rows) ==
    DOMAIN rows # {} /\ \A a \in DOMAIN rows : rows[a] # "BLOCKED"

\* build_finalize_release_artifact: execution_complete (and the reports and
\* exports of COMPLETED records are ready).
ExecutionComplete(rows) ==
    DOMAIN rows # {} /\ \A a \in DOMAIN rows : rows[a] = "COMPLETED"

\* Mutant: every audit of a finalized release is released.
WorkAllReleased(table, rows, final) ==
    [a \in DOMAIN table |->
        IF a \in DOMAIN rows THEN [status |-> rows[a], release |-> final]
        ELSE [status |-> "NOT_STARTED", release |-> final]]

\* _reconcile_work_items
WorkAfter(table, rows, final) ==
    [a \in DOMAIN table |->
        IF a \in DOMAIN rows
        THEN [status |-> rows[a], release |-> rows[a] = "COMPLETED" /\ final]
        ELSE [status |-> "NOT_STARTED", release |-> FALSE]]

RunStatusOf(status) ==
    CASE status = "PENDING_EXECUTION" -> "QUEUED"
      [] status = "BLOCKED"           -> "FAILED"
      [] status = "COMPLETED"         -> "COMPLETED"

\* _reconcile_jobs
JobsAfter(table, rows) ==
    [a \in DOMAIN table |->
        IF a \in DOMAIN rows THEN RunStatusOf(rows[a]) ELSE "QUEUED"]

\* Mutant: open jobs are no reason.
ReasonlessOpenJobs(w, j, rows) ==
    /\ \A a \in DOMAIN w : w[a].status # "BLOCKED"
    /\ \A a \in DOMAIN j : j[a] # "FAILED"
    /\ \A a \in DOMAIN rows : rows[a] = "COMPLETED"

\* build_production_readiness: no phase but the finalization gives a reason.
\* Work items that are open, and tables that are empty, make their phase
\* BLOCKED and give none.
Reasonless(w, j, rows) ==
    /\ \A a \in DOMAIN w : w[a].status # "BLOCKED"
    /\ \A a \in DOMAIN j : j[a] = "COMPLETED"
    /\ \A a \in DOMAIN rows : rows[a] = "COMPLETED"

-----------------------------------------------------------------------------
(* A run of the pipeline.                                                   *)

\* Mutant: the state of the executions before its records.
WritesStateFirst ==
    <<"executed", "records", "items", "gate", "tracked", "discipline", "surface",
      "finalize", "decision", "package", "receipt", "load", "work", "jobs", "readiness">>

\* What run_tenet_e2e writes, in order, and where it loads the tables that it
\* reconciles.
Writes ==
    <<"records", "executed", "items", "gate", "tracked", "discipline", "surface",
      "finalize", "decision", "package", "receipt", "load", "work", "jobs", "readiness">>

\* The run takes its next step, which is x, and keeps m.
Step(x, m) ==
    /\ run # Idle /\ Writes[run.at] = x
    /\ run' = IF run.at = Len(Writes) THEN Idle ELSE [m EXCEPT !.at = run.at + 1]
    /\ UNCHANGED <<received, emitted, openJobs, queue, runs, queueings, deaths, calm>>

\* It writes an artifact of the gate chain.
Put(x, ready) ==
    /\ Step(x, run)
    /\ disk' = [disk EXCEPT ![x] = [run |-> runs, ready |-> ready]]
    /\ UNCHANGED <<work, jobs, engines>>

\* The reason outputs and the jobs are loaded.
StartRun == \E verdict \in [Audit -> Verdict] :
    /\ run = Idle /\ runs < MaxRuns
    /\ run' = [at |-> 1, verdict |-> verdict, loaded |-> DOMAIN jobs,
               exports |-> FALSE, work |-> Empty, jobs |-> Empty]
    /\ runs' = runs + 1
    /\ calm' = (calm /\ queue = Idle)
    /\ UNCHANGED <<inputs, engines, disk, queue, queueings, deaths>>

AppendRecords ==
    /\ Step("records", run)
    /\ records' = RecordsAfter(records, executed \cup DOMAIN records, run.loaded, run.verdict)
    /\ UNCHANGED <<work, jobs, executed, items, tracked, disk>>

SaveExecutionState ==
    /\ Step("executed", run)
    /\ executed' = executed \cup run.loaded
    /\ UNCHANGED <<work, jobs, records, items, tracked, disk>>

AppendItems ==
    /\ Step("items", run)
    /\ items' = items \cup (ItemsOf(records, run.verdict) \ tracked)
    /\ UNCHANGED <<work, jobs, records, executed, tracked, disk>>

WriteRemediationGate == Put("gate", Blockers(items) = {})

SaveRemediationState ==
    /\ Step("tracked", [run EXCEPT !.verdict = Empty, !.loaded = {}])
    /\ tracked' = tracked \cup ItemsOf(records, run.verdict)
    /\ UNCHANGED <<work, jobs, records, executed, items, disk>>

\* The gates of other tools are loaded here, whatever they are by now.
WriteDiscipline == \E schedule, report, export \in Gate \cup {Absent} :
    /\ Step("discipline", [run EXCEPT !.exports = ExportsReady(report, export)])
    /\ disk' = [disk EXCEPT !["discipline"] =
                   [run |-> runs, ready |-> Discipline(items, schedule, report, export)]]
    /\ UNCHANGED <<work, jobs, engines>>

\* Mutant: the surface is released whatever the discipline says.
SurfaceUndisciplined == Put("surface", Surface(items, run.exports, openJobs))

WriteSurface ==
    Put("surface", disk["discipline"].ready /\ Surface(items, run.exports, openJobs))

WriteFinalizeArtifact == Put("finalize", disk["surface"].ready /\ ExecutionComplete(records))

\* build_finalize_decision, build_immutable_release_package and
\* build_finalization_receipt pass on what they are given.
WriteDecision == Put("decision", disk["finalize"].ready)

WritePackage == Put("package", disk["decision"].ready)

WriteReceipt == Put("receipt", disk["decision"].ready /\ disk["package"].ready)

LoadTables ==
    /\ Step("load", [run EXCEPT !.work = WorkAfter(work, records, disk["receipt"].ready),
                                !.jobs = JobsAfter(jobs, records), !.exports = FALSE])
    /\ UNCHANGED <<work, jobs, engines, disk>>

WriteWorkItems ==
    /\ Step("work", run)
    /\ work' = run.work
    /\ UNCHANGED <<jobs, engines, disk>>

WriteJobs ==
    /\ Step("jobs", run)
    /\ jobs' = run.jobs
    /\ UNCHANGED <<work, engines, disk>>

WriteReadiness ==
    Put("readiness", disk["receipt"].ready /\ Reasonless(run.work, run.jobs, records))

KillRun ==
    /\ run # Idle /\ deaths < MaxDeaths
    /\ run' = Idle /\ deaths' = deaths + 1
    /\ UNCHANGED <<inputs, engines, disk, queue, runs, queueings, calm>>

-----------------------------------------------------------------------------
(* Work items and jobs.                                                     *)

\* intake_materialized_audits_into_workflow: a new work item, in the table and
\* in the intake's own state.
ReceiveWork == \E a \in Audit \ received :
    /\ work' = Extend(work, [b \in {a} |-> [status |-> "NOT_STARTED", release |-> FALSE]])
    /\ received' = received \cup {a}
    /\ calm' = (calm /\ run = Idle)
    /\ UNCHANGED <<jobs, emitted, openJobs, engines, disk, run, queue, runs, queueings, deaths>>

\* Mutant: the script remembers its jobs before it writes them.
QueueStateFirst == <<"jobs", "state", "append", "write", "index">>

\* What queue_audit_runner_jobs does after it has loaded the work items: it
\* loads jobs and state, loads the jobs again to append to them, and writes.
QueueSteps == <<"jobs", "append", "write", "index", "state">>

QueueStep(x, m) ==
    /\ queue # Idle /\ QueueSteps[queue.at] = x
    /\ queue' = IF queue.at = Len(QueueSteps) THEN Idle ELSE [m EXCEPT !.at = queue.at + 1]
    /\ UNCHANGED <<work, received, engines, disk, run, runs, queueings, deaths, calm>>

\* A work item gets a job only while it is READY_FOR_AUDIT_EXECUTION.
StartQueueing ==
    /\ queue = Idle /\ queueings < MaxQueueings
    /\ queue' = [at |-> 1, table |-> Empty, open |-> FALSE, known |-> DOMAIN work,
                 new |-> {a \in DOMAIN work : work[a].status = "NOT_STARTED"}]
    /\ queueings' = queueings + 1
    /\ calm' = (calm /\ run = Idle)
    /\ UNCHANGED <<inputs, engines, disk, run, runs, deaths>>

\* build_audit_runner_outputs
BuildJobs ==
    LET new == queue.new \ (DOMAIN jobs \cup emitted)
        old == queue.known \cap (DOMAIN jobs \cup emitted)
    IN  /\ QueueStep("jobs", [queue EXCEPT !.new = new, !.known = emitted \cup old \cup new,
                  !.open = new # {} \/ \E a \in DOMAIN jobs : jobs[a] # "COMPLETED"])
        /\ UNCHANGED <<jobs, emitted, openJobs>>

\* append_jobs loads the table a second time.
LoadJobs ==
    /\ QueueStep("append", [queue EXCEPT !.table = Extend(jobs, [a \in queue.new |-> "QUEUED"])])
    /\ UNCHANGED <<jobs, emitted, openJobs>>

AppendJobs ==
    /\ QueueStep("write", [queue EXCEPT !.table = Empty])
    /\ jobs' = queue.table
    /\ UNCHANGED <<emitted, openJobs>>

WriteRunnerIndex ==
    /\ QueueStep("index", queue)
    /\ openJobs' = queue.open
    /\ UNCHANGED <<jobs, emitted>>

SaveRunnerState ==
    /\ QueueStep("state", queue)
    /\ emitted' = queue.known
    /\ UNCHANGED <<jobs, openJobs>>

KillQueueing ==
    /\ queue # Idle /\ deaths < MaxDeaths
    /\ queue' = Idle /\ deaths' = deaths + 1
    /\ UNCHANGED <<inputs, engines, disk, run, runs, queueings, calm>>

-----------------------------------------------------------------------------

Next ==
    \/ StartRun \/ AppendRecords \/ SaveExecutionState \/ AppendItems
    \/ WriteRemediationGate \/ SaveRemediationState \/ WriteDiscipline
    \/ WriteSurface \/ WriteFinalizeArtifact \/ WriteDecision \/ WritePackage
    \/ WriteReceipt \/ LoadTables \/ WriteWorkItems \/ WriteJobs \/ WriteReadiness
    \/ KillRun
    \/ ReceiveWork
    \/ StartQueueing \/ BuildJobs \/ LoadJobs \/ AppendJobs \/ WriteRunnerIndex
    \/ SaveRunnerState \/ KillQueueing

Spec == Init /\ [][Next]_vars

-----------------------------------------------------------------------------

\* The files hold rows of their declared shapes.
TypeOK ==
    /\ work \in Tables(WorkRow) /\ jobs \in Tables(RunStatus)
    /\ records \in Tables(ExecutionStatus)
    /\ received \subseteq Audit /\ emitted \subseteq Audit /\ executed \subseteq Audit
    /\ items \subseteq Item /\ tracked \subseteq Item
    /\ disk \in [Artifact -> [run : Nat, ready : BOOLEAN]]

\* Whatever is queued while it runs and wherever earlier runs died, a run
\* writes a ready package, receipt or readiness only if every execution record
\* there is is COMPLETED and no remediation item there is blocks a release.
ReleaseIsEarned ==
    [][\A x \in {"package", "receipt", "readiness"} :
          disk'[x] # disk[x] /\ disk'[x].ready =>
              /\ DOMAIN records # {} /\ \A a \in DOMAIN records : records[a] = "COMPLETED"
              /\ Blockers(items) = {}]_vars

\* A run that says PASS at its end has seen every job of the table it
\* reconciled COMPLETED: a job queued since it loaded its jobs blocks it.
ReadinessCoversJobs ==
    [][disk'["readiness"] # disk["readiness"] /\ disk'["readiness"].ready =>
          \A a \in DOMAIN run.jobs : a \in DOMAIN records /\ records[a] = "COMPLETED"]_vars

\* An execution record is never changed, by no later verdict and no rerun.
RecordsAreFinal ==
    [][\A a \in DOMAIN records : a \in DOMAIN records' /\ records'[a] = records[a]]_vars

\* A work item that is released was executed: one that was received or queued
\* while the release was made, and has no record, is not released with it.
ReleasedWasExecuted ==
    \A a \in DOMAIN work : work[a].release =>
        a \in DOMAIN records /\ records[a] = "COMPLETED"

\* No death makes an engine believe it has done what it has not: the states
\* of the engines name only rows that their tables have.
DoneMeansWritten == executed \subseteq DOMAIN records /\ tracked \subseteq items

\* As long as they take turns, the queueing script and intake lose nothing:
\* what they remember to have emitted is in the tables.
NothingIsLost ==
    calm => emitted \subseteq DOMAIN jobs /\ received \subseteq DOMAIN work

\* After a run that ended, all artifacts are its own, and a PASS at the end of
\* the chain stands on a PASS everywhere before.
RunsAgree ==
    run = Idle /\ runs > 0 /\ disk["readiness"].run = runs =>
        /\ \A x \in Artifact : disk[x].run = runs
        /\ \A m, n \in DOMAIN Chain : m < n /\ disk[Chain[n]].ready => disk[Chain[m]].ready
=============================================================================
