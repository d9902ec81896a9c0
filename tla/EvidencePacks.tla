---------------------------- MODULE EvidencePacks ----------------------------
(***************************************************************************)
(* An evidence pack, the workflow that audits it, the audit that is stored *)
(* under a run id, its review and its remediations, and the jobs that do   *)
(* the slow part:                                                          *)
(*   core/evidence_ingestion_service.py    core/workflow_service.py        *)
(*   core/evidence_processing_service.py   core/job_manager.py             *)
(*   core/evidence_pack_service.py         core/review_service.py          *)
(*   api/store.py                          core/remediation_service.py     *)
(* Threads of the API and of the job pool serve requests at once.  Every   *)
(* request reads whole files, and writes back whole files made of what it  *)
(* has read; there is no lock that spans the two.  A write is atomic.      *)
(*                                                                         *)
(* One pack, one workflow of it and one run id, which may be executed      *)
(* again.  The controls of the pack are planned, so that its readiness     *)
(* hangs on its corpus alone.  Blobs and texts are left out: they are      *)
(* written once, under a name made of the evidence.                        *)
(***************************************************************************)
EXTENDS Naturals, FiniteSets

CONSTANTS
    Thread, Item, Job,
    None,            \* no such file, row or request
    MaxRequests,     \* bound on requests
    MaxStores,       \* bound on audits stored
    MaxDeaths        \* bound on deaths of the process

ASSUME PackAssumption ==
    /\ MaxRequests \in Nat /\ MaxStores \in Nat /\ MaxDeaths \in Nat
    /\ IsFiniteSet(Item)

VARIABLES
    index,           \* evidence_index.json: processing_status by item
    catalog,         \* manifest.json: evidence_catalog
    detail,          \* the pack's detail.json: evidence_count, latest_execution
    flow,            \* the workflow's detail.json
    stored,          \* the run's detail.json
    review,          \* the run's review_state.json
    remediation,     \* the run's remediation_state.json
    jobs,            \* status by job
    pool,            \* the jobs that wait in the executor
    request,         \* what each thread is doing, and what it has read
    requests, deaths,
    overlapped,      \* two requests were ever under way at once
    processed        \* the items that were ever READY

packFiles == <<index, catalog, detail>>
runFiles  == <<stored, review, remediation>>
counters  == <<requests, deaths, overlapped>>
vars == <<packFiles, flow, runFiles, jobs, pool, request, counters, processed>>

Pending == {"UPLOADED", "EXTRACTING", "CLASSIFYING", "EXTRACTING_FACTS"}
Failed  == {"EXTRACTION_FAILED", "CLASSIFICATION_FAILED", "FAILED"}
Status  == Pending \cup Failed \cup {"READY"}

FlowStatus == {"CREATED", "READY_FOR_EXECUTION", "BLOCKED_BY_READINESS",
               "AUDIT_EXECUTED", "REMEDIATION_ACTIVE", "COMPLETED_NO_REMEDIATION"}

\* What the files hold.  A review and the remediations say of which audit.
Detail == [count : Nat, execution : 0..MaxStores]
Flow == [status : FlowStatus, planned : BOOLEAN, execution : 0..MaxStores]
Audit == [n : 1..MaxStores, evidence : SUBSET Item, findings : BOOLEAN]
ReviewState == [of : 1..MaxStores, decided : BOOLEAN]
RemediationState == [of : 1..MaxStores, items : BOOLEAN]
JobType == {"process_evidence_pack", "run_workflow_audit"}
JobRecord == [type : JobType, status : {"PENDING", "RUNNING", "SUCCEEDED", "FAILED"}]

ASSUME NoneIsNoValue ==
    None \notin Job \cup Audit \cup RemediationState \cup JobRecord

Absent == "absent"
Indexed(table) == {e \in Item : table[e] # Absent}

\* Mutant: a corpus is ready when nothing of it failed.
CorpusUnfailed(table) ==
    Indexed(table) # {} /\ \A e \in Indexed(table) : table[e] \notin Failed

\* build_corpus_readiness
CorpusReady(table) ==
    Indexed(table) # {} /\ \A e \in Indexed(table) : table[e] = "READY"

Idle == [at |-> "idle"]
Busy == {t \in Thread : request[t] # Idle}

\* job is the job that a request is the work of, flow the workflow it read,
\* todo the items it has yet to process, copy the file it last read.
NewRequest == [at |-> "new", job |-> None, goal |-> None, todo |-> {}, item |-> None,
               copy |-> None, detail |-> None, flow |-> None,
               run |-> None]

\* A pack that was created without evidence, and whose items were ingested,
\* and perhaps processed, before.
Init ==
    /\ index \in [Item -> {Absent, "UPLOADED", "READY"}]
    /\ catalog = Indexed(index)
    /\ detail = [count |-> Cardinality(catalog), execution |-> 0]
    /\ flow = None
    /\ stored = None /\ review = None /\ remediation = None
    /\ jobs = [j \in Job |-> None] /\ pool = {}
    /\ request = [t \in Thread |-> Idle]
    /\ requests = 0 /\ deaths = 0 /\ overlapped = FALSE
    /\ processed = {e \in Item : index[e] = "READY"}

-----------------------------------------------------------------------------
(* Steps of a request.                                                      *)

\* Thread t begins a request, and has read what m says.
Begin(t, m) ==
    /\ request[t] = Idle
    /\ request' = [request EXCEPT ![t] = m]
    /\ overlapped' = (overlapped \/ Busy # {})
    /\ UNCHANGED deaths

\* ... one that a user sends.
Serve(t, m) == Begin(t, m) /\ requests < MaxRequests /\ requests' = requests + 1

\* It is at step x and goes on as m.
Step(t, x, m) ==
    /\ request[t].at = x
    /\ request' = [request EXCEPT ![t] = m]
    /\ UNCHANGED counters

\* What is left of a request that ends: the thread of a job has to save it.
Ending(r, status) ==
    IF r.job = None THEN Idle ELSE [NewRequest EXCEPT !.at = status, !.job = r.job]

Done(r) == Ending(r, "SUCCEEDED")
\* Mutant: a job that raises is not saved.
RaisedUnsaved(r) == Idle

Raised(r) == Ending(r, "FAILED")

-----------------------------------------------------------------------------
(* core/evidence_ingestion_service.py                                       *)

\* ingest_evidence_file: an item that is indexed is returned as it is.
Ingest(t, e) ==
    /\ index[e] = Absent
    /\ Serve(t, [NewRequest EXCEPT !.at = "index", !.item = e, !.copy = index])
    /\ UNCHANGED <<packFiles, flow, runFiles, jobs, pool, processed>>

\* Mutant: the new row of the index is not saved.
IndexUnsaved(t) ==
    /\ Step(t, "index", [request[t] EXCEPT !.at = "manifest", !.copy = None])
    /\ UNCHANGED <<packFiles, flow, runFiles, jobs, pool, processed>>

WriteIndex(t) ==
    LET r == request[t]
    IN  /\ Step(t, "index", [r EXCEPT !.at = "manifest", !.copy = None])
        /\ index' = [r.copy EXCEPT ![r.item] = "UPLOADED"]
        /\ UNCHANGED <<catalog, detail, flow, runFiles, jobs, pool, processed>>

\* _update_pack_manifest_evidence_catalog
ReadManifest(t) ==
    LET r == request[t]
    IN  /\ Step(t, "manifest", IF r.item \in catalog THEN Idle
                               ELSE [r EXCEPT !.at = "catalog", !.copy = catalog])
        /\ UNCHANGED <<packFiles, flow, runFiles, jobs, pool, processed>>

WriteCatalog(t) ==
    LET r == request[t]
        new == r.copy \cup {r.item}
    IN  /\ Step(t, "catalog", [r EXCEPT !.at = "brief", !.copy = Cardinality(new)])
        /\ catalog' = new
        /\ UNCHANGED <<index, detail, flow, runFiles, jobs, pool, processed>>

ReadSummary(t) ==
    LET r == request[t]
    IN  /\ Step(t, "brief", [r EXCEPT !.at = "count", !.detail = detail])
        /\ UNCHANGED <<packFiles, flow, runFiles, jobs, pool, processed>>

WriteSummary(t) ==
    LET r == request[t]
    IN  /\ Step(t, "count", Idle)
        /\ detail' = [r.detail EXCEPT !.count = r.copy]
        /\ UNCHANGED <<index, catalog, flow, runFiles, jobs, pool, processed>>

-----------------------------------------------------------------------------
(* core/evidence_processing_service.py                                      *)

\* process_evidence_item, and process_all_evidence_for_pack.
Process(t, items) ==
    /\ items # {} /\ (items = Indexed(index) \/ \E e \in Indexed(index) : items = {e})
    /\ Serve(t, [NewRequest EXCEPT !.at = "next", !.todo = items])
    /\ UNCHANGED <<packFiles, flow, runFiles, jobs, pool, processed>>

\* The index is read for each item anew; an item that is not there is a
\* failure.
ReadItem(t) == request[t].at = "next" /\ \E e \in request[t].todo :
    LET r == [request[t] EXCEPT !.todo = @ \ {e}]
    IN  /\ Step(t, "next", IF index[e] = Absent THEN r
                           ELSE [r EXCEPT !.at = "UPLOADED", !.item = e, !.copy = index])
        /\ UNCHANGED <<packFiles, flow, runFiles, jobs, pool, processed>>

EndProcessing(t) ==
    /\ request[t].at = "next" /\ request[t].todo = {}
    /\ Step(t, "next", Done(request[t]))
    /\ UNCHANGED <<packFiles, flow, runFiles, jobs, pool, processed>>

\* What _set_status writes next.  Facts are extracted of evidence that was
\* classified with high confidence; what raises ends in a failure.
After(status) ==
    CASE status = "UPLOADED"         -> {"EXTRACTING"}
      [] status = "EXTRACTING"       -> {"CLASSIFYING", "EXTRACTION_FAILED"}
      [] status = "CLASSIFYING"      -> {"EXTRACTING_FACTS", "READY", "CLASSIFICATION_FAILED"}
      [] status = "EXTRACTING_FACTS" -> {"READY", "FAILED"}

\* Mutant: a failure is returned, and not written.
FailureUnwritten(t) == request[t].at \in Pending /\ \E s \in After(request[t].at) :
    LET r == request[t]
        new == [r.copy EXCEPT ![r.item] = s]
    IN  /\ Step(t, r.at, IF s \in Pending THEN [r EXCEPT !.at = s, !.copy = new]
                         ELSE [r EXCEPT !.at = "next", !.item = None, !.copy = None])
        /\ index' = IF s \in Failed THEN index ELSE new
        /\ processed' = IF s = "READY" THEN processed \cup {r.item} ELSE processed
        /\ UNCHANGED <<catalog, detail, flow, runFiles, jobs, pool>>

\* The index is written back as it was read, but for the row of the item.
WriteStatus(t) == request[t].at \in Pending /\ \E s \in After(request[t].at) :
    LET r == request[t]
        new == [r.copy EXCEPT ![r.item] = s]
    IN  /\ Step(t, r.at, IF s \in Pending THEN [r EXCEPT !.at = s, !.copy = new]
                         ELSE [r EXCEPT !.at = "next", !.item = None, !.copy = None])
        /\ index' = new
        /\ processed' = IF s = "READY" THEN processed \cup {r.item} ELSE processed
        /\ UNCHANGED <<catalog, detail, flow, runFiles, jobs, pool>>

-----------------------------------------------------------------------------
(* core/workflow_service.py                                                 *)

\* create_workflow
CreateWorkflow ==
    /\ flow = None
    /\ flow' = [status |-> "CREATED", planned |-> FALSE, execution |-> 0]
    /\ UNCHANGED <<packFiles, runFiles, jobs, pool, request, counters, processed>>

\* refresh_workflow_readiness
Refresh(t) ==
    /\ flow # None
    /\ Serve(t, [NewRequest EXCEPT !.at = "readiness", !.goal = "refresh", !.flow = flow])
    /\ UNCHANGED <<packFiles, flow, runFiles, jobs, pool, processed>>

\* execute_workflow_audit: a workflow without a readiness is refreshed first,
\* and read again for that.
Execute(t) ==
    /\ flow # None
    /\ Serve(t, [NewRequest EXCEPT !.at = IF flow.planned THEN "execute" ELSE "refresh",
                                   !.goal = "execute", !.flow = flow])
    /\ UNCHANGED <<packFiles, flow, runFiles, jobs, pool, processed>>

\* A job is to find the workflow: there is one to read or it fails.
ReadWorkflow(t) ==
    LET r == request[t]
    IN  /\ \E x \in {<<"refresh", "readiness">>, <<"fetch", "execute">>} :
               Step(t, x[1], IF flow = None THEN Raised(r)
                             ELSE [r EXCEPT !.at = x[2], !.flow = flow])
        /\ UNCHANGED <<packFiles, flow, runFiles, jobs, pool, processed>>

\* build_readiness_plan
ReadReadiness(t) ==
    LET r == request[t]
    IN  /\ Step(t, "readiness", [r EXCEPT !.at = "plan", !.flow.planned = TRUE,
              !.flow.status = IF CorpusReady(index) THEN "READY_FOR_EXECUTION"
                              ELSE "BLOCKED_BY_READINESS"])
        /\ UNCHANGED <<packFiles, flow, runFiles, jobs, pool, processed>>

\* The job run_workflow_audit calls refresh and execute; execute goes on with
\* what it has refreshed.
WriteReadiness(t) ==
    LET r == request[t]
    IN  /\ Step(t, "plan", CASE r.goal = "refresh" -> Done(r)
                             [] r.goal = "execute" -> [r EXCEPT !.at = "execute"]
                             [] r.goal = "job" -> [r EXCEPT !.at = "fetch"])
        /\ flow' = r.flow
        /\ UNCHANGED <<packFiles, runFiles, jobs, pool, processed>>

WriteExecuted(t) ==
    LET r == request[t]
    IN  /\ Step(t, "executed", Done(r))
        /\ flow' = [r.flow EXCEPT !.status = "AUDIT_EXECUTED", !.execution = r.run]
        /\ UNCHANGED <<packFiles, runFiles, jobs, pool, processed>>

-----------------------------------------------------------------------------
(* core/evidence_pack_service.py and api/store.py                           *)

\* execute_evidence_pack, for itself.
ExecutePack(t) ==
    /\ Serve(t, [NewRequest EXCEPT !.at = "corpus", !.goal = "pack", !.detail = detail])
    /\ UNCHANGED <<packFiles, flow, runFiles, jobs, pool, processed>>

\* ... for a workflow, which has to be ready.
ReadPack(t) ==
    LET r == request[t]
    IN  /\ Step(t, "execute",
              IF r.flow.status = "READY_FOR_EXECUTION"
              THEN [r EXCEPT !.at = "corpus", !.detail = detail]
              ELSE Raised(r))
        /\ UNCHANGED <<packFiles, flow, runFiles, jobs, pool, processed>>

ReadCorpus(t) ==
    LET r == request[t]
    IN  /\ Step(t, "corpus", IF CorpusReady(index) THEN [r EXCEPT !.at = "controls"]
                             ELSE Raised(r))
        /\ UNCHANGED <<packFiles, flow, runFiles, jobs, pool, processed>>

\* build_execution_payload_from_pack: the manifest is read for the controls.
ReadControls(t) ==
    /\ Step(t, "controls", [request[t] EXCEPT !.at = "store", !.copy = catalog])
    /\ UNCHANGED <<packFiles, flow, runFiles, jobs, pool, processed>>

\* execute_and_store_audit: the audit is numbered, which the code does not do.
StoreAudit(t) == \E findings \in BOOLEAN :
    LET r == request[t]
        n == IF stored = None THEN 1 ELSE stored.n + 1
    IN  /\ n <= MaxStores
        /\ Step(t, "store", [r EXCEPT !.at = "reset", !.run = n, !.copy = None])
        /\ stored' = [n |-> n, evidence |-> r.copy, findings |-> findings]
        /\ UNCHANGED <<packFiles, flow, review, remediation, jobs, pool, processed>>

\* Mutant: a review outlives the audit it is of.
ReviewKept(t) ==
    /\ Step(t, "reset", [request[t] EXCEPT !.at = "reseed"])
    /\ UNCHANGED <<packFiles, flow, runFiles, jobs, pool, processed>>

\* reset_review_state
ResetReview(t) ==
    /\ Step(t, "reset", [request[t] EXCEPT !.at = "reseed"])
    /\ review' = None
    /\ UNCHANGED <<packFiles, flow, stored, remediation, jobs, pool, processed>>

\* The first state of the remediation of the stored audit.
Seeds == [of |-> stored.n, items |-> stored.findings]

\* reseed_remediation_state
ReadFindings(t) ==
    LET r == request[t]
    IN  /\ Step(t, "reseed", [r EXCEPT !.at = "seeds", !.copy = Seeds])
        /\ UNCHANGED <<packFiles, flow, runFiles, jobs, pool, processed>>

WriteExecution(t) ==
    LET r == request[t]
    IN  /\ Step(t, "packed", IF r.goal = "pack" THEN Done(r) ELSE [r EXCEPT !.at = "executed"])
        /\ detail' = [r.detail EXCEPT !.execution = r.run]
        /\ UNCHANGED <<index, catalog, flow, runFiles, jobs, pool, processed>>

-----------------------------------------------------------------------------
(* core/remediation_service.py and core/review_service.py                   *)

\* ensure_remediation_state: what r has read, and where it goes on.
Ensured(r) ==
    IF remediation = None THEN [r EXCEPT !.at = "seeds", !.copy = Seeds]
    ELSE [r EXCEPT !.at = r.goal, !.copy = remediation]

\* update_remediation
Remediate(t) ==
    /\ stored # None
    /\ Serve(t, Ensured([NewRequest EXCEPT !.goal = "update"]))
    /\ UNCHANGED <<packFiles, flow, runFiles, jobs, pool, processed>>

\* refresh_workflow_remediation
RefreshRemediation(t) ==
    /\ flow # None /\ flow.execution # 0
    /\ Serve(t, [NewRequest EXCEPT !.at = "ensure", !.goal = "summary", !.flow = flow])
    /\ UNCHANGED <<packFiles, flow, runFiles, jobs, pool, processed>>

ReadItems(t) ==
    /\ Step(t, "ensure", Ensured(request[t]))
    /\ UNCHANGED <<packFiles, flow, runFiles, jobs, pool, processed>>

WriteSeeds(t) ==
    LET r == request[t]
    IN  /\ Step(t, "seeds", IF r.goal \in {"update", "summary"} THEN [r EXCEPT !.at = r.goal]
                            ELSE [r EXCEPT !.at = "packed", !.copy = None])
        /\ remediation' = r.copy
        /\ UNCHANGED <<packFiles, flow, stored, review, jobs, pool, processed>>

\* What an update changes in an item is left out.
UpdateItem(t) ==
    LET r == request[t]
    IN  /\ Step(t, "update", Idle)
        /\ remediation' = IF r.copy.items THEN r.copy ELSE remediation
        /\ UNCHANGED <<packFiles, flow, stored, review, jobs, pool, processed>>

WriteSummaryOfItems(t) ==
    LET r == request[t]
    IN  /\ Step(t, "summary", Idle)
        /\ flow' = [r.flow EXCEPT !.status = IF r.copy.items THEN "REMEDIATION_ACTIVE"
                                             ELSE "COMPLETED_NO_REMEDIATION"]
        /\ UNCHANGED <<packFiles, runFiles, jobs, pool, processed>>

\* submit_review_decision, and build_review_summary, which may seed a state.
Review(t) == \E goal \in {"decide", "view"} :
    /\ stored # None /\ (goal = "view" => review = None)
    /\ Serve(t, IF review = None
                THEN [NewRequest EXCEPT !.at = "baseline", !.goal = goal,
                                        !.copy = [of |-> stored.n, decided |-> FALSE]]
                ELSE [NewRequest EXCEPT !.at = "decide", !.copy = review])
    /\ UNCHANGED <<packFiles, flow, runFiles, jobs, pool, processed>>

WriteBaseline(t) ==
    LET r == request[t]
    IN  /\ Step(t, "baseline", IF r.goal = "view" THEN Idle ELSE [r EXCEPT !.at = "decide"])
        /\ review' = r.copy
        /\ UNCHANGED <<packFiles, flow, stored, remediation, jobs, pool, processed>>

WriteDecision(t) ==
    /\ Step(t, "decide", Idle)
    /\ review' = [request[t].copy EXCEPT !.decided = TRUE]
    /\ UNCHANGED <<packFiles, flow, stored, remediation, jobs, pool, processed>>

-----------------------------------------------------------------------------
(* core/job_manager.py                                                      *)

\* submit_job: the record first, the executor then.
Submit(t, j, type) ==
    /\ jobs[j] = None
    /\ Serve(t, [NewRequest EXCEPT !.at = "submit", !.copy = j])
    /\ jobs' = [jobs EXCEPT ![j] = [type |-> type, status |-> "PENDING"]]
    /\ UNCHANGED <<packFiles, flow, runFiles, pool, processed>>

Enqueue(t) ==
    /\ Step(t, "submit", Idle)
    /\ pool' = pool \cup {request[t].copy}
    /\ UNCHANGED <<packFiles, flow, runFiles, jobs, processed>>

\* A worker takes a job: _run_job_callable.
Take(t, j) ==
    /\ j \in pool
    /\ Begin(t, [NewRequest EXCEPT !.at = "running", !.job = j])
    /\ pool' = pool \ {j}
    /\ UNCHANGED <<packFiles, flow, runFiles, jobs, requests, processed>>

SaveRunning(t) ==
    LET r == request[t]
    IN  /\ Step(t, "running",
              IF jobs[r.job].type = "process_evidence_pack" THEN [r EXCEPT !.at = "list"]
              ELSE [r EXCEPT !.at = "refresh", !.goal = "job"])
        /\ jobs' = [jobs EXCEPT ![r.job].status = "RUNNING"]
        /\ UNCHANGED <<packFiles, flow, runFiles, pool, processed>>

ListItems(t) ==
    LET r == request[t]
    IN  /\ Step(t, "list", [r EXCEPT !.at = "next", !.todo = Indexed(index)])
        /\ UNCHANGED <<packFiles, flow, runFiles, jobs, pool, processed>>

SaveJob(t) == \E status \in {"SUCCEEDED", "FAILED"} :
    /\ Step(t, status, Idle)
    /\ jobs' = [jobs EXCEPT ![request[t].job].status = status]
    /\ UNCHANGED <<packFiles, flow, runFiles, pool, processed>>

-----------------------------------------------------------------------------

\* The process dies, and is started again with an empty pool.
Die ==
    /\ deaths < MaxDeaths /\ (Busy # {} \/ pool # {})
    /\ deaths' = deaths + 1
    /\ request' = [t \in Thread |-> Idle] /\ pool' = {}
    /\ UNCHANGED <<packFiles, flow, runFiles, jobs, requests, overlapped, processed>>

\* A thread goes on with what it is doing.
Continue(t) ==
    \/ WriteIndex(t) \/ ReadManifest(t) \/ WriteCatalog(t) \/ ReadSummary(t)
    \/ WriteSummary(t)
    \/ ReadItem(t) \/ EndProcessing(t) \/ WriteStatus(t)
    \/ ReadWorkflow(t) \/ ReadReadiness(t) \/ WriteReadiness(t) \/ WriteExecuted(t)
    \/ ReadPack(t) \/ ReadCorpus(t) \/ ReadControls(t) \/ StoreAudit(t) \/ ResetReview(t)
    \/ ReadFindings(t) \/ WriteExecution(t)
    \/ ReadItems(t) \/ WriteSeeds(t) \/ UpdateItem(t) \/ WriteSummaryOfItems(t)
    \/ WriteBaseline(t) \/ WriteDecision(t)
    \/ Enqueue(t) \/ SaveRunning(t) \/ ListItems(t) \/ SaveJob(t)

Next ==
    \/ CreateWorkflow \/ Die
    \/ \E t \in Thread :
        \/ Continue(t)
        \/ \E e \in Item : Ingest(t, e)
        \/ \E items \in SUBSET Item : Process(t, items)
        \/ Refresh(t) \/ Execute(t) \/ ExecutePack(t)
        \/ Remediate(t) \/ RefreshRemediation(t) \/ Review(t)
        \/ \E j \in Job, type \in JobType : Submit(t, j, type)
        \/ \E j \in Job : Take(t, j)

Spec == Init /\ [][Next]_vars

-----------------------------------------------------------------------------

\* Every file holds what its readers expect.
TypeOK ==
    /\ index \in [Item -> Status \cup {Absent}]
    /\ catalog \subseteq Item
    /\ detail \in Detail
    /\ flow \in Flow \cup {None}
    /\ stored \in Audit \cup {None}
    /\ review \in ReviewState \cup {None}
    /\ remediation \in RemediationState \cup {None}
    /\ jobs \in [Job -> JobRecord \cup {None}]
    /\ pool \subseteq Job

\* No two requests ever overlapped, and the process never died.
Calm == ~overlapped /\ deaths = 0

\* The review on file is of the audit on file, and so are the remediations,
\* also when the run is executed again: no approval is carried over to an
\* audit that nobody reviewed, as long as requests take turns.
ReviewIsCurrent ==
    Calm /\ Busy = {} =>
        /\ review # None => review.of = stored.n
        /\ stored # None => remediation # None /\ remediation.of = stored.n

\* As long as requests take turns, and wherever the process dies, the catalog
\* of the pack, from which its controls are planned, names no evidence that
\* the index does not have.
CatalogIsIndexed == ~overlapped => catalog \subseteq Indexed(index)

\* As long as requests take turns, and wherever the process dies, a stored
\* audit rests on no evidence that was never READY.
AuditedWasProcessed ==
    ~overlapped /\ stored # None => stored.evidence \subseteq processed

\* No item is left in the middle of its processing, by whatever failure, but
\* by a death or by a request that wrote back an index it read before.
NothingIsStuck ==
    Calm /\ Busy = {} => \A e \in Item : index[e] \notin Pending \ {"UPLOADED"}

\* A job that has no end waits in the pool or is being run, or the process
\* died with it: nothing else ever takes it up again.
StrandedByDeath ==
    \A j \in Job : jobs[j] # None /\ jobs[j].status \in {"PENDING", "RUNNING"} =>
        \/ deaths > 0 \/ j \in pool
        \/ \E t \in Busy : request[t].job = j \/ request[t].copy = j
=============================================================================
