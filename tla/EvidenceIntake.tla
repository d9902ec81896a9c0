--------------------------- MODULE EvidenceIntake ---------------------------
(***************************************************************************)
(* How a file becomes evidence of an audit: upload sessions                *)
(* (core/upload_session_service.py), the blob store, the evidence rows     *)
(* (core/evidence_application_service.py), the jobs that process them      *)
(* (core/evidence_job_service.py) and the evidence gate of an audit.       *)
(*                                                                         *)
(* One API process serves the requests; its handlers never await, so each  *)
(* is one step.  A handler that writes several files can die between two   *)
(* of them: it then has carried out a prefix of its writes.  A request     *)
(* that is refused before it writes changes nothing and is left out, and   *)
(* so are hashes, sizes, names and notes; a file is known by its content   *)
(* (its SHA-256).  The rows of a file are numbered in the order they are   *)
(* made, and their number stands for their id.                             *)
(***************************************************************************)
EXTENDS Naturals, Sequences, FiniteSets

CONSTANTS
    Tenant, Audit,
    Doc,            \* file contents
    Category,       \* evidence categories
    MaxSessions,    \* bound on upload sessions
    MaxEvidence,    \* bound on evidence rows
    MaxDeaths       \* bound on deaths of the process inside a handler

ASSUME IntakeAssumption ==
    MaxSessions \in Nat /\ MaxEvidence \in Nat /\ MaxDeaths \in Nat

VARIABLES sessions,      \* upload_sessions.jsonl
          evidence,      \* evidence_items.jsonl
          jobs,          \* evidence_jobs.jsonl
          blobs,         \* the objects of the blob store
          required,      \* audit_evidence_requirements.json of each audit
          gate,          \* audit_evidence_gate.json of each audit
          deaths         \* deaths so far

vars == <<sessions, evidence, jobs, blobs, required, gate, deaths>>

Payload == [tenant : Tenant, audit : Audit, doc : Doc, category : Category]

\* session is the number of the upload session that registered the row (0 for
\* POST /evidence); it is not in the code, properties use it.
EvidenceStatus == {"UPLOADING", "PROCESSING", "READY", "FAILED", "CANCELLED"}

EvidenceRow == [file : Payload, status : EvidenceStatus, stored : BOOLEAN,
                session : 0..MaxSessions]

SessionStatus == {"CREATED", "COMPLETED", "FAILED", "CANCELLED"}

\* evidence is the number of the row the session was completed with, 0 before.
SessionRow == [file : Payload, status : SessionStatus, evidence : 0..MaxEvidence]

JobRow == [evidence : 1..MaxEvidence,
           status : {"QUEUED", "PROCESSING", "COMPLETED", "FAILED"}]

\* by is the tenant the gate was computed for.
GateRow == [pass : BOOLEAN, required : SUBSET Category, by : Tenant]

NoGate == [pass |-> FALSE]

Init ==
    /\ sessions = << >> /\ evidence = << >> /\ jobs = << >>
    /\ blobs = {}
    /\ required = [a \in Audit |-> {}]
    /\ gate = [a \in Audit |-> NoGate]
    /\ deaths = 0

Blob(file) == [tenant |-> file.tenant, audit |-> file.audit, doc |-> file.doc]

-----------------------------------------------------------------------------
(* The evidence rows.                                                       *)

NewRow(file, s) ==
    [file |-> file, status |-> "UPLOADING", stored |-> FALSE, session |-> s]

\* Mutant: only a READY copy is a duplicate.
DuplicateOfReady(file) ==
    \E e \in DOMAIN evidence :
        Blob(evidence[e].file) = Blob(file) /\ evidence[e].status = "READY"

\* register_upload raises EVIDENCE_DUPLICATE: the tenant has this content in
\* this audit, in any status but CANCELLED.
Duplicate(file) ==
    \E e \in DOMAIN evidence :
        Blob(evidence[e].file) = Blob(file) /\ evidence[e].status # "CANCELLED"

\* _assert_mutable
Mutable(row) == row.status # "READY"

\* complete_upload, for a row that is UPLOADING.
Completed(row, started) ==
    [row EXCEPT !.stored = TRUE,
                !.status = IF started THEN "PROCESSING" ELSE "UPLOADING"]

\* mark_ready raises for a row in any other status.
CanBeReady(row) == Mutable(row) /\ row.status \in {"PROCESSING", "UPLOADING"}

Update(e, row) == evidence' = [evidence EXCEPT ![e] = row]

OnlyEvidence == UNCHANGED <<sessions, jobs, blobs, required, gate, deaths>>

\* POST /evidence
RegisterUpload == \E file \in Payload :
    /\ Len(evidence) < MaxEvidence
    /\ ~Duplicate(file)
    /\ evidence' = Append(evidence, NewRow(file, 0))
    /\ OnlyEvidence

\* POST /evidence/{id}/complete
CompleteUpload == \E e \in DOMAIN evidence, started \in BOOLEAN :
    /\ Mutable(evidence[e]) /\ evidence[e].status = "UPLOADING"
    /\ Update(e, Completed(evidence[e], started))
    /\ OnlyEvidence

\* POST /evidence/{id}/fail
FailUpload == \E e \in DOMAIN evidence :
    /\ Mutable(evidence[e])
    /\ Update(e, [evidence[e] EXCEPT !.status = "FAILED"])
    /\ OnlyEvidence

\* POST /evidence/{id}/cancel
CancelUpload == \E e \in DOMAIN evidence :
    /\ Mutable(evidence[e])
    /\ Update(e, [evidence[e] EXCEPT !.status = "CANCELLED", !.stored = FALSE])
    /\ OnlyEvidence

\* POST /evidence/{id}/ready
MarkReady == \E e \in DOMAIN evidence :
    /\ CanBeReady(evidence[e])
    /\ Update(e, [evidence[e] EXCEPT !.status = "READY"])
    /\ OnlyEvidence

-----------------------------------------------------------------------------
(* Upload sessions.                                                         *)

\* create_upload_session
CreateSession == \E file \in Payload :
    /\ Len(sessions) < MaxSessions
    /\ sessions' = Append(sessions,
                       [file |-> file, status |-> "CREATED", evidence |-> 0])
    /\ UNCHANGED <<evidence, jobs, blobs, required, gate, deaths>>

\* Mutants: the session is completed before its job is queued, or without one.
FinalizeJobLast == <<"blob", "register", "complete", "session", "job">>

FinalizeNoJob == <<"blob", "register", "complete", "session">>

\* What finalize_upload_session writes, in order.  (The status FINALIZING is
\* set in memory only.)
FinalizeWrites == <<"blob", "register", "complete", "job", "session">>

\* The writes carried out: all of them, or a proper prefix if the process dies.
Prefix(writes, n) == {writes[m] : m \in 1..n}

DiesAfter(n, writes) ==
    /\ n < Len(writes) => deaths < MaxDeaths
    /\ deaths' = IF n < Len(writes) THEN deaths + 1 ELSE deaths

\* finalize_upload_session, when the content is no duplicate.
FinalizeSession == \E s \in DOMAIN sessions, n \in 1..Len(FinalizeWrites) :
    LET file == sessions[s].file
        done == Prefix(FinalizeWrites, n)
        row  == NewRow(file, s)
        e    == Len(evidence) + 1
    IN  /\ sessions[s].status \notin {"COMPLETED", "CANCELLED"}
        /\ ~Duplicate(file)
        /\ e <= MaxEvidence
        /\ DiesAfter(n, FinalizeWrites)
        /\ blobs' = blobs \cup {Blob(file)}
        /\ evidence' = IF "register" \notin done THEN evidence
                       ELSE Append(evidence, IF "complete" \in done
                                             THEN Completed(row, TRUE) ELSE row)
        /\ jobs' = IF "job" \notin done THEN jobs
                   ELSE Append(jobs, [evidence |-> e, status |-> "QUEUED"])
        /\ sessions' = IF "session" \notin done THEN sessions
                       ELSE [sessions EXCEPT ![s].status = "COMPLETED",
                                             ![s].evidence = e]
        /\ UNCHANGED <<required, gate>>

\* finalize_upload_session of a duplicate: register_upload raises, the blob
\* has been promoted.
FinalizeDuplicate == \E s \in DOMAIN sessions :
    /\ sessions[s].status \notin {"COMPLETED", "CANCELLED"}
    /\ Duplicate(sessions[s].file)
    /\ blobs' = blobs \cup {Blob(sessions[s].file)}
    /\ UNCHANGED <<sessions, evidence, jobs, required, gate, deaths>>

\* fail_upload_session asks for no status, cancel_upload_session refuses a
\* COMPLETED session.
FailSession == \E s \in DOMAIN sessions :
    /\ sessions' = [sessions EXCEPT ![s].status = "FAILED"]
    /\ UNCHANGED <<evidence, jobs, blobs, required, gate, deaths>>

CancelSession == \E s \in DOMAIN sessions :
    /\ sessions[s].status # "COMPLETED"
    /\ sessions' = [sessions EXCEPT ![s].status = "CANCELLED"]
    /\ UNCHANGED <<evidence, jobs, blobs, required, gate, deaths>>

-----------------------------------------------------------------------------
(* Jobs.                                                                    *)

\* Mutant: the result of the job is written before the evidence.
RunResultFirst == <<"taken", "result", "ready">>

\* What run_next_job writes, in order.
RunWrites == <<"taken", "ready", "result">>

Result(ready) == IF ready THEN "COMPLETED" ELSE "FAILED"

\* run_next_job: the oldest QUEUED job of the tenant.  created_at counts whole
\* seconds and ties are broken by random ids, so any of them may be it.
RunNextJob == \E j \in DOMAIN jobs, n \in 1..Len(RunWrites) :
    LET e     == jobs[j].evidence
        ready == CanBeReady(evidence[e])
        done  == Prefix(RunWrites, n)
    IN  /\ jobs[j].status = "QUEUED"
        /\ DiesAfter(n, RunWrites)
        /\ jobs' = [jobs EXCEPT ![j].status =
                       IF "result" \in done THEN Result(ready) ELSE "PROCESSING"]
        /\ evidence' = IF ready /\ "ready" \in done
                       THEN [evidence EXCEPT ![e].status = "READY"] ELSE evidence
        /\ UNCHANGED <<sessions, blobs, required, gate>>

-----------------------------------------------------------------------------
(* The evidence gate of an audit.                                           *)

RowsOf(t, a) == {e \in DOMAIN evidence : evidence[e].file.tenant = t /\ evidence[e].file.audit = a}

\* Mutant: every file that is not cancelled counts as ready.
ReadyOrFailed(t, a) ==
    {evidence[e].file.category :
        e \in {d \in RowsOf(t, a) : evidence[d].status # "CANCELLED"}}

ReadyCategories(t, a) ==
    {evidence[e].file.category : e \in {d \in RowsOf(t, a) : evidence[d].status = "READY"}}

Waiting(t, a) == {e \in RowsOf(t, a) : evidence[e].status \in {"UPLOADING", "PROCESSING"}}

\* seed_audit_requirements
SeedRequirements == \E a \in Audit, C \in SUBSET Category :
    /\ required' = [required EXCEPT ![a] = C]
    /\ UNCHANGED <<sessions, evidence, jobs, blobs, gate, deaths>>

\* recompute_audit_evidence_gate: the rows are those of the caller's tenant,
\* the requirements and the gate are kept per audit.
RecomputeGate == \E t \in Tenant, a \in Audit :
    /\ gate' = [gate EXCEPT ![a] =
           [pass |-> Waiting(t, a) = {} /\ required[a] \subseteq ReadyCategories(t, a),
            required |-> required[a], by |-> t]]
    /\ UNCHANGED <<sessions, evidence, jobs, blobs, required, deaths>>

-----------------------------------------------------------------------------

Next ==
    \/ RegisterUpload
    \/ CompleteUpload
    \/ FailUpload
    \/ CancelUpload
    \/ MarkReady
    \/ CreateSession
    \/ FinalizeSession
    \/ FinalizeDuplicate
    \/ FailSession
    \/ CancelSession
    \/ RunNextJob
    \/ SeedRequirements
    \/ RecomputeGate

Spec == Init /\ [][Next]_vars

-----------------------------------------------------------------------------

\* The rows of every file have their declared shapes.
TypeOK ==
    /\ sessions \in Seq(SessionRow)
    /\ evidence \in Seq(EvidenceRow)
    /\ jobs \in Seq(JobRow)
    /\ blobs \subseteq [tenant : Tenant, audit : Audit, doc : Doc]
    /\ required \in [Audit -> SUBSET Category]
    /\ gate \in [Audit -> GateRow \cup {NoGate}]
    /\ deaths \in 0..MaxDeaths

\* "Ready evidence cannot be modified": no request, job or session ever
\* changes a READY row (_assert_mutable in every writer of a row).
ReadyIsFinal ==
    [][\A e \in DOMAIN evidence :
          evidence[e].status = "READY" =>
              e \in DOMAIN evidence' /\ evidence'[e] = evidence[e]]_vars

\* A session that reads COMPLETED is backed by everything it promises, even
\* if the process died in the middle of others: the blob, an evidence row of
\* the same file and a job for it (finalize_upload_session writes it last).
CompletedIsBacked ==
    \A s \in DOMAIN sessions : sessions[s].status = "COMPLETED" =>
        LET e == sessions[s].evidence IN
        /\ Blob(sessions[s].file) \in blobs
        /\ e \in DOMAIN evidence /\ evidence[e].file = sessions[s].file
        /\ \E j \in DOMAIN jobs : jobs[j].evidence = e

\* A COMPLETED job has made its evidence READY, and its file is in the blob
\* store, whoever cancelled, failed or re-registered it meanwhile.
DoneJobsAreReady ==
    \A j \in DOMAIN jobs : jobs[j].status = "COMPLETED" =>
        LET row == evidence[jobs[j].evidence] IN
        row.status = "READY" /\ row.stored /\ Blob(row.file) \in blobs

\* A tenant has one usable copy of a content in an audit: a copy that was
\* cancelled or failed, and made place for another, never comes back.
OneLiveCopy ==
    \A e, d \in DOMAIN evidence :
        /\ Blob(evidence[e].file) = Blob(evidence[d].file)
        /\ evidence[e].status \notin {"CANCELLED", "FAILED"}
        /\ evidence[d].status \notin {"CANCELLED", "FAILED"}
        => e = d

\* What an evidence gate passed with stays: as long as it reads PASS, the
\* categories it required are covered by READY rows of the tenant it was
\* computed for, whatever was uploaded, cancelled or seeded since.
PassIsKept ==
    \A a \in Audit : gate[a].pass =>
        \A c \in gate[a].required :
            \E e \in RowsOf(gate[a].by, a) :
                evidence[e].status = "READY" /\ evidence[e].file.category = c

\* A death strands at most one upload: but for one per death, a file that an
\* upload session registered and that still waits has a QUEUED job.
Stranded ==
    {e \in DOMAIN evidence :
        /\ evidence[e].session # 0
        /\ evidence[e].status \in {"UPLOADING", "PROCESSING"}
        /\ ~ \E j \in DOMAIN jobs : jobs[j].evidence = e /\ jobs[j].status = "QUEUED"}

StrandedByDeath == Cardinality(Stranded) <= deaths
=============================================================================
