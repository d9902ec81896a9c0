---------------------------- MODULE AuditRelease -----------------------------
(***************************************************************************)
(* The release of an audit by the api application: an audit is executed    *)
(* and stored under a run id, exported as a package, reviewed, gated and   *)
(* finalized.                                                              *)
(*   api/store.py                        core/review_service.py            *)
(*   core/control_coverage_service.py    core/audit_dossier_service.py     *)
(*   core/release_gate_service.py        core/finalize_release_service.py  *)
(*   core/report_composer.py             core/export_package.py            *)
(*   core/model_augmentation_service.py                                    *)
(* A request is served by a thread, reads one file after the other and     *)
(* writes one after the other; a write is atomic, nothing is locked.       *)
(*                                                                         *)
(* One run id, which may be executed again.  Audits are numbered, which    *)
(* the code does not do: a file says of which audit it is made.  Packages  *)
(* have the same name in all requests.  The remediations of the run, which *)
(* no release reads, are left to EvidencePacks.                            *)
(***************************************************************************)
EXTENDS Naturals

CONSTANTS
    Thread,
    None,            \* no such file
    FileCount,       \* the files of a package, which its manifest lists
    MaxAudits,       \* bound on audits executed
    MaxRequests,     \* bound on requests
    MaxDeaths        \* bound on deaths of the process

ASSUME ReleaseAssumption ==
    /\ FileCount \in Nat \ {0} /\ MaxAudits \in Nat
    /\ MaxRequests \in Nat /\ MaxDeaths \in Nat

VARIABLES
    stored,          \* detail.json: number, outcome, export_package, release_finalization
    review,          \* review_state.json: of which audit, length of the history, latest
    coverage,        \* control_coverage.json: of which audit, are all SUPPORTED
    narrative,       \* model_augmented/report_augmentation.json: of which audit
    dossier,         \* audit_dossier.json: of which audit, with the coverage of which
    gate,            \* release_gate.json: of which audit and files, release_ready
    finalization,    \* release_finalization.json: the payload released
    package,         \* the package of the execution, and that of the release
    request,         \* what each thread is doing, and what it has read
    audits, requests, deaths,
    approved,        \* the audits that a reviewer ever approved
    releasable,      \* the audits that were clean and exported as verified
    narrated,        \* the audits that a narrative was ever written of
    raced,           \* an execution ever overlapped with another request
    crossed,         \* two finalizations ever overlapped
    interrupted      \* the steps in which requests were killed

runFiles == <<stored, review, coverage, narrative, dossier, gate, finalization>>
counters == <<requests, deaths, raced, crossed, interrupted>>
history  == <<approved, releasable, narrated>>
vars == <<runFiles, package, request, audits, counters, history>>

File    == 1..FileCount
Package == {"exported", "released"}

\* What an execution makes of a payload: is it APPROVED and GREEN, and what
\* of its controls is covered.  A payload without audit_context_pack has no
\* coverage; in a clean audit every control has its evidence.
Outcome == {o \in [clean : BOOLEAN, coverage : {"none", "partial", "full"}] :
                o.clean => o.coverage # "partial"}

\* The payload of a package says of which audit it is, of which audits its
\* parts are made, of which the narratives of models in its report, which
\* decide nothing, and after how many decisions of the reviewers.
Payload(n, parts, narratives, decisions) ==
    [audit |-> n, parts |-> parts, narratives |-> narratives, decisions |-> decisions]

\* A detail or a payload that was written is not a missing one.
ASSUME NoneIsNoFile ==
    /\ None \notin [n : Nat, outcome : Outcome, finalized : BOOLEAN,
                    export : {"missing", "verified", "failed"}]
    /\ None \notin [audit : Nat, parts : SUBSET Nat, narratives : SUBSET Nat, decisions : Nat]

NoFile == [f \in File |-> None]

Idle == [at |-> "idle"]
Busy == {t \in Thread : request[t] # Idle}

\* goal is what was requested; audit the detail that was read or made first,
\* seen the one read last; include and again are of the report it composes;
\* the others are files it has read or made.
NewRequest == [at |-> "new", goal |-> None, audit |-> None, seen |-> None,
               review |-> None, matrix |-> None, dossier |-> None, gate |-> None,
               payload |-> None, include |-> FALSE, again |-> FALSE,
               file |-> 1, hashes |-> NoFile, ok |-> TRUE]

Init ==
    /\ stored = None /\ review = None /\ coverage = None /\ narrative = None
    /\ dossier = None /\ gate = None /\ finalization = None
    /\ package = [p \in Package |-> [files |-> NoFile, manifest |-> NoFile]]
    /\ request = [t \in Thread |-> Idle]
    /\ audits = 0 /\ requests = 0 /\ deaths = 0
    /\ approved = {} /\ releasable = {} /\ narrated = {}
    /\ raced = FALSE /\ crossed = FALSE /\ interrupted = {}

-----------------------------------------------------------------------------
(* Steps of a request.                                                      *)

\* A user sends a request to thread t, which begins as m.
Serve(t, m) ==
    /\ request[t] = Idle /\ requests < MaxRequests
    /\ request' = [request EXCEPT ![t] = m]
    /\ requests' = requests + 1
    /\ raced' = (raced \/ \E u \in Busy : "execute" \in {m.goal, request[u].goal})
    /\ crossed' = (crossed \/ \E u \in Busy : {m.goal, request[u].goal} = {"finalize"})
    /\ UNCHANGED <<deaths, interrupted>>

\* It is at step x and goes on as m.
Step(t, x, m) ==
    /\ request[t].at = x
    /\ request' = [request EXCEPT ![t] = m]
    /\ UNCHANGED counters

\* It goes on with the next part of a finalization, or has done its part.
OrElse(r, next) == IF r.goal = "finalize" THEN next ELSE Idle

-----------------------------------------------------------------------------
(* core/export_package.py                                                   *)

PackageOf(r) == IF r.goal = "execute" THEN "exported" ELSE "released"

\* The files are gone through one by one, in this step x and then in y.
Through(r, y) ==
    IF r.file < FileCount THEN [r EXCEPT !.file = @ + 1] ELSE [r EXCEPT !.at = y, !.file = 1]

\* export_audit_package: every file is written under its name, ...
WriteFile(t) ==
    LET r == request[t]
    IN  /\ Step(t, "files", Through(r, "hash"))
        /\ package' = [package EXCEPT ![PackageOf(r)].files[r.file] = r.payload]
        /\ UNCHANGED <<runFiles, audits, history>>

\* ... build_export_manifest reads it back, ...
HashFile(t) ==
    LET r == request[t]
    IN  /\ Step(t, "hash", Through(
              [r EXCEPT !.hashes[r.file] = package[PackageOf(r)].files[r.file]], "manifest"))
        /\ UNCHANGED <<runFiles, package, audits, history>>

\* Mutant: a manifest on file is not made anew.
ManifestKept(t) ==
    LET r == request[t]
    IN  /\ Step(t, "manifest", [r EXCEPT !.at = "reread", !.hashes = NoFile])
        /\ package' = [package EXCEPT ![PackageOf(r)].manifest =
                          IF @ = NoFile THEN r.hashes ELSE @]
        /\ UNCHANGED <<runFiles, audits, history>>

WriteManifest(t) ==
    LET r == request[t]
    IN  /\ Step(t, "manifest", [r EXCEPT !.at = "reread", !.hashes = NoFile])
        /\ package' = [package EXCEPT ![PackageOf(r)].manifest = r.hashes]
        /\ UNCHANGED <<runFiles, audits, history>>

ReadManifest(t) ==
    LET r == request[t]
    IN  /\ Step(t, "reread", [r EXCEPT !.at = "verify", !.hashes = package[PackageOf(r)].manifest])
        /\ UNCHANGED <<runFiles, package, audits, history>>

\* ... and verify_export_package compares it with the manifest on file.  A
\* release that is not verified raises; an execution goes on.
VerifyFile(t) ==
    LET r == request[t]
        same == package[PackageOf(r)].files[r.file] = r.hashes[r.file]
        v == Through([r EXCEPT !.ok = @ /\ same],
                     IF r.goal = "execute" THEN "store" ELSE "finalize")
    IN  /\ Step(t, "verify", IF v.at = "finalize" /\ ~v.ok THEN Idle ELSE v)
        /\ UNCHANGED <<runFiles, package, audits, history>>

-----------------------------------------------------------------------------
(* api/store.py: execute_and_store_audit.                                   *)

\* The audit is made first; a package is exported if the request says so.
Execute(t) == \E o \in Outcome, export \in BOOLEAN :
    LET n == audits + 1
        m == [NewRequest EXCEPT !.goal = "execute", !.at = "store",
                !.audit = [n |-> n, outcome |-> o, finalized |-> FALSE, export |-> "missing"]]
    IN  /\ n <= MaxAudits /\ audits' = n
        /\ Serve(t, IF ~export THEN m
                    ELSE [m EXCEPT !.at = "files",
                            !.audit.export = "verified",
                            !.payload = Payload(n, {n}, {}, 0)])
        /\ UNCHANGED <<runFiles, package, history>>

StoreAudit(t) ==
    LET r == request[t]
        a == IF r.ok THEN r.audit ELSE [r.audit EXCEPT !.export = "failed"]
    IN  /\ Step(t, "store", [NewRequest EXCEPT !.at = "reset", !.goal = "execute"])
        /\ stored' = a
        /\ releasable' = IF a.outcome.clean /\ a.export = "verified"
                         THEN releasable \cup {a.n} ELSE releasable
        /\ UNCHANGED <<review, coverage, narrative, dossier, gate, finalization,
                       package, audits,
                       approved, narrated>>

\* Mutant: a review outlives the audit it is of.
ReviewKept(t) ==
    /\ Step(t, "reset", Idle)
    /\ UNCHANGED <<runFiles, package, audits, history>>

\* reset_review_state
ResetReview(t) ==
    /\ Step(t, "reset", Idle)
    /\ review' = None
    /\ UNCHANGED <<stored, coverage, narrative, dossier, gate, finalization,
                   package, audits, history>>

-----------------------------------------------------------------------------
(* core/review_service.py: submit_review_decision, and build_review_summary, *)
(* which writes as well if there is no review yet.                          *)

Review(t) == \E decision \in {"approve", "reject", "look"} :
    LET m == [NewRequest EXCEPT !.goal = IF decision = "look" THEN "look" ELSE "review",
                                !.ok = decision = "approve"]
    IN  /\ stored # None
        /\ decision = "look" => review = None
        /\ Serve(t, IF review = None
                    THEN [m EXCEPT !.at = "baseline",
                            !.review = [of |-> stored.n, decisions |-> 0, approved |-> FALSE]]
                    ELSE [m EXCEPT !.at = "decide", !.review = review])
        /\ UNCHANGED <<runFiles, package, audits, history>>

WriteBaseline(t) ==
    LET r == request[t]
    IN  /\ Step(t, "baseline", IF r.goal = "look" THEN Idle ELSE [r EXCEPT !.at = "decide"])
        /\ review' = r.review
        /\ UNCHANGED <<stored, coverage, narrative, dossier, gate, finalization,
                       package, audits, history>>

WriteDecision(t) ==
    LET r == request[t]
    IN  /\ Step(t, "decide", Idle)
        /\ review' = [r.review EXCEPT !.decisions = @ + 1, !.approved = r.ok]
        /\ approved' = IF r.ok THEN approved \cup {r.review.of} ELSE approved
        /\ UNCHANGED <<stored, coverage, narrative, dossier, gate, finalization,
                       package, audits,
                       releasable, narrated>>

-----------------------------------------------------------------------------
(* core/model_augmentation_service.py: augment_audit_report_with_models.     *)

\* The detail is read, models are called, and their narrative is written; a
\* model that fails is replaced by a sentence made of the detail.
Augment(t) ==
    /\ stored # None
    /\ Serve(t, [NewRequest EXCEPT !.at = "narrate", !.goal = "augment", !.seen = stored.n])
    /\ UNCHANGED <<runFiles, package, audits, history>>

WriteNarrative(t) ==
    LET r == request[t]
    IN  /\ Step(t, "narrate", Idle)
        /\ narrative' = r.seen
        /\ narrated' = narrated \cup {r.seen}
        /\ UNCHANGED <<stored, review, coverage, dossier, gate, finalization, package, audits,
                       approved, releasable>>

-----------------------------------------------------------------------------
(* core/control_coverage_service.py and core/audit_dossier_service.py       *)

\* build_control_coverage_matrix, build_audit_dossier or build_release_gate.
Build(t) == \E x \in {"coverage", "dossier", "gate"} :
    /\ stored # None
    /\ Serve(t, [NewRequest EXCEPT !.at = x, !.goal = x])
    /\ UNCHANGED <<runFiles, package, audits, history>>

\* _evaluate_control_coverage of all controls.
MatrixOf(audit) == [of |-> audit.n, full |-> audit.outcome.coverage = "full"]

\* An audit without a context pack raises.
ReadForCoverage(t) ==
    LET r == request[t]
    IN  /\ Step(t, "coverage",
              IF stored.outcome.coverage = "none" THEN Idle
              ELSE [r EXCEPT !.at = "matrix", !.matrix = MatrixOf(stored)])
        /\ UNCHANGED <<runFiles, package, audits, history>>

\* Mutant: a coverage on file is not made anew.
CoverageKept(t) ==
    LET r == request[t]
    IN  /\ Step(t, "matrix", OrElse(r, [r EXCEPT !.at = "dossier"]))
        /\ coverage' = IF coverage = None THEN r.matrix ELSE coverage
        /\ UNCHANGED <<stored, review, narrative, dossier, gate, finalization,
                       package, audits, history>>

WriteCoverage(t) ==
    LET r == request[t]
    IN  /\ Step(t, "matrix", OrElse(r, [r EXCEPT !.at = "dossier"]))
        /\ coverage' = r.matrix
        /\ UNCHANGED <<stored, review, narrative, dossier, gate, finalization,
                       package, audits, history>>

ReadForDossier(t) ==
    /\ Step(t, "dossier", [request[t] EXCEPT !.at = "covered", !.seen = stored.n])
    /\ UNCHANGED <<runFiles, package, audits, history>>

ReadCoverage(t) ==
    LET r == request[t]
    IN  /\ Step(t, "covered",
              IF coverage = None THEN Idle
              ELSE [r EXCEPT !.at = "link", !.seen = None,
                             !.dossier = [of |-> r.seen, matrix |-> coverage.of]])
        /\ UNCHANGED <<runFiles, package, audits, history>>

WriteDossier(t) ==
    LET r == request[t]
    IN  /\ Step(t, "link", OrElse(r, [r EXCEPT !.at = "gate"]))
        /\ dossier' = r.dossier
        /\ UNCHANGED <<stored, review, coverage, narrative, gate, finalization,
                       package, audits, history>>

-----------------------------------------------------------------------------
(* core/release_gate_service.py: build_release_gate.                        *)

\* It reads the detail, ...
ReadForGate(t) ==
    /\ Step(t, "gate", [request[t] EXCEPT !.at = "gate.matrix",
          !.gate = [of |-> stored.n, matrix |-> 0, dossier |-> 0, decisions |-> 0,
                    ready |-> stored.outcome.clean /\ stored.export = "verified"]])
    /\ UNCHANGED <<runFiles, package, audits, history>>

\* ... the coverage and the dossier, which have to be there, ...
ReadMatrix(t) ==
    LET r == request[t]
    IN  /\ Step(t, "gate.matrix",
              IF coverage = None THEN Idle
              ELSE [r EXCEPT !.at = "gate.dossier", !.gate.matrix = coverage.of,
                             !.gate.ready = @ /\ coverage.full])
        /\ UNCHANGED <<runFiles, package, audits, history>>

ReadDossier(t) ==
    LET r == request[t]
    IN  /\ Step(t, "gate.dossier",
              IF dossier = None THEN Idle
              ELSE [r EXCEPT !.at = "gate.review", !.gate.dossier = dossier.of])
        /\ UNCHANGED <<runFiles, package, audits, history>>

\* ... and the review, which need not.
ReadReview(t) ==
    LET r == request[t]
    IN  /\ Step(t, "gate.review",
              IF review = None THEN [r EXCEPT !.at = "gate.write", !.gate.ready = FALSE]
              ELSE [r EXCEPT !.at = "gate.write", !.gate.decisions = review.decisions,
                             !.gate.ready = @ /\ review.approved])
        /\ UNCHANGED <<runFiles, package, audits, history>>

\* A finalization raises unless the gate is open.
WriteGate(t) ==
    LET r == request[t]
    IN  /\ Step(t, "gate.write",
              OrElse(r, IF r.gate.ready THEN [r EXCEPT !.at = "compose"] ELSE Idle))
        /\ gate' = r.gate
        /\ UNCHANGED <<stored, review, coverage, narrative, dossier, finalization,
                       package, audits, history>>

-----------------------------------------------------------------------------
(* core/finalize_release_service.py: finalize_released_audit.               *)

Finalize(t) ==
    /\ stored # None
    /\ Serve(t, [NewRequest EXCEPT !.at = "coverage", !.goal = "finalize", !.audit = stored])
    /\ UNCHANGED <<runFiles, package, audits, history>>

\* _resolve_composed_report_bundle: a payload may bring a report of its own;
\* else one is composed, with the narrative on file if the request includes it.
Compose(t) ==
    LET r == request[t]
        m == [NewRequest EXCEPT !.goal = r.goal, !.audit = r.audit,
                !.payload = Payload(r.audit.n,
                    {r.audit.n, r.matrix.of, r.dossier.of, r.dossier.matrix,
                     r.gate.of, r.gate.matrix, r.gate.dossier}, {}, r.gate.decisions)]
    IN  /\ \/ Step(t, "compose", [m EXCEPT !.at = "files"])
           \/ \E include \in BOOLEAN : Step(t, "compose",
                 [m EXCEPT !.at = "report", !.include = include, !.again = TRUE])
        /\ UNCHANGED <<runFiles, package, audits, history>>

\* build_composed_report_bundle composes twice, for its fields and for its text.
Composed(r) ==
    IF r.again THEN [r EXCEPT !.at = "report", !.again = FALSE]
    ELSE [r EXCEPT !.at = "files", !.include = FALSE]

\* build_composed_report_payload reads the detail ...
ReadReport(t) ==
    LET r == request[t]
        m == [r EXCEPT !.payload.parts = @ \cup {stored.n}]
    IN  /\ Step(t, "report", IF r.include THEN [m EXCEPT !.at = "narrative"] ELSE Composed(m))
        /\ UNCHANGED <<runFiles, package, audits, history>>

\* ... and the narrative, which need not be there, and of which nothing is asked.
ReadNarrative(t) ==
    LET r == request[t]
        told == {narrative} \ {None}
    IN  /\ Step(t, "narrative", Composed([r EXCEPT !.payload.narratives = @ \cup told]))
        /\ UNCHANGED <<runFiles, package, audits, history>>

WriteFinalization(t) ==
    LET r == request[t]
    IN  /\ Step(t, "finalize", [NewRequest EXCEPT
              !.at = "detail", !.goal = r.goal, !.audit = r.audit])
        /\ finalization' = r.payload
        /\ UNCHANGED <<stored, review, coverage, narrative, dossier, gate,
                       package, audits, history>>

\* The detail is written back as it was read at the beginning.
WriteBack(t) ==
    LET r == request[t]
    IN  /\ Step(t, "detail", Idle)
        /\ stored' = [r.audit EXCEPT !.finalized = TRUE]
        /\ UNCHANGED <<review, coverage, narrative, dossier, gate, finalization,
                       package, audits, history>>

-----------------------------------------------------------------------------

Die ==
    /\ deaths < MaxDeaths /\ Busy # {}
    /\ deaths' = deaths + 1
    /\ interrupted' = interrupted \cup {request[t].at : t \in Busy}
    /\ request' = [t \in Thread |-> Idle]
    /\ UNCHANGED <<runFiles, package, audits, requests, raced, crossed, history>>

\* A thread goes on with what it is doing.
Continue(t) ==
    /\ request[t] # Idle
    /\ \/ WriteFile(t) \/ HashFile(t) \/ WriteManifest(t) \/ ReadManifest(t) \/ VerifyFile(t)
       \/ StoreAudit(t) \/ ResetReview(t) \/ WriteBaseline(t) \/ WriteDecision(t)
       \/ WriteNarrative(t) \/ ReadForCoverage(t) \/ WriteCoverage(t)
       \/ ReadForDossier(t) \/ ReadCoverage(t) \/ WriteDossier(t)
       \/ ReadForGate(t) \/ ReadMatrix(t) \/ ReadDossier(t) \/ ReadReview(t) \/ WriteGate(t)
       \/ Compose(t) \/ ReadReport(t) \/ ReadNarrative(t)
       \/ WriteFinalization(t) \/ WriteBack(t)

Next ==
    \/ Die
    \/ \E t \in Thread :
          Continue(t) \/ Execute(t) \/ Review(t) \/ Augment(t) \/ Build(t) \/ Finalize(t)

Spec == Init /\ [][Next]_vars

-----------------------------------------------------------------------------

\* No execution overlapped, and none was killed before it reset the review.
TurnsTaken == ~raced /\ "reset" \notin interrupted

\* The audit that a gate lets through was clean and exported, and was approved
\* by a reviewer: an approval never counts for an audit executed after it.
\* Reviews, builds and finalizations may overlap and die as they like; only an
\* execution that overlaps, or dies after it stored its audit and before it
\* reset the review, can have an approval of another audit count.
ReadyIsEarned ==
    gate # None /\ gate.ready =>
        /\ gate.of \in releasable /\ approved # {}
        /\ TurnsTaken => gate.of \in approved

\* What decides of a release is of one audit: its payload, coverage, dossier,
\* gate and the findings of its report are made of the audit that was approved,
\* whatever the files on disk were made of before.  (A gate that is built for
\* itself takes the coverage and the dossier as they are.)  The narrative of
\* models in its report is not: no execution removes it, and it may be of any
\* audit before.  Only when one was made of the audit on file is it that one.
ReleasedIsOneAudit ==
    /\ finalization # None =>
          /\ finalization.parts \cap releasable # {} /\ approved # {}
          /\ TurnsTaken =>
                /\ finalization.audit \in approved
                /\ finalization.parts = {finalization.audit}
                /\ \A n \in finalization.narratives : n <= finalization.audit
    /\ ~raced /\ stored # None /\ stored.n \in narrated => narrative = stored.n

PackageSteps == {"files", "hash", "manifest", "reread", "verify", "finalize", "store"}
Writing(goal) == \E t \in Busy : request[t].goal = goal /\ request[t].at \in PackageSteps

\* The package p was made of this payload, all of it.
IsWhole(p, isMade(_)) ==
    /\ \A f \in File : package[p].files[f] # None /\ isMade(package[p].files[f])
    /\ package[p].manifest = package[p].files

\* A package that the detail or the finalization on file calls verified is
\* whole and is the one they speak of, and a detail that says it was finalized
\* was: unless it is being written, or a death or another writer cut into it.
PackagesAreBacked ==
    ~raced /\ ~crossed /\ interrupted \cap PackageSteps = {} =>
        /\ stored # None /\ stored.export = "verified" /\ ~Writing("execute") =>
              LET made(x) == x.audit = stored.n IN IsWhole("exported", made)
        /\ finalization # None /\ ~Writing("finalize") =>
              LET made(x) == x = finalization IN IsWhole("released", made)
        /\ stored # None /\ stored.finalized =>
              finalization # None /\ finalization.audit = stored.n
=============================================================================
