-------------------------- MODULE AuditReleaseProofs --------------------------
(***************************************************************************)
(* What holds of AuditRelease for any threads, files of a package and      *)
(* bounds.  Types and what a gate vouches for hold however requests        *)
(* overlap; the rest speaks of executions that overlap with nothing.       *)
(***************************************************************************)
EXTENDS AuditRelease, TLAPS

-----------------------------------------------------------------------------
(* Types: what files hold, and what a request holds at each of its steps.   *)

Audit == [n : Nat, outcome : Outcome, finalized : BOOLEAN,
          export : {"missing", "verified", "failed"}]

ReviewFile == [of : Nat, decisions : Nat, approved : BOOLEAN]
Matrix     == [of : Nat, full : BOOLEAN]
Dossier    == [of : Nat, matrix : Nat]
GateFile   == [of : Nat, matrix : Nat, dossier : Nat, decisions : Nat, ready : BOOLEAN]
Released   == [audit : Nat, parts : SUBSET Nat, narratives : SUBSET Nat, decisions : Nat]
Table      == [File -> Released \cup {None}]

Fields == {"at", "goal", "audit", "seen", "review", "matrix", "dossier", "gate",
           "payload", "include", "again", "file", "hashes", "ok"}

\* The steps in which a package is made, the report is composed, the gate is
\* built, and a release is prepared; those after its coverage was made, and
\* after its dossier was.
Making   == {"files", "hash", "manifest", "reread", "verify"}
Composing == {"report", "narrative"}
Gating   == {"gate.matrix", "gate.dossier", "gate.review", "gate.write"}
Linked   == {"gate", "compose"} \cup Gating
Covered  == {"dossier", "covered", "link"} \cup Linked
Building == {"coverage", "matrix"} \cup Covered

Shape(r) ==
    /\ DOMAIN r = Fields
    /\ r.ok \in BOOLEAN
    /\ \/ r.at \in Making \cup {"store", "reset"} /\ r.goal = "execute"
       \/ r.at \in {"baseline", "decide"} /\ r.goal \in {"review", "look"}
       \/ r.at = "narrate" /\ r.goal = "augment"
       \/ r.at \in Building \ {"compose"} /\ r.goal \in {"coverage", "dossier", "gate"}
       \/ r.at \in Building \cup Composing \cup Making \cup {"finalize", "detail"}
          /\ r.goal = "finalize"

ShapeOfFiles(r) ==
    /\ r.goal = "finalize" \/ (r.goal = "execute" /\ r.at # "reset") => r.audit \in Audit
    /\ r.goal = "execute" /\ r.at # "reset" => ~r.audit.finalized
    /\ r.at \in {"baseline", "decide"} => r.review \in ReviewFile
    /\ r.at \in {"covered", "narrate"} => r.seen \in Nat
    /\ r.at = "matrix" \/ (r.goal = "finalize" /\ r.at \in Covered) => r.matrix \in Matrix
    /\ r.at = "link" \/ (r.goal = "finalize" /\ r.at \in Linked) => r.dossier \in Dossier
    /\ r.at \in Gating \cup {"compose"} => r.gate \in GateFile
    /\ r.at \in Making => r.file \in File
    /\ r.at \in Composing => r.ok /\ r.file = 1 /\ r.payload.audit = r.audit.n
    /\ r.at \in Composing \cup Making \cup {"finalize"} =>
          r.payload \in Released /\ r.hashes \in Table

\* Every request but an execution needs an audit on file.
Shaped(r, audit) ==
    r # Idle => Shape(r) /\ ShapeOfFiles(r) /\ (r.goal # "execute" => audit \in Audit)

Holds(file, type) == file = None \/ file \in type

FilesOK ==
    /\ Holds(stored, Audit) /\ Holds(review, ReviewFile) /\ Holds(coverage, Matrix)
    /\ Holds(dossier, Dossier) /\ Holds(gate, GateFile) /\ Holds(finalization, Released)
    /\ Holds(narrative, Nat) /\ narrated \subseteq Nat
    /\ package \in [Package -> [files : Table, manifest : Table]]
    /\ audits \in Nat

Types ==
    /\ FilesOK
    /\ request = [t \in Thread |-> request[t]]
    /\ \A t \in Thread : Shaped(request[t], stored)

\* A step of thread t keeps the types if it leaves t and the files in shape.
LEMMA StepTyped ==
    ASSUME Types, NEW t \in Thread, NEW m, request' = [request EXCEPT ![t] = m],
           stored \in Audit => stored' \in Audit,
           FilesOK', Shaped(m, stored')
    PROVE  Types'
<1>1. request' = [s \in Thread |-> request'[s]]
  BY DEF Types
<1>2. ASSUME NEW s \in Thread PROVE Shaped(request'[s], stored')
  <2>1. CASE s = t
    BY <2>1 DEF Types
  <2>2. CASE s # t
    <3>1. request'[s] = request[s]
      BY <2>2 DEF Types
    <3> QED  BY <3>1 DEF Types, Shaped
  <2> QED  BY <2>1, <2>2
<1> QED  BY <1>1, <1>2 DEF Types

\* ... a step that writes nothing, if it leaves t in shape.
LEMMA QuietTyped ==
    ASSUME Types, NEW t \in Thread, NEW m, request' = [request EXCEPT ![t] = m],
           UNCHANGED <<runFiles, package, audits, history>>, Shaped(m, stored)
    PROVE  Types'
<1>1. stored' = stored /\ FilesOK'
  BY DEF Types, FilesOK, runFiles, history
<1> QED  BY <1>1, StepTyped

\* A thread at a step other than "idle" has read and made something.
LEMMA AtWork ==
    ASSUME Types, NEW t \in Thread, request[t].at # "idle"
    PROVE  /\ request[t] # Idle
           /\ Shape(request[t]) /\ ShapeOfFiles(request[t])
           /\ request[t].goal # "execute" => stored \in Audit
  BY DEF Types, Shaped, Idle

LEMMA IdleShaped == \A audit : Shaped(Idle, audit)
  BY DEF Shaped

-----------------------------------------------------------------------------
(* What each step makes of the request r of thread t, as m.                 *)

\* Thread t, and no other, goes on as m.
Goes(t, m) == request' = [request EXCEPT ![t] = m]

Same(m, r) ==
    /\ DOMAIN m = Fields /\ m # Idle
    /\ m.goal = r.goal /\ m.audit = r.audit /\ m.ok = r.ok

SameFiles(m, r) == Same(m, r) /\ m.matrix = r.matrix /\ m.dossier = r.dossier

Quiet == UNCHANGED <<runFiles, package, audits, history>>

LEMMA AtWorkStill == ASSUME NEW m, DOMAIN m = Fields PROVE m # Idle
  BY DEF Fields, Idle

AtStep(t, x) ==
    LET r == request[t]
    IN  /\ r # Idle /\ r.at = x /\ Shape(r) /\ ShapeOfFiles(r)
        /\ r.goal # "execute" => stored \in Audit

LEMMA AtThisStep ==
    ASSUME Types, NEW t \in Thread, NEW x, x # "idle", NEW m, Step(t, x, m)
    PROVE  AtStep(t, x) /\ Goes(t, m)
  BY AtWork DEF Step, AtStep, Goes

LEMMA ThroughMoves ==
    ASSUME NEW r, DOMAIN r = Fields, r.file \in File, NEW y, NEW m, m = Through(r, y)
    PROVE  /\ Same(m, r)
           /\ m.payload = r.payload /\ m.hashes = r.hashes /\ m.file \in File
           /\ \/ r.file < FileCount /\ m.at = r.at /\ m.file = r.file + 1
              \/ r.file = FileCount /\ m.at = y /\ m.file = 1
<1>1. DOMAIN m = Fields
  BY DEF Through, Fields
<1>2. m # Idle
  BY <1>1 DEF Fields, Idle
<1> QED
  BY <1>1, <1>2, ReleaseAssumption DEF Through, Fields, File, Same

LEMMA WriteFileMoves ==
    ASSUME Types, NEW t \in Thread, NEW r, r = request[t], WriteFile(t)
    PROVE  /\ AtStep(t, "files") /\ UNCHANGED <<runFiles, audits, history>>
           /\ \E m : /\ Goes(t, m) /\ Same(m, r)
                     /\ m.payload = r.payload /\ m.hashes = r.hashes /\ m.file \in File
                     /\ \/ r.file < FileCount /\ m.at = "files" /\ m.file = r.file + 1
                        \/ r.file = FileCount /\ m.at = "hash" /\ m.file = 1
           /\ PackageOf(r) \in Package
           /\ LET w == package[PackageOf(r)] IN package' = [package EXCEPT
                 ![PackageOf(r)] = [w EXCEPT !.files = [@ EXCEPT ![r.file] = r.payload]]]
<1> DEFINE m == Through(r, "hash")
<1>1. Step(t, "files", m)
  BY DEF WriteFile
<1>2. DOMAIN r = Fields /\ r.file \in File /\ r.at = "files"
  BY <1>1, AtThisStep DEF AtStep, Shape, ShapeOfFiles, Making, Composing
<1> HIDE DEF m
<1>3. AtStep(t, "files") /\ Goes(t, m)
  BY <1>1, AtThisStep
<1>4. /\ Same(m, r)
      /\ m.payload = r.payload /\ m.hashes = r.hashes /\ m.file \in File
      /\ \/ r.file < FileCount /\ m.at = "files" /\ m.file = r.file + 1
         \/ r.file = FileCount /\ m.at = "hash" /\ m.file = 1
  BY <1>2, ThroughMoves DEF m
<1> QED
  BY <1>3, <1>4 DEF WriteFile, PackageOf, Package

LEMMA HashFileMoves ==
    ASSUME Types, NEW t \in Thread, NEW r, r = request[t], HashFile(t)
    PROVE  /\ AtStep(t, "hash") /\ Quiet
           /\ PackageOf(r) \in Package
           /\ \E m : /\ Goes(t, m) /\ Same(m, r)
                     /\ m.payload = r.payload /\ m.file \in File
                     /\ m.hashes = [r.hashes EXCEPT
                            ![r.file] = package[PackageOf(r)].files[r.file]]
                     /\ \/ r.file < FileCount /\ m.at = "hash" /\ m.file = r.file + 1
                        \/ r.file = FileCount /\ m.at = "manifest" /\ m.file = 1
<1> DEFINE v == [r EXCEPT !.hashes[r.file] = package[PackageOf(r)].files[r.file]]
           m == Through(v, "manifest")
<1>1. Step(t, "hash", m) /\ Quiet
  BY DEF HashFile, Quiet
<1>2. DOMAIN r = Fields /\ r.file \in File /\ r.at = "hash"
  BY <1>1, AtThisStep DEF AtStep, Shape, ShapeOfFiles, Making, Composing
<1>3. /\ Same(v, r) /\ v.file = r.file /\ v.at = r.at /\ v.payload = r.payload
      /\ v.hashes = [r.hashes EXCEPT ![r.file] = package[PackageOf(r)].files[r.file]]
  <2>1. DOMAIN v = Fields
    BY <1>2
  <2>2. v # Idle
    BY <2>1 DEF Fields, Idle
  <2> QED  BY <1>2, <2>1, <2>2 DEF Same, Fields
<1>4. DOMAIN v = Fields /\ v.file \in File
  BY <1>2, <1>3 DEF Same
<1> HIDE DEF v
<1>5. /\ Same(m, v)
      /\ m.payload = v.payload /\ m.hashes = v.hashes /\ m.file \in File
      /\ \/ v.file < FileCount /\ m.at = v.at /\ m.file = v.file + 1
         \/ v.file = FileCount /\ m.at = "manifest" /\ m.file = 1
  BY <1>4, ThroughMoves
<1> HIDE DEF m
<1>6. AtStep(t, "hash") /\ Goes(t, m)
  BY <1>1, AtThisStep
<1> QED
  BY <1>1, <1>2, <1>3, <1>5, <1>6 DEF PackageOf, Package, Same

LEMMA WriteManifestMoves ==
    ASSUME Types, NEW t \in Thread, NEW r, r = request[t], WriteManifest(t)
    PROVE  /\ AtStep(t, "manifest") /\ UNCHANGED <<runFiles, audits, history>>
           /\ \E m : /\ Goes(t, m) /\ Same(m, r)
                     /\ m.at = "reread" /\ m.payload = r.payload /\ m.file = r.file
                     /\ m.hashes = NoFile
           /\ PackageOf(r) \in Package
           /\ LET w == package[PackageOf(r)] IN package' = [package EXCEPT
                 ![PackageOf(r)] = [w EXCEPT !.manifest = r.hashes]]
<1> DEFINE m == [r EXCEPT !.at = "reread", !.hashes = NoFile]
<1>1. Step(t, "manifest", m)
  BY DEF WriteManifest
<1>2. DOMAIN r = Fields
  BY <1>1, AtThisStep DEF AtStep, Shape
<1>3. DOMAIN m = Fields
  BY <1>2
<1>4. m # Idle
  BY <1>3 DEF Fields, Idle
<1>5. /\ Same(m, r) /\ m.at = "reread" /\ m.payload = r.payload /\ m.file = r.file
      /\ m.hashes = NoFile
  BY <1>2, <1>3, <1>4 DEF Same, Fields
<1> HIDE DEF m
<1> QED
  BY <1>1, <1>5, AtThisStep DEF WriteManifest, PackageOf, Package

LEMMA ReadManifestMoves ==
    ASSUME Types, NEW t \in Thread, NEW r, r = request[t], ReadManifest(t)
    PROVE  /\ AtStep(t, "reread") /\ Quiet
           /\ PackageOf(r) \in Package
           /\ \E m : /\ Goes(t, m) /\ Same(m, r)
                     /\ m.at = "verify" /\ m.payload = r.payload /\ m.file = r.file
                     /\ m.hashes = package[PackageOf(r)].manifest
<1> DEFINE m == [r EXCEPT !.at = "verify", !.hashes = package[PackageOf(r)].manifest]
<1>1. Step(t, "reread", m) /\ Quiet
  BY DEF ReadManifest, Quiet
<1>2. DOMAIN r = Fields
  BY <1>1, AtThisStep DEF AtStep, Shape
<1>3. DOMAIN m = Fields
  BY <1>2
<1>4. m # Idle
  BY <1>3, AtWorkStill
<1>5. /\ Same(m, r) /\ m.at = "verify" /\ m.payload = r.payload /\ m.file = r.file
      /\ m.hashes = package[PackageOf(r)].manifest
  BY <1>2, <1>3, <1>4 DEF Same, Fields
<1> HIDE DEF m
<1> QED
  BY <1>1, <1>5, AtThisStep DEF PackageOf, Package

\* After the last file the package is found to be ok, or a release raises.
FoundOk(r) == r.ok /\ package[PackageOf(r)].files[r.file] = r.hashes[r.file]

LEMMA VerifyFileMoves ==
    ASSUME Types, NEW t \in Thread, NEW r, r = request[t], VerifyFile(t)
    PROVE  /\ AtStep(t, "verify") /\ Quiet
           /\ PackageOf(r) \in Package
           /\ \E m : /\ Goes(t, m)
                     /\ \/ m = Idle /\ ~FoundOk(r) /\ r.goal # "execute"
                        \/ /\ DOMAIN m = Fields /\ m # Idle
                           /\ m.goal = r.goal /\ m.audit = r.audit
                           /\ m.ok \in BOOLEAN /\ (m.ok <=> FoundOk(r))
                           /\ m.payload = r.payload /\ m.hashes = r.hashes
                           /\ \/ m.at = "verify" /\ m.file \in File
                              \/ m.at = "store" /\ r.goal = "execute"
                              \/ m.at = "finalize" /\ r.goal # "execute"
<1> DEFINE same == package[PackageOf(r)].files[r.file] = r.hashes[r.file]
           u == [r EXCEPT !.ok = @ /\ same]
           y == IF r.goal = "execute" THEN "store" ELSE "finalize"
           v == Through(u, y)
           m == IF v.at = "finalize" /\ ~v.ok THEN Idle ELSE v
<1>1. Step(t, "verify", m) /\ Quiet
  BY DEF VerifyFile, Quiet
<1>2. /\ DOMAIN r = Fields /\ r.file \in File /\ r.at = "verify" /\ r.ok \in BOOLEAN
  BY <1>1, AtThisStep DEF AtStep, Shape, ShapeOfFiles, Making, Composing
<1> HIDE DEF same
<1>3. /\ DOMAIN u = Fields /\ u.goal = r.goal /\ u.audit = r.audit /\ u.ok = (r.ok /\ same)
      /\ u.file = r.file /\ u.at = r.at /\ u.payload = r.payload /\ u.hashes = r.hashes
  BY <1>2 DEF Fields
<1> HIDE DEF u
<1>4. /\ Same(v, u)
      /\ v.payload = u.payload /\ v.hashes = u.hashes /\ v.file \in File
      /\ \/ u.file < FileCount /\ v.at = u.at /\ v.file = u.file + 1
         \/ u.file = FileCount /\ v.at = y /\ v.file = 1
  BY <1>2, <1>3, ThroughMoves
<1> HIDE DEF v
<1>5. (m = Idle /\ v.at = "finalize" /\ ~v.ok) \/ m = v
  OBVIOUS
<1> HIDE DEF m
<1>6. AtStep(t, "verify") /\ Goes(t, m)
  BY <1>1, AtThisStep
<1> QED
  BY <1>1, <1>2, <1>3, <1>4, <1>5, <1>6 DEF PackageOf, Package, Same, same, FoundOk

LEMMA StoreAuditMoves ==
    ASSUME Types, NEW t \in Thread, NEW r, r = request[t], StoreAudit(t)
    PROVE  /\ AtStep(t, "store") /\ r.goal = "execute"
           /\ \E m : Goes(t, m) /\ DOMAIN m = Fields /\ m # Idle
                     /\ m.at = "reset" /\ m.goal = "execute" /\ m.ok = TRUE
           /\ stored' \in Audit /\ stored'.n = r.audit.n /\ ~stored'.finalized
           /\ r.ok => stored' = r.audit
           /\ ~r.ok => stored'.export = "failed"
           /\ releasable' = IF stored'.outcome.clean /\ stored'.export = "verified"
                            THEN releasable \cup {stored'.n} ELSE releasable
           /\ UNCHANGED <<review, coverage, narrative, dossier, gate, finalization,
                          package, audits, approved, narrated>>
<1> DEFINE m == [NewRequest EXCEPT !.at = "reset", !.goal = "execute"]
           a == IF r.ok THEN r.audit ELSE [r.audit EXCEPT !.export = "failed"]
<1>1. Step(t, "store", m)
  BY DEF StoreAudit
<1>2. AtStep(t, "store") /\ Goes(t, m)
  BY <1>1, AtThisStep
<1>3. r.goal = "execute" /\ r.audit \in Audit /\ ~r.audit.finalized
  BY <1>2 DEF AtStep, Shape, ShapeOfFiles, Building, Covered, Linked, Gating, Making, Composing
<1>4. DOMAIN m = Fields /\ m.at = "reset" /\ m.goal = "execute" /\ m.ok = TRUE
  BY DEF NewRequest, Fields
<1>5. m # Idle
  BY <1>4 DEF Fields, Idle
<1>6. /\ a \in Audit /\ a.n = r.audit.n /\ ~a.finalized
      /\ r.ok => a = r.audit
      /\ ~r.ok => a.export = "failed"
  BY <1>3 DEF Audit
<1>7. /\ stored' = a
      /\ releasable' = IF a.outcome.clean /\ a.export = "verified"
                       THEN releasable \cup {a.n} ELSE releasable
  BY DEF StoreAudit
<1> HIDE DEF m, a
<1> QED
  BY <1>2, <1>3, <1>4, <1>5, <1>6, <1>7 DEF StoreAudit

LEMMA ResetReviewMoves ==
    ASSUME Types, NEW t \in Thread, ResetReview(t)
    PROVE  /\ AtStep(t, "reset") /\ request[t].goal = "execute" /\ Goes(t, Idle)
           /\ review' = None
           /\ UNCHANGED <<stored, coverage, narrative, dossier, gate, finalization,
                          package, audits, history>>
<1>1. AtStep(t, "reset") /\ Goes(t, Idle)
  BY AtThisStep DEF ResetReview
<1>2. request[t].goal = "execute"
  BY <1>1 DEF AtStep, Shape, Building, Covered, Linked, Gating, Making, Composing
<1> QED
  BY <1>1, <1>2 DEF ResetReview

LEMMA WriteBaselineMoves ==
    ASSUME Types, NEW t \in Thread, NEW r, r = request[t], WriteBaseline(t)
    PROVE  /\ AtStep(t, "baseline") /\ r.goal \in {"review", "look"} /\ r.review \in ReviewFile
           /\ \E m : Goes(t, m) /\ (m = Idle \/ (Same(m, r) /\ m.at = "decide"
                                                 /\ m.review = r.review))
           /\ review' = r.review
           /\ UNCHANGED <<stored, coverage, narrative, dossier, gate, finalization,
                          package, audits, history>>
<1> DEFINE v == [r EXCEPT !.at = "decide"]
           m == IF r.goal = "look" THEN Idle ELSE v
<1>1. Step(t, "baseline", m)
  BY DEF WriteBaseline
<1>2. AtStep(t, "baseline") /\ Goes(t, m)
  BY <1>1, AtThisStep
<1>3. DOMAIN r = Fields /\ r.goal \in {"review", "look"} /\ r.review \in ReviewFile
  BY <1>2 DEF AtStep, Shape, ShapeOfFiles, Building, Covered, Linked, Gating, Making, Composing
<1>4. DOMAIN v = Fields
  BY <1>3
<1>5. v # Idle
  BY <1>4 DEF Fields, Idle
<1>6. Same(v, r) /\ v.at = "decide" /\ v.review = r.review
  BY <1>3, <1>4, <1>5 DEF Same, Fields
<1> HIDE DEF v
<1>7. m = Idle \/ m = v
  OBVIOUS
<1> HIDE DEF m
<1> QED
  BY <1>2, <1>3, <1>6, <1>7 DEF WriteBaseline

LEMMA WriteDecisionMoves ==
    ASSUME Types, NEW t \in Thread, NEW r, r = request[t], WriteDecision(t)
    PROVE  /\ AtStep(t, "decide") /\ r.goal \in {"review", "look"}
           /\ Goes(t, Idle)
           /\ review' \in ReviewFile /\ review'.of = r.review.of /\ review'.approved = r.ok
           /\ r.review \in ReviewFile
           /\ approved' = IF r.ok THEN approved \cup {r.review.of} ELSE approved
           /\ UNCHANGED <<stored, coverage, narrative, dossier, gate, finalization,
                          package, audits, releasable, narrated>>
<1>1. AtStep(t, "decide") /\ Goes(t, Idle)
  BY AtThisStep DEF WriteDecision
<1>2. r.ok \in BOOLEAN /\ r.goal \in {"review", "look"} /\ r.review \in ReviewFile
  BY <1>1 DEF AtStep, Shape, ShapeOfFiles, Building, Covered, Linked, Gating, Making, Composing
<1>3. review' = [r.review EXCEPT !.decisions = @ + 1, !.approved = r.ok]
  BY DEF WriteDecision
<1>4. review' \in ReviewFile /\ review'.of = r.review.of /\ review'.approved = r.ok
  <2>1. r.review.of \in Nat /\ r.review.decisions + 1 \in Nat
    BY <1>2 DEF ReviewFile
  <2>2. review' = [of |-> r.review.of, decisions |-> r.review.decisions + 1, approved |-> r.ok]
    BY <1>2, <1>3 DEF ReviewFile
  <2> QED  BY <1>2, <2>1, <2>2 DEF ReviewFile
<1> QED
  BY <1>1, <1>2, <1>4 DEF WriteDecision

-----------------------------------------------------------------------------
(* ... of a build, and of the part of a finalization that builds.           *)

LEMMA WriteNarrativeMoves ==
    ASSUME Types, NEW t \in Thread, NEW r, r = request[t], WriteNarrative(t)
    PROVE  /\ AtStep(t, "narrate") /\ r.goal = "augment" /\ r.seen \in Nat /\ Goes(t, Idle)
           /\ narrative' = r.seen /\ narrated' = narrated \cup {r.seen}
           /\ UNCHANGED <<stored, review, coverage, dossier, gate, finalization,
                          package, audits, approved, releasable>>
<1>1. AtStep(t, "narrate") /\ Goes(t, Idle)
  BY AtThisStep DEF WriteNarrative
<1>2. r.goal = "augment" /\ r.seen \in Nat
  BY <1>1 DEF AtStep, Shape, ShapeOfFiles, Making, Composing, Building, Covered, Linked, Gating
<1> QED
  BY <1>1, <1>2 DEF WriteNarrative

LEMMA BuildingGoal ==
    ASSUME NEW r, Shape(r), r.at \in Building
    PROVE  r.goal \in {"coverage", "dossier", "gate", "finalize"}
  BY DEF Shape, Building, Covered, Linked, Gating, Making, Composing

LEMMA ReadForCoverageMoves ==
    ASSUME Types, NEW t \in Thread, NEW r, r = request[t], ReadForCoverage(t)
    PROVE  /\ AtStep(t, "coverage") /\ r.goal # "execute" /\ Quiet
           /\ \E m : Goes(t, m) /\ (m = Idle \/ (Same(m, r) /\ m.at = "matrix"
                                        /\ m.matrix \in Matrix /\ m.matrix.of = stored.n))
<1> DEFINE v == [r EXCEPT !.at = "matrix", !.matrix = MatrixOf(stored)]
           m == IF stored.outcome.coverage = "none" THEN Idle ELSE v
<1>1. Step(t, "coverage", m) /\ Quiet
  BY DEF ReadForCoverage, Quiet
<1>2. AtStep(t, "coverage") /\ Goes(t, m)
  BY <1>1, AtThisStep
<1>3. DOMAIN r = Fields /\ r.goal # "execute" /\ stored \in Audit
  BY <1>2, BuildingGoal DEF AtStep, Shape, Building
<1>4. MatrixOf(stored) \in Matrix /\ MatrixOf(stored).of = stored.n
  BY <1>3 DEF MatrixOf, Matrix, Audit, Outcome
<1>5. DOMAIN v = Fields
  BY <1>3
<1>6. v # Idle
  BY <1>5 DEF Fields, Idle
<1>7. Same(v, r) /\ v.at = "matrix" /\ v.matrix = MatrixOf(stored)
  BY <1>3, <1>5, <1>6 DEF Same, Fields
<1> HIDE DEF v
<1>8. m = Idle \/ m = v
  OBVIOUS
<1> HIDE DEF m
<1> QED
  BY <1>1, <1>2, <1>3, <1>4, <1>7, <1>8

LEMMA WriteCoverageMoves ==
    ASSUME Types, NEW t \in Thread, NEW r, r = request[t], WriteCoverage(t)
    PROVE  /\ AtStep(t, "matrix") /\ r.goal # "execute" /\ r.matrix \in Matrix
           /\ \E m : Goes(t, m) /\ (m = Idle \/ (SameFiles(m, r) /\ m.at = "dossier"
                                                 /\ m.goal = "finalize"))
           /\ coverage' = r.matrix
           /\ UNCHANGED <<stored, review, narrative, dossier, gate, finalization,
                          package, audits, history>>
<1> DEFINE v == [r EXCEPT !.at = "dossier"]
           m == OrElse(r, v)
<1>1. Step(t, "matrix", m)
  BY DEF WriteCoverage
<1>2. AtStep(t, "matrix") /\ Goes(t, m)
  BY <1>1, AtThisStep
<1>3. DOMAIN r = Fields /\ r.goal # "execute" /\ r.matrix \in Matrix
  BY <1>2, BuildingGoal DEF AtStep, Shape, ShapeOfFiles, Building
<1>4. DOMAIN v = Fields
  BY <1>3
<1>5. v # Idle
  BY <1>4 DEF Fields, Idle
<1>6. SameFiles(v, r) /\ v.at = "dossier"
  BY <1>3, <1>4, <1>5 DEF Same, SameFiles, Fields
<1> HIDE DEF v
<1>7. m = Idle \/ (m = v /\ r.goal = "finalize")
  BY DEF OrElse
<1> HIDE DEF m
<1> QED
  BY <1>2, <1>3, <1>6, <1>7 DEF WriteCoverage, SameFiles, Same

LEMMA ReadForDossierMoves ==
    ASSUME Types, NEW t \in Thread, NEW r, r = request[t], ReadForDossier(t)
    PROVE  /\ AtStep(t, "dossier") /\ r.goal # "execute" /\ Quiet
           /\ stored \in Audit
           /\ \E m : Goes(t, m) /\ SameFiles(m, r) /\ m.at = "covered" /\ m.seen = stored.n
<1> DEFINE m == [r EXCEPT !.at = "covered", !.seen = stored.n]
<1>1. Step(t, "dossier", m) /\ Quiet
  BY DEF ReadForDossier, Quiet
<1>2. AtStep(t, "dossier") /\ Goes(t, m)
  BY <1>1, AtThisStep
<1>3. DOMAIN r = Fields /\ r.goal # "execute" /\ stored \in Audit
  BY <1>2, BuildingGoal DEF AtStep, Shape, Building, Covered
<1>4. DOMAIN m = Fields
  BY <1>3
<1>5. m # Idle
  BY <1>4 DEF Fields, Idle
<1>6. SameFiles(m, r) /\ m.at = "covered" /\ m.seen = stored.n
  BY <1>3, <1>4, <1>5 DEF Same, SameFiles, Fields
<1> HIDE DEF m
<1> QED
  BY <1>1, <1>2, <1>3, <1>6

LEMMA ReadCoverageMoves ==
    ASSUME Types, NEW t \in Thread, NEW r, r = request[t], ReadCoverage(t)
    PROVE  /\ AtStep(t, "covered") /\ r.goal # "execute" /\ Quiet
           /\ r.seen \in Nat
           /\ \E m : Goes(t, m) /\ \/ m = Idle
                                   \/ /\ Same(m, r) /\ m.at = "link" /\ m.matrix = r.matrix
                                      /\ coverage \in Matrix
                                      /\ m.dossier = [of |-> r.seen, matrix |-> coverage.of]
<1> DEFINE d == [of |-> r.seen, matrix |-> coverage.of]
           v == [r EXCEPT !.at = "link", !.seen = None, !.dossier = d]
           m == IF coverage = None THEN Idle ELSE v
<1>1. Step(t, "covered", m) /\ Quiet
  BY DEF ReadCoverage, Quiet
<1>2. AtStep(t, "covered") /\ Goes(t, m)
  BY <1>1, AtThisStep
<1>3. DOMAIN r = Fields /\ r.goal # "execute" /\ r.seen \in Nat
  BY <1>2, BuildingGoal DEF AtStep, Shape, ShapeOfFiles, Building, Covered
<1>4. DOMAIN v = Fields
  BY <1>3
<1>5. v # Idle
  BY <1>4 DEF Fields, Idle
<1>6. Same(v, r) /\ v.at = "link" /\ v.matrix = r.matrix /\ v.dossier = d
  BY <1>3, <1>4, <1>5 DEF Same, Fields
<1> HIDE DEF v
<1>7. m = Idle \/ (m = v /\ coverage \in Matrix)
  BY DEF Types, FilesOK, Holds
<1> HIDE DEF m
<1> QED
  BY <1>1, <1>2, <1>3, <1>6, <1>7

LEMMA WriteDossierMoves ==
    ASSUME Types, NEW t \in Thread, NEW r, r = request[t], WriteDossier(t)
    PROVE  /\ AtStep(t, "link") /\ r.goal # "execute" /\ r.dossier \in Dossier
           /\ \E m : Goes(t, m) /\ (m = Idle \/ (SameFiles(m, r) /\ m.at = "gate"
                                                 /\ m.goal = "finalize"))
           /\ dossier' = r.dossier
           /\ UNCHANGED <<stored, review, coverage, narrative, gate, finalization,
                          package, audits, history>>
<1> DEFINE v == [r EXCEPT !.at = "gate"]
           m == OrElse(r, v)
<1>1. Step(t, "link", m)
  BY DEF WriteDossier
<1>2. AtStep(t, "link") /\ Goes(t, m)
  BY <1>1, AtThisStep
<1>3. DOMAIN r = Fields /\ r.goal # "execute" /\ r.dossier \in Dossier
  BY <1>2, BuildingGoal DEF AtStep, Shape, ShapeOfFiles, Building, Covered
<1>4. DOMAIN v = Fields
  BY <1>3
<1>5. v # Idle
  BY <1>4 DEF Fields, Idle
<1>6. SameFiles(v, r) /\ v.at = "gate"
  BY <1>3, <1>4, <1>5 DEF Same, SameFiles, Fields
<1> HIDE DEF v
<1>7. m = Idle \/ (m = v /\ r.goal = "finalize")
  BY DEF OrElse
<1> HIDE DEF m
<1> QED
  BY <1>2, <1>3, <1>6, <1>7 DEF WriteDossier, SameFiles, Same

LEMMA ReadForGateMoves ==
    ASSUME Types, NEW t \in Thread, NEW r, r = request[t], ReadForGate(t)
    PROVE  /\ AtStep(t, "gate") /\ r.goal # "execute" /\ Quiet
           /\ stored \in Audit
           /\ \E m : /\ Goes(t, m) /\ SameFiles(m, r) /\ m.at = "gate.matrix"
                     /\ m.gate \in GateFile /\ m.gate.of = stored.n
                     /\ m.gate.ready => stored.outcome.clean /\ stored.export = "verified"
<1> DEFINE g == [of |-> stored.n, matrix |-> 0, dossier |-> 0, decisions |-> 0,
                 ready |-> stored.outcome.clean /\ stored.export = "verified"]
           m == [r EXCEPT !.at = "gate.matrix", !.gate = g]
<1>1. Step(t, "gate", m) /\ Quiet
  BY DEF ReadForGate, Quiet
<1>2. AtStep(t, "gate") /\ Goes(t, m)
  BY <1>1, AtThisStep
<1>3. DOMAIN r = Fields /\ r.goal # "execute" /\ stored \in Audit
  BY <1>2, BuildingGoal DEF AtStep, Shape, Building, Covered, Linked
<1>4. /\ g \in GateFile /\ g.of = stored.n
      /\ g.ready => stored.outcome.clean /\ stored.export = "verified"
  <2>1. stored.n \in Nat /\ 0 \in Nat
    BY <1>3 DEF Audit
  <2> DEFINE ready == stored.outcome.clean /\ stored.export = "verified"
  <2>2. ready \in BOOLEAN
    OBVIOUS
  <2> HIDE DEF ready
  <2>3. g = [of |-> stored.n, matrix |-> 0, dossier |-> 0, decisions |-> 0, ready |-> ready]
    BY DEF ready
  <2> QED  BY <2>1, <2>2, <2>3 DEF GateFile, ready
<1> HIDE DEF g
<1>5. DOMAIN m = Fields
  BY <1>3
<1>6. m # Idle
  BY <1>5 DEF Fields, Idle
<1>7. SameFiles(m, r) /\ m.at = "gate.matrix" /\ m.gate = g
  BY <1>3, <1>5, <1>6 DEF Same, SameFiles, Fields
<1> HIDE DEF m
<1> QED
  BY <1>1, <1>2, <1>3, <1>4, <1>7

LEMMA ReadMatrixMoves ==
    ASSUME Types, NEW t \in Thread, NEW r, r = request[t], ReadMatrix(t)
    PROVE  /\ AtStep(t, "gate.matrix") /\ r.goal # "execute" /\ Quiet
           /\ \E m : Goes(t, m) /\ \/ m = Idle
                                   \/ /\ SameFiles(m, r) /\ m.at = "gate.dossier"
                                      /\ coverage \in Matrix /\ m.gate \in GateFile
                                      /\ m.gate.of = r.gate.of /\ m.gate.matrix = coverage.of
                                      /\ m.gate.ready => r.gate.ready
<1> DEFINE g == [r.gate EXCEPT !.matrix = coverage.of, !.ready = @ /\ coverage.full]
           v == [r EXCEPT !.at = "gate.dossier", !.gate.matrix = coverage.of,
                          !.gate.ready = @ /\ coverage.full]
           m == IF coverage = None THEN Idle ELSE v
<1>1. Step(t, "gate.matrix", m) /\ Quiet
  BY DEF ReadMatrix, Quiet
<1>2. AtStep(t, "gate.matrix") /\ Goes(t, m)
  BY <1>1, AtThisStep
<1>3. DOMAIN r = Fields /\ r.goal # "execute" /\ r.gate \in GateFile
  BY <1>2, BuildingGoal DEF AtStep, Shape, ShapeOfFiles, Building, Covered, Linked, Gating
<1>4. DOMAIN v = Fields
  BY <1>3
<1>5. v # Idle
  BY <1>4 DEF Fields, Idle
<1>6. SameFiles(v, r) /\ v.at = "gate.dossier" /\ v.gate = g
  BY <1>3, <1>4, <1>5 DEF Same, SameFiles, Fields, GateFile
<1>7. coverage \in Matrix => /\ g \in GateFile
                             /\ g.of = r.gate.of /\ g.matrix = coverage.of
                             /\ g.ready => r.gate.ready
  BY <1>3 DEF Matrix, GateFile
<1> HIDE DEF v, g
<1>8. m = Idle \/ (m = v /\ coverage \in Matrix)
  BY DEF Types, FilesOK, Holds
<1> HIDE DEF m
<1> QED
  BY <1>1, <1>2, <1>3, <1>6, <1>7, <1>8

LEMMA ReadDossierMoves ==
    ASSUME Types, NEW t \in Thread, NEW r, r = request[t], ReadDossier(t)
    PROVE  /\ AtStep(t, "gate.dossier") /\ r.goal # "execute" /\ Quiet
           /\ \E m : Goes(t, m) /\ \/ m = Idle
                                   \/ /\ SameFiles(m, r) /\ m.at = "gate.review"
                                      /\ dossier \in Dossier /\ m.gate \in GateFile
                                      /\ m.gate.of = r.gate.of /\ m.gate.dossier = dossier.of
                                      /\ m.gate.matrix = r.gate.matrix
                                      /\ m.gate.ready = r.gate.ready
<1> DEFINE g == [r.gate EXCEPT !.dossier = dossier.of]
           v == [r EXCEPT !.at = "gate.review", !.gate.dossier = dossier.of]
           m == IF dossier = None THEN Idle ELSE v
<1>1. Step(t, "gate.dossier", m) /\ Quiet
  BY DEF ReadDossier, Quiet
<1>2. AtStep(t, "gate.dossier") /\ Goes(t, m)
  BY <1>1, AtThisStep
<1>3. DOMAIN r = Fields /\ r.goal # "execute" /\ r.gate \in GateFile
  BY <1>2, BuildingGoal DEF AtStep, Shape, ShapeOfFiles, Building, Covered, Linked, Gating
<1>4. DOMAIN v = Fields
  BY <1>3
<1>5. v # Idle
  BY <1>4 DEF Fields, Idle
<1>6. SameFiles(v, r) /\ v.at = "gate.review" /\ v.gate = g
  BY <1>3, <1>4, <1>5 DEF Same, SameFiles, Fields, GateFile
<1>7. dossier \in Dossier => /\ g \in GateFile
                             /\ g.of = r.gate.of /\ g.dossier = dossier.of
                             /\ g.matrix = r.gate.matrix /\ g.ready = r.gate.ready
  BY <1>3 DEF Dossier, GateFile
<1> HIDE DEF v, g
<1>8. m = Idle \/ (m = v /\ dossier \in Dossier)
  BY DEF Types, FilesOK, Holds
<1> HIDE DEF m
<1> QED
  BY <1>1, <1>2, <1>3, <1>6, <1>7, <1>8

LEMMA ReadReviewMoves ==
    ASSUME Types, NEW t \in Thread, NEW r, r = request[t], ReadReview(t)
    PROVE  /\ AtStep(t, "gate.review") /\ r.goal # "execute" /\ Quiet
           /\ \E m : /\ Goes(t, m) /\ SameFiles(m, r) /\ m.at = "gate.write"
                     /\ m.gate \in GateFile
                     /\ m.gate.of = r.gate.of /\ m.gate.dossier = r.gate.dossier
                     /\ m.gate.matrix = r.gate.matrix
                     /\ m.gate.ready => r.gate.ready /\ review # None /\ review.approved
<1> DEFINE g == IF review = None THEN [r.gate EXCEPT !.ready = FALSE]
                ELSE [r.gate EXCEPT !.decisions = review.decisions, !.ready = @ /\ review.approved]
           m == IF review = None THEN [r EXCEPT !.at = "gate.write", !.gate.ready = FALSE]
                ELSE [r EXCEPT !.at = "gate.write", !.gate.decisions = review.decisions,
                               !.gate.ready = @ /\ review.approved]
<1>1. Step(t, "gate.review", m) /\ Quiet
  BY DEF ReadReview, Quiet
<1>2. AtStep(t, "gate.review") /\ Goes(t, m)
  BY <1>1, AtThisStep
<1>3. DOMAIN r = Fields /\ r.goal # "execute" /\ r.gate \in GateFile
  BY <1>2, BuildingGoal DEF AtStep, Shape, ShapeOfFiles, Building, Covered, Linked, Gating
<1>4. DOMAIN m = Fields
  BY <1>3
<1>5. m # Idle
  BY <1>4 DEF Fields, Idle
<1>6. SameFiles(m, r) /\ m.at = "gate.write" /\ m.gate = g
  BY <1>3, <1>4, <1>5 DEF Same, SameFiles, Fields, GateFile
<1>7. review = None \/ review \in ReviewFile
  BY DEF Types, FilesOK, Holds
<1>8. /\ g \in GateFile
      /\ g.of = r.gate.of /\ g.dossier = r.gate.dossier /\ g.matrix = r.gate.matrix
      /\ g.ready => r.gate.ready /\ review # None /\ review.approved
  BY <1>3, <1>7 DEF ReviewFile, GateFile
<1> HIDE DEF m, g
<1> QED
  BY <1>1, <1>2, <1>3, <1>6, <1>8

LEMMA WriteGateMoves ==
    ASSUME Types, NEW t \in Thread, NEW r, r = request[t], WriteGate(t)
    PROVE  /\ AtStep(t, "gate.write") /\ r.goal # "execute" /\ r.gate \in GateFile
           /\ \E m : Goes(t, m) /\ (m = Idle \/ (/\ SameFiles(m, r) /\ m.at = "compose"
                                                 /\ m.gate = r.gate /\ r.gate.ready
                                                 /\ m.goal = "finalize"))
           /\ gate' = r.gate
           /\ UNCHANGED <<stored, review, coverage, narrative, dossier, finalization,
                          package, audits, history>>
<1> DEFINE v == [r EXCEPT !.at = "compose"]
           m == OrElse(r, IF r.gate.ready THEN v ELSE Idle)
<1>1. Step(t, "gate.write", m)
  BY DEF WriteGate
<1>2. AtStep(t, "gate.write") /\ Goes(t, m)
  BY <1>1, AtThisStep
<1>3. DOMAIN r = Fields /\ r.goal # "execute" /\ r.gate \in GateFile
  BY <1>2, BuildingGoal DEF AtStep, Shape, ShapeOfFiles, Building, Covered, Linked, Gating
<1>4. DOMAIN v = Fields
  BY <1>3
<1>5. v # Idle
  BY <1>4 DEF Fields, Idle
<1>6. SameFiles(v, r) /\ v.at = "compose" /\ v.gate = r.gate
  BY <1>3, <1>4, <1>5 DEF Same, SameFiles, Fields
<1> HIDE DEF v
<1>7. m = Idle \/ (m = v /\ r.goal = "finalize" /\ r.gate.ready)
  BY DEF OrElse
<1> HIDE DEF m
<1> QED
  BY <1>2, <1>3, <1>6, <1>7 DEF WriteGate, SameFiles, Same

-----------------------------------------------------------------------------
(* ... of a finalization.                                                   *)

LEMMA NewFields ==
    /\ DOMAIN NewRequest = Fields /\ NewRequest.file = 1 /\ NewRequest.ok = TRUE
    /\ NewRequest.hashes = NoFile
    /\ 1 \in File /\ NoFile \in Table
  BY ReleaseAssumption DEF NewRequest, Fields, File, NoFile, Table

\* Of which audits a release is made before its report is composed.
PartsOf(r) == {r.audit.n, r.matrix.of, r.dossier.of, r.dossier.matrix,
               r.gate.of, r.gate.matrix, r.gate.dossier}

\* The request r has a payload, as m, and goes on with its report or package.
Composes(m, r) ==
    /\ DOMAIN m = Fields /\ m # Idle /\ m.at \in Composing \cup {"files"}
    /\ m.goal = "finalize" /\ m.audit = r.audit
    /\ m.ok = TRUE /\ m.file = 1 /\ m.hashes \in Table
    /\ m.payload \in Released /\ m.payload.audit = r.audit.n

\* The request r with its payload; it goes on with its package, or its report.
Prepared(r) == [NewRequest EXCEPT !.goal = r.goal, !.audit = r.audit,
                  !.payload = Payload(r.audit.n,
                      {r.audit.n, r.matrix.of, r.dossier.of, r.dossier.matrix,
                       r.gate.of, r.gate.matrix, r.gate.dossier}, {}, r.gate.decisions)]
Exporting(r)    == [Prepared(r) EXCEPT !.at = "files"]
Reporting(r, i) == [Prepared(r) EXCEPT !.at = "report", !.include = i, !.again = TRUE]

LEMMA PreparedComposes ==
    ASSUME NEW r, r.goal = "finalize", r.audit \in Audit, r.gate \in GateFile,
           r.dossier \in Dossier, r.matrix \in Matrix,
           NEW i, NEW m, m = Exporting(r) \/ m = Reporting(r, i)
    PROVE  Composes(m, r) /\ m.payload.parts = PartsOf(r) /\ m.payload.narratives = {}
<1> DEFINE p == Payload(r.audit.n, PartsOf(r), {}, r.gate.decisions)
<1>1. PartsOf(r) \in SUBSET Nat
  BY DEF Audit, GateFile, Dossier, Matrix, PartsOf
<1>2. p \in Released /\ p.audit = r.audit.n /\ p.parts = PartsOf(r) /\ p.narratives = {}
  BY <1>1 DEF Released, Payload, Audit, GateFile
<1>3. Prepared(r) = [NewRequest EXCEPT !.goal = r.goal, !.audit = r.audit, !.payload = p]
  BY DEF Prepared, PartsOf
<1> HIDE DEF p
<1> DEFINE v == Prepared(r)
<1>4. /\ DOMAIN v = Fields /\ v.goal = "finalize" /\ v.audit = r.audit /\ v.payload = p
      /\ v.ok = TRUE /\ v.file = 1 /\ v.hashes = NoFile
  BY <1>3, NewFields DEF Fields
<1> HIDE DEF v
<1>5. /\ DOMAIN m = Fields /\ m.at \in {"report", "files"} /\ m.goal = v.goal
      /\ m.audit = v.audit /\ m.payload = v.payload /\ m.ok = v.ok /\ m.file = v.file
      /\ m.hashes = v.hashes
  <2>1. CASE m = [v EXCEPT !.at = "files"]
    BY <1>4, <2>1 DEF Fields
  <2>2. CASE m = [v EXCEPT !.at = "report", !.include = i, !.again = TRUE]
    BY <1>4, <2>2 DEF Fields
  <2> QED
    BY <2>1, <2>2 DEF Exporting, Reporting, v
<1>6. m # Idle
  BY <1>5, AtWorkStill
<1> QED
  BY <1>2, <1>4, <1>5, <1>6, NewFields DEF Composes, Composing

LEMMA ComposeUnfolds ==
    ASSUME NEW t \in Thread, Compose(t)
    PROVE  /\ Quiet
           /\ \/ Step(t, "compose", Exporting(request[t]))
              \/ \E i \in BOOLEAN : Step(t, "compose", Reporting(request[t], i))
  BY Zenon DEF Compose, Quiet, Exporting, Reporting, Prepared

LEMMA ComposeMoves ==
    ASSUME Types, NEW t \in Thread, NEW r, r = request[t], Compose(t)
    PROVE  /\ AtStep(t, "compose") /\ r.goal = "finalize" /\ Quiet
           /\ r.audit \in Audit /\ r.gate \in GateFile /\ r.dossier \in Dossier
           /\ r.matrix \in Matrix /\ stored \in Audit
           /\ \E m : /\ Goes(t, m) /\ Composes(m, r)
                     /\ m.payload.parts = PartsOf(r) /\ m.payload.narratives = {}
<1>1. PICK m, i : Step(t, "compose", m) /\ (m = Exporting(r) \/ m = Reporting(r, i))
  BY ComposeUnfolds
<1>2. AtStep(t, "compose") /\ Goes(t, m) /\ Quiet
  BY <1>1, AtThisStep, ComposeUnfolds
<1>3. /\ r.goal = "finalize" /\ r.audit \in Audit /\ r.gate \in GateFile
      /\ r.dossier \in Dossier /\ r.matrix \in Matrix /\ stored \in Audit
  <2>1. r.goal = "finalize"
    BY <1>2 DEF AtStep, Shape, Making, Composing
  <2> QED
    BY <1>2, <2>1 DEF AtStep, ShapeOfFiles, Covered, Linked
<1>4. Composes(m, r) /\ m.payload.parts = PartsOf(r) /\ m.payload.narratives = {}
  BY <1>1, <1>3, PreparedComposes
<1> QED
  BY <1>2, <1>3, <1>4

\* A report that is composed adds the audit on file, or the narrative on file.
Adds(m, r) ==
    /\ m.payload.parts \in {r.payload.parts, r.payload.parts \cup {stored.n}}
    /\ m.payload.narratives \in {r.payload.narratives,
                                 r.payload.narratives \cup ({narrative} \ {None})}

LEMMA ComposedMoves ==
    ASSUME NEW r, NEW u, DOMAIN u = Fields, u.at \in Composing, u.goal = "finalize",
           u.audit = r.audit, u.ok = TRUE, u.file = 1, u.hashes \in Table,
           u.payload \in Released, u.payload.audit = r.audit.n
    PROVE  Composes(Composed(u), r) /\ Composed(u).payload = u.payload
<1> DEFINE m == Composed(u)
<1>1. /\ DOMAIN m = Fields /\ m.at \in {"report", "files"} /\ m.goal = u.goal
      /\ m.audit = u.audit /\ m.ok = u.ok /\ m.file = u.file /\ m.hashes = u.hashes
      /\ m.payload = u.payload
  BY DEF Composed, Fields
<1> HIDE DEF m
<1>2. m # Idle
  BY <1>1 DEF Fields, Idle
<1> QED
  BY <1>1, <1>2 DEF Composes, Composing, m

LEMMA ReportMoves ==
    ASSUME Types, NEW t \in Thread, NEW r, r = request[t], ReadReport(t) \/ ReadNarrative(t)
    PROVE  /\ AtStep(t, r.at) /\ r.at \in Composing /\ r.goal = "finalize" /\ Quiet
           /\ r.audit \in Audit /\ stored \in Audit
           /\ r.payload \in Released /\ r.payload.audit = r.audit.n
           /\ \E m : Goes(t, m) /\ Composes(m, r) /\ Adds(m, r)
<1>1. ASSUME AtStep(t, r.at), r.at \in Composing
      PROVE  /\ DOMAIN r = Fields /\ r.goal = "finalize" /\ r.audit \in Audit /\ stored \in Audit
             /\ r.payload \in Released /\ r.payload.audit = r.audit.n
             /\ r.ok = TRUE /\ r.file = 1 /\ r.hashes \in Table
  <2>1. r.goal = "finalize"
    BY <1>1 DEF AtStep, Shape, Making, Composing, Building, Covered, Linked, Gating
  <2> QED
    BY <1>1, <2>1 DEF AtStep, Shape, ShapeOfFiles
<1>2. CASE ReadReport(t)
  <2> DEFINE p == [r.payload EXCEPT !.parts = @ \cup {stored.n}]
             u == [r EXCEPT !.payload.parts = @ \cup {stored.n}]
             v == [u EXCEPT !.at = "narrative"]
             m == IF r.include THEN v ELSE Composed(u)
  <2>1. Step(t, "report", m) /\ Quiet
    BY <1>2 DEF ReadReport, Quiet
  <2>2. AtStep(t, "report") /\ Goes(t, m) /\ r.at = "report"
    BY <2>1, AtThisStep DEF AtStep
  <2>3. /\ DOMAIN r = Fields /\ r.goal = "finalize" /\ r.audit \in Audit /\ stored \in Audit
        /\ r.payload \in Released /\ r.payload.audit = r.audit.n
        /\ r.ok = TRUE /\ r.file = 1 /\ r.hashes \in Table
    BY <1>1, <2>2 DEF Composing
  <2>4. /\ p \in Released /\ p.audit = r.audit.n
        /\ p.parts = r.payload.parts \cup {stored.n} /\ p.narratives = r.payload.narratives
    BY <2>3 DEF Released, Audit
  <2>5. /\ DOMAIN u = Fields /\ u.at = "report" /\ u.goal = "finalize" /\ u.audit = r.audit
        /\ u.ok = TRUE /\ u.file = 1 /\ u.hashes \in Table /\ u.payload = p
    BY <2>2, <2>3 DEF Fields
  <2> HIDE DEF u, p
  <2>6. /\ DOMAIN v = Fields /\ v.at = "narrative" /\ v.goal = "finalize" /\ v.audit = r.audit
        /\ v.ok = TRUE /\ v.file = 1 /\ v.hashes \in Table /\ v.payload = p
    BY <2>5 DEF Fields
  <2> HIDE DEF v
  <2>7. v # Idle
    BY <2>6 DEF Fields, Idle
  <2>8. Composes(v, r) /\ Adds(v, r)
    BY <2>4, <2>6, <2>7 DEF Composes, Adds, Composing
  <2>9. Composes(Composed(u), r) /\ Adds(Composed(u), r)
    <3>1. u.at \in Composing
      BY <2>5 DEF Composing
    <3>2. Composes(Composed(u), r) /\ Composed(u).payload = p
      BY <2>4, <2>5, <3>1, ComposedMoves
    <3> QED
      BY <2>4, <3>2 DEF Adds
  <2>10. m = v \/ m = Composed(u)
    OBVIOUS
  <2> HIDE DEF m
  <2>11. Composes(m, r) /\ Adds(m, r)
    BY <2>8, <2>9, <2>10
  <2> QED
    BY <2>1, <2>2, <2>3, <2>11 DEF Composing
<1>3. CASE ReadNarrative(t)
  <2> DEFINE told == {narrative} \ {None}
             p == [r.payload EXCEPT !.narratives = @ \cup told]
             u == [r EXCEPT !.payload.narratives = @ \cup told]
             m == Composed(u)
  <2>1. Step(t, "narrative", m) /\ Quiet
    BY <1>3 DEF ReadNarrative, Quiet
  <2>2. AtStep(t, "narrative") /\ Goes(t, m) /\ r.at = "narrative"
    BY <2>1, AtThisStep DEF AtStep
  <2>3. /\ DOMAIN r = Fields /\ r.goal = "finalize" /\ r.audit \in Audit /\ stored \in Audit
        /\ r.payload \in Released /\ r.payload.audit = r.audit.n
        /\ r.ok = TRUE /\ r.file = 1 /\ r.hashes \in Table
    BY <1>1, <2>2 DEF Composing
  <2>4. told \subseteq Nat
    BY DEF Types, FilesOK, Holds
  <2>5. /\ p \in Released /\ p.audit = r.audit.n
        /\ p.parts = r.payload.parts /\ p.narratives = r.payload.narratives \cup told
    <3> HIDE DEF told
    <3> QED  BY <2>3, <2>4 DEF Released
  <2>6. /\ DOMAIN u = Fields /\ u.at = "narrative" /\ u.goal = "finalize" /\ u.audit = r.audit
        /\ u.ok = TRUE /\ u.file = 1 /\ u.hashes \in Table /\ u.payload = p
    BY <2>2, <2>3 DEF Fields
  <2> HIDE DEF u, p
  <2>7. Composes(m, r) /\ Adds(m, r)
    <3>1. u.at \in Composing
      BY <2>6 DEF Composing
    <3>2. Composes(m, r) /\ m.payload = p
      BY <2>5, <2>6, <3>1, ComposedMoves
    <3> QED
      BY <2>5, <3>2 DEF Adds
  <2> HIDE DEF m
  <2> QED
    BY <2>1, <2>2, <2>3, <2>7 DEF Composing
<1> QED
  BY <1>2, <1>3

LEMMA WriteFinalizationMoves ==
    ASSUME Types, NEW t \in Thread, NEW r, r = request[t], WriteFinalization(t)
    PROVE  /\ AtStep(t, "finalize") /\ r.goal = "finalize"
           /\ r.audit \in Audit /\ r.payload \in Released
           /\ \E m : /\ Goes(t, m) /\ DOMAIN m = Fields /\ m # Idle
                     /\ m.at = "detail" /\ m.goal = "finalize" /\ m.audit = r.audit /\ m.ok = TRUE
           /\ finalization' = r.payload
           /\ UNCHANGED <<stored, review, coverage, narrative, dossier, gate,
                          package, audits, history>>
<1> DEFINE m == [NewRequest EXCEPT !.at = "detail", !.goal = r.goal, !.audit = r.audit]
<1>1. Step(t, "finalize", m)
  BY DEF WriteFinalization
<1>2. AtStep(t, "finalize") /\ Goes(t, m)
  BY <1>1, AtThisStep
<1>3. r.goal = "finalize" /\ r.audit \in Audit /\ r.payload \in Released
  BY <1>2 DEF AtStep, Shape, ShapeOfFiles, Building, Covered, Linked, Gating, Making, Composing
<1>4. DOMAIN m = Fields
  BY NewFields
<1>5. m # Idle
  BY <1>4 DEF Fields, Idle
<1>6. m.at = "detail" /\ m.goal = "finalize" /\ m.audit = r.audit /\ m.ok = TRUE
  BY <1>3, NewFields DEF Fields
<1> HIDE DEF m
<1> QED
  BY <1>2, <1>3, <1>4, <1>5, <1>6 DEF WriteFinalization

LEMMA WriteBackMoves ==
    ASSUME Types, NEW t \in Thread, NEW r, r = request[t], WriteBack(t)
    PROVE  /\ AtStep(t, "detail") /\ r.goal = "finalize" /\ Goes(t, Idle)
           /\ r.audit \in Audit /\ stored' \in Audit /\ stored'.finalized
           /\ stored'.n = r.audit.n /\ stored'.outcome = r.audit.outcome
           /\ stored'.export = r.audit.export
           /\ UNCHANGED <<review, coverage, narrative, dossier, gate, finalization,
                          package, audits, history>>
<1>1. AtStep(t, "detail") /\ Goes(t, Idle)
  BY AtThisStep DEF WriteBack
<1>2. r.goal = "finalize" /\ r.audit \in Audit
  BY <1>1 DEF AtStep, Shape, ShapeOfFiles, Building, Covered, Linked, Gating, Making, Composing
<1>3. stored' = [r.audit EXCEPT !.finalized = TRUE]
  BY DEF WriteBack
<1>4. /\ stored' \in Audit /\ stored'.finalized
      /\ stored'.n = r.audit.n /\ stored'.outcome = r.audit.outcome
      /\ stored'.export = r.audit.export
  BY <1>2, <1>3 DEF Audit
<1> QED
  BY <1>1, <1>2, <1>4 DEF WriteBack

-----------------------------------------------------------------------------
(* ... and what a request begins as.                                        *)

\* An execution m without a package, and one with a package.
Bare(m)    == m.at = "store" /\ m.audit.export = "missing"
Packing(m) ==
    /\ m.at = "files" /\ m.audit.export = "verified"
    /\ m.payload \in Released /\ m.payload.audit = m.audit.n
    /\ m.file = 1 /\ m.hashes = NoFile

LEMMA ExecuteMoves ==
    ASSUME Types, NEW t \in Thread, Execute(t)
    PROVE  \E m : /\ Serve(t, m) /\ DOMAIN m = Fields /\ m # Idle
                  /\ m.goal = "execute" /\ m.ok = TRUE
                  /\ m.audit \in Audit /\ ~m.audit.finalized
                  /\ Bare(m) \/ Packing(m)
                  /\ m.audit.n = audits + 1 /\ audits' = audits + 1 /\ audits' \in Nat
                  /\ UNCHANGED <<runFiles, package, history>>
<1>1. PICK o \in Outcome, export \in BOOLEAN :
          LET n == audits + 1
              m == [NewRequest EXCEPT !.goal = "execute", !.at = "store",
                     !.audit = [n |-> n, outcome |-> o, finalized |-> FALSE, export |-> "missing"]]
          IN  /\ n <= MaxAudits /\ audits' = n
              /\ Serve(t, IF ~export THEN m
                          ELSE [m EXCEPT !.at = "files",
                                  !.audit.export = "verified",
                                  !.payload = Payload(n, {n}, {}, 0)])
              /\ UNCHANGED <<runFiles, package, history>>
  BY Zenon DEF Execute
<1> DEFINE n == audits + 1
           a == [n |-> n, outcome |-> o, finalized |-> FALSE, export |-> "missing"]
           b == [a EXCEPT !.export = "verified"]
           p == Payload(n, {n}, {}, 0)
           v == [NewRequest EXCEPT !.goal = "execute", !.at = "store", !.audit = a]
           w == [v EXCEPT !.at = "files", !.audit.export = "verified", !.payload = p]
           m == IF ~export THEN v ELSE w
<1>2. n \in Nat
  BY DEF Types, FilesOK
<1>3. /\ a \in Audit /\ a.n = n /\ ~a.finalized /\ a.export = "missing"
      /\ p \in Released /\ p.audit = n /\ p.narratives = {}
  BY <1>2 DEF Audit, Released, Payload
<1>4. b \in Audit /\ b.n = n /\ ~b.finalized /\ b.export = "verified"
  <2> HIDE DEF a
  <2> QED  BY <1>3 DEF Audit
<1>5. Serve(t, m) /\ audits' = n /\ UNCHANGED <<runFiles, package, history>>
  BY <1>1
<1> HIDE DEF p
<1>6. /\ DOMAIN v = Fields /\ v.at = "store" /\ v.goal = "execute" /\ v.audit = a
      /\ v.ok = TRUE /\ v.file = 1 /\ v.hashes = NoFile
  BY NewFields DEF Fields
<1> HIDE DEF v
<1>7. /\ DOMAIN w = Fields /\ w.at = "files" /\ w.goal = "execute" /\ w.audit = b
      /\ w.ok = TRUE /\ w.file = 1 /\ w.hashes = NoFile /\ w.payload = p
  <2> HIDE DEF a
  <2> QED  BY <1>6 DEF Fields
<1> HIDE DEF w
<1>8. v # Idle /\ w # Idle
  BY <1>6, <1>7 DEF Fields, Idle
<1>9. m = v \/ m = w
  OBVIOUS
<1> HIDE DEF m
<1>10. m # Idle /\ DOMAIN m = Fields /\ m.goal = "execute" /\ m.ok = TRUE
  BY <1>6, <1>7, <1>8, <1>9
<1>11. /\ m.audit \in Audit /\ ~m.audit.finalized /\ m.audit.n = n
       /\ Bare(m) \/ Packing(m)
  BY <1>3, <1>4, <1>6, <1>7, <1>9 DEF Bare, Packing
<1> QED
  BY <1>2, <1>5, <1>10, <1>11

LEMMA ReviewMoves ==
    ASSUME Types, NEW t \in Thread, Review(t)
    PROVE  /\ Quiet /\ stored \in Audit
           /\ \E m : /\ Serve(t, m) /\ DOMAIN m = Fields /\ m # Idle
                     /\ m.goal \in {"review", "look"} /\ m.ok \in BOOLEAN
                     /\ m.review \in ReviewFile
                     /\ \/ /\ m.at = "baseline" /\ review = None
                           /\ m.review.of = stored.n /\ ~m.review.approved
                        \/ m.at = "decide" /\ review # None /\ m.review = review
<1>1. PICK decision \in {"approve", "reject", "look"} :
          LET m == [NewRequest EXCEPT !.goal = IF decision = "look" THEN "look" ELSE "review",
                                      !.ok = decision = "approve"]
          IN  /\ stored # None
              /\ decision = "look" => review = None
              /\ Serve(t, IF review = None
                          THEN [m EXCEPT !.at = "baseline",
                                  !.review = [of |-> stored.n, decisions |-> 0, approved |-> FALSE]]
                          ELSE [m EXCEPT !.at = "decide", !.review = review])
              /\ UNCHANGED <<runFiles, package, audits, history>>
  BY DEF Review
<1> DEFINE new == [of |-> stored.n, decisions |-> 0, approved |-> FALSE]
           u == [NewRequest EXCEPT !.goal = IF decision = "look" THEN "look" ELSE "review",
                                   !.ok = decision = "approve"]
           v == [u EXCEPT !.at = "baseline", !.review = new]
           w == [u EXCEPT !.at = "decide", !.review = review]
           m == IF review = None THEN v ELSE w
<1>2. stored \in Audit /\ (review # None => review \in ReviewFile)
  BY <1>1 DEF Types, FilesOK, Holds
<1>3. new \in ReviewFile /\ new.of = stored.n /\ ~new.approved
  BY <1>2 DEF ReviewFile, Audit
<1>4. Serve(t, m) /\ Quiet
  BY <1>1 DEF Quiet
<1> HIDE DEF new
<1>5. DOMAIN u = Fields /\ u.goal \in {"review", "look"} /\ u.ok \in BOOLEAN
  BY NewFields DEF Fields
<1> HIDE DEF u
<1>6. /\ DOMAIN v = Fields /\ v.goal = u.goal /\ v.ok = u.ok
      /\ v.at = "baseline" /\ v.review = new
  BY <1>5 DEF Fields
<1>7. /\ DOMAIN w = Fields /\ w.goal = u.goal /\ w.ok = u.ok
      /\ w.at = "decide" /\ w.review = review
  BY <1>5 DEF Fields
<1> HIDE DEF v, w
<1>8. v # Idle /\ w # Idle
  BY <1>6, <1>7 DEF Fields, Idle
<1>9. (m = v /\ review = None) \/ (m = w /\ review # None)
  OBVIOUS
<1> HIDE DEF m
<1> QED
  BY <1>2, <1>3, <1>4, <1>5, <1>6, <1>7, <1>8, <1>9

LEMMA BuildMoves ==
    ASSUME Types, NEW t \in Thread, Build(t)
    PROVE  /\ Quiet /\ stored \in Audit
           /\ \E m : /\ Serve(t, m) /\ DOMAIN m = Fields /\ m # Idle
                     /\ m.at \in {"coverage", "dossier", "gate"} /\ m.goal = m.at /\ m.ok = TRUE
<1>1. PICK x \in {"coverage", "dossier", "gate"} :
          /\ stored # None
          /\ Serve(t, [NewRequest EXCEPT !.at = x, !.goal = x])
          /\ UNCHANGED <<runFiles, package, audits, history>>
  BY DEF Build
<1> DEFINE m == [NewRequest EXCEPT !.at = x, !.goal = x]
<1>2. stored \in Audit /\ Serve(t, m) /\ Quiet
  BY <1>1 DEF Types, FilesOK, Holds, Quiet
<1>3. DOMAIN m = Fields /\ m.at = x /\ m.goal = x /\ m.ok = TRUE
  BY NewFields DEF Fields
<1> HIDE DEF m
<1>4. m # Idle
  BY <1>3 DEF Fields, Idle
<1> QED
  BY <1>2, <1>3, <1>4

LEMMA AugmentMoves ==
    ASSUME Types, NEW t \in Thread, Augment(t)
    PROVE  /\ Quiet /\ stored \in Audit
           /\ \E m : /\ Serve(t, m) /\ DOMAIN m = Fields /\ m # Idle
                     /\ m.at = "narrate" /\ m.goal = "augment" /\ m.seen = stored.n /\ m.ok = TRUE
<1> DEFINE m == [NewRequest EXCEPT !.at = "narrate", !.goal = "augment", !.seen = stored.n]
<1>1. stored \in Audit /\ Serve(t, m) /\ Quiet
  BY DEF Augment, Types, FilesOK, Holds, Quiet
<1>2. /\ DOMAIN m = Fields /\ m.at = "narrate" /\ m.goal = "augment" /\ m.seen = stored.n
      /\ m.ok = TRUE
  BY NewFields DEF Fields
<1> HIDE DEF m
<1>3. m # Idle
  BY <1>2, AtWorkStill
<1> QED
  BY <1>1, <1>2, <1>3

LEMMA FinalizeMoves ==
    ASSUME Types, NEW t \in Thread, Finalize(t)
    PROVE  /\ Quiet /\ stored \in Audit
           /\ \E m : /\ Serve(t, m) /\ DOMAIN m = Fields /\ m # Idle
                     /\ m.at = "coverage" /\ m.goal = "finalize" /\ m.audit = stored /\ m.ok = TRUE
<1> DEFINE m == [NewRequest EXCEPT !.at = "coverage", !.goal = "finalize", !.audit = stored]
<1>1. stored \in Audit /\ Serve(t, m) /\ Quiet
  BY DEF Finalize, Types, FilesOK, Holds, Quiet
<1>2. DOMAIN m = Fields /\ m.at = "coverage" /\ m.goal = "finalize" /\ m.audit = stored /\ m.ok = TRUE
  BY NewFields DEF Fields
<1> HIDE DEF m
<1>3. m # Idle
  BY <1>2 DEF Fields, Idle
<1> QED
  BY <1>1, <1>2, <1>3

-----------------------------------------------------------------------------
(* Types hold.                                                              *)

LEMMA IdleTyped ==
    ASSUME Types, NEW t \in Thread, Goes(t, Idle), stored \in Audit => stored' \in Audit, FilesOK'
    PROVE  Types'
  BY StepTyped, IdleShaped DEF Goes

\* What was written into a package is a payload.
LEMMA PackageTyped ==
    ASSUME package \in [Package -> [files : Table, manifest : Table]],
           NEW p \in Package, NEW f \in File, NEW x \in Released, NEW table \in Table
    PROVE  LET w == package[p] IN
           /\ [package EXCEPT ![p] = [w EXCEPT !.files = [@ EXCEPT ![f] = x]]]
                 \in [Package -> [files : Table, manifest : Table]]
           /\ [package EXCEPT ![p] = [w EXCEPT !.manifest = table]]
                 \in [Package -> [files : Table, manifest : Table]]
<1> DEFINE w == package[p]
<1>1. w \in [files : Table, manifest : Table]
  OBVIOUS
<1>2. [w.files EXCEPT ![f] = x] \in Table
  BY <1>1 DEF Table
<1>3. [w EXCEPT !.files = [@ EXCEPT ![f] = x]] \in [files : Table, manifest : Table]
  BY <1>1, <1>2
<1>4. [w EXCEPT !.manifest = table] \in [files : Table, manifest : Table]
  BY <1>1
<1> QED  BY <1>3, <1>4

LEMMA MakingTyped ==
    ASSUME Types, NEW t \in Thread,
           \/ WriteFile(t) \/ HashFile(t) \/ WriteManifest(t) \/ ReadManifest(t) \/ VerifyFile(t)
    PROVE  Types'
<1> DEFINE r == request[t]
<1> USE DEF AtStep, Shape, ShapeOfFiles, Shaped, Same, Making, Composing, Goes,
            Building, Covered, Linked, Gating
<1>1. CASE WriteFile(t)
  <2>1. PICK m : /\ Goes(t, m) /\ Same(m, r)
                 /\ m.payload = r.payload /\ m.hashes = r.hashes /\ m.file \in File
                 /\ m.at \in {"files", "hash"}
    BY <1>1, WriteFileMoves
  <2>2. AtStep(t, "files") /\ UNCHANGED <<runFiles, audits, history>>
    BY <1>1, WriteFileMoves
  <2>3. r.goal \in {"execute", "finalize"}
    BY <2>2
  <2>4. Shaped(m, stored)
    <3>1. Shape(m)
      BY <2>1, <2>2, <2>3
    <3>2. ShapeOfFiles(m)
      BY <2>1, <2>2, <2>3
    <3> QED
      BY <2>1, <2>2, <3>1, <3>2
  <2>5. package' \in [Package -> [files : Table, manifest : Table]]
    <3> DEFINE p == PackageOf(r)
               w == package[p]
    <3>1. r.file \in File /\ r.payload \in Released /\ NoFile \in Table
      BY <2>2, NewFields
    <3> HIDE DEF AtStep, Shape, ShapeOfFiles, Shaped, Same, Making, Composing, Goes, Building, Covered,
                Linked, Gating
    <3>2. /\ p \in Package
          /\ package' = [package EXCEPT
                ![p] = [w EXCEPT !.files = [@ EXCEPT ![r.file] = r.payload]]]
      BY <1>1, WriteFileMoves
    <3>3. package \in [Package -> [files : Table, manifest : Table]]
      BY DEF Types, FilesOK
    <3> HIDE DEF p, r
    <3> QED
      BY <3>1, <3>2, <3>3, PackageTyped
  <2>6. FilesOK' /\ stored' = stored
    BY <2>2, <2>5 DEF Types, FilesOK, runFiles, history
  <2> QED
    BY <2>1, <2>4, <2>6, StepTyped
<1>2. CASE HashFile(t)
  <2>1. PICK m : /\ Goes(t, m) /\ Same(m, r)
                 /\ m.payload = r.payload /\ m.file \in File
                 /\ m.hashes = [r.hashes EXCEPT
                        ![r.file] = package[PackageOf(r)].files[r.file]]
                 /\ m.at \in {"hash", "manifest"}
    BY <1>2, HashFileMoves
  <2>2. AtStep(t, "hash") /\ Quiet /\ PackageOf(r) \in Package
    BY <1>2, HashFileMoves
  <2>3. r.goal \in {"execute", "finalize"} /\ r.file \in File /\ r.hashes \in Table
    BY <2>2
  <2>4. package[PackageOf(r)].files \in Table
    BY <2>2 DEF Types, FilesOK
  <2>5. m.hashes \in Table
    BY <2>1, <2>3, <2>4 DEF Table
  <2>6. Shaped(m, stored)
    BY <2>1, <2>2, <2>3, <2>5
  <2> QED
    BY <2>1, <2>2, <2>6, QuietTyped DEF Quiet
<1>3. CASE WriteManifest(t)
  <2>1. PICK m : /\ Goes(t, m) /\ Same(m, r)
                 /\ m.at = "reread" /\ m.payload = r.payload /\ m.file = r.file
                 /\ m.hashes = NoFile
    BY <1>3, WriteManifestMoves
  <2>2. AtStep(t, "manifest") /\ UNCHANGED <<runFiles, audits, history>>
    BY <1>3, WriteManifestMoves
  <2>3. r.goal \in {"execute", "finalize"} /\ r.hashes \in Table
    BY <2>2
  <2>4. Shaped(m, stored)
    BY <2>1, <2>2, <2>3, NewFields
  <2>5. package' \in [Package -> [files : Table, manifest : Table]]
    <3> DEFINE p == PackageOf(r)
               w == package[p]
    <3>1. r.file \in File /\ r.payload \in Released /\ r.hashes \in Table
      BY <2>2
    <3>2. p \in Package /\ package' = [package EXCEPT ![p] = [w EXCEPT !.manifest = r.hashes]]
      BY <1>3, WriteManifestMoves
    <3>3. package \in [Package -> [files : Table, manifest : Table]]
      BY DEF Types, FilesOK
    <3> HIDE DEF p, r
    <3> QED
      BY <3>1, <3>2, <3>3, PackageTyped
  <2>6. FilesOK' /\ stored' = stored
    BY <2>2, <2>5 DEF Types, FilesOK, runFiles, history
  <2> QED
    BY <2>1, <2>4, <2>6, StepTyped
<1>4. CASE ReadManifest(t)
  <2>1. PICK m : /\ Goes(t, m) /\ Same(m, r)
                 /\ m.at = "verify" /\ m.payload = r.payload /\ m.file = r.file
                 /\ m.hashes = package[PackageOf(r)].manifest
    BY <1>4, ReadManifestMoves
  <2>2. AtStep(t, "reread") /\ Quiet /\ PackageOf(r) \in Package
    BY <1>4, ReadManifestMoves
  <2>3. r.goal \in {"execute", "finalize"}
    BY <2>2
  <2>4. m.hashes \in Table
    BY <2>1, <2>2 DEF Types, FilesOK
  <2>5. Shaped(m, stored)
    BY <2>1, <2>2, <2>3, <2>4
  <2> QED
    BY <2>1, <2>2, <2>5, QuietTyped DEF Quiet
<1>5. CASE VerifyFile(t)
  <2>1. PICK m : /\ Goes(t, m)
                 /\ \/ m = Idle /\ ~FoundOk(r) /\ r.goal # "execute"
                    \/ /\ DOMAIN m = Fields /\ m # Idle
                       /\ m.goal = r.goal /\ m.audit = r.audit
                       /\ m.ok \in BOOLEAN /\ (m.ok <=> FoundOk(r))
                       /\ m.payload = r.payload /\ m.hashes = r.hashes
                       /\ \/ m.at = "verify" /\ m.file \in File
                          \/ m.at = "store" /\ r.goal = "execute"
                          \/ m.at = "finalize" /\ r.goal # "execute"
    BY <1>5, VerifyFileMoves
  <2>2. AtStep(t, "verify") /\ Quiet
    BY <1>5, VerifyFileMoves
  <2>3. r.goal \in {"execute", "finalize"}
    BY <2>2
  <2>4. Shaped(m, stored)
    BY <2>1, <2>2, <2>3
  <2> QED
    BY <2>1, <2>2, <2>4, QuietTyped DEF Quiet
<1> QED
  BY <1>1, <1>2, <1>3, <1>4, <1>5

LEMMA StoringTyped ==
    ASSUME Types, NEW t \in Thread,
           \/ StoreAudit(t) \/ ResetReview(t) \/ WriteBaseline(t) \/ WriteDecision(t)
           \/ WriteNarrative(t)
    PROVE  Types'
<1> DEFINE r == request[t]
<1> USE DEF AtStep, Shape, ShapeOfFiles, Shaped, Same, Making, Composing, Goes,
            Building, Covered, Linked, Gating
<1>1. CASE StoreAudit(t)
  <2>1. PICK m : Goes(t, m) /\ DOMAIN m = Fields /\ m # Idle
                 /\ m.at = "reset" /\ m.goal = "execute" /\ m.ok = TRUE
    BY <1>1, StoreAuditMoves
  <2>2. stored' \in Audit
    BY <1>1, StoreAuditMoves
  <2>3. UNCHANGED <<review, coverage, narrative, dossier, gate, finalization, package, audits,
                    narrated>>
    BY <1>1, StoreAuditMoves
  <2>4. FilesOK'
    BY <2>2, <2>3 DEF Types, FilesOK, Holds
  <2>5. Shaped(m, stored')
    BY <2>1
  <2> QED
    BY <2>1, <2>2, <2>4, <2>5, StepTyped
<1>2. CASE ResetReview(t)
  <2>1. Goes(t, Idle) /\ stored' = stored
    BY <1>2, ResetReviewMoves
  <2>2. FilesOK'
    BY <1>2, ResetReviewMoves DEF Types, FilesOK, Holds, history
  <2> QED
    BY <2>1, <2>2, IdleTyped
<1>3. CASE WriteBaseline(t)
  <2>1. PICK m : Goes(t, m) /\ (m = Idle \/ (Same(m, r) /\ m.at = "decide"
                                             /\ m.review = r.review))
    BY <1>3, WriteBaselineMoves
  <2>2. AtStep(t, "baseline") /\ r.goal \in {"review", "look"} /\ r.review \in ReviewFile
    BY <1>3, WriteBaselineMoves
  <2>3. /\ review' = r.review
        /\ UNCHANGED <<stored, coverage, narrative, dossier, gate, finalization, package,
                       audits, narrated>>
    BY <1>3, WriteBaselineMoves DEF history
  <2>4. FilesOK'
    BY <2>2, <2>3 DEF Types, FilesOK, Holds
  <2>5. Shaped(m, stored)
    BY <2>1, <2>2
  <2> QED
    BY <2>1, <2>3, <2>4, <2>5, StepTyped
<1>4. CASE WriteDecision(t)
  <2>1. Goes(t, Idle) /\ stored' = stored
    BY <1>4, WriteDecisionMoves
  <2>2. FilesOK'
    BY <1>4, WriteDecisionMoves DEF Types, FilesOK, Holds
  <2> QED
    BY <2>1, <2>2, IdleTyped
<1>5. CASE WriteNarrative(t)
  <2>1. Goes(t, Idle) /\ stored' = stored
    BY <1>5, WriteNarrativeMoves
  <2>2. FilesOK'
    BY <1>5, WriteNarrativeMoves DEF Types, FilesOK, Holds
  <2> QED
    BY <2>1, <2>2, IdleTyped
<1> QED
  BY <1>1, <1>2, <1>3, <1>4, <1>5

LEMMA BuildingTyped ==
    ASSUME Types, NEW t \in Thread,
           \/ ReadForCoverage(t) \/ WriteCoverage(t)
           \/ ReadForDossier(t) \/ ReadCoverage(t) \/ WriteDossier(t)
    PROVE  Types'
<1> DEFINE r == request[t]
<1> USE DEF AtStep, Shape, ShapeOfFiles, Shaped, Same, SameFiles, Making, Composing, Goes,
            Building, Covered, Linked, Gating
<1>1. CASE ReadForCoverage(t)
  <2>1. PICK m : Goes(t, m) /\ (m = Idle \/ (Same(m, r) /\ m.at = "matrix"
                                    /\ m.matrix \in Matrix /\ m.matrix.of = stored.n))
    BY <1>1, ReadForCoverageMoves
  <2>2. AtStep(t, "coverage") /\ r.goal # "execute" /\ Quiet
    BY <1>1, ReadForCoverageMoves
  <2>3. Shaped(m, stored)
    BY <2>1, <2>2
  <2> QED
    BY <2>1, <2>2, <2>3, QuietTyped DEF Quiet
<1>2. CASE WriteCoverage(t)
  <2>1. PICK m : Goes(t, m) /\ (m = Idle \/ (SameFiles(m, r) /\ m.at = "dossier"
                                             /\ m.goal = "finalize"))
    BY <1>2, WriteCoverageMoves
  <2>2. AtStep(t, "matrix") /\ r.goal # "execute" /\ r.matrix \in Matrix
    BY <1>2, WriteCoverageMoves
  <2>3. FilesOK' /\ stored' = stored
    BY <1>2, <2>2, WriteCoverageMoves DEF Types, FilesOK, Holds, history
  <2>4. Shaped(m, stored)
    BY <2>1, <2>2
  <2> QED
    BY <2>1, <2>3, <2>4, StepTyped
<1>3. CASE ReadForDossier(t)
  <2>1. PICK m : Goes(t, m) /\ SameFiles(m, r) /\ m.at = "covered" /\ m.seen = stored.n
    BY <1>3, ReadForDossierMoves
  <2>2. AtStep(t, "dossier") /\ r.goal # "execute" /\ Quiet /\ stored.n \in Nat
    BY <1>3, ReadForDossierMoves DEF Audit
  <2>3. Shaped(m, stored)
    BY <2>1, <2>2
  <2> QED
    BY <2>1, <2>2, <2>3, QuietTyped DEF Quiet
<1>4. CASE ReadCoverage(t)
  <2>1. PICK m : Goes(t, m) /\ \/ m = Idle
                               \/ /\ Same(m, r) /\ m.at = "link" /\ m.matrix = r.matrix
                                  /\ coverage \in Matrix
                                  /\ m.dossier = [of |-> r.seen, matrix |-> coverage.of]
    BY <1>4, ReadCoverageMoves
  <2>2. AtStep(t, "covered") /\ r.goal # "execute" /\ Quiet /\ r.seen \in Nat
    BY <1>4, ReadCoverageMoves
  <2>3. m # Idle => m.dossier \in Dossier
    BY <2>1, <2>2 DEF Dossier, Matrix
  <2>4. Shaped(m, stored)
    BY <2>1, <2>2, <2>3
  <2> QED
    BY <2>1, <2>2, <2>4, QuietTyped DEF Quiet
<1>5. CASE WriteDossier(t)
  <2>1. PICK m : Goes(t, m) /\ (m = Idle \/ (SameFiles(m, r) /\ m.at = "gate"
                                             /\ m.goal = "finalize"))
    BY <1>5, WriteDossierMoves
  <2>2. AtStep(t, "link") /\ r.goal # "execute" /\ r.dossier \in Dossier
    BY <1>5, WriteDossierMoves
  <2>3. FilesOK' /\ stored' = stored
    BY <1>5, <2>2, WriteDossierMoves DEF Types, FilesOK, Holds, history
  <2>4. Shaped(m, stored)
    BY <2>1, <2>2
  <2> QED
    BY <2>1, <2>3, <2>4, StepTyped
<1> QED
  BY <1>1, <1>2, <1>3, <1>4, <1>5

LEMMA GatingTyped ==
    ASSUME Types, NEW t \in Thread,
           ReadForGate(t) \/ ReadMatrix(t) \/ ReadDossier(t) \/ ReadReview(t) \/ WriteGate(t)
    PROVE  Types'
<1> DEFINE r == request[t]
<1> USE DEF AtStep, Shape, ShapeOfFiles, Shaped, Same, SameFiles, Making, Composing, Goes,
            Building, Covered, Linked, Gating
<1>1. CASE ReadForGate(t)
  <2>1. PICK m : Goes(t, m) /\ SameFiles(m, r) /\ m.at = "gate.matrix" /\ m.gate \in GateFile
    BY <1>1, ReadForGateMoves
  <2>2. AtStep(t, "gate") /\ r.goal # "execute" /\ Quiet
    BY <1>1, ReadForGateMoves
  <2>3. Shaped(m, stored)
    BY <2>1, <2>2
  <2> QED
    BY <2>1, <2>2, <2>3, QuietTyped DEF Quiet
<1>2. CASE ReadMatrix(t)
  <2>1. PICK m : Goes(t, m) /\ (m = Idle \/ (SameFiles(m, r) /\ m.at = "gate.dossier"
                                             /\ m.gate \in GateFile))
    BY <1>2, ReadMatrixMoves
  <2>2. AtStep(t, "gate.matrix") /\ r.goal # "execute" /\ Quiet
    BY <1>2, ReadMatrixMoves
  <2>3. Shaped(m, stored)
    BY <2>1, <2>2
  <2> QED
    BY <2>1, <2>2, <2>3, QuietTyped DEF Quiet
<1>3. CASE ReadDossier(t)
  <2>1. PICK m : Goes(t, m) /\ (m = Idle \/ (SameFiles(m, r) /\ m.at = "gate.review"
                                             /\ m.gate \in GateFile))
    BY <1>3, ReadDossierMoves
  <2>2. AtStep(t, "gate.dossier") /\ r.goal # "execute" /\ Quiet
    BY <1>3, ReadDossierMoves
  <2>3. Shaped(m, stored)
    BY <2>1, <2>2
  <2> QED
    BY <2>1, <2>2, <2>3, QuietTyped DEF Quiet
<1>4. CASE ReadReview(t)
  <2>1. PICK m : Goes(t, m) /\ SameFiles(m, r) /\ m.at = "gate.write" /\ m.gate \in GateFile
    BY <1>4, ReadReviewMoves
  <2>2. AtStep(t, "gate.review") /\ r.goal # "execute" /\ Quiet
    BY <1>4, ReadReviewMoves
  <2>3. Shaped(m, stored)
    BY <2>1, <2>2
  <2> QED
    BY <2>1, <2>2, <2>3, QuietTyped DEF Quiet
<1>5. CASE WriteGate(t)
  <2>1. PICK m : Goes(t, m) /\ (m = Idle \/ (SameFiles(m, r) /\ m.at = "compose"
                                             /\ m.gate = r.gate /\ m.goal = "finalize"))
    BY <1>5, WriteGateMoves
  <2>2. AtStep(t, "gate.write") /\ r.goal # "execute" /\ r.gate \in GateFile
    BY <1>5, WriteGateMoves
  <2>3. FilesOK' /\ stored' = stored
    BY <1>5, <2>2, WriteGateMoves DEF Types, FilesOK, Holds, history
  <2>4. Shaped(m, stored)
    BY <2>1, <2>2
  <2> QED
    BY <2>1, <2>3, <2>4, StepTyped
<1> QED
  BY <1>1, <1>2, <1>3, <1>4, <1>5

LEMMA ComposesShaped ==
    ASSUME NEW r, NEW m, Composes(m, r), r.audit \in Audit, stored \in Audit
    PROVE  Shaped(m, stored)
<1>1. Shape(m)
  BY DEF Composes, Shape, Making, Composing
<1>2. ShapeOfFiles(m)
  BY NewFields DEF Composes, ShapeOfFiles, Making, Composing, Covered, Linked, Gating
<1> QED
  BY <1>1, <1>2 DEF Shaped

LEMMA ReleasingTyped ==
    ASSUME Types, NEW t \in Thread,
           \/ Compose(t) \/ ReadReport(t) \/ ReadNarrative(t)
           \/ WriteFinalization(t) \/ WriteBack(t)
    PROVE  Types'
<1>0. PICK r : r = request[t]
  OBVIOUS
<1>1. CASE Compose(t) \/ ReadReport(t) \/ ReadNarrative(t)
  <2>1. PICK m : Goes(t, m) /\ Composes(m, r)
    BY <1>0, <1>1, ComposeMoves, ReportMoves
  <2>2. Quiet /\ r.audit \in Audit /\ stored \in Audit
    BY <1>0, <1>1, ComposeMoves, ReportMoves
  <2>3. Shaped(m, stored)
    BY <2>1, <2>2, ComposesShaped
  <2> QED
    BY <2>1, <2>2, <2>3, QuietTyped DEF Quiet, Goes
<1>2. CASE WriteFinalization(t)
  <2>1. PICK m : /\ Goes(t, m) /\ DOMAIN m = Fields /\ m # Idle
                 /\ m.at = "detail" /\ m.goal = "finalize" /\ m.audit = r.audit /\ m.ok = TRUE
    BY <1>0, <1>2, WriteFinalizationMoves
  <2>2. /\ AtStep(t, "finalize") /\ r.goal = "finalize" /\ r.audit \in Audit
        /\ r.payload \in Released
    BY <1>0, <1>2, WriteFinalizationMoves
  <2>3. FilesOK' /\ stored' = stored
    BY <1>0, <1>2, <2>2, WriteFinalizationMoves DEF Types, FilesOK, Holds, history
  <2>4. Shaped(m, stored)
    BY <2>1, <2>2, <1>0 DEF AtStep, Shaped, Shape, ShapeOfFiles, Making, Composing, Building, Covered,
       Linked, Gating
  <2> QED
    BY <2>1, <2>3, <2>4, StepTyped DEF Goes
<1>3. CASE WriteBack(t)
  <2>1. Goes(t, Idle) /\ stored' \in Audit
    BY <1>3, WriteBackMoves
  <2>2. FilesOK'
    BY <1>3, <2>1, WriteBackMoves DEF Types, FilesOK, Holds, history
  <2> QED
    BY <2>1, <2>2, IdleTyped
<1> QED
  BY <1>1, <1>2, <1>3

LEMMA BeginTyped ==
    ASSUME Types, NEW t \in Thread,
           Execute(t) \/ Review(t) \/ Augment(t) \/ Build(t) \/ Finalize(t)
    PROVE  Types'
<1> USE DEF Shape, ShapeOfFiles, Shaped, Making, Composing, Building, Covered, Linked, Gating
<1>1. CASE Execute(t)
  <2>1. PICK m : /\ Serve(t, m) /\ DOMAIN m = Fields /\ m # Idle
                 /\ m.goal = "execute" /\ m.ok = TRUE
                 /\ m.audit \in Audit /\ ~m.audit.finalized
                 /\ Bare(m) \/ Packing(m)
                 /\ audits' \in Nat
                 /\ UNCHANGED <<runFiles, package, history>>
    BY <1>1, ExecuteMoves
  <2>2. Shaped(m, stored)
    BY <2>1, NewFields DEF Bare, Packing
  <2>3. FilesOK' /\ stored' = stored
    BY <2>1 DEF Types, FilesOK, runFiles, history
  <2> QED
    BY <2>1, <2>2, <2>3, StepTyped DEF Serve
<1>2. CASE Review(t)
  <2>1. PICK m : /\ Serve(t, m) /\ DOMAIN m = Fields /\ m # Idle
                 /\ m.goal \in {"review", "look"} /\ m.ok \in BOOLEAN
                 /\ m.review \in ReviewFile /\ m.at \in {"baseline", "decide"}
    BY <1>2, ReviewMoves
  <2>2. Quiet /\ stored \in Audit
    BY <1>2, ReviewMoves
  <2>3. Shaped(m, stored)
    BY <2>1, <2>2
  <2> QED
    BY <2>1, <2>2, <2>3, QuietTyped DEF Serve, Quiet
<1>3. CASE Build(t)
  <2>1. PICK m : /\ Serve(t, m) /\ DOMAIN m = Fields /\ m # Idle
                 /\ m.at \in {"coverage", "dossier", "gate"} /\ m.goal = m.at /\ m.ok = TRUE
    BY <1>3, BuildMoves
  <2>2. Quiet /\ stored \in Audit
    BY <1>3, BuildMoves
  <2>3. Shaped(m, stored)
    BY <2>1, <2>2
  <2> QED
    BY <2>1, <2>2, <2>3, QuietTyped DEF Serve, Quiet
<1>4. CASE Finalize(t)
  <2>1. PICK m : /\ Serve(t, m) /\ DOMAIN m = Fields /\ m # Idle
                 /\ m.at = "coverage" /\ m.goal = "finalize" /\ m.audit = stored /\ m.ok = TRUE
    BY <1>4, FinalizeMoves
  <2>2. Quiet /\ stored \in Audit
    BY <1>4, FinalizeMoves
  <2>3. Shaped(m, stored)
    BY <2>1, <2>2
  <2> QED
    BY <2>1, <2>2, <2>3, QuietTyped DEF Serve, Quiet
<1>5. CASE Augment(t)
  <2>1. PICK m : /\ Serve(t, m) /\ DOMAIN m = Fields /\ m # Idle
                 /\ m.at = "narrate" /\ m.goal = "augment" /\ m.seen = stored.n /\ m.ok = TRUE
    BY <1>5, AugmentMoves
  <2>2. Quiet /\ stored \in Audit /\ stored.n \in Nat
    BY <1>5, AugmentMoves DEF Audit
  <2>3. Shaped(m, stored)
    BY <2>1, <2>2
  <2> QED
    BY <2>1, <2>2, <2>3, QuietTyped DEF Serve, Quiet
<1> QED
  BY <1>1, <1>2, <1>3, <1>4, <1>5

LEMMA TypesStep ==
    ASSUME Types, [Next]_vars
    PROVE  Types'
<1>1. CASE Die
  <2>1. request' = [t \in Thread |-> Idle] /\ FilesOK'
    BY <1>1 DEF Die, Types, FilesOK, runFiles, history
  <2> QED
    BY <2>1, IdleShaped DEF Types
<1>2. ASSUME NEW t \in Thread,
             \/ Continue(t) \/ Execute(t) \/ Review(t) \/ Augment(t)
             \/ Build(t) \/ Finalize(t)
      PROVE  Types'
  BY <1>2, MakingTyped, StoringTyped, BuildingTyped, GatingTyped, ReleasingTyped, BeginTyped
     DEF Continue
<1>3. CASE UNCHANGED vars
  BY <1>3 DEF vars, runFiles, history, Types, FilesOK
<1> QED
  BY <1>1, <1>2, <1>3 DEF Next

LEMMA TypesInit == Init => Types
<1> SUFFICES ASSUME Init PROVE Types
  OBVIOUS
<1>1. FilesOK
  <2>1. NoFile \in Table
    BY NewFields
  <2> QED  BY <2>1 DEF Init, FilesOK, Holds
<1> QED
  BY <1>1, IdleShaped DEF Init, Types

-----------------------------------------------------------------------------
(* What a gate vouches for, however requests overlap: a clean and verified  *)
(* audit on file is releasable, and so is what was read of it.              *)

Opened(audit, rel) ==
    audit.outcome.clean /\ audit.export = "verified" => audit.n \in rel

EarnedParts(parts, appr, rel) == parts \cap rel # {} /\ appr # {}

EarnedRequest(r, appr, rel) ==
    /\ r.goal = "finalize" => Opened(r.audit, rel)
    /\ r.at \in {"baseline", "decide"} /\ r.review.approved => r.review.of \in appr
    /\ r.at \in Gating /\ r.gate.ready => r.gate.of \in rel
    /\ r.at = "gate.write" /\ r.gate.ready => appr # {}
    /\ r.at = "compose" => r.gate.of \in rel /\ appr # {}
    /\ r.goal = "finalize" /\ r.at \in Composing \cup Making \cup {"finalize"} =>
          EarnedParts(r.payload.parts, appr, rel)

EarnedFiles ==
    /\ stored \in Audit => Opened(stored, releasable)
    /\ review # None /\ review.approved => review.of \in approved
    /\ gate # None /\ gate.ready => gate.of \in releasable /\ approved # {}
    /\ finalization # None => EarnedParts(finalization.parts, approved, releasable)

Earned ==
    /\ EarnedFiles
    /\ \A t \in Thread : request[t] # Idle => EarnedRequest(request[t], approved, releasable)

\* A step of thread t keeps Earned if it leaves t and the files earned.
LEMMA EarnedStep ==
    ASSUME Types, Earned, NEW t \in Thread, NEW m, Goes(t, m),
           approved \subseteq approved', releasable \subseteq releasable', EarnedFiles',
           m # Idle => EarnedRequest(m, approved', releasable')
    PROVE  Earned'
<1>1. ASSUME NEW s \in Thread, request'[s] # Idle
      PROVE  EarnedRequest(request'[s], approved', releasable')
  <2>1. CASE s = t
    BY <1>1, <2>1 DEF Types, Goes
  <2>2. CASE s # t
    <3>1. request'[s] = request[s]
      BY <2>2 DEF Types, Goes
    <3>2. EarnedRequest(request[s], approved, releasable)
      BY <1>1, <3>1 DEF Earned
    <3>3. EarnedRequest(request[s], approved', releasable')
      BY <3>2 DEF EarnedRequest, Opened, EarnedParts
    <3> QED  BY <3>1, <3>3
  <2> QED  BY <2>1, <2>2
<1> QED  BY <1>1 DEF Earned

LEMMA EarnedQuiet ==
    ASSUME Types, Earned, NEW t \in Thread, NEW m, Goes(t, m), UNCHANGED <<runFiles, history>>,
           m # Idle => EarnedRequest(m, approved, releasable)
    PROVE  Earned'
<1>1. EarnedFiles' /\ approved' = approved /\ releasable' = releasable
  BY DEF Earned, EarnedFiles, runFiles, history
<1> QED  BY <1>1, EarnedStep

LEMMA AtStepEarned ==
    ASSUME Earned, NEW t \in Thread, NEW x, AtStep(t, x)
    PROVE  EarnedRequest(request[t], approved, releasable)
  BY DEF Earned, AtStep

LEMMA MakingEarned ==
    ASSUME Types, Earned, NEW t \in Thread,
           \/ WriteFile(t) \/ HashFile(t) \/ WriteManifest(t) \/ ReadManifest(t) \/ VerifyFile(t)
    PROVE  Earned'
<1>0. PICK r : r = request[t]
  OBVIOUS
<1>1. CASE WriteFile(t)
  <2>1. PICK m : /\ Goes(t, m) /\ Same(m, r)
                 /\ m.payload = r.payload /\ m.hashes = r.hashes /\ m.file \in File
                 /\ m.at \in {"files", "hash"}
    BY <1>0, <1>1, WriteFileMoves
  <2>2. AtStep(t, "files") /\ UNCHANGED <<runFiles, history>>
    BY <1>1, WriteFileMoves
  <2>3. EarnedRequest(m, approved, releasable)
    BY <1>0, <2>1, <2>2, AtStepEarned DEF AtStep, EarnedRequest, Same, Making, Composing, Gating
  <2> QED
    BY <2>1, <2>2, <2>3, EarnedQuiet
<1>2. CASE HashFile(t)
  <2>1. PICK m : /\ Goes(t, m) /\ Same(m, r)
                 /\ m.payload = r.payload /\ m.file \in File
                 /\ m.hashes = [r.hashes EXCEPT
                        ![r.file] = package[PackageOf(r)].files[r.file]]
                 /\ m.at \in {"hash", "manifest"}
    BY <1>0, <1>2, HashFileMoves
  <2>2. AtStep(t, "hash") /\ Quiet
    BY <1>2, HashFileMoves
  <2>3. EarnedRequest(m, approved, releasable)
    BY <1>0, <2>1, <2>2, AtStepEarned DEF AtStep, EarnedRequest, Same, Making, Composing, Gating
  <2> QED
    BY <2>1, <2>2, <2>3, EarnedQuiet DEF Quiet
<1>3. CASE WriteManifest(t)
  <2>1. PICK m : /\ Goes(t, m) /\ Same(m, r)
                 /\ m.at = "reread" /\ m.payload = r.payload /\ m.file = r.file
                 /\ m.hashes = NoFile
    BY <1>0, <1>3, WriteManifestMoves
  <2>2. AtStep(t, "manifest") /\ UNCHANGED <<runFiles, history>>
    BY <1>3, WriteManifestMoves
  <2>3. EarnedRequest(m, approved, releasable)
    BY <1>0, <2>1, <2>2, AtStepEarned DEF AtStep, EarnedRequest, Same, Making, Composing, Gating
  <2> QED
    BY <2>1, <2>2, <2>3, EarnedQuiet
<1>4. CASE ReadManifest(t)
  <2>1. PICK m : /\ Goes(t, m) /\ Same(m, r)
                 /\ m.at = "verify" /\ m.payload = r.payload /\ m.file = r.file
                 /\ m.hashes = package[PackageOf(r)].manifest
    BY <1>0, <1>4, ReadManifestMoves
  <2>2. AtStep(t, "reread") /\ Quiet
    BY <1>4, ReadManifestMoves
  <2>3. EarnedRequest(m, approved, releasable)
    BY <1>0, <2>1, <2>2, AtStepEarned DEF AtStep, EarnedRequest, Same, Making, Composing, Gating
  <2> QED
    BY <2>1, <2>2, <2>3, EarnedQuiet DEF Quiet
<1>5. CASE VerifyFile(t)
  <2>1. PICK m : /\ Goes(t, m)
                 /\ \/ m = Idle /\ ~FoundOk(r) /\ r.goal # "execute"
                    \/ /\ DOMAIN m = Fields /\ m # Idle
                       /\ m.goal = r.goal /\ m.audit = r.audit
                       /\ m.ok \in BOOLEAN /\ (m.ok <=> FoundOk(r))
                       /\ m.payload = r.payload /\ m.hashes = r.hashes
                       /\ \/ m.at = "verify" /\ m.file \in File
                          \/ m.at = "store" /\ r.goal = "execute"
                          \/ m.at = "finalize" /\ r.goal # "execute"
    BY <1>0, <1>5, VerifyFileMoves
  <2>2. AtStep(t, "verify") /\ Quiet
    BY <1>5, VerifyFileMoves
  <2>3. m # Idle => EarnedRequest(m, approved, releasable)
    BY <1>0, <2>1, <2>2, AtStepEarned DEF AtStep, EarnedRequest, Making, Composing, Gating
  <2> QED
    BY <2>1, <2>2, <2>3, EarnedQuiet DEF Quiet
<1> QED
  BY <1>1, <1>2, <1>3, <1>4, <1>5

LEMMA StoringEarned ==
    ASSUME Types, Earned, NEW t \in Thread,
           \/ StoreAudit(t) \/ ResetReview(t) \/ WriteBaseline(t) \/ WriteDecision(t)
           \/ WriteNarrative(t)
    PROVE  Earned'
<1>0. PICK r : r = request[t]
  OBVIOUS
<1>1. CASE StoreAudit(t)
  <2>1. PICK m : Goes(t, m) /\ DOMAIN m = Fields /\ m # Idle
                 /\ m.at = "reset" /\ m.goal = "execute" /\ m.ok = TRUE
    BY <1>0, <1>1, StoreAuditMoves
  <2>2. /\ releasable' = IF stored'.outcome.clean /\ stored'.export = "verified"
                         THEN releasable \cup {stored'.n} ELSE releasable
        /\ UNCHANGED <<review, gate, finalization, approved>>
    BY <1>1, StoreAuditMoves
  <2>3. releasable \subseteq releasable' /\ Opened(stored', releasable')
    BY <2>2 DEF Opened
  <2>4. EarnedFiles'
    BY <2>2, <2>3 DEF Earned, EarnedFiles, EarnedParts
  <2>5. EarnedRequest(m, approved', releasable')
    BY <2>1 DEF EarnedRequest, Making, Composing, Gating
  <2> QED
    BY <2>1, <2>2, <2>3, <2>4, <2>5, EarnedStep
<1>2. CASE ResetReview(t)
  <2>1. /\ Goes(t, Idle) /\ review' = None
        /\ UNCHANGED <<stored, gate, finalization, history>>
    BY <1>2, ResetReviewMoves
  <2>2. EarnedFiles' /\ approved' = approved /\ releasable' = releasable
    BY <2>1 DEF Earned, EarnedFiles, history
  <2> QED
    BY <2>1, <2>2, EarnedStep
<1>3. CASE WriteBaseline(t)
  <2>1. PICK m : Goes(t, m) /\ (m = Idle \/ (Same(m, r) /\ m.at = "decide"
                                             /\ m.review = r.review))
    BY <1>0, <1>3, WriteBaselineMoves
  <2>2. /\ AtStep(t, "baseline") /\ r.goal \in {"review", "look"} /\ review' = r.review
        /\ UNCHANGED <<stored, gate, finalization, history>>
    BY <1>0, <1>3, WriteBaselineMoves
  <2>3. EarnedRequest(r, approved, releasable) /\ r.at = "baseline"
    BY <1>0, <2>2, AtStepEarned DEF AtStep
  <2>4. EarnedFiles' /\ approved' = approved /\ releasable' = releasable
    BY <2>2, <2>3 DEF Earned, EarnedFiles, EarnedRequest, history
  <2>5. m # Idle => EarnedRequest(m, approved', releasable')
    BY <2>1, <2>2, <2>3, <2>4 DEF EarnedRequest, Same, Making, Composing, Gating
  <2> QED
    BY <2>1, <2>4, <2>5, EarnedStep
<1>4. CASE WriteDecision(t)
  <2>1. /\ AtStep(t, "decide") /\ Goes(t, Idle)
        /\ review'.of = r.review.of /\ review'.approved = r.ok
        /\ approved' = IF r.ok THEN approved \cup {r.review.of} ELSE approved
        /\ UNCHANGED <<stored, gate, finalization, releasable>>
    BY <1>0, <1>4, WriteDecisionMoves
  <2>2. approved \subseteq approved' /\ (review'.approved => review'.of \in approved')
    BY <2>1
  <2>3. EarnedFiles'
    BY <2>1, <2>2 DEF Earned, EarnedFiles, EarnedParts
  <2> QED
    BY <2>1, <2>2, <2>3, EarnedStep
<1>5. CASE WriteNarrative(t)
  <2>1. Goes(t, Idle) /\ UNCHANGED <<stored, review, gate, finalization, approved, releasable>>
    BY <1>0, <1>5, WriteNarrativeMoves
  <2>2. EarnedFiles'
    BY <2>1 DEF Earned, EarnedFiles
  <2> QED
    BY <2>1, <2>2, EarnedStep
<1> QED
  BY <1>1, <1>2, <1>3, <1>4, <1>5

LEMMA BuildingEarned ==
    ASSUME Types, Earned, NEW t \in Thread,
           \/ ReadForCoverage(t) \/ WriteCoverage(t)
           \/ ReadForDossier(t) \/ ReadCoverage(t) \/ WriteDossier(t)
    PROVE  Earned'
<1>0. PICK r : r = request[t]
  OBVIOUS
<1>1. SUFFICES \E m : /\ Goes(t, m) /\ UNCHANGED <<stored, review, gate, finalization, history>>
                      /\ m # Idle => EarnedRequest(m, approved, releasable)
  <2>1. PICK m : /\ Goes(t, m) /\ UNCHANGED <<stored, review, gate, finalization, history>>
                 /\ m # Idle => EarnedRequest(m, approved, releasable)
    BY <1>1
  <2>2. EarnedFiles' /\ approved' = approved /\ releasable' = releasable
    BY <2>1 DEF Earned, EarnedFiles, history
  <2> QED
    BY <2>1, <2>2, EarnedStep
<1>2. ASSUME NEW x \in Building \ (Gating \cup {"compose"}), AtStep(t, x),
             NEW m, m = Idle \/ (Same(m, r) /\ m.at \in {"matrix", "dossier", "covered", "link", "gate"})
      PROVE  m # Idle => EarnedRequest(m, approved, releasable)
  BY <1>0, <1>2, AtStepEarned DEF EarnedRequest, Same, Making, Composing, Gating
<1>3. CASE ReadForCoverage(t)
  <2>1. PICK m : Goes(t, m) /\ (m = Idle \/ (Same(m, r) /\ m.at = "matrix"
                                    /\ m.matrix \in Matrix /\ m.matrix.of = stored.n))
    BY <1>0, <1>3, ReadForCoverageMoves
  <2> QED
    BY <1>2, <1>3, <2>1, ReadForCoverageMoves DEF Quiet, runFiles, Building, Gating
<1>4. CASE WriteCoverage(t)
  <2>1. PICK m : Goes(t, m) /\ (m = Idle \/ (SameFiles(m, r) /\ m.at = "dossier"
                                             /\ m.goal = "finalize"))
    BY <1>0, <1>4, WriteCoverageMoves
  <2> QED
    BY <1>2, <1>4, <2>1, WriteCoverageMoves DEF SameFiles, Building, Gating
<1>5. CASE ReadForDossier(t)
  <2>1. PICK m : Goes(t, m) /\ SameFiles(m, r) /\ m.at = "covered" /\ m.seen = stored.n
    BY <1>0, <1>5, ReadForDossierMoves
  <2> QED
    BY <1>2, <1>5, <2>1, ReadForDossierMoves
       DEF Quiet, runFiles, SameFiles, Building, Covered, Gating
<1>6. CASE ReadCoverage(t)
  <2>1. PICK m : Goes(t, m) /\ \/ m = Idle
                               \/ /\ Same(m, r) /\ m.at = "link" /\ m.matrix = r.matrix
                                  /\ coverage \in Matrix
                                  /\ m.dossier = [of |-> r.seen, matrix |-> coverage.of]
    BY <1>0, <1>6, ReadCoverageMoves
  <2> QED
    BY <1>2, <1>6, <2>1, ReadCoverageMoves DEF Quiet, runFiles, Building, Covered, Gating
<1>7. CASE WriteDossier(t)
  <2>1. PICK m : Goes(t, m) /\ (m = Idle \/ (SameFiles(m, r) /\ m.at = "gate"
                                             /\ m.goal = "finalize"))
    BY <1>0, <1>7, WriteDossierMoves
  <2> QED
    BY <1>2, <1>7, <2>1, WriteDossierMoves DEF SameFiles, Building, Covered, Gating
<1> QED
  BY <1>3, <1>4, <1>5, <1>6, <1>7

LEMMA GatingEarned ==
    ASSUME Types, Earned, NEW t \in Thread,
           ReadForGate(t) \/ ReadMatrix(t) \/ ReadDossier(t) \/ ReadReview(t) \/ WriteGate(t)
    PROVE  Earned'
<1>0. PICK r : r = request[t]
  OBVIOUS
<1>1. CASE ReadForGate(t)
  <2>1. PICK m : /\ Goes(t, m) /\ SameFiles(m, r) /\ m.at = "gate.matrix"
                 /\ m.gate \in GateFile /\ m.gate.of = stored.n
                 /\ m.gate.ready => stored.outcome.clean /\ stored.export = "verified"
    BY <1>0, <1>1, ReadForGateMoves
  <2>2. AtStep(t, "gate") /\ Quiet /\ stored \in Audit
    BY <1>1, ReadForGateMoves
  <2>3. m.gate.ready => m.gate.of \in releasable
    BY <2>1, <2>2 DEF Earned, EarnedFiles, Opened
  <2>4. EarnedRequest(m, approved, releasable)
    BY <1>0, <2>1, <2>2, <2>3, AtStepEarned
       DEF AtStep, EarnedRequest, SameFiles, Same, Making, Composing, Gating
  <2> QED
    BY <2>1, <2>2, <2>4, EarnedQuiet DEF Quiet
<1>2. CASE ReadMatrix(t)
  <2>1. PICK m : Goes(t, m) /\ \/ m = Idle
                               \/ /\ SameFiles(m, r) /\ m.at = "gate.dossier"
                                  /\ coverage \in Matrix /\ m.gate \in GateFile
                                  /\ m.gate.of = r.gate.of /\ m.gate.matrix = coverage.of
                                  /\ m.gate.ready => r.gate.ready
    BY <1>0, <1>2, ReadMatrixMoves
  <2>2. AtStep(t, "gate.matrix") /\ Quiet
    BY <1>2, ReadMatrixMoves
  <2>3. m # Idle => EarnedRequest(m, approved, releasable)
    BY <1>0, <2>1, <2>2, AtStepEarned DEF AtStep, EarnedRequest, SameFiles, Same, Making, Composing, Gating
  <2> QED
    BY <2>1, <2>2, <2>3, EarnedQuiet DEF Quiet
<1>3. CASE ReadDossier(t)
  <2>1. PICK m : Goes(t, m) /\ \/ m = Idle
                               \/ /\ SameFiles(m, r) /\ m.at = "gate.review"
                                  /\ dossier \in Dossier /\ m.gate \in GateFile
                                  /\ m.gate.of = r.gate.of /\ m.gate.dossier = dossier.of
                                  /\ m.gate.matrix = r.gate.matrix
                                  /\ m.gate.ready = r.gate.ready
    BY <1>0, <1>3, ReadDossierMoves
  <2>2. AtStep(t, "gate.dossier") /\ Quiet
    BY <1>3, ReadDossierMoves
  <2>3. m # Idle => EarnedRequest(m, approved, releasable)
    BY <1>0, <2>1, <2>2, AtStepEarned DEF AtStep, EarnedRequest, SameFiles, Same, Making, Composing, Gating
  <2> QED
    BY <2>1, <2>2, <2>3, EarnedQuiet DEF Quiet
<1>4. CASE ReadReview(t)
  <2>1. PICK m : /\ Goes(t, m) /\ SameFiles(m, r) /\ m.at = "gate.write"
                 /\ m.gate \in GateFile
                 /\ m.gate.of = r.gate.of /\ m.gate.dossier = r.gate.dossier
                 /\ m.gate.matrix = r.gate.matrix
                 /\ m.gate.ready => r.gate.ready /\ review # None /\ review.approved
    BY <1>0, <1>4, ReadReviewMoves
  <2>2. AtStep(t, "gate.review") /\ Quiet
    BY <1>4, ReadReviewMoves
  <2>3. m.gate.ready => approved # {}
    BY <2>1 DEF Earned, EarnedFiles
  <2>4. EarnedRequest(m, approved, releasable)
    BY <1>0, <2>1, <2>2, <2>3, AtStepEarned
       DEF AtStep, EarnedRequest, SameFiles, Same, Making, Composing, Gating
  <2> QED
    BY <2>1, <2>2, <2>4, EarnedQuiet DEF Quiet
<1>5. CASE WriteGate(t)
  <2>1. PICK m : Goes(t, m) /\ (m = Idle \/ (/\ SameFiles(m, r) /\ m.at = "compose"
                                             /\ m.gate = r.gate /\ r.gate.ready
                                             /\ m.goal = "finalize"))
    BY <1>0, <1>5, WriteGateMoves
  <2>2. /\ AtStep(t, "gate.write") /\ gate' = r.gate
        /\ UNCHANGED <<stored, review, finalization, history>>
    BY <1>0, <1>5, WriteGateMoves
  <2>3. EarnedRequest(r, approved, releasable) /\ r.at = "gate.write"
    BY <1>0, <2>2, AtStepEarned DEF AtStep
  <2>4. EarnedFiles' /\ approved' = approved /\ releasable' = releasable
    BY <2>2, <2>3 DEF Earned, EarnedFiles, EarnedRequest, history, Gating
  <2>5. m # Idle => EarnedRequest(m, approved', releasable')
    BY <2>1, <2>3, <2>4 DEF EarnedRequest, SameFiles, Same, Making, Composing, Gating
  <2> QED
    BY <2>1, <2>4, <2>5, EarnedStep
<1> QED
  BY <1>1, <1>2, <1>3, <1>4, <1>5

LEMMA ReleasingEarned ==
    ASSUME Types, Earned, NEW t \in Thread,
           \/ Compose(t) \/ ReadReport(t) \/ ReadNarrative(t)
           \/ WriteFinalization(t) \/ WriteBack(t)
    PROVE  Earned'
<1>0. PICK r : r = request[t]
  OBVIOUS
<1>1. CASE Compose(t)
  <2>1. PICK m : /\ Goes(t, m) /\ Composes(m, r)
                 /\ m.payload.parts = PartsOf(r) /\ m.payload.narratives = {}
    BY <1>0, <1>1, ComposeMoves
  <2>2. AtStep(t, "compose") /\ Quiet /\ r.goal = "finalize"
    BY <1>0, <1>1, ComposeMoves
  <2>3. EarnedRequest(r, approved, releasable) /\ r.at = "compose"
    BY <1>0, <2>2, AtStepEarned DEF AtStep
  <2>4. r.gate.of \in m.payload.parts
    BY <2>1 DEF PartsOf
  <2>5. EarnedParts(m.payload.parts, approved, releasable)
    BY <2>3, <2>4 DEF EarnedParts, EarnedRequest
  <2>6. EarnedRequest(m, approved, releasable)
    BY <2>1, <2>2, <2>3, <2>5 DEF EarnedRequest, Composes, Making, Composing, Gating
  <2> QED
    BY <2>1, <2>2, <2>6, EarnedQuiet DEF Quiet
<1>2. CASE WriteFinalization(t)
  <2>1. PICK m : /\ Goes(t, m) /\ DOMAIN m = Fields /\ m # Idle
                 /\ m.at = "detail" /\ m.goal = "finalize" /\ m.audit = r.audit /\ m.ok = TRUE
    BY <1>0, <1>2, WriteFinalizationMoves
  <2>2. /\ AtStep(t, "finalize") /\ r.goal = "finalize" /\ finalization' = r.payload
        /\ UNCHANGED <<stored, review, gate, history>>
    BY <1>0, <1>2, WriteFinalizationMoves
  <2>3. EarnedRequest(r, approved, releasable) /\ r.at = "finalize"
    BY <1>0, <2>2, AtStepEarned DEF AtStep
  <2>4. EarnedFiles' /\ approved' = approved /\ releasable' = releasable
    BY <2>2, <2>3 DEF Earned, EarnedFiles, EarnedRequest, history
  <2>5. EarnedRequest(m, approved', releasable')
    BY <2>1, <2>2, <2>3, <2>4 DEF EarnedRequest, Making, Composing, Gating
  <2> QED
    BY <2>1, <2>4, <2>5, EarnedStep
<1>3. CASE WriteBack(t)
  <2>1. /\ AtStep(t, "detail") /\ r.goal = "finalize" /\ Goes(t, Idle)
        /\ stored'.n = r.audit.n /\ stored'.outcome = r.audit.outcome
        /\ stored'.export = r.audit.export
        /\ UNCHANGED <<review, gate, finalization, history>>
    BY <1>0, <1>3, WriteBackMoves
  <2>2. Opened(r.audit, releasable)
    BY <1>0, <2>1, AtStepEarned DEF EarnedRequest
  <2>3. EarnedFiles' /\ approved' = approved /\ releasable' = releasable
    BY <2>1, <2>2 DEF Earned, EarnedFiles, Opened, history
  <2> QED
    BY <2>1, <2>3, EarnedStep
<1>4. CASE ReadReport(t) \/ ReadNarrative(t)
  <2>1. PICK m : Goes(t, m) /\ Composes(m, r) /\ Adds(m, r)
    BY <1>0, <1>4, ReportMoves
  <2>2. AtStep(t, r.at) /\ Quiet /\ r.goal = "finalize" /\ r.at \in Composing
    BY <1>0, <1>4, ReportMoves
  <2>3. EarnedRequest(r, approved, releasable)
    BY <1>0, <2>2, AtStepEarned
  <2>4. EarnedParts(m.payload.parts, approved, releasable)
    BY <2>1, <2>2, <2>3 DEF Adds, EarnedParts, EarnedRequest
  <2>5. EarnedRequest(m, approved, releasable)
    BY <2>1, <2>2, <2>3, <2>4 DEF EarnedRequest, Composes, Making, Composing, Gating
  <2> QED
    BY <2>1, <2>2, <2>5, EarnedQuiet DEF Quiet
<1> QED
  BY <1>1, <1>2, <1>3, <1>4

LEMMA BeginEarned ==
    ASSUME Types, Earned, NEW t \in Thread,
           Execute(t) \/ Review(t) \/ Augment(t) \/ Build(t) \/ Finalize(t)
    PROVE  Earned'
<1>1. CASE Execute(t)
  <2>1. PICK m : /\ Serve(t, m) /\ DOMAIN m = Fields /\ m # Idle
                 /\ m.goal = "execute" /\ m.ok = TRUE
                 /\ m.audit \in Audit /\ ~m.audit.finalized
                 /\ Bare(m) \/ Packing(m)
                 /\ audits' \in Nat
                 /\ UNCHANGED <<runFiles, package, history>>
    BY <1>1, ExecuteMoves
  <2>2. EarnedRequest(m, approved, releasable)
    BY <2>1 DEF EarnedRequest, Bare, Packing, Making, Composing, Gating
  <2> QED
    BY <2>1, <2>2, EarnedQuiet DEF Serve, Goes
<1>2. CASE Review(t)
  <2>1. PICK m : /\ Serve(t, m) /\ DOMAIN m = Fields /\ m # Idle
                 /\ m.goal \in {"review", "look"} /\ m.ok \in BOOLEAN
                 /\ m.review \in ReviewFile
                 /\ \/ /\ m.at = "baseline" /\ review = None
                       /\ m.review.of = stored.n /\ ~m.review.approved
                    \/ m.at = "decide" /\ review # None /\ m.review = review
    BY <1>2, ReviewMoves
  <2>2. EarnedRequest(m, approved, releasable)
    BY <2>1 DEF EarnedRequest, Earned, EarnedFiles, Making, Composing, Gating
  <2> QED
    BY <1>2, <2>1, <2>2, ReviewMoves, EarnedQuiet DEF Serve, Quiet, Goes
<1>3. CASE Build(t)
  <2>1. PICK m : /\ Serve(t, m) /\ DOMAIN m = Fields /\ m # Idle
                 /\ m.at \in {"coverage", "dossier", "gate"} /\ m.goal = m.at /\ m.ok = TRUE
    BY <1>3, BuildMoves
  <2>2. EarnedRequest(m, approved, releasable)
    BY <2>1 DEF EarnedRequest, Making, Composing, Gating
  <2> QED
    BY <1>3, <2>1, <2>2, BuildMoves, EarnedQuiet DEF Serve, Quiet, Goes
<1>4. CASE Finalize(t)
  <2>1. PICK m : /\ Serve(t, m) /\ DOMAIN m = Fields /\ m # Idle
                 /\ m.at = "coverage" /\ m.goal = "finalize" /\ m.audit = stored /\ m.ok = TRUE
    BY <1>4, FinalizeMoves
  <2>2. Quiet /\ stored \in Audit
    BY <1>4, FinalizeMoves
  <2>3. EarnedRequest(m, approved, releasable)
    BY <2>1, <2>2 DEF EarnedRequest, Earned, EarnedFiles, Making, Composing, Gating
  <2> QED
    BY <2>1, <2>2, <2>3, EarnedQuiet DEF Serve, Quiet, Goes
<1>5. CASE Augment(t)
  <2>1. PICK m : /\ Serve(t, m) /\ DOMAIN m = Fields /\ m # Idle
                 /\ m.at = "narrate" /\ m.goal = "augment" /\ m.seen = stored.n /\ m.ok = TRUE
    BY <1>5, AugmentMoves
  <2>2. EarnedRequest(m, approved, releasable)
    BY <2>1 DEF EarnedRequest, Making, Composing, Gating
  <2> QED
    BY <1>5, <2>1, <2>2, AugmentMoves, EarnedQuiet DEF Serve, Quiet, Goes
<1> QED
  BY <1>1, <1>2, <1>3, <1>4, <1>5

LEMMA EarnedNext ==
    ASSUME Types, Earned, [Next]_vars
    PROVE  Earned'
<1>1. CASE Die
  <2>1. request' = [t \in Thread |-> Idle] /\ UNCHANGED <<runFiles, history>>
    BY <1>1 DEF Die
  <2> QED
    BY <2>1 DEF Earned, EarnedFiles, runFiles, history
<1>2. ASSUME NEW t \in Thread,
             \/ Continue(t) \/ Execute(t) \/ Review(t) \/ Augment(t)
             \/ Build(t) \/ Finalize(t)
      PROVE  Earned'
  BY <1>2, MakingEarned, StoringEarned, BuildingEarned, GatingEarned, ReleasingEarned,
     BeginEarned DEF Continue
<1>3. CASE UNCHANGED vars
  BY <1>3 DEF vars, runFiles, history, Earned, EarnedFiles
<1> QED
  BY <1>1, <1>2, <1>3 DEF Next

LEMMA EarnedInit == Init => Earned
<1> SUFFICES ASSUME Init PROVE Earned
  OBVIOUS
<1>1. stored \notin Audit
  BY NoneIsNoFile DEF Init, Audit
<1> QED
  BY <1>1 DEF Init, Earned, EarnedFiles, Opened

-----------------------------------------------------------------------------
(* While no execution overlapped, it is alone, and what a request has read   *)
(* is of the audit on file.                                                 *)

CurrentRequest(r, audit, matrixFile, dossierFile) ==
    /\ r.goal = "finalize" => r.audit.n = audit.n /\ r.audit.export = audit.export
    /\ r.at \in {"covered", "narrate"} => r.seen = audit.n
    /\ r.at = "matrix" => r.matrix.of = audit.n
    /\ r.at = "link" => r.dossier.of = audit.n
    /\ r.at \in Gating \cup {"compose"} => r.gate.of = audit.n
    /\ r.goal = "finalize" =>
          /\ r.at \in Covered => matrixFile.of = audit.n /\ r.matrix.of = audit.n
          /\ r.at \in Linked \cup {"link"} =>
                r.dossier.of = audit.n /\ r.dossier.matrix = audit.n
          /\ r.at \in Linked => dossierFile.of = audit.n
          /\ r.at \in {"gate.dossier", "gate.review", "gate.write", "compose"} =>
                r.gate.matrix = audit.n
          /\ r.at \in {"gate.review", "gate.write", "compose"} => r.gate.dossier = audit.n

Lone ==
    \A t, u \in Thread :
        t # u /\ request[t] # Idle /\ request[u] # Idle => request[t].goal # "execute"

Current ==
    ~raced =>
        /\ Lone
        /\ \A t \in Thread : request[t] # Idle /\ request[t].goal # "execute" =>
              CurrentRequest(request[t], stored, coverage, dossier)

LEMMA ContinueCounts ==
    ASSUME NEW t \in Thread, Continue(t)
    PROVE  UNCHANGED counters /\ request[t] # Idle
<1>1. request[t] # Idle
  BY DEF Continue
<1>2. (\E x, m : Step(t, x, m)) => UNCHANGED counters
  BY DEF Step
<1>3. CASE Compose(t)
  BY <1>1, <1>2, <1>3, ComposeUnfolds
<1>4. CASE ~Compose(t)
  <2>1. \E x, m : Step(t, x, m)
    BY <1>4 DEF Continue, WriteFile, HashFile, WriteManifest, ReadManifest, VerifyFile,
       StoreAudit, ResetReview, WriteBaseline, WriteDecision, WriteNarrative,
       ReadForCoverage, WriteCoverage, ReadForDossier, ReadCoverage, WriteDossier,
       ReadForGate, ReadMatrix, ReadDossier, ReadReview, WriteGate, ReadReport,
       ReadNarrative, WriteFinalization, WriteBack
  <2> QED  BY <1>1, <1>2, <2>1
<1> QED  BY <1>3, <1>4

\* A step of thread t keeps Current if t goes on with what it is doing, and
\* writes what is of the audit on file unless it is alone.
LEMMA CurrentStep ==
    ASSUME Types, Current, ~raced, raced' = raced, NEW t \in Thread, NEW m, Goes(t, m),
           request[t] # Idle, m # Idle => m.goal = request[t].goal,
           request[t].goal # "execute" =>
               /\ stored'.n = stored.n /\ stored'.export = stored.export
               /\ coverage' = coverage \/ coverage'.of = stored.n
               /\ dossier' = dossier \/ dossier'.of = stored.n
               /\ m # Idle => CurrentRequest(m, stored', coverage', dossier')
    PROVE  Current'
<1>1. /\ request'[t] = m
      /\ \A s \in Thread : s # t => request'[s] = request[s]
  BY DEF Types, Goes
<1>2. Lone'
  BY <1>1 DEF Current, Lone
<1>3. ASSUME NEW s \in Thread, request'[s] # Idle, request'[s].goal # "execute"
      PROVE  CurrentRequest(request'[s], stored', coverage', dossier')
  <2>1. CASE s = t
    BY <1>1, <1>3, <2>1
  <2>2. CASE s # t
    <3>1. request'[s] = request[s] /\ request[t].goal # "execute"
      BY <1>1, <1>3, <2>2 DEF Current, Lone
    <3>2. CurrentRequest(request[s], stored, coverage, dossier)
      BY <1>3, <3>1 DEF Current
    <3>3. CurrentRequest(request[s], stored', coverage', dossier')
      BY <3>1, <3>2 DEF CurrentRequest
    <3> QED  BY <3>1, <3>3
  <2> QED  BY <2>1, <2>2
<1> QED  BY <1>2, <1>3 DEF Current

LEMMA CurrentQuiet ==
    ASSUME Types, Current, ~raced, raced' = raced, NEW t \in Thread, NEW m, Goes(t, m),
           request[t] # Idle, m # Idle => m.goal = request[t].goal, UNCHANGED runFiles,
           m # Idle /\ m.goal # "execute" => CurrentRequest(m, stored, coverage, dossier)
    PROVE  Current'
  BY CurrentStep DEF runFiles

LEMMA AtStepCurrent ==
    ASSUME Current, ~raced, NEW t \in Thread, NEW x, AtStep(t, x), request[t].goal # "execute"
    PROVE  CurrentRequest(request[t], stored, coverage, dossier)
  BY DEF Current, AtStep

LEMMA MakingCurrent ==
    ASSUME Types, Current, ~raced, raced' = raced, NEW t \in Thread,
           \/ WriteFile(t) \/ HashFile(t) \/ WriteManifest(t) \/ ReadManifest(t) \/ VerifyFile(t)
    PROVE  Current'
<1>0. PICK r : r = request[t]
  OBVIOUS
<1>1. SUFFICES \E m : /\ Goes(t, m) /\ r # Idle /\ UNCHANGED runFiles
                      /\ m # Idle => m.goal = r.goal /\ m.audit = r.audit
                                     /\ (m.goal # "execute" => m.at \in Making \cup {"finalize"})
                      /\ AtStep(t, r.at)
  <2>1. PICK m : /\ Goes(t, m) /\ r # Idle /\ UNCHANGED runFiles
                 /\ m # Idle => m.goal = r.goal /\ m.audit = r.audit
                                /\ (m.goal # "execute" => m.at \in Making \cup {"finalize"})
                 /\ AtStep(t, r.at)
    BY <1>1
  <2>2. m # Idle /\ m.goal # "execute" => CurrentRequest(m, stored, coverage, dossier)
    BY <1>0, <2>1, AtStepCurrent DEF CurrentRequest, Making, Composing, Gating, Covered, Linked
  <2> QED
    BY <1>0, <2>1, <2>2, CurrentQuiet
<1>2. CASE WriteFile(t)
  <2>1. PICK m : /\ Goes(t, m) /\ Same(m, r)
                 /\ m.payload = r.payload /\ m.hashes = r.hashes /\ m.file \in File
                 /\ m.at \in {"files", "hash"}
    BY <1>0, <1>2, WriteFileMoves
  <2> QED
    BY <1>0, <1>2, <2>1, WriteFileMoves DEF Same, AtStep, Making, Composing
<1>3. CASE HashFile(t)
  <2>1. PICK m : /\ Goes(t, m) /\ Same(m, r)
                 /\ m.payload = r.payload /\ m.file \in File
                 /\ m.hashes = [r.hashes EXCEPT
                        ![r.file] = package[PackageOf(r)].files[r.file]]
                 /\ m.at \in {"hash", "manifest"}
    BY <1>0, <1>3, HashFileMoves
  <2> QED
    BY <1>0, <1>3, <2>1, HashFileMoves DEF Same, AtStep, Making, Composing, Quiet
<1>4. CASE WriteManifest(t)
  <2>1. PICK m : /\ Goes(t, m) /\ Same(m, r)
                 /\ m.at = "reread" /\ m.payload = r.payload /\ m.file = r.file
                 /\ m.hashes = NoFile
    BY <1>0, <1>4, WriteManifestMoves
  <2> QED
    BY <1>0, <1>4, <2>1, WriteManifestMoves DEF Same, AtStep, Making, Composing
<1>5. CASE ReadManifest(t)
  <2>1. PICK m : /\ Goes(t, m) /\ Same(m, r)
                 /\ m.at = "verify" /\ m.payload = r.payload /\ m.file = r.file
                 /\ m.hashes = package[PackageOf(r)].manifest
    BY <1>0, <1>5, ReadManifestMoves
  <2> QED
    BY <1>0, <1>5, <2>1, ReadManifestMoves DEF Same, AtStep, Making, Composing, Quiet
<1>6. CASE VerifyFile(t)
  <2>1. PICK m : /\ Goes(t, m)
                 /\ \/ m = Idle /\ ~FoundOk(r) /\ r.goal # "execute"
                    \/ /\ DOMAIN m = Fields /\ m # Idle
                       /\ m.goal = r.goal /\ m.audit = r.audit
                       /\ m.ok \in BOOLEAN /\ (m.ok <=> FoundOk(r))
                       /\ m.payload = r.payload /\ m.hashes = r.hashes
                       /\ \/ m.at = "verify" /\ m.file \in File
                          \/ m.at = "store" /\ r.goal = "execute"
                          \/ m.at = "finalize" /\ r.goal # "execute"
    BY <1>0, <1>6, VerifyFileMoves
  <2> QED
    BY <1>0, <1>6, <2>1, VerifyFileMoves DEF AtStep, Making, Composing, Quiet
<1> QED
  BY <1>2, <1>3, <1>4, <1>5, <1>6

LEMMA StoringCurrent ==
    ASSUME Types, Current, ~raced, raced' = raced, NEW t \in Thread,
           \/ StoreAudit(t) \/ ResetReview(t) \/ WriteBaseline(t) \/ WriteDecision(t)
           \/ WriteNarrative(t)
    PROVE  Current'
<1>0. PICK r : r = request[t]
  OBVIOUS
<1>1. CASE StoreAudit(t)
  <2>1. PICK m : Goes(t, m) /\ DOMAIN m = Fields /\ m # Idle
                 /\ m.at = "reset" /\ m.goal = "execute" /\ m.ok = TRUE
    BY <1>0, <1>1, StoreAuditMoves
  <2>2. request[t] # Idle /\ request[t].goal = "execute"
    BY <1>1, StoreAuditMoves DEF AtStep
  <2> QED
    BY <2>1, <2>2, CurrentStep
<1>2. CASE ResetReview(t)
  <2>1. Goes(t, Idle) /\ request[t] # Idle /\ request[t].goal = "execute"
    BY <1>2, ResetReviewMoves DEF AtStep
  <2> QED
    BY <2>1, CurrentStep
<1>3. CASE WriteBaseline(t)
  <2>1. PICK m : Goes(t, m) /\ (m = Idle \/ (Same(m, r) /\ m.at = "decide"
                                             /\ m.review = r.review))
    BY <1>0, <1>3, WriteBaselineMoves
  <2>2. /\ r # Idle /\ r.goal \in {"review", "look"}
        /\ UNCHANGED <<stored, coverage, dossier>>
    BY <1>0, <1>3, WriteBaselineMoves DEF AtStep
  <2>3. m # Idle => m.goal = r.goal /\ CurrentRequest(m, stored', coverage', dossier')
    BY <2>1, <2>2 DEF Same, CurrentRequest, Gating, Covered, Linked
  <2> QED
    BY <1>0, <2>1, <2>2, <2>3, CurrentStep
<1>4. CASE WriteDecision(t)
  <2>1. Goes(t, Idle) /\ request[t] # Idle /\ UNCHANGED <<stored, coverage, dossier>>
    BY <1>4, WriteDecisionMoves DEF AtStep
  <2> QED
    BY <2>1, CurrentStep
<1>5. CASE WriteNarrative(t)
  <2>1. Goes(t, Idle) /\ request[t] # Idle /\ UNCHANGED <<stored, coverage, dossier>>
    BY <1>5, WriteNarrativeMoves DEF AtStep
  <2> QED
    BY <2>1, CurrentStep
<1> QED
  BY <1>1, <1>2, <1>3, <1>4, <1>5

LEMMA BuildingCurrent ==
    ASSUME Types, Current, ~raced, raced' = raced, NEW t \in Thread,
           \/ ReadForCoverage(t) \/ WriteCoverage(t)
           \/ ReadForDossier(t) \/ ReadCoverage(t) \/ WriteDossier(t)
    PROVE  Current'
<1>0. PICK r : r = request[t]
  OBVIOUS
<1>1. CASE ReadForCoverage(t)
  <2>1. PICK m : Goes(t, m) /\ (m = Idle \/ (Same(m, r) /\ m.at = "matrix"
                                    /\ m.matrix \in Matrix /\ m.matrix.of = stored.n))
    BY <1>0, <1>1, ReadForCoverageMoves
  <2>2. AtStep(t, "coverage") /\ r.goal # "execute" /\ Quiet
    BY <1>0, <1>1, ReadForCoverageMoves
  <2>3. m # Idle => m.goal = r.goal /\ CurrentRequest(m, stored, coverage, dossier)
    BY <1>0, <2>1, <2>2, AtStepCurrent DEF Same, CurrentRequest, Gating, Covered, Linked
  <2> QED
    BY <1>0, <2>1, <2>2, <2>3, CurrentQuiet DEF Quiet, AtStep
<1>2. CASE WriteCoverage(t)
  <2>1. PICK m : Goes(t, m) /\ (m = Idle \/ (SameFiles(m, r) /\ m.at = "dossier"
                                             /\ m.goal = "finalize"))
    BY <1>0, <1>2, WriteCoverageMoves
  <2>2. /\ AtStep(t, "matrix") /\ r.goal # "execute" /\ coverage' = r.matrix
        /\ UNCHANGED <<stored, dossier>>
    BY <1>0, <1>2, WriteCoverageMoves
  <2>3. CurrentRequest(r, stored, coverage, dossier) /\ r.at = "matrix" /\ r # Idle
    BY <1>0, <2>2, AtStepCurrent DEF AtStep
  <2>4. coverage'.of = stored.n
    BY <2>2, <2>3 DEF CurrentRequest
  <2>5. m # Idle => m.goal = r.goal /\ CurrentRequest(m, stored', coverage', dossier')
    BY <2>1, <2>2, <2>3, <2>4 DEF SameFiles, Same, CurrentRequest, Gating, Covered, Linked
  <2> QED
    BY <1>0, <2>1, <2>2, <2>3, <2>4, <2>5, CurrentStep
<1>3. CASE ReadForDossier(t)
  <2>1. PICK m : Goes(t, m) /\ SameFiles(m, r) /\ m.at = "covered" /\ m.seen = stored.n
    BY <1>0, <1>3, ReadForDossierMoves
  <2>2. AtStep(t, "dossier") /\ r.goal # "execute" /\ Quiet
    BY <1>0, <1>3, ReadForDossierMoves
  <2>3. CurrentRequest(r, stored, coverage, dossier) /\ r.at = "dossier" /\ r # Idle
    BY <1>0, <2>2, AtStepCurrent DEF AtStep
  <2>4. m.goal = r.goal /\ CurrentRequest(m, stored, coverage, dossier)
    BY <2>1, <2>2, <2>3 DEF SameFiles, Same, CurrentRequest, Gating, Covered, Linked
  <2> QED
    BY <1>0, <2>1, <2>2, <2>3, <2>4, CurrentQuiet DEF Quiet
<1>4. CASE ReadCoverage(t)
  <2>1. PICK m : Goes(t, m) /\ \/ m = Idle
                               \/ /\ Same(m, r) /\ m.at = "link" /\ m.matrix = r.matrix
                                  /\ coverage \in Matrix
                                  /\ m.dossier = [of |-> r.seen, matrix |-> coverage.of]
    BY <1>0, <1>4, ReadCoverageMoves
  <2>2. AtStep(t, "covered") /\ r.goal # "execute" /\ Quiet
    BY <1>0, <1>4, ReadCoverageMoves
  <2>3. CurrentRequest(r, stored, coverage, dossier) /\ r.at = "covered" /\ r # Idle
    BY <1>0, <2>2, AtStepCurrent DEF AtStep
  <2>4. m # Idle => m.dossier.of = r.seen /\ m.dossier.matrix = coverage.of
    BY <2>1
  <2>5. m # Idle => m.goal = r.goal /\ CurrentRequest(m, stored, coverage, dossier)
    BY <2>1, <2>3, <2>4 DEF Same, CurrentRequest, Gating, Covered, Linked
  <2> QED
    BY <1>0, <2>1, <2>2, <2>3, <2>5, CurrentQuiet DEF Quiet
<1>5. CASE WriteDossier(t)
  <2>1. PICK m : Goes(t, m) /\ (m = Idle \/ (SameFiles(m, r) /\ m.at = "gate"
                                             /\ m.goal = "finalize"))
    BY <1>0, <1>5, WriteDossierMoves
  <2>2. /\ AtStep(t, "link") /\ r.goal # "execute" /\ dossier' = r.dossier
        /\ UNCHANGED <<stored, coverage>>
    BY <1>0, <1>5, WriteDossierMoves
  <2>3. CurrentRequest(r, stored, coverage, dossier) /\ r.at = "link" /\ r # Idle
    BY <1>0, <2>2, AtStepCurrent DEF AtStep
  <2>4. dossier'.of = stored.n
    BY <2>2, <2>3 DEF CurrentRequest
  <2>5. m # Idle => m.goal = r.goal /\ CurrentRequest(m, stored', coverage', dossier')
    BY <2>1, <2>2, <2>3, <2>4 DEF SameFiles, Same, CurrentRequest, Gating, Covered, Linked
  <2> QED
    BY <1>0, <2>1, <2>2, <2>3, <2>4, <2>5, CurrentStep
<1> QED
  BY <1>1, <1>2, <1>3, <1>4, <1>5

LEMMA GatingCurrent ==
    ASSUME Types, Current, ~raced, raced' = raced, NEW t \in Thread,
           ReadForGate(t) \/ ReadMatrix(t) \/ ReadDossier(t) \/ ReadReview(t) \/ WriteGate(t)
    PROVE  Current'
<1>0. PICK r : r = request[t]
  OBVIOUS
<1>1. CASE ReadForGate(t)
  <2>1. PICK m : /\ Goes(t, m) /\ SameFiles(m, r) /\ m.at = "gate.matrix"
                 /\ m.gate \in GateFile /\ m.gate.of = stored.n
                 /\ m.gate.ready => stored.outcome.clean /\ stored.export = "verified"
    BY <1>0, <1>1, ReadForGateMoves
  <2>2. AtStep(t, "gate") /\ r.goal # "execute" /\ Quiet
    BY <1>0, <1>1, ReadForGateMoves
  <2>3. CurrentRequest(r, stored, coverage, dossier) /\ r.at = "gate" /\ r # Idle
    BY <1>0, <2>2, AtStepCurrent DEF AtStep
  <2>4. m.goal = r.goal /\ CurrentRequest(m, stored, coverage, dossier)
    BY <2>1, <2>2, <2>3 DEF SameFiles, Same, CurrentRequest, Gating, Covered, Linked
  <2> QED
    BY <1>0, <2>1, <2>2, <2>3, <2>4, CurrentQuiet DEF Quiet
<1>2. CASE ReadMatrix(t)
  <2>1. PICK m : Goes(t, m) /\ \/ m = Idle
                               \/ /\ SameFiles(m, r) /\ m.at = "gate.dossier"
                                  /\ coverage \in Matrix /\ m.gate \in GateFile
                                  /\ m.gate.of = r.gate.of /\ m.gate.matrix = coverage.of
                                  /\ m.gate.ready => r.gate.ready
    BY <1>0, <1>2, ReadMatrixMoves
  <2>2. AtStep(t, "gate.matrix") /\ r.goal # "execute" /\ Quiet
    BY <1>0, <1>2, ReadMatrixMoves
  <2>3. CurrentRequest(r, stored, coverage, dossier) /\ r.at = "gate.matrix" /\ r # Idle
    BY <1>0, <2>2, AtStepCurrent DEF AtStep
  <2>4. m # Idle => m.goal = r.goal /\ CurrentRequest(m, stored, coverage, dossier)
    BY <2>1, <2>2, <2>3 DEF SameFiles, Same, CurrentRequest, Gating, Covered, Linked
  <2> QED
    BY <1>0, <2>1, <2>2, <2>3, <2>4, CurrentQuiet DEF Quiet
<1>3. CASE ReadDossier(t)
  <2>1. PICK m : Goes(t, m) /\ \/ m = Idle
                               \/ /\ SameFiles(m, r) /\ m.at = "gate.review"
                                  /\ dossier \in Dossier /\ m.gate \in GateFile
                                  /\ m.gate.of = r.gate.of /\ m.gate.dossier = dossier.of
                                  /\ m.gate.matrix = r.gate.matrix
                                  /\ m.gate.ready = r.gate.ready
    BY <1>0, <1>3, ReadDossierMoves
  <2>2. AtStep(t, "gate.dossier") /\ r.goal # "execute" /\ Quiet
    BY <1>0, <1>3, ReadDossierMoves
  <2>3. CurrentRequest(r, stored, coverage, dossier) /\ r.at = "gate.dossier" /\ r # Idle
    BY <1>0, <2>2, AtStepCurrent DEF AtStep
  <2>4. m # Idle => m.goal = r.goal /\ CurrentRequest(m, stored, coverage, dossier)
    BY <2>1, <2>2, <2>3 DEF SameFiles, Same, CurrentRequest, Gating, Covered, Linked
  <2> QED
    BY <1>0, <2>1, <2>2, <2>3, <2>4, CurrentQuiet DEF Quiet
<1>4. CASE ReadReview(t)
  <2>1. PICK m : /\ Goes(t, m) /\ SameFiles(m, r) /\ m.at = "gate.write"
                 /\ m.gate \in GateFile
                 /\ m.gate.of = r.gate.of /\ m.gate.dossier = r.gate.dossier
                 /\ m.gate.matrix = r.gate.matrix
                 /\ m.gate.ready => r.gate.ready /\ review # None /\ review.approved
    BY <1>0, <1>4, ReadReviewMoves
  <2>2. AtStep(t, "gate.review") /\ r.goal # "execute" /\ Quiet
    BY <1>0, <1>4, ReadReviewMoves
  <2>3. CurrentRequest(r, stored, coverage, dossier) /\ r.at = "gate.review" /\ r # Idle
    BY <1>0, <2>2, AtStepCurrent DEF AtStep
  <2>4. m.goal = r.goal /\ CurrentRequest(m, stored, coverage, dossier)
    BY <2>1, <2>2, <2>3 DEF SameFiles, Same, CurrentRequest, Gating, Covered, Linked
  <2> QED
    BY <1>0, <2>1, <2>2, <2>3, <2>4, CurrentQuiet DEF Quiet
<1>5. CASE WriteGate(t)
  <2>1. PICK m : Goes(t, m) /\ (m = Idle \/ (/\ SameFiles(m, r) /\ m.at = "compose"
                                             /\ m.gate = r.gate /\ r.gate.ready
                                             /\ m.goal = "finalize"))
    BY <1>0, <1>5, WriteGateMoves
  <2>2. /\ AtStep(t, "gate.write") /\ r.goal # "execute"
        /\ UNCHANGED <<stored, coverage, dossier>>
    BY <1>0, <1>5, WriteGateMoves
  <2>3. CurrentRequest(r, stored, coverage, dossier) /\ r.at = "gate.write" /\ r # Idle
    BY <1>0, <2>2, AtStepCurrent DEF AtStep
  <2>4. m # Idle => m.goal = r.goal /\ CurrentRequest(m, stored', coverage', dossier')
    BY <2>1, <2>2, <2>3 DEF SameFiles, Same, CurrentRequest, Gating, Covered, Linked
  <2> QED
    BY <1>0, <2>1, <2>2, <2>3, <2>4, CurrentStep
<1> QED
  BY <1>1, <1>2, <1>3, <1>4, <1>5

LEMMA ReleasingCurrent ==
    ASSUME Types, Current, ~raced, raced' = raced, NEW t \in Thread,
           \/ Compose(t) \/ ReadReport(t) \/ ReadNarrative(t)
           \/ WriteFinalization(t) \/ WriteBack(t)
    PROVE  Current'
<1>0. PICK r : r = request[t]
  OBVIOUS
<1>1. CASE Compose(t) \/ ReadReport(t) \/ ReadNarrative(t)
  <2>1. PICK m : Goes(t, m) /\ Composes(m, r)
    BY <1>0, <1>1, ComposeMoves, ReportMoves
  <2>2. AtStep(t, r.at) /\ Quiet /\ r.goal = "finalize"
    BY <1>0, <1>1, ComposeMoves, ReportMoves DEF AtStep
  <2>3. CurrentRequest(r, stored, coverage, dossier) /\ r # Idle
    BY <1>0, <2>2, AtStepCurrent DEF AtStep
  <2>4. /\ CurrentRequest(m, stored, coverage, dossier)
        /\ m.goal = "finalize"
    BY <2>1, <2>2, <2>3 DEF CurrentRequest, Composes, Composing, Gating, Covered, Linked
  <2> QED
    BY <1>0, <2>1, <2>2, <2>3, <2>4, CurrentQuiet DEF Quiet
<1>2. CASE WriteFinalization(t)
  <2>1. PICK m : /\ Goes(t, m) /\ DOMAIN m = Fields /\ m # Idle
                 /\ m.at = "detail" /\ m.goal = "finalize" /\ m.audit = r.audit /\ m.ok = TRUE
    BY <1>0, <1>2, WriteFinalizationMoves
  <2>2. /\ AtStep(t, "finalize") /\ r.goal = "finalize"
        /\ UNCHANGED <<stored, coverage, dossier>>
    BY <1>0, <1>2, WriteFinalizationMoves
  <2>3. CurrentRequest(r, stored, coverage, dossier) /\ r # Idle
    BY <1>0, <2>2, AtStepCurrent DEF AtStep
  <2>4. CurrentRequest(m, stored', coverage', dossier')
    BY <2>1, <2>2, <2>3 DEF CurrentRequest, Gating, Covered, Linked
  <2> QED
    BY <1>0, <2>1, <2>2, <2>3, <2>4, CurrentStep
<1>3. CASE WriteBack(t)
  <2>1. /\ AtStep(t, "detail") /\ r.goal = "finalize" /\ Goes(t, Idle)
        /\ stored'.n = r.audit.n /\ stored'.export = r.audit.export
        /\ UNCHANGED <<coverage, dossier>>
    BY <1>0, <1>3, WriteBackMoves
  <2>2. CurrentRequest(r, stored, coverage, dossier) /\ r # Idle
    BY <1>0, <2>1, AtStepCurrent DEF AtStep
  <2>3. stored'.n = stored.n /\ stored'.export = stored.export
    BY <2>1, <2>2 DEF CurrentRequest
  <2> QED
    BY <1>0, <2>1, <2>2, <2>3, CurrentStep
<1> QED
  BY <1>1, <1>2, <1>3

\* A request that is sent finds no execution at work, and no other request if
\* it is an execution.
LEMMA ServeCurrent ==
    ASSUME Types, Current, ~raced', NEW t \in Thread, NEW m, Serve(t, m), UNCHANGED runFiles,
           m.goal # "execute" => CurrentRequest(m, stored, coverage, dossier)
    PROVE  Current'
<1>1. /\ request'[t] = m /\ request[t] = Idle
      /\ \A s \in Thread : s # t => request'[s] = request[s]
  BY DEF Types, Serve
<1>2. /\ ~raced
      /\ \A u \in Thread : request[u] # Idle => m.goal # "execute" /\ request[u].goal # "execute"
  BY DEF Serve, Busy
<1>3. Lone'
  BY <1>1, <1>2 DEF Current, Lone
<1>4. ASSUME NEW s \in Thread, request'[s] # Idle, request'[s].goal # "execute"
      PROVE  CurrentRequest(request'[s], stored', coverage', dossier')
  <2>1. CASE s = t
    BY <1>1, <1>4, <2>1 DEF runFiles
  <2>2. CASE s # t
    <3>1. CurrentRequest(request[s], stored, coverage, dossier)
      BY <1>1, <1>2, <1>4, <2>2 DEF Current
    <3> QED  BY <1>1, <2>2, <3>1 DEF runFiles
  <2> QED  BY <2>1, <2>2
<1> QED  BY <1>3, <1>4 DEF Current

LEMMA BeginCurrent ==
    ASSUME Types, Current, ~raced', NEW t \in Thread,
           Execute(t) \/ Review(t) \/ Augment(t) \/ Build(t) \/ Finalize(t)
    PROVE  Current'
<1>1. CASE Execute(t)
  <2>1. PICK m : /\ Serve(t, m) /\ DOMAIN m = Fields /\ m # Idle
                 /\ m.goal = "execute" /\ m.ok = TRUE
                 /\ m.audit \in Audit /\ ~m.audit.finalized
                 /\ Bare(m) \/ Packing(m)
                 /\ audits' \in Nat
                 /\ UNCHANGED <<runFiles, package, history>>
    BY <1>1, ExecuteMoves
  <2> QED
    BY <2>1, ServeCurrent
<1>2. CASE Review(t)
  <2>1. PICK m : /\ Serve(t, m) /\ DOMAIN m = Fields /\ m # Idle
                 /\ m.goal \in {"review", "look"} /\ m.ok \in BOOLEAN
                 /\ m.review \in ReviewFile
                 /\ \/ /\ m.at = "baseline" /\ review = None
                       /\ m.review.of = stored.n /\ ~m.review.approved
                    \/ m.at = "decide" /\ review # None /\ m.review = review
    BY <1>2, ReviewMoves
  <2>2. CurrentRequest(m, stored, coverage, dossier)
    BY <2>1 DEF CurrentRequest, Gating, Covered, Linked
  <2> QED
    BY <1>2, <2>1, <2>2, ReviewMoves, ServeCurrent DEF Quiet
<1>3. CASE Build(t)
  <2>1. PICK m : /\ Serve(t, m) /\ DOMAIN m = Fields /\ m # Idle
                 /\ m.at \in {"coverage", "dossier", "gate"} /\ m.goal = m.at /\ m.ok = TRUE
    BY <1>3, BuildMoves
  <2>2. CurrentRequest(m, stored, coverage, dossier)
    BY <2>1 DEF CurrentRequest, Gating, Covered, Linked
  <2> QED
    BY <1>3, <2>1, <2>2, BuildMoves, ServeCurrent DEF Quiet
<1>4. CASE Finalize(t)
  <2>1. PICK m : /\ Serve(t, m) /\ DOMAIN m = Fields /\ m # Idle
                 /\ m.at = "coverage" /\ m.goal = "finalize" /\ m.audit = stored /\ m.ok = TRUE
    BY <1>4, FinalizeMoves
  <2>2. CurrentRequest(m, stored, coverage, dossier)
    BY <2>1 DEF CurrentRequest, Gating, Covered, Linked
  <2> QED
    BY <1>4, <2>1, <2>2, FinalizeMoves, ServeCurrent DEF Quiet
<1>5. CASE Augment(t)
  <2>1. PICK m : /\ Serve(t, m) /\ DOMAIN m = Fields /\ m # Idle
                 /\ m.at = "narrate" /\ m.goal = "augment" /\ m.seen = stored.n /\ m.ok = TRUE
    BY <1>5, AugmentMoves
  <2>2. CurrentRequest(m, stored, coverage, dossier)
    BY <2>1 DEF CurrentRequest, Gating, Covered, Linked
  <2> QED
    BY <1>5, <2>1, <2>2, AugmentMoves, ServeCurrent DEF Quiet
<1> QED
  BY <1>1, <1>2, <1>3, <1>4, <1>5

LEMMA CurrentNext ==
    ASSUME Types, Current, [Next]_vars
    PROVE  Current'
<1> SUFFICES ASSUME ~raced' PROVE Current'
  BY DEF Current
<1>1. CASE Die
  BY <1>1 DEF Die, Current, Lone
<1>2. ASSUME NEW t \in Thread, Continue(t) PROVE Current'
  <2>1. raced' = raced
    BY <1>2, ContinueCounts DEF counters
  <2> QED
    BY <1>2, <2>1, MakingCurrent, StoringCurrent, BuildingCurrent, GatingCurrent,
       ReleasingCurrent DEF Continue
<1>3. ASSUME NEW t \in Thread,
             Execute(t) \/ Review(t) \/ Augment(t) \/ Build(t) \/ Finalize(t)
      PROVE  Current'
  BY <1>3, BeginCurrent
<1>4. CASE UNCHANGED vars
  BY <1>4 DEF vars, runFiles, counters, Current, Lone
<1> QED
  BY <1>1, <1>2, <1>3, <1>4 DEF Next

LEMMA CurrentInit == Init => Current
  BY DEF Init, Current, Lone

-----------------------------------------------------------------------------
(* While executions take turns, a review on file is of the audit on file but *)
(* for the moment before it is reset, so that an approval counts for no      *)
(* other audit.                                                             *)

OneOf(payload, appr) == payload.audit \in appr /\ payload.parts = {payload.audit}

TurnedRequest(r, n, appr) ==
    /\ r.at \in {"baseline", "decide"} => r.review.of = n
    /\ r.at = "gate.write" /\ r.gate.ready => r.gate.of \in appr
    /\ r.at = "compose" => r.gate.of \in appr
    /\ r.goal = "finalize" /\ r.at \in Composing \cup Making \cup {"finalize"} =>
          OneOf(r.payload, appr)

ReviewFits ==
    review # None =>
        \/ review.of = stored.n
        \/ \E t \in Thread : request[t] # Idle /\ request[t].at = "reset"

GateFits == gate # None /\ gate.ready => gate.of \in approved

ReleaseFits == finalization # None => OneOf(finalization, approved)

Turned ==
    TurnsTaken =>
        /\ ReviewFits /\ GateFits /\ ReleaseFits
        /\ \A t \in Thread : request[t] # Idle => TurnedRequest(request[t], stored.n, approved)

\* No review is about to be reset while a thread is at another step.
LEMMA ReviewIsOfStored ==
    ASSUME Types, Current, Turned, TurnsTaken, NEW t \in Thread, request[t] # Idle,
           request[t].at # "reset", review # None
    PROVE  review.of = stored.n
<1>1. ASSUME NEW u \in Thread, request[u] # Idle, request[u].at = "reset"
      PROVE  FALSE
  <2>1. request[u].goal = "execute"
    BY <1>1 DEF Types, Shaped, Shape, Making, Composing, Building, Covered, Linked, Gating
  <2>2. u # t
    BY <1>1
  <2> QED
    BY <1>1, <2>1, <2>2 DEF Current, Lone, TurnsTaken
<1> QED  BY <1>1 DEF Turned, ReviewFits

LEMMA TurnedStep ==
    ASSUME Types, Current, Turned, TurnsTaken, NEW t \in Thread, NEW m, Goes(t, m),
           request[t] # Idle, request[t].goal # "execute" => stored'.n = stored.n,
           approved \subseteq approved',
           review' # None => review'.of = stored'.n \/ (m # Idle /\ m.at = "reset"),
           GateFits', ReleaseFits',
           m # Idle => TurnedRequest(m, stored'.n, approved')
    PROVE  Turned'
<1>1. /\ request'[t] = m
      /\ \A s \in Thread : s # t => request'[s] = request[s]
  BY DEF Types, Goes
<1>2. ReviewFits'
  BY <1>1 DEF ReviewFits
<1>3. ASSUME NEW s \in Thread, request'[s] # Idle
      PROVE  TurnedRequest(request'[s], stored'.n, approved')
  <2>1. CASE s = t
    BY <1>1, <1>3, <2>1
  <2>2. CASE s # t
    <3>1. request'[s] = request[s]
      BY <1>1, <2>2
    <3>2. stored'.n = stored.n
      BY <1>3, <2>2, <3>1 DEF Current, Lone, TurnsTaken
    <3>3. TurnedRequest(request[s], stored.n, approved)
      BY <1>3, <3>1 DEF Turned
    <3>4. TurnedRequest(request[s], stored'.n, approved')
      BY <3>2, <3>3 DEF TurnedRequest, OneOf
    <3> QED  BY <3>1, <3>4
  <2> QED  BY <2>1, <2>2
<1> QED  BY <1>2, <1>3 DEF Turned

\* ... a step that writes none of the files that matter.
LEMMA TurnedQuiet ==
    ASSUME Types, Current, Turned, TurnsTaken, NEW t \in Thread, NEW m, Goes(t, m),
           request[t] # Idle, request[t].at # "reset",
           UNCHANGED <<stored, review, gate, finalization, history>>,
           m # Idle => TurnedRequest(m, stored.n, approved)
    PROVE  Turned'
<1>1. GateFits' /\ ReleaseFits' /\ approved' = approved
  BY DEF Turned, GateFits, ReleaseFits, history
<1>2. review' # None => review'.of = stored'.n
  BY ReviewIsOfStored
<1> QED  BY <1>1, <1>2, TurnedStep

LEMMA AtStepTurned ==
    ASSUME Turned, TurnsTaken, NEW t \in Thread, NEW x, AtStep(t, x)
    PROVE  /\ TurnedRequest(request[t], stored.n, approved)
           /\ request[t].at = x /\ request[t] # Idle
  BY DEF Turned, AtStep

LEMMA MakingTurned ==
    ASSUME Types, Current, Turned, TurnsTaken, NEW t \in Thread,
           \/ WriteFile(t) \/ HashFile(t) \/ WriteManifest(t) \/ ReadManifest(t) \/ VerifyFile(t)
    PROVE  Turned'
<1>0. PICK r : r = request[t]
  OBVIOUS
<1>1. SUFFICES \E m : /\ Goes(t, m) /\ UNCHANGED <<runFiles, history>>
                      /\ m # Idle => /\ m.goal = r.goal /\ m.payload = r.payload
                                     /\ m.at \in Making \cup {"finalize", "store"}
                      /\ AtStep(t, r.at) /\ r.at \in Making
  <2>1. PICK m : /\ Goes(t, m) /\ UNCHANGED <<runFiles, history>>
                 /\ m # Idle => /\ m.goal = r.goal /\ m.payload = r.payload
                                /\ m.at \in Making \cup {"finalize", "store"}
                 /\ AtStep(t, r.at) /\ r.at \in Making
    BY <1>1
  <2>2. m # Idle => TurnedRequest(m, stored.n, approved)
    BY <1>0, <2>1, AtStepTurned DEF TurnedRequest, Making, Composing
  <2>3. r.at # "reset" /\ r # Idle
    BY <1>0, <2>1 DEF Making, Composing, AtStep
  <2>4. UNCHANGED <<stored, review, gate, finalization, history>>
    BY <2>1 DEF runFiles
  <2> QED
    BY <1>0, <2>1, <2>2, <2>3, <2>4, TurnedQuiet
<1>2. CASE WriteFile(t)
  <2>1. PICK m : /\ Goes(t, m) /\ Same(m, r)
                 /\ m.payload = r.payload /\ m.hashes = r.hashes /\ m.file \in File
                 /\ m.at \in {"files", "hash"}
    BY <1>0, <1>2, WriteFileMoves
  <2> QED
    BY <1>0, <1>2, <2>1, WriteFileMoves DEF Same, AtStep, Making, Composing
<1>3. CASE HashFile(t)
  <2>1. PICK m : /\ Goes(t, m) /\ Same(m, r)
                 /\ m.payload = r.payload /\ m.file \in File
                 /\ m.hashes = [r.hashes EXCEPT
                        ![r.file] = package[PackageOf(r)].files[r.file]]
                 /\ m.at \in {"hash", "manifest"}
    BY <1>0, <1>3, HashFileMoves
  <2> QED
    BY <1>0, <1>3, <2>1, HashFileMoves DEF Same, AtStep, Making, Composing, Quiet
<1>4. CASE WriteManifest(t)
  <2>1. PICK m : /\ Goes(t, m) /\ Same(m, r)
                 /\ m.at = "reread" /\ m.payload = r.payload /\ m.file = r.file
                 /\ m.hashes = NoFile
    BY <1>0, <1>4, WriteManifestMoves
  <2> QED
    BY <1>0, <1>4, <2>1, WriteManifestMoves DEF Same, AtStep, Making, Composing
<1>5. CASE ReadManifest(t)
  <2>1. PICK m : /\ Goes(t, m) /\ Same(m, r)
                 /\ m.at = "verify" /\ m.payload = r.payload /\ m.file = r.file
                 /\ m.hashes = package[PackageOf(r)].manifest
    BY <1>0, <1>5, ReadManifestMoves
  <2> QED
    BY <1>0, <1>5, <2>1, ReadManifestMoves DEF Same, AtStep, Making, Composing, Quiet
<1>6. CASE VerifyFile(t)
  <2>1. PICK m : /\ Goes(t, m)
                 /\ \/ m = Idle /\ ~FoundOk(r) /\ r.goal # "execute"
                    \/ /\ DOMAIN m = Fields /\ m # Idle
                       /\ m.goal = r.goal /\ m.audit = r.audit
                       /\ m.ok \in BOOLEAN /\ (m.ok <=> FoundOk(r))
                       /\ m.payload = r.payload /\ m.hashes = r.hashes
                       /\ \/ m.at = "verify" /\ m.file \in File
                          \/ m.at = "store" /\ r.goal = "execute"
                          \/ m.at = "finalize" /\ r.goal # "execute"
    BY <1>0, <1>6, VerifyFileMoves
  <2> QED
    BY <1>0, <1>6, <2>1, VerifyFileMoves DEF AtStep, Making, Composing, Quiet
<1> QED
  BY <1>2, <1>3, <1>4, <1>5, <1>6

LEMMA StoringTurned ==
    ASSUME Types, Current, Turned, TurnsTaken, NEW t \in Thread,
           \/ StoreAudit(t) \/ ResetReview(t) \/ WriteBaseline(t) \/ WriteDecision(t)
           \/ WriteNarrative(t)
    PROVE  Turned'
<1>0. PICK r : r = request[t]
  OBVIOUS
<1>1. CASE StoreAudit(t)
  <2>1. PICK m : Goes(t, m) /\ DOMAIN m = Fields /\ m # Idle
                 /\ m.at = "reset" /\ m.goal = "execute" /\ m.ok = TRUE
    BY <1>0, <1>1, StoreAuditMoves
  <2>2. /\ request[t] # Idle /\ request[t].goal = "execute"
        /\ UNCHANGED <<gate, finalization, approved>>
    BY <1>1, StoreAuditMoves DEF AtStep
  <2>3. GateFits' /\ ReleaseFits'
    BY <2>2 DEF Turned, GateFits, ReleaseFits
  <2>4. TurnedRequest(m, stored'.n, approved')
    BY <2>1 DEF TurnedRequest
  <2> QED
    BY <2>1, <2>2, <2>3, <2>4, TurnedStep
<1>2. CASE ResetReview(t)
  <2>1. /\ Goes(t, Idle) /\ request[t] # Idle /\ request[t].goal = "execute" /\ review' = None
        /\ UNCHANGED <<gate, finalization, history>>
    BY <1>2, ResetReviewMoves DEF AtStep
  <2>2. GateFits' /\ ReleaseFits' /\ approved' = approved
    BY <2>1 DEF Turned, GateFits, ReleaseFits, history
  <2> QED
    BY <2>1, <2>2, TurnedStep
<1>3. CASE WriteBaseline(t)
  <2>1. PICK m : Goes(t, m) /\ (m = Idle \/ (Same(m, r) /\ m.at = "decide"
                                             /\ m.review = r.review))
    BY <1>0, <1>3, WriteBaselineMoves
  <2>2. /\ AtStep(t, "baseline") /\ review' = r.review
        /\ UNCHANGED <<stored, gate, finalization, history>>
        /\ r.goal \in {"review", "look"}
    BY <1>0, <1>3, WriteBaselineMoves
  <2>3. TurnedRequest(r, stored.n, approved) /\ r.at = "baseline" /\ r # Idle
    BY <1>0, <2>2, AtStepTurned
  <2>4. GateFits' /\ ReleaseFits' /\ approved' = approved
    BY <2>2 DEF Turned, GateFits, ReleaseFits, history
  <2>5. review'.of = stored'.n
    BY <2>2, <2>3 DEF TurnedRequest
  <2>6. m # Idle => TurnedRequest(m, stored'.n, approved')
    BY <2>1, <2>2, <2>3, <2>4 DEF TurnedRequest, Same
  <2> QED
    BY <1>0, <2>1, <2>2, <2>3, <2>4, <2>5, <2>6, TurnedStep
<1>4. CASE WriteDecision(t)
  <2>1. /\ AtStep(t, "decide") /\ Goes(t, Idle) /\ review'.of = r.review.of
        /\ approved' = IF r.ok THEN approved \cup {r.review.of} ELSE approved
        /\ UNCHANGED <<stored, gate, finalization>>
    BY <1>0, <1>4, WriteDecisionMoves
  <2>2. TurnedRequest(r, stored.n, approved) /\ r.at = "decide" /\ r # Idle
    BY <1>0, <2>1, AtStepTurned
  <2>3. approved \subseteq approved'
    BY <2>1
  <2>4. GateFits' /\ ReleaseFits'
    BY <2>1, <2>3 DEF Turned, GateFits, ReleaseFits, OneOf
  <2>5. review'.of = stored'.n
    BY <2>1, <2>2 DEF TurnedRequest
  <2> QED
    BY <1>0, <2>1, <2>2, <2>3, <2>4, <2>5, TurnedStep
<1>5. CASE WriteNarrative(t)
  <2>1. /\ AtStep(t, "narrate") /\ Goes(t, Idle) /\ r.goal = "augment"
        /\ UNCHANGED <<stored, review, gate, finalization, approved>>
    BY <1>0, <1>5, WriteNarrativeMoves
  <2>2. r # Idle /\ r.at = "narrate"
    BY <1>0, <2>1 DEF AtStep
  <2>3. GateFits' /\ ReleaseFits'
    BY <2>1 DEF Turned, GateFits, ReleaseFits
  <2>4. review' # None => review'.of = stored'.n
    BY <1>0, <2>1, <2>2, ReviewIsOfStored
  <2> QED
    BY <1>0, <2>1, <2>2, <2>3, <2>4, TurnedStep
<1> QED
  BY <1>1, <1>2, <1>3, <1>4, <1>5

LEMMA BuildingTurned ==
    ASSUME Types, Current, Turned, TurnsTaken, NEW t \in Thread,
           \/ ReadForCoverage(t) \/ WriteCoverage(t)
           \/ ReadForDossier(t) \/ ReadCoverage(t) \/ WriteDossier(t)
    PROVE  Turned'
<1>0. PICK r : r = request[t]
  OBVIOUS
<1>1. SUFFICES \E m : /\ Goes(t, m) /\ UNCHANGED <<stored, review, gate, finalization, history>>
                      /\ r # Idle /\ r.at # "reset"
                      /\ m # Idle => m.at \in {"matrix", "dossier", "covered", "link", "gate"}
  <2>1. PICK m : /\ Goes(t, m) /\ UNCHANGED <<stored, review, gate, finalization, history>>
                 /\ r # Idle /\ r.at # "reset"
                 /\ m # Idle => m.at \in {"matrix", "dossier", "covered", "link", "gate"}
    BY <1>1
  <2>2. m # Idle => TurnedRequest(m, stored.n, approved)
    BY <2>1 DEF TurnedRequest, Making, Composing
  <2> QED
    BY <1>0, <2>1, <2>2, TurnedQuiet
<1>2. CASE ReadForCoverage(t)
  <2>1. PICK m : Goes(t, m) /\ (m = Idle \/ (Same(m, r) /\ m.at = "matrix"
                                    /\ m.matrix \in Matrix /\ m.matrix.of = stored.n))
    BY <1>0, <1>2, ReadForCoverageMoves
  <2> QED
    BY <1>0, <1>2, <2>1, ReadForCoverageMoves DEF Quiet, runFiles, AtStep
<1>3. CASE WriteCoverage(t)
  <2>1. PICK m : Goes(t, m) /\ (m = Idle \/ (SameFiles(m, r) /\ m.at = "dossier"
                                             /\ m.goal = "finalize"))
    BY <1>0, <1>3, WriteCoverageMoves
  <2> QED
    BY <1>0, <1>3, <2>1, WriteCoverageMoves DEF AtStep
<1>4. CASE ReadForDossier(t)
  <2>1. PICK m : Goes(t, m) /\ SameFiles(m, r) /\ m.at = "covered" /\ m.seen = stored.n
    BY <1>0, <1>4, ReadForDossierMoves
  <2> QED
    BY <1>0, <1>4, <2>1, ReadForDossierMoves DEF Quiet, runFiles, AtStep
<1>5. CASE ReadCoverage(t)
  <2>1. PICK m : Goes(t, m) /\ \/ m = Idle
                               \/ /\ Same(m, r) /\ m.at = "link" /\ m.matrix = r.matrix
                                  /\ coverage \in Matrix
                                  /\ m.dossier = [of |-> r.seen, matrix |-> coverage.of]
    BY <1>0, <1>5, ReadCoverageMoves
  <2> QED
    BY <1>0, <1>5, <2>1, ReadCoverageMoves DEF Quiet, runFiles, AtStep
<1>6. CASE WriteDossier(t)
  <2>1. PICK m : Goes(t, m) /\ (m = Idle \/ (SameFiles(m, r) /\ m.at = "gate"
                                             /\ m.goal = "finalize"))
    BY <1>0, <1>6, WriteDossierMoves
  <2> QED
    BY <1>0, <1>6, <2>1, WriteDossierMoves DEF AtStep
<1> QED
  BY <1>2, <1>3, <1>4, <1>5, <1>6

LEMMA GatingTurned ==
    ASSUME Types, Earned, Current, Turned, TurnsTaken, NEW t \in Thread,
           ReadForGate(t) \/ ReadMatrix(t) \/ ReadDossier(t) \/ ReadReview(t) \/ WriteGate(t)
    PROVE  Turned'
<1>0. PICK r : r = request[t]
  OBVIOUS
<1>1. CASE ReadForGate(t)
  <2>1. PICK m : /\ Goes(t, m) /\ SameFiles(m, r) /\ m.at = "gate.matrix"
                 /\ m.gate \in GateFile /\ m.gate.of = stored.n
                 /\ m.gate.ready => stored.outcome.clean /\ stored.export = "verified"
    BY <1>0, <1>1, ReadForGateMoves
  <2>2. r # Idle /\ r.at = "gate" /\ Quiet
    BY <1>0, <1>1, ReadForGateMoves DEF AtStep
  <2>3. TurnedRequest(m, stored.n, approved)
    BY <2>1 DEF TurnedRequest, Making, Composing
  <2> QED
    BY <1>0, <2>1, <2>2, <2>3, TurnedQuiet DEF Quiet, runFiles
<1>2. CASE ReadMatrix(t)
  <2>1. PICK m : Goes(t, m) /\ \/ m = Idle
                               \/ /\ SameFiles(m, r) /\ m.at = "gate.dossier"
                                  /\ coverage \in Matrix /\ m.gate \in GateFile
                                  /\ m.gate.of = r.gate.of /\ m.gate.matrix = coverage.of
                                  /\ m.gate.ready => r.gate.ready
    BY <1>0, <1>2, ReadMatrixMoves
  <2>2. r # Idle /\ r.at = "gate.matrix" /\ Quiet
    BY <1>0, <1>2, ReadMatrixMoves DEF AtStep
  <2>3. m # Idle => TurnedRequest(m, stored.n, approved)
    BY <2>1 DEF TurnedRequest, Making, Composing
  <2> QED
    BY <1>0, <2>1, <2>2, <2>3, TurnedQuiet DEF Quiet, runFiles
<1>3. CASE ReadDossier(t)
  <2>1. PICK m : Goes(t, m) /\ \/ m = Idle
                               \/ /\ SameFiles(m, r) /\ m.at = "gate.review"
                                  /\ dossier \in Dossier /\ m.gate \in GateFile
                                  /\ m.gate.of = r.gate.of /\ m.gate.dossier = dossier.of
                                  /\ m.gate.matrix = r.gate.matrix
                                  /\ m.gate.ready = r.gate.ready
    BY <1>0, <1>3, ReadDossierMoves
  <2>2. r # Idle /\ r.at = "gate.dossier" /\ Quiet
    BY <1>0, <1>3, ReadDossierMoves DEF AtStep
  <2>3. m # Idle => TurnedRequest(m, stored.n, approved)
    BY <2>1 DEF TurnedRequest, Making, Composing
  <2> QED
    BY <1>0, <2>1, <2>2, <2>3, TurnedQuiet DEF Quiet, runFiles
<1>4. CASE ReadReview(t)
  <2>1. PICK m : /\ Goes(t, m) /\ SameFiles(m, r) /\ m.at = "gate.write"
                 /\ m.gate \in GateFile
                 /\ m.gate.of = r.gate.of /\ m.gate.dossier = r.gate.dossier
                 /\ m.gate.matrix = r.gate.matrix
                 /\ m.gate.ready => r.gate.ready /\ review # None /\ review.approved
    BY <1>0, <1>4, ReadReviewMoves
  <2>2. AtStep(t, "gate.review") /\ r.goal # "execute" /\ Quiet
    BY <1>0, <1>4, ReadReviewMoves
  <2>3. r # Idle /\ r.at = "gate.review" /\ CurrentRequest(r, stored, coverage, dossier)
    BY <1>0, <2>2, AtStepCurrent DEF AtStep, TurnsTaken
  <2>4. m.gate.of = stored.n
    BY <2>1, <2>3 DEF CurrentRequest, Gating
  <2>5. review # None => review.of = stored.n
    BY <1>0, <2>3, ReviewIsOfStored
  <2>6. m.gate.ready => m.gate.of \in approved
    BY <2>1, <2>4, <2>5 DEF Earned, EarnedFiles
  <2>7. TurnedRequest(m, stored.n, approved)
    BY <2>1, <2>6 DEF TurnedRequest, Making, Composing
  <2> QED
    BY <1>0, <2>1, <2>2, <2>3, <2>7, TurnedQuiet DEF Quiet, runFiles
<1>5. CASE WriteGate(t)
  <2>1. PICK m : Goes(t, m) /\ (m = Idle \/ (/\ SameFiles(m, r) /\ m.at = "compose"
                                             /\ m.gate = r.gate /\ r.gate.ready
                                             /\ m.goal = "finalize"))
    BY <1>0, <1>5, WriteGateMoves
  <2>2. /\ AtStep(t, "gate.write") /\ gate' = r.gate
        /\ UNCHANGED <<stored, review, finalization, history>>
    BY <1>0, <1>5, WriteGateMoves
  <2>3. TurnedRequest(r, stored.n, approved) /\ r.at = "gate.write" /\ r # Idle
    BY <1>0, <2>2, AtStepTurned
  <2>4. approved' = approved /\ stored'.n = stored.n
    BY <2>2 DEF history
  <2>5. GateFits' /\ ReleaseFits'
    BY <2>2, <2>3, <2>4 DEF Turned, GateFits, ReleaseFits, TurnedRequest
  <2>6. review' # None => review'.of = stored'.n
    BY <1>0, <2>2, <2>3, ReviewIsOfStored
  <2>7. m # Idle => TurnedRequest(m, stored'.n, approved')
    BY <2>1, <2>3, <2>4 DEF TurnedRequest, Making, Composing
  <2> QED
    BY <1>0, <2>1, <2>3, <2>4, <2>5, <2>6, <2>7, TurnedStep
<1> QED
  BY <1>1, <1>2, <1>3, <1>4, <1>5

LEMMA ReleasingTurned ==
    ASSUME Types, Current, Turned, TurnsTaken, NEW t \in Thread,
           \/ Compose(t) \/ ReadReport(t) \/ ReadNarrative(t)
           \/ WriteFinalization(t) \/ WriteBack(t)
    PROVE  Turned'
<1>0. PICK r : r = request[t]
  OBVIOUS
<1>1. CASE Compose(t)
  <2>1. PICK m : /\ Goes(t, m) /\ Composes(m, r)
                 /\ m.payload.parts = PartsOf(r) /\ m.payload.narratives = {}
    BY <1>0, <1>1, ComposeMoves
  <2>2. AtStep(t, "compose") /\ Quiet /\ r.goal = "finalize"
    BY <1>0, <1>1, ComposeMoves
  <2>3. TurnedRequest(r, stored.n, approved) /\ r.at = "compose" /\ r # Idle
    BY <1>0, <2>2, AtStepTurned
  <2>4. CurrentRequest(r, stored, coverage, dossier)
    BY <1>0, <2>2, AtStepCurrent DEF TurnsTaken
  <2>5. /\ r.audit.n = stored.n /\ r.matrix.of = stored.n
        /\ r.dossier.of = stored.n /\ r.dossier.matrix = stored.n
        /\ r.gate.of = stored.n /\ r.gate.matrix = stored.n /\ r.gate.dossier = stored.n
    BY <2>2, <2>3, <2>4 DEF CurrentRequest, Gating, Covered, Linked
  <2>6. PartsOf(r) = {stored.n}
    BY <2>5 DEF PartsOf
  <2>7. OneOf(m.payload, approved)
    BY <2>1, <2>3, <2>5, <2>6 DEF OneOf, TurnedRequest, Composes
  <2>8. TurnedRequest(m, stored.n, approved)
    BY <2>1, <2>7 DEF TurnedRequest, Composes, Composing
  <2> QED
    BY <1>0, <2>1, <2>2, <2>3, <2>8, TurnedQuiet DEF Quiet, runFiles
<1>2. CASE WriteFinalization(t)
  <2>1. PICK m : /\ Goes(t, m) /\ DOMAIN m = Fields /\ m # Idle
                 /\ m.at = "detail" /\ m.goal = "finalize" /\ m.audit = r.audit /\ m.ok = TRUE
    BY <1>0, <1>2, WriteFinalizationMoves
  <2>2. /\ AtStep(t, "finalize") /\ r.goal = "finalize" /\ finalization' = r.payload
        /\ UNCHANGED <<stored, review, gate, history>>
    BY <1>0, <1>2, WriteFinalizationMoves
  <2>3. TurnedRequest(r, stored.n, approved) /\ r.at = "finalize" /\ r # Idle
    BY <1>0, <2>2, AtStepTurned
  <2>4. approved' = approved /\ stored'.n = stored.n
    BY <2>2 DEF history
  <2>5. GateFits' /\ ReleaseFits'
    BY <2>2, <2>3, <2>4 DEF Turned, GateFits, ReleaseFits, TurnedRequest
  <2>6. review' # None => review'.of = stored'.n
    BY <1>0, <2>2, <2>3, ReviewIsOfStored
  <2>7. TurnedRequest(m, stored'.n, approved')
    BY <2>1 DEF TurnedRequest, Making, Composing
  <2> QED
    BY <1>0, <2>1, <2>3, <2>4, <2>5, <2>6, <2>7, TurnedStep
<1>3. CASE WriteBack(t)
  <2>1. /\ AtStep(t, "detail") /\ r.goal = "finalize" /\ Goes(t, Idle)
        /\ stored'.n = r.audit.n
        /\ UNCHANGED <<review, gate, finalization, history>>
    BY <1>0, <1>3, WriteBackMoves
  <2>2. r # Idle /\ r.at = "detail"
    BY <1>0, <2>1 DEF AtStep
  <2>3. stored'.n = stored.n
    BY <1>0, <2>1, AtStepCurrent DEF CurrentRequest, TurnsTaken
  <2>4. GateFits' /\ ReleaseFits' /\ approved' = approved
    BY <2>1 DEF Turned, GateFits, ReleaseFits, history
  <2>5. review' # None => review'.of = stored'.n
    BY <1>0, <2>1, <2>2, <2>3, ReviewIsOfStored
  <2> QED
    BY <1>0, <2>1, <2>2, <2>3, <2>4, <2>5, TurnedStep
<1>4. CASE ReadReport(t) \/ ReadNarrative(t)
  <2>1. PICK m : Goes(t, m) /\ Composes(m, r) /\ Adds(m, r)
    BY <1>0, <1>4, ReportMoves
  <2>2. /\ AtStep(t, r.at) /\ Quiet /\ r.goal = "finalize" /\ r.at \in Composing
        /\ r.payload.audit = r.audit.n
    BY <1>0, <1>4, ReportMoves
  <2>3. TurnedRequest(r, stored.n, approved) /\ r # Idle /\ r.at # "reset"
    BY <1>0, <2>2, AtStepTurned DEF Composing
  <2>4. r.audit.n = stored.n
    BY <1>0, <2>2, AtStepCurrent DEF TurnsTaken, CurrentRequest
  <2>5. OneOf(r.payload, approved)
    BY <2>2, <2>3 DEF TurnedRequest
  <2>6. OneOf(m.payload, approved)
    BY <2>1, <2>2, <2>4, <2>5 DEF OneOf, Adds, Composes
  <2>7. TurnedRequest(m, stored.n, approved)
    BY <2>1, <2>6 DEF TurnedRequest, Composes, Composing
  <2> QED
    BY <1>0, <2>1, <2>2, <2>3, <2>7, TurnedQuiet DEF Quiet, runFiles
<1> QED
  BY <1>1, <1>2, <1>3, <1>4

LEMMA ServeTurned ==
    ASSUME Types, Current, Turned, TurnsTaken', NEW t \in Thread, NEW m, Serve(t, m),
           UNCHANGED <<runFiles, history>>, TurnedRequest(m, stored.n, approved)
    PROVE  Turned'
<1>1. /\ request'[t] = m /\ request[t] = Idle
      /\ \A s \in Thread : s # t => request'[s] = request[s]
  BY DEF Types, Serve
<1>2. TurnsTaken
  BY DEF Serve, TurnsTaken
<1>3. GateFits' /\ ReleaseFits' /\ approved' = approved /\ stored' = stored
  BY <1>2 DEF Turned, GateFits, ReleaseFits, runFiles, history
<1>4. ReviewFits'
  BY <1>1, <1>2 DEF Turned, ReviewFits, runFiles
<1>5. ASSUME NEW s \in Thread, request'[s] # Idle
      PROVE  TurnedRequest(request'[s], stored'.n, approved')
  <2>1. CASE s = t
    BY <1>1, <1>3, <2>1
  <2>2. CASE s # t
    BY <1>1, <1>2, <1>3, <1>5, <2>2 DEF Turned
  <2> QED  BY <2>1, <2>2
<1> QED  BY <1>3, <1>4, <1>5 DEF Turned

LEMMA BeginTurned ==
    ASSUME Types, Earned, Current, Turned, TurnsTaken', NEW t \in Thread,
           Execute(t) \/ Review(t) \/ Augment(t) \/ Build(t) \/ Finalize(t)
    PROVE  Turned'
<1>1. CASE Execute(t)
  <2>1. PICK m : /\ Serve(t, m) /\ DOMAIN m = Fields /\ m # Idle
                 /\ m.goal = "execute" /\ m.ok = TRUE
                 /\ m.audit \in Audit /\ ~m.audit.finalized
                 /\ Bare(m) \/ Packing(m)
                 /\ audits' \in Nat
                 /\ UNCHANGED <<runFiles, package, history>>
    BY <1>1, ExecuteMoves
  <2>2. TurnedRequest(m, stored.n, approved)
    BY <2>1 DEF TurnedRequest, Bare, Packing
  <2> QED
    BY <2>1, <2>2, ServeTurned
<1>2. CASE Review(t)
  <2>1. PICK m : /\ Serve(t, m) /\ DOMAIN m = Fields /\ m # Idle
                 /\ m.goal \in {"review", "look"} /\ m.ok \in BOOLEAN
                 /\ m.review \in ReviewFile
                 /\ \/ /\ m.at = "baseline" /\ review = None
                       /\ m.review.of = stored.n /\ ~m.review.approved
                    \/ m.at = "decide" /\ review # None /\ m.review = review
    BY <1>2, ReviewMoves
  <2>2. TurnsTaken /\ \A u \in Thread : request[u] # Idle => request[u].goal # "execute"
    BY <2>1 DEF Serve, TurnsTaken, Busy
  <2>3. \A u \in Thread : request[u] # Idle => request[u].at # "reset"
    BY <2>2 DEF Types, Shaped, Shape, Making, Composing, Building, Covered, Linked, Gating
  <2>4. review # None => review.of = stored.n
    BY <2>2, <2>3 DEF Turned, ReviewFits
  <2>5. TurnedRequest(m, stored.n, approved)
    BY <2>1, <2>4 DEF TurnedRequest, Making, Composing
  <2> QED
    BY <1>2, <2>1, <2>5, ReviewMoves, ServeTurned DEF Quiet
<1>3. CASE Build(t)
  <2>1. PICK m : /\ Serve(t, m) /\ DOMAIN m = Fields /\ m # Idle
                 /\ m.at \in {"coverage", "dossier", "gate"} /\ m.goal = m.at /\ m.ok = TRUE
    BY <1>3, BuildMoves
  <2>2. TurnedRequest(m, stored.n, approved)
    BY <2>1 DEF TurnedRequest, Making, Composing
  <2> QED
    BY <1>3, <2>1, <2>2, BuildMoves, ServeTurned DEF Quiet
<1>4. CASE Finalize(t)
  <2>1. PICK m : /\ Serve(t, m) /\ DOMAIN m = Fields /\ m # Idle
                 /\ m.at = "coverage" /\ m.goal = "finalize" /\ m.audit = stored /\ m.ok = TRUE
    BY <1>4, FinalizeMoves
  <2>2. TurnedRequest(m, stored.n, approved)
    BY <2>1 DEF TurnedRequest, Making, Composing
  <2> QED
    BY <1>4, <2>1, <2>2, FinalizeMoves, ServeTurned DEF Quiet
<1>5. CASE Augment(t)
  <2>1. PICK m : /\ Serve(t, m) /\ DOMAIN m = Fields /\ m # Idle
                 /\ m.at = "narrate" /\ m.goal = "augment" /\ m.seen = stored.n /\ m.ok = TRUE
    BY <1>5, AugmentMoves
  <2>2. TurnedRequest(m, stored.n, approved)
    BY <2>1 DEF TurnedRequest, Making, Composing
  <2> QED
    BY <1>5, <2>1, <2>2, AugmentMoves, ServeTurned DEF Quiet
<1> QED
  BY <1>1, <1>2, <1>3, <1>4, <1>5

\* A death that does not stop an execution before its reset leaves a review of
\* the audit on file.
LEMMA DieTurned ==
    ASSUME Turned, Die
    PROVE  Turned'
<1> SUFFICES ASSUME TurnsTaken' PROVE Turned'
  BY DEF Turned
<1>1. /\ TurnsTaken /\ UNCHANGED <<runFiles, history>>
      /\ request' = [t \in Thread |-> Idle]
      /\ \A t \in Thread : request[t] # Idle => request[t].at \in interrupted'
  BY DEF Die, TurnsTaken, Busy
<1>2. review # None => review.of = stored.n
  BY <1>1 DEF Turned, ReviewFits, TurnsTaken
<1> QED
  BY <1>1, <1>2 DEF Turned, ReviewFits, GateFits, ReleaseFits, runFiles, history

LEMMA TurnedNext ==
    ASSUME Types, Earned, Current, Turned, [Next]_vars
    PROVE  Turned'
<1>1. CASE Die
  BY <1>1, DieTurned
<1>2. ASSUME NEW t \in Thread, Continue(t) PROVE Turned'
  <2>1. TurnsTaken' = TurnsTaken
    BY <1>2, ContinueCounts DEF counters, TurnsTaken
  <2>2. CASE TurnsTaken
    BY <1>2, <2>2, MakingTurned, StoringTurned, BuildingTurned, GatingTurned,
       ReleasingTurned DEF Continue
  <2>3. CASE ~TurnsTaken
    BY <2>1, <2>3 DEF Turned
  <2> QED
    BY <2>2, <2>3
<1>3. ASSUME NEW t \in Thread,
             Execute(t) \/ Review(t) \/ Augment(t) \/ Build(t) \/ Finalize(t)
      PROVE  Turned'
  BY <1>3, BeginTurned DEF Turned
<1>4. CASE UNCHANGED vars
  BY <1>4 DEF vars, runFiles, counters, history, Turned, TurnsTaken, ReviewFits, GateFits,
     ReleaseFits
<1> QED
  BY <1>1, <1>2, <1>3, <1>4 DEF Next

LEMMA TurnedInit == Init => Turned
  BY DEF Init, Turned, ReviewFits, GateFits, ReleaseFits

-----------------------------------------------------------------------------
(* ... of reviews, builds and gates taken together.                         *)

\* A request at none of these steps has no part in a package.
Apart(r) == r.at \notin PackageSteps \cup {"detail"}

LEMMA BuildsMove ==
    ASSUME Types, NEW t \in Thread, NEW r, r = request[t],
           \/ ResetReview(t) \/ WriteBaseline(t) \/ WriteDecision(t)
           \/ ReadForCoverage(t) \/ WriteCoverage(t)
           \/ ReadForDossier(t) \/ ReadCoverage(t) \/ WriteDossier(t)
           \/ ReadForGate(t) \/ ReadMatrix(t) \/ ReadDossier(t) \/ ReadReview(t) \/ WriteGate(t)
    PROVE  \E m : /\ Goes(t, m) /\ r # Idle /\ Apart(r)
                  /\ m # Idle => m.goal = r.goal /\ m.goal # "execute"
                                 /\ m.at \in Building \cup {"decide"}
                  /\ UNCHANGED <<stored, narrative, finalization, package, audits, narrated>>
<1> USE DEF AtStep, Same, SameFiles, Apart, PackageSteps, Building, Covered, Linked, Gating,
            Quiet, runFiles, history
<1>1. CASE ResetReview(t)
  BY <1>1, ResetReviewMoves
<1>2. CASE WriteBaseline(t)
  <2>1. PICK m : Goes(t, m) /\ (m = Idle \/ (Same(m, r) /\ m.at = "decide"
                                             /\ m.review = r.review))
    BY <1>2, WriteBaselineMoves
  <2> QED
    BY <1>2, <2>1, WriteBaselineMoves
<1>3. CASE WriteDecision(t)
  BY <1>3, WriteDecisionMoves
<1>4. CASE ReadForCoverage(t)
  <2>1. PICK m : Goes(t, m) /\ (m = Idle \/ (Same(m, r) /\ m.at = "matrix"
                                    /\ m.matrix \in Matrix /\ m.matrix.of = stored.n))
    BY <1>4, ReadForCoverageMoves
  <2> QED
    BY <1>4, <2>1, ReadForCoverageMoves
<1>5. CASE WriteCoverage(t)
  <2>1. PICK m : Goes(t, m) /\ (m = Idle \/ (SameFiles(m, r) /\ m.at = "dossier"
                                             /\ m.goal = "finalize"))
    BY <1>5, WriteCoverageMoves
  <2> QED
    BY <1>5, <2>1, WriteCoverageMoves
<1>6. CASE ReadForDossier(t)
  <2>1. PICK m : Goes(t, m) /\ SameFiles(m, r) /\ m.at = "covered" /\ m.seen = stored.n
    BY <1>6, ReadForDossierMoves
  <2> QED
    BY <1>6, <2>1, ReadForDossierMoves
<1>7. CASE ReadCoverage(t)
  <2>1. PICK m : Goes(t, m) /\ \/ m = Idle
                               \/ /\ Same(m, r) /\ m.at = "link" /\ m.matrix = r.matrix
                                  /\ coverage \in Matrix
                                  /\ m.dossier = [of |-> r.seen, matrix |-> coverage.of]
    BY <1>7, ReadCoverageMoves
  <2> QED
    BY <1>7, <2>1, ReadCoverageMoves
<1>8. CASE WriteDossier(t)
  <2>1. PICK m : Goes(t, m) /\ (m = Idle \/ (SameFiles(m, r) /\ m.at = "gate"
                                             /\ m.goal = "finalize"))
    BY <1>8, WriteDossierMoves
  <2> QED
    BY <1>8, <2>1, WriteDossierMoves
<1>9. CASE ReadForGate(t)
  <2>1. PICK m : /\ Goes(t, m) /\ SameFiles(m, r) /\ m.at = "gate.matrix"
                 /\ m.gate \in GateFile /\ m.gate.of = stored.n
                 /\ m.gate.ready => stored.outcome.clean /\ stored.export = "verified"
    BY <1>9, ReadForGateMoves
  <2> QED
    BY <1>9, <2>1, ReadForGateMoves
<1>10. CASE ReadMatrix(t)
  <2>1. PICK m : Goes(t, m) /\ \/ m = Idle
                               \/ /\ SameFiles(m, r) /\ m.at = "gate.dossier"
                                  /\ coverage \in Matrix /\ m.gate \in GateFile
                                  /\ m.gate.of = r.gate.of /\ m.gate.matrix = coverage.of
                                  /\ m.gate.ready => r.gate.ready
    BY <1>10, ReadMatrixMoves
  <2> QED
    BY <1>10, <2>1, ReadMatrixMoves
<1>11. CASE ReadDossier(t)
  <2>1. PICK m : Goes(t, m) /\ \/ m = Idle
                               \/ /\ SameFiles(m, r) /\ m.at = "gate.review"
                                  /\ dossier \in Dossier /\ m.gate \in GateFile
                                  /\ m.gate.of = r.gate.of /\ m.gate.dossier = dossier.of
                                  /\ m.gate.matrix = r.gate.matrix
                                  /\ m.gate.ready = r.gate.ready
    BY <1>11, ReadDossierMoves
  <2> QED
    BY <1>11, <2>1, ReadDossierMoves
<1>12. CASE ReadReview(t)
  <2>1. PICK m : /\ Goes(t, m) /\ SameFiles(m, r) /\ m.at = "gate.write"
                 /\ m.gate \in GateFile
                 /\ m.gate.of = r.gate.of /\ m.gate.dossier = r.gate.dossier
                 /\ m.gate.matrix = r.gate.matrix
                 /\ m.gate.ready => r.gate.ready /\ review # None /\ review.approved
    BY <1>12, ReadReviewMoves
  <2> QED
    BY <1>12, <2>1, ReadReviewMoves
<1>13. CASE WriteGate(t)
  <2>1. PICK m : Goes(t, m) /\ (m = Idle \/ (/\ SameFiles(m, r) /\ m.at = "compose"
                                             /\ m.gate = r.gate /\ r.gate.ready
                                             /\ m.goal = "finalize"))
    BY <1>13, WriteGateMoves
  <2> QED
    BY <1>13, <2>1, WriteGateMoves
<1> QED
  BY <1>1, <1>2, <1>3, <1>4, <1>5, <1>6, <1>7, <1>8, <1>9, <1>10, <1>11, <1>12, <1>13

-----------------------------------------------------------------------------
(* While executions take turns, the narrative on file is of no audit later   *)
(* than the one on file, and so is that of a release.                       *)

NotLater(payload) == \A n \in payload.narratives : n <= payload.audit

\* An audit that is executed comes after all before it.
ToldRequest(r, audit, last) ==
    /\ r.goal = "execute" /\ r.at # "reset" =>
          r.audit.n <= last /\ (audit # None => audit.n < r.audit.n)
    /\ r.goal = "finalize" /\ r.at \in Composing \cup Making \cup {"finalize"} =>
          NotLater(r.payload)

ToldFiles ==
    /\ stored # None => stored.n <= audits
    /\ \A n \in narrated : stored # None /\ n <= stored.n
    /\ narrative # None => narrative \in narrated
    /\ stored # None /\ stored.n \in narrated => narrative = stored.n
    /\ finalization # None => NotLater(finalization)

Told ==
    ~raced =>
        /\ ToldFiles
        /\ \A t \in Thread : request[t] # Idle => ToldRequest(request[t], stored, audits)

LEMMA ToldStep ==
    ASSUME Types, Current, Told, ~raced, raced' = raced, NEW t \in Thread, NEW m, Goes(t, m),
           request[t] # Idle, ToldFiles', m # Idle => ToldRequest(m, stored', audits')
    PROVE  Told'
<1>1. /\ request'[t] = m
      /\ \A s \in Thread : s # t => request'[s] = request[s]
  BY DEF Types, Goes
<1>2. ASSUME NEW s \in Thread, request'[s] # Idle
      PROVE  ToldRequest(request'[s], stored', audits')
  <2>1. CASE s = t
    BY <1>1, <1>2, <2>1
  <2>2. CASE s # t
    <3>1. request'[s] = request[s] /\ request[s].goal # "execute"
      BY <1>1, <1>2, <2>2 DEF Current, Lone
    <3>2. ToldRequest(request[s], stored, audits)
      BY <1>2, <3>1 DEF Told
    <3> QED  BY <3>1, <3>2 DEF ToldRequest
  <2> QED  BY <2>1, <2>2
<1> QED  BY <1>2 DEF Told

LEMMA ToldQuiet ==
    ASSUME Types, Current, Told, ~raced, raced' = raced, NEW t \in Thread, NEW m, Goes(t, m),
           request[t] # Idle, UNCHANGED <<stored, narrative, finalization, audits, narrated>>,
           m # Idle => ToldRequest(m, stored, audits)
    PROVE  Told'
<1>1. ToldFiles'
  BY DEF Told, ToldFiles
<1> QED  BY <1>1, ToldStep

LEMMA AtStepTold ==
    ASSUME Told, ~raced, NEW t \in Thread, NEW x, AtStep(t, x)
    PROVE  /\ ToldRequest(request[t], stored, audits)
           /\ request[t].at = x /\ request[t] # Idle
  BY DEF Told, AtStep

LEMMA MakingTold ==
    ASSUME Types, Current, Told, ~raced, raced' = raced, NEW t \in Thread,
           \/ WriteFile(t) \/ HashFile(t) \/ WriteManifest(t) \/ ReadManifest(t) \/ VerifyFile(t)
    PROVE  Told'
<1>0. PICK r : r = request[t]
  OBVIOUS
<1>1. SUFFICES \E m : /\ Goes(t, m) /\ UNCHANGED <<runFiles, audits, history>>
                      /\ r.at \in Making /\ AtStep(t, r.at)
                      /\ m # Idle => m.goal = r.goal /\ m.audit = r.audit /\ m.payload = r.payload
  <2>1. PICK m : /\ Goes(t, m) /\ UNCHANGED <<runFiles, audits, history>>
                 /\ r.at \in Making /\ AtStep(t, r.at)
                 /\ m # Idle => m.goal = r.goal /\ m.audit = r.audit /\ m.payload = r.payload
    BY <1>1
  <2>2. ToldRequest(r, stored, audits) /\ r # Idle
    BY <1>0, <2>1, AtStepTold
  <2>3. m # Idle => ToldRequest(m, stored, audits)
    BY <2>1, <2>2 DEF ToldRequest, Making
  <2> QED
    BY <1>0, <2>1, <2>2, <2>3, ToldQuiet DEF runFiles, history
<1> USE DEF Same, AtStep, Making
<1>2. CASE WriteFile(t)
  <2>1. PICK m : /\ Goes(t, m) /\ Same(m, r)
                 /\ m.payload = r.payload /\ m.hashes = r.hashes /\ m.file \in File
                 /\ m.at \in {"files", "hash"}
    BY <1>0, <1>2, WriteFileMoves
  <2> QED
    BY <1>0, <1>2, <2>1, WriteFileMoves
<1>3. CASE HashFile(t)
  <2>1. PICK m : /\ Goes(t, m) /\ Same(m, r)
                 /\ m.payload = r.payload /\ m.file \in File
                 /\ m.hashes = [r.hashes EXCEPT
                        ![r.file] = package[PackageOf(r)].files[r.file]]
                 /\ m.at \in {"hash", "manifest"}
    BY <1>0, <1>3, HashFileMoves
  <2> QED
    BY <1>0, <1>3, <2>1, HashFileMoves DEF Quiet
<1>4. CASE WriteManifest(t)
  <2>1. PICK m : /\ Goes(t, m) /\ Same(m, r)
                 /\ m.at = "reread" /\ m.payload = r.payload /\ m.file = r.file
                 /\ m.hashes = NoFile
    BY <1>0, <1>4, WriteManifestMoves
  <2> QED
    BY <1>0, <1>4, <2>1, WriteManifestMoves
<1>5. CASE ReadManifest(t)
  <2>1. PICK m : /\ Goes(t, m) /\ Same(m, r)
                 /\ m.at = "verify" /\ m.payload = r.payload /\ m.file = r.file
                 /\ m.hashes = package[PackageOf(r)].manifest
    BY <1>0, <1>5, ReadManifestMoves
  <2> QED
    BY <1>0, <1>5, <2>1, ReadManifestMoves DEF Quiet
<1>6. CASE VerifyFile(t)
  <2>1. PICK m : /\ Goes(t, m)
                 /\ \/ m = Idle /\ ~FoundOk(r) /\ r.goal # "execute"
                    \/ /\ DOMAIN m = Fields /\ m # Idle
                       /\ m.goal = r.goal /\ m.audit = r.audit
                       /\ m.ok \in BOOLEAN /\ (m.ok <=> FoundOk(r))
                       /\ m.payload = r.payload /\ m.hashes = r.hashes
                       /\ \/ m.at = "verify" /\ m.file \in File
                          \/ m.at = "store" /\ r.goal = "execute"
                          \/ m.at = "finalize" /\ r.goal # "execute"
    BY <1>0, <1>6, VerifyFileMoves
  <2> QED
    BY <1>0, <1>6, <2>1, VerifyFileMoves DEF Quiet
<1> QED
  BY <1>2, <1>3, <1>4, <1>5, <1>6

LEMMA StoringTold ==
    ASSUME Types, Current, Told, ~raced, raced' = raced, NEW t \in Thread,
           StoreAudit(t) \/ WriteNarrative(t) \/ WriteBack(t)
    PROVE  Told'
<1>0. PICK r : r = request[t]
  OBVIOUS
<1>1. CASE StoreAudit(t)
  <2>1. PICK m : Goes(t, m) /\ DOMAIN m = Fields /\ m # Idle
                 /\ m.at = "reset" /\ m.goal = "execute" /\ m.ok = TRUE
    BY <1>0, <1>1, StoreAuditMoves
  <2>2. /\ AtStep(t, "store") /\ r.goal = "execute" /\ stored' \in Audit /\ stored'.n = r.audit.n
        /\ UNCHANGED <<narrative, finalization, audits, narrated>>
    BY <1>0, <1>1, StoreAuditMoves
  <2>3. ToldRequest(r, stored, audits) /\ r.at = "store" /\ r # Idle
    BY <1>0, <2>2, AtStepTold
  <2>4. stored'.n <= audits /\ (stored # None => stored.n < stored'.n)
    BY <2>2, <2>3 DEF ToldRequest
  <2>5. \A n \in narrated : n \in Nat /\ n < stored'.n
    <3> TAKE n \in narrated
    <3>1. n \in Nat /\ stored # None /\ n <= stored.n /\ stored \in Audit
      BY DEF Types, FilesOK, Holds, Told, ToldFiles
    <3> QED  BY <2>2, <2>4, <3>1 DEF Audit
  <2>6. stored' # None /\ stored'.n \in Nat
    BY <2>2, NoneIsNoFile DEF Audit
  <2>7. stored'.n \notin narrated
    BY <2>5, <2>6
  <2>8. ToldFiles'
    BY <2>2, <2>4, <2>5, <2>6, <2>7 DEF Told, ToldFiles
  <2>9. ToldRequest(m, stored', audits')
    BY <2>1 DEF ToldRequest
  <2> QED
    BY <1>0, <2>1, <2>3, <2>8, <2>9, ToldStep
<1>2. CASE WriteNarrative(t)
  <2>1. /\ AtStep(t, "narrate") /\ r.goal = "augment" /\ r.seen \in Nat /\ Goes(t, Idle)
        /\ narrative' = r.seen /\ narrated' = narrated \cup {r.seen}
        /\ UNCHANGED <<stored, finalization, audits>>
    BY <1>0, <1>2, WriteNarrativeMoves
  <2>2. r.seen = stored.n /\ stored \in Audit /\ r # Idle
    BY <1>0, <2>1, AtStepCurrent DEF CurrentRequest, AtStep
  <2>3. stored # None /\ stored.n <= stored.n
    BY <2>2, NoneIsNoFile DEF Audit
  <2>4. ToldFiles'
    BY <2>1, <2>2, <2>3 DEF Told, ToldFiles
  <2> QED
    BY <1>0, <2>1, <2>2, <2>4, ToldStep
<1>3. CASE WriteBack(t)
  <2>1. /\ AtStep(t, "detail") /\ r.goal = "finalize" /\ Goes(t, Idle)
        /\ stored' \in Audit /\ stored'.n = r.audit.n
        /\ UNCHANGED <<narrative, finalization, audits, narrated>>
    BY <1>0, <1>3, WriteBackMoves DEF history
  <2>2. stored'.n = stored.n /\ stored \in Audit /\ r # Idle
    BY <1>0, <2>1, AtStepCurrent DEF CurrentRequest, AtStep
  <2>3. stored # None /\ stored' # None
    BY <2>1, <2>2, NoneIsNoFile DEF Audit
  <2>4. ToldFiles'
    BY <2>1, <2>2, <2>3 DEF Told, ToldFiles
  <2> QED
    BY <1>0, <2>1, <2>2, <2>4, ToldStep
<1> QED
  BY <1>1, <1>2, <1>3

LEMMA ReleasingTold ==
    ASSUME Types, Current, Told, ~raced, raced' = raced, NEW t \in Thread,
           Compose(t) \/ ReadReport(t) \/ ReadNarrative(t) \/ WriteFinalization(t)
    PROVE  Told'
<1>0. PICK r : r = request[t]
  OBVIOUS
<1>1. CASE Compose(t)
  <2>1. PICK m : /\ Goes(t, m) /\ Composes(m, r)
                 /\ m.payload.parts = PartsOf(r) /\ m.payload.narratives = {}
    BY <1>0, <1>1, ComposeMoves
  <2>2. AtStep(t, "compose") /\ Quiet
    BY <1>0, <1>1, ComposeMoves
  <2>3. ToldRequest(m, stored, audits)
    BY <2>1 DEF ToldRequest, NotLater, Composes
  <2> QED
    BY <1>0, <2>1, <2>2, <2>3, ToldQuiet DEF Quiet, runFiles, history, AtStep
<1>2. CASE ReadReport(t) \/ ReadNarrative(t)
  <2>1. PICK m : Goes(t, m) /\ Composes(m, r) /\ Adds(m, r)
    BY <1>0, <1>2, ReportMoves
  <2>2. /\ AtStep(t, r.at) /\ Quiet /\ r.goal = "finalize" /\ r.at \in Composing
        /\ r.payload.audit = r.audit.n /\ stored \in Audit
    BY <1>0, <1>2, ReportMoves
  <2>3. NotLater(r.payload) /\ r # Idle
    BY <1>0, <2>2, AtStepTold DEF ToldRequest
  <2>4. r.audit.n = stored.n
    BY <1>0, <2>2, AtStepCurrent DEF CurrentRequest
  <2>5. narrative # None => narrative <= stored.n
    BY DEF Told, ToldFiles
  <2>6. NotLater(m.payload)
    BY <2>1, <2>2, <2>3, <2>4, <2>5 DEF NotLater, Adds, Composes
  <2>7. ToldRequest(m, stored, audits)
    BY <2>1, <2>6 DEF ToldRequest, Composes
  <2> QED
    BY <1>0, <2>1, <2>2, <2>3, <2>7, ToldQuiet DEF Quiet, runFiles, history
<1>3. CASE WriteFinalization(t)
  <2>1. PICK m : /\ Goes(t, m) /\ DOMAIN m = Fields /\ m # Idle
                 /\ m.at = "detail" /\ m.goal = "finalize" /\ m.audit = r.audit /\ m.ok = TRUE
    BY <1>0, <1>3, WriteFinalizationMoves
  <2>2. /\ AtStep(t, "finalize") /\ r.goal = "finalize" /\ finalization' = r.payload
        /\ UNCHANGED <<stored, narrative, audits, narrated>>
    BY <1>0, <1>3, WriteFinalizationMoves DEF history
  <2>3. ToldRequest(r, stored, audits) /\ r.at = "finalize" /\ r # Idle
    BY <1>0, <2>2, AtStepTold
  <2>4. ToldFiles'
    BY <2>2, <2>3 DEF Told, ToldFiles, ToldRequest
  <2>5. ToldRequest(m, stored', audits')
    BY <2>1 DEF ToldRequest, Making, Composing
  <2> QED
    BY <1>0, <2>1, <2>3, <2>4, <2>5, ToldStep
<1> QED
  BY <1>1, <1>2, <1>3

LEMMA BuildingTold ==
    ASSUME Types, Current, Told, ~raced, raced' = raced, NEW t \in Thread,
           \/ ResetReview(t) \/ WriteBaseline(t) \/ WriteDecision(t)
           \/ ReadForCoverage(t) \/ WriteCoverage(t)
           \/ ReadForDossier(t) \/ ReadCoverage(t) \/ WriteDossier(t)
           \/ ReadForGate(t) \/ ReadMatrix(t) \/ ReadDossier(t) \/ ReadReview(t) \/ WriteGate(t)
    PROVE  Told'
<1>0. PICK r : r = request[t]
  OBVIOUS
<1>1. PICK m : /\ Goes(t, m) /\ r # Idle
               /\ m # Idle => m.goal # "execute" /\ m.at \in Building \cup {"decide"}
               /\ UNCHANGED <<stored, narrative, finalization, audits, narrated>>
  BY <1>0, BuildsMove
<1>2. m # Idle => ToldRequest(m, stored, audits)
  BY <1>1 DEF ToldRequest, Building, Covered, Linked, Gating, Making, Composing
<1> QED
  BY <1>0, <1>1, <1>2, ToldQuiet

LEMMA ServeTold ==
    ASSUME Types, Told, ~raced', NEW t \in Thread, NEW m, Serve(t, m),
           UNCHANGED <<runFiles, history>>, audits <= audits', audits' \in Nat,
           ToldRequest(m, stored, audits')
    PROVE  Told'
<1>1. /\ request'[t] = m /\ request[t] = Idle
      /\ \A s \in Thread : s # t => request'[s] = request[s]
  BY DEF Types, Serve
<1>2. /\ ~raced
      /\ \A u \in Thread : request[u] # Idle => request[u].goal # "execute"
  BY DEF Serve, Busy
<1>3. stored # None => stored.n <= audits'
  BY <1>2 DEF Types, FilesOK, Holds, Audit, Told, ToldFiles
<1>4. ToldFiles'
  BY <1>2, <1>3 DEF Told, ToldFiles, runFiles, history
<1>5. ASSUME NEW s \in Thread, request'[s] # Idle
      PROVE  ToldRequest(request'[s], stored', audits')
  <2>1. CASE s = t
    BY <1>1, <2>1 DEF runFiles
  <2>2. CASE s # t
    <3>1. request'[s] = request[s] /\ request[s].goal # "execute"
      BY <1>1, <1>2, <1>5, <2>2
    <3>2. ToldRequest(request[s], stored, audits)
      BY <1>2, <1>5, <3>1 DEF Told
    <3> QED  BY <3>1, <3>2 DEF ToldRequest
  <2> QED  BY <2>1, <2>2
<1> QED  BY <1>4, <1>5 DEF Told

LEMMA BeginTold ==
    ASSUME Types, Told, ~raced', NEW t \in Thread,
           Execute(t) \/ Review(t) \/ Augment(t) \/ Build(t) \/ Finalize(t)
    PROVE  Told'
<1>1. CASE Execute(t)
  <2>1. PICK m : /\ Serve(t, m) /\ DOMAIN m = Fields /\ m # Idle
                 /\ m.goal = "execute" /\ m.ok = TRUE
                 /\ m.audit \in Audit /\ ~m.audit.finalized
                 /\ Bare(m) \/ Packing(m)
                 /\ m.audit.n = audits + 1 /\ audits' = audits + 1 /\ audits' \in Nat
                 /\ UNCHANGED <<runFiles, package, history>>
    BY <1>1, ExecuteMoves
  <2>2. audits \in Nat /\ ~raced /\ (stored # None => stored \in Audit)
    BY <2>1 DEF Types, FilesOK, Holds, Serve
  <2>3. stored # None => stored.n < m.audit.n
    BY <2>1, <2>2 DEF Told, ToldFiles, Audit
  <2>4. ToldRequest(m, stored, audits')
    BY <2>1, <2>2, <2>3 DEF ToldRequest
  <2> QED
    BY <2>1, <2>2, <2>4, ServeTold
<1>2. CASE Review(t) \/ Augment(t) \/ Build(t) \/ Finalize(t)
  <2>1. PICK m : /\ Serve(t, m) /\ m.goal # "execute"
                 /\ m.at \in Building \cup {"baseline", "decide", "narrate"}
    <3> USE DEF Building, Covered, Linked
    <3>1. CASE Review(t)
      BY <3>1, ReviewMoves
    <3>2. CASE Augment(t)
      BY <3>2, AugmentMoves
    <3>3. CASE Build(t)
      BY <3>3, BuildMoves
    <3>4. CASE Finalize(t)
      BY <3>4, FinalizeMoves
    <3> QED
      BY <1>2, <3>1, <3>2, <3>3, <3>4
  <2>2. Quiet
    BY <1>2, ReviewMoves, AugmentMoves, BuildMoves, FinalizeMoves
  <2>3. audits' = audits /\ audits \in Nat
    BY <2>2 DEF Quiet, Types, FilesOK
  <2>4. ToldRequest(m, stored, audits')
    BY <2>1 DEF ToldRequest, Building, Covered, Linked, Gating, Making, Composing
  <2> QED
    BY <2>1, <2>2, <2>3, <2>4, ServeTold DEF Quiet
<1> QED
  BY <1>1, <1>2

LEMMA ToldNext ==
    ASSUME Types, Current, Told, [Next]_vars
    PROVE  Told'
<1>1. CASE Die
  <2>1. /\ request' = [t \in Thread |-> Idle] /\ raced' = raced
        /\ UNCHANGED <<stored, narrative, finalization, audits, narrated>>
    BY <1>1 DEF Die, runFiles, history
  <2> QED
    BY <2>1 DEF Told, ToldFiles
<1>2. ASSUME NEW t \in Thread, Continue(t) PROVE Told'
  <2>1. raced' = raced
    BY <1>2, ContinueCounts DEF counters
  <2>2. CASE ~raced
    BY <1>2, <2>1, <2>2, MakingTold, StoringTold, ReleasingTold, BuildingTold DEF Continue
  <2> QED
    BY <2>1, <2>2 DEF Told
<1>3. ASSUME NEW t \in Thread,
             Execute(t) \/ Review(t) \/ Augment(t) \/ Build(t) \/ Finalize(t)
      PROVE  Told'
  BY <1>3, BeginTold DEF Told
<1>4. CASE UNCHANGED vars
  BY <1>4 DEF vars, runFiles, counters, history, Told, ToldFiles
<1> QED
  BY <1>1, <1>2, <1>3, <1>4 DEF Next

LEMMA ToldInit == Init => Told
  BY DEF Init, Told, ToldFiles

-----------------------------------------------------------------------------
(* While no execution and no two finalizations overlap, and no package is    *)
(* cut short by a death, every package is whole but while it is being made. *)

Uncut == ~raced /\ ~crossed /\ interrupted \cap PackageSteps = {}

AllAre(table, payload) == \A f \in File : table[f] = payload
Whole(p, payload) == AllAre(p.files, payload) /\ AllAre(p.manifest, payload)

\* The package p is of audit n.
Backs(p, n) == p.files[1] \in Released /\ p.files[1].audit = n /\ Whole(p, p.files[1])

\* How far a request has come with its package p.
PackedRequest(r, p, release) ==
    /\ r.at \in Making \cup {"finalize"} => r.payload.audit = r.audit.n
    /\ r.at \in Making \cup {"store"} => r.ok
    /\ r.goal = "execute" /\ r.at \in Making => r.audit.export = "verified"
    /\ r.at = "files" => \A f \in 1..(r.file - 1) : p.files[f] = r.payload
    /\ r.at \in {"hash", "manifest", "reread", "verify", "finalize"} => AllAre(p.files, r.payload)
    /\ r.at = "hash" => \A f \in 1..(r.file - 1) : r.hashes[f] = r.payload
    /\ r.at \in {"manifest", "verify"} => AllAre(r.hashes, r.payload)
    /\ r.at \in {"reread", "verify", "finalize"} => AllAre(p.manifest, r.payload)
    /\ r.at = "store" /\ r.audit.export = "verified" => Backs(p, r.audit.n)
    /\ r.at = "detail" => release \in Released /\ release.audit = r.audit.n

OneFinalizes ==
    \A t, u \in Thread : t # u /\ request[t] # Idle /\ request[u] # Idle =>
        ~(request[t].goal = "finalize" /\ request[u].goal = "finalize")

ExportBacks ==
    stored # None /\ stored.export = "verified" /\ ~Writing("execute") =>
        Backs(package["exported"], stored.n)
ReleaseBacks ==
    finalization # None /\ ~Writing("finalize") => Whole(package["released"], finalization)
FinalizedBacks ==
    stored # None /\ stored.finalized => finalization \in Released /\ finalization.audit = stored.n

Packed ==
    Uncut =>
        /\ OneFinalizes /\ ExportBacks /\ ReleaseBacks /\ FinalizedBacks
        /\ \A t \in Thread : request[t] # Idle =>
              PackedRequest(request[t], package[PackageOf(request[t])], finalization)

LEMMA ApartPacked == ASSUME NEW r, Apart(r), NEW p, NEW release PROVE PackedRequest(r, p, release)
  BY DEF Apart, PackageSteps, PackedRequest, Making, Composing

LEMMA ApartGoal ==
    ASSUME NEW r, Shape(r), r.goal \notin {"execute", "finalize"}
    PROVE  Apart(r)
  BY DEF Shape, Apart, PackageSteps, Making, Composing, Building, Covered, Linked, Gating

\* A request r writes a package for this goal.
Writes(r, goal) == r # Idle /\ r.goal = goal /\ r.at \in PackageSteps

LEMMA WritingMoves ==
    ASSUME Types, NEW t \in Thread, NEW m, Goes(t, m), NEW goal
    PROVE  /\ Writes(m, goal) => Writing(goal)'
           /\ Writes(request[t], goal) = Writes(m, goal) => Writing(goal)' = Writing(goal)
<1>1. /\ request'[t] = m
      /\ \A s \in Thread : s # t => request'[s] = request[s]
  BY DEF Types, Goes
<1>2. Writing(goal) <=> \E s \in Thread : Writes(request[s], goal)
  BY DEF Writing, Busy, Writes
<1>3. Writing(goal)' <=> \E s \in Thread : Writes(request'[s], goal)
  BY DEF Writing, Busy, Writes
<1>4. Writes(m, goal) => Writing(goal)'
  BY <1>1, <1>3
<1>5. ASSUME Writes(request[t], goal) = Writes(m, goal)
      PROVE  Writing(goal)' <=> Writing(goal)
  <2>1. \A s \in Thread : Writes(request'[s], goal) <=> Writes(request[s], goal)
    BY <1>1, <1>5
  <2> QED
    BY <1>2, <1>3, <2>1
<1>6. Writing(goal) \in BOOLEAN /\ Writing(goal)' \in BOOLEAN
  BY DEF Writing
<1> QED
  BY <1>4, <1>5, <1>6

\* What the other threads hold of a package stays as it is.
OthersKeep(t) ==
    \A u \in Thread : u # t /\ request[u] # Idle /\ request[u].goal \in {"execute", "finalize"} =>
        /\ package'[PackageOf(request[u])] = package[PackageOf(request[u])]
        /\ finalization' = finalization

LEMMA PackedStep ==
    ASSUME Types, Packed, Uncut, NEW t \in Thread, NEW m, Goes(t, m),
           OneFinalizes', ExportBacks', ReleaseBacks', FinalizedBacks', OthersKeep(t),
           m # Idle => PackedRequest(m, package'[PackageOf(m)], finalization')
    PROVE  Packed'
<1>1. /\ request'[t] = m
      /\ \A s \in Thread : s # t => request'[s] = request[s]
  BY DEF Types, Goes
<1>2. ASSUME NEW s \in Thread, request'[s] # Idle
      PROVE  PackedRequest(request'[s], package'[PackageOf(request'[s])], finalization')
  <2>1. CASE s = t
    BY <1>1, <1>2, <2>1
  <2>2. CASE s # t
    <3>1. request'[s] = request[s] /\ request[s] # Idle
      BY <1>1, <1>2, <2>2
    <3>2. CASE request[s].goal \in {"execute", "finalize"}
      BY <2>2, <3>1, <3>2 DEF Packed, OthersKeep
    <3>3. CASE request[s].goal \notin {"execute", "finalize"}
      BY <3>1, <3>3, ApartGoal, ApartPacked DEF Types, Shaped
    <3> QED  BY <3>2, <3>3
  <2> QED  BY <2>1, <2>2
<1> QED  BY <1>2 DEF Packed, PackageOf

LEMMA OneFinalizesStep ==
    ASSUME Types, OneFinalizes, NEW t \in Thread, NEW m, Goes(t, m), request[t] # Idle,
           m # Idle => m.goal = request[t].goal
    PROVE  OneFinalizes'
<1>1. /\ request'[t] = m
      /\ \A s \in Thread : s # t => request'[s] = request[s]
  BY DEF Types, Goes
<1> QED  BY <1>1 DEF OneFinalizes

\* A step of thread t that is not of a package, nor leads to one, ...
LEMMA ApartStep ==
    ASSUME Types, Packed, Uncut, NEW t \in Thread, NEW m, Goes(t, m), OneFinalizes',
           request[t] # Idle => Apart(request[t]),
           m # Idle => Apart(m),
           UNCHANGED <<stored, finalization, package>>
    PROVE  Packed'
<1>1. \A goal : Writing(goal)' = Writing(goal)
  <2> TAKE goal
  <2>1. Writes(request[t], goal) = Writes(m, goal)
    BY DEF Writes, Apart
  <2> QED  BY <2>1, WritingMoves
<1>2. ExportBacks' /\ ReleaseBacks' /\ FinalizedBacks'
  BY <1>1 DEF Packed, ExportBacks, ReleaseBacks, FinalizedBacks
<1>3. OthersKeep(t)
  BY DEF OthersKeep
<1>4. m # Idle => PackedRequest(m, package'[PackageOf(m)], finalization')
  BY ApartPacked
<1> QED  BY <1>2, <1>3, <1>4, PackedStep

\* ... and one of a request that goes on with its package.
LEMMA MakingStep ==
    ASSUME Types, Current, Packed, Uncut, NEW t \in Thread, NEW m, Goes(t, m),
           NEW r, r = request[t], r # Idle, r.goal \in {"execute", "finalize"},
           m # Idle, m.goal = r.goal, m.at \in PackageSteps,
           UNCHANGED <<stored, finalization>>,
           package' = [package EXCEPT ![PackageOf(r)] = package'[PackageOf(r)]],
           PackedRequest(m, package'[PackageOf(r)], finalization)
    PROVE  Packed'
<1>1. PackageOf(m) = PackageOf(r)
  BY DEF PackageOf
<1>2. Writing(r.goal)'
  BY WritingMoves DEF Writes
<1>3. \A goal : goal # r.goal => Writing(goal)' = Writing(goal)
  <2> TAKE goal
  <2>1. goal # r.goal => Writes(request[t], goal) = Writes(m, goal)
    BY DEF Writes
  <2> QED  BY <2>1, WritingMoves
<1>4. \A p \in Package : p # PackageOf(r) => package'[p] = package[p]
  BY DEF Types, FilesOK
<1>5. ExportBacks'
  <2>1. CASE r.goal = "execute"
    BY <1>2, <2>1 DEF ExportBacks
  <2>2. CASE r.goal = "finalize"
    <3>1. Writing("execute")' = Writing("execute") /\ package'["exported"] = package["exported"]
      BY <1>3, <1>4, <2>2 DEF PackageOf, Package
    <3> QED  BY <3>1 DEF Packed, ExportBacks
  <2> QED  BY <2>1, <2>2
<1>6. ReleaseBacks'
  <2>1. CASE r.goal = "finalize"
    BY <1>2, <2>1 DEF ReleaseBacks
  <2>2. CASE r.goal = "execute"
    <3>1. Writing("finalize")' = Writing("finalize") /\ package'["released"] = package["released"]
      BY <1>3, <1>4, <2>2 DEF PackageOf, Package
    <3> QED  BY <3>1 DEF Packed, ReleaseBacks
  <2> QED  BY <2>1, <2>2
<1>7. FinalizedBacks'
  BY DEF Packed, FinalizedBacks
<1>8. OneFinalizes'
  BY OneFinalizesStep DEF Packed
<1>9. OthersKeep(t)
  <2>1. Lone /\ OneFinalizes
    BY DEF Current, Packed, Uncut
  <2> QED  BY <2>1 DEF OthersKeep, Lone, OneFinalizes
<1> QED  BY <1>1, <1>5, <1>6, <1>7, <1>8, <1>9, PackedStep

LEMMA AtStepPacked ==
    ASSUME Packed, Uncut, NEW t \in Thread, NEW x, AtStep(t, x)
    PROVE  /\ PackedRequest(request[t], package[PackageOf(request[t])], finalization)
           /\ request[t].at = x /\ request[t] # Idle
  BY DEF Packed, AtStep

\* Files are written, and hashed, one after the other.
LEMMA FilledOne ==
    ASSUME NEW table \in Table, NEW k \in File, NEW payload,
           \A f \in 1..(k - 1) : table[f] = payload
    PROVE  LET filled == [table EXCEPT ![k] = payload]
           IN  /\ \A f \in 1..((k + 1) - 1) : f \in File => filled[f] = payload
               /\ k = FileCount => AllAre(filled, payload)
<1> DEFINE filled == [table EXCEPT ![k] = payload]
<1>1. \A f \in File : f = k \/ f \in 1..(k - 1) => filled[f] = payload
  BY DEF Table
<1>2. k \in Nat /\ FileCount \in Nat
  BY ReleaseAssumption DEF File
<1>3. \A f \in 1..((k + 1) - 1) : f = k \/ f \in 1..(k - 1)
  BY <1>2
<1>4. k = FileCount => \A f \in File : f = k \/ f \in 1..(k - 1)
  BY <1>2 DEF File
<1> HIDE DEF filled
<1>5. /\ \A f \in 1..((k + 1) - 1) : f \in File => filled[f] = payload
      /\ k = FileCount => AllAre(filled, payload)
  BY <1>1, <1>3, <1>4 DEF AllAre
<1> QED  BY <1>5 DEF filled

LEMMA MakingGoal ==
    ASSUME NEW r, Shape(r), r.at \in Making
    PROVE  r.goal \in {"execute", "finalize"}
  BY DEF Shape, Building, Covered, Linked, Gating, Making, Composing

LEMMA WriteFilePacked ==
    ASSUME Types, Current, Packed, Uncut, NEW t \in Thread, WriteFile(t)
    PROVE  Packed'
<1>0. PICK r : r = request[t]
  OBVIOUS
<1> DEFINE w == package[PackageOf(r)]
           files == [w.files EXCEPT ![r.file] = r.payload]
<1>1. PICK m : /\ Goes(t, m) /\ Same(m, r)
               /\ m.payload = r.payload /\ m.hashes = r.hashes /\ m.file \in File
               /\ \/ r.file < FileCount /\ m.at = "files" /\ m.file = r.file + 1
                  \/ r.file = FileCount /\ m.at = "hash" /\ m.file = 1
  BY <1>0, WriteFileMoves
<1>2. /\ AtStep(t, "files") /\ UNCHANGED <<stored, finalization>>
      /\ PackageOf(r) \in Package
      /\ package' = [package EXCEPT ![PackageOf(r)] = [w EXCEPT !.files = [@ EXCEPT ![r.file] = r.payload]]]
  BY <1>0, WriteFileMoves DEF runFiles
<1>3. /\ PackedRequest(r, w, finalization) /\ r.at = "files" /\ r # Idle
      /\ Shape(r) /\ r.goal \in {"execute", "finalize"} /\ r.file \in File
  BY <1>0, <1>2, AtStepPacked, MakingGoal DEF AtStep, ShapeOfFiles, Making, Composing
<1>4. w \in [files : Table, manifest : Table]
  BY <1>2 DEF Types, FilesOK
<1>5. /\ package'[PackageOf(r)] = [w EXCEPT !.files = files]
      /\ package' = [package EXCEPT ![PackageOf(r)] = package'[PackageOf(r)]]
  BY <1>2 DEF Types, FilesOK
<1>6. package'[PackageOf(r)].files = files
  BY <1>4, <1>5
<1>7. /\ \A f \in 1..((r.file + 1) - 1) : f \in File => files[f] = r.payload
      /\ r.file = FileCount => AllAre(files, r.payload)
  <2>1. \A f \in 1..(r.file - 1) : w.files[f] = r.payload
    BY <1>3 DEF PackedRequest
  <2> QED  BY <1>3, <1>4, <2>1, FilledOne
<1>8. m.at = "files" => \A f \in 1..(m.file - 1) : files[f] = m.payload
  <2>1. m.at = "files" => 1..((r.file + 1) - 1) \subseteq File
    BY <1>1, <1>3, ReleaseAssumption DEF File
  <2> QED  BY <1>1, <1>7, <2>1
<1>9. m.at = "hash" => \A f \in 1..(m.file - 1) : m.hashes[f] = m.payload
  BY <1>1
<1> HIDE DEF files, w
<1>10. PackedRequest(m, package'[PackageOf(r)], finalization)
  BY <1>1, <1>3, <1>6, <1>7, <1>8, <1>9 DEF PackedRequest, Same, Making, Composing
<1>11. m # Idle /\ m.goal = r.goal /\ m.at \in PackageSteps
  BY <1>1 DEF Same, PackageSteps
<1> QED
  BY <1>0, <1>1, <1>2, <1>3, <1>5, <1>10, <1>11, MakingStep

LEMMA HashFilePacked ==
    ASSUME Types, Current, Packed, Uncut, NEW t \in Thread, HashFile(t)
    PROVE  Packed'
<1>0. PICK r : r = request[t]
  OBVIOUS
<1> DEFINE w == package[PackageOf(r)]
<1>1. PICK m : /\ Goes(t, m) /\ Same(m, r)
               /\ m.payload = r.payload /\ m.file \in File
               /\ m.hashes = [r.hashes EXCEPT
                      ![r.file] = package[PackageOf(r)].files[r.file]]
               /\ \/ r.file < FileCount /\ m.at = "hash" /\ m.file = r.file + 1
                  \/ r.file = FileCount /\ m.at = "manifest" /\ m.file = 1
  BY <1>0, HashFileMoves
<1>2. /\ AtStep(t, "hash") /\ UNCHANGED <<stored, finalization, package>>
      /\ PackageOf(r) \in Package
  BY <1>0, HashFileMoves DEF Quiet, runFiles
<1>3. /\ PackedRequest(r, w, finalization) /\ r.at = "hash" /\ r # Idle
      /\ Shape(r) /\ r.goal \in {"execute", "finalize"} /\ r.file \in File /\ r.hashes \in Table
  BY <1>0, <1>2, AtStepPacked, MakingGoal DEF AtStep, ShapeOfFiles, Making, Composing
<1>4. /\ package'[PackageOf(r)] = w
      /\ package' = [package EXCEPT ![PackageOf(r)] = package'[PackageOf(r)]]
  BY <1>2 DEF Types, FilesOK
<1>5. m.hashes = [r.hashes EXCEPT ![r.file] = r.payload]
  BY <1>1, <1>3 DEF PackedRequest, AllAre
<1>6. /\ \A f \in 1..((r.file + 1) - 1) : f \in File => m.hashes[f] = r.payload
      /\ r.file = FileCount => AllAre(m.hashes, r.payload)
  <2> DEFINE hashes == [r.hashes EXCEPT ![r.file] = r.payload]
  <2>1. \A f \in 1..(r.file - 1) : r.hashes[f] = r.payload
    BY <1>3 DEF PackedRequest
  <2>2. /\ \A f \in 1..((r.file + 1) - 1) : f \in File => hashes[f] = r.payload
        /\ r.file = FileCount => AllAre(hashes, r.payload)
    BY <1>3, <2>1, FilledOne
  <2>3. m.hashes = hashes
    BY <1>5
  <2> HIDE DEF hashes
  <2> QED  BY <2>2, <2>3
<1>7. m.at = "hash" => \A f \in 1..(m.file - 1) : m.hashes[f] = m.payload
  <2>1. m.at = "hash" => 1..((r.file + 1) - 1) \subseteq File
    BY <1>1, <1>3, ReleaseAssumption DEF File
  <2> QED  BY <1>1, <1>6, <2>1
<1> HIDE DEF w
<1>8. PackedRequest(m, package'[PackageOf(r)], finalization)
  BY <1>1, <1>3, <1>4, <1>6, <1>7 DEF PackedRequest, Same, Making, Composing
<1> QED
  BY <1>0, <1>1, <1>2, <1>3, <1>4, <1>8, MakingStep DEF Same, PackageSteps

LEMMA WriteManifestPacked ==
    ASSUME Types, Current, Packed, Uncut, NEW t \in Thread, WriteManifest(t)
    PROVE  Packed'
<1>0. PICK r : r = request[t]
  OBVIOUS
<1> DEFINE w == package[PackageOf(r)]
<1>1. PICK m : /\ Goes(t, m) /\ Same(m, r)
               /\ m.at = "reread" /\ m.payload = r.payload /\ m.file = r.file
               /\ m.hashes = NoFile
  BY <1>0, WriteManifestMoves
<1>2. /\ AtStep(t, "manifest") /\ UNCHANGED <<stored, finalization>>
      /\ PackageOf(r) \in Package
      /\ package' = [package EXCEPT ![PackageOf(r)] = [w EXCEPT !.manifest = r.hashes]]
  BY <1>0, WriteManifestMoves DEF runFiles
<1>3. /\ PackedRequest(r, w, finalization) /\ r.at = "manifest" /\ r # Idle
      /\ Shape(r) /\ r.goal \in {"execute", "finalize"}
  BY <1>0, <1>2, AtStepPacked, MakingGoal DEF AtStep, Making, Composing
<1>4. w \in [files : Table, manifest : Table]
  BY <1>2 DEF Types, FilesOK
<1>5. /\ package'[PackageOf(r)] = [w EXCEPT !.manifest = r.hashes]
      /\ package' = [package EXCEPT ![PackageOf(r)] = package'[PackageOf(r)]]
  BY <1>2 DEF Types, FilesOK
<1>6. package'[PackageOf(r)].files = w.files /\ package'[PackageOf(r)].manifest = r.hashes
  BY <1>4, <1>5
<1> HIDE DEF w
<1>7. PackedRequest(m, package'[PackageOf(r)], finalization)
  BY <1>1, <1>3, <1>6 DEF PackedRequest, Same, Making, Composing
<1>8. m # Idle /\ m.goal = r.goal /\ m.at \in PackageSteps
  BY <1>1 DEF Same, PackageSteps
<1> QED
  BY <1>0, <1>1, <1>2, <1>3, <1>5, <1>7, <1>8, MakingStep

LEMMA ReadManifestPacked ==
    ASSUME Types, Current, Packed, Uncut, NEW t \in Thread, ReadManifest(t)
    PROVE  Packed'
<1>0. PICK r : r = request[t]
  OBVIOUS
<1> DEFINE w == package[PackageOf(r)]
<1>1. PICK m : /\ Goes(t, m) /\ Same(m, r)
               /\ m.at = "verify" /\ m.payload = r.payload /\ m.file = r.file
               /\ m.hashes = package[PackageOf(r)].manifest
  BY <1>0, ReadManifestMoves
<1>2. /\ AtStep(t, "reread") /\ UNCHANGED <<stored, finalization, package>>
      /\ PackageOf(r) \in Package
  BY <1>0, ReadManifestMoves DEF Quiet, runFiles
<1>3. /\ PackedRequest(r, w, finalization) /\ r.at = "reread" /\ r # Idle
      /\ Shape(r) /\ r.goal \in {"execute", "finalize"}
  BY <1>0, <1>2, AtStepPacked, MakingGoal DEF AtStep, Making, Composing
<1>4. /\ package'[PackageOf(r)] = w
      /\ package' = [package EXCEPT ![PackageOf(r)] = package'[PackageOf(r)]]
  BY <1>2 DEF Types, FilesOK
<1>5. m.hashes = w.manifest
  BY <1>1
<1> HIDE DEF w
<1>6. PackedRequest(m, package'[PackageOf(r)], finalization)
  BY <1>1, <1>3, <1>4, <1>5 DEF PackedRequest, Same, Making, Composing
<1> QED
  BY <1>0, <1>1, <1>2, <1>3, <1>4, <1>6, MakingStep DEF Same, PackageSteps

\* The verification finds what was written.
LEMMA VerifyFilePacked ==
    ASSUME Types, Current, Packed, Uncut, NEW t \in Thread, VerifyFile(t)
    PROVE  Packed'
<1>0. PICK r : r = request[t]
  OBVIOUS
<1> DEFINE w == package[PackageOf(r)]
<1>1. PICK m : /\ Goes(t, m)
               /\ \/ m = Idle /\ ~FoundOk(r) /\ r.goal # "execute"
                  \/ /\ DOMAIN m = Fields /\ m # Idle
                     /\ m.goal = r.goal /\ m.audit = r.audit
                     /\ m.ok \in BOOLEAN /\ (m.ok <=> FoundOk(r))
                     /\ m.payload = r.payload /\ m.hashes = r.hashes
                     /\ \/ m.at = "verify" /\ m.file \in File
                        \/ m.at = "store" /\ r.goal = "execute"
                        \/ m.at = "finalize" /\ r.goal # "execute"
  BY <1>0, VerifyFileMoves
<1>2. /\ AtStep(t, "verify") /\ UNCHANGED <<stored, finalization, package>>
      /\ PackageOf(r) \in Package
  BY <1>0, VerifyFileMoves DEF Quiet, runFiles
<1>3. /\ PackedRequest(r, w, finalization) /\ r.at = "verify" /\ r # Idle
      /\ Shape(r) /\ r.goal \in {"execute", "finalize"}
      /\ r.file \in File /\ r.payload \in Released
  BY <1>0, <1>2, AtStepPacked, MakingGoal DEF AtStep, ShapeOfFiles, Making, Composing
<1>4. /\ package'[PackageOf(r)] = w
      /\ package' = [package EXCEPT ![PackageOf(r)] = package'[PackageOf(r)]]
  BY <1>2 DEF Types, FilesOK
<1>5. /\ r.ok /\ AllAre(w.files, r.payload) /\ AllAre(w.manifest, r.payload)
      /\ AllAre(r.hashes, r.payload) /\ r.payload.audit = r.audit.n
      /\ r.goal = "execute" => r.audit.export = "verified"
  BY <1>3 DEF PackedRequest, Making, Composing
<1>6. FoundOk(r)
  BY <1>3, <1>5 DEF FoundOk, AllAre
<1>7. Backs(w, r.audit.n)
  <2>1. w.files[1] = r.payload
    BY <1>5, NewFields DEF AllAre
  <2> QED  BY <1>3, <1>5, <2>1 DEF Backs, Whole
<1> HIDE DEF w
<1>8. PackedRequest(m, package'[PackageOf(r)], finalization)
  BY <1>1, <1>4, <1>5, <1>6, <1>7 DEF PackedRequest, Making, Composing
<1> QED
  BY <1>0, <1>1, <1>2, <1>3, <1>4, <1>6, <1>8, MakingStep DEF PackageSteps

LEMMA StoreAuditPacked ==
    ASSUME Types, Current, Packed, Uncut, NEW t \in Thread, StoreAudit(t)
    PROVE  Packed'
<1>0. PICK r : r = request[t]
  OBVIOUS
<1>1. PICK m : Goes(t, m) /\ DOMAIN m = Fields /\ m # Idle
               /\ m.at = "reset" /\ m.goal = "execute" /\ m.ok = TRUE
  BY <1>0, StoreAuditMoves
<1>2. /\ AtStep(t, "store") /\ r.goal = "execute"
      /\ stored' \in Audit /\ stored'.n = r.audit.n /\ ~stored'.finalized
      /\ r.ok => stored' = r.audit
      /\ UNCHANGED <<finalization, package>>
  BY <1>0, StoreAuditMoves
<1>3. /\ PackedRequest(r, package["exported"], finalization) /\ r.at = "store" /\ r # Idle
  BY <1>0, <1>2, AtStepPacked DEF PackageOf
<1>4. stored' = r.audit /\ (stored'.export = "verified" => Backs(package["exported"], stored'.n))
  BY <1>2, <1>3 DEF PackedRequest
<1>5. Writing("finalize")' = Writing("finalize")
  <2>1. Writes(request[t], "finalize") = Writes(m, "finalize")
    BY <1>0, <1>1, <1>2 DEF Writes
  <2> QED  BY <1>1, <2>1, WritingMoves
<1>6. ExportBacks' /\ ReleaseBacks' /\ FinalizedBacks'
  BY <1>2, <1>4, <1>5 DEF Packed, ExportBacks, ReleaseBacks, FinalizedBacks
<1>7. OneFinalizes'
  BY <1>0, <1>1, <1>2, <1>3, OneFinalizesStep DEF Packed
<1>8. OthersKeep(t)
  BY <1>2 DEF OthersKeep
<1>9. PackedRequest(m, package'[PackageOf(m)], finalization')
  BY <1>1, ApartPacked DEF Apart, PackageSteps
<1> QED
  BY <1>1, <1>6, <1>7, <1>8, <1>9, PackedStep

\* Requests that review, build and gate.
LEMMA ApartContinues ==
    ASSUME Types, Current, Packed, Uncut, NEW t \in Thread,
           \/ ResetReview(t) \/ WriteBaseline(t) \/ WriteDecision(t) \/ WriteNarrative(t)
           \/ ReadForCoverage(t) \/ WriteCoverage(t)
           \/ ReadForDossier(t) \/ ReadCoverage(t) \/ WriteDossier(t)
           \/ ReadForGate(t) \/ ReadMatrix(t) \/ ReadDossier(t) \/ ReadReview(t) \/ WriteGate(t)
    PROVE  Packed'
<1>0. PICK r : r = request[t]
  OBVIOUS
<1>1. PICK m : /\ Goes(t, m) /\ UNCHANGED <<stored, finalization, package>>
               /\ r # Idle /\ Apart(r)
               /\ m # Idle => m.goal = r.goal /\ Apart(m)
  <2>1. CASE WriteNarrative(t)
    BY <1>0, <2>1, WriteNarrativeMoves DEF AtStep, Apart, PackageSteps
  <2>2. CASE ~WriteNarrative(t)
    <3>1. PICK m : /\ Goes(t, m) /\ r # Idle /\ Apart(r)
                   /\ m # Idle => m.goal = r.goal /\ m.at \in Building \cup {"decide"}
                   /\ UNCHANGED <<stored, finalization, package>>
      BY <1>0, <2>2, BuildsMove
    <3> QED
      BY <3>1 DEF Apart, PackageSteps, Building, Covered, Linked, Gating
  <2> QED  BY <2>1, <2>2
<1>2. OneFinalizes'
  BY <1>0, <1>1, OneFinalizesStep DEF Packed
<1> QED
  BY <1>0, <1>1, <1>2, ApartStep

LEMMA ComposesPacked ==
    ASSUME Types, Current, Packed, Uncut, NEW t \in Thread, NEW r, r = request[t],
           r # Idle, Apart(r), r.goal = "finalize", Quiet,
           NEW m, Goes(t, m), Composes(m, r)
    PROVE  Packed'
<1>1. UNCHANGED <<stored, finalization, package>> /\ m # Idle /\ m.goal = "finalize"
  BY DEF Quiet, runFiles, Composes
<1>2. CASE m.at = "files"
  <2>1. PackageOf(r) \in Package /\ package = [package EXCEPT ![PackageOf(r)] = @]
    BY DEF Types, FilesOK, PackageOf, Package
  <2>2. PackedRequest(m, package'[PackageOf(r)], finalization)
    BY <1>2 DEF PackedRequest, Composes, Making
  <2> QED
    BY <1>1, <1>2, <2>1, <2>2, MakingStep DEF PackageSteps
<1>3. CASE m.at \in Composing
  <2>1. OneFinalizes'
    BY <1>1, OneFinalizesStep DEF Packed
  <2> QED
    BY <1>1, <1>3, <2>1, ApartStep DEF Apart, Composing, PackageSteps
<1> QED
  BY <1>2, <1>3 DEF Composes

LEMMA ComposePacked ==
    ASSUME Types, Current, Packed, Uncut, NEW t \in Thread,
           Compose(t) \/ ReadReport(t) \/ ReadNarrative(t)
    PROVE  Packed'
<1>0. PICK r : r = request[t]
  OBVIOUS
<1>1. PICK m : Goes(t, m) /\ Composes(m, r)
  BY <1>0, ComposeMoves, ReportMoves
<1>2. AtStep(t, r.at) /\ r.at \in Composing \cup {"compose"} /\ r.goal = "finalize" /\ Quiet
  BY <1>0, ComposeMoves, ReportMoves DEF AtStep
<1>3. r # Idle /\ Apart(r)
  BY <1>0, <1>2 DEF AtStep, Apart, Composing, PackageSteps
<1> QED
  BY <1>0, <1>1, <1>2, <1>3, ComposesPacked

LEMMA WriteFinalizationPacked ==
    ASSUME Types, Current, Packed, Uncut, NEW t \in Thread, WriteFinalization(t)
    PROVE  Packed'
<1>0. PICK r : r = request[t]
  OBVIOUS
<1>1. PICK m : /\ Goes(t, m) /\ DOMAIN m = Fields /\ m # Idle
               /\ m.at = "detail" /\ m.goal = "finalize" /\ m.audit = r.audit /\ m.ok = TRUE
  BY <1>0, WriteFinalizationMoves
<1>2. /\ AtStep(t, "finalize") /\ r.goal = "finalize"
      /\ r.payload \in Released /\ finalization' = r.payload
      /\ UNCHANGED <<stored, package>>
  BY <1>0, WriteFinalizationMoves
<1>3. PackedRequest(r, package["released"], finalization) /\ r.at = "finalize" /\ r # Idle
  BY <1>0, <1>2, AtStepPacked DEF PackageOf
<1>4. /\ r.payload.audit = r.audit.n /\ Whole(package["released"], r.payload)
  BY <1>3 DEF PackedRequest, Whole
<1>5. r.audit.n = stored.n
  BY <1>0, <1>2, AtStepCurrent DEF CurrentRequest, Uncut
<1>6. Writing("execute")' = Writing("execute")
  <2>1. Writes(request[t], "execute") = Writes(m, "execute")
    BY <1>0, <1>1, <1>2 DEF Writes
  <2> QED  BY <1>1, <2>1, WritingMoves
<1>7. ExportBacks' /\ ReleaseBacks' /\ FinalizedBacks'
  BY <1>2, <1>4, <1>5, <1>6 DEF Packed, ExportBacks, ReleaseBacks, FinalizedBacks
<1>8. OneFinalizes'
  BY <1>0, <1>1, <1>2, <1>3, OneFinalizesStep DEF Packed
<1>9. OthersKeep(t)
  <2>1. Lone /\ OneFinalizes
    BY DEF Current, Packed, Uncut
  <2> QED  BY <1>0, <1>2, <1>3, <2>1 DEF OthersKeep, Lone, OneFinalizes
<1>10. PackedRequest(m, package'[PackageOf(m)], finalization')
  BY <1>1, <1>2, <1>4 DEF PackedRequest, Making, Composing
<1> QED
  BY <1>1, <1>7, <1>8, <1>9, <1>10, PackedStep

LEMMA WriteBackPacked ==
    ASSUME Types, Current, Packed, Uncut, NEW t \in Thread, WriteBack(t)
    PROVE  Packed'
<1>0. PICK r : r = request[t]
  OBVIOUS
<1>1. /\ AtStep(t, "detail") /\ r.goal = "finalize" /\ Goes(t, Idle)
      /\ stored' \in Audit /\ stored'.finalized
      /\ stored'.n = r.audit.n /\ stored'.export = r.audit.export
      /\ UNCHANGED <<finalization, package>>
  BY <1>0, WriteBackMoves
<1>2. PackedRequest(r, package["released"], finalization) /\ r.at = "detail" /\ r # Idle
  BY <1>0, <1>1, AtStepPacked DEF PackageOf
<1>3. stored'.n = stored.n /\ stored'.export = stored.export /\ stored \in Audit
  BY <1>0, <1>1, AtStepCurrent DEF CurrentRequest, Uncut, AtStep
<1>4. \A goal : Writing(goal)' = Writing(goal)
  <2> TAKE goal
  <2>1. Writes(request[t], goal) = Writes(Idle, goal)
    BY <1>0, <1>2 DEF Writes, PackageSteps
  <2> QED  BY <1>1, <2>1, WritingMoves
<1>5. stored # None
  BY <1>3, NoneIsNoFile DEF Audit
<1>6. ExportBacks' /\ ReleaseBacks'
  BY <1>1, <1>3, <1>4, <1>5 DEF Packed, ExportBacks, ReleaseBacks
<1>7. FinalizedBacks'
  BY <1>1, <1>2 DEF FinalizedBacks, PackedRequest
<1>8. OneFinalizes'
  BY <1>0, <1>1, <1>2, OneFinalizesStep DEF Packed
<1>9. OthersKeep(t)
  BY <1>1 DEF OthersKeep
<1> QED
  BY <1>1, <1>6, <1>7, <1>8, <1>9, PackedStep

\* A request that begins as m overlaps with no execution, or is alone.
LEMMA ServeUncut ==
    ASSUME Types, Packed, Uncut', NEW t \in Thread, NEW m, Serve(t, m)
    PROVE  /\ Uncut /\ Goes(t, m) /\ request[t] = Idle
           /\ m.goal = "execute" => \A u \in Thread : request[u] = Idle
           /\ OneFinalizes'
<1>1. /\ Uncut /\ Goes(t, m) /\ request[t] = Idle
      /\ \A u \in Thread : request[u] # Idle => m.goal # "execute"
      /\ \A u \in Thread : request[u] # Idle => {m.goal, request[u].goal} # {"finalize"}
  BY DEF Serve, Uncut, Busy, Goes
<1>2. /\ request'[t] = m
      /\ \A s \in Thread : s # t => request'[s] = request[s]
  BY <1>1 DEF Types, Goes
<1>3. \A u \in Thread : request[u] # Idle => ~(m.goal = "finalize" /\ request[u].goal = "finalize")
  BY <1>1
<1>4. OneFinalizes'
  BY <1>1, <1>2, <1>3 DEF Packed, OneFinalizes
<1> QED
  BY <1>1, <1>4

LEMMA BeginPacked ==
    ASSUME Types, Packed, Uncut', NEW t \in Thread,
           Execute(t) \/ Review(t) \/ Augment(t) \/ Build(t) \/ Finalize(t)
    PROVE  Packed'
<1>1. CASE Execute(t)
  <2>1. PICK m : /\ Serve(t, m) /\ DOMAIN m = Fields /\ m # Idle
                 /\ m.goal = "execute" /\ m.ok = TRUE
                 /\ m.audit \in Audit /\ ~m.audit.finalized
                 /\ Bare(m) \/ Packing(m)
                 /\ audits' \in Nat
                 /\ UNCHANGED <<runFiles, package, history>>
    BY <1>1, ExecuteMoves
  <2>2. Uncut /\ Goes(t, m) /\ request[t] = Idle /\ OneFinalizes'
    BY <2>1, ServeUncut
  <2>3. UNCHANGED <<stored, finalization, package>>
    BY <2>1 DEF runFiles
  <2>4. Writing("execute")' /\ Writing("finalize")' = Writing("finalize")
    <3>1. Writes(m, "execute") /\ Writes(request[t], "finalize") = Writes(m, "finalize")
      BY <2>1, <2>2 DEF Writes, Bare, Packing, PackageSteps
    <3> QED  BY <2>2, <3>1, WritingMoves
  <2>5. ExportBacks' /\ ReleaseBacks' /\ FinalizedBacks'
    BY <2>2, <2>3, <2>4 DEF Packed, ExportBacks, ReleaseBacks, FinalizedBacks
  <2>6. OthersKeep(t)
    BY <2>3 DEF OthersKeep
  <2>7. PackedRequest(m, package'[PackageOf(m)], finalization')
    BY <2>1 DEF PackedRequest, Bare, Packing, Making, Composing
  <2> QED
    BY <2>2, <2>5, <2>6, <2>7, PackedStep
<1>2. CASE Review(t) \/ Augment(t) \/ Build(t) \/ Finalize(t)
  <2>1. PICK m : Serve(t, m) /\ Apart(m) /\ UNCHANGED <<stored, finalization, package>>
    <3>1. CASE Review(t)
      <4>1. PICK m : /\ Serve(t, m) /\ DOMAIN m = Fields /\ m # Idle
                     /\ m.goal \in {"review", "look"} /\ m.ok \in BOOLEAN
                     /\ m.review \in ReviewFile
                     /\ \/ /\ m.at = "baseline" /\ review = None
                           /\ m.review.of = stored.n /\ ~m.review.approved
                        \/ m.at = "decide" /\ review # None /\ m.review = review
        BY <3>1, ReviewMoves
      <4> QED
        BY <3>1, <4>1, ReviewMoves DEF Quiet, runFiles, Apart, PackageSteps
    <3>2. CASE Build(t)
      <4>1. PICK m : /\ Serve(t, m) /\ DOMAIN m = Fields /\ m # Idle
                     /\ m.at \in {"coverage", "dossier", "gate"} /\ m.goal = m.at /\ m.ok = TRUE
        BY <3>2, BuildMoves
      <4> QED
        BY <3>2, <4>1, BuildMoves DEF Quiet, runFiles, Apart, PackageSteps
    <3>3. CASE Finalize(t)
      <4>1. PICK m : /\ Serve(t, m) /\ DOMAIN m = Fields /\ m # Idle
                     /\ m.at = "coverage" /\ m.goal = "finalize" /\ m.audit = stored /\ m.ok = TRUE
        BY <3>3, FinalizeMoves
      <4> QED
        BY <3>3, <4>1, FinalizeMoves DEF Quiet, runFiles, Apart, PackageSteps
    <3>4. CASE Augment(t)
      <4>1. PICK m : /\ Serve(t, m) /\ DOMAIN m = Fields /\ m # Idle
                     /\ m.at = "narrate" /\ m.goal = "augment"
        BY <3>4, AugmentMoves
      <4> QED
        BY <3>4, <4>1, AugmentMoves DEF Quiet, runFiles, Apart, PackageSteps
    <3> QED
      BY <1>2, <3>1, <3>2, <3>3, <3>4
  <2>2. Uncut /\ Goes(t, m) /\ request[t] = Idle /\ OneFinalizes'
    BY <2>1, ServeUncut
  <2> QED
    BY <2>1, <2>2, ApartStep
<1> QED
  BY <1>1, <1>2

\* A death that cuts no package short leaves those that were made.
LEMMA DiePacked ==
    ASSUME Packed, Die
    PROVE  Packed'
<1> SUFFICES ASSUME Uncut' PROVE Packed'
  BY DEF Packed
<1>1. /\ Uncut /\ UNCHANGED <<stored, finalization, package>>
      /\ request' = [t \in Thread |-> Idle]
      /\ \A t \in Thread : request[t] # Idle => request[t].at \in interrupted'
  BY DEF Die, Uncut, Busy, runFiles
<1>2. \A goal : ~Writing(goal)
  BY <1>1 DEF Writing, Busy, Uncut
<1>3. ExportBacks' /\ ReleaseBacks' /\ FinalizedBacks'
  BY <1>1, <1>2 DEF Packed, ExportBacks, ReleaseBacks, FinalizedBacks
<1>4. OneFinalizes' /\ \A t \in Thread : request'[t] = Idle
  BY <1>1 DEF OneFinalizes
<1> QED
  BY <1>3, <1>4 DEF Packed

LEMMA PackedNext ==
    ASSUME Types, Current, Packed, [Next]_vars
    PROVE  Packed'
<1>1. CASE Die
  BY <1>1, DiePacked
<1>2. ASSUME NEW t \in Thread, Continue(t) PROVE Packed'
  <2>1. Uncut' = Uncut
    BY <1>2, ContinueCounts DEF counters, Uncut
  <2>2. CASE Uncut
    BY <1>2, <2>2, WriteFilePacked, HashFilePacked, WriteManifestPacked, ReadManifestPacked,
       VerifyFilePacked, StoreAuditPacked, ApartContinues, ComposePacked,
       WriteFinalizationPacked, WriteBackPacked DEF Continue
  <2>3. CASE ~Uncut
    BY <2>1, <2>3 DEF Packed
  <2> QED
    BY <2>2, <2>3
<1>3. ASSUME NEW t \in Thread,
             Execute(t) \/ Review(t) \/ Augment(t) \/ Build(t) \/ Finalize(t)
      PROVE  Packed'
  BY <1>3, BeginPacked DEF Packed
<1>4. CASE UNCHANGED vars
  BY <1>4 DEF vars, runFiles, counters, Packed, Uncut, OneFinalizes, ExportBacks, ReleaseBacks,
     FinalizedBacks, Writing, Busy
<1> QED
  BY <1>1, <1>2, <1>3, <1>4 DEF Next

LEMMA PackedInit == Init => Packed
  BY DEF Init, Packed, OneFinalizes, ExportBacks, ReleaseBacks, FinalizedBacks

-----------------------------------------------------------------------------
(* What the theorems rest on.                                              *)

ReleaseInv == Types /\ Earned /\ Current /\ Turned /\ Told /\ Packed

LEMMA ReleaseInvHolds == Spec => []ReleaseInv
<1>1. Init => ReleaseInv
  BY TypesInit, EarnedInit, CurrentInit, TurnedInit, ToldInit, PackedInit DEF ReleaseInv
<1>2. ReleaseInv /\ [Next]_vars => ReleaseInv'
  BY TypesStep, EarnedNext, CurrentNext, TurnedNext, ToldNext, PackedNext DEF ReleaseInv
<1> QED
  BY <1>1, <1>2, PTL DEF Spec

\* A gate opens for an audit that was clean and exported as verified, and that
\* a reviewer approved unless an execution overlapped or died before it reset
\* the review: for any threads, audits and requests, whichever of them overlap
\* and wherever the process dies.
THEOREM GateIsEarned == Spec => []ReadyIsEarned
<1>1. ReleaseInv => ReadyIsEarned
  BY DEF ReleaseInv, Earned, EarnedFiles, Turned, GateFits, ReadyIsEarned
<1> QED
  BY <1>1, ReleaseInvHolds, PTL

\* What decides of a release is of one audit, the one that was approved, whatever
\* the files on disk were made of before, and however many finalizations, builds
\* and reviews overlap.  The narrative of models in its report is of no later
\* audit; it is of the audit on file once a narrative was made of that one.
THEOREM ReleaseIsOneAudit == Spec => []ReleasedIsOneAudit
<1>1. ReleaseInv => ReleasedIsOneAudit
  <2> SUFFICES ASSUME ReleaseInv PROVE ReleasedIsOneAudit
    OBVIOUS
  <2>1. finalization # None => finalization.parts \cap releasable # {} /\ approved # {}
    BY DEF ReleaseInv, Earned, EarnedFiles, EarnedParts
  <2>2. finalization # None /\ TurnsTaken =>
            finalization.audit \in approved /\ finalization.parts = {finalization.audit}
    BY DEF ReleaseInv, Turned, ReleaseFits, OneOf
  <2>3. finalization # None /\ TurnsTaken =>
            \A n \in finalization.narratives : n <= finalization.audit
    BY DEF ReleaseInv, Told, ToldFiles, NotLater, TurnsTaken
  <2>4. ~raced /\ stored # None /\ stored.n \in narrated => narrative = stored.n
    BY DEF ReleaseInv, Told, ToldFiles
  <2> QED
    BY <2>1, <2>2, <2>3, <2>4 DEF ReleasedIsOneAudit
<1> QED
  BY <1>1, ReleaseInvHolds, PTL

\* A package that the detail or the finalization calls verified is whole and is
\* the one they speak of, for any number of files and threads, unless a death
\* or another writer cut into it.
THEOREM PackagesBacked == Spec => []PackagesAreBacked
<1>1. ReleaseInv => PackagesAreBacked
  <2> SUFFICES ASSUME ReleaseInv, Uncut PROVE
        /\ stored # None /\ stored.export = "verified" /\ ~Writing("execute") =>
              LET made(x) == x.audit = stored.n IN IsWhole("exported", made)
        /\ finalization # None /\ ~Writing("finalize") =>
              LET made(x) == x = finalization IN IsWhole("released", made)
        /\ stored # None /\ stored.finalized =>
              finalization # None /\ finalization.audit = stored.n
    BY DEF PackagesAreBacked, Uncut
  <2>1. \A x \in Released : x # None
    BY NoneIsNoFile DEF Released
  <2>2. \A p \in Package : package[p] \in [files : Table, manifest : Table]
    BY DEF ReleaseInv, Types, FilesOK
  <2>3. ASSUME NEW p \in Package, NEW x \in Released, Whole(package[p], x)
        PROVE  /\ \A f \in File : package[p].files[f] # None /\ package[p].files[f] = x
               /\ package[p].manifest = package[p].files
    BY <2>1, <2>2, <2>3 DEF Whole, AllAre, Table
  <2>4. ASSUME stored # None, stored.export = "verified", ~Writing("execute")
        PROVE  LET made(x) == x.audit = stored.n IN IsWhole("exported", made)
    <3>1. Backs(package["exported"], stored.n)
      BY <2>4 DEF ReleaseInv, Packed, ExportBacks
    <3> QED
      BY <2>3, <3>1 DEF Backs, IsWhole, Package
  <2>5. ASSUME finalization # None, ~Writing("finalize")
        PROVE  LET made(x) == x = finalization IN IsWhole("released", made)
    <3>1. Whole(package["released"], finalization) /\ finalization \in Released
      BY <2>5 DEF ReleaseInv, Types, FilesOK, Holds, Packed, ReleaseBacks
    <3> QED
      BY <2>3, <3>1 DEF IsWhole, Package
  <2>6. ASSUME stored # None, stored.finalized
        PROVE  finalization # None /\ finalization.audit = stored.n
    BY <2>1, <2>6 DEF ReleaseInv, Packed, FinalizedBacks
  <2> QED  BY <2>4, <2>5, <2>6
<1> QED
  BY <1>1, ReleaseInvHolds, PTL
=============================================================================
