----------------------------- MODULE IntakeProofs -----------------------------
(***************************************************************************)
(* What holds of EvidenceIntake for any tenants, audits, contents and      *)
(* categories, any number of sessions, rows and deaths.  Every step leaves *)
(* the evidence rows alone, adds a row or changes one that is not READY;   *)
(* the theorems follow from that.                                          *)
(***************************************************************************)
EXTENDS EvidenceIntake, FiniteSetTheorems, TLAPS

\* Which writes a finalization has carried out.
LEMMA FinalizePrefix ==
    ASSUME NEW n \in 1..Len(FinalizeWrites)
    PROVE  LET done == Prefix(FinalizeWrites, n)
           IN  /\ "complete" \in done => "register" \in done
               /\ "job" \in done => "complete" \in done
               /\ "session" \in done => "job" \in done
<1> DEFINE done == Prefix(FinalizeWrites, n)
<1>1. n \in Nat /\ FinalizeWrites[1] = "blob" /\ FinalizeWrites[2] = "register"
      /\ FinalizeWrites[3] = "complete" /\ FinalizeWrites[4] = "job"
      /\ FinalizeWrites[5] = "session" /\ n \in 1..5
    BY DEF FinalizeWrites
<1>2. /\ "register" \in done <=> 2 <= n
      /\ "complete" \in done <=> 3 <= n
      /\ "job" \in done <=> 4 <= n
      /\ "session" \in done <=> 5 <= n
    BY <1>1, SMT DEF Prefix
<1> QED
    BY <1>1, <1>2, SMT

\* Which writes a run of a job has carried out.
LEMMA RunPrefix ==
    ASSUME NEW n \in 1..Len(RunWrites)
    PROVE  "result" \in Prefix(RunWrites, n) => "ready" \in Prefix(RunWrites, n)
<1>1. RunWrites[1] = "taken" /\ RunWrites[2] = "ready" /\ RunWrites[3] = "result"
      /\ n \in 1..3
    BY DEF RunWrites
<1> QED
    BY <1>1, SMT DEF Prefix

\* A row of a file is replaced by one of its kind.
LEMMA Replace ==
    ASSUME NEW S, NEW q \in Seq(S), NEW i \in DOMAIN q, NEW x \in S
    PROVE  /\ [q EXCEPT ![i] = x] \in Seq(S)
           /\ DOMAIN [q EXCEPT ![i] = x] = DOMAIN q
           /\ Len([q EXCEPT ![i] = x]) = Len(q)
           /\ [q EXCEPT ![i] = x][i] = x
           /\ \A j \in DOMAIN q \ {i} : [q EXCEPT ![i] = x][j] = q[j]
    OBVIOUS

\* A row of its kind is added to a file.
LEMMA Add ==
    ASSUME NEW S, NEW q \in Seq(S), NEW x \in S
    PROVE  /\ Append(q, x) \in Seq(S)
           /\ DOMAIN Append(q, x) = DOMAIN q \cup {Len(q) + 1}
           /\ Len(Append(q, x)) = Len(q) + 1
           /\ Append(q, x)[Len(q) + 1] = x
           /\ \A j \in DOMAIN q : Append(q, x)[j] = q[j]
           /\ Len(q) + 1 \notin DOMAIN q
    OBVIOUS

-----------------------------------------------------------------------------
(* What a step does to each file, row by row.                               *)

Dead == {"CANCELLED", "FAILED"}

EvStep ==
    /\ evidence' \in Seq(EvidenceRow)
    /\ DOMAIN evidence \subseteq DOMAIN evidence'
    /\ \A e \in DOMAIN evidence :
          /\ evidence'[e].file = evidence[e].file
          /\ evidence[e].status = "READY" => evidence'[e] = evidence[e]
          /\ evidence'[e].status \notin Dead => evidence[e].status \notin Dead
          /\ evidence'[e].status \notin Dead /\ evidence[e].stored => evidence'[e].stored
    /\ \A e \in DOMAIN evidence' \ DOMAIN evidence :
          /\ ~Duplicate(evidence'[e].file)
          /\ \A d \in DOMAIN evidence' \ DOMAIN evidence : d = e

JobStep ==
    /\ jobs' \in Seq(JobRow)
    /\ DOMAIN jobs \subseteq DOMAIN jobs'
    /\ \A j \in DOMAIN jobs :
          /\ jobs'[j].evidence = jobs[j].evidence
          /\ jobs'[j].status = "COMPLETED" =>
                jobs[j].status = "COMPLETED" \/ evidence'[jobs[j].evidence].status = "READY"
    /\ \A j \in DOMAIN jobs' \ DOMAIN jobs :
          LET e == jobs'[j].evidence IN
          /\ jobs'[j].status = "QUEUED"
          /\ e \in DOMAIN evidence' /\ evidence'[e].stored /\ Blob(evidence'[e].file) \in blobs'

\* A session that reads COMPLETED after a step either did before or has just
\* been completed with a row, a blob and a job.
Backed(row) ==
    /\ Blob(row.file) \in blobs'
    /\ row.evidence \in DOMAIN evidence' /\ evidence'[row.evidence].file = row.file
    /\ \E j \in DOMAIN jobs' : jobs'[j].evidence = row.evidence

SessionStep ==
    /\ sessions' \in Seq(SessionRow) /\ Len(sessions') <= MaxSessions
    /\ \A s \in DOMAIN sessions' : sessions'[s].status = "COMPLETED" =>
          \/ s \in DOMAIN sessions /\ sessions[s] = sessions'[s]
          \/ Backed(sessions'[s])

GateStep ==
    /\ gate' \in [Audit -> GateRow \cup {NoGate}]
    /\ \A a \in Audit : gate'[a].pass =>
          \/ gate'[a] = gate[a]
          \/ /\ evidence' = evidence
             /\ gate'[a].required \subseteq ReadyCategories(gate'[a].by, a)

\* A job's row exists and, unless it is dead, its file is stored.
JobsAreStored ==
    \A j \in DOMAIN jobs :
        LET e == jobs[j].evidence IN
        /\ e \in DOMAIN evidence
        /\ evidence[e].status \notin Dead => evidence[e].stored /\ Blob(evidence[e].file) \in blobs

DoneIsReady ==
    \A j \in DOMAIN jobs :
        jobs[j].status = "COMPLETED" => evidence[jobs[j].evidence].status = "READY"

IInv ==
    /\ TypeOK
    /\ Len(sessions) <= MaxSessions
    /\ CompletedIsBacked
    /\ JobsAreStored
    /\ DoneIsReady
    /\ OneLiveCopy
    /\ PassIsKept

StepOK ==
    /\ EvStep /\ JobStep /\ SessionStep /\ GateStep
    /\ blobs \subseteq blobs'
    /\ blobs' \subseteq [tenant : Tenant, audit : Audit, doc : Doc]
    /\ required' \in [Audit -> SUBSET Category]
    /\ deaths' \in 0..MaxDeaths

-----------------------------------------------------------------------------

LEMMA EvidenceKept ==
    ASSUME evidence \in Seq(EvidenceRow), evidence' = evidence
    PROVE  EvStep
    BY DEF EvStep

LEMMA EvidenceAdded ==
    ASSUME evidence \in Seq(EvidenceRow), NEW row \in EvidenceRow,
           ~Duplicate(row.file), evidence' = Append(evidence, row)
    PROVE  EvStep
<1> HIDE DEF EvidenceRow, Duplicate
<1>1. /\ evidence' \in Seq(EvidenceRow)
      /\ DOMAIN evidence' = DOMAIN evidence \cup {Len(evidence) + 1}
      /\ evidence'[Len(evidence) + 1] = row
      /\ \A e \in DOMAIN evidence : evidence'[e] = evidence[e]
    BY Add
<1> QED
    BY <1>1 DEF EvStep

LEMMA EvidenceChanged ==
    ASSUME evidence \in Seq(EvidenceRow), NEW e \in DOMAIN evidence, NEW row \in EvidenceRow,
           evidence' = [evidence EXCEPT ![e] = row],
           evidence[e].status # "READY", row.file = evidence[e].file,
           row.status \notin Dead => evidence[e].status \notin Dead,
           row.status \notin Dead /\ evidence[e].stored => row.stored
    PROVE  EvStep
<1> HIDE DEF EvidenceRow, Dead
<1>1. /\ evidence' \in Seq(EvidenceRow)
      /\ DOMAIN evidence' = DOMAIN evidence
      /\ evidence'[e] = row
      /\ \A d \in DOMAIN evidence \ {e} : evidence'[d] = evidence[d]
    BY Replace
<1> QED
    BY <1>1 DEF EvStep

LEMMA JobsKept ==
    ASSUME jobs \in Seq(JobRow), jobs' = jobs
    PROVE  JobStep
    BY DEF JobStep

LEMMA SessionsKept ==
    ASSUME sessions \in Seq(SessionRow), Len(sessions) <= MaxSessions, sessions' = sessions
    PROVE  SessionStep
    BY DEF SessionStep

LEMMA GateKept ==
    ASSUME gate \in [Audit -> GateRow \cup {NoGate}], gate' = gate
    PROVE  GateStep
    BY DEF GateStep

\* An action that writes evidence rows only.
LEMMA EvidenceOnly ==
    ASSUME IInv, OnlyEvidence, EvStep
    PROVE  StepOK
    BY JobsKept, SessionsKept, GateKept DEF IInv, TypeOK, OnlyEvidence, StepOK

\* The rows a handler writes.
LEMMA NewRowType ==
    ASSUME NEW file \in Payload, NEW s \in 0..MaxSessions, NEW b \in BOOLEAN
    PROVE  /\ NewRow(file, s) \in EvidenceRow
           /\ NewRow(file, s).file = file /\ NewRow(file, s).status = "UPLOADING"
           /\ Completed(NewRow(file, s), b) \in EvidenceRow
           /\ Completed(NewRow(file, s), b).file = file
           /\ Completed(NewRow(file, s), b).stored
           /\ Completed(NewRow(file, s), b).status \notin Dead
<1> HIDE DEF Payload
<1> QED
    BY DEF NewRow, Completed, EvidenceRow, EvidenceStatus, Dead

LEMMA RowType ==
    ASSUME evidence \in Seq(EvidenceRow), NEW e \in DOMAIN evidence
    PROVE  /\ evidence[e] \in EvidenceRow
           /\ e \in 1..Len(evidence) /\ Len(evidence) \in Nat
    OBVIOUS

-----------------------------------------------------------------------------
(* One lemma per action.                                                    *)

LEMMA StepRegisterUpload ==
    ASSUME IInv, RegisterUpload  PROVE  StepOK
<1>1. PICK file \in Payload : ~Duplicate(file) /\ evidence' = Append(evidence, NewRow(file, 0))
    BY DEF RegisterUpload
<1>2. 0 \in 0..MaxSessions
    BY IntakeAssumption
<1>3. NewRow(file, 0) \in EvidenceRow /\ NewRow(file, 0).file = file
    BY <1>2, NewRowType
<1>4. EvStep
    BY <1>1, <1>3, EvidenceAdded DEF IInv, TypeOK
<1> QED
    BY <1>4, EvidenceOnly DEF RegisterUpload

LEMMA StepCompleteUpload ==
    ASSUME IInv, CompleteUpload  PROVE  StepOK
<1>1. PICK e \in DOMAIN evidence, started \in BOOLEAN :
          evidence[e].status = "UPLOADING"
          /\ evidence' = [evidence EXCEPT ![e] = Completed(evidence[e], started)]
    BY DEF CompleteUpload, Update
<1> DEFINE row == Completed(evidence[e], started)
<1>2. evidence[e] \in EvidenceRow
    BY RowType DEF IInv, TypeOK
<1>3. row \in EvidenceRow /\ row.file = evidence[e].file /\ row.stored
    BY <1>2 DEF Completed, EvidenceRow, EvidenceStatus
<1> HIDE DEF row
<1>4. EvStep
    BY <1>1, <1>3, EvidenceChanged DEF IInv, TypeOK, Dead, row
<1> QED
    BY <1>4, EvidenceOnly DEF CompleteUpload

LEMMA StepFailUpload ==
    ASSUME IInv, FailUpload  PROVE  StepOK
<1>1. PICK e \in DOMAIN evidence :
          evidence[e].status # "READY"
          /\ evidence' = [evidence EXCEPT ![e] = [evidence[e] EXCEPT !.status = "FAILED"]]
    BY DEF FailUpload, Update, Mutable
<1> DEFINE row == [evidence[e] EXCEPT !.status = "FAILED"]
<1>2. evidence[e] \in EvidenceRow
    BY RowType DEF IInv, TypeOK
<1>3. row \in EvidenceRow /\ row.file = evidence[e].file /\ row.status = "FAILED"
    BY <1>2 DEF EvidenceRow, EvidenceStatus
<1> HIDE DEF row
<1>4. EvStep
    BY <1>1, <1>3, EvidenceChanged DEF IInv, TypeOK, Dead, row
<1> QED
    BY <1>4, EvidenceOnly DEF FailUpload

LEMMA StepCancelUpload ==
    ASSUME IInv, CancelUpload  PROVE  StepOK
<1>1. PICK e \in DOMAIN evidence :
          evidence[e].status # "READY"
          /\ evidence' = [evidence EXCEPT ![e] =
                             [evidence[e] EXCEPT !.status = "CANCELLED", !.stored = FALSE]]
    BY DEF CancelUpload, Update, Mutable
<1> DEFINE row == [evidence[e] EXCEPT !.status = "CANCELLED", !.stored = FALSE]
<1>2. evidence[e] \in EvidenceRow
    BY RowType DEF IInv, TypeOK
<1>3. row \in EvidenceRow /\ row.file = evidence[e].file /\ row.status = "CANCELLED"
    BY <1>2 DEF EvidenceRow, EvidenceStatus
<1> HIDE DEF row
<1>4. EvStep
    BY <1>1, <1>3, EvidenceChanged DEF IInv, TypeOK, Dead, row
<1> QED
    BY <1>4, EvidenceOnly DEF CancelUpload

\* A row becomes READY, in a request or in a job.
LEMMA Readied ==
    ASSUME evidence \in Seq(EvidenceRow), NEW e \in DOMAIN evidence, CanBeReady(evidence[e]),
           evidence' = [evidence EXCEPT ![e] = [evidence[e] EXCEPT !.status = "READY"]]
    PROVE  EvStep /\ evidence'[e].status = "READY"
<1> DEFINE row == [evidence[e] EXCEPT !.status = "READY"]
<1>1. evidence[e] \in EvidenceRow
    BY RowType
<1>2. row \in EvidenceRow /\ row.file = evidence[e].file /\ row.stored = evidence[e].stored
      /\ row.status = "READY"
    BY <1>1 DEF EvidenceRow, EvidenceStatus
<1>3. evidence[e].status # "READY" /\ evidence[e].status \notin Dead
    BY DEF CanBeReady, Mutable, Dead
<1>4. evidence'[e] = row
    BY Replace
<1> HIDE DEF row
<1>5. EvStep
    BY <1>2, <1>3, EvidenceChanged DEF row
<1> QED
    BY <1>2, <1>4, <1>5

LEMMA StepMarkReady ==
    ASSUME IInv, MarkReady  PROVE  StepOK
<1>1. EvStep
    BY Readied DEF IInv, TypeOK, MarkReady, Update
<1> QED
    BY <1>1, EvidenceOnly DEF MarkReady

LEMMA StepCreateSession ==
    ASSUME IInv, CreateSession  PROVE  StepOK
<1>1. PICK file \in Payload :
          sessions' = Append(sessions, [file |-> file, status |-> "CREATED", evidence |-> 0])
    BY DEF CreateSession
<1> DEFINE row == [file |-> file, status |-> "CREATED", evidence |-> 0]
<1>2. row \in SessionRow /\ row.status = "CREATED"
    <2> HIDE DEF Payload
    <2> QED
        BY IntakeAssumption DEF SessionRow, SessionStatus
<1> HIDE DEF row
<1>3. sessions \in Seq(SessionRow) /\ sessions' = Append(sessions, row)
    BY <1>1 DEF row, IInv, TypeOK
<1>4. /\ sessions' \in Seq(SessionRow)
      /\ DOMAIN sessions' = DOMAIN sessions \cup {Len(sessions) + 1}
      /\ Len(sessions') = Len(sessions) + 1 /\ Len(sessions) \in Nat
      /\ sessions'[Len(sessions) + 1] = row
      /\ \A s \in DOMAIN sessions : sessions'[s] = sessions[s]
    <2> HIDE DEF SessionRow
    <2> QED
        BY <1>2, <1>3, Add
<1>5. SessionStep
    BY <1>2, <1>4, IntakeAssumption DEF SessionStep, CreateSession
<1> QED
    BY <1>5, EvidenceKept, JobsKept, GateKept DEF IInv, TypeOK, CreateSession, StepOK

\* A session gets another status than COMPLETED.
LEMMA SessionClosed ==
    ASSUME sessions \in Seq(SessionRow), Len(sessions) <= MaxSessions,
           NEW s \in DOMAIN sessions, NEW status \in SessionStatus \ {"COMPLETED"},
           sessions' = [sessions EXCEPT ![s].status = status]
    PROVE  SessionStep
<1> DEFINE row == [sessions[s] EXCEPT !.status = status]
<1>0. sessions[s] \in SessionRow
    <2> HIDE DEF SessionRow
    <2> QED
        OBVIOUS
<1>1. row \in SessionRow /\ row.status # "COMPLETED"
    BY <1>0 DEF SessionRow
<1>2. sessions' = [sessions EXCEPT ![s] = row]
    BY DEF SessionRow
<1> HIDE DEF row, SessionRow
<1>3. /\ sessions' \in Seq(SessionRow)
      /\ DOMAIN sessions' = DOMAIN sessions /\ Len(sessions') = Len(sessions)
      /\ sessions'[s] = row
      /\ \A d \in DOMAIN sessions \ {s} : sessions'[d] = sessions[d]
    BY <1>1, <1>2, Replace, SMTT(30)
<1> QED
    BY <1>1, <1>3 DEF SessionStep

LEMMA StepFailSession ==
    ASSUME IInv, FailSession  PROVE  StepOK
<1>1. SessionStep
    BY SessionClosed DEF IInv, TypeOK, FailSession, SessionStatus
<1> QED
    BY <1>1, EvidenceKept, JobsKept, GateKept DEF IInv, TypeOK, FailSession, StepOK

LEMMA StepCancelSession ==
    ASSUME IInv, CancelSession  PROVE  StepOK
<1>1. SessionStep
    BY SessionClosed DEF IInv, TypeOK, CancelSession, SessionStatus
<1> QED
    BY <1>1, EvidenceKept, JobsKept, GateKept DEF IInv, TypeOK, CancelSession, StepOK

LEMMA BlobType ==
    ASSUME sessions \in Seq(SessionRow), NEW s \in DOMAIN sessions
    PROVE  /\ sessions[s] \in SessionRow /\ sessions[s].file \in Payload
           /\ Blob(sessions[s].file) \in [tenant : Tenant, audit : Audit, doc : Doc]
           /\ s \in 1..Len(sessions) /\ Len(sessions) \in Nat
<1>1. sessions[s] \in SessionRow /\ s \in 1..Len(sessions) /\ Len(sessions) \in Nat
    OBVIOUS
<1>2. sessions[s].file \in Payload
    BY <1>1 DEF SessionRow
<1>3. Blob(sessions[s].file) \in [tenant : Tenant, audit : Audit, doc : Doc]
    BY <1>2 DEF Payload, Blob
<1> QED
    BY <1>1, <1>2, <1>3

LEMMA StepFinalizeDuplicate ==
    ASSUME IInv, FinalizeDuplicate  PROVE  StepOK
    BY BlobType, EvidenceKept, JobsKept, SessionsKept, GateKept
    DEF IInv, TypeOK, FinalizeDuplicate, StepOK

LEMMA JobAdded ==
    ASSUME jobs \in Seq(JobRow), NEW x \in JobRow, jobs' = Append(jobs, x)
    PROVE  /\ jobs' \in Seq(JobRow)
           /\ DOMAIN jobs' = DOMAIN jobs \cup {Len(jobs) + 1}
           /\ jobs'[Len(jobs) + 1] = x
           /\ \A j \in DOMAIN jobs : jobs'[j] = jobs[j]
<1> HIDE DEF JobRow
<1> QED
    BY Add

LEMMA StepFinalizeSession ==
    ASSUME IInv, FinalizeSession  PROVE  StepOK
<1>0. TypeOK /\ Len(sessions) <= MaxSessions
    BY DEF IInv
<1>1. PICK s \in DOMAIN sessions, n \in 1..Len(FinalizeWrites) :
        LET file == sessions[s].file
            done == Prefix(FinalizeWrites, n)
            row  == NewRow(file, s)
            e    == Len(evidence) + 1
        IN  /\ ~Duplicate(file)
            /\ e <= MaxEvidence
            /\ DiesAfter(n, FinalizeWrites)
            /\ blobs' = blobs \cup {Blob(file)}
            /\ evidence' = IF "register" \notin done THEN evidence
                           ELSE Append(evidence, IF "complete" \in done
                                                 THEN Completed(row, TRUE) ELSE row)
            /\ jobs' = IF "job" \notin done THEN jobs
                       ELSE Append(jobs, [evidence |-> e, status |-> "QUEUED"])
            /\ sessions' = IF "session" \notin done THEN sessions
                           ELSE [sessions EXCEPT ![s].status = "COMPLETED",
                                                 ![s].evidence = e]
            /\ UNCHANGED <<required, gate>>
    BY DEF FinalizeSession
<1> DEFINE file == sessions[s].file
           done == Prefix(FinalizeWrites, n)
           e    == Len(evidence) + 1
           new  == IF "complete" \in done THEN Completed(NewRow(file, s), TRUE)
                                          ELSE NewRow(file, s)
           queued  == [evidence |-> e, status |-> "QUEUED"]
           ended == [sessions[s] EXCEPT !.status = "COMPLETED", !.evidence = e]
<1>2. /\ "complete" \in done => "register" \in done
      /\ "job" \in done => "complete" \in done
      /\ "session" \in done => "job" \in done
    BY FinalizePrefix
<1>3. /\ s \in 0..MaxSessions /\ file \in Payload /\ sessions[s] \in SessionRow
      /\ Blob(file) \in [tenant : Tenant, audit : Audit, doc : Doc]
    BY BlobType, <1>0, IntakeAssumption DEF TypeOK
<1>4. Len(evidence) \in Nat /\ e \in 1..MaxEvidence
    BY <1>0, <1>1, IntakeAssumption DEF TypeOK
<1>5. /\ new \in EvidenceRow /\ new.file = file
      /\ "complete" \in done => new.stored
    BY <1>3, NewRowType
<1>6. queued \in JobRow /\ queued.evidence = e /\ queued.status = "QUEUED"
    BY <1>4 DEF JobRow
<1>7. ended \in SessionRow /\ ended.file = file /\ ended.evidence = e
    <2>1. e \in 0..MaxEvidence /\ "COMPLETED" \in SessionStatus
        BY <1>4 DEF SessionStatus
    <2> HIDE DEF e
    <2> QED
        BY <1>3, <2>1 DEF SessionRow
<1>8. /\ ~Duplicate(file)
      /\ DiesAfter(n, FinalizeWrites)
      /\ blobs' = blobs \cup {Blob(file)}
      /\ "register" \notin done => evidence' = evidence
      /\ "register" \in done => evidence' = Append(evidence, new)
      /\ "job" \notin done => jobs' = jobs
      /\ "job" \in done => jobs' = Append(jobs, queued)
      /\ "session" \notin done => sessions' = sessions
      /\ "session" \in done =>
            sessions' = [sessions EXCEPT ![s].status = "COMPLETED", ![s].evidence = e]
      /\ required' = required /\ gate' = gate
    BY <1>1
<1>9. evidence \in Seq(EvidenceRow) /\ jobs \in Seq(JobRow) /\ sessions \in Seq(SessionRow)
    BY <1>0 DEF TypeOK
<1>10. "session" \in done => sessions' = [sessions EXCEPT ![s] = ended]
    BY <1>8, <1>9 DEF SessionRow
<1>20. Len(evidence) + 1 = e
    OBVIOUS
<1> HIDE DEF file, done, new, queued, ended, e, EvidenceRow, JobRow, SessionRow
<1>11. EvStep
    <2>1. CASE "register" \in done
        BY <2>1, <1>5, <1>8, <1>9, EvidenceAdded
    <2>2. CASE "register" \notin done
        BY <2>2, <1>8, <1>9, EvidenceKept
    <2> QED
        BY <2>1, <2>2
<1>12. "job" \in done =>
          e \in DOMAIN evidence' /\ evidence'[e].stored /\ evidence'[e].file = file
    BY <1>2, <1>5, <1>8, <1>9, <1>20, Add
<1>13. "job" \in done =>
          /\ jobs' \in Seq(JobRow)
          /\ DOMAIN jobs' = DOMAIN jobs \cup {Len(jobs) + 1}
          /\ jobs'[Len(jobs) + 1] = queued
          /\ \A j \in DOMAIN jobs : jobs'[j] = jobs[j]
    <2>1. ASSUME "job" \in done
          PROVE  jobs' = Append(jobs, queued)
        BY <2>1, <1>8
    <2> QED
        BY <2>1, <1>6, <1>9, JobAdded
<1>14. JobStep
    <2>1. CASE "job" \in done
        BY <2>1, <1>6, <1>8, <1>12, <1>13 DEF JobStep
    <2>2. CASE "job" \notin done
        BY <2>2, <1>8, <1>9, JobsKept
    <2> QED
        BY <2>1, <2>2
<1>15. SessionStep
    <2>1. CASE "session" \notin done
        BY <2>1, <1>0, <1>8, <1>9, SessionsKept
    <2>2. CASE "session" \in done
        <3>0. sessions' = [sessions EXCEPT ![s] = ended]
            BY <2>2, <1>10
        <3>1. /\ sessions' \in Seq(SessionRow)
              /\ DOMAIN sessions' = DOMAIN sessions /\ Len(sessions') = Len(sessions)
              /\ sessions'[s] = ended
              /\ \A d \in DOMAIN sessions \ {s} : sessions'[d] = sessions[d]
            BY <3>0, <1>7, <1>9, Replace
        <3>2. Backed(ended)
            BY <2>2, <1>2, <1>6, <1>7, <1>8, <1>12, <1>13 DEF Backed
        <3> QED
            BY <3>1, <3>2, <1>0 DEF SessionStep
    <2> QED
        BY <2>1, <2>2
<1>16. deaths' \in 0..MaxDeaths
    BY <1>0, <1>8, IntakeAssumption DEF TypeOK, DiesAfter
<1>17. GateStep
    BY <1>0, <1>8, GateKept DEF TypeOK
<1> QED
    BY <1>0, <1>3, <1>8, <1>11, <1>14, <1>15, <1>16, <1>17 DEF StepOK, TypeOK

\* The status of a job changes.
LEMMA JobChanged ==
    ASSUME jobs \in Seq(JobRow), NEW j \in DOMAIN jobs,
           NEW status \in {"PROCESSING", "COMPLETED", "FAILED"},
           jobs' = [jobs EXCEPT ![j].status = status],
           status = "COMPLETED" => evidence'[jobs[j].evidence].status = "READY"
    PROVE  JobStep
<1> DEFINE row == [jobs[j] EXCEPT !.status = status]
<1>0. jobs[j] \in JobRow
    <2> HIDE DEF JobRow
    <2> QED
        OBVIOUS
<1>1. row \in JobRow /\ row.status = status /\ row.evidence = jobs[j].evidence
    BY <1>0 DEF JobRow
<1>2. jobs' = [jobs EXCEPT ![j] = row]
    BY DEF JobRow
<1> HIDE DEF row, JobRow
<1>3. /\ jobs' \in Seq(JobRow)
      /\ DOMAIN jobs' = DOMAIN jobs
      /\ jobs'[j] = row
      /\ \A d \in DOMAIN jobs \ {j} : jobs'[d] = jobs[d]
    BY <1>1, <1>2, Replace
<1> QED
    BY <1>1, <1>3 DEF JobStep

LEMMA StepRunNextJob ==
    ASSUME IInv, RunNextJob  PROVE  StepOK
<1>0. TypeOK /\ JobsAreStored
    BY DEF IInv
<1>1. PICK j \in DOMAIN jobs, n \in 1..Len(RunWrites) :
        LET e     == jobs[j].evidence
            ready == CanBeReady(evidence[e])
            done  == Prefix(RunWrites, n)
        IN  /\ jobs[j].status = "QUEUED"
            /\ DiesAfter(n, RunWrites)
            /\ jobs' = [jobs EXCEPT ![j].status =
                           IF "result" \in done THEN Result(ready) ELSE "PROCESSING"]
            /\ evidence' = IF ready /\ "ready" \in done
                           THEN [evidence EXCEPT ![e].status = "READY"] ELSE evidence
            /\ UNCHANGED <<sessions, blobs, required, gate>>
    BY DEF RunNextJob
<1> DEFINE e      == jobs[j].evidence
           ready  == CanBeReady(evidence[e])
           done   == Prefix(RunWrites, n)
           status == IF "result" \in done THEN Result(ready) ELSE "PROCESSING"
<1>2. "result" \in done => "ready" \in done
    BY RunPrefix
<1>3. e \in DOMAIN evidence
    BY <1>0 DEF JobsAreStored
<1>4. evidence \in Seq(EvidenceRow) /\ jobs \in Seq(JobRow)
    BY <1>0 DEF TypeOK
<1>5. ready /\ "ready" \in done =>
          evidence' = [evidence EXCEPT ![e] = [evidence[e] EXCEPT !.status = "READY"]]
    BY <1>1, <1>3, <1>4 DEF EvidenceRow
<1>6. /\ jobs' = [jobs EXCEPT ![j].status = status]
      /\ ~(ready /\ "ready" \in done) => evidence' = evidence
      /\ DiesAfter(n, RunWrites)
      /\ sessions' = sessions /\ blobs' = blobs /\ required' = required /\ gate' = gate
    BY <1>1
<1>7. /\ status \in {"PROCESSING", "COMPLETED", "FAILED"}
      /\ status = "COMPLETED" => ready /\ "ready" \in done
    BY <1>2 DEF Result
<1> HIDE DEF e, ready, done, status
<1>8. EvStep /\ (ready /\ "ready" \in done => evidence'[e].status = "READY")
    <2>1. CASE ready /\ "ready" \in done
        BY <2>1, <1>3, <1>4, <1>5, Readied DEF ready
    <2>2. CASE ~(ready /\ "ready" \in done)
        BY <2>2, <1>4, <1>6, EvidenceKept
    <2> QED
        BY <2>1, <2>2
<1>9. JobStep
    BY <1>4, <1>6, <1>7, <1>8, JobChanged DEF e
<1>10. deaths' \in 0..MaxDeaths
    BY <1>0, <1>6, IntakeAssumption DEF TypeOK, DiesAfter
<1> QED
    BY <1>0, <1>6, <1>8, <1>9, <1>10, SessionsKept, GateKept DEF StepOK, TypeOK, IInv

LEMMA StepSeedRequirements ==
    ASSUME IInv, SeedRequirements  PROVE  StepOK
<1>1. required' \in [Audit -> SUBSET Category]
    BY DEF IInv, TypeOK, SeedRequirements
<1> QED
    BY <1>1, EvidenceKept, JobsKept, SessionsKept, GateKept
    DEF IInv, TypeOK, SeedRequirements, StepOK

LEMMA StepRecomputeGate ==
    ASSUME IInv, RecomputeGate  PROVE  StepOK
<1>1. PICK t \in Tenant, a \in Audit :
          gate' = [gate EXCEPT ![a] =
              [pass |-> Waiting(t, a) = {} /\ required[a] \subseteq ReadyCategories(t, a),
               required |-> required[a], by |-> t]]
    BY DEF RecomputeGate
<1> DEFINE pass == Waiting(t, a) = {} /\ required[a] \subseteq ReadyCategories(t, a)
           row  == [pass |-> pass, required |-> required[a], by |-> t]
<1>2. pass \in BOOLEAN /\ required[a] \subseteq Category /\ gate \in [Audit -> GateRow \cup {NoGate}]
      /\ (pass => required[a] \subseteq ReadyCategories(t, a))
    BY DEF IInv, TypeOK
<1> HIDE DEF pass
<1>3. row \in GateRow /\ row.pass = pass /\ row.required = required[a] /\ row.by = t
    BY <1>2 DEF GateRow
<1>4. gate' = [gate EXCEPT ![a] = row]
    BY <1>1 DEF pass
<1> HIDE DEF row
<1>5. gate' \in [Audit -> GateRow \cup {NoGate}] /\ gate'[a] = row
      /\ \A b \in Audit \ {a} : gate'[b] = gate[b]
    BY <1>2, <1>3, <1>4
<1>6. GateStep
    BY <1>2, <1>3, <1>5 DEF GateStep, RecomputeGate
<1> QED
    BY <1>6, EvidenceKept, JobsKept, SessionsKept DEF IInv, TypeOK, RecomputeGate, StepOK

LEMMA StepStutter ==
    ASSUME IInv, UNCHANGED vars  PROVE  StepOK
    BY EvidenceKept, JobsKept, SessionsKept, GateKept DEF IInv, TypeOK, vars, StepOK

LEMMA Steps ==
    ASSUME IInv, [Next]_vars  PROVE  StepOK
<1>1. CASE Next
    BY <1>1, StepRegisterUpload, StepCompleteUpload, StepFailUpload, StepCancelUpload,
       StepMarkReady, StepCreateSession, StepFinalizeSession, StepFinalizeDuplicate,
       StepFailSession, StepCancelSession, StepRunNextJob, StepSeedRequirements,
       StepRecomputeGate DEF Next
<1> QED
    BY <1>1, StepStutter

-----------------------------------------------------------------------------
(* The invariant holds at first and every step keeps it.                    *)

LEMMA Initially == Init => IInv
<1> SUFFICES ASSUME Init  PROVE IInv
    OBVIOUS
<1>1. TypeOK /\ Len(sessions) <= MaxSessions
    BY IntakeAssumption DEF Init, TypeOK
<1>2. CompletedIsBacked /\ JobsAreStored /\ DoneIsReady /\ OneLiveCopy
    BY DEF Init, CompletedIsBacked, JobsAreStored, DoneIsReady, OneLiveCopy
<1>3. PassIsKept
    BY DEF Init, NoGate, PassIsKept
<1> QED
    BY <1>1, <1>2, <1>3 DEF IInv

LEMMA TypeKept ==
    ASSUME IInv, StepOK  PROVE  TypeOK'
    BY DEF StepOK, EvStep, JobStep, SessionStep, GateStep, TypeOK

LEMMA BackedKept ==
    ASSUME IInv, StepOK  PROVE  CompletedIsBacked'
<1> SUFFICES ASSUME NEW s \in DOMAIN sessions', sessions'[s].status = "COMPLETED"
             PROVE  Backed(sessions'[s])
    BY DEF CompletedIsBacked, Backed
<1>1. CASE s \in DOMAIN sessions /\ sessions[s] = sessions'[s]
    BY <1>1 DEF IInv, CompletedIsBacked, StepOK, EvStep, JobStep, Backed
<1>2. CASE Backed(sessions'[s])
    BY <1>2
<1> QED
    BY <1>1, <1>2 DEF StepOK, SessionStep

LEMMA StoredKept ==
    ASSUME IInv, StepOK  PROVE  JobsAreStored'
<1> SUFFICES ASSUME NEW j \in DOMAIN jobs'
             PROVE  LET e == jobs'[j].evidence IN
                    /\ e \in DOMAIN evidence'
                    /\ evidence'[e].status \notin Dead =>
                          evidence'[e].stored /\ Blob(evidence'[e].file) \in blobs'
    BY DEF JobsAreStored
<1>1. CASE j \in DOMAIN jobs
    BY <1>1, SMTT(30) DEF IInv, JobsAreStored, StepOK, EvStep, JobStep
<1>2. CASE j \notin DOMAIN jobs
    BY <1>2 DEF StepOK, JobStep
<1> QED
    BY <1>1, <1>2

LEMMA DoneKept ==
    ASSUME IInv, StepOK  PROVE  DoneIsReady'
<1> SUFFICES ASSUME NEW j \in DOMAIN jobs', jobs'[j].status = "COMPLETED"
             PROVE  evidence'[jobs'[j].evidence].status = "READY"
    BY DEF DoneIsReady
<1>1. j \in DOMAIN jobs /\ jobs'[j].evidence = jobs[j].evidence
    BY DEF StepOK, JobStep
<1>2. jobs[j].evidence \in DOMAIN evidence
    BY <1>1 DEF IInv, JobsAreStored
<1> QED
    BY <1>1, <1>2 DEF IInv, DoneIsReady, StepOK, EvStep, JobStep

LEMMA OneCopyKept ==
    ASSUME IInv, StepOK  PROVE  OneLiveCopy'
<1> SUFFICES ASSUME NEW e \in DOMAIN evidence', NEW d \in DOMAIN evidence',
                    Blob(evidence'[e].file) = Blob(evidence'[d].file),
                    evidence'[e].status \notin Dead, evidence'[d].status \notin Dead
             PROVE  e = d
    BY DEF OneLiveCopy, Dead
<1>1. \A c \in DOMAIN evidence : evidence'[c].status \notin Dead =>
          evidence[c].status # "CANCELLED" /\ evidence[c].status \notin Dead
          /\ evidence'[c].file = evidence[c].file
    BY DEF StepOK, EvStep, Dead
<1>2. CASE e \in DOMAIN evidence /\ d \in DOMAIN evidence
    BY <1>1, <1>2 DEF IInv, OneLiveCopy, Dead
<1>3. CASE e \notin DOMAIN evidence /\ d \notin DOMAIN evidence
    BY <1>3 DEF StepOK, EvStep
<1>4. \A c \in DOMAIN evidence' \ DOMAIN evidence : ~Duplicate(evidence'[c].file)
    BY DEF StepOK, EvStep
<1>5. CASE e \in DOMAIN evidence /\ d \notin DOMAIN evidence
    BY <1>1, <1>4, <1>5 DEF Duplicate
<1>6. CASE e \notin DOMAIN evidence /\ d \in DOMAIN evidence
    BY <1>1, <1>4, <1>6 DEF Duplicate
<1> QED
    BY <1>2, <1>3, <1>5, <1>6

LEMMA PassKept ==
    ASSUME IInv, StepOK  PROVE  PassIsKept'
<1> SUFFICES ASSUME NEW a \in Audit, gate'[a].pass, NEW c \in gate'[a].required
             PROVE  \E e \in DOMAIN evidence' :
                       /\ evidence'[e].file.tenant = gate'[a].by /\ evidence'[e].file.audit = a
                       /\ evidence'[e].status = "READY" /\ evidence'[e].file.category = c
    BY DEF PassIsKept, RowsOf
<1>1. \E e \in DOMAIN evidence :
         /\ evidence[e].file.tenant = gate'[a].by /\ evidence[e].file.audit = a
         /\ evidence[e].status = "READY" /\ evidence[e].file.category = c
    <2>1. CASE gate'[a] = gate[a]
        BY <2>1 DEF IInv, PassIsKept, RowsOf
    <2>2. CASE gate'[a].required \subseteq ReadyCategories(gate'[a].by, a)
        BY <2>2 DEF ReadyCategories, RowsOf
    <2> QED
        BY <2>1, <2>2 DEF StepOK, GateStep
<1> QED
    BY <1>1 DEF StepOK, EvStep

LEMMA Inductive ==
    ASSUME IInv, [Next]_vars  PROVE  IInv'
<1>1. StepOK
    BY Steps
<1>2. (Len(sessions) <= MaxSessions)'
    BY <1>1 DEF StepOK, SessionStep
<1> QED
    BY <1>1, <1>2, TypeKept, BackedKept, StoredKept, DoneKept, OneCopyKept, PassKept DEF IInv

LEMMA Invariant == Spec => []IInv
    BY Initially, Inductive, PTL DEF Spec

-----------------------------------------------------------------------------
(* The theorems.                                                            *)

\* The files keep their declared shapes.
THEOREM TypesHold == Spec => []TypeOK
<1>1. IInv => TypeOK
    BY DEF IInv
<1> QED
    BY <1>1, Invariant, PTL

\* A session that reads COMPLETED has its blob, its evidence row and its job,
\* wherever the process died before (finalize_upload_session).
THEOREM CompletedBacked == Spec => []CompletedIsBacked
<1>1. IInv => CompletedIsBacked
    BY DEF IInv
<1> QED
    BY <1>1, Invariant, PTL

\* A COMPLETED job has made its evidence READY and the file is in the blob
\* store: every job is queued for a stored file, and stays with it.
THEOREM DoneReady == Spec => []DoneJobsAreReady
<1>1. IInv => DoneJobsAreReady
    BY DEF IInv, DoneIsReady, JobsAreStored, DoneJobsAreReady, Dead
<1> QED
    BY <1>1, Invariant, PTL

\* A tenant has one usable copy of a content in an audit (register_upload).
THEOREM OneCopy == Spec => []OneLiveCopy
<1>1. IInv => OneLiveCopy
    BY DEF IInv
<1> QED
    BY <1>1, Invariant, PTL

\* As long as a gate reads PASS, READY rows cover what it required
\* (recompute_audit_evidence_gate, _assert_mutable).
THEOREM PassKeeps == Spec => []PassIsKept
<1>1. IInv => PassIsKept
    BY DEF IInv
<1> QED
    BY <1>1, Invariant, PTL

\* No step changes a row that is READY (_assert_mutable in every writer).
THEOREM ReadyFinal == Spec => ReadyIsFinal
<1>1. ASSUME IInv, [Next]_vars
      PROVE  [\A e \in DOMAIN evidence :
                 evidence[e].status = "READY" =>
                     e \in DOMAIN evidence' /\ evidence'[e] = evidence[e]]_vars
    BY <1>1, Steps DEF StepOK, EvStep
<1> QED
    BY <1>1, Invariant, PTL DEF Spec, ReadyIsFinal

-----------------------------------------------------------------------------
(* What deaths strand.  A row starts to wait, or loses its QUEUED job, only  *)
(* under a handler that goes on to queue or to finish it, or dies.           *)

Waits(row) == row.session # 0 /\ row.status \in {"UPLOADING", "PROCESSING"}

Queued(e) == \E j \in DOMAIN jobs : jobs[j].evidence = e /\ jobs[j].status = "QUEUED"

LEMMA StrandedWithin ==
    ASSUME NEW X,
           \A e \in DOMAIN evidence' :
               \/ e \in X \/ ~Waits(evidence'[e]) \/ Queued(e)'
               \/ e \in DOMAIN evidence /\ Waits(evidence[e]) /\ (Queued(e) => Queued(e)')
    PROVE  Stranded' \subseteq Stranded \cup X
    BY DEF Stranded, Waits, Queued

\* At most one row is stranded, and only by a death.
OneByDeath ==
    \/ deaths' = deaths /\ Stranded' \subseteq Stranded
    \/ deaths' = deaths + 1 /\ \E e : Stranded' \subseteq Stranded \cup {e}

LEMMA StrandEvidence ==
    ASSUME IInv,
           RegisterUpload \/ CompleteUpload \/ FailUpload \/ CancelUpload \/ MarkReady
    PROVE  OneByDeath
<1>1. evidence \in Seq(EvidenceRow) /\ UNCHANGED <<jobs, deaths>>
    BY DEF IInv, TypeOK, OnlyEvidence, RegisterUpload, CompleteUpload, FailUpload,
           CancelUpload, MarkReady
<1>2. \A e : Queued(e)' <=> Queued(e)
    BY <1>1 DEF Queued
<1>3. CASE RegisterUpload
    <2>1. PICK file \in Payload : evidence' = Append(evidence, NewRow(file, 0))
        BY <1>3 DEF RegisterUpload
    <2>2. NewRow(file, 0) \in EvidenceRow /\ ~Waits(NewRow(file, 0))
        <3>1. 0 \in 0..MaxSessions /\ TRUE \in BOOLEAN
            BY IntakeAssumption
        <3>2. NewRow(file, 0) \in EvidenceRow
            BY <3>1, NewRowType
        <3>3. NewRow(file, 0).session = 0
            BY DEF NewRow
        <3> QED
            BY <3>2, <3>3 DEF Waits
    <2> HIDE DEF EvidenceRow
    <2>3. /\ DOMAIN evidence' = DOMAIN evidence \cup {Len(evidence) + 1}
          /\ evidence'[Len(evidence) + 1] = NewRow(file, 0)
          /\ \A d \in DOMAIN evidence : evidence'[d] = evidence[d]
        BY <1>1, <2>1, <2>2, Add
    <2>4. Stranded' \subseteq Stranded \cup {}
        BY <1>2, <2>2, <2>3, StrandedWithin
    <2> QED
        BY <1>1, <2>4 DEF OneByDeath
<1>4. CASE CompleteUpload \/ FailUpload \/ CancelUpload \/ MarkReady
    <2>1. PICK e, row :
              e \in DOMAIN evidence /\ Update(e, row) /\ (Waits(row) => Waits(evidence[e]))
        <3>1. \A e \in DOMAIN evidence : evidence[e] \in EvidenceRow
            BY <1>1, RowType
        <3>2. CASE CompleteUpload
            <4>1. PICK e \in DOMAIN evidence, started \in BOOLEAN :
                      /\ evidence[e].status = "UPLOADING"
                      /\ Update(e, Completed(evidence[e], started))
                BY <3>2 DEF CompleteUpload
            <4>2. Completed(evidence[e], started).session = evidence[e].session
                BY <3>1 DEF Completed, EvidenceRow
            <4> QED
                BY <4>1, <4>2 DEF Waits
        <3>3. CASE FailUpload \/ CancelUpload \/ MarkReady
            <4>1. PICK e \in DOMAIN evidence :
                      \/ Update(e, [evidence[e] EXCEPT !.status = "FAILED"])
                      \/ Update(e, [evidence[e] EXCEPT !.status = "CANCELLED", !.stored = FALSE])
                      \/ Update(e, [evidence[e] EXCEPT !.status = "READY"])
                BY <3>3 DEF FailUpload, CancelUpload, MarkReady
            <4>2. /\ [evidence[e] EXCEPT !.status = "FAILED"].status = "FAILED"
                  /\ [evidence[e] EXCEPT !.status = "CANCELLED", !.stored = FALSE].status = "CANCELLED"
                  /\ [evidence[e] EXCEPT !.status = "READY"].status = "READY"
                BY <3>1 DEF EvidenceRow
            <4> QED
                BY <4>1, <4>2 DEF Waits
        <3> QED
            BY <1>4, <3>2, <3>3
    <2>2. /\ DOMAIN evidence' = DOMAIN evidence /\ evidence'[e] = row
          /\ \A d \in DOMAIN evidence \ {e} : evidence'[d] = evidence[d]
        BY <1>1, <2>1 DEF Update
    <2>3. Stranded' \subseteq Stranded \cup {}
        BY <1>2, <2>1, <2>2, StrandedWithin
    <2> QED
        BY <1>1, <2>3 DEF OneByDeath
<1> QED
    BY <1>3, <1>4

\* A finalization that does not queue the job of its row has died.
LEMMA StrandFinalize == ASSUME IInv, FinalizeSession PROVE OneByDeath
<1>1. PICK s \in DOMAIN sessions, n \in 1..Len(FinalizeWrites) :
        LET done == Prefix(FinalizeWrites, n)
            row  == NewRow(sessions[s].file, s)
            e    == Len(evidence) + 1
        IN  /\ DiesAfter(n, FinalizeWrites)
            /\ evidence' = IF "register" \notin done THEN evidence
                           ELSE Append(evidence, IF "complete" \in done
                                                 THEN Completed(row, TRUE) ELSE row)
            /\ jobs' = IF "job" \notin done THEN jobs
                       ELSE Append(jobs, [evidence |-> e, status |-> "QUEUED"])
    BY DEF FinalizeSession
<1> DEFINE done == Prefix(FinalizeWrites, n)
<1>0. PICK e : e = Len(evidence) + 1
    OBVIOUS
<1>2. evidence \in Seq(EvidenceRow) /\ jobs \in Seq(JobRow)
    BY DEF IInv, TypeOK
<1>3. DOMAIN evidence' \subseteq DOMAIN evidence \cup {e}
      /\ \A d \in DOMAIN evidence : evidence'[d] = evidence[d]
    <2>1. CASE evidence' = evidence
        BY <2>1
    <2>2. CASE \E x : evidence' = Append(evidence, x)
        <3>1. PICK x : evidence' = Append(evidence, x)
            BY <2>2
        <3>2. evidence \in Seq(EvidenceRow)
            BY <1>2
        <3> HIDE DEF EvidenceRow
        <3> QED
            BY <1>0, <3>1, <3>2
    <2> QED
        BY <1>1, <2>1, <2>2
<1>4. \A d : Queued(d) => Queued(d)'
    <2>1. DOMAIN jobs \subseteq DOMAIN jobs' /\ \A j \in DOMAIN jobs : jobs'[j] = jobs[j]
        <3>1. CASE jobs' = jobs
            BY <3>1
        <3>2. CASE \E x : jobs' = Append(jobs, x)
            <4>1. PICK x : jobs' = Append(jobs, x)
                BY <3>2
            <4>2. jobs \in Seq(JobRow)
                BY <1>2
            <4> QED
                BY <4>1, <4>2
        <3> QED
            BY <1>1, <3>1, <3>2
    <2> QED
        BY <2>1 DEF Queued
<1>5. CASE deaths' = deaths + 1
    <2>1. Stranded' \subseteq Stranded \cup {e}
        BY <1>3, <1>4, StrandedWithin
    <2> QED
        BY <1>5, <2>1 DEF OneByDeath
<1>6. CASE deaths' # deaths + 1
    <2>1. n = 5 /\ deaths' = deaths
        BY <1>1, <1>6 DEF DiesAfter, FinalizeWrites
    <2>2. "job" \in done
        BY <2>1 DEF Prefix, FinalizeWrites
    <2>3. jobs' = Append(jobs, [evidence |-> e, status |-> "QUEUED"])
        BY <1>0, <1>1, <2>2
    <2>4. Queued(e)'
        <3>1. Len(jobs) + 1 \in DOMAIN jobs'
              /\ jobs'[Len(jobs) + 1] = [evidence |-> e, status |-> "QUEUED"]
            BY <1>2, <2>3
        <3> QED
            BY <3>1 DEF Queued
    <2>5. Stranded' \subseteq Stranded \cup {}
        BY <1>3, <1>4, <2>4, StrandedWithin
    <2> QED
        BY <2>1, <2>5 DEF OneByDeath
<1> QED
    BY <1>5, <1>6

\* A job that is taken finishes with its row READY or past saving, or has died.
LEMMA StrandRun == ASSUME IInv, RunNextJob PROVE OneByDeath
<1>1. PICK j \in DOMAIN jobs, n \in 1..Len(RunWrites) :
        LET e     == jobs[j].evidence
            ready == CanBeReady(evidence[e])
            done  == Prefix(RunWrites, n)
        IN  /\ DiesAfter(n, RunWrites)
            /\ jobs' = [jobs EXCEPT ![j].status =
                           IF "result" \in done THEN Result(ready) ELSE "PROCESSING"]
            /\ evidence' = IF ready /\ "ready" \in done
                           THEN [evidence EXCEPT ![e].status = "READY"] ELSE evidence
    BY DEF RunNextJob
<1>2. PICK e : e = jobs[j].evidence
    OBVIOUS
<1>3. evidence \in Seq(EvidenceRow) /\ jobs \in Seq(JobRow) /\ e \in DOMAIN evidence
    BY <1>2 DEF IInv, TypeOK, JobsAreStored
<1>4. DOMAIN evidence' = DOMAIN evidence
      /\ \A d \in DOMAIN evidence \ {e} : evidence'[d] = evidence[d]
    BY <1>1, <1>2, <1>3
<1>5. \A d : d # e /\ Queued(d) => Queued(d)'
    <2>1. DOMAIN jobs' = DOMAIN jobs /\ \A i \in DOMAIN jobs \ {j} : jobs'[i] = jobs[i]
        BY <1>1, <1>3
    <2> QED
        BY <1>2, <2>1 DEF Queued
<1>6. Waits(evidence'[e]) => Waits(evidence[e])
    <2>1. evidence[e] \in EvidenceRow
        BY <1>3, RowType
    <2> QED
        BY <1>1, <1>2, <1>3, <2>1 DEF Waits, CanBeReady, EvidenceRow
<1>7. CASE deaths' = deaths + 1
    <2>1. Stranded' \subseteq Stranded \cup {e}
        BY <1>4, <1>5, StrandedWithin
    <2> QED
        BY <1>7, <2>1 DEF OneByDeath
<1>8. CASE deaths' # deaths + 1
    <2>1. n = 3 /\ deaths' = deaths
        BY <1>1, <1>8 DEF DiesAfter, RunWrites
    <2>2. "ready" \in Prefix(RunWrites, n)
        BY <2>1 DEF Prefix, RunWrites
    <2>3. evidence[e] \in EvidenceRow
        BY <1>3, RowType
    <2>4. ~Waits(evidence'[e])
        <3>1. CASE CanBeReady(evidence[e])
            <4>1. evidence'[e].status = "READY"
                BY <1>1, <1>2, <1>3, <2>2, <2>3, <3>1 DEF EvidenceRow
            <4> QED
                BY <4>1 DEF Waits
        <3>2. CASE ~CanBeReady(evidence[e])
            <4>1. evidence' = evidence
                BY <1>1, <1>2, <3>2
            <4> QED
                BY <3>2, <4>1 DEF Waits, CanBeReady, Mutable
        <3> QED
            BY <3>1, <3>2
    <2>5. Stranded' \subseteq Stranded \cup {}
        BY <1>4, <1>5, <2>4, StrandedWithin
    <2> QED
        BY <2>1, <2>5 DEF OneByDeath
<1> QED
    BY <1>7, <1>8

LEMMA StrandStep == ASSUME IInv, [Next]_vars PROVE OneByDeath
<1>1. CASE RegisterUpload \/ CompleteUpload \/ FailUpload \/ CancelUpload \/ MarkReady
    BY <1>1, StrandEvidence
<1>2. CASE FinalizeSession
    BY <1>2, StrandFinalize
<1>3. CASE RunNextJob
    BY <1>3, StrandRun
<1>4. CASE \/ CreateSession \/ FinalizeDuplicate \/ FailSession \/ CancelSession
           \/ SeedRequirements \/ RecomputeGate \/ UNCHANGED vars
    <2>1. UNCHANGED <<evidence, jobs, deaths>>
        BY <1>4 DEF CreateSession, FinalizeDuplicate, FailSession, CancelSession,
                    SeedRequirements, RecomputeGate, vars
    <2> QED
        BY <2>1 DEF OneByDeath, Stranded
<1> QED
    BY <1>1, <1>2, <1>3, <1>4 DEF Next

LEMMA StrandedFinite == ASSUME TypeOK PROVE IsFiniteSet(Stranded)
<1>1. DOMAIN evidence = 1..Len(evidence) /\ Len(evidence) \in Nat
    <2> HIDE DEF EvidenceRow
    <2> QED
        BY DEF TypeOK
<1>2. IsFiniteSet(DOMAIN evidence)
    BY <1>1, FS_Interval
<1>3. Stranded \subseteq DOMAIN evidence
    BY DEF Stranded
<1> QED
    BY <1>2, <1>3, FS_Subset

LEMMA StrandKept ==
    ASSUME IInv, StrandedByDeath, [Next]_vars PROVE StrandedByDeath'
<1>1. IsFiniteSet(Stranded) /\ Cardinality(Stranded) \in Nat /\ deaths \in Nat
    BY StrandedFinite, FS_CardinalityType, IntakeAssumption DEF IInv, TypeOK
<1>2. CASE deaths' = deaths /\ Stranded' \subseteq Stranded
    <2>1. Cardinality(Stranded') <= Cardinality(Stranded) /\ Cardinality(Stranded') \in Nat
        BY <1>1, <1>2, FS_Subset, FS_CardinalityType
    <2> QED
        BY <1>1, <1>2, <2>1 DEF StrandedByDeath
<1>3. CASE deaths' = deaths + 1 /\ \E e : Stranded' \subseteq Stranded \cup {e}
    <2>1. PICK e : Stranded' \subseteq Stranded \cup {e}
        BY <1>3
    <2>2. /\ IsFiniteSet(Stranded \cup {e})
          /\ Cardinality(Stranded \cup {e}) <= Cardinality(Stranded) + 1
          /\ Cardinality(Stranded \cup {e}) \in Nat
        BY <1>1, FS_AddElement, FS_CardinalityType
    <2>3. Cardinality(Stranded') <= Cardinality(Stranded \cup {e}) /\ Cardinality(Stranded') \in Nat
        BY <2>1, <2>2, FS_Subset, FS_CardinalityType
    <2> QED
        BY <1>1, <1>3, <2>2, <2>3 DEF StrandedByDeath
<1> QED
    BY <1>2, <1>3, StrandStep DEF OneByDeath

\* Each death inside finalize_upload_session or run_next_job strands at most
\* one uploaded file: any other that still waits has a QUEUED job.
THEOREM DeathsStrand == Spec => []StrandedByDeath
<1>1. Init => StrandedByDeath
    <2> SUFFICES ASSUME Init PROVE StrandedByDeath
        OBVIOUS
    <2>1. Stranded = {} /\ deaths = 0
        BY DEF Init, Stranded
    <2> QED
        BY <2>1, FS_EmptySet DEF StrandedByDeath
<1> QED
    BY <1>1, StrandKept, Invariant, PTL DEF Spec
=============================================================================
