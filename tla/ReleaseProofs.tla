---------------------------- MODULE ReleaseProofs ----------------------------
(***************************************************************************)
(* Theorems of ReleasePipeline, however often the pipeline is run, for     *)
(* whatever verdicts and gates, whatever is queued meanwhile and wherever  *)
(* a run or the script dies: execution records are final, the engines'     *)
(* states name only what their tables have, the chain of gates of a run    *)
(* stands on itself, and a release, a PASS and a released work item were   *)
(* earned.                                                                 *)
(***************************************************************************)
EXTENDS ReleasePipeline, TLAPS

\* The shape of a run under way.
RunShape ==
    run # Idle =>
        /\ run.at \in 1..15
        /\ run = [at |-> run.at, verdict |-> run.verdict, loaded |-> run.loaded,
                  exports |-> run.exports, work |-> run.work, jobs |-> run.jobs]

\* A run that is about to save the state of the executions has a record for
\* every job it loaded.
LoadedAreRecorded == run.at = 2 => run.loaded \subseteq DOMAIN records

\* A run that is about to save the state of the remediation has written every
\* item of the verdicts and records it works with.
ItemsAreWritten == run.at \in {4, 5} => ItemsOf(records, run.verdict) \subseteq items

\* The inductive invariant behind DoneMeansWritten.
DInv == RunShape /\ LoadedAreRecorded /\ ItemsAreWritten /\ DoneMeansWritten

-----------------------------------------------------------------------------

\* No step but AppendRecords touches execution_records.jsonl.
LEMMA OthersKeepRecords ==
    ASSUME Next PROVE AppendRecords \/ UNCHANGED records
  BY DEF Next, StartRun, AppendRecords, SaveExecutionState, AppendItems,
         WriteRemediationGate, SaveRemediationState, WriteDiscipline, WriteSurface,
         WriteFinalizeArtifact, WriteDecision, WritePackage, WriteReceipt, LoadTables,
         WriteWorkItems, WriteJobs, WriteReadiness, KillRun, ReceiveWork, StartQueueing,
         BuildJobs, LoadJobs, AppendJobs, WriteRunnerIndex, SaveRunnerState,
         KillQueueing, Step, QueueStep, Put, vars, inputs, engines

\* Whatever the reason engine says later, and however often the pipeline is run
\* and dies, an execution record is never changed and never removed.
THEOREM RecordsFinal == Spec => RecordsAreFinal
<1> DEFINE Kept == \A a \in DOMAIN records : a \in DOMAIN records' /\ records'[a] = records[a]
<1>1. AppendRecords => Kept
  BY DEF AppendRecords, RecordsAfter, Extend
<1>2. UNCHANGED records => Kept
  OBVIOUS
<1>3. Next => Kept
  BY <1>1, <1>2, OthersKeepRecords
<1>4. UNCHANGED vars => Kept
  BY <1>2 DEF vars, engines
<1>5. [Next]_vars => [Kept]_vars
  BY <1>3
<1> QED  BY <1>5, PTL DEF Spec, RecordsAreFinal

-----------------------------------------------------------------------------

\* Where the steps of run_tenet_e2e that matter here stand in its order.
LEMMA Positions ==
    ASSUME NEW n \in 1..15
    PROVE  /\ Writes[n] = "records" <=> n = 1
           /\ Writes[n] = "executed" <=> n = 2
           /\ Writes[n] = "items" <=> n = 3
           /\ Writes[n] = "gate" <=> n = 4
           /\ Writes[n] = "tracked" <=> n = 5
           /\ Len(Writes) = 15
  BY DEF Writes

\* How a run moves on: by one position, or to its end.
LEMMA StepMoves ==
    ASSUME DInv, NEW x, Step(x, run)
    PROVE  /\ run.at \in 1..15 /\ Writes[run.at] = x
           /\ RunShape'
           /\ run.at < 15 => /\ run'.at = run.at + 1 /\ run'.loaded = run.loaded
                             /\ run'.verdict = run.verdict
           /\ run.at = 15 => run'.at = 0
<1>1. run.at \in 1..15 /\ Writes[run.at] = x /\ run # Idle
  BY DEF DInv, RunShape, Step
<1>2. run' = IF run.at = 15 THEN Idle ELSE [run EXCEPT !.at = run.at + 1]
  BY <1>1, Positions DEF Step
<1>3. CASE run.at = 15
  BY <1>1, <1>2, <1>3 DEF RunShape, Idle
<1>4. CASE run.at < 15
  <2>1. run' = [at |-> run.at + 1, verdict |-> run.verdict, loaded |-> run.loaded,
                exports |-> run.exports, work |-> run.work, jobs |-> run.jobs]
    BY <1>1, <1>2, <1>4 DEF DInv, RunShape
  <2> QED  BY <1>1, <1>4, <2>1 DEF RunShape, Idle
<1> QED  BY <1>1, <1>3, <1>4

\* The three steps that keep something else of the run than they read.
LEMMA TrackedIs ==
    ASSUME DInv, SaveRemediationState
    PROVE  /\ run # Idle /\ run.at = 5
           /\ run' = [at |-> 6, verdict |-> Empty, loaded |-> {}, exports |-> run.exports,
                      work |-> run.work, jobs |-> run.jobs]
<1>1. run # Idle /\ run.at = 5
  BY Positions DEF SaveRemediationState, Step, DInv, RunShape
<1>2. PICK v, l, e, w, j :
          run = [at |-> 5, verdict |-> v, loaded |-> l, exports |-> e, work |-> w, jobs |-> j]
  BY <1>1, Zenon DEF DInv, RunShape
<1>3. run' = [[run EXCEPT !.verdict = Empty, !.loaded = {}] EXCEPT !.at = 6]
  BY <1>1, Positions DEF SaveRemediationState, Step
<1>4. run' = [at |-> 6, verdict |-> Empty, loaded |-> {}, exports |-> e, work |-> w, jobs |-> j]
  BY <1>2, <1>3
<1> QED  BY <1>1, <1>2, <1>4

LEMMA DisciplineIs ==
    ASSUME DInv, WriteDiscipline
    PROVE  /\ run # Idle /\ run.at = 6
           /\ \E ready : run' = [at |-> 7, verdict |-> run.verdict, loaded |-> run.loaded,
                                 exports |-> ready, work |-> run.work, jobs |-> run.jobs]
<1>1. PICK report, export \in Gate \cup {Absent} :
          Step("discipline", [run EXCEPT !.exports = ExportsReady(report, export)])
  BY DEF WriteDiscipline
<1>2. run # Idle /\ run.at = 6
  BY <1>1 DEF Step, DInv, RunShape, Writes
<1>3. PICK v, l, e, w, j :
          run = [at |-> 6, verdict |-> v, loaded |-> l, exports |-> e, work |-> w, jobs |-> j]
  BY <1>2, Zenon DEF DInv, RunShape
<1>4. run' = [[run EXCEPT !.exports = ExportsReady(report, export)] EXCEPT !.at = 7]
  BY <1>1, <1>2, Positions DEF Step
<1>5. run' = [at |-> 7, verdict |-> v, loaded |-> l, exports |-> ExportsReady(report, export),
              work |-> w, jobs |-> j]
  BY <1>3, <1>4
<1> QED  BY <1>2, <1>3, <1>5

LEMMA LoadIs ==
    ASSUME DInv, LoadTables
    PROVE  /\ run # Idle /\ run.at = 12
           /\ run' = [at |-> 13, verdict |-> run.verdict, loaded |-> run.loaded,
                      exports |-> FALSE,
                      work |-> WorkAfter(work, records, disk["receipt"].ready),
                      jobs |-> JobsAfter(jobs, records)]
<1>1. run # Idle /\ run.at = 12
  BY DEF LoadTables, Step, DInv, RunShape, Writes
<1>2. PICK v, l, e, w, j :
          run = [at |-> 12, verdict |-> v, loaded |-> l, exports |-> e, work |-> w, jobs |-> j]
  BY <1>1, Zenon DEF DInv, RunShape
<1> DEFINE nextWork == WorkAfter(work, records, disk["receipt"].ready)
           nextJobs == JobsAfter(jobs, records)
<1>3. run' = [[run EXCEPT !.work = nextWork, !.jobs = nextJobs, !.exports = FALSE]
                  EXCEPT !.at = 13]
  BY <1>1, Positions DEF LoadTables, Step
<1> HIDE DEF nextWork, nextJobs
<1>4. run' = [at |-> 13, verdict |-> v, loaded |-> l, exports |-> FALSE,
              work |-> nextWork, jobs |-> nextJobs]
  BY <1>2, <1>3
<1> QED  BY <1>1, <1>2, <1>4 DEF nextWork, nextJobs

\* Where the run is past its engines, a step that leaves their files alone
\* leaves the invariant alone.
LEMMA PastEngines ==
    ASSUME DInv, UNCHANGED engines, RunShape', run'.at \notin {2, 4, 5}
    PROVE  DInv'
  BY DEF DInv, engines, LoadedAreRecorded, ItemsAreWritten, DoneMeansWritten

\* So does a step of something else.
LEMMA NotTheRun ==
    ASSUME DInv, UNCHANGED <<engines, run>>
    PROVE  DInv'
  BY DEF DInv, engines, RunShape, LoadedAreRecorded, ItemsAreWritten, DoneMeansWritten

LEMMA StartRunKeeps ==
    ASSUME DInv, StartRun PROVE DInv'
  BY PastEngines DEF StartRun, RunShape, Idle

LEMMA AppendRecordsKeeps ==
    ASSUME DInv, AppendRecords PROVE DInv'
<1>1. run.at = 1 /\ RunShape' /\ run'.at = 2 /\ run'.loaded = run.loaded
  BY StepMoves, Positions DEF AppendRecords
<1>2. DOMAIN records' = DOMAIN records \cup (run.loaded \ (executed \cup DOMAIN records))
  BY DEF AppendRecords, RecordsAfter, Extend
<1>3. executed \subseteq DOMAIN records /\ tracked \subseteq items
  BY DEF DInv, DoneMeansWritten
<1>4. UNCHANGED <<executed, items, tracked>>
  BY DEF AppendRecords
<1>5. LoadedAreRecorded' /\ DoneMeansWritten'
  BY <1>1, <1>2, <1>3, <1>4 DEF LoadedAreRecorded, DoneMeansWritten
<1> QED  BY <1>1, <1>5 DEF DInv, ItemsAreWritten

LEMMA SaveExecutionStateKeeps ==
    ASSUME DInv, SaveExecutionState PROVE DInv'
<1>1. run.at = 2 /\ RunShape' /\ run'.at = 3
  BY StepMoves, Positions DEF SaveExecutionState
<1>2. executed' \subseteq DOMAIN records
  BY <1>1 DEF SaveExecutionState, DInv, LoadedAreRecorded, DoneMeansWritten
<1>3. UNCHANGED <<records, items, tracked>>
  BY DEF SaveExecutionState
<1>4. DoneMeansWritten'
  BY <1>2, <1>3 DEF DInv, DoneMeansWritten
<1> QED  BY <1>1, <1>4 DEF DInv, LoadedAreRecorded, ItemsAreWritten

LEMMA AppendItemsKeeps ==
    ASSUME DInv, AppendItems PROVE DInv'
<1>1. run.at = 3 /\ RunShape' /\ run'.at = 4 /\ run'.verdict = run.verdict
  BY StepMoves, Positions DEF AppendItems
<1>2. items' = items \cup (ItemsOf(records, run.verdict) \ tracked)
  BY DEF AppendItems
<1>3. UNCHANGED <<records, executed, tracked>>
  BY DEF AppendItems
<1>4. DoneMeansWritten
  BY DEF DInv
<1>5. ItemsOf(records, run.verdict) \subseteq items' /\ DoneMeansWritten'
  BY <1>2, <1>3, <1>4 DEF DoneMeansWritten
<1>6. ItemsAreWritten'
  BY <1>1, <1>3, <1>5 DEF ItemsAreWritten, ItemsOf
<1> QED  BY <1>1, <1>5, <1>6 DEF DInv, LoadedAreRecorded

LEMMA WriteRemediationGateKeeps ==
    ASSUME DInv, WriteRemediationGate PROVE DInv'
<1>1. run.at = 4 /\ RunShape' /\ run'.at = 5 /\ run'.verdict = run.verdict
  BY StepMoves, Positions DEF WriteRemediationGate, Put
<1>2. UNCHANGED <<records, executed, items, tracked>>
  BY DEF WriteRemediationGate, Put, engines
<1>3. ItemsAreWritten' /\ DoneMeansWritten'
  BY <1>1, <1>2 DEF DInv, ItemsAreWritten, ItemsOf, DoneMeansWritten
<1> QED  BY <1>1, <1>3 DEF DInv, LoadedAreRecorded

LEMMA SaveRemediationStateKeeps ==
    ASSUME DInv, SaveRemediationState PROVE DInv'
<1>1. /\ run # Idle /\ run.at = 5
      /\ run' = [at |-> 6, verdict |-> Empty, loaded |-> {}, exports |-> run.exports,
                 work |-> run.work, jobs |-> run.jobs]
  BY TrackedIs
<1>2. tracked' \subseteq items /\ UNCHANGED <<records, executed, items>>
  BY <1>1 DEF SaveRemediationState, DInv, ItemsAreWritten, DoneMeansWritten
<1>3. DoneMeansWritten'
  BY <1>2 DEF DInv, DoneMeansWritten
<1> QED  BY <1>1, <1>3 DEF DInv, RunShape, LoadedAreRecorded, ItemsAreWritten

\* The steps that write an artifact of the gate chain after the engines.
LEMMA PutKeeps ==
    ASSUME DInv, NEW x, NEW ready, Put(x, ready),
           x \notin {"records", "executed", "items", "gate", "tracked"}
    PROVE  DInv'
<1>1. RunShape' /\ run.at \in 6..15 /\ (run'.at = run.at + 1 \/ run'.at = 0)
  BY StepMoves, Positions DEF Put
<1> QED  BY <1>1, PastEngines DEF Put

LEMMA WriteDisciplineKeeps ==
    ASSUME DInv, WriteDiscipline PROVE DInv'
<1>1. PICK ready : run' = [at |-> 7, verdict |-> run.verdict, loaded |-> run.loaded,
                           exports |-> ready, work |-> run.work, jobs |-> run.jobs]
  BY DisciplineIs
<1>2. UNCHANGED engines
  BY DEF WriteDiscipline
<1> QED  BY <1>1, <1>2, PastEngines DEF RunShape

LEMMA LoadTablesKeeps ==
    ASSUME DInv, LoadTables PROVE DInv'
<1>1. PICK w, j : run' = [at |-> 13, verdict |-> run.verdict, loaded |-> run.loaded,
                          exports |-> FALSE, work |-> w, jobs |-> j]
  BY LoadIs
<1>2. UNCHANGED engines
  BY DEF LoadTables
<1> QED  BY <1>1, <1>2, PastEngines DEF RunShape

LEMMA TableWritesKeep ==
    ASSUME DInv, WriteWorkItems \/ WriteJobs PROVE DInv'
<1>1. RunShape' /\ run.at \in 6..15 /\ (run'.at = run.at + 1 \/ run'.at = 0)
  BY StepMoves, Positions DEF WriteWorkItems, WriteJobs
<1>2. UNCHANGED engines
  BY DEF WriteWorkItems, WriteJobs
<1> QED  BY <1>1, <1>2, PastEngines

LEMMA KillRunKeeps ==
    ASSUME DInv, KillRun PROVE DInv'
<1>1. run' = Idle /\ UNCHANGED engines
  BY DEF KillRun
<1>2. RunShape' /\ run'.at = 0
  BY <1>1 DEF RunShape, Idle
<1> QED  BY <1>1, <1>2, PastEngines

LEMMA ScriptsKeep ==
    ASSUME DInv,
           \/ ReceiveWork \/ StartQueueing \/ BuildJobs \/ LoadJobs \/ AppendJobs
           \/ WriteRunnerIndex \/ SaveRunnerState \/ KillQueueing
    PROVE  DInv'
<1>1. UNCHANGED <<engines, run>>
  BY DEF ReceiveWork, StartQueueing, BuildJobs, LoadJobs, AppendJobs, WriteRunnerIndex,
         SaveRunnerState, KillQueueing, QueueStep
<1> QED  BY <1>1, NotTheRun

-----------------------------------------------------------------------------

\* The invariant behind DoneMeansWritten is inductive: it holds at first, and
\* every step of the pipeline, of the scripts and of a death keeps it.
THEOREM DoneInductive == Spec => []DInv
<1>1. Init => DInv
  BY DEF Init, DInv, RunShape, LoadedAreRecorded, ItemsAreWritten, DoneMeansWritten, Idle,
         Empty
<1>2. DInv /\ [Next]_vars => DInv'
  <2> SUFFICES ASSUME DInv, [Next]_vars PROVE DInv'
    OBVIOUS
  <2>1. CASE StartRun
    BY <2>1, StartRunKeeps
  <2>2. CASE AppendRecords \/ SaveExecutionState \/ AppendItems
    BY <2>2, AppendRecordsKeeps, SaveExecutionStateKeeps, AppendItemsKeeps
  <2>3. CASE WriteRemediationGate \/ SaveRemediationState
    BY <2>3, WriteRemediationGateKeeps, SaveRemediationStateKeeps
  <2>4. CASE \/ WriteSurface \/ WriteFinalizeArtifact \/ WriteDecision \/ WritePackage
             \/ WriteReceipt \/ WriteReadiness
    BY <2>4, PutKeeps DEF WriteSurface, WriteFinalizeArtifact, WriteDecision, WritePackage,
       WriteReceipt, WriteReadiness
  <2>5. CASE WriteDiscipline \/ LoadTables
    BY <2>5, WriteDisciplineKeeps, LoadTablesKeeps
  <2>6. CASE WriteWorkItems \/ WriteJobs
    BY <2>6, TableWritesKeep
  <2>7. CASE KillRun
    BY <2>7, KillRunKeeps
  <2>8. CASE \/ ReceiveWork \/ StartQueueing \/ BuildJobs \/ LoadJobs \/ AppendJobs
             \/ WriteRunnerIndex \/ SaveRunnerState \/ KillQueueing
    BY <2>8, ScriptsKeep
  <2>9. CASE UNCHANGED vars
    BY <2>9, NotTheRun DEF vars
  <2> QED  BY <2>1, <2>2, <2>3, <2>4, <2>5, <2>6, <2>7, <2>8, <2>9 DEF Next
<1> QED  BY <1>1, <1>2, PTL DEF Spec

\* No death makes an engine believe it has done what it has not.
THEOREM DoneWritten == Spec => []DoneMeansWritten
<1>1. DInv => DoneMeansWritten
  BY DEF DInv
<1> QED  BY DoneInductive, <1>1, PTL

-----------------------------------------------------------------------------
(* The gates of the release.                                                *)

Ready(x) == disk[x].ready

\* What the artifacts that the run under way has written say.
Stands ==
    run # Idle =>
        /\ run.at > 4 => (Ready("gate") <=> Blockers(items) = {})
        /\ run.at > 6 => (Ready("discipline") => Ready("gate"))
        /\ run.at > 7 => (Ready("surface") => Ready("discipline"))
        /\ run.at > 8 => (Ready("finalize") => Ready("surface") /\ ExecutionComplete(records))
        /\ run.at > 9 => (Ready("decision") => Ready("finalize"))
        /\ run.at > 10 => (Ready("package") => Ready("decision"))
        /\ run.at > 11 => (Ready("receipt") => Ready("package"))

\* Which artifacts are its own.
Owns ==
    run # Idle =>
        /\ disk["readiness"].run < runs
        /\ run.at > 4 => disk["gate"].run = runs
        /\ run.at > 6 => disk["discipline"].run = runs
        /\ run.at > 7 => disk["surface"].run = runs
        /\ run.at > 8 => disk["finalize"].run = runs
        /\ run.at > 9 => disk["decision"].run = runs
        /\ run.at > 10 => disk["package"].run = runs
        /\ run.at > 11 => disk["receipt"].run = runs

DiskShape ==
    /\ runs \in Nat
    /\ disk \in [Artifact -> [run : Nat, ready : BOOLEAN]]
    /\ \A x \in Artifact : disk[x].run <= runs

\* The inductive invariant behind ReleaseIsEarned and RunsAgree.
GInv == DiskShape /\ Stands /\ Owns /\ RunsAgree

\* The artifacts of the chain, and where they stand in it.
LEMMA ArtifactsAre ==
    /\ Artifact = {"gate", "discipline", "surface", "finalize", "decision", "package",
                   "receipt", "readiness"}
    /\ DOMAIN Chain = 1..8
    /\ Chain[1] = "gate" /\ Chain[2] = "discipline" /\ Chain[3] = "surface"
    /\ Chain[4] = "finalize" /\ Chain[5] = "decision" /\ Chain[6] = "package"
    /\ Chain[7] = "receipt" /\ Chain[8] = "readiness"
<1>1. /\ DOMAIN Chain = 1..8
      /\ Chain[1] = "gate" /\ Chain[2] = "discipline" /\ Chain[3] = "surface"
      /\ Chain[4] = "finalize" /\ Chain[5] = "decision" /\ Chain[6] = "package"
      /\ Chain[7] = "receipt" /\ Chain[8] = "readiness"
  BY DEF Chain
<1>2. 1..8 = {1, 2, 3, 4, 5, 6, 7, 8}
  OBVIOUS
<1> QED  BY <1>1, <1>2 DEF Artifact

\* Where the artifacts stand in the order of the writes.
LEMMA MorePositions ==
    ASSUME NEW n \in 1..15
    PROVE  /\ Writes[n] = "discipline" <=> n = 6
           /\ Writes[n] = "surface" <=> n = 7
           /\ Writes[n] = "finalize" <=> n = 8
           /\ Writes[n] = "decision" <=> n = 9
           /\ Writes[n] = "package" <=> n = 10
           /\ Writes[n] = "receipt" <=> n = 11
           /\ Writes[n] = "load" <=> n = 12
           /\ Writes[n] = "work" <=> n = 13
           /\ Writes[n] = "jobs" <=> n = 14
           /\ Writes[n] = "readiness" <=> n = 15
  BY DEF Writes

\* A step that writes an artifact of the chain.
LEMMA PutIs ==
    ASSUME DInv, GInv, NEW x \in Artifact, NEW ready \in BOOLEAN, Put(x, ready)
    PROVE  /\ run # Idle /\ run.at \in 1..15 /\ Writes[run.at] = x
           /\ run.at < 15 => run' # Idle /\ run'.at = run.at + 1
           /\ run.at = 15 => run' = Idle
           /\ disk'[x] = [run |-> runs, ready |-> ready]
           /\ \A y \in Artifact \ {x} : disk'[y] = disk[y]
           /\ DiskShape' /\ UNCHANGED <<runs, records, items>>
<1>1. run # Idle /\ run.at \in 1..15 /\ Writes[run.at] = x
  BY StepMoves DEF Put, Step
<1>2. run' = IF run.at = 15 THEN Idle ELSE [run EXCEPT !.at = run.at + 1]
  BY <1>1, Positions DEF Put, Step
<1>3. run.at < 15 => run' # Idle /\ run'.at = run.at + 1
  BY <1>1, StepMoves DEF Put, Idle
<1>4. disk' = [disk EXCEPT ![x] = [run |-> runs, ready |-> ready]]
  BY DEF Put
<1>5. UNCHANGED <<runs, records, items>>
  BY DEF Put, Step, engines
<1>6. DiskShape'
  BY <1>4, <1>5 DEF GInv, DiskShape
<1> QED  BY <1>1, <1>2, <1>3, <1>4, <1>5, <1>6 DEF GInv, DiskShape

\* A step of the run that writes no artifact.
LEMMA RunGoesOn ==
    ASSUME GInv, run # Idle, run.at \in 1..14, run' # Idle, run'.at = run.at + 1,
           run.at \in {1, 2, 3, 5, 12, 13, 14}, UNCHANGED <<disk, runs>>,
           run.at < 4 \/ UNCHANGED <<records, items>>
    PROVE  GInv'
  BY DEF GInv, DiskShape, Stands, Owns, RunsAgree, Ready

LEMMA StepGoesOn ==
    ASSUME DInv, GInv, NEW x, Step(x, run), UNCHANGED disk,
           x \in {"records", "executed", "items"} \/ UNCHANGED <<records, items>>,
           x \in {"records", "executed", "items", "work", "jobs"}
    PROVE  GInv'
<1>1. run # Idle /\ run.at \in 1..15 /\ Writes[run.at] = x
  BY StepMoves DEF Step
<1>2. run.at \in {1, 2, 3, 13, 14} /\ (x \in {"records", "executed", "items"} => run.at < 4)
  BY <1>1, Positions, MorePositions
<1>3. run' # Idle /\ run'.at = run.at + 1
  BY <1>2, StepMoves DEF Idle
<1>4. UNCHANGED runs
  BY DEF Step
<1> QED  BY <1>1, <1>2, <1>3, <1>4, RunGoesOn

LEMMA StartRunOwns ==
    ASSUME DInv, GInv, StartRun PROVE GInv'
<1>1. run' # Idle /\ run'.at = 1 /\ runs' = runs + 1 /\ UNCHANGED disk
  BY DEF StartRun, Idle
<1> QED  BY <1>1, ArtifactsAre DEF GInv, DiskShape, Stands, Owns, RunsAgree

LEMMA KillRunOwns ==
    ASSUME DInv, GInv, KillRun PROVE GInv'
<1>1. run # Idle /\ run' = Idle /\ UNCHANGED <<disk, runs>>
  BY DEF KillRun
<1> QED  BY <1>1 DEF GInv, DiskShape, Stands, Owns, RunsAgree

LEMMA OutsideOwns ==
    ASSUME GInv, UNCHANGED <<disk, runs, run, records, items>> PROVE GInv'
  BY DEF GInv, DiskShape, Stands, Owns, RunsAgree, Ready

LEMMA GateOwns ==
    ASSUME DInv, GInv, WriteRemediationGate PROVE GInv'
<1> DEFINE ready == (Blockers(items) = {})
<1>1. Put("gate", ready) /\ ready \in BOOLEAN /\ (ready <=> Blockers(items) = {})
  BY DEF WriteRemediationGate
<1> HIDE DEF ready
<1>2. run.at = 4 /\ run # Idle /\ run' # Idle /\ run'.at = 5
  <2>1. /\ run # Idle /\ run.at \in 1..15 /\ Writes[run.at] = "gate"
        /\ run.at < 15 => run' # Idle /\ run'.at = run.at + 1
        /\ run.at = 15 => run' = Idle
    BY <1>1, PutIs, ArtifactsAre
  <2> QED  BY <2>1, Positions, MorePositions
<1>3. /\ disk'["gate"] = [run |-> runs, ready |-> ready]
      /\ disk'["readiness"] = disk["readiness"]
      /\ DiskShape' /\ UNCHANGED <<runs, items>>
  BY <1>1, PutIs, ArtifactsAre
<1>4. disk'["gate"].run = runs /\ (disk'["gate"].ready <=> Blockers(items) = {})
  BY <1>1, <1>3
<1>5. Stands' /\ Owns'
  BY <1>2, <1>3, <1>4 DEF GInv, Stands, Owns, Ready, Blockers
<1> QED  BY <1>2, <1>3, <1>5 DEF GInv, RunsAgree

LEMMA TrackedOwns ==
    ASSUME DInv, GInv, SaveRemediationState PROVE GInv'
<1>1. run # Idle /\ run.at = 5 /\ run' # Idle /\ run'.at = 6
  BY TrackedIs DEF Idle
<1>2. UNCHANGED <<disk, runs, records, items>>
  BY DEF SaveRemediationState, Step
<1> QED  BY <1>1, <1>2, RunGoesOn

LEMMA DisciplineOwns ==
    ASSUME DInv, GInv, WriteDiscipline PROVE GInv'
<1>1. PICK schedule \in Gate \cup {Absent}, report \in Gate \cup {Absent},
           export \in Gate \cup {Absent} :
          /\ Step("discipline", [run EXCEPT !.exports = ExportsReady(report, export)])
          /\ disk' = [disk EXCEPT !["discipline"] =
                 [run |-> runs, ready |-> Discipline(items, schedule, report, export)]]
          /\ UNCHANGED <<work, jobs, engines>>
  BY DEF WriteDiscipline
<1>2. run # Idle /\ run.at = 6
  BY DisciplineIs
<1>3. run' # Idle /\ run'.at = 7
  BY DisciplineIs DEF Idle
<1> DEFINE ready == Discipline(items, schedule, report, export)
<1>4. ready \in BOOLEAN /\ (ready => Blockers(items) = {})
  BY DEF Discipline
<1> HIDE DEF ready
<1>5. disk' = [disk EXCEPT !["discipline"] = [run |-> runs, ready |-> ready]]
  BY <1>1 DEF ready
<1>6. UNCHANGED <<runs, records, items>>
  BY <1>1 DEF Step, engines
<1>7. /\ disk'["discipline"].run = runs /\ disk'["discipline"].ready = ready
      /\ \A y \in Artifact \ {"discipline"} : disk'[y] = disk[y]
      /\ DiskShape'
  BY <1>4, <1>5, <1>6, ArtifactsAre DEF GInv, DiskShape
<1>8. Stands' /\ Owns'
  BY <1>2, <1>3, <1>4, <1>6, <1>7, ArtifactsAre DEF GInv, Stands, Owns, Ready
<1> QED  BY <1>3, <1>7, <1>8 DEF GInv, RunsAgree

LEMMA SurfaceOwns ==
    ASSUME DInv, GInv, WriteSurface PROVE GInv'
<1> DEFINE ready == disk["discipline"].ready /\ Surface(items, run.exports, openJobs)
<1>1. Put("surface", ready) /\ ready \in BOOLEAN /\ (ready => disk["discipline"].ready)
  BY ArtifactsAre DEF WriteSurface, GInv, DiskShape
<1> HIDE DEF ready
<1>2. run.at = 7 /\ run # Idle /\ run' # Idle /\ run'.at = 8
  <2>1. /\ run # Idle /\ run.at \in 1..15 /\ Writes[run.at] = "surface"
        /\ run.at < 15 => run' # Idle /\ run'.at = run.at + 1
        /\ run.at = 15 => run' = Idle
    BY <1>1, PutIs, ArtifactsAre
  <2> QED  BY <2>1, Positions, MorePositions
<1>3. /\ disk'["surface"] = [run |-> runs, ready |-> ready]
      /\ \A y \in Artifact \ {"surface"} : disk'[y] = disk[y]
      /\ DiskShape' /\ UNCHANGED <<runs, records, items>>
  BY <1>1, PutIs, ArtifactsAre
<1>4. Stands' /\ Owns'
  BY <1>1, <1>2, <1>3, ArtifactsAre DEF GInv, Stands, Owns, Ready
<1> QED  BY <1>2, <1>3, <1>4 DEF GInv, RunsAgree

LEMMA FinalizeOwns ==
    ASSUME DInv, GInv, WriteFinalizeArtifact PROVE GInv'
<1> DEFINE ready == disk["surface"].ready /\ ExecutionComplete(records)
<1>1. /\ Put("finalize", ready) /\ ready \in BOOLEAN
      /\ ready => disk["surface"].ready /\ ExecutionComplete(records)
  BY DEF WriteFinalizeArtifact
<1> HIDE DEF ready
<1>2. run.at = 8 /\ run # Idle /\ run' # Idle /\ run'.at = 9
  <2>1. /\ run # Idle /\ run.at \in 1..15 /\ Writes[run.at] = "finalize"
        /\ run.at < 15 => run' # Idle /\ run'.at = run.at + 1
        /\ run.at = 15 => run' = Idle
    BY <1>1, PutIs, ArtifactsAre
  <2> QED  BY <2>1, Positions, MorePositions
<1>3. /\ disk'["finalize"] = [run |-> runs, ready |-> ready]
      /\ \A y \in Artifact \ {"finalize"} : disk'[y] = disk[y]
      /\ DiskShape' /\ UNCHANGED <<runs, records, items>>
  BY <1>1, PutIs, ArtifactsAre
<1>4. Stands' /\ Owns'
  BY <1>1, <1>2, <1>3, ArtifactsAre DEF GInv, Stands, Owns, Ready
<1> QED  BY <1>2, <1>3, <1>4 DEF GInv, RunsAgree

LEMMA DecisionOwns ==
    ASSUME DInv, GInv, WriteDecision PROVE GInv'
<1>1. Put("decision", disk["finalize"].ready) /\ disk["finalize"].ready \in BOOLEAN
  BY ArtifactsAre DEF WriteDecision, GInv, DiskShape
<1>2. run.at = 9 /\ run # Idle /\ run' # Idle /\ run'.at = 10
  <2>1. /\ run # Idle /\ run.at \in 1..15 /\ Writes[run.at] = "decision"
        /\ run.at < 15 => run' # Idle /\ run'.at = run.at + 1
        /\ run.at = 15 => run' = Idle
    BY <1>1, PutIs, ArtifactsAre
  <2> QED  BY <2>1, Positions, MorePositions
<1>3. /\ disk'["decision"] = [run |-> runs, ready |-> disk["finalize"].ready]
      /\ \A y \in Artifact \ {"decision"} : disk'[y] = disk[y]
      /\ DiskShape' /\ UNCHANGED <<runs, records, items>>
  BY <1>1, PutIs, ArtifactsAre
<1>4. Stands' /\ Owns'
  BY <1>2, <1>3, ArtifactsAre DEF GInv, Stands, Owns, Ready
<1> QED  BY <1>2, <1>3, <1>4 DEF GInv, RunsAgree

LEMMA PackageOwns ==
    ASSUME DInv, GInv, WritePackage PROVE GInv'
<1>1. Put("package", disk["decision"].ready) /\ disk["decision"].ready \in BOOLEAN
  BY ArtifactsAre DEF WritePackage, GInv, DiskShape
<1>2. run.at = 10 /\ run # Idle /\ run' # Idle /\ run'.at = 11
  <2>1. /\ run # Idle /\ run.at \in 1..15 /\ Writes[run.at] = "package"
        /\ run.at < 15 => run' # Idle /\ run'.at = run.at + 1
        /\ run.at = 15 => run' = Idle
    BY <1>1, PutIs, ArtifactsAre
  <2> QED  BY <2>1, Positions, MorePositions
<1>3. /\ disk'["package"] = [run |-> runs, ready |-> disk["decision"].ready]
      /\ \A y \in Artifact \ {"package"} : disk'[y] = disk[y]
      /\ DiskShape' /\ UNCHANGED <<runs, records, items>>
  BY <1>1, PutIs, ArtifactsAre
<1>4. Stands' /\ Owns'
  BY <1>2, <1>3, ArtifactsAre DEF GInv, Stands, Owns, Ready
<1> QED  BY <1>2, <1>3, <1>4 DEF GInv, RunsAgree

LEMMA ReceiptOwns ==
    ASSUME DInv, GInv, WriteReceipt PROVE GInv'
<1> DEFINE ready == disk["decision"].ready /\ disk["package"].ready
<1>1. Put("receipt", ready) /\ ready \in BOOLEAN /\ (ready => disk["package"].ready)
  BY DEF WriteReceipt
<1> HIDE DEF ready
<1>2. run.at = 11 /\ run # Idle /\ run' # Idle /\ run'.at = 12
  <2>1. /\ run # Idle /\ run.at \in 1..15 /\ Writes[run.at] = "receipt"
        /\ run.at < 15 => run' # Idle /\ run'.at = run.at + 1
        /\ run.at = 15 => run' = Idle
    BY <1>1, PutIs, ArtifactsAre
  <2> QED  BY <2>1, Positions, MorePositions
<1>3. /\ disk'["receipt"] = [run |-> runs, ready |-> ready]
      /\ \A y \in Artifact \ {"receipt"} : disk'[y] = disk[y]
      /\ DiskShape' /\ UNCHANGED <<runs, records, items>>
  BY <1>1, PutIs, ArtifactsAre
<1>4. Stands' /\ Owns'
  BY <1>1, <1>2, <1>3, ArtifactsAre DEF GInv, Stands, Owns, Ready
<1> QED  BY <1>2, <1>3, <1>4 DEF GInv, RunsAgree

LEMMA LoadOwns ==
    ASSUME DInv, GInv, LoadTables PROVE GInv'
<1>1. run # Idle /\ run.at = 12 /\ run' # Idle /\ run'.at = 13
  BY LoadIs DEF Idle
<1>2. UNCHANGED <<disk, runs, records, items>>
  BY DEF LoadTables, Step, engines
<1> QED  BY <1>1, <1>2, RunGoesOn

\* The last write: the run ends, and its chain stands.
LEMMA ReadinessOwns ==
    ASSUME DInv, GInv, WriteReadiness PROVE GInv'
<1> DEFINE ready == disk["receipt"].ready /\ Reasonless(run.work, run.jobs, records)
<1>1. Put("readiness", ready) /\ ready \in BOOLEAN /\ (ready => disk["receipt"].ready)
  BY DEF WriteReadiness
<1> HIDE DEF ready
<1>2. run.at = 15 /\ run # Idle /\ run' = Idle
  <2>1. /\ run # Idle /\ run.at \in 1..15 /\ Writes[run.at] = "readiness"
        /\ run.at < 15 => run' # Idle /\ run'.at = run.at + 1
        /\ run.at = 15 => run' = Idle
    BY <1>1, PutIs, ArtifactsAre
  <2> QED  BY <2>1, Positions, MorePositions
<1>3. /\ disk'["readiness"] = [run |-> runs, ready |-> ready]
      /\ \A y \in Artifact \ {"readiness"} : disk'[y] = disk[y]
      /\ DiskShape' /\ UNCHANGED runs
  BY <1>1, PutIs, ArtifactsAre
<1>4. \A x \in Artifact : disk'[x].run = runs
  BY <1>2, <1>3, ArtifactsAre DEF GInv, Owns
<1>5. /\ disk'["discipline"].ready => disk'["gate"].ready
      /\ disk'["surface"].ready => disk'["discipline"].ready
      /\ disk'["finalize"].ready => disk'["surface"].ready
      /\ disk'["decision"].ready => disk'["finalize"].ready
      /\ disk'["package"].ready => disk'["decision"].ready
      /\ disk'["receipt"].ready => disk'["package"].ready
      /\ disk'["readiness"].ready => disk'["receipt"].ready
  BY <1>1, <1>2, <1>3, ArtifactsAre DEF GInv, Stands, Ready
<1>6. \A m, n \in 1..8 : m < n /\ disk'[Chain[n]].ready => disk'[Chain[m]].ready
  BY <1>5, ArtifactsAre
<1>7. RunsAgree'
  BY <1>3, <1>4, <1>6, ArtifactsAre DEF RunsAgree
<1> QED  BY <1>2, <1>3, <1>7 DEF GInv, Stands, Owns

\* The invariant of the gates is inductive, given that of the engines.
LEMMA GatesStand ==
    ASSUME DInv, GInv, [Next]_vars PROVE GInv'
<1>1. CASE StartRun \/ KillRun
  BY <1>1, StartRunOwns, KillRunOwns
<1>2. CASE AppendRecords
  BY <1>2, StepGoesOn DEF AppendRecords
<1>3. CASE SaveExecutionState
  BY <1>3, StepGoesOn DEF SaveExecutionState
<1>4. CASE AppendItems
  BY <1>4, StepGoesOn DEF AppendItems
<1>5. CASE WriteWorkItems \/ WriteJobs
  BY <1>5, StepGoesOn DEF WriteWorkItems, WriteJobs, engines
<1>6. CASE WriteRemediationGate \/ SaveRemediationState \/ WriteDiscipline \/ LoadTables
  BY <1>6, GateOwns, TrackedOwns, DisciplineOwns, LoadOwns
<1>7. CASE \/ WriteSurface \/ WriteFinalizeArtifact \/ WriteDecision \/ WritePackage
           \/ WriteReceipt \/ WriteReadiness
  BY <1>7, SurfaceOwns, FinalizeOwns, DecisionOwns, PackageOwns, ReceiptOwns, ReadinessOwns
<1>8. CASE \/ ReceiveWork \/ StartQueueing \/ BuildJobs \/ LoadJobs \/ AppendJobs
           \/ WriteRunnerIndex \/ SaveRunnerState \/ KillQueueing
  <2>1. UNCHANGED <<disk, runs, run, records, items>>
    BY <1>8 DEF ReceiveWork, StartQueueing, BuildJobs, LoadJobs, AppendJobs,
       WriteRunnerIndex, SaveRunnerState, KillQueueing, QueueStep, engines
  <2> QED  BY <2>1, OutsideOwns
<1>9. CASE UNCHANGED vars
  BY <1>9, OutsideOwns DEF vars, engines
<1> QED  BY <1>1, <1>2, <1>3, <1>4, <1>5, <1>6, <1>7, <1>8, <1>9 DEF Next

\* It holds at first, and so always.
THEOREM GatesInductive == Spec => []GInv
<1>1. Init => GInv
  BY ArtifactsAre DEF Init, GInv, DiskShape, Stands, Owns, RunsAgree, NoArtifact
<1>2. DInv /\ GInv /\ [Next]_vars => GInv'
  BY GatesStand
<1> QED  BY <1>1, <1>2, DoneInductive, PTL DEF Spec

\* After a run that ended, all artifacts are its own, and a PASS at the end of
\* the chain stands on a PASS everywhere before.
THEOREM EndedRunsAgree == Spec => []RunsAgree
<1>1. GInv => RunsAgree
  BY DEF GInv
<1> QED  BY GatesInductive, <1>1, PTL

-----------------------------------------------------------------------------
(* What a release and a PASS mean.                                          *)

\* A decision that is ready was earned, once the run under way has made it.
LEMMA ReadyIsEarned ==
    ASSUME GInv, run # Idle, run.at > 9, disk["decision"].ready, run.at \in 1..15
    PROVE  ExecutionComplete(records) /\ Blockers(items) = {}
  BY DEF GInv, Stands, Ready

\* A step writes one artifact, the one it is named for.
LEMMA WritesOne ==
    ASSUME DInv, GInv, [Next]_vars,
           NEW x \in {"package", "receipt", "readiness"}, disk'[x] # disk[x]
    PROVE  \/ x = "package" /\ WritePackage
           \/ x = "receipt" /\ WriteReceipt
           \/ x = "readiness" /\ WriteReadiness
<1>1. CASE UNCHANGED disk
  BY <1>1
<1>2. CASE WriteDiscipline
  BY <1>2 DEF WriteDiscipline, GInv, DiskShape
<1>3. ASSUME NEW y, NEW ready, Put(y, ready), x # y PROVE FALSE
  BY <1>3 DEF Put, GInv, DiskShape
<1>4. CASE WriteRemediationGate \/ WriteSurface \/ WriteFinalizeArtifact \/ WriteDecision
  BY <1>3, <1>4 DEF WriteRemediationGate, WriteSurface, WriteFinalizeArtifact, WriteDecision
<1>5. CASE WritePackage \/ WriteReceipt \/ WriteReadiness
  BY <1>3, <1>5 DEF WritePackage, WriteReceipt, WriteReadiness
<1>6. ASSUME Next, ~WriteDiscipline,
             ~(WriteRemediationGate \/ WriteSurface \/ WriteFinalizeArtifact \/ WriteDecision),
             ~(WritePackage \/ WriteReceipt \/ WriteReadiness)
      PROVE  UNCHANGED disk
  BY <1>6 DEF Next, StartRun, AppendRecords, SaveExecutionState, AppendItems,
     SaveRemediationState, LoadTables, WriteWorkItems, WriteJobs, KillRun, ReceiveWork,
     StartQueueing, BuildJobs, LoadJobs, AppendJobs, WriteRunnerIndex, SaveRunnerState,
     KillQueueing, QueueStep
<1> QED  BY <1>1, <1>2, <1>4, <1>5, <1>6 DEF vars

\* A package, a receipt or a readiness is ready only if every execution record
\* is COMPLETED and nothing blocks a release.
THEOREM ReleaseEarned == Spec => ReleaseIsEarned
<1> DEFINE Earned ==
        \A x \in {"package", "receipt", "readiness"} :
            disk'[x] # disk[x] /\ disk'[x].ready =>
                /\ DOMAIN records # {} /\ \A a \in DOMAIN records : records[a] = "COMPLETED"
                /\ Blockers(items) = {}
<1>1. ASSUME DInv, GInv, [Next]_vars PROVE Earned
  <2> SUFFICES ASSUME NEW x \in {"package", "receipt", "readiness"},
                      disk'[x] # disk[x], disk'[x].ready
               PROVE  ExecutionComplete(records) /\ Blockers(items) = {}
    BY DEF ExecutionComplete
  <2>1. CASE x = "package" /\ WritePackage
    <3>1. Put("package", disk["decision"].ready) /\ disk["decision"].ready \in BOOLEAN
      BY <1>1, <2>1, ArtifactsAre DEF WritePackage, GInv, DiskShape
    <3>2. run # Idle /\ run.at \in 1..15 /\ Writes[run.at] = "package"
      BY <1>1, <3>1, PutIs, ArtifactsAre
    <3>3. run.at = 10
      BY <3>2, MorePositions
    <3>4. disk'["package"] = [run |-> runs, ready |-> disk["decision"].ready]
      BY <1>1, <3>1, PutIs, ArtifactsAre
    <3>5. disk["decision"].ready
      BY <2>1, <3>4
    <3> QED  BY <1>1, <3>2, <3>3, <3>5, ReadyIsEarned
  <2>2. CASE x = "receipt" /\ WriteReceipt
    <3> DEFINE ready == disk["decision"].ready /\ disk["package"].ready
    <3>1. Put("receipt", ready) /\ ready \in BOOLEAN /\ (ready => disk["decision"].ready)
      BY <2>2 DEF WriteReceipt
    <3> HIDE DEF ready
    <3>2. run # Idle /\ run.at \in 1..15 /\ Writes[run.at] = "receipt"
      BY <1>1, <3>1, PutIs, ArtifactsAre
    <3>3. run.at = 11
      BY <3>2, MorePositions
    <3>4. disk'["receipt"] = [run |-> runs, ready |-> ready]
      BY <1>1, <3>1, PutIs, ArtifactsAre
    <3>5. disk["decision"].ready
      BY <2>2, <3>1, <3>4
    <3> QED  BY <1>1, <3>2, <3>3, <3>5, ReadyIsEarned
  <2>3. CASE x = "readiness" /\ WriteReadiness
    <3> DEFINE ready == disk["receipt"].ready /\ Reasonless(run.work, run.jobs, records)
    <3>1. Put("readiness", ready) /\ ready \in BOOLEAN /\ (ready => disk["receipt"].ready)
      BY <2>3 DEF WriteReadiness
    <3> HIDE DEF ready
    <3>2. run # Idle /\ run.at \in 1..15 /\ Writes[run.at] = "readiness"
      BY <1>1, <3>1, PutIs, ArtifactsAre
    <3>3. run.at = 15
      BY <3>2, MorePositions
    <3>4. disk'["readiness"] = [run |-> runs, ready |-> ready]
      BY <1>1, <3>1, PutIs, ArtifactsAre
    <3>5. disk["receipt"].ready
      BY <2>3, <3>1, <3>4
    <3>6. disk["decision"].ready
      BY <1>1, <3>2, <3>3, <3>5 DEF GInv, Stands, Ready
    <3> QED  BY <1>1, <3>2, <3>3, <3>6, ReadyIsEarned
  <2> QED  BY <1>1, <2>1, <2>2, <2>3, WritesOne
<1>2. DInv /\ GInv /\ [Next]_vars => [Earned]_vars
  BY <1>1
<1> QED  BY <1>2, DoneInductive, GatesInductive, PTL DEF Spec, ReleaseIsEarned

-----------------------------------------------------------------------------
(* What the run has read, and the shapes of all files.                      *)

\* What a step leaves of what the run has read.
LEMMA RunNow ==
    ASSUME DInv, [Next]_vars
    PROVE  \/ run' = Idle \/ run' = run
           \/ /\ StartRun /\ run'.at = 1 /\ run'.verdict \in [Audit -> Verdict]
              /\ run'.loaded = DOMAIN jobs /\ run'.work = Empty /\ run'.jobs = Empty
           \/ /\ SaveRemediationState /\ run # Idle /\ run'.at = 6 /\ run'.loaded = {}
              /\ run'.work = run.work /\ run'.jobs = run.jobs
           \/ /\ LoadTables /\ run # Idle /\ run'.at = 13 /\ run'.loaded = run.loaded
              /\ run'.work = WorkAfter(work, records, disk["receipt"].ready)
              /\ run'.jobs = JobsAfter(jobs, records)
           \/ /\ ~LoadTables /\ run # Idle /\ run'.at = run.at + 1 /\ run'.at \in 1..15
              /\ run'.at # 13 /\ run'.verdict = run.verdict /\ run'.loaded = run.loaded
              /\ run'.work = run.work /\ run'.jobs = run.jobs
<1>1. CASE StartRun
  <2>1. PICK verdict \in [Audit -> Verdict] :
            run' = [at |-> 1, verdict |-> verdict, loaded |-> DOMAIN jobs,
                    exports |-> FALSE, work |-> Empty, jobs |-> Empty]
    BY <1>1 DEF StartRun
  <2>2. run'.at = 1 /\ run'.verdict = verdict /\ run'.loaded = DOMAIN jobs
        /\ run'.work = Empty /\ run'.jobs = Empty
    BY <2>1
  <2> QED  BY <1>1, <2>2
<1>2. CASE SaveRemediationState
  BY <1>2, TrackedIs
<1>3. CASE LoadTables
  <2>1. /\ run # Idle /\ run'.at = 13 /\ run'.loaded = run.loaded
        /\ run'.work = WorkAfter(work, records, disk["receipt"].ready)
        /\ run'.jobs = JobsAfter(jobs, records)
    BY <1>3, LoadIs
  <2> QED  BY <1>3, <2>1
<1>4. CASE WriteDiscipline
  <2>1. ~LoadTables
    BY <1>4, DisciplineIs DEF LoadTables, Step, Writes
  <2> QED  BY <1>4, <2>1, DisciplineIs
<1>5. ASSUME NEW x, Step(x, run), x # "load"
      PROVE  \/ run' = Idle
             \/ /\ ~LoadTables /\ run # Idle /\ run'.at = run.at + 1 /\ run'.at \in 1..15
                /\ run'.at # 13 /\ run'.verdict = run.verdict /\ run'.loaded = run.loaded
                /\ run'.work = run.work /\ run'.jobs = run.jobs
  <2>1. run # Idle /\ run.at \in 1..15 /\ Writes[run.at] = x
    BY <1>5, StepMoves DEF Step
  <2>2. ~LoadTables
    BY <1>5, <2>1 DEF LoadTables, Step
  <2>3. run.at # 12
    BY <1>5, <2>1, MorePositions
  <2>4. PICK k, v, l, e, w, j :
          run = [at |-> k, verdict |-> v, loaded |-> l, exports |-> e, work |-> w, jobs |-> j]
    BY <2>1, Zenon DEF DInv, RunShape
  <2>5. run' = IF run.at = 15 THEN Idle ELSE [run EXCEPT !.at = run.at + 1]
    BY <1>5, <2>1, Positions DEF Step
  <2>6. CASE run.at < 15
    <3>1. run' = [at |-> run.at + 1, verdict |-> v, loaded |-> l, exports |-> e, work |-> w,
                  jobs |-> j]
      BY <2>1, <2>4, <2>5, <2>6
    <3> QED  BY <2>1, <2>2, <2>3, <2>4, <2>6, <3>1
  <2> QED  BY <2>1, <2>5, <2>6
<1>6. CASE \/ AppendRecords \/ SaveExecutionState \/ AppendItems \/ WriteRemediationGate
           \/ WriteSurface \/ WriteFinalizeArtifact \/ WriteDecision \/ WritePackage
           \/ WriteReceipt \/ WriteWorkItems \/ WriteJobs \/ WriteReadiness
  <2>1. \E x : x # "load" /\ Step(x, run)
    BY <1>6 DEF AppendRecords, SaveExecutionState, AppendItems, WriteRemediationGate,
       WriteSurface, WriteFinalizeArtifact, WriteDecision, WritePackage, WriteReceipt,
       WriteWorkItems, WriteJobs, WriteReadiness, Put
  <2> QED  BY <1>5, <2>1
<1>7. CASE \/ ReceiveWork \/ StartQueueing \/ BuildJobs \/ LoadJobs \/ AppendJobs
           \/ WriteRunnerIndex \/ SaveRunnerState \/ KillQueueing \/ UNCHANGED vars
  BY <1>7 DEF ReceiveWork, StartQueueing, BuildJobs, LoadJobs, AppendJobs,
     WriteRunnerIndex, SaveRunnerState, KillQueueing, QueueStep, vars
<1>8. CASE KillRun
  BY <1>8 DEF KillRun
<1> QED  BY <1>1, <1>2, <1>3, <1>4, <1>6, <1>7, <1>8 DEF Next

\* What it is to be a table, and that the builders of tables build them.
LEMMA TableIs ==
    ASSUME NEW V, NEW f \in Tables(V)
    PROVE  DOMAIN f \subseteq Audit /\ f = [a \in DOMAIN f |-> f[a]]
           /\ \A a \in DOMAIN f : f[a] \in V
  BY DEF Tables

LEMMA IsTable ==
    ASSUME NEW V, NEW D \in SUBSET Audit, NEW f \in [D -> V]
    PROVE  f \in Tables(V)
  BY DEF Tables

LEMMA EmptyIsTable == ASSUME NEW V PROVE Empty \in Tables(V)
<1>1. Empty \in [{} -> V]
  BY DEF Empty
<1> QED  BY <1>1, IsTable

LEMMA ExtendIsTable ==
    ASSUME NEW V, NEW f \in Tables(V), NEW g \in Tables(V)
    PROVE  Extend(f, g) \in Tables(V)
<1>1. DOMAIN f \cup DOMAIN g \in SUBSET Audit
  BY TableIs
<1>2. Extend(f, g) \in [DOMAIN f \cup DOMAIN g -> V]
  BY TableIs DEF Extend
<1> QED  BY <1>1, <1>2, IsTable

LEMMA WorkIsTable ==
    ASSUME NEW table \in Tables(WorkRow), NEW rows \in Tables(ExecutionStatus),
           NEW final \in BOOLEAN
    PROVE  WorkAfter(table, rows, final) \in Tables(WorkRow)
<1>1. DOMAIN table \in SUBSET Audit /\ \A a \in DOMAIN rows : rows[a] \in ExecutionStatus
  BY TableIs
<1>2. WorkAfter(table, rows, final) \in [DOMAIN table -> WorkRow]
  BY <1>1 DEF WorkAfter, WorkRow
<1> QED  BY <1>1, <1>2, IsTable

LEMMA JobsIsTable ==
    ASSUME NEW table \in Tables(RunStatus), NEW rows \in Tables(ExecutionStatus)
    PROVE  JobsAfter(table, rows) \in Tables(RunStatus)
<1>1. DOMAIN table \in SUBSET Audit /\ \A a \in DOMAIN rows : rows[a] \in ExecutionStatus
  BY TableIs
<1>2. \A s \in ExecutionStatus : RunStatusOf(s) \in RunStatus
  BY DEF ExecutionStatus, RunStatusOf, RunStatus
<1>3. JobsAfter(table, rows) \in [DOMAIN table -> RunStatus]
  BY <1>1, <1>2 DEF JobsAfter, RunStatus
<1> QED  BY <1>1, <1>3, IsTable

LEMMA RecordsIsTable ==
    ASSUME NEW rows \in Tables(ExecutionStatus), NEW done, NEW loaded \in SUBSET Audit,
           NEW verdict \in [Audit -> Verdict]
    PROVE  RecordsAfter(rows, done, loaded, verdict) \in Tables(ExecutionStatus)
<1> DEFINE new == [a \in loaded \ done |-> StatusOf(verdict[a])]
<1>1. \A v \in Verdict : StatusOf(v) \in ExecutionStatus
  BY DEF Verdict, StatusOf, ExecutionStatus
<1>2. new \in [loaded \ done -> ExecutionStatus]
  BY <1>1
<1>3. new \in Tables(ExecutionStatus)
  BY <1>2, IsTable
<1>4. Extend(rows, new) \in Tables(ExecutionStatus)
  BY <1>3, ExtendIsTable
<1> QED  BY <1>4 DEF RecordsAfter

\* What the run has read is of its kind.
RunTyped ==
    run # Idle =>
        /\ run.loaded \subseteq Audit /\ (run.at < 6 => run.verdict \in [Audit -> Verdict])
        /\ run.work \in Tables(WorkRow) /\ run.jobs \in Tables(RunStatus)

\* And what the queueing script has.
QueueTyped ==
    queue # Idle =>
        \E n \in 1..5, t \in Tables(RunStatus), o \in BOOLEAN,
           known \in SUBSET Audit, new \in SUBSET Audit :
            queue = [at |-> n, table |-> t, open |-> o, known |-> known, new |-> new]

\* The inductive invariant behind TypeOK.
TInv == TypeOK /\ RunTyped /\ QueueTyped

LEMMA QueuePositions ==
    ASSUME NEW n \in 1..5
    PROVE  /\ QueueSteps[n] = "jobs" <=> n = 1
           /\ QueueSteps[n] = "append" <=> n = 2
           /\ QueueSteps[n] = "write" <=> n = 3
           /\ QueueSteps[n] = "index" <=> n = 4
           /\ QueueSteps[n] = "state" <=> n = 5
           /\ Len(QueueSteps) = 5
  BY DEF QueueSteps

LEMMA AppendJobsIs ==
    ASSUME TInv, AppendJobs
    PROVE  /\ queue # Idle /\ queue.at = 3 /\ jobs' = queue.table /\ UNCHANGED run
           /\ queue' = [at |-> 4, table |-> Empty, open |-> queue.open,
                        known |-> queue.known, new |-> queue.new]
<1> DEFINE Read == [at : 1..5, table : Tables(RunStatus), open : BOOLEAN,
                    known : SUBSET Audit, new : SUBSET Audit]
<1>1. /\ QueueStep("write", [queue EXCEPT !.table = Empty])
      /\ jobs' = queue.table /\ UNCHANGED run /\ queue # Idle
  BY DEF AppendJobs, QueueStep
<1>2. queue \in Read
  BY <1>1 DEF TInv, QueueTyped
<1>3. queue.at = 3
  BY <1>1, <1>2, QueuePositions DEF QueueStep
<1>4. queue' = [[queue EXCEPT !.table = Empty] EXCEPT !.at = 4]
  BY <1>1, <1>3, QueuePositions DEF QueueStep
<1> HIDE DEF Read
<1>5. queue' = [at |-> 4, table |-> Empty, open |-> queue.open,
                known |-> queue.known, new |-> queue.new]
  BY <1>2, <1>3, <1>4 DEF Read
<1> QED  BY <1>1, <1>3, <1>5

\* What a step leaves of what the queueing script has read.
LEMMA QueueNow ==
    ASSUME TInv, [Next]_vars
    PROVE  \/ queue' = Idle /\ (UNCHANGED <<jobs, emitted>> \/ SaveRunnerState)
           \/ queue' = queue /\ UNCHANGED emitted
           \/ /\ StartQueueing /\ queue' # Idle /\ queue'.at = 1
              /\ queue' = [at |-> 1, table |-> Empty, open |-> FALSE, known |-> DOMAIN work,
                           new |-> {a \in DOMAIN work : work[a].status = "NOT_STARTED"}]
           \/ /\ BuildJobs /\ queue # Idle /\ queue.at = 1
              /\ LET new == queue.new \ (DOMAIN jobs \cup emitted)
                     old == queue.known \cap (DOMAIN jobs \cup emitted)
                 IN  queue' = [at |-> 2, table |-> queue.table,
                               open |-> new # {} \/ \E a \in DOMAIN jobs : jobs[a] # "COMPLETED",
                               known |-> emitted \cup old \cup new, new |-> new]
           \/ /\ LoadJobs /\ queue # Idle /\ queue.at = 2
              /\ queue' = [at |-> 3, table |-> Extend(jobs, [a \in queue.new |-> "QUEUED"]),
                           open |-> queue.open, known |-> queue.known, new |-> queue.new]
           \/ /\ AppendJobs /\ queue # Idle /\ queue.at = 3 /\ jobs' = queue.table
              /\ queue' = [at |-> 4, table |-> Empty, open |-> queue.open,
                           known |-> queue.known, new |-> queue.new]
           \/ /\ WriteRunnerIndex /\ queue # Idle /\ queue.at = 4
              /\ queue' = [at |-> 5, table |-> queue.table, open |-> queue.open,
                           known |-> queue.known, new |-> queue.new]
<1> DEFINE Read == [at : 1..5, table : Tables(RunStatus), open : BOOLEAN,
                    known : SUBSET Audit, new : SUBSET Audit]
<1>0. queue # Idle => queue \in Read
  BY DEF TInv, QueueTyped
<1> HIDE DEF Read
<1>1. CASE StartQueueing
  BY <1>1 DEF StartQueueing, Idle
<1>2. CASE KillQueueing
  BY <1>2 DEF KillQueueing, inputs
<1>3. ASSUME NEW x, NEW m, QueueStep(x, m)
      PROVE  /\ queue # Idle /\ queue \in Read /\ queue.at \in 1..5
             /\ QueueSteps[queue.at] = x
             /\ queue' = IF queue.at = 5 THEN Idle ELSE [m EXCEPT !.at = queue.at + 1]
  <2>1. queue # Idle /\ queue \in Read /\ queue.at \in 1..5
    BY <1>0, <1>3 DEF QueueStep, Read
  <2> QED  BY <1>3, <2>1, QueuePositions DEF QueueStep
<1>4. CASE BuildJobs
  <2> DEFINE new == queue.new \ (DOMAIN jobs \cup emitted)
             known == emitted \cup (queue.known \cap (DOMAIN jobs \cup emitted)) \cup new
             open == new # {} \/ \E a \in DOMAIN jobs : jobs[a] # "COMPLETED"
  <2>1. QueueStep("jobs", [queue EXCEPT !.new = new, !.known = known, !.open = open])
    BY <1>4 DEF BuildJobs
  <2> HIDE DEF new, known, open
  <2>2. queue # Idle /\ queue \in Read /\ queue.at = 1
    BY <1>3, <2>1, QueuePositions
  <2>3. queue' = [[queue EXCEPT !.new = new, !.known = known, !.open = open] EXCEPT !.at = 2]
    BY <2>1, <2>2, QueuePositions DEF QueueStep
  <2>4. queue' = [at |-> 2, table |-> queue.table, open |-> open, known |-> known, new |-> new]
    BY <2>2, <2>3 DEF Read
  <2> QED  BY <1>4, <2>2, <2>4 DEF new, known, open
<1>5. CASE LoadJobs
  <2> DEFINE table == Extend(jobs, [a \in queue.new |-> "QUEUED"])
  <2>1. QueueStep("append", [queue EXCEPT !.table = table])
    BY <1>5 DEF LoadJobs
  <2> HIDE DEF table
  <2>2. queue # Idle /\ queue \in Read /\ queue.at = 2
    BY <1>3, <2>1, QueuePositions
  <2>3. queue' = [[queue EXCEPT !.table = table] EXCEPT !.at = 3]
    BY <2>1, <2>2, QueuePositions DEF QueueStep
  <2>4. queue' = [at |-> 3, table |-> table, open |-> queue.open, known |-> queue.known,
                  new |-> queue.new]
    BY <2>2, <2>3 DEF Read
  <2> QED  BY <1>5, <2>2, <2>4 DEF table
<1>6. CASE AppendJobs
  BY <1>6, AppendJobsIs
<1>7. CASE WriteRunnerIndex
  <2>1. QueueStep("index", queue)
    BY <1>7 DEF WriteRunnerIndex
  <2>2. queue # Idle /\ queue \in Read /\ queue.at = 4
    BY <1>3, <2>1, QueuePositions
  <2>3. queue' = [queue EXCEPT !.at = 5]
    BY <2>1, <2>2, QueuePositions DEF QueueStep
  <2>4. queue' = [at |-> 5, table |-> queue.table, open |-> queue.open, known |-> queue.known,
                  new |-> queue.new]
    BY <2>2, <2>3 DEF Read
  <2> QED  BY <1>7, <2>2, <2>4
<1>8. CASE SaveRunnerState
  <2>1. QueueStep("state", queue)
    BY <1>8 DEF SaveRunnerState
  <2>2. queue.at = 5
    BY <1>3, <2>1, QueuePositions
  <2>3. queue' = Idle
    BY <2>1, <2>2, QueuePositions DEF QueueStep
  <2> QED  BY <1>8, <2>3
<1>9. CASE ReceiveWork \/ UNCHANGED vars
  BY <1>9 DEF ReceiveWork, vars, inputs
<1>10. ASSUME Next, ~(StartQueueing \/ BuildJobs \/ LoadJobs \/ AppendJobs \/ WriteRunnerIndex
              \/ SaveRunnerState \/ KillQueueing), ~ReceiveWork
       PROVE  UNCHANGED <<queue, emitted>>
  BY <1>10 DEF Next, StartRun, AppendRecords, SaveExecutionState, AppendItems,
     WriteRemediationGate, SaveRemediationState, WriteDiscipline, WriteSurface,
     WriteFinalizeArtifact, WriteDecision, WritePackage, WriteReceipt, LoadTables,
     WriteWorkItems, WriteJobs, WriteReadiness, KillRun, Step, Put, inputs
<1> QED  BY <1>1, <1>2, <1>4, <1>5, <1>6, <1>7, <1>8, <1>9, <1>10 DEF vars

\* Which steps change which files.
LEMMA FilesChange ==
    ASSUME [Next]_vars
    PROVE  /\ UNCHANGED <<work, received>> \/ ReceiveWork \/ (WriteWorkItems /\ UNCHANGED received)
           /\ UNCHANGED jobs \/ WriteJobs \/ AppendJobs
           /\ UNCHANGED emitted \/ SaveRunnerState
           /\ UNCHANGED records \/ AppendRecords
           /\ UNCHANGED executed \/ SaveExecutionState
           /\ UNCHANGED items \/ AppendItems
           /\ UNCHANGED tracked \/ SaveRemediationState
<1>1. CASE \/ ReceiveWork \/ StartQueueing \/ BuildJobs \/ LoadJobs \/ AppendJobs
           \/ WriteRunnerIndex \/ SaveRunnerState \/ KillQueueing \/ UNCHANGED vars
  BY <1>1 DEF ReceiveWork, StartQueueing, BuildJobs, LoadJobs, AppendJobs,
     WriteRunnerIndex, SaveRunnerState, KillQueueing, QueueStep, vars, inputs, engines
<1>2. CASE StartRun \/ KillRun
  BY <1>2 DEF StartRun, KillRun, inputs, engines
<1>3. CASE \/ AppendRecords \/ SaveExecutionState \/ AppendItems \/ SaveRemediationState
           \/ WriteDiscipline \/ LoadTables \/ WriteWorkItems \/ WriteJobs
  BY <1>3 DEF AppendRecords, SaveExecutionState, AppendItems, SaveRemediationState,
     WriteDiscipline, LoadTables, WriteWorkItems, WriteJobs, Step, engines
<1>4. CASE \/ WriteRemediationGate \/ WriteSurface \/ WriteFinalizeArtifact \/ WriteDecision
           \/ WritePackage \/ WriteReceipt \/ WriteReadiness
  BY <1>4 DEF WriteRemediationGate, WriteSurface, WriteFinalizeArtifact, WriteDecision,
     WritePackage, WriteReceipt, WriteReadiness, Put, Step, engines
<1> QED  BY <1>1, <1>2, <1>3, <1>4 DEF Next

\* Where the run is when it writes a file that others read.
LEMMA WriterAt ==
    ASSUME DInv
    PROVE  /\ AppendRecords => run # Idle /\ run.at = 1
           /\ SaveExecutionState => run # Idle /\ run.at = 2
           /\ LoadTables => run # Idle /\ run.at = 12
           /\ WriteWorkItems => run # Idle /\ run.at = 13
           /\ WriteJobs => run # Idle /\ run.at = 14
           /\ WriteReadiness => run # Idle /\ run.at = 15
<1>1. ASSUME NEW x, NEW m, Step(x, m)
      PROVE  run # Idle /\ run.at \in 1..15 /\ Writes[run.at] = x
  BY <1>1 DEF DInv, RunShape, Step
<1>2. /\ AppendRecords => Step("records", run)
      /\ SaveExecutionState => Step("executed", run)
      /\ LoadTables => \E m : Step("load", m)
      /\ WriteWorkItems => Step("work", run)
      /\ WriteJobs => Step("jobs", run)
      /\ WriteReadiness => Step("readiness", run)
  BY DEF AppendRecords, SaveExecutionState, LoadTables, WriteWorkItems, WriteJobs,
     WriteReadiness, Put
<1> QED  BY <1>1, <1>2, Positions, MorePositions

LEMMA RunStaysTyped ==
    ASSUME DInv, GInv, TInv, [Next]_vars PROVE RunTyped'
<1>1. DOMAIN jobs \subseteq Audit /\ Empty \in Tables(WorkRow) /\ Empty \in Tables(RunStatus)
  BY TableIs, EmptyIsTable DEF TInv, TypeOK
<1>2. disk["receipt"].ready \in BOOLEAN
  BY ArtifactsAre DEF GInv, DiskShape
<1>3. WorkAfter(work, records, disk["receipt"].ready) \in Tables(WorkRow)
      /\ JobsAfter(jobs, records) \in Tables(RunStatus)
  BY <1>2, WorkIsTable, JobsIsTable DEF TInv, TypeOK
<1>4. run # Idle => run.at \in 1..15
  BY DEF DInv, RunShape
<1>5. Idle' = Idle
  BY DEF Idle
<1> QED  BY <1>1, <1>3, <1>4, <1>5, RunNow DEF TInv, RunTyped

LEMMA QueueStaysTyped ==
    ASSUME TInv, [Next]_vars PROVE QueueTyped'
<1>1. DOMAIN work \subseteq Audit /\ DOMAIN jobs \subseteq Audit /\ emitted \subseteq Audit
  BY TableIs DEF TInv, TypeOK
<1>2. Empty \in Tables(RunStatus)
  BY EmptyIsTable
<1>3. ASSUME NEW new \in SUBSET Audit
      PROVE  Extend(jobs, [a \in new |-> "QUEUED"]) \in Tables(RunStatus)
  <2>1. [a \in new |-> "QUEUED"] \in [new -> RunStatus]
    BY DEF RunStatus
  <2>2. [a \in new |-> "QUEUED"] \in Tables(RunStatus)
    BY <2>1, IsTable
  <2> QED  BY <2>2, ExtendIsTable DEF TInv, TypeOK
<1>4. CASE queue = Idle
  <2>1. queue' = Idle \/ queue' = [at |-> 1, table |-> Empty, open |-> FALSE,
            known |-> DOMAIN work, new |-> {a \in DOMAIN work : work[a].status = "NOT_STARTED"}]
    BY <1>4, QueueNow
  <2> DEFINE new == {a \in DOMAIN work : work[a].status = "NOT_STARTED"}
  <2>2. new \in SUBSET Audit /\ DOMAIN work \in SUBSET Audit /\ 1 \in 1..5 /\ FALSE \in BOOLEAN
    BY <1>1
  <2>3. queue' = Idle \/ queue' = [at |-> 1, table |-> Empty, open |-> FALSE,
            known |-> DOMAIN work, new |-> new]
    BY <2>1
  <2> HIDE DEF new
  <2>4. queue' # Idle =>
            \E n \in 1..5, t \in Tables(RunStatus), o \in BOOLEAN,
               known \in SUBSET Audit, fresh \in SUBSET Audit :
                queue' = [at |-> n, table |-> t, open |-> o, known |-> known, new |-> fresh]
    BY <1>2, <2>2, <2>3, Zenon
  <2> QED  BY <2>4 DEF QueueTyped, Idle
<1>5. CASE queue # Idle
  <2>1. PICK n \in 1..5, t \in Tables(RunStatus), o \in BOOLEAN,
             known \in SUBSET Audit, new \in SUBSET Audit :
            queue = [at |-> n, table |-> t, open |-> o, known |-> known, new |-> new]
    BY <1>5 DEF TInv, QueueTyped
  <2>2. \/ queue' = Idle \/ queue' = queue
        \/ \E m \in 1..5, u \in Tables(RunStatus), b \in BOOLEAN,
              k \in SUBSET Audit, y \in SUBSET Audit :
               queue' = [at |-> m, table |-> u, open |-> b, known |-> k, new |-> y]
    <3>1. queue.table = t /\ queue.open = o /\ queue.known = known /\ queue.new = new
      BY <2>1
    <3>2. Extend(jobs, [a \in new |-> "QUEUED"]) \in Tables(RunStatus)
      BY <1>3
    <3>4. CASE StartQueueing /\ queue' # Idle
      BY <1>5, <3>4 DEF StartQueueing
    <3>5. CASE BuildJobs /\ queue.at = 1
      <4> DEFINE y == queue.new \ (DOMAIN jobs \cup emitted)
                 k == emitted \cup (queue.known \cap (DOMAIN jobs \cup emitted)) \cup y
                 b == y # {} \/ \E a \in DOMAIN jobs : jobs[a] # "COMPLETED"
      <4>1. y \in SUBSET Audit /\ k \in SUBSET Audit /\ b \in BOOLEAN
        BY <1>1, <3>1
      <4>2. \/ queue' = Idle \/ queue' = queue
            \/ queue' = [at |-> 2, table |-> t, open |-> b, known |-> k, new |-> y]
        <5>1. BuildJobs => ~(\/ StartQueueing \/ LoadJobs \/ AppendJobs \/ WriteRunnerIndex)
          BY <1>5, <3>5 DEF StartQueueing, BuildJobs, LoadJobs, AppendJobs, WriteRunnerIndex,
             QueueStep, QueueSteps
        <5> QED  BY <3>1, <3>5, <5>1, QueueNow
      <4> HIDE DEF y, k, b
      <4>3. 2 \in 1..5
        OBVIOUS
      <4> QED  BY <2>1, <4>1, <4>2, <4>3, Zenon
    <3> QED  BY <1>2, <2>1, <3>1, <3>2, <3>4, <3>5, QueueNow
  <2> QED  BY <2>1, <2>2 DEF QueueTyped, Idle
<1> QED  BY <1>4, <1>5

LEMMA FilesStayTyped ==
    ASSUME DInv, GInv, TInv, [Next]_vars PROVE TypeOK'
<1> USE DEF TInv, TypeOK
<1>1. disk' \in [Artifact -> [run : Nat, ready : BOOLEAN]]
  BY GatesStand DEF GInv, DiskShape, Artifact
<1>2. work' \in Tables(WorkRow) /\ received' \subseteq Audit
  <2>1. CASE ReceiveWork
    <3>1. PICK a \in Audit :
              /\ work' = Extend(work, [b \in {a} |->
                            [status |-> "NOT_STARTED", release |-> FALSE]])
              /\ received' = received \cup {a}
      BY <2>1 DEF ReceiveWork
    <3>2. [b \in {a} |-> [status |-> "NOT_STARTED", release |-> FALSE]] \in [{a} -> WorkRow]
      BY DEF WorkRow
    <3>3. [b \in {a} |-> [status |-> "NOT_STARTED", release |-> FALSE]] \in Tables(WorkRow)
      BY <3>2, IsTable
    <3> QED  BY <3>1, <3>3, ExtendIsTable
  <2>2. CASE WriteWorkItems
    BY <2>2, WriterAt DEF WriteWorkItems, RunTyped, Step
  <2> QED  BY <2>1, <2>2, FilesChange
<1>3. jobs' \in Tables(RunStatus)
  <2>1. CASE WriteJobs
    BY <2>1, WriterAt DEF WriteJobs, RunTyped
  <2>2. CASE AppendJobs
    BY <2>2 DEF AppendJobs, QueueTyped, QueueStep
  <2> QED  BY <2>1, <2>2, FilesChange
<1>4. records' \in Tables(ExecutionStatus)
  <2>1. CASE AppendRecords
    BY <2>1, WriterAt, RecordsIsTable DEF AppendRecords, RunTyped
  <2> QED  BY <2>1, FilesChange
<1>5. emitted' \subseteq Audit
  <2>1. CASE SaveRunnerState
    BY <2>1 DEF SaveRunnerState, QueueTyped, QueueStep
  <2> QED  BY <2>1, FilesChange
<1>6. executed' \subseteq Audit
  BY FilesChange, WriterAt DEF SaveExecutionState, RunTyped
<1>7. items' \subseteq Item /\ tracked' \subseteq Item
  BY FilesChange DEF AppendItems, SaveRemediationState, ItemsOf, Item
<1> QED  BY <1>1, <1>2, <1>3, <1>4, <1>5, <1>6, <1>7

\* The files hold rows of their declared shapes, and so does what the run and
\* the script have read of them.
THEOREM TypesInductive == Spec => []TInv
<1>1. Init => TInv
  <2>1. \A V : Empty \in Tables(V)
    BY EmptyIsTable
  <2> QED  BY <2>1 DEF Init, TInv, TypeOK, RunTyped, QueueTyped, NoArtifact
<1>2. DInv /\ GInv /\ TInv /\ [Next]_vars => TInv'
  BY RunStaysTyped, QueueStaysTyped, FilesStayTyped DEF TInv
<1> QED  BY <1>1, <1>2, DoneInductive, GatesInductive, PTL DEF Spec

\* Of the files alone.
THEOREM TypesHold == Spec => []TypeOK
<1>1. TInv => TypeOK
  BY DEF TInv
<1> QED  BY TypesInductive, <1>1, PTL

-----------------------------------------------------------------------------
(* Work items and jobs.                                                     *)

Executed(a) == a \in DOMAIN records /\ records[a] = "COMPLETED"

\* The tables the run has built, and holds until it has written them, say of no
\* audit that it is done or released unless it was executed.
TablesEarned ==
    run # Idle /\ run.at > 12 =>
        /\ \A a \in DOMAIN run.jobs : run.jobs[a] = "COMPLETED" => Executed(a)
        /\ \A a \in DOMAIN run.work : run.work[a].release => Executed(a)

\* The inductive invariant behind ReadinessCoversJobs and ReleasedWasExecuted.
WInv == TablesEarned /\ ReleasedWasExecuted

LEMMA ExecutedStays ==
    ASSUME [Next]_vars PROVE \A a : Executed(a) => Executed(a)'
<1>1. CASE AppendRecords
  BY <1>1 DEF AppendRecords, RecordsAfter, Extend, Executed
<1>2. CASE UNCHANGED records
  BY <1>2 DEF Executed
<1> QED  BY <1>1, <1>2, FilesChange

LEMMA LoadedEarned ==
    ASSUME TInv, NEW final \in BOOLEAN
    PROVE  /\ \A a \in DOMAIN JobsAfter(jobs, records) :
                  JobsAfter(jobs, records)[a] = "COMPLETED" => Executed(a)
           /\ \A a \in DOMAIN WorkAfter(work, records, final) :
                  WorkAfter(work, records, final)[a].release => Executed(a)
<1>1. \A a \in DOMAIN records : records[a] \in ExecutionStatus
  BY TableIs DEF TInv, TypeOK
<1>2. \A s \in ExecutionStatus : RunStatusOf(s) = "COMPLETED" => s = "COMPLETED"
  BY DEF ExecutionStatus, RunStatusOf
<1>3. \A a \in DOMAIN JobsAfter(jobs, records) :
          JobsAfter(jobs, records)[a] = "COMPLETED" => Executed(a)
  BY <1>1, <1>2 DEF JobsAfter, Executed
<1>4. \A a \in DOMAIN WorkAfter(work, records, final) :
          WorkAfter(work, records, final)[a].release => Executed(a)
  BY DEF WorkAfter, Executed
<1> QED  BY <1>3, <1>4

LEMMA EarnedStays ==
    ASSUME DInv, GInv, TInv, WInv, [Next]_vars PROVE WInv'
<1>1. TablesEarned'
  <2> SUFFICES ASSUME (run # Idle)', run'.at > 12
               PROVE  /\ \A a \in DOMAIN run'.jobs : run'.jobs[a] = "COMPLETED" => Executed(a)'
                      /\ \A a \in DOMAIN run'.work : run'.work[a].release => Executed(a)'
    BY DEF TablesEarned
  <2>1. run' # Idle /\ (run # Idle => run.at \in 1..15)
    BY DEF Idle, DInv, RunShape
  <2>2. disk["receipt"].ready \in BOOLEAN
    BY ArtifactsAre DEF GInv, DiskShape
  <2>3. \/ run.at > 12 /\ run # Idle /\ run'.jobs = run.jobs /\ run'.work = run.work
        \/ /\ run'.jobs = JobsAfter(jobs, records)
           /\ run'.work = WorkAfter(work, records, disk["receipt"].ready)
    BY <2>1, RunNow
  <2>4. CASE run.at > 12 /\ run # Idle /\ run'.jobs = run.jobs /\ run'.work = run.work
    BY <2>4, ExecutedStays DEF WInv, TablesEarned
  <2>5. CASE /\ run'.jobs = JobsAfter(jobs, records)
             /\ run'.work = WorkAfter(work, records, disk["receipt"].ready)
    BY <2>2, <2>5, LoadedEarned, ExecutedStays
  <2> QED  BY <2>3, <2>4, <2>5
<1>2. \A a \in DOMAIN work' : work'[a].release => Executed(a)'
  <2>1. CASE UNCHANGED work
    BY <2>1, ExecutedStays DEF WInv, ReleasedWasExecuted, Executed
  <2>2. CASE ReceiveWork
    <3>1. PICK b \in Audit : work' = Extend(work, [c \in {b} |->
              [status |-> "NOT_STARTED", release |-> FALSE]])
      BY <2>2 DEF ReceiveWork
    <3>2. \A a \in DOMAIN work' : work'[a].release => a \in DOMAIN work /\ work[a].release
      BY <3>1 DEF Extend
    <3> QED  BY <3>2, ExecutedStays DEF WInv, ReleasedWasExecuted, Executed
  <2>3. CASE WriteWorkItems
    <3>1. run # Idle /\ run.at = 13 /\ work' = run.work
      BY <2>3, WriterAt DEF WriteWorkItems
    <3> QED  BY <3>1, ExecutedStays DEF WInv, TablesEarned
  <2> QED  BY <2>1, <2>2, <2>3, FilesChange
<1> QED  BY <1>1, <1>2 DEF WInv, ReleasedWasExecuted, Executed

THEOREM EarnedInductive == Spec => []WInv
<1>1. Init => WInv
  BY DEF Init, WInv, TablesEarned, ReleasedWasExecuted, Empty
<1>2. DInv /\ GInv /\ TInv /\ WInv /\ [Next]_vars => WInv'
  BY EarnedStays
<1> QED  BY <1>1, <1>2, DoneInductive, GatesInductive, TypesInductive, PTL DEF Spec

\* A work item that is released was executed.
THEOREM ReleasedExecuted == Spec => []ReleasedWasExecuted
<1>1. WInv => ReleasedWasExecuted
  BY DEF WInv
<1> QED  BY EarnedInductive, <1>1, PTL

\* A PASS at the end of a run has seen every job of the table COMPLETED, the
\* jobs that were queued while it ran among them.
THEOREM ReadinessCovers == Spec => ReadinessCoversJobs
<1> DEFINE Covered ==
        disk'["readiness"] # disk["readiness"] /\ disk'["readiness"].ready =>
            \A a \in DOMAIN run.jobs : a \in DOMAIN records /\ records[a] = "COMPLETED"
<1>1. ASSUME DInv, GInv, WInv, [Next]_vars PROVE Covered
  <2> SUFFICES ASSUME disk'["readiness"] # disk["readiness"], disk'["readiness"].ready
               PROVE  \A a \in DOMAIN run.jobs : Executed(a)
    BY DEF Executed
  <2>1. WriteReadiness
    BY <1>1, WritesOne
  <2> DEFINE ready == disk["receipt"].ready /\ Reasonless(run.work, run.jobs, records)
  <2>2. /\ Put("readiness", ready) /\ ready \in BOOLEAN
        /\ ready => \A a \in DOMAIN run.jobs : run.jobs[a] = "COMPLETED"
    BY <2>1 DEF WriteReadiness, Reasonless
  <2> HIDE DEF ready
  <2>3. disk'["readiness"] = [run |-> runs, ready |-> ready]
    BY <1>1, <2>2, PutIs, ArtifactsAre
  <2>4. run # Idle /\ run.at = 15
    BY <1>1, <2>1, WriterAt
  <2> QED  BY <1>1, <2>2, <2>3, <2>4 DEF WInv, TablesEarned
<1>2. DInv /\ GInv /\ WInv /\ [Next]_vars => [Covered]_vars
  BY <1>1
<1> QED  BY <1>2, DoneInductive, GatesInductive, EarnedInductive, PTL
         DEF Spec, ReadinessCoversJobs

-----------------------------------------------------------------------------
(* Taking turns.                                                            *)

\* While it was calm, the tables that the run holds have the rows of the files,
\* and what the script knows is in its table of jobs, or will be.
TakeTurns ==
    calm =>
        /\ run = Idle \/ queue = Idle
        /\ received \subseteq DOMAIN work /\ emitted \subseteq DOMAIN jobs
        /\ run # Idle /\ run.at = 13 => DOMAIN run.work = DOMAIN work
        /\ run # Idle /\ run.at \in {13, 14} => DOMAIN run.jobs = DOMAIN jobs
        /\ queue # Idle /\ queue.at = 2 => queue.known \subseteq DOMAIN jobs \cup queue.new
        /\ queue # Idle /\ queue.at = 3 => DOMAIN jobs \cup queue.known \subseteq DOMAIN queue.table
        /\ queue # Idle /\ queue.at > 3 => queue.known \subseteq DOMAIN jobs

LEMMA CalmBefore ==
    ASSUME [Next]_vars, calm'
    PROVE  /\ calm
           /\ StartRun => queue = Idle
           /\ StartQueueing => run = Idle
           /\ ReceiveWork => run = Idle
<1>1. CASE StartRun \/ StartQueueing \/ ReceiveWork
  BY <1>1 DEF StartRun, StartQueueing, ReceiveWork
<1>2. CASE UNCHANGED calm /\ ~(StartRun \/ StartQueueing \/ ReceiveWork)
  BY <1>2
<1>3. ASSUME Next, ~(StartRun \/ StartQueueing \/ ReceiveWork) PROVE UNCHANGED calm
  BY <1>3 DEF Next, AppendRecords, SaveExecutionState, AppendItems,
     WriteRemediationGate, SaveRemediationState, WriteDiscipline, WriteSurface,
     WriteFinalizeArtifact, WriteDecision, WritePackage, WriteReceipt, LoadTables,
     WriteWorkItems, WriteJobs, WriteReadiness, KillRun, BuildJobs, LoadJobs, AppendJobs,
     WriteRunnerIndex, SaveRunnerState, KillQueueing, Step, QueueStep, Put
<1> QED  BY <1>1, <1>2, <1>3 DEF vars, StartRun, StartQueueing, ReceiveWork

LEMMA TurnsKept ==
    ASSUME DInv, TInv, TakeTurns, [Next]_vars PROVE TakeTurns'
<1> SUFFICES ASSUME calm'
             PROVE  /\ run' = Idle \/ queue' = Idle
                    /\ received' \subseteq DOMAIN work' /\ emitted' \subseteq DOMAIN jobs'
                    /\ run' # Idle /\ run'.at = 13 => DOMAIN run'.work = DOMAIN work'
                    /\ run' # Idle /\ run'.at \in {13, 14} => DOMAIN run'.jobs = DOMAIN jobs'
                    /\ queue' # Idle /\ queue'.at = 2 =>
                           queue'.known \subseteq DOMAIN jobs' \cup queue'.new
                    /\ queue' # Idle /\ queue'.at = 3 =>
                           DOMAIN jobs' \cup queue'.known \subseteq DOMAIN queue'.table
                    /\ queue' # Idle /\ queue'.at > 3 => queue'.known \subseteq DOMAIN jobs'
  BY DEF TakeTurns, Idle
<1>1. /\ calm /\ (StartRun => queue = Idle)
      /\ StartQueueing => run = Idle
      /\ ReceiveWork => run = Idle
  BY CalmBefore
<1>2. /\ run = Idle \/ queue = Idle
      /\ received \subseteq DOMAIN work /\ emitted \subseteq DOMAIN jobs
      /\ run # Idle /\ run.at = 13 => DOMAIN run.work = DOMAIN work
      /\ run # Idle /\ run.at \in {13, 14} => DOMAIN run.jobs = DOMAIN jobs
      /\ queue # Idle /\ queue.at = 2 => queue.known \subseteq DOMAIN jobs \cup queue.new
      /\ queue # Idle /\ queue.at = 3 => DOMAIN jobs \cup queue.known \subseteq DOMAIN queue.table
      /\ queue # Idle /\ queue.at > 3 => queue.known \subseteq DOMAIN jobs
  BY <1>1 DEF TakeTurns
<1>3. queue # Idle => queue.at \in 1..5
  BY DEF TInv, QueueTyped
<1>4. run # Idle => run.at \in 1..15
  BY DEF DInv, RunShape
<1>5. received' \subseteq DOMAIN work'
  <2>1. CASE ReceiveWork
    BY <1>2, <2>1 DEF ReceiveWork, Extend
  <2>2. CASE WriteWorkItems /\ UNCHANGED received
    BY <1>2, <2>2, WriterAt DEF WriteWorkItems
  <2> QED  BY <1>2, <2>1, <2>2, FilesChange
<1>6. DOMAIN jobs \subseteq DOMAIN jobs' /\ (run = Idle \/ DOMAIN jobs' = DOMAIN jobs)
  <2>1. CASE WriteJobs
    BY <1>2, <2>1, WriterAt DEF WriteJobs
  <2>2. CASE AppendJobs
    BY <1>2, <2>2, AppendJobsIs
  <2> QED  BY <2>1, <2>2, FilesChange
<1>7. emitted' \subseteq DOMAIN jobs'
  <2>1. CASE SaveRunnerState
    <3>1. queue # Idle /\ QueueSteps[queue.at] = "state" /\ emitted' = queue.known
      BY <2>1 DEF SaveRunnerState, QueueStep
    <3>2. queue.at = 5
      BY <1>3, <3>1, QueuePositions
    <3> QED  BY <1>2, <1>6, <3>1, <3>2
  <2> QED  BY <1>2, <1>6, <2>1, FilesChange
<1>8. CASE run # Idle
  <2>1. queue' = Idle
    <3>1. queue' = Idle \/ queue' = queue \/ StartQueueing \/ queue # Idle
      BY QueueNow
    <3> QED  BY <1>1, <1>2, <1>8, <3>1
  <2>2. run' # Idle /\ run'.at \in {13, 14} => DOMAIN run'.jobs = DOMAIN jobs'
    <3>1. ~StartRun
      BY <1>8 DEF StartRun
    <3>2. DOMAIN JobsAfter(jobs, records) = DOMAIN jobs
      BY DEF JobsAfter
    <3> QED  BY <1>2, <1>4, <1>6, <1>8, <3>1, <3>2, RunNow
  <2>3. run' # Idle /\ run'.at = 13 => DOMAIN run'.work = DOMAIN work'
    <3>1. ~StartRun
      BY <1>8 DEF StartRun
    <3>2. DOMAIN WorkAfter(work, records, disk["receipt"].ready) = DOMAIN work
      BY DEF WorkAfter
    <3>3. CASE WriteWorkItems
      <4>1. Step("work", run) /\ run.at = 13
        BY <3>3, WriterAt DEF WriteWorkItems
      <4>2. run'.at = 14
        BY <4>1, StepMoves
      <4> QED  BY <4>2
    <3>4. CASE UNCHANGED work
      BY <1>2, <1>4, <1>8, <3>1, <3>2, <3>4, RunNow
    <3> QED  BY <1>1, <1>8, <3>3, <3>4, FilesChange
  <2> QED  BY <1>5, <1>7, <2>1, <2>2, <2>3
<1>9. CASE run = Idle
  <2>1. run' = Idle \/ (run'.at = 1 /\ queue' = Idle)
    <3>1. CASE StartRun
      BY <1>1, <3>1, RunNow DEF StartRun
    <3>2. CASE ~StartRun
      BY <1>9, <3>2, RunNow
    <3> QED  BY <3>1, <3>2
  <2>2. CASE AppendJobs
    <3>1. queue'.at = 4 /\ queue'.known = queue.known /\ jobs' = queue.table /\ run' = Idle
          /\ queue # Idle /\ queue.at = 3
      BY <1>9, <2>2, AppendJobsIs
    <3> QED  BY <1>2, <1>5, <1>7, <3>1
  <2>3. CASE ~AppendJobs
    <3>1. UNCHANGED jobs
      BY <1>9, <2>3, FilesChange, WriterAt
    <3>2. CASE queue' = Idle
      BY <1>5, <1>7, <2>1, <3>2
    <3>3. CASE queue' = queue
      BY <1>2, <1>5, <1>7, <2>1, <3>1, <3>3
    <3>4. CASE queue'.at = 1
      BY <1>5, <1>7, <2>1, <3>4
    <3>6. CASE BuildJobs /\ queue # Idle /\ queue' # Idle /\ queue.at = 1 /\ queue'.at = 2
               /\ queue'.known \subseteq DOMAIN jobs \cup queue'.new
      BY <1>5, <1>7, <2>1, <3>1, <3>6
    <3>7. CASE queue'.at = 3 /\ queue'.known = queue.known /\ queue # Idle /\ queue.at = 2
               /\ queue'.table = Extend(jobs, [a \in queue.new |-> "QUEUED"])
      <4>1. DOMAIN queue'.table = DOMAIN jobs \cup queue.new
        BY <3>7 DEF Extend
      <4> QED  BY <1>2, <1>5, <1>7, <2>1, <3>1, <3>7, <4>1
    <3>8. CASE queue'.at = 5 /\ queue'.known = queue.known /\ queue # Idle /\ queue.at = 4
      BY <1>2, <1>5, <1>7, <2>1, <3>1, <3>8
    <3>9. \/ queue' = Idle \/ queue' = queue \/ queue'.at = 1
          \/ /\ BuildJobs /\ queue # Idle /\ queue' # Idle /\ queue.at = 1 /\ queue'.at = 2
             /\ queue'.known \subseteq DOMAIN jobs \cup queue'.new
          \/ /\ queue'.at = 3 /\ queue'.known = queue.known /\ queue # Idle /\ queue.at = 2
             /\ queue'.table = Extend(jobs, [a \in queue.new |-> "QUEUED"])
          \/ queue'.at = 5 /\ queue'.known = queue.known /\ queue # Idle /\ queue.at = 4
      <4>1. CASE /\ BuildJobs /\ queue # Idle /\ queue.at = 1
                 /\ LET new == queue.new \ (DOMAIN jobs \cup emitted)
                        old == queue.known \cap (DOMAIN jobs \cup emitted)
                    IN  queue' = [at |-> 2, table |-> queue.table,
                               open |-> new # {} \/ \E a \in DOMAIN jobs : jobs[a] # "COMPLETED",
                               known |-> emitted \cup old \cup new, new |-> new]
        <5> DEFINE new == queue.new \ (DOMAIN jobs \cup emitted)
                   known == emitted \cup (queue.known \cap (DOMAIN jobs \cup emitted)) \cup new
        <5>1. queue'.at = 2 /\ queue'.known = known /\ queue'.new = new
          BY <4>1
        <5>2. known \subseteq DOMAIN jobs \cup new
          BY <1>2
        <5> HIDE DEF new, known
        <5> QED  BY <4>1, <5>1, <5>2
      <4> QED  BY <2>3, <4>1, QueueNow
    <3> QED  BY <3>2, <3>3, <3>4, <3>6, <3>7, <3>8, <3>9
  <2> QED  BY <2>2, <2>3
<1> QED  BY <1>8, <1>9

\* The queueing script and intake lose nothing as long as they take turns with
\* the pipeline, wherever one of them died.
THEOREM NothingLost == Spec => []NothingIsLost
<1>1. Init => TakeTurns
  BY DEF Init, TakeTurns, Empty
<1>2. DInv /\ TInv /\ TakeTurns /\ [Next]_vars => TakeTurns'
  BY TurnsKept
<1>3. TakeTurns => NothingIsLost
  BY DEF TakeTurns, NothingIsLost
<1> QED  BY <1>1, <1>2, <1>3, DoneInductive, TypesInductive, PTL DEF Spec
=============================================================================
