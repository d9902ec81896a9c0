------------------------------ MODULE AuditRuns ------------------------------
(***************************************************************************)
(* The register of audits and the table of their runs:                     *)
(* core/audit_application_service.py, core/audit_runtime_service.py and    *)
(* apps/api/routers/audits.py.                                             *)
(*                                                                         *)
(* A handler reads audit_registry.jsonl and audit_runs.jsonl, keeps both   *)
(* in memory, and rewrites them whole, the runs before the register;       *)
(* execute_audit_run does so twice, with the pipeline of the audit in      *)
(* between.  The handlers never await, so one API process carries them out *)
(* one after the other; Proc is the set of the processes that share the    *)
(* state directory.  A process may die at any point; write_text truncates  *)
(* the file first, so a death inside a write may leave it empty.           *)
(*                                                                         *)
(* Ids are made of the time in seconds: an audit's of its subject (tenant, *)
(* kind and entity) and a run's of its audit.  Within a second they are    *)
(* not unique.  Requests of other tenants are refused and change nothing;  *)
(* they are left out, and so are the decision, the report and export flags *)
(* and the hashes, which are copied and never read again.                  *)
(***************************************************************************)
EXTENDS Naturals, Sequences, FiniteSets, SequencesExt

CONSTANTS Proc,        \* the processes that serve requests
          Subject,     \* tenant, audit kind and entity of an audit
          NoRun,       \* latest_run_id of an audit that was never run
          MaxAudits, MaxRuns, MaxTime, MaxDeaths    \* bounds

ASSUME RunsAssumption ==
    /\ MaxAudits \in Nat /\ MaxRuns \in Nat /\ MaxTime \in Nat
    /\ MaxDeaths \in Nat

VARIABLES registry,    \* audit_registry.jsonl
          runs,        \* audit_runs.jsonl
          receipt,     \* finalization_ready in the receipt of each audit
          seeded,      \* audits whose runtime files were seeded
          clock,       \* the time, in seconds
          proc,        \* what each process does
          started,     \* number of runs started so far
          earned,      \* audits some pipeline wrote a ready receipt of
          overlapped,  \* two handlers were under way at once
          deaths       \* deaths so far

files == <<registry, runs, receipt, seeded>>
history == <<started, earned, overlapped, deaths>>
vars == <<files, clock, proc, history>>

Time == 0..MaxTime
AuditId == [subject : Subject, at : Time]
RunId == [audit : AuditId, at : Time]

\* latest_run_id is empty, or the id of a run.
ASSUME NoRunIsNone == NoRun \notin RunId

RunStatus == {"RUNNING", "COMPLETED", "BLOCKED"}

AuditRow == [id : AuditId, status : {"CREATED"} \cup RunStatus,
             ready : BOOLEAN, latest : RunId \cup {NoRun}]

\* n numbers the runs in the order they start.  It is not in the code.
RunRow == [id : RunId, n : 1..MaxRuns, status : RunStatus, ready : BOOLEAN]

Step == {"readRegistry", "readRuns", "readReceipt", "addAudit", "addRun",
         "openAudit", "pipeline", "closeRun", "closeAudit"}

\* The steps of a handler, in order.
Steps(op) ==
    CASE op = "create"  -> <<"readRegistry", "addAudit">>
      [] op = "execute" -> <<"readRegistry", "readRuns", "addRun", "openAudit",
                             "pipeline", "readReceipt", "closeRun", "closeAudit">>
      [] op = "sync"    -> <<"readRegistry", "readRuns", "readReceipt",
                             "closeRun", "closeAudit">>

Idle == [op |-> "none", todo |-> << >>]

\* Mutant: a run is completed whatever the receipt says.
AlwaysCompleted(ready) == "COMPLETED"

Verdict(ready) == IF ready THEN "COMPLETED" ELSE "BLOCKED"

Init ==
    /\ registry = << >> /\ runs = << >>
    /\ receipt = [a \in AuditId |-> FALSE]
    /\ seeded = {}
    /\ clock = 0
    /\ proc = [p \in Proc |-> Idle]
    /\ started = 0 /\ earned = {} /\ overlapped = FALSE /\ deaths = 0

-----------------------------------------------------------------------------
(* The tables.                                                              *)

Registered(rows) == {rows[i].id : i \in DOMAIN rows}

\* _find_audit returns the first row of an audit.
FindAudit(rows, a) == SelectInSeq(rows, LAMBDA r : r.id = a)

\* The row sync_audit_run_from_artifacts finds, 0 when there is none.
FindRun(rows, id) == SelectInSeq(rows, LAMBDA r : r.id = id)

\* Mutant: a run does not block another.
NeverActive(rows, a) == FALSE

\* _assert_no_active_run raises AUDIT_IN_PROGRESS.
Active(rows, a) ==
    \E i \in DOMAIN rows : rows[i].id.audit = a /\ rows[i].status = "RUNNING"

NewAudit(a) == [id |-> a, status |-> "CREATED", ready |-> FALSE, latest |-> NoRun]

NewRun(id, n) == [id |-> id, n |-> n, status |-> "RUNNING", ready |-> FALSE]

Closed(row, ready) == [row EXCEPT !.status = Verdict(ready), !.ready = ready]

\* execute_audit_run closes every row of its id, sync the first one.
ClosedRuns(c) ==
    IF c.op = "execute"
    THEN [i \in DOMAIN c.runs |-> IF c.runs[i].id = c.run
                                  THEN Closed(c.runs[i], c.ready) ELSE c.runs[i]]
    ELSE [c.runs EXCEPT ![FindRun(c.runs, c.run)] = Closed(@, c.ready)]

-----------------------------------------------------------------------------
(* The steps of a handler.  c is what process p does and holds in memory:   *)
(* its operation, the audit, the rows it read, the id and number of its run *)
(* and what the receipt said.                                               *)

At(p, step) == proc[p].todo # << >> /\ Head(proc[p].todo) = step

\* Process p goes on, with c in memory; after its last step it is idle.
GoOn(p, c) ==
    proc' = [proc EXCEPT ![p] =
        IF Len(c.todo) = 1 THEN Idle ELSE [c EXCEPT !.todo = Tail(@)]]

\* A handler starts: POST /audits, /audits/{id}/run, /audits/{id}/runs/sync.
Begin(p, op, a) ==
    /\ proc[p] = Idle
    /\ IF op = "create" THEN a.at = clock /\ Len(registry) < MaxAudits
                        ELSE a \in Registered(registry)
    /\ proc' = [proc EXCEPT ![p] =
           [op |-> op, todo |-> Steps(op), audit |-> a, registry |-> << >>,
            runs |-> << >>, run |-> NoRun, n |-> 0, ready |-> FALSE]]
    /\ overlapped' = (overlapped \/ \E q \in Proc \ {p} : proc[q] # Idle)
    /\ UNCHANGED <<files, clock, started, earned, deaths>>

\* The handler raises: nothing it wrote is taken back.
Refuse(p) == proc' = [proc EXCEPT ![p] = Idle]

\* _load_registry and _find_audit; sync also needs the latest run.
ReadRegistry(p) ==
    LET c == proc[p]
        i == FindAudit(registry, c.audit)
    IN  /\ At(p, "readRegistry")
        /\ IF c.op = "create" THEN GoOn(p, [c EXCEPT !.registry = registry])
           ELSE IF i = 0 \/ (c.op = "sync" /\ registry[i].latest = NoRun)
           THEN Refuse(p)
           ELSE GoOn(p, [c EXCEPT !.registry = registry,
                         !.run = IF c.op = "sync" THEN registry[i].latest ELSE NoRun])
        /\ UNCHANGED <<files, clock, history>>

\* _load_runs, with the checks of execute_audit_run and the files it seeds
\* when they are missing, or the search for the latest run.  Whether the
\* audit is prepared follows from its evidence and can change at any time.
ReadRuns(p) ==
    LET c == proc[p]
    IN  /\ At(p, "readRuns")
        /\ IF c.op = "execute"
           THEN \E preparation \in {"READY", "BLOCKED"} :
                IF preparation = "READY" /\ ~Active(runs, c.audit)
                THEN /\ started < MaxRuns
                     /\ seeded' = seeded \cup {c.audit}
                     /\ started' = started + 1
                     /\ GoOn(p, [c EXCEPT !.runs = runs, !.n = started + 1,
                                 !.run = [audit |-> c.audit, at |-> clock]])
                ELSE Refuse(p) /\ UNCHANGED <<seeded, started>>
           ELSE /\ IF FindRun(runs, c.run) = 0 THEN Refuse(p)
                   ELSE GoOn(p, [c EXCEPT !.runs = runs])
                /\ UNCHANGED <<seeded, started>>
        /\ UNCHANGED <<registry, runs, receipt, clock, earned,
                       overlapped, deaths>>

\* Process p rewrites the register as rows, its copy included.
WriteRegistry(p, rows) ==
    /\ registry' = rows
    /\ GoOn(p, [proc[p] EXCEPT !.registry = rows])
    /\ UNCHANGED <<runs, receipt, seeded, clock, history>>

WriteRuns(p, rows) ==
    /\ runs' = rows
    /\ GoOn(p, [proc[p] EXCEPT !.runs = rows])
    /\ UNCHANGED <<registry, receipt, seeded, clock, history>>

\* create_audit appends and writes; the id has the second it looked at.
AddAudit(p) ==
    /\ At(p, "addAudit")
    /\ WriteRegistry(p, Append(proc[p].registry, NewAudit(proc[p].audit)))

\* Mutant: the new run replaces the last one of its audit.
ReplaceRun(p) ==
    /\ At(p, "addRun")
    /\ WriteRuns(p, Append(SelectSeq(proc[p].runs,
                                    LAMBDA r : r.id.audit # proc[p].audit),
                           NewRun(proc[p].run, proc[p].n)))

\* The run is RUNNING in the table ...
AddRun(p) ==
    /\ At(p, "addRun")
    /\ WriteRuns(p, Append(proc[p].runs, NewRun(proc[p].run, proc[p].n)))

\* ... and then in the register.
OpenAudit(p) ==
    LET c == proc[p]
        i == FindAudit(c.registry, c.audit)
    IN  /\ At(p, "openAudit")
        /\ WriteRegistry(p, [c.registry EXCEPT ![i].status = "RUNNING",
                                               ![i].latest = c.run])

\* run_tenet_e2e writes the receipt of the audit, and may raise before it
\* does, or after.
Pipeline(p) ==
    LET a == proc[p].audit
    IN  /\ At(p, "pipeline")
        /\ \E ready \in BOOLEAN :
               /\ receipt' = [receipt EXCEPT ![a] = ready]
               /\ earned' = IF ready THEN earned \cup {a} ELSE earned
        /\ GoOn(p, proc[p]) \/ Refuse(p)
        /\ UNCHANGED <<registry, runs, seeded, clock, started,
                       overlapped, deaths>>

PipelineRaises(p) ==
    /\ At(p, "pipeline")
    /\ Refuse(p)
    /\ UNCHANGED <<files, clock, history>>

ReadReceipt(p) ==
    /\ At(p, "readReceipt")
    /\ GoOn(p, [proc[p] EXCEPT !.ready = receipt[proc[p].audit]])
    /\ UNCHANGED <<files, clock, history>>

\* The verdict, in the table ...
CloseRun(p) ==
    /\ At(p, "closeRun")
    /\ WriteRuns(p, ClosedRuns(proc[p]))

\* ... and in the register.
CloseAudit(p) ==
    LET c == proc[p]
        i == FindAudit(c.registry, c.audit)
    IN  /\ At(p, "closeAudit")
        /\ WriteRegistry(p, [c.registry EXCEPT ![i] = Closed(@, c.ready)])

Handle(p) ==
    \/ ReadRegistry(p) \/ ReadRuns(p) \/ AddAudit(p) \/ AddRun(p)
    \/ OpenAudit(p) \/ Pipeline(p) \/ PipelineRaises(p) \/ ReadReceipt(p)
    \/ CloseRun(p) \/ CloseAudit(p)

-----------------------------------------------------------------------------

\* A process dies between two steps, or inside a write: the file is then
\* empty.  It starts again without a request.
Die(p) ==
    /\ deaths < MaxDeaths /\ deaths' = deaths + 1
    /\ proc[p] # Idle /\ Refuse(p)
    /\ UNCHANGED <<receipt, seeded, clock, started, earned, overlapped>>
    /\ \/ UNCHANGED <<registry, runs>>
       \/ /\ At(p, "addRun") \/ At(p, "closeRun")
          /\ runs' = << >> /\ UNCHANGED registry
       \/ /\ At(p, "addAudit") \/ At(p, "openAudit") \/ At(p, "closeAudit")
          /\ registry' = << >> /\ UNCHANGED runs

Tick ==
    /\ clock < MaxTime /\ clock' = clock + 1
    /\ UNCHANGED <<files, proc, history>>

Next ==
    \/ \E p \in Proc :
           \/ \E op \in {"create", "execute", "sync"}, a \in AuditId : Begin(p, op, a)
           \/ Handle(p)
           \/ Die(p)
    \/ Tick

Spec == Init /\ [][Next]_vars

-----------------------------------------------------------------------------
(* Properties.                                                              *)

Memory == [op : {"create", "execute", "sync"}, todo : Seq(Step),
           audit : AuditId, registry : Seq(AuditRow), runs : Seq(RunRow),
           run : RunId \cup {NoRun}, n : 0..MaxRuns, ready : BOOLEAN]

\* The files and the memory of the processes hold rows the code can make.
TypeOK ==
    /\ registry \in Seq(AuditRow) /\ runs \in Seq(RunRow)
    /\ receipt \in [AuditId -> BOOLEAN]
    /\ seeded \subseteq AuditId
    /\ clock \in Time
    /\ proc \in [Proc -> Memory \cup {Idle}]
    /\ started \in 0..MaxRuns /\ earned \subseteq AuditId
    /\ overlapped \in BOOLEAN /\ deaths \in 0..MaxDeaths

Quiet == \A p \in Proc : proc[p] = Idle

\* No two runs of the table share an id, and no two audits.
DistinctIds ==
    /\ \A i, j \in DOMAIN runs : runs[i].id = runs[j].id => i = j
    /\ \A i, j \in DOMAIN registry : registry[i].id = registry[j].id => i = j

\* A run or an audit is COMPLETED, in a file or in the memory of a handler
\* that will write it, only if a pipeline of that audit once wrote a ready
\* receipt: neither a sync after a pipeline that raised or died, nor a
\* handler that writes back what it read long ago, invents one.
CompletedIsEarned ==
    /\ \A i \in DOMAIN runs :
           runs[i].status = "COMPLETED" => runs[i].id.audit \in earned
    /\ \A i \in DOMAIN registry :
           registry[i].status = "COMPLETED" => registry[i].id \in earned

\* Between requests, what GET /audits/{id} says of an audit is what
\* GET /audits/{id}/runs/latest says (but for the flags of a RUNNING audit,
\* which are those of its last closed run), and a run that was left RUNNING
\* is the latest of its audit, so that a sync can end it: unless a process
\* died, two handlers overlapped, or two runs started within a second.
RegisterAgrees ==
    Quiet /\ deaths = 0 /\ ~overlapped /\ DistinctIds =>
        /\ \A i \in DOMAIN registry :
               LET run == FindRun(runs, registry[i].latest)
               IN  IF run = 0 THEN registry[i].status = "CREATED"
                   ELSE /\ registry[i].status = runs[run].status
                        /\ \/ registry[i].status = "RUNNING"
                           \/ registry[i].ready = runs[run].ready
        /\ \A i \in DOMAIN runs :
               runs[i].status = "RUNNING" =>
                   \E j \in DOMAIN registry : registry[j].latest = runs[i].id
        /\ {runs[i].n : i \in DOMAIN runs} = 1..started

\* A run that was COMPLETED or BLOCKED is never RUNNING again, and never
\* leaves the table, unless two handlers overlapped or a process died.
ClosedRunsStay ==
    [][\A i \in DOMAIN runs :
           runs[i].status # "RUNNING" /\ ~overlapped' /\ deaths' = 0 =>
               \E j \in DOMAIN runs' :
                   runs'[j].n = runs[i].n /\ runs'[j].status # "RUNNING"]_vars
=============================================================================
