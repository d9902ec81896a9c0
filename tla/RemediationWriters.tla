------------------------ MODULE RemediationWriters --------------------------
(***************************************************************************)
(* The remediation workspace as it runs: API workers and the scripts that  *)
(* bootstrap it, set due dates and plan reminders are processes without a  *)
(* lock between them.  A request reads its files one by one, computes in   *)
(* memory, and rewrites whole files one by one, in the order of the code;  *)
(* a process may die at any point, between two writes or inside one.       *)
(*                                                                         *)
(* A request that is refused reads and changes nothing, so it is not       *)
(* started here.  write_text truncates and then fills the file: a death    *)
(* inside a write leaves it empty or cut in the middle of a row (Torn), or *)
(* as it was before or as it is after the write.                           *)
(*                                                                         *)
(* files, clock and seq, and their bounds MaxTime and MaxSeq, are those of *)
(* RemediationOperator.                                                    *)
(***************************************************************************)
EXTENDS RemediationOperator, Sequences, FiniteSets, SequencesExt

CONSTANTS Proc,        \* the processes that serve requests
          Torn,        \* a file whose last row is incomplete
          MaxCrashes   \* bound on the deaths

VARIABLES pc,          \* "idle", "reading" or "writing"
          req,         \* the request a process serves
          todo,        \* the files it still has to read, or to write
          mem,         \* what it read; once writing, what it writes
          crashes,     \* number of deaths so far
          settled,     \* the last request to end was carried out in full
          intact       \* no write was torn and no bootstrap cut short since
                       \* the last complete bootstrap

writersVars == <<files, clock, seq, pc, req, todo, mem, crashes, settled, intact>>

NoRequest == [op |-> "none"]

Request ==
    [op : {"bootstrap"}, items : SUBSET Item]
    \cup [op : {"assign"}, by : User, item : Item, owner : User]
    \cup [op : {"due"}, by : User, item : Item, due : DueDate]
    \cup [op : {"submit"}, by : User, item : Item, evidence : SUBSET File]
    \cup [op : {"transition"}, by : User, item : Item, to : Status \ {"EVIDENCE_SUBMITTED"}]
    \cup [op : {"verify"}, by : User, item : Item, passed : BOOLEAN]
    \cup [op : {"plan"}, scope : Tenant \cup {None}]

-----------------------------------------------------------------------------

\* Mutant: the notifications are appended to none.
ReadsNoOutbox(op) ==
    CASE op \in {"assign", "due", "verify"}  -> <<"timeline", "log">>
      [] op \in {"submit", "transition"}     -> <<"timeline", "log", "evidence">>
      [] op = "plan"                         -> <<"outbox">>
      [] op = "bootstrap"                    -> << >>

\* The files a request reads after the item rows, in order.
Reads(op) ==
    CASE op \in {"assign", "due", "verify"}  -> <<"timeline", "log", "outbox">>
      [] op \in {"submit", "transition"}     -> <<"timeline", "log", "outbox", "evidence">>
      [] op = "plan"                         -> <<"outbox">>
      [] op = "bootstrap"                    -> << >>

\* Mutants: the gate is left alone; the notification comes before its audit
\* row; the ledger is left alone by submissions and transitions.
WritesNoGate(op) ==
    CASE op \in {"assign", "due", "verify"}  ->
            <<"items", "timeline", "index", "log", "outbox">>
      [] op \in {"submit", "transition"}     ->
            <<"items", "timeline", "index", "evidence", "log", "outbox">>
      [] op = "plan"                         -> <<"outbox">>
      [] op = "bootstrap"                    ->
            <<"items", "timeline", "index", "gate", "evidence", "outbox", "log">>

WritesOutboxFirst(op) ==
    CASE op \in {"assign", "due", "verify"}  ->
            <<"items", "timeline", "index", "gate", "outbox", "log">>
      [] op \in {"submit", "transition"}     ->
            <<"items", "timeline", "index", "gate", "evidence", "outbox", "log">>
      [] op = "plan"                         -> <<"outbox">>
      [] op = "bootstrap"                    ->
            <<"items", "timeline", "index", "gate", "evidence", "outbox", "log">>

WritesNoLedger(op) ==
    CASE op \in {"assign", "due", "verify"}  ->
            <<"items", "timeline", "index", "gate", "log", "outbox">>
      [] op \in {"submit", "transition"}     ->
            <<"items", "index", "gate", "evidence", "log", "outbox">>
      [] op = "plan"                         -> <<"outbox">>
      [] op = "bootstrap"                    ->
            <<"items", "timeline", "index", "gate", "evidence", "outbox", "log">>

\* The files it writes, in order.
Writes(op) ==
    CASE op \in {"assign", "due", "verify"}  ->
            <<"items", "timeline", "index", "gate", "log", "outbox">>
      [] op \in {"submit", "transition"}     ->
            <<"items", "timeline", "index", "gate", "evidence", "log", "outbox">>
      [] op = "plan"                         -> <<"outbox">>
      [] op = "bootstrap"                    ->
            <<"items", "timeline", "index", "gate", "evidence", "outbox", "log">>

\* The checks of a request, all of them on the item rows.
Allowed(r, items) ==
    CASE r.op = "assign"     -> AssignOwnerAllowed(items, r.by, r.item, r.owner)
      [] r.op = "due"        -> SetDueDateAllowed(items, r.by, r.item)
      [] r.op = "submit"     -> TransitionAllowed(items, r.by, r.item,
                                                  "EVIDENCE_SUBMITTED", r.evidence)
      [] r.op = "transition" -> TransitionAllowed(items, r.by, r.item, r.to, {})
      [] r.op = "verify"     -> VerificationAllowed(items, r.by, r.item)
      [] r.op = "plan"       -> r.scope = None \/ \E u \in User :
                                    /\ UserTenant[u] = r.scope
                                    /\ RoleOf[u] \in PLANNER_ROLES
      [] r.op = "bootstrap"  -> TRUE

PlanItems(r, items) ==
    {i \in DOMAIN items : r.scope = None \/ TenantOf[i] = r.scope}

\* What the request computes from the files f it read.
Result(r, f, t, n) ==
    CASE r.op = "assign"     -> AssignOwnerResult(f, r.by, r.item, r.owner, t, n)
      [] r.op = "due"        -> SetDueDateResult(f, r.by, r.item, r.due, t, n)
      [] r.op = "submit"     -> SubmitResult(f, r.by, r.item, r.evidence, t, n)
      [] r.op = "transition" -> TransitionResult(f, r.by, r.item, r.to, t, n)
      [] r.op = "verify"     -> VerificationResult(f, r.by, r.item, r.passed, t, n)
      [] r.op = "plan"       ->
            [f EXCEPT !.outbox =
                @ \cup Reminders(f.items, @, PlanItems(r, f.items), t, n)]
      [] r.op = "bootstrap"  -> BootstrapResult(r.items, t, n)

-----------------------------------------------------------------------------

WritersInit ==
    /\ files = NoFiles /\ clock = 0 /\ seq = 0
    /\ pc = [p \in Proc |-> "idle"]
    /\ req = [p \in Proc |-> NoRequest]
    /\ todo = [p \in Proc |-> << >>]
    /\ mem = [p \in Proc |-> NoFiles]
    /\ crashes = 0 /\ settled = TRUE /\ intact = TRUE

\* A request starts with the item rows and its checks on them (a bootstrap,
\* which only reads the generated items, starts without them).  Nothing is
\* read of a file that is torn: json.loads raises and the request ends.
Begin(p) ==
    /\ pc[p] = "idle"
    /\ seq + 2 * Cardinality({q \in Proc : pc[q] = "reading"}) < MaxSeq
    /\ \E r \in Request :
           /\ r.op # "bootstrap" => files.items # Torn /\ Allowed(r, files.items)
           /\ req' = [req EXCEPT ![p] = r]
           /\ todo' = [todo EXCEPT ![p] = Reads(r.op)]
           /\ mem' = [mem EXCEPT ![p] =
                  IF r.op = "bootstrap" THEN NoFiles
                  ELSE [NoFiles EXCEPT !.items = files.items]]
    /\ pc' = [pc EXCEPT ![p] = "reading"]
    /\ UNCHANGED <<files, clock, seq, crashes, settled, intact>>

\* One more file read into memory.
Read(p) ==
    /\ pc[p] = "reading" /\ todo[p] # << >>
    /\ LET x == Head(todo[p]) IN
           IF files[x] = Torn
           THEN /\ pc' = [pc EXCEPT ![p] = "idle"]
                /\ req' = [req EXCEPT ![p] = NoRequest]
                /\ todo' = [todo EXCEPT ![p] = << >>]
                /\ mem' = [mem EXCEPT ![p] = NoFiles]
           ELSE /\ mem' = [mem EXCEPT ![p][x] = files[x]]
                /\ todo' = [todo EXCEPT ![p] = Tail(todo[p])]
                /\ UNCHANGED <<pc, req>>
    /\ UNCHANGED <<files, clock, seq, crashes, settled, intact>>

\* Everything is read: the new contents are computed, with one timestamp.
Compute(p) ==
    /\ pc[p] = "reading" /\ todo[p] = << >>
    /\ mem' = [mem EXCEPT ![p] = Result(req[p], mem[p], clock, seq)]
    /\ todo' = [todo EXCEPT ![p] = Writes(req[p].op)]
    /\ pc' = [pc EXCEPT ![p] = "writing"]
    /\ seq' = seq + 2
    /\ UNCHANGED <<files, clock, req, crashes, settled, intact>>

\* One more file rewritten; the last write ends the request.
Write(p) ==
    /\ pc[p] = "writing"
    /\ LET x == Head(todo[p]) IN files' = [files EXCEPT ![x] = mem[p][x]]
    /\ IF Len(todo[p]) > 1
       THEN /\ todo' = [todo EXCEPT ![p] = Tail(todo[p])]
            /\ UNCHANGED <<pc, req, mem, settled, intact>>
       ELSE /\ pc' = [pc EXCEPT ![p] = "idle"]
            /\ req' = [req EXCEPT ![p] = NoRequest]
            /\ todo' = [todo EXCEPT ![p] = << >>]
            /\ mem' = [mem EXCEPT ![p] = NoFiles]
            /\ settled' = (settled \/ req[p].op # "plan")
            /\ intact' = (intact \/ req[p].op = "bootstrap")
    /\ UNCHANGED <<clock, seq, crashes>>

\* The process dies between two writes, or inside the next one.
Crash(p) ==
    /\ crashes < MaxCrashes
    /\ pc[p] = "writing"
    /\ LET x == Head(todo[p]) IN
           \/ /\ files' = files
              /\ intact' = (intact /\ ~(req[p].op = "bootstrap" /\ x # "items"))
           \/ files' = [files EXCEPT ![x] = NoFiles[x]] /\ intact' = FALSE
           \/ files' = [files EXCEPT ![x] = Torn] /\ intact' = FALSE
    /\ pc' = [pc EXCEPT ![p] = "idle"]
    /\ req' = [req EXCEPT ![p] = NoRequest]
    /\ todo' = [todo EXCEPT ![p] = << >>]
    /\ mem' = [mem EXCEPT ![p] = NoFiles]
    /\ crashes' = crashes + 1
    /\ settled' = FALSE
    /\ UNCHANGED <<clock, seq>>

WritersTick ==
    /\ clock < MaxTime
    /\ clock' = clock + 1
    /\ UNCHANGED <<files, seq, pc, req, todo, mem, crashes, settled, intact>>

WritersNext == WritersTick \/ \E p \in Proc :
            Begin(p) \/ Read(p) \/ Compute(p) \/ Write(p) \/ Crash(p)

WritersSpec == WritersInit /\ [][WritersNext]_writersVars

-----------------------------------------------------------------------------
(* Refinement: a request takes effect when it has computed.                 *)

\* The files as they will be once the pending writes are done.
Pending == UNION {Range(todo[p]) : p \in {q \in Proc : pc[q] = "writing"}}

Target == [x \in DOMAIN files |->
              IF x \in Pending
              THEN mem[CHOOSE p \in Proc : pc[p] = "writing" /\ x \in Range(todo[p])][x]
              ELSE files[x]]

Operator == INSTANCE RemediationOperator WITH files <- Target

\* One process serves requests in one step each until it dies: reading and
\* rewriting file after file, it implements RemediationOperator up to then.
OneProcessIsAtomic ==
    Operator!Init /\ [][crashes' = 0 => [Operator!Next]_(Operator!vars)]_writersVars

-----------------------------------------------------------------------------

Idle == \A p \in Proc : pc[p] = "idle"

HasRows == files.items # Torn /\ files.timeline # Torn

\* With one process, the index and the gate on disk are those of the item
\* rows on disk whenever the last request that ended was carried out, even
\* after deaths: the next complete request repairs what a death left stale.
SettledWorkspace ==
    Idle /\ settled /\ files.gate # None =>
        /\ files.gate = Unresolved(files.items)
        /\ files.index.byStatus = IndexOf(files.items, 0).byStatus

\* The audit trail is written in the order ledger, audit log, outbox: with one
\* process, an audit row always has its ledger row and a notification its
\* audit row, unless a write was torn or a bootstrap cut short or under way.
Resetting == \E p \in Proc : req[p].op = "bootstrap"

TrailInOrder ==
    intact /\ ~Resetting =>
        /\ \A r \in files.log : \E e \in files.timeline :
               e.seq = r.seq /\ e.item = r.item
        /\ \A m \in files.outbox : m.type \in RequestNotes =>
               \E r \in files.log : r.seq = m.seq /\ r.item = m.item

\* The items whose newest status row in the ledger does not say their status.
StatusRows(i) == {e \in files.timeline : e.item = i /\ IsStatusEvent(e)}

OutOfStep ==
    {i \in DOMAIN files.items :
        ~ \E e \in StatusRows(i) :
              /\ e.to = files.items[i].status
              /\ \A d \in StatusRows(i) : d.seq <= e.seq}

\* With one process, a death puts at most one item out of step with its
\* ledger: the item whose row was written and whose event was not.
OneItemPerCrash == Idle /\ intact => Cardinality(OutOfStep) <= crashes

\* The rows of the ledger carry immutable: True: but for a bootstrap, no write
\* of the timeline drops the row of a user's action that was there.
UserRows(rows) == {e \in rows : e.action # "CREATED"}

LedgerOnlyGrows ==
    [][\/ Resetting
       \/ HasRows /\ files'.timeline # Torn =>
              UserRows(files.timeline) \subseteq files'.timeline]_writersVars
=============================================================================
