--------------------------- MODULE WebhookDelivery ---------------------------
(***************************************************************************)
(* core/webhook_delivery_service.py behind api/routers/webhooks.py.  The   *)
(* handlers are plain functions, so FastAPI runs them on a pool of         *)
(* threads: several requests read and replace the same files at once.      *)
(* Every file is replaced atomically, but a request reads some files,      *)
(* talks to the receiver and then replaces them one after the other.  The  *)
(* process may die at any point, and all its threads with it.              *)
(*                                                                         *)
(* One event type is modelled, which every webhook subscribes to.  Names,  *)
(* URLs, secrets, signatures and times are left out.  _simulate_send       *)
(* stands for the HTTP client (it answers 200, the tests replace it by one *)
(* that answers 500): here the receiver may answer either way.             *)
(***************************************************************************)
EXTENDS Naturals, Sequences, FiniteSets

CONSTANTS
    Thread,          \* threads of the pool
    Hook,            \* webhook ids
    None,
    MaxFailures,     \* MAX_CONSECUTIVE_FAILURES
    MaxDeliveries,   \* bound on delivery files
    MaxSends,        \* bound on attempts
    MaxDeaths        \* bound on deaths of the process

ASSUME WebhookAssumption ==
    /\ None \notin Hook
    /\ MaxFailures \in Nat \ {0}
    /\ MaxDeliveries \in Nat /\ MaxSends \in Nat /\ MaxDeaths \in Nat

VARIABLES
    hooks,        \* definitions/wh_*.json: the row of every webhook there is
    deliveries,   \* deliveries/whd_*.json, in the order they are made
    log,          \* delivery_log.json
    task,         \* what each thread is doing, with what it has read
    known,        \* the webhook ids handed out so far
    deaths,
    \* The receivers and the users, as properties speak of them:
    sends,        \* every attempt that reached a receiver, in order
    switchedOff,  \* webhooks that a user has disabled
    calm          \* no two requests were ever under way at once

vars == <<hooks, deliveries, log, task, known, deaths, sends, switchedOff, calm>>

HookRow     == [status : {"ACTIVE", "DISABLED"}, failures : Nat]
DeliveryRow == [hook : Hook, status : {"QUEUED", "SENT", "FAILED"}, attempts : Nat]
LogRow      == [delivery : Nat, status : {"SENT", "FAILED"}]

Idle == [at |-> "idle"]

Init ==
    /\ hooks = [h \in {} |-> Idle] /\ deliveries = << >> /\ log = << >>
    /\ task = [t \in Thread |-> Idle]
    /\ known = {} /\ deaths = 0
    /\ sends = << >> /\ switchedOff = {} /\ calm = TRUE

-----------------------------------------------------------------------------

Quiet == \A t \in Thread : task[t] = Idle

Go(t, step) == task' = [task EXCEPT ![t] = step]

\* An idle thread takes a request.
Take(t, step) ==
    /\ task[t] = Idle
    /\ Go(t, step)
    /\ calm' = (calm /\ Quiet)

Ghosts == UNCHANGED <<known, deaths, switchedOff, calm>>

SetHook(h, row) ==
    hooks' = [x \in DOMAIN hooks \cup {h} |-> IF x = h THEN row ELSE hooks[x]]

-----------------------------------------------------------------------------
(* Definitions.                                                             *)

\* create_webhook: one write of a new file.
Create == \E h \in Hook \ known :
    /\ SetHook(h, [status |-> "ACTIVE", failures |-> 0])
    /\ known' = known \cup {h}
    /\ UNCHANGED <<deliveries, log, task, deaths, sends, switchedOff, calm>>

\* delete_webhook: one unlink.
Delete == \E h \in DOMAIN hooks :
    /\ hooks' = [x \in DOMAIN hooks \ {h} |-> hooks[x]]
    /\ calm' = (calm /\ Quiet)
    /\ UNCHANGED <<deliveries, log, task, known, deaths, sends, switchedOff>>

\* Mutant: a status that is not given is taken for the default one.
UpdatedDefault(row, to) == [row EXCEPT !.status = IF to = None THEN "ACTIVE" ELSE to]

\* update_webhook: the failures are kept, whatever the status becomes.
Updated(row, to) == [row EXCEPT !.status = IF to = None THEN row.status ELSE to]

BeginUpdate(t) == \E h \in DOMAIN hooks, to \in {"ACTIVE", "DISABLED", None} :
    /\ Take(t, [at |-> "update", hook |-> h, to |-> to, row |-> hooks[h]])
    /\ UNCHANGED <<hooks, deliveries, log, known, deaths, sends, switchedOff>>

\* The file is written whether or not it is still there.
EndUpdate(t) ==
    /\ task[t].at = "update"
    /\ SetHook(task[t].hook, Updated(task[t].row, task[t].to))
    /\ switchedOff' = IF task[t].to = "DISABLED" THEN switchedOff \cup {task[t].hook}
                      ELSE switchedOff
    /\ Go(t, Idle)
    /\ UNCHANGED <<deliveries, log, known, deaths, sends, calm>>

-----------------------------------------------------------------------------
(* Queueing.                                                                *)

\* queue_webhook_delivery (test = None), and the first part of
\* send_test_webhook_delivery (test: the webhook it is for, which exists):
\* the definitions are listed, then read one by one.
BeginQueue(t) == \E test \in DOMAIN hooks \cup {None} :
    /\ Take(t, [at |-> "list", todo |-> DOMAIN hooks, active |-> {}, test |-> test])
    /\ UNCHANGED <<hooks, deliveries, log, known, deaths, sends, switchedOff>>

\* What follows the reading of the definitions, with the active ones, and what
\* follows the queueing of the last: a test goes on to dispatch the delivery
\* for its webhook, and raises if there is none.
Dispatching(mine) == IF mine = 0 THEN Idle ELSE [at |-> "dispatch", delivery |-> mine]

Queueing(todo, test, mine) ==
    IF todo = {} THEN Dispatching(mine)
    ELSE [at |-> "queue", todo |-> todo, test |-> test, mine |-> mine]

\* A file that has gone since it was listed is skipped.
ReadListed(t) ==
    /\ task[t].at = "list"
    /\ IF task[t].todo = {} THEN Go(t, Idle)
       ELSE \E h \in task[t].todo :
                LET active == IF h \in DOMAIN hooks /\ hooks[h].status = "ACTIVE"
                              THEN task[t].active \cup {h} ELSE task[t].active
                IN  Go(t, IF task[t].todo = {h} THEN Queueing(active, task[t].test, 0)
                          ELSE [task[t] EXCEPT !.todo = @ \ {h}, !.active = active])
    /\ UNCHANGED <<hooks, deliveries, log, sends>> /\ Ghosts

QueueOne(t) ==
    /\ task[t].at = "queue" /\ Len(deliveries) < MaxDeliveries
    /\ \E h \in task[t].todo :
           /\ deliveries' = Append(deliveries, [hook |-> h, status |-> "QUEUED", attempts |-> 0])
           /\ Go(t, Queueing(task[t].todo \ {h}, task[t].test,
                             IF h = task[t].test THEN Len(deliveries) + 1 ELSE task[t].mine))
    /\ UNCHANGED <<hooks, log, sends>> /\ Ghosts

-----------------------------------------------------------------------------
(* Dispatching.                                                             *)

\* The webhook is not ACTIVE: the delivery fails without an attempt.
Refused(row) == [row EXCEPT !.status = "FAILED"]

\* Mutant: an answer is taken for an acceptance.
AttemptedAlwaysSent(row, ok) == [row EXCEPT !.attempts = @ + 1, !.status = "SENT"]

Attempted(row, ok) ==
    [row EXCEPT !.attempts = @ + 1, !.status = IF ok THEN "SENT" ELSE "FAILED"]

\* Mutants: the limit is reached one failure early; a success does not reset.
CountedEarly(row, ok) ==
    IF ok THEN [row EXCEPT !.failures = 0]
    ELSE [row EXCEPT !.failures = @ + 1,
                     !.status = IF row.failures + 2 >= MaxFailures THEN "DISABLED" ELSE @]

CountedForever(row, ok) ==
    IF ok THEN row
    ELSE [row EXCEPT !.failures = @ + 1,
                     !.status = IF row.failures + 1 >= MaxFailures THEN "DISABLED" ELSE @]

Counted(row, ok) ==
    IF ok THEN [row EXCEPT !.failures = 0]
    ELSE [row EXCEPT !.failures = @ + 1,
                     !.status = IF row.failures + 1 >= MaxFailures THEN "DISABLED" ELSE @]

\* Mutant: failures are not logged.
LoggedSent(rows, d, row) ==
    IF row.status = "SENT"
    THEN Append(rows, [delivery |-> d, status |-> row.status])
    ELSE rows

Logged(rows, d, row) ==
    Append(rows, [delivery |-> d, status |-> row.status])

BeginDispatch(t) == \E d \in DOMAIN deliveries :
    /\ Take(t, [at |-> "dispatch", delivery |-> d])
    /\ UNCHANGED <<hooks, deliveries, log, known, deaths, sends, switchedOff>>

\* Whatever the status of the delivery: a SENT one is dispatched again.
ReadDelivery(t) ==
    /\ task[t].at = "dispatch"
    /\ Go(t, [at |-> "hook", delivery |-> task[t].delivery,
              row |-> deliveries[task[t].delivery]])
    /\ UNCHANGED <<hooks, deliveries, log, sends>> /\ Ghosts

\* A webhook that has gone raises.
ReadHook(t) ==
    /\ task[t].at = "hook"
    /\ LET h == task[t].row.hook IN
           Go(t, CASE h \notin DOMAIN hooks -> Idle
                   [] h \in DOMAIN hooks /\ hooks[h].status # "ACTIVE" ->
                          [task[t] EXCEPT !.at = "refuse"]
                   [] h \in DOMAIN hooks /\ hooks[h].status = "ACTIVE" ->
                          [at |-> "send", delivery |-> task[t].delivery,
                           row |-> task[t].row, counter |-> hooks[h]])
    /\ UNCHANGED <<hooks, deliveries, log, sends>> /\ Ghosts

Refuse(t) ==
    /\ task[t].at = "refuse"
    /\ deliveries' = [deliveries EXCEPT ![task[t].delivery] = Refused(task[t].row)]
    /\ Go(t, Idle)
    /\ UNCHANGED <<hooks, log, sends>> /\ Ghosts

Send(t) == \E ok \in BOOLEAN :
    /\ task[t].at = "send" /\ Len(sends) < MaxSends
    /\ sends' = Append(sends, [delivery |-> task[t].delivery, ok |-> ok])
    /\ Go(t, [task[t] EXCEPT !.at = "save", !.row = Attempted(@, ok), !.counter = Counted(@, ok)])
    /\ UNCHANGED <<hooks, deliveries, log>> /\ Ghosts

SaveDelivery(t) ==
    /\ task[t].at = "save"
    /\ deliveries' = [deliveries EXCEPT ![task[t].delivery] = task[t].row]
    /\ Go(t, [task[t] EXCEPT !.at = "count"])
    /\ UNCHANGED <<hooks, log, sends>> /\ Ghosts

\* The webhook is written whether or not it is still there.
SaveHook(t) ==
    /\ task[t].at = "count"
    /\ SetHook(task[t].row.hook, task[t].counter)
    /\ Go(t, [at |-> "log", delivery |-> task[t].delivery, row |-> task[t].row])
    /\ UNCHANGED <<deliveries, log, sends>> /\ Ghosts

ReadLog(t) ==
    /\ task[t].at = "log"
    /\ Go(t, [at |-> "append", rows |-> Logged(log, task[t].delivery, task[t].row)])
    /\ UNCHANGED <<hooks, deliveries, log, sends>> /\ Ghosts

SaveLog(t) ==
    /\ task[t].at = "append"
    /\ log' = task[t].rows
    /\ Go(t, Idle)
    /\ UNCHANGED <<hooks, deliveries, sends>> /\ Ghosts

Die ==
    /\ deaths < MaxDeaths /\ ~Quiet
    /\ deaths' = deaths + 1
    /\ task' = [t \in Thread |-> Idle]
    /\ UNCHANGED <<hooks, deliveries, log, known, sends, switchedOff, calm>>

Next ==
    \/ Create
    \/ Delete
    \/ Die
    \/ \E t \in Thread :
          \/ BeginUpdate(t) \/ EndUpdate(t)
          \/ BeginQueue(t) \/ ReadListed(t) \/ QueueOne(t)
          \/ BeginDispatch(t) \/ ReadDelivery(t) \/ ReadHook(t) \/ Refuse(t)
          \/ Send(t) \/ SaveDelivery(t) \/ SaveHook(t) \/ ReadLog(t) \/ SaveLog(t)

Spec == Init /\ [][Next]_vars

-----------------------------------------------------------------------------

\* The rows of every file have their declared shapes.
TypeOK ==
    /\ DOMAIN hooks \subseteq known /\ known \subseteq Hook
    /\ \A h \in DOMAIN hooks : hooks[h] \in HookRow
    /\ deliveries \in Seq(DeliveryRow)
    /\ log \in Seq(LogRow)

\* The attempts that reached the receiver of a webhook, or for a delivery.
SendsTo(h) == {n \in DOMAIN sends : deliveries[sends[n].delivery].hook = h}
SendsOf(d) == {n \in DOMAIN sends : sends[n].delivery = d}
FailedTo(h) == {n \in SendsTo(h) : ~sends[n].ok}

\* Whatever the threads overwrite and wherever the process dies, a webhook
\* that no user has disabled is DISABLED only after MaxFailures of its
\* attempts failed, and its counter never exceeds the failures there were.
DisablingIsEarned ==
    \A h \in DOMAIN hooks :
        /\ hooks[h].failures <= Cardinality(FailedTo(h))
        /\ hooks[h].status = "DISABLED" /\ h \notin switchedOff =>
               Cardinality(FailedTo(h)) >= MaxFailures

\* Whatever the threads overwrite, a delivery that reads SENT was accepted by
\* its receiver, and it never claims more attempts than there were.
SentWasAccepted ==
    \A d \in DOMAIN deliveries :
        /\ deliveries[d].attempts <= Cardinality(SendsOf(d))
        /\ deliveries[d].status = "SENT" => \E n \in SendsOf(d) : sends[n].ok

\* Requests that never overlap and never die count exactly: between them, the
\* counter of a webhook is the number of its attempts that failed since the
\* last one that was accepted, also across updates and tests.
Streak(h) ==
    {n \in FailedTo(h) : \A k \in SendsTo(h) : k > n => ~sends[k].ok}

CountsTheStreak ==
    calm /\ Quiet /\ deaths = 0 =>
        \A h \in DOMAIN hooks : hooks[h].failures = Cardinality(Streak(h))

\* Requests that never overlap log every attempt, but for one per death.
LogMissesOnlyDeaths ==
    calm /\ Quiet => Len(sends) <= Len(log) + deaths

\* Requests that never overlap respect what users decide: a deleted webhook
\* stays away, and a disabled one becomes ACTIVE only by an update that says so.
UsersDecide ==
    [][calm' =>
         /\ \A h \in known \ DOMAIN hooks : h \notin DOMAIN hooks'
         /\ \A h \in DOMAIN hooks \cap DOMAIN hooks' :
               hooks[h].status = "DISABLED" /\ hooks'[h].status = "ACTIVE" =>
                   \E t \in Thread : /\ task[t].at = "update"
                                     /\ task[t].hook = h /\ task[t].to = "ACTIVE"]_vars

\* A webhook that was deleted stays deleted: delete_webhook returns
\* "deleted": True and the listing no longer has it.
DeletedStaysDeleted ==
    [][\A h \in known \ DOMAIN hooks : h \notin DOMAIN hooks']_vars
=============================================================================
