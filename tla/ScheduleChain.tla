---------------------------- MODULE ScheduleChain ----------------------------
(***************************************************************************)
(* From a schedule policy to a work item.  Five programs, each run from    *)
(* time to time, each reading what the one before it wrote:                *)
(*   Cycle        core/audit_schedule_policy.py, _runtime.py               *)
(*   Deliver      core/audit_schedule_delivery.py                          *)
(*   Bridge       core/audit_schedule_execution_bridge.py                  *)
(*   Materialize  core/audit_schedule_audit_materialization.py             *)
(*   Intake       core/audit_workflow_intake.py                            *)
(* A program writes its results first and the ids it has handled last, in  *)
(* a state file.  It may die between two writes, and is then run again.    *)
(* One program runs at a time.  Dates are days; the interval of a          *)
(* frequency is a number of days.                                          *)
(* An execution, the queue entry, the request, the audit record and the    *)
(* work item made of it have the same id: its schedule and its due date.   *)
(***************************************************************************)
EXTENDS Naturals, FiniteSets

CONSTANTS Schedule,
          Interval,    \* days between two due dates of a schedule
          LeadDays,    \* REMINDER_LEAD_DAYS
          MaxDay,      \* bound on the days
          MaxDeaths,   \* bound on the deaths of a program
          Statuses,    \* bound on what a policy may be, of PolicyStatus
          NoFile       \* a file that was never written

ASSUME ChainAssumption ==
    /\ Interval \in Nat \ {0} /\ LeadDays \in Nat
    /\ MaxDay \in Nat /\ MaxDeaths \in Nat

VARIABLES today,
          policy,      \* what the policy file says of each schedule
          cycle,       \* the output of the last cycle
          queue, outbox, alerts, snapshot,    \* written by Deliver
          requests, gate,                     \* by Bridge
          records, dependency,                \* by Materialize
          work,                               \* by Intake
          handled,     \* the state file of each program
          deaths,
          overrun,     \* a cycle replaced an output not yet delivered
          shown        \* alerts that made a readiness snapshot blocked

delivered == <<queue, outbox, alerts, snapshot>>
bridged == <<requests, gate>>
materialized == <<records, dependency>>
history == <<overrun, shown>>
vars == <<today, policy, cycle, delivered, bridged, materialized, work,
          handled, deaths, history>>

Day == 0..MaxDay
Key == [schedule : Schedule, due : Day]

\* A policy is valid, enabled, periodic and has fresh evidence ("ready"), or
\* is the first of these it fails.
PolicyStatus == {"INVALID_CONFIGURATION", "SCHEDULE_DISABLED", "MANUAL_SCHEDULE",
                 "STALE_EVIDENCE", "ready"}

Reason == (PolicyStatus \ {"ready"}) \cup {"NOT_DUE"}
NoDue == MaxDay + 1
Skip == [schedule : Schedule, reason : Reason, due : Day \cup {NoDue}]
Event == [schedule : Schedule,
          kind : {"AUDIT_REMINDER", "STALE_EVIDENCE", "INVALID_CONFIGURATION"},
          target : Day]

Output == [executions : SUBSET Key, events : SUBSET Event, skips : SUBSET Skip]
Program == {"cycle", "deliver", "bridge", "materialize", "intake"}

ASSUME StatusAssumption == Statuses \subseteq PolicyStatus
ASSUME NoFileIsNone == NoFile \notin Output

NothingHandled == [keys |-> {}, notices |-> {}, alerts |-> {}]

Init ==
    /\ today = 0
    /\ policy \in [Schedule -> Statuses]
    /\ cycle = NoFile
    /\ queue = {} /\ outbox = {} /\ alerts = {} /\ snapshot = NoFile
    /\ requests = {} /\ gate = NoFile
    /\ records = {} /\ dependency = NoFile
    /\ work = {}
    /\ handled = [p \in Program |-> NothingHandled]
    /\ deaths = 0 /\ overrun = FALSE /\ shown = {}

-----------------------------------------------------------------------------
(* What the policy says on a day.                                           *)

Periodic(s) == policy[s] \in {"STALE_EVIDENCE", "ready"}

\* next_due_date: the first due date that is not before today.
NextDue == Interval * IF today = 0 THEN 1 ELSE (today + Interval - 1) \div Interval

\* evaluate_reminder
Reminders ==
    {[schedule |-> s, kind |-> "AUDIT_REMINDER", target |-> NextDue] :
        s \in {x \in Schedule : /\ Periodic(x) /\ NextDue <= MaxDay
                                /\ NextDue <= today + LeadDays}}

\* evaluate_due_execution materializes on the due date only.
Due(s) == policy[s] = "ready" /\ today = NextDue

Executions == {[schedule |-> s, due |-> NextDue] : s \in {x \in Schedule : Due(x)}}

SkipOf(s) ==
    IF ~Periodic(s) THEN [schedule |-> s, reason |-> policy[s], due |-> NoDue]
    ELSE IF today = NextDue
    THEN [schedule |-> s, reason |-> "STALE_EVIDENCE", due |-> NextDue]
    ELSE [schedule |-> s, reason |-> "NOT_DUE",
          due |-> IF NextDue <= MaxDay THEN NextDue ELSE NoDue]

Skips == {SkipOf(s) : s \in {x \in Schedule : ~Due(x)}}

\* An invalid configuration is told every day, for that day.
SkipEvents ==
    {[schedule |-> k.schedule, kind |-> k.reason,
      target |-> IF k.due = NoDue THEN today ELSE k.due] :
        k \in {x \in Skips : x.reason \in {"STALE_EVIDENCE", "INVALID_CONFIGURATION"}}}

\* _build_readiness_alert
AlertsOf(skips) ==
    {k \in skips : k.reason \in {"STALE_EVIDENCE", "INVALID_CONFIGURATION",
                                 "SCHEDULE_DISABLED"}}

-----------------------------------------------------------------------------
(* A program carries out its first k writes, and all of them unless it      *)
(* dies.                                                                     *)

\* The i-th file after the program, which was to turn from old into new.
Written(i, k, old, new) == IF i <= k THEN new ELSE old

\* Writes 1 to n, the last one the state file of program p.
Runs(p, k, n, state) ==
    /\ k \in 0..n
    /\ handled' = [handled EXCEPT ![p] = Written(n, k, @, state)]
    /\ deaths' = IF k < n THEN deaths + 1 ELSE deaths
    /\ deaths' <= MaxDeaths

\* Deliver has ticked off all that is in this output.
Delivered(out) ==
    \/ out = NoFile
    \/ /\ out.executions \subseteq handled["deliver"].keys
       /\ out.events \subseteq handled["deliver"].notices
       /\ AlertsOf(out.skips) \subseteq handled["deliver"].alerts

\* run_schedule_cycle and write_cycle_artifacts
Cycle(k) ==
    LET old == handled["cycle"]
        out == [executions |-> Executions \ old.keys,
                events |-> (Reminders \cup SkipEvents) \ old.notices,
                skips |-> Skips]
    IN  /\ Runs("cycle", k, 2,
                [keys |-> old.keys \cup Executions,
                 notices |-> old.notices \cup Reminders \cup SkipEvents,
                 alerts |-> old.alerts])
        /\ cycle' = Written(1, k, cycle, out)
        /\ overrun' = (overrun \/ (cycle' # cycle /\ ~Delivered(cycle)))
        /\ UNCHANGED <<today, policy, delivered, bridged, materialized, work, shown>>

\* Mutant: stale evidence blocks nothing.
BlockedBy(new) == \E a \in new : a.reason # "STALE_EVIDENCE"

\* _build_readiness_snapshot counts the alerts this delivery adds.
Blocked(new) == new # {}

\* scripts/deliver_audit_schedule_cycle.py
Deliver(k) ==
    LET old == handled["deliver"]
        new == AlertsOf(cycle.skips) \ old.alerts
    IN  /\ cycle # NoFile
        /\ Runs("deliver", k, 5,
                [keys |-> old.keys \cup cycle.executions,
                 notices |-> old.notices \cup cycle.events,
                 alerts |-> old.alerts \cup new])
        /\ queue' = Written(1, k, queue,
                            queue \cup (cycle.executions \ old.keys))
        /\ outbox' = Written(2, k, outbox,
                             outbox \cup (cycle.events \ old.notices))
        /\ alerts' = Written(3, k, alerts, alerts \cup new)
        /\ snapshot' = Written(4, k, snapshot, [blocked |-> Blocked(new)])
        /\ shown' = IF k >= 4 /\ Blocked(new) THEN shown \cup new ELSE shown
        /\ UNCHANGED <<today, policy, cycle, bridged, materialized, work, overrun>>

\* Mutant: the state file is written first.
StateFirst(k) ==
    LET old == handled["bridge"]
    IN  /\ k \in 0..3
        /\ deaths' = (IF k < 3 THEN deaths + 1 ELSE deaths) /\ deaths' <= MaxDeaths
        /\ handled' = [handled EXCEPT !["bridge"] =
                IF k >= 1 THEN [old EXCEPT !.keys = @ \cup queue] ELSE @]
        /\ requests' = Written(2, k, requests, requests \cup (queue \ old.keys))
        /\ gate' = Written(3, k, gate, [ready |-> snapshot = NoFile \/ ~snapshot.blocked])
        /\ UNCHANGED <<today, policy, cycle, delivered, materialized, work, history>>

\* scripts/bridge_schedule_execution_to_audit_workflow.py.  Without a
\* snapshot nothing blocks.
Bridge(k) ==
    LET old == handled["bridge"]
    IN  /\ Runs("bridge", k, 3, [old EXCEPT !.keys = @ \cup queue])
        /\ requests' = Written(1, k, requests,
                               requests \cup (queue \ old.keys))
        /\ gate' = Written(2, k, gate,
                      [ready |-> snapshot = NoFile \/ ~snapshot.blocked])
        /\ UNCHANGED <<today, policy, cycle, delivered, materialized, work, history>>

\* Mutant: records wait for the gate, but their requests are handled.
CreatedWhenReady(old) ==
    IF gate # NoFile /\ gate.ready
    THEN {r \in requests : r \notin old.keys /\ r \notin records} ELSE {}

\* The audit records made of the requests.
Created(old) == {r \in requests : r \notin old.keys /\ r \notin records}

\* The requests that gave no record, and had none.
Unresolved(old) ==
    {r \in requests \ Created(old) : r \notin records /\ r \notin old.keys}

\* scripts/materialize_scheduled_audits.py
Materialize(k) ==
    LET old == handled["materialize"]
    IN  /\ Runs("materialize", k, 3, [old EXCEPT !.keys = @ \cup requests])
        /\ records' = Written(1, k, records, records \cup Created(old))
        /\ dependency' = Written(2, k, dependency,
              [ready |-> /\ gate # NoFile /\ gate.ready
                         /\ Unresolved(old) = {},
               seen |-> requests])
        /\ UNCHANGED <<today, policy, cycle, delivered, bridged, work, history>>

\* scripts/intake_materialized_audits_into_workflow.py
Intake(k) ==
    LET old == handled["intake"]
    IN  /\ Runs("intake", k, 2, [old EXCEPT !.keys = @ \cup records])
        /\ work' = Written(1, k, work,
                           work \cup {r \in records : r \notin old.keys})
        /\ UNCHANGED <<today, policy, cycle, delivered, bridged, materialized,
                       history>>

NextDay ==
    /\ today < MaxDay /\ today' = today + 1
    /\ UNCHANGED <<policy, cycle, delivered, bridged, materialized, work,
                   handled, deaths, history>>

\* The policy file is edited, evidence is refreshed or gets stale.
PolicyChanges(s, status) ==
    /\ policy' = [policy EXCEPT ![s] = status]
    /\ UNCHANGED <<today, cycle, delivered, bridged, materialized, work,
                   handled, deaths, history>>

Next ==
    \/ \E k \in 0..5 :
           \/ Cycle(k) \/ Deliver(k) \/ Bridge(k)
           \/ Materialize(k) \/ Intake(k)
    \/ NextDay
    \/ \E s \in Schedule, status \in Statuses : PolicyChanges(s, status)

\* The programs that follow the delivery are run again and again, and now
\* and then one is not killed.
Fairness ==
    /\ WF_vars(Bridge(3))
    /\ WF_vars(Materialize(3))
    /\ WF_vars(Intake(2))

Spec == Init /\ [][Next]_vars /\ Fairness

-----------------------------------------------------------------------------
(* Properties.                                                              *)

Handled == [keys : SUBSET Key, notices : SUBSET Event, alerts : SUBSET Skip]

\* Every file holds rows of its kind or was never written.
TypeOK ==
    /\ today \in Day /\ policy \in [Schedule -> Statuses]
    /\ cycle \in Output \cup {NoFile}
    /\ queue \subseteq Key /\ outbox \subseteq Event /\ alerts \subseteq Skip
    /\ snapshot \in [blocked : BOOLEAN] \cup {NoFile}
    /\ requests \subseteq Key
    /\ gate \in [ready : BOOLEAN] \cup {NoFile}
    /\ records \subseteq Key
    /\ dependency \in [ready : BOOLEAN, seen : SUBSET Key] \cup {NoFile}
    /\ work \subseteq Key
    /\ handled \in [Program -> Handled]
    /\ deaths \in 0..MaxDeaths
    /\ overrun \in BOOLEAN /\ shown \subseteq Skip

\* Whatever a program has ticked off in its state file is in the file of the
\* next one, or still waits in the output of the cycle: a death between two
\* writes, and the run that follows it, lose no execution.
NothingIsDropped ==
    /\ overrun \/ handled["cycle"].keys \subseteq
           queue \cup (IF cycle = NoFile THEN {} ELSE cycle.executions)
    /\ handled["deliver"].keys \subseteq queue
    /\ handled["bridge"].keys \subseteq requests
    /\ handled["materialize"].keys \subseteq records
    /\ handled["intake"].keys \subseteq work

\* The dependency gate is ready only when every request it saw is an audit
\* record, also when the materialization before it died half-way.
ReadyIsMaterialized ==
    dependency # NoFile /\ dependency.ready =>
        dependency.seen \subseteq records

\* An alert in the alert file has blocked a readiness snapshot, or the
\* delivery that wrote it died and will block one when it is run again.
AlertsAreShown ==
    ~overrun =>
        alerts \subseteq shown \cup (IF cycle = NoFile THEN {} ELSE cycle.skips)

\* Every execution that ever reaches the queue is in the end a work item,
\* whichever program dies on the way.
QueuedBecomesWork == <>[](queue \subseteq work)
=============================================================================
