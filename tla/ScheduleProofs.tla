---------------------------- MODULE ScheduleProofs ----------------------------
(* What holds of ScheduleChain for every set of schedules, every interval    *)
(* and lead time, and any number of deaths.                                  *)
EXTENDS ScheduleChain, TLAPS

-----------------------------------------------------------------------------
(* Types.                                                                   *)

\* A due date is a natural number.
LEMMA NextDueIsNat == ASSUME TypeOK PROVE NextDue \in Nat
<1> DEFINE n == IF today = 0 THEN 1 ELSE (today + Interval - 1) \div Interval
<1>1. today \in Nat /\ Interval \in Nat /\ Interval > 0
    BY ChainAssumption, SMT DEF TypeOK, Day
<1>2. n \in Nat
    <2>1. CASE today = 0
        BY <2>1
    <2>2. CASE today # 0
        <3>1. today + Interval - 1 \in Nat
            BY <1>1, <2>2, SMT
        <3>2. \A a, b \in Nat : b > 0 => a \div b \in Nat
            BY SMT
        <3> QED
            BY <1>1, <2>2, <3>1, <3>2
    <2> QED
        BY <2>1, <2>2
<1>3. \A a, b \in Nat : a * b \in Nat
    BY SMT
<1> QED
    BY <1>1, <1>2, <1>3 DEF NextDue

\* Executions, events and skips are of their kinds.
LEMMA CycleTypes ==
    ASSUME TypeOK
    PROVE  Executions \subseteq Key /\ Reminders \cup SkipEvents \subseteq Event
           /\ Skips \subseteq Skip
<1>1. today \in Day /\ Day \subseteq Nat /\ MaxDay \in Nat /\ NextDue \in Nat
    BY NextDueIsNat, ChainAssumption DEF TypeOK, Day
<1>2. Executions \subseteq Key
    BY <1>1 DEF Executions, Due, Key
<1>3. Reminders \subseteq Event
    BY <1>1, SMT DEF Reminders, Event, Day
<1>4. \A s \in Schedule : SkipOf(s) \in Skip
    <2> TAKE s \in Schedule
    <2>1. policy[s] \in PolicyStatus
        BY StatusAssumption DEF TypeOK
    <2>2. NoDue \in Day \cup {NoDue} /\ (NextDue <= MaxDay => NextDue \in Day)
        BY <1>1, SMT DEF Day
    <2>3. CASE ~Periodic(s)
        <3>1. policy[s] \in Reason /\ SkipOf(s) =
                  [schedule |-> s, reason |-> policy[s], due |-> NoDue]
            BY <2>1, <2>3 DEF SkipOf, Periodic, Reason
        <3> QED
            BY <2>2, <3>1 DEF Skip
    <2>4. CASE Periodic(s) /\ today = NextDue
        <3>1. SkipOf(s) = [schedule |-> s, reason |-> "STALE_EVIDENCE", due |-> NextDue]
            BY <2>4 DEF SkipOf
        <3> QED
            BY <1>1, <2>4, <3>1 DEF Skip, Reason, PolicyStatus
    <2>5. CASE Periodic(s) /\ today # NextDue
        <3>1. SkipOf(s) = [schedule |-> s, reason |-> "NOT_DUE",
                           due |-> IF NextDue <= MaxDay THEN NextDue ELSE NoDue]
            BY <2>5 DEF SkipOf
        <3> QED
            BY <2>2, <3>1 DEF Skip, Reason
    <2> QED
        BY <2>3, <2>4, <2>5
<1>5. Skips \subseteq Skip
    BY <1>4 DEF Skips
<1>6. SkipEvents \subseteq Event
    <2> SUFFICES ASSUME NEW k \in Skips,
                        k.reason \in {"STALE_EVIDENCE", "INVALID_CONFIGURATION"}
                 PROVE  [schedule |-> k.schedule, kind |-> k.reason,
                         target |-> IF k.due = NoDue THEN today ELSE k.due] \in Event
        BY DEF SkipEvents
    <2>1. k \in Skip
        BY <1>5
    <2> QED
        BY <1>1, <2>1 DEF Skip, Event
<1> QED
    BY <1>2, <1>3, <1>5, <1>6

-----------------------------------------------------------------------------

\* What a program has handled stays of its type when one state changes.
LEMMA HandledType ==
    ASSUME handled \in [Program -> Handled],
           NEW p \in Program, NEW k, NEW n, NEW state \in Handled, Runs(p, k, n, state)
    PROVE  handled' \in [Program -> Handled]
    BY DEF Runs, Written

\* The record of a program with more keys in it.
LEMMA Tick ==
    ASSUME NEW old \in Handled, NEW keys
    PROVE  [old EXCEPT !.keys = @ \cup keys]
              = [keys |-> old.keys \cup keys, notices |-> old.notices, alerts |-> old.alerts]
<1>1. PICK x, y, z : old = [keys |-> x, notices |-> y, alerts |-> z]
    BY DEF Handled
<1> QED
    BY <1>1

LEMMA InitTypes == ASSUME Init PROVE TypeOK
<1>1. today \in Day /\ deaths \in 0..MaxDeaths
    BY ChainAssumption, SMT DEF Init, Day
<1>2. handled \in [Program -> Handled]
    BY DEF Init, NothingHandled, Handled
<1> QED
    BY <1>1, <1>2 DEF Init, TypeOK

LEMMA CycleKeepsTypes ==
    ASSUME TypeOK, NEW k \in 0..5, Cycle(k) PROVE TypeOK'
<1> DEFINE old == handled["cycle"]
           state == [keys |-> old.keys \cup Executions,
                     notices |-> old.notices \cup Reminders \cup SkipEvents,
                     alerts |-> old.alerts]
           out == [executions |-> Executions \ old.keys,
                   events |-> (Reminders \cup SkipEvents) \ old.notices,
                   skips |-> Skips]
<1>1. old \in Handled
    BY DEF TypeOK, Program
<1>2. Runs("cycle", k, 2, state)
    BY DEF Cycle
<1>3. state \in Handled /\ out \in Output
    BY <1>1, CycleTypes DEF Handled, Output
<1>4. handled' \in [Program -> Handled]
    BY <1>2, <1>3, HandledType DEF TypeOK, Program
<1>5. cycle' \in Output \cup {NoFile}
    BY <1>3 DEF Cycle, Written, TypeOK
<1>6. deaths' \in 0..MaxDeaths
    BY <1>2, ChainAssumption, SMT DEF Runs, TypeOK
<1>7. overrun' \in BOOLEAN
    BY DEF Cycle, TypeOK
<1> QED
    BY <1>4, <1>5, <1>6, <1>7
    DEF Cycle, TypeOK, delivered, bridged, materialized

LEMMA DeliverKeepsTypes ==
    ASSUME TypeOK, NEW k \in 0..5, Deliver(k) PROVE TypeOK'
<1> DEFINE old == handled["deliver"]
           new == AlertsOf(cycle.skips) \ old.alerts
           state == [keys |-> old.keys \cup cycle.executions,
                     notices |-> old.notices \cup cycle.events,
                     alerts |-> old.alerts \cup new]
<1>1. old \in Handled /\ cycle \in Output
    BY DEF TypeOK, Program, Deliver
<1>2. Runs("deliver", k, 5, state)
    BY DEF Deliver
<1>3. cycle.executions \subseteq Key /\ cycle.events \subseteq Event /\ new \subseteq Skip
    BY <1>1 DEF Output, AlertsOf
<1>4. state \in Handled
    BY <1>1, <1>3 DEF Handled
<1>5. handled' \in [Program -> Handled]
    BY <1>2, <1>4, HandledType DEF TypeOK, Program
<1>6. deaths' \in 0..MaxDeaths
    BY <1>2, ChainAssumption, SMT DEF Runs, TypeOK
<1>7. queue' \subseteq Key /\ outbox' \subseteq Event /\ alerts' \subseteq Skip
    BY <1>3 DEF Deliver, Written, TypeOK
<1>8. snapshot' \in [blocked : BOOLEAN] \cup {NoFile}
    BY DEF Deliver, Written, TypeOK, Blocked
<1>9. shown' \subseteq Skip
    BY <1>3 DEF Deliver, TypeOK
<1> QED
    BY <1>5, <1>6, <1>7, <1>8, <1>9 DEF Deliver, TypeOK, bridged, materialized

LEMMA BridgeKeepsTypes ==
    ASSUME TypeOK, NEW k \in 0..5, Bridge(k) PROVE TypeOK'
<1> DEFINE old == handled["bridge"]
<1>1. old \in Handled /\ queue \subseteq Key
    BY DEF TypeOK, Program
<1>2. [old EXCEPT !.keys = @ \cup queue] \in Handled
    BY <1>1, Tick DEF Handled
<1>3. Runs("bridge", k, 3, [old EXCEPT !.keys = @ \cup queue])
    BY DEF Bridge
<1>4. handled' \in [Program -> Handled]
    BY <1>2, <1>3, HandledType DEF TypeOK, Program
<1>5. deaths' \in 0..MaxDeaths
    BY <1>3, ChainAssumption, SMT DEF Runs, TypeOK
<1>6. requests' \subseteq Key
    BY <1>1 DEF Bridge, Written, TypeOK
<1>7. gate' \in [ready : BOOLEAN] \cup {NoFile}
    <2>1. (snapshot = NoFile \/ ~snapshot.blocked) \in BOOLEAN
        OBVIOUS
    <2> QED
        BY <2>1 DEF Bridge, Written, TypeOK
<1> QED
    BY <1>4, <1>5, <1>6, <1>7 DEF Bridge, TypeOK, delivered, materialized, history

LEMMA MaterializeKeepsTypes ==
    ASSUME TypeOK, NEW k \in 0..5, Materialize(k) PROVE TypeOK'
<1> DEFINE old == handled["materialize"]
           now == gate # NoFile /\ gate.ready /\ Unresolved(old) = {}
<1>1. old \in Handled /\ requests \subseteq Key
    BY DEF TypeOK, Program
<1>2. [old EXCEPT !.keys = @ \cup requests] \in Handled
    BY <1>1, Tick DEF Handled
<1>3. Runs("materialize", k, 3, [old EXCEPT !.keys = @ \cup requests])
    BY DEF Materialize
<1>4. handled' \in [Program -> Handled]
    BY <1>2, <1>3, HandledType DEF TypeOK, Program
<1>5. deaths' \in 0..MaxDeaths
    BY <1>3, ChainAssumption, SMT DEF Runs, TypeOK
<1>6. records' \subseteq Key
    BY <1>1 DEF Materialize, Written, TypeOK, Created
<1>7. dependency' \in [ready : BOOLEAN, seen : SUBSET Key] \cup {NoFile}
    <2>1. now \in BOOLEAN
        OBVIOUS
    <2>2. dependency' = dependency \/ dependency' = [ready |-> now, seen |-> requests]
        BY DEF Materialize, Written
    <2> HIDE DEF now
    <2> QED
        BY <1>1, <2>1, <2>2 DEF TypeOK
<1> QED
    BY <1>4, <1>5, <1>6, <1>7 DEF Materialize, TypeOK, delivered, bridged, history

LEMMA IntakeKeepsTypes ==
    ASSUME TypeOK, NEW k \in 0..5, Intake(k) PROVE TypeOK'
<1> DEFINE old == handled["intake"]
<1>1. old \in Handled /\ records \subseteq Key
    BY DEF TypeOK, Program
<1>2. [old EXCEPT !.keys = @ \cup records] \in Handled
    BY <1>1, Tick DEF Handled
<1>3. Runs("intake", k, 2, [old EXCEPT !.keys = @ \cup records])
    BY DEF Intake
<1>4. handled' \in [Program -> Handled]
    BY <1>2, <1>3, HandledType DEF TypeOK, Program
<1>5. deaths' \in 0..MaxDeaths
    BY <1>3, ChainAssumption, SMT DEF Runs, TypeOK
<1>6. work' \subseteq Key
    BY <1>1 DEF Intake, Written, TypeOK
<1> QED
    BY <1>4, <1>5, <1>6 DEF Intake, TypeOK, delivered, bridged, materialized, history

\* The days pass and policies change within their types; every file holds rows
\* of its kind or was never written, for any schedules and any deaths.
THEOREM TypesHold == Spec => []TypeOK
<1>1. Init => TypeOK
    BY InitTypes
<1>2. TypeOK /\ [Next]_vars => TypeOK'
    <2> SUFFICES ASSUME TypeOK, [Next]_vars PROVE TypeOK'
        OBVIOUS
    <2>1. ASSUME NEW k \in 0..5, Cycle(k) \/ Deliver(k) \/ Bridge(k)
                                  \/ Materialize(k) \/ Intake(k)
          PROVE  TypeOK'
        BY <2>1, CycleKeepsTypes, DeliverKeepsTypes, BridgeKeepsTypes,
           MaterializeKeepsTypes, IntakeKeepsTypes
    <2>2. CASE NextDay
        <3>1. today' \in Day
            BY <2>2, ChainAssumption, SMT DEF NextDay, TypeOK, Day
        <3> QED
            BY <2>2, <3>1 DEF NextDay, TypeOK, delivered, bridged, materialized, history
    <2>3. ASSUME NEW s \in Schedule, NEW status \in Statuses, PolicyChanges(s, status)
          PROVE  TypeOK'
        BY <2>3 DEF PolicyChanges, TypeOK, delivered, bridged, materialized, history
    <2>4. CASE UNCHANGED vars
        BY <2>4 DEF vars, TypeOK, delivered, bridged, materialized, history
    <2> QED
        BY <2>1, <2>2, <2>3, <2>4 DEF Next
<1> QED
    BY <1>1, <1>2, PTL DEF Spec

-----------------------------------------------------------------------------
(* Nothing that was ticked off is lost.                                     *)

\* What is left of the output of the last cycle.
Waiting == IF cycle = NoFile THEN {} ELSE cycle.executions

\* A cycle keeps what it has ticked off in its output, or finds it delivered.
LEMMA CycleDropsNothing ==
    ASSUME TypeOK, NothingIsDropped, NEW k \in 0..5, Cycle(k) PROVE NothingIsDropped'
<1> DEFINE old == handled["cycle"]
           state == [keys |-> old.keys \cup Executions,
                     notices |-> old.notices \cup Reminders \cup SkipEvents,
                     alerts |-> old.alerts]
           out == [executions |-> Executions \ old.keys,
                   events |-> (Reminders \cup SkipEvents) \ old.notices,
                   skips |-> Skips]
<1>1. Runs("cycle", k, 2, state) /\ cycle' = Written(1, k, cycle, out)
    BY DEF Cycle
<1>2. /\ \A q \in Program \ {"cycle"} : handled'[q] = handled[q]
      /\ k \in 0..2
      /\ handled'["cycle"] = IF k = 2 THEN state ELSE old
    <2> HIDE DEF state
    <2>1. k \in 0..2 /\ (2 <= k <=> k = 2)
        BY <1>1, SMT DEF Runs
    <2> QED
        BY <1>1, <2>1 DEF Runs, Written, TypeOK, Program
<1>3. out # NoFile
    <2>1. out \in Output
        BY CycleTypes DEF Output, TypeOK
    <2> QED
        BY <2>1, NoFileIsNone
<1>4. overrun' \/ handled'["cycle"].keys \subseteq queue' \cup Waiting'
    <2>1. SUFFICES ASSUME ~overrun' PROVE handled'["cycle"].keys \subseteq queue \cup Waiting'
        BY DEF Cycle, delivered
    <2>2. old.keys \subseteq queue \cup Waiting
        BY <2>1 DEF Cycle, NothingIsDropped, Waiting, TypeOK
    <2>3. CASE k = 0
        <3>1. cycle' = cycle
            BY <1>1, <2>3, SMT DEF Written
        <3> QED
            BY <1>2, <2>2, <2>3, <3>1 DEF Waiting
    <2>4. CASE k # 0
        <3>1. cycle' = out
            BY <1>1, <1>2, <2>4, SMT DEF Written
        <3>2. Waiting' = Executions \ old.keys
            BY <1>3, <3>1 DEF Waiting
        <3>3. old.keys \subseteq queue \cup Waiting'
            <4>1. CASE cycle' = cycle
                BY <2>2, <4>1 DEF Waiting
            <4>2. CASE Delivered(cycle)
                BY <2>2, <4>2 DEF Delivered, Waiting, NothingIsDropped
            <4> QED
                BY <2>1, <4>1, <4>2 DEF Cycle
        <3>4. handled'["cycle"].keys \subseteq old.keys \cup Executions
            BY <1>2
        <3> QED
            BY <3>2, <3>3, <3>4
    <2> QED
        BY <2>3, <2>4
<1> QED
    BY <1>2, <1>4 DEF Cycle, NothingIsDropped, Waiting, Program,
       delivered, bridged, materialized

\* A delivery queues what it ticks off before it does so.
LEMMA DeliverDropsNothing ==
    ASSUME TypeOK, NothingIsDropped, NEW k \in 0..5, Deliver(k) PROVE NothingIsDropped'
<1> DEFINE old == handled["deliver"]
           new == AlertsOf(cycle.skips) \ old.alerts
           state == [keys |-> old.keys \cup cycle.executions,
                     notices |-> old.notices \cup cycle.events,
                     alerts |-> old.alerts \cup new]
<1>1. Runs("deliver", k, 5, state)
    BY DEF Deliver
<1>2. /\ \A q \in Program \ {"deliver"} : handled'[q] = handled[q]
      /\ k \in 0..5
      /\ handled'["deliver"] = IF k = 5 THEN state ELSE old
    <2> HIDE DEF state
    <2>1. k \in 0..5 /\ (5 <= k <=> k = 5)
        BY <1>1, SMT DEF Runs
    <2> QED
        BY <1>1, <2>1 DEF Runs, Written, TypeOK, Program
<1>3. queue \subseteq queue' /\ (k = 5 => cycle.executions \ old.keys \subseteq queue')
    BY <1>2, SMT DEF Deliver, Written
<1>4. handled'["deliver"].keys \subseteq queue'
    BY <1>2, <1>3 DEF NothingIsDropped
<1> QED
    BY <1>2, <1>3, <1>4 DEF Deliver, NothingIsDropped, Program, bridged, materialized

\* The bridge writes its requests before it ticks off the queue.
LEMMA BridgeDropsNothing ==
    ASSUME TypeOK, NothingIsDropped, NEW k \in 0..5, Bridge(k) PROVE NothingIsDropped'
<1> DEFINE old == handled["bridge"]
           state == [old EXCEPT !.keys = @ \cup queue]
<1>1. Runs("bridge", k, 3, state) /\ old \in Handled
    BY DEF Bridge, TypeOK, Program
<1>2. /\ \A q \in Program \ {"bridge"} : handled'[q] = handled[q]
      /\ k \in 0..3
      /\ handled'["bridge"] = IF k = 3 THEN state ELSE old
    <2> HIDE DEF state
    <2>1. k \in 0..3 /\ (3 <= k <=> k = 3)
        BY <1>1, SMT DEF Runs
    <2> QED
        BY <1>1, <2>1 DEF Runs, Written, TypeOK, Program
<1>3. state.keys = old.keys \cup queue
    BY <1>1, Tick
<1>4. requests \subseteq requests' /\ (k = 3 => queue \ old.keys \subseteq requests')
    BY <1>2, SMT DEF Bridge, Written
<1>5. handled'["bridge"].keys \subseteq requests'
    BY <1>2, <1>3, <1>4 DEF NothingIsDropped
<1> QED
    BY <1>2, <1>4, <1>5 DEF Bridge, NothingIsDropped, Program,
       delivered, materialized, history

\* So does the materialization with its records,
LEMMA MaterializeDropsNothing ==
    ASSUME TypeOK, NothingIsDropped, NEW k \in 0..5, Materialize(k) PROVE NothingIsDropped'
<1> DEFINE old == handled["materialize"]
           state == [old EXCEPT !.keys = @ \cup requests]
<1>1. Runs("materialize", k, 3, state) /\ old \in Handled
    BY DEF Materialize, TypeOK, Program
<1>2. /\ \A q \in Program \ {"materialize"} : handled'[q] = handled[q]
      /\ k \in 0..3
      /\ handled'["materialize"] = IF k = 3 THEN state ELSE old
    <2> HIDE DEF state
    <2>1. k \in 0..3 /\ (3 <= k <=> k = 3)
        BY <1>1, SMT DEF Runs
    <2> QED
        BY <1>1, <2>1 DEF Runs, Written, TypeOK, Program
<1>3. state.keys = old.keys \cup requests
    BY <1>1, Tick
<1>4. records \subseteq records' /\ (k = 3 => Created(old) \subseteq records')
    BY <1>2, SMT DEF Materialize, Written
<1>5. requests \subseteq old.keys \cup records \cup Created(old)
    BY DEF Created
<1>6. handled'["materialize"].keys \subseteq records'
    BY <1>2, <1>3, <1>4, <1>5 DEF NothingIsDropped
<1> QED
    BY <1>2, <1>4, <1>6 DEF Materialize, NothingIsDropped, Program,
       delivered, bridged, history

\* and the intake with its work items.
LEMMA IntakeDropsNothing ==
    ASSUME TypeOK, NothingIsDropped, NEW k \in 0..5, Intake(k) PROVE NothingIsDropped'
<1> DEFINE old == handled["intake"]
           state == [old EXCEPT !.keys = @ \cup records]
<1>1. Runs("intake", k, 2, state) /\ old \in Handled
    BY DEF Intake, TypeOK, Program
<1>2. /\ \A q \in Program \ {"intake"} : handled'[q] = handled[q]
      /\ k \in 0..2
      /\ handled'["intake"] = IF k = 2 THEN state ELSE old
    <2> HIDE DEF state
    <2>1. k \in 0..2 /\ (2 <= k <=> k = 2)
        BY <1>1, SMT DEF Runs
    <2> QED
        BY <1>1, <2>1 DEF Runs, Written, TypeOK, Program
<1>3. state.keys = old.keys \cup records
    BY <1>1, Tick
<1>4. work \subseteq work' /\ (k = 2 => {r \in records : r \notin old.keys} \subseteq work')
    BY <1>2, SMT DEF Intake, Written
<1>5. handled'["intake"].keys \subseteq work'
    BY <1>2, <1>3, <1>4 DEF NothingIsDropped
<1> QED
    BY <1>2, <1>4, <1>5 DEF Intake, NothingIsDropped, Program,
       delivered, bridged, materialized, history

\* Whatever a program has ticked off is in the file of the next one, however
\* often the programs run and wherever they die.
THEOREM NothingDropped == Spec => []NothingIsDropped
<1>1. Init => NothingIsDropped
    BY DEF Init, NothingIsDropped, NothingHandled, Program
<1>2. TypeOK /\ NothingIsDropped /\ [Next]_vars => NothingIsDropped'
    <2> SUFFICES ASSUME TypeOK, NothingIsDropped, [Next]_vars PROVE NothingIsDropped'
        OBVIOUS
    <2>1. ASSUME NEW k \in 0..5, Cycle(k) \/ Deliver(k) \/ Bridge(k)
                                  \/ Materialize(k) \/ Intake(k)
          PROVE  NothingIsDropped'
        BY <2>1, CycleDropsNothing, DeliverDropsNothing, BridgeDropsNothing,
           MaterializeDropsNothing, IntakeDropsNothing
    <2>2. CASE UNCHANGED <<cycle, delivered, bridged, materialized, work, handled, history>>
        BY <2>2 DEF NothingIsDropped, delivered, bridged, materialized, history
    <2> QED
        BY <2>1, <2>2 DEF Next, NextDay, PolicyChanges, vars
<1> QED
    BY <1>1, <1>2, TypesHold, PTL DEF Spec

-----------------------------------------------------------------------------
(* The two gates.                                                           *)

\* A materialization that declares itself ready has a record for each request.
LEMMA MaterializeCoversReady ==
    ASSUME NothingIsDropped, ReadyIsMaterialized, NEW k \in 0..5, Materialize(k)
    PROVE  ReadyIsMaterialized'
<1> DEFINE old == handled["materialize"]
           now == gate # NoFile /\ gate.ready /\ Unresolved(old) = {}
<1>1. records \subseteq records'
    BY DEF Materialize, Written
<1>2. CASE dependency' = dependency
    BY <1>1, <1>2 DEF ReadyIsMaterialized
<1>3. CASE dependency' # dependency
    <2>1. dependency' = [ready |-> now, seen |-> requests] /\ 2 <= k
        BY <1>3 DEF Materialize, Written
    <2>2. records' = records \cup Created(old)
        BY <2>1, SMT DEF Materialize, Written
    <2>3. Unresolved(old) = {} => requests \subseteq records \cup Created(old)
        BY DEF Unresolved, NothingIsDropped
    <2> QED
        BY <2>1, <2>2, <2>3 DEF ReadyIsMaterialized
<1> QED
    BY <1>2, <1>3

\* The dependency gate is ready only when every request it saw is an audit
\* record, however often the materialization dies and is run again.
THEOREM ReadyMaterialized == Spec => []ReadyIsMaterialized
<1>1. Init => ReadyIsMaterialized
    BY DEF Init, ReadyIsMaterialized
<1>2. NothingIsDropped /\ ReadyIsMaterialized /\ [Next]_vars => ReadyIsMaterialized'
    <2> SUFFICES ASSUME NothingIsDropped, ReadyIsMaterialized, [Next]_vars
                 PROVE  ReadyIsMaterialized'
        OBVIOUS
    <2>1. ASSUME NEW k \in 0..5, Materialize(k) PROVE ReadyIsMaterialized'
        BY <2>1, MaterializeCoversReady
    <2>2. CASE UNCHANGED materialized
        BY <2>2 DEF ReadyIsMaterialized, materialized
    <2>3. ASSUME NEW k \in 0..5, Cycle(k) \/ Deliver(k) \/ Bridge(k) \/ Intake(k)
          PROVE  UNCHANGED materialized
        BY <2>3 DEF Cycle, Deliver, Bridge, Intake, materialized
    <2>4. NextDay \/ UNCHANGED vars => UNCHANGED materialized
        BY DEF NextDay, vars, materialized
    <2>5. ASSUME NEW s \in Schedule, NEW status \in Statuses, PolicyChanges(s, status)
          PROVE  UNCHANGED materialized
        BY <2>5 DEF PolicyChanges, materialized
    <2> QED
        BY <2>1, <2>2, <2>3, <2>4, <2>5 DEF Next
<1> QED
    BY <1>1, <1>2, NothingDropped, PTL DEF Spec

\* Alerts are alerts, and those that are ticked off were shown.
AlertsInv ==
    /\ AlertsOf(alerts) = alerts
    /\ handled["deliver"].alerts \subseteq shown
    /\ AlertsAreShown

\* A cycle replaces an output whose alerts were shown, or is an overrun.
LEMMA CycleKeepsAlerts ==
    ASSUME TypeOK, AlertsInv, NEW k \in 0..5, Cycle(k) PROVE AlertsInv'
<1>1. handled'["deliver"] = handled["deliver"]
    BY DEF Cycle, Runs, TypeOK, Program
<1>2. AlertsAreShown'
    <2> SUFFICES ASSUME ~overrun'
                 PROVE  alerts \subseteq shown \cup
                            (IF cycle' = NoFile THEN {} ELSE cycle'.skips)
        BY DEF Cycle, AlertsAreShown, delivered
    <2>1. alerts \subseteq shown \cup (IF cycle = NoFile THEN {} ELSE cycle.skips)
        BY DEF Cycle, AlertsInv, AlertsAreShown, TypeOK
    <2>2. CASE cycle' = cycle
        BY <2>1, <2>2
    <2>3. CASE Delivered(cycle)
        <3>1. cycle # NoFile => AlertsOf(cycle.skips) \subseteq shown
            BY <2>3 DEF Delivered, AlertsInv
        <3>2. alerts \subseteq shown
            BY <2>1, <3>1 DEF AlertsInv, AlertsOf
        <3> QED
            BY <3>2
    <2> QED
        BY <2>2, <2>3 DEF Cycle
<1> QED
    BY <1>1, <1>2 DEF AlertsInv, Cycle, delivered, AlertsOf

\* A delivery ticks off the alerts that blocked its snapshot.
LEMMA DeliverKeepsAlerts ==
    ASSUME TypeOK, AlertsInv, NEW k \in 0..5, Deliver(k) PROVE AlertsInv'
<1> DEFINE old == handled["deliver"]
           new == AlertsOf(cycle.skips) \ old.alerts
           state == [keys |-> old.keys \cup cycle.executions,
                     notices |-> old.notices \cup cycle.events,
                     alerts |-> old.alerts \cup new]
<1>1. Runs("deliver", k, 5, state)
    BY DEF Deliver
<1>2. handled'["deliver"] = IF k = 5 THEN state ELSE old
    <2> HIDE DEF state
    <2>1. k \in 0..5 /\ (5 <= k <=> k = 5)
        BY <1>1, SMT DEF Runs
    <2> QED
        BY <1>1, <2>1 DEF Runs, Written, TypeOK, Program
<1>3. shown \subseteq shown' /\ (k = 5 => new \subseteq shown')
    BY SMT DEF Deliver, Blocked
<1>4. handled'["deliver"].alerts \subseteq shown'
    BY <1>2, <1>3 DEF AlertsInv
<1>5. alerts' \in {alerts, alerts \cup new}
    BY DEF Deliver, Written
<1>6. AlertsOf(new) = new /\ new \subseteq cycle.skips
    BY DEF AlertsOf
<1>7. AlertsOf(alerts)' = alerts'
    BY <1>5, <1>6 DEF AlertsInv, AlertsOf
<1>8. AlertsAreShown'
    BY <1>3, <1>5, <1>6 DEF AlertsInv, AlertsAreShown, Deliver
<1> QED
    BY <1>4, <1>7, <1>8 DEF AlertsInv

\* An alert on file has blocked a readiness snapshot or will block one when its
\* delivery is run again, wherever it died.
THEOREM AlertsShown == Spec => []AlertsAreShown
<1>1. Init => AlertsInv
    BY DEF Init, AlertsInv, AlertsAreShown, AlertsOf, NothingHandled, Program
<1>2. TypeOK /\ AlertsInv /\ [Next]_vars => AlertsInv'
    <2> SUFFICES ASSUME TypeOK, AlertsInv, [Next]_vars PROVE AlertsInv'
        OBVIOUS
    <2>1. ASSUME NEW k \in 0..5, Cycle(k) \/ Deliver(k) PROVE AlertsInv'
        BY <2>1, CycleKeepsAlerts, DeliverKeepsAlerts
    <2> DEFINE Same == UNCHANGED <<cycle, alerts, overrun, shown>>
                       /\ handled'["deliver"] = handled["deliver"]
    <2>2. ASSUME Same PROVE AlertsInv'
        BY <2>2 DEF AlertsInv, AlertsAreShown, AlertsOf
    <2>3. ASSUME NEW k \in 0..5, Bridge(k) \/ Materialize(k) \/ Intake(k) PROVE Same
        BY <2>3 DEF Bridge, Materialize, Intake, Runs, TypeOK, Program, delivered, history
    <2>4. NextDay \/ UNCHANGED vars => Same
        BY DEF NextDay, vars, delivered, history
    <2>5. ASSUME NEW s \in Schedule, NEW status \in Statuses, PolicyChanges(s, status)
          PROVE  Same
        BY <2>5 DEF PolicyChanges, delivered, history
    <2> QED
        BY <2>1, <2>2, <2>3, <2>4, <2>5 DEF Next
<1>3. AlertsInv => AlertsAreShown
    BY DEF AlertsInv
<1> QED
    BY <1>1, <1>2, <1>3, TypesHold, PTL DEF Spec

=============================================================================
