---------------------------- MODULE WebhookProofs ----------------------------
(* What holds of WebhookDelivery for any threads, webhooks and limits.  A    *)
(* thread writes back rows it has read long ago; these are still true of the *)
(* attempts there were, because attempts are only ever added.  The invariant *)
(* therefore says of every row in the memory of a thread what it says of     *)
(* the rows in the files.                                                    *)
EXTENDS WebhookDelivery, FiniteSetTheorems, TLAPS

SendRow == [delivery : Nat, ok : BOOLEAN]

SendsOK ==
    /\ sends \in Seq(SendRow)
    /\ \A n \in DOMAIN sends : sends[n].delivery \in DOMAIN deliveries

\* A row that is true of delivery d.
GoodRow(d, row) ==
    /\ d \in DOMAIN deliveries /\ row \in DeliveryRow
    /\ row.hook = deliveries[d].hook /\ row.hook \in known
    /\ row.attempts <= Cardinality(SendsOf(d))
    /\ row.status = "SENT" => \E n \in SendsOf(d) : sends[n].ok

\* A row that is true of webhook h.
GoodCounter(h, row) ==
    /\ h \in known /\ row \in HookRow
    /\ row.failures <= Cardinality(FailedTo(h))
    /\ row.status = "DISABLED" /\ h \notin switchedOff =>
           Cardinality(FailedTo(h)) >= MaxFailures

Target == {"ACTIVE", "DISABLED", None}

Reading == [at : {"list"}, todo : SUBSET Hook, active : SUBSET Hook, test : Hook \cup {None}]
Adding  == [at : {"queue"}, todo : SUBSET Hook, test : Hook \cup {None}, mine : Nat]
Holding == [at : {"hook", "refuse"}, delivery : Nat, row : DeliveryRow]
Trying  == [at : {"send", "save", "count"}, delivery : Nat, row : DeliveryRow,
            counter : HookRow]
Saying  == [at : {"log"}, delivery : Nat, row : DeliveryRow]

\* What a thread can be doing, and what holds of what it has read.
TaskOK(m) ==
    \/ m = Idle
    \/ /\ m \in [at : {"update"}, hook : Hook, to : Target, row : HookRow]
       /\ GoodCounter(m.hook, m.row)
    \/ m \in Reading /\ m.todo \subseteq known /\ m.active \subseteq known
    \/ m \in Adding /\ m.todo \subseteq known /\ m.mine \in {0} \cup DOMAIN deliveries
    \/ m \in [at : {"dispatch"}, delivery : Nat] /\ m.delivery \in DOMAIN deliveries
    \/ m \in Holding /\ GoodRow(m.delivery, m.row)
    \/ /\ m \in Trying
       /\ GoodRow(m.delivery, m.row) /\ GoodCounter(m.row.hook, m.counter)
       /\ m.at # "send" => m.row.status # "QUEUED"
    \/ m \in Saying /\ m.row.status # "QUEUED" /\ m.delivery \in DOMAIN deliveries
    \/ m \in [at : {"append"}, rows : Seq(LogRow)]

IInv ==
    /\ TypeOK
    /\ SendsOK
    /\ \A d \in DOMAIN deliveries : GoodRow(d, deliveries[d])
    /\ \A h \in DOMAIN hooks : GoodCounter(h, hooks[h])
    /\ task = [t \in Thread |-> task[t]]
    /\ \A t \in Thread : TaskOK(task[t])

\* What every step does: attempts, deliveries, ids and decisions are added.
Grows ==
    /\ \A d \in DOMAIN deliveries :
           d \in DOMAIN deliveries' /\ deliveries'[d].hook = deliveries[d].hook
    /\ \A n \in DOMAIN sends : n \in DOMAIN sends' /\ sends'[n] = sends[n]
    /\ known \subseteq known' /\ switchedOff \subseteq switchedOff'

-----------------------------------------------------------------------------
(* Counting.                                                                *)

\* The attempts of a delivery, and those that failed at a webhook, can be
\* counted.
LEMMA Counts ==
    ASSUME SendsOK, NEW x
    PROVE  /\ IsFiniteSet(SendsOf(x)) /\ Cardinality(SendsOf(x)) \in Nat
           /\ IsFiniteSet(FailedTo(x)) /\ Cardinality(FailedTo(x)) \in Nat
<1>1. DOMAIN sends = 1..Len(sends) /\ Len(sends) \in Nat
    BY DEF SendsOK
<1>2. IsFiniteSet(DOMAIN sends)
    BY <1>1, FS_Interval
<1>3. SendsOf(x) \subseteq DOMAIN sends /\ FailedTo(x) \subseteq DOMAIN sends
    BY DEF SendsOf, FailedTo, SendsTo
<1> QED
    BY <1>2, <1>3, FS_Subset, FS_CardinalityType

\* There are never fewer of them.
LEMMA CountsGrow ==
    ASSUME SendsOK, SendsOK', Grows, NEW x
    PROVE  /\ SendsOf(x) \subseteq SendsOf(x)'
           /\ FailedTo(x) \subseteq FailedTo(x)'
           /\ Cardinality(SendsOf(x)) <= Cardinality(SendsOf(x)')
           /\ Cardinality(FailedTo(x)) <= Cardinality(FailedTo(x)')
           /\ IsFiniteSet(FailedTo(x)')
           /\ Cardinality(SendsOf(x)') \in Nat /\ Cardinality(FailedTo(x)') \in Nat
<1>1. SendsOf(x) \subseteq SendsOf(x)'
    BY DEF SendsOf, Grows
<1>2. FailedTo(x) \subseteq FailedTo(x)'
    <2> SUFFICES ASSUME NEW n \in FailedTo(x) PROVE n \in FailedTo(x)'
        OBVIOUS
    <2>1. n \in DOMAIN sends /\ ~sends[n].ok /\ deliveries[sends[n].delivery].hook = x
        BY DEF FailedTo, SendsTo
    <2>2. sends[n].delivery \in DOMAIN deliveries
        BY <2>1 DEF SendsOK
    <2>3. n \in DOMAIN sends' /\ sends'[n] = sends[n]
          /\ deliveries'[sends[n].delivery].hook = x
        BY <2>1, <2>2 DEF Grows
    <2>4. n \in SendsTo(x)'
        BY <2>3 DEF SendsTo
    <2> QED
        BY <2>1, <2>3, <2>4 DEF FailedTo
<1>3. IsFiniteSet(SendsOf(x)') /\ IsFiniteSet(FailedTo(x)')
    <2>1. DOMAIN sends' = 1..Len(sends') /\ Len(sends') \in Nat
        BY DEF SendsOK
    <2>2. IsFiniteSet(DOMAIN sends')
        BY <2>1, FS_Interval
    <2>3. SendsOf(x)' \subseteq DOMAIN sends' /\ FailedTo(x)' \subseteq DOMAIN sends'
        BY DEF SendsOf, FailedTo, SendsTo
    <2> QED
        BY <2>2, <2>3, FS_Subset
<1> QED
    BY <1>1, <1>2, <1>3, FS_Subset, FS_CardinalityType

-----------------------------------------------------------------------------
(* What was true stays true.                                                *)

LEMMA RowKept ==
    ASSUME SendsOK, SendsOK', Grows, NEW CONSTANT d, NEW CONSTANT row, GoodRow(d, row)
    PROVE  GoodRow(d, row)'
<1>1. /\ SendsOf(d) \subseteq SendsOf(d)' /\ Cardinality(SendsOf(d)) <= Cardinality(SendsOf(d)')
      /\ Cardinality(SendsOf(d)) \in Nat /\ Cardinality(SendsOf(d)') \in Nat
    BY CountsGrow, Counts
<1>2. d \in DOMAIN deliveries' /\ row.hook = deliveries'[d].hook /\ row.hook \in known'
    BY DEF GoodRow, Grows
<1>3. row \in DeliveryRow /\ row.attempts \in Nat
    BY DEF GoodRow, DeliveryRow
<1>4. row.attempts <= Cardinality(SendsOf(d)')
    BY <1>1, <1>3, SMT DEF GoodRow
<1>5. row.status = "SENT" => \E n \in SendsOf(d)' : sends'[n].ok
    <2> SUFFICES ASSUME row.status = "SENT" PROVE \E n \in SendsOf(d)' : sends'[n].ok
        OBVIOUS
    <2>1. PICK n \in SendsOf(d) : sends[n].ok
        BY DEF GoodRow
    <2>2. sends'[n] = sends[n]
        BY <2>1 DEF SendsOf, Grows
    <2> QED
        BY <1>1, <2>1, <2>2
<1> QED
    BY <1>2, <1>3, <1>4, <1>5 DEF GoodRow

LEMMA CounterKept ==
    ASSUME SendsOK, SendsOK', Grows, NEW CONSTANT h, NEW CONSTANT row, GoodCounter(h, row)
    PROVE  GoodCounter(h, row)'
<1>1. /\ Cardinality(FailedTo(h)) <= Cardinality(FailedTo(h)')
      /\ Cardinality(FailedTo(h)) \in Nat /\ Cardinality(FailedTo(h)') \in Nat
    BY CountsGrow, Counts
<1>2. row \in HookRow /\ row.failures \in Nat /\ h \in known'
    BY DEF GoodCounter, HookRow, Grows
<1>3. row.failures <= Cardinality(FailedTo(h)')
    BY <1>1, <1>2, SMT DEF GoodCounter
<1>4. row.status = "DISABLED" /\ h \notin switchedOff' =>
          Cardinality(FailedTo(h)') >= MaxFailures
    BY <1>1, WebhookAssumption, SMT DEF GoodCounter, Grows
<1> QED
    BY <1>2, <1>3, <1>4 DEF GoodCounter

LEMMA TaskKept ==
    ASSUME SendsOK, SendsOK', Grows, NEW CONSTANT m, TaskOK(m)
    PROVE  TaskOK(m)'
<1>1. \A d \in DOMAIN deliveries : d \in DOMAIN deliveries'
    BY DEF Grows
<1>2. known \subseteq known'
    BY DEF Grows
<1>3. GoodRow(m.delivery, m.row) => GoodRow(m.delivery, m.row)'
    BY RowKept
<1>4. \A h : GoodCounter(h, m.row) => GoodCounter(h, m.row)'
    BY CounterKept
<1>5. \A h : GoodCounter(h, m.counter) => GoodCounter(h, m.counter)'
    BY CounterKept
<1> QED
    BY <1>1, <1>2, <1>3, <1>4, <1>5 DEF TaskOK

-----------------------------------------------------------------------------
(* The invariant after a step, from what the step changes.                  *)

LEMMA Preserved ==
    ASSUME IInv, Grows, SendsOK',
           known' \subseteq Hook, DOMAIN hooks' \subseteq known',
           deliveries' \in Seq(DeliveryRow), log' \in Seq(LogRow),
           \A d \in DOMAIN deliveries' :
               \/ d \in DOMAIN deliveries /\ deliveries'[d] = deliveries[d]
               \/ GoodRow(d, deliveries[d])',
           \A h \in DOMAIN hooks' :
               \/ h \in DOMAIN hooks /\ hooks'[h] = hooks[h]
               \/ GoodCounter(h, hooks[h])',
           task' = [t \in Thread |-> task'[t]],
           \A t \in Thread : task'[t] = task[t] \/ TaskOK(task[t])'
    PROVE  IInv'
<1>1. SendsOK
    BY DEF IInv
<1>2. \A d \in DOMAIN deliveries' : GoodRow(d, deliveries[d])'
    <2> SUFFICES ASSUME NEW d \in DOMAIN deliveries',
                        d \in DOMAIN deliveries, deliveries'[d] = deliveries[d]
                 PROVE  GoodRow(d, deliveries[d])'
        OBVIOUS
    <2>1. PICK row : row = deliveries[d]
        OBVIOUS
    <2>2. GoodRow(d, row)
        BY <2>1 DEF IInv
    <2>3. GoodRow(d, row)'
        BY <1>1, <2>2, RowKept
    <2> QED
        BY <2>1, <2>3 DEF GoodRow
<1>3. \A h \in DOMAIN hooks' : GoodCounter(h, hooks[h])'
    <2> SUFFICES ASSUME NEW h \in DOMAIN hooks',
                        h \in DOMAIN hooks, hooks'[h] = hooks[h]
                 PROVE  GoodCounter(h, hooks[h])'
        OBVIOUS
    <2>1. PICK row : row = hooks[h]
        OBVIOUS
    <2>2. GoodCounter(h, row)
        BY <2>1 DEF IInv
    <2>3. GoodCounter(h, row)'
        BY <1>1, <2>2, CounterKept
    <2> QED
        BY <2>1, <2>3 DEF GoodCounter
<1>4. \A t \in Thread : TaskOK(task[t])'
    <2> SUFFICES ASSUME NEW t \in Thread, task'[t] = task[t]
                 PROVE  TaskOK(task[t])'
        OBVIOUS
    <2>1. PICK m : m = task[t]
        OBVIOUS
    <2>2. TaskOK(m)
        BY <2>1 DEF IInv
    <2>3. TaskOK(m)'
        BY <1>1, <2>2, TaskKept
    <2>4. m = task'[t]
        BY <2>1
    <2> QED
        BY <2>3, <2>4 DEF TaskOK
<1>5. TypeOK'
    BY <1>3 DEF TypeOK, GoodCounter
<1> QED
    BY <1>2, <1>3, <1>4, <1>5 DEF IInv

\* A thread goes on: the others keep what they do.
LEMMA Went ==
    ASSUME IInv, NEW t \in Thread, NEW step, Go(t, step)
    PROVE  /\ task' = [u \in Thread |-> task'[u]]
           /\ task'[t] = step /\ \A u \in Thread \ {t} : task'[u] = task[u]
    BY DEF IInv, Go

\* A step that adds no attempt, delivery, id or decision.
LEMMA Still ==
    ASSUME IInv, DOMAIN deliveries' = DOMAIN deliveries,
           \A d \in DOMAIN deliveries : deliveries'[d].hook = deliveries[d].hook,
           sends' = sends, known \subseteq known', switchedOff \subseteq switchedOff'
    PROVE  Grows /\ SendsOK'
    BY DEF IInv, Grows, SendsOK

\* What a thread has read follows from where it is.
LEMMA TaskAt ==
    ASSUME NEW m, TaskOK(m)
    PROVE  /\ m.at = "update" =>
                  /\ m \in [at : {"update"}, hook : Hook, to : Target, row : HookRow]
                  /\ GoodCounter(m.hook, m.row)
           /\ m.at = "list" => m \in Reading /\ m.todo \subseteq known /\ m.active \subseteq known
           /\ m.at = "queue" =>
                  m \in Adding /\ m.todo \subseteq known /\ m.mine \in {0} \cup DOMAIN deliveries
           /\ m.at = "dispatch" =>
                  m \in [at : {"dispatch"}, delivery : Nat] /\ m.delivery \in DOMAIN deliveries
           /\ m.at \in {"hook", "refuse"} => m \in Holding /\ GoodRow(m.delivery, m.row)
           /\ m.at \in {"send", "save", "count"} =>
                  /\ m \in Trying
                  /\ GoodRow(m.delivery, m.row) /\ GoodCounter(m.row.hook, m.counter)
                  /\ m.at # "send" => m.row.status # "QUEUED"
           /\ m.at = "log" =>
                  m \in Saying /\ m.row.status # "QUEUED" /\ m.delivery \in DOMAIN deliveries
           /\ m.at = "append" => m \in [at : {"append"}, rows : Seq(LogRow)]
    BY DEF TaskOK, Idle, Reading, Adding, Holding, Trying, Saying

\* A step that only turns what a thread does into m.
LEMMA OnlyTask ==
    ASSUME IInv, NEW t \in Thread, NEW CONSTANT m, Go(t, m), TaskOK(m),
           UNCHANGED <<hooks, deliveries, log, known, sends, switchedOff>>
    PROVE  IInv'
<1>1. Grows /\ SendsOK'
    BY Still
<1>2. SendsOK
    BY DEF IInv
<1>3. TaskOK(m)'
    BY <1>1, <1>2, TaskKept
<1>4. /\ task' = [u \in Thread |-> task'[u]]
      /\ \A u \in Thread : task'[u] = task[u] \/ task'[u] = m
    BY Went
<1>5. \A u \in Thread : task'[u] = m => TaskOK(task[u])'
    BY <1>3 DEF TaskOK
<1>6. known' \subseteq Hook /\ DOMAIN hooks' \subseteq known'
      /\ deliveries' \in Seq(DeliveryRow) /\ log' \in Seq(LogRow)
    BY DEF IInv, TypeOK
<1> QED
    BY <1>1, <1>4, <1>5, <1>6, Preserved

LEMMA SetHookIs ==
    ASSUME NEW h, NEW row, SetHook(h, row)
    PROVE  /\ DOMAIN hooks' = DOMAIN hooks \cup {h} /\ hooks'[h] = row
           /\ \A x \in DOMAIN hooks \ {h} : hooks'[x] = hooks[x]
    BY DEF SetHook

\* A step that writes row as webhook h, and turns what t does into m.
LEMMA HookWritten ==
    ASSUME IInv, NEW t \in Thread, NEW CONSTANT m, Go(t, m), TaskOK(m),
           NEW CONSTANT h, NEW CONSTANT row, SetHook(h, row), GoodCounter(h, row)',
           UNCHANGED <<deliveries, log, known, sends>>, switchedOff \subseteq switchedOff'
    PROVE  IInv'
<1>1. Grows /\ SendsOK'
    BY Still
<1>2. SendsOK
    BY DEF IInv
<1>3. TaskOK(m)'
    BY <1>1, <1>2, TaskKept
<1>4. /\ task' = [u \in Thread |-> task'[u]]
      /\ \A u \in Thread : task'[u] = task[u] \/ task'[u] = m
    BY Went
<1>5. \A u \in Thread : task'[u] = m => TaskOK(task[u])'
    BY <1>3 DEF TaskOK
<1>6. /\ DOMAIN hooks' = DOMAIN hooks \cup {h} /\ hooks'[h] = row
      /\ \A x \in DOMAIN hooks \ {h} : hooks'[x] = hooks[x]
    BY SetHookIs
<1>7. \A x \in DOMAIN hooks' :
          \/ x \in DOMAIN hooks /\ hooks'[x] = hooks[x]
          \/ GoodCounter(x, hooks[x])'
    BY <1>6 DEF GoodCounter
<1>8. h \in known'
    BY DEF GoodCounter
<1>9. known' \subseteq Hook /\ DOMAIN hooks' \subseteq known'
      /\ deliveries' \in Seq(DeliveryRow) /\ log' \in Seq(LogRow)
    BY <1>6, <1>8 DEF IInv, TypeOK
<1> QED
    BY <1>1, <1>4, <1>5, <1>7, <1>9, Preserved

\* A step that writes row as delivery d, and turns what t does into m.
LEMMA RowWritten ==
    ASSUME IInv, NEW t \in Thread, NEW CONSTANT m, Go(t, m), TaskOK(m),
           NEW CONSTANT d, NEW CONSTANT row, GoodRow(d, row),
           deliveries' = [deliveries EXCEPT ![d] = row],
           UNCHANGED <<hooks, log, known, sends, switchedOff>>
    PROVE  IInv'
<1>1. /\ DOMAIN deliveries' = DOMAIN deliveries /\ deliveries'[d] = row
      /\ \A x \in DOMAIN deliveries \ {d} : deliveries'[x] = deliveries[x]
      /\ deliveries' \in Seq(DeliveryRow)
      /\ \A x \in DOMAIN deliveries : deliveries'[x].hook = deliveries[x].hook
    <2>1. deliveries \in Seq(DeliveryRow) /\ d \in DOMAIN deliveries /\ row \in DeliveryRow
          /\ row.hook = deliveries[d].hook
        BY DEF IInv, TypeOK, GoodRow
    <2> QED
        BY <2>1
<1>2. Grows /\ SendsOK'
    BY <1>1, Still
<1>3. SendsOK
    BY DEF IInv
<1>4. TaskOK(m)'
    BY <1>2, <1>3, TaskKept
<1>5. /\ task' = [u \in Thread |-> task'[u]]
      /\ \A u \in Thread : task'[u] = task[u] \/ task'[u] = m
    BY Went
<1>6. \A u \in Thread : task'[u] = m => TaskOK(task[u])'
    BY <1>4 DEF TaskOK
<1>7. GoodRow(d, row)'
    BY <1>2, <1>3, RowKept
<1>8. \A x \in DOMAIN deliveries' :
          \/ x \in DOMAIN deliveries /\ deliveries'[x] = deliveries[x]
          \/ GoodRow(x, deliveries[x])'
    BY <1>1, <1>7 DEF GoodRow
<1>9. known' \subseteq Hook /\ DOMAIN hooks' \subseteq known' /\ log' \in Seq(LogRow)
    BY DEF IInv, TypeOK
<1> QED
    BY <1>1, <1>2, <1>5, <1>6, <1>8, <1>9, Preserved

-----------------------------------------------------------------------------
(* The steps.                                                               *)

\* The step of a thread that only reads.
LEMMA Reads ==
    ASSUME IInv, NEW t \in Thread,
           BeginUpdate(t) \/ BeginQueue(t) \/ ReadListed(t) \/ BeginDispatch(t)
           \/ ReadDelivery(t) \/ ReadHook(t) \/ ReadLog(t)
    PROVE  IInv'
<1>1. /\ TaskOK(task[t]) /\ DOMAIN hooks \subseteq known /\ known \subseteq Hook
      /\ deliveries \in Seq(DeliveryRow) /\ log \in Seq(LogRow)
      /\ \A h \in DOMAIN hooks : GoodCounter(h, hooks[h]) /\ hooks[h] \in HookRow
      /\ \A d \in DOMAIN deliveries : GoodRow(d, deliveries[d]) /\ d \in Nat
    <2>1. deliveries \in Seq(DeliveryRow)
        BY DEF IInv, TypeOK
    <2>2. \A d \in DOMAIN deliveries : d \in Nat
        BY <2>1
    <2> QED
        BY <2>1, <2>2 DEF IInv, TypeOK
<1>2. UNCHANGED <<hooks, deliveries, log, known, sends, switchedOff>>
    BY DEF BeginUpdate, BeginQueue, ReadListed, BeginDispatch, ReadDelivery,
           ReadHook, ReadLog, Ghosts
<1>3. SUFFICES \E m : Go(t, m) /\ TaskOK(m)
    BY <1>2, OnlyTask
<1>4. CASE BeginUpdate(t)
    <2>1. PICK h \in DOMAIN hooks, to \in Target :
              Go(t, [at |-> "update", hook |-> h, to |-> to, row |-> hooks[h]])
        BY <1>4 DEF BeginUpdate, Take, Target
    <2> DEFINE m == [at |-> "update", hook |-> h, to |-> to, row |-> hooks[h]]
    <2>2. TaskOK(m)
        <3>1. m \in [at : {"update"}, hook : Hook, to : Target, row : HookRow]
            BY <1>1
        <3>2. GoodCounter(m.hook, m.row)
            BY <1>1
        <3> HIDE DEF m
        <3> QED
            BY <3>1, <3>2 DEF TaskOK
    <2> QED
        BY <2>1, <2>2
<1>5. CASE BeginQueue(t)
    <2>1. PICK test \in DOMAIN hooks \cup {None} :
              Go(t, [at |-> "list", todo |-> DOMAIN hooks, active |-> {}, test |-> test])
        BY <1>5 DEF BeginQueue, Take
    <2>2. TaskOK([at |-> "list", todo |-> DOMAIN hooks, active |-> {}, test |-> test])
        BY <1>1 DEF TaskOK, Reading
    <2> QED
        BY <2>1, <2>2
<1>6. CASE ReadListed(t)
    <2>1. /\ task[t] \in Reading /\ task[t].at = "list"
          /\ task[t].todo \subseteq known /\ task[t].active \subseteq known
        BY <1>1, <1>6, TaskAt DEF ReadListed
    <2>2. CASE task[t].todo = {}
        <3>1. Go(t, Idle) /\ TaskOK(Idle)
            BY <1>6, <2>2 DEF ReadListed, TaskOK
        <3> QED
            BY <3>1
    <2>3. CASE task[t].todo # {}
        <3>1. PICK h \in task[t].todo, active \in SUBSET known :
                  Go(t, IF task[t].todo = {h} THEN Queueing(active, task[t].test, 0)
                        ELSE [task[t] EXCEPT !.todo = @ \ {h}, !.active = active])
            <4>1. PICK h \in task[t].todo :
                  LET active == IF h \in DOMAIN hooks /\ hooks[h].status = "ACTIVE"
                                THEN task[t].active \cup {h} ELSE task[t].active
                  IN  Go(t, IF task[t].todo = {h} THEN Queueing(active, task[t].test, 0)
                            ELSE [task[t] EXCEPT !.todo = @ \ {h}, !.active = active])
                BY <1>6, <2>3 DEF ReadListed
            <4> DEFINE active == IF h \in DOMAIN hooks /\ hooks[h].status = "ACTIVE"
                                 THEN task[t].active \cup {h} ELSE task[t].active
            <4>2. active \in SUBSET known
                BY <2>1
            <4>3. Go(t, IF task[t].todo = {h} THEN Queueing(active, task[t].test, 0)
                        ELSE [task[t] EXCEPT !.todo = @ \ {h}, !.active = active])
                BY <4>1
            <4> HIDE DEF active
            <4> QED
                BY <4>2, <4>3
        <3>2. TaskOK(Queueing(active, task[t].test, 0))
            <4>1. CASE active = {}
                BY <4>1 DEF Queueing, Dispatching, TaskOK
            <4>2. CASE active # {}
                <5> DEFINE m == [at |-> "queue", todo |-> active, test |-> task[t].test, mine |-> 0]
                <5>1. Queueing(active, task[t].test, 0) = m
                    BY <4>2 DEF Queueing
                <5>2. m \in Adding /\ m.todo \subseteq known /\ m.mine = 0
                    BY <1>1, <2>1 DEF Adding, Reading
                <5> HIDE DEF m
                <5> QED
                    BY <5>1, <5>2 DEF TaskOK
            <4> QED
                BY <4>1, <4>2
        <3> DEFINE m == [task[t] EXCEPT !.todo = @ \ {h}, !.active = active]
        <3>3. TaskOK(m)
            <4>1. m \in Reading /\ m.todo \subseteq known /\ m.active \subseteq known
                BY <1>1, <2>1 DEF Reading
            <4> HIDE DEF m
            <4> QED
                BY <4>1 DEF TaskOK
        <3> QED
            BY <3>1, <3>2, <3>3
    <2> QED
        BY <2>2, <2>3
<1>7. CASE BeginDispatch(t)
    <2>1. PICK d \in DOMAIN deliveries : Go(t, [at |-> "dispatch", delivery |-> d])
        BY <1>7 DEF BeginDispatch, Take
    <2>2. TaskOK([at |-> "dispatch", delivery |-> d])
        BY <1>1 DEF TaskOK
    <2> QED
        BY <2>1, <2>2
<1>8. CASE ReadDelivery(t)
    <2> DEFINE m == [at |-> "hook", delivery |-> task[t].delivery,
                     row |-> deliveries[task[t].delivery]]
    <2>1. Go(t, m) /\ task[t].delivery \in DOMAIN deliveries
        BY <1>1, <1>8, TaskAt DEF ReadDelivery
    <2>2. m.delivery = task[t].delivery /\ m.row = deliveries[task[t].delivery]
        OBVIOUS
    <2>3. GoodRow(m.delivery, m.row)
        BY <1>1, <2>1, <2>2
    <2>4. m \in Holding
        BY <1>1, <2>1 DEF Holding, GoodRow
    <2> HIDE DEF m
    <2>5. TaskOK(m)
        BY <2>3, <2>4 DEF TaskOK
    <2> QED
        BY <2>1, <2>5
<1>9. CASE ReadHook(t)
    <2> DEFINE h == task[t].row.hook
    <2>1. task[t] \in Holding /\ GoodRow(task[t].delivery, task[t].row) /\ task[t].at = "hook"
        BY <1>1, <1>9, TaskAt DEF ReadHook
    <2>2. CASE h \notin DOMAIN hooks
        <3>1. Go(t, Idle) /\ TaskOK(Idle)
            BY <1>9, <2>2 DEF ReadHook, TaskOK
        <3> QED
            BY <3>1
    <2>3. CASE h \in DOMAIN hooks /\ hooks[h].status # "ACTIVE"
        <3> DEFINE m == [task[t] EXCEPT !.at = "refuse"]
        <3>1. Go(t, m)
            BY <1>9, <2>3 DEF ReadHook
        <3>2. m \in Holding /\ m.delivery = task[t].delivery /\ m.row = task[t].row
            BY <2>1 DEF Holding
        <3> HIDE DEF m
        <3>3. TaskOK(m)
            BY <2>1, <3>2 DEF TaskOK
        <3> QED
            BY <3>1, <3>3
    <2>4. CASE h \in DOMAIN hooks /\ hooks[h].status = "ACTIVE"
        <3> DEFINE m == [at |-> "send", delivery |-> task[t].delivery,
                         row |-> task[t].row, counter |-> hooks[h]]
        <3>1. Go(t, m)
            BY <1>9, <2>4 DEF ReadHook
        <3>2. m \in Trying
            BY <1>1, <2>1, <2>4 DEF Holding, Trying
        <3>3. /\ m.at = "send" /\ m.delivery = task[t].delivery /\ m.row = task[t].row
              /\ m.counter = hooks[h] /\ m.row.hook = h
            OBVIOUS
        <3>4. GoodRow(m.delivery, m.row) /\ GoodCounter(m.row.hook, m.counter)
            BY <1>1, <2>1, <2>4, <3>3
        <3>5. m.at = "send"
            BY <3>3
        <3> HIDE DEF m
        <3>6. TaskOK(m)
            BY <3>2, <3>4, <3>5 DEF TaskOK
        <3> QED
            BY <3>1, <3>6
    <2> QED
        BY <2>2, <2>3, <2>4
<1>10. CASE ReadLog(t)
    <2> DEFINE m == [at |-> "append", rows |-> Logged(log, task[t].delivery, task[t].row)]
    <2>1. task[t] \in Saying /\ task[t].row.status # "QUEUED"
        BY <1>1, <1>10, TaskAt DEF ReadLog
    <2>2. [delivery |-> task[t].delivery, status |-> task[t].row.status] \in LogRow
        BY <2>1 DEF Saying, DeliveryRow, LogRow
    <2>3. Logged(log, task[t].delivery, task[t].row) \in Seq(LogRow)
        BY <1>1, <2>2 DEF Logged
    <2>4. m \in [at : {"append"}, rows : Seq(LogRow)]
        BY <2>3
    <2>5. Go(t, m)
        BY <1>10 DEF ReadLog
    <2> HIDE DEF m
    <2>6. TaskOK(m)
        BY <2>4 DEF TaskOK
    <2> QED
        BY <2>5, <2>6
<1> QED
    BY <1>4, <1>5, <1>6, <1>7, <1>8, <1>9, <1>10

\* What a user decides about a webhook is true of it.
LEMMA UpdateStep == ASSUME IInv, NEW t \in Thread, EndUpdate(t) PROVE IInv'
<1>1. PICK h, row : h = task[t].hook /\ row = Updated(task[t].row, task[t].to)
    OBVIOUS
<1>2. /\ task[t] \in [at : {"update"}, hook : Hook, to : Target, row : HookRow]
      /\ GoodCounter(h, task[t].row)
    <2>1. task[t].at = "update" /\ TaskOK(task[t])
        BY DEF EndUpdate, IInv
    <2> QED
        BY <1>1, <2>1, TaskAt
<1>3. /\ row.failures = task[t].row.failures /\ row \in HookRow
      /\ row.status = IF task[t].to = None THEN task[t].row.status ELSE task[t].to
    <2>1. task[t].row \in HookRow /\ task[t].to \in Target
        BY <1>2
    <2> QED
        BY <1>1, <2>1 DEF Updated, HookRow, Target
<1>4. /\ Go(t, Idle) /\ SetHook(h, row)
      /\ UNCHANGED <<deliveries, log, known, sends>> /\ switchedOff \subseteq switchedOff'
      /\ task[t].to = "DISABLED" => h \in switchedOff'
    BY <1>1 DEF EndUpdate
<1>5. GoodCounter(h, row)'
    <2>1. PICK old : old = task[t].row
        OBVIOUS
    <2>2. GoodCounter(h, old)'
        BY <1>2, <1>4, <2>1, Still, CounterKept DEF IInv
    <2>3. h \in known' /\ old.failures <= Cardinality(FailedTo(h)')
          /\ (old.status = "DISABLED" /\ h \notin switchedOff' =>
                  Cardinality(FailedTo(h)') >= MaxFailures)
        BY <2>2 DEF GoodCounter
    <2> QED
        BY <1>2, <1>3, <1>4, <2>1, <2>3 DEF GoodCounter, Target
<1>6. TaskOK(Idle)
    BY DEF TaskOK
<1> QED
    BY <1>4, <1>5, <1>6, HookWritten

LEMMA RefuseStep == ASSUME IInv, NEW t \in Thread, Refuse(t) PROVE IInv'
<1>1. PICK d, row : d = task[t].delivery /\ row = Refused(task[t].row)
    OBVIOUS
<1>2. GoodRow(d, task[t].row)
    <2>1. task[t].at = "refuse" /\ TaskOK(task[t])
        BY DEF Refuse, IInv
    <2> QED
        BY <1>1, <2>1, TaskAt
<1>3. /\ row \in DeliveryRow /\ row.status = "FAILED"
      /\ row.hook = task[t].row.hook /\ row.attempts = task[t].row.attempts
    BY <1>1, <1>2 DEF GoodRow, Refused, DeliveryRow
<1>4. GoodRow(d, row)
    BY <1>2, <1>3 DEF GoodRow
<1>5. /\ Go(t, Idle) /\ deliveries' = [deliveries EXCEPT ![d] = row]
      /\ UNCHANGED <<hooks, log, known, sends, switchedOff>>
    BY <1>1 DEF Refuse, Ghosts
<1> QED
    BY <1>4, <1>5, RowWritten DEF TaskOK

LEMMA SaveDeliveryStep == ASSUME IInv, NEW t \in Thread, SaveDelivery(t) PROVE IInv'
<1>1. PICK d, row, m : /\ d = task[t].delivery /\ row = task[t].row
                       /\ m = [task[t] EXCEPT !.at = "count"]
    OBVIOUS
<1>2. /\ task[t] \in Trying /\ task[t].at = "save" /\ task[t].row.status # "QUEUED"
      /\ GoodRow(d, row) /\ GoodCounter(task[t].row.hook, task[t].counter)
    <2>1. task[t].at = "save" /\ TaskOK(task[t])
        BY DEF SaveDelivery, IInv
    <2> QED
        BY <1>1, <2>1, TaskAt
<1>3. /\ m \in Trying /\ m.delivery = d /\ m.row = row /\ m.counter = task[t].counter
      /\ m.row.status # "QUEUED"
    BY <1>1, <1>2 DEF Trying
<1>4. TaskOK(m)
    BY <1>1, <1>2, <1>3 DEF TaskOK
<1>5. /\ Go(t, m) /\ deliveries' = [deliveries EXCEPT ![d] = row]
      /\ UNCHANGED <<hooks, log, known, sends, switchedOff>>
    BY <1>1 DEF SaveDelivery, Ghosts
<1> QED
    BY <1>2, <1>4, <1>5, RowWritten

LEMMA SaveHookStep == ASSUME IInv, NEW t \in Thread, SaveHook(t) PROVE IInv'
<1>1. PICK h, row, m : /\ h = task[t].row.hook /\ row = task[t].counter
                       /\ m = [at |-> "log", delivery |-> task[t].delivery,
                               row |-> task[t].row]
    OBVIOUS
<1>2. /\ task[t] \in Trying /\ task[t].at = "count" /\ task[t].row.status # "QUEUED"
      /\ GoodRow(task[t].delivery, task[t].row) /\ GoodCounter(h, row)
    <2>1. task[t].at = "count" /\ TaskOK(task[t])
        BY DEF SaveHook, IInv
    <2> QED
        BY <1>1, <2>1, TaskAt
<1>3. m \in Saying /\ m.row.status # "QUEUED" /\ m.delivery \in DOMAIN deliveries
    BY <1>1, <1>2 DEF Trying, Saying, GoodRow
<1>4. TaskOK(m)
    BY <1>3 DEF TaskOK
<1>5. /\ Go(t, m) /\ SetHook(h, row)
      /\ UNCHANGED <<deliveries, log, known, sends, switchedOff>>
    BY <1>1 DEF SaveHook, Ghosts
<1>6. GoodCounter(h, row)'
    BY <1>2, <1>5, Still, CounterKept DEF IInv
<1> QED
    BY <1>4, <1>5, <1>6, HookWritten

LEMMA SaveLogStep == ASSUME IInv, NEW t \in Thread, SaveLog(t) PROVE IInv'
<1>1. task[t].rows \in Seq(LogRow)
    BY TaskAt DEF SaveLog, IInv
<1>2. /\ Go(t, Idle) /\ log' = task[t].rows
      /\ UNCHANGED <<hooks, deliveries, known, sends, switchedOff>>
    BY DEF SaveLog, Ghosts
<1>3. Grows /\ SendsOK'
    BY <1>2, Still
<1>4. /\ task' = [u \in Thread |-> task'[u]]
      /\ \A u \in Thread : task'[u] = task[u] \/ task'[u] = Idle
    BY <1>2, Went
<1>5. \A u \in Thread : task'[u] = Idle => TaskOK(task[u])'
    BY DEF TaskOK
<1>6. known' \subseteq Hook /\ DOMAIN hooks' \subseteq known'
      /\ deliveries' \in Seq(DeliveryRow) /\ log' \in Seq(LogRow)
    BY <1>1, <1>2 DEF IInv, TypeOK
<1> QED
    BY <1>2, <1>3, <1>4, <1>5, <1>6, Preserved

\* An attempt is counted in what the thread will write and in what there was.
LEMMA SendStep == ASSUME IInv, NEW t \in Thread, Send(t) PROVE IInv'
<1>0. PICK ok \in BOOLEAN :
          /\ sends' = Append(sends, [delivery |-> task[t].delivery, ok |-> ok])
          /\ Go(t, [task[t] EXCEPT !.at = "save", !.row = Attempted(@, ok),
                                  !.counter = Counted(@, ok)])
    BY DEF Send
<1>1. PICK d, row, counter, m :
          /\ d = task[t].delivery /\ row = Attempted(task[t].row, ok)
          /\ counter = Counted(task[t].counter, ok)
          /\ m = [task[t] EXCEPT !.at = "save", !.row = row, !.counter = counter]
          /\ sends' = Append(sends, [delivery |-> d, ok |-> ok]) /\ Go(t, m)
    BY <1>0
<1>2. UNCHANGED <<hooks, deliveries, log, known, switchedOff>>
    BY DEF Send, Ghosts
<1>3. /\ task[t] \in Trying /\ GoodRow(d, task[t].row)
      /\ GoodCounter(task[t].row.hook, task[t].counter)
    <2>1. task[t].at = "send" /\ TaskOK(task[t])
        BY DEF Send, IInv
    <2> QED
        BY <1>1, <2>1, TaskAt
<1>4. SendsOK /\ d \in DOMAIN deliveries /\ d \in Nat /\ Len(sends) \in Nat
    BY <1>3 DEF IInv, GoodRow, TypeOK, SendsOK
<1> DEFINE n == Len(sends) + 1
<1>5. /\ sends' \in Seq(SendRow) /\ Len(sends') = n /\ n \in DOMAIN sends'
      /\ sends'[n] = [delivery |-> d, ok |-> ok] /\ n \notin DOMAIN sends
      /\ \A k \in DOMAIN sends : k \in DOMAIN sends' /\ sends'[k] = sends[k]
      /\ DOMAIN sends' = DOMAIN sends \cup {n}
    <2>1. [delivery |-> d, ok |-> ok] \in SendRow
        BY <1>4 DEF SendRow
    <2> QED
        BY <1>1, <1>4, <2>1 DEF SendsOK
<1>6. Grows /\ SendsOK'
    <2>1. \A k \in DOMAIN sends' : sends'[k].delivery \in DOMAIN deliveries'
        BY <1>2, <1>4, <1>5 DEF SendsOK
    <2> QED
        BY <1>2, <1>5, <2>1 DEF Grows, SendsOK
<1> HIDE DEF n
<1>7. n \in SendsOf(d)' /\ sends'[n].ok = ok
    BY <1>5 DEF SendsOf
<1>8. Cardinality(SendsOf(d)') = Cardinality(SendsOf(d)) + 1
      /\ Cardinality(SendsOf(d)) \in Nat
    <2>1. SendsOf(d)' = SendsOf(d) \cup {n} /\ n \notin SendsOf(d)
        BY <1>5 DEF SendsOf
    <2> QED
        BY <1>4, <2>1, Counts, FS_AddElement
<1>9. GoodRow(d, row)'
    <2>1. /\ row \in DeliveryRow /\ row.hook = task[t].row.hook
          /\ row.attempts = task[t].row.attempts + 1
          /\ row.status = IF ok THEN "SENT" ELSE "FAILED"
        <3>1. PICK old : old = task[t].row
            OBVIOUS
        <3>2. old \in [hook : Hook, status : {"QUEUED", "SENT", "FAILED"}, attempts : Nat]
            BY <1>3, <3>1 DEF GoodRow, DeliveryRow
        <3>3. CASE ok
            <4>1. row = [old EXCEPT !.attempts = @ + 1, !.status = "SENT"]
                BY <1>1, <3>1, <3>3 DEF Attempted
            <4>2. row = [hook |-> old.hook, status |-> "SENT", attempts |-> old.attempts + 1]
                BY <3>2, <4>1
            <4> QED
                BY <3>1, <3>2, <3>3, <4>2 DEF DeliveryRow
        <3>4. CASE ~ok
            <4>1. row = [old EXCEPT !.attempts = @ + 1, !.status = "FAILED"]
                BY <1>1, <3>1, <3>4 DEF Attempted
            <4>2. row = [hook |-> old.hook, status |-> "FAILED", attempts |-> old.attempts + 1]
                BY <3>2, <4>1
            <4> QED
                BY <3>1, <3>2, <3>4, <4>2 DEF DeliveryRow
        <3> QED
            BY <3>3, <3>4
    <2>2. row.attempts <= Cardinality(SendsOf(d)')
        <3>1. task[t].row.attempts \in Nat
            BY <1>3 DEF GoodRow, DeliveryRow
        <3> QED
            BY <1>3, <1>8, <2>1, <3>1 DEF GoodRow
    <2>3. row.status = "SENT" => ok
        BY <2>1
    <2>4. row.status = "SENT" => \E k \in SendsOf(d)' : sends'[k].ok
        BY <1>7, <2>3
    <2> QED
        BY <1>2, <1>3, <2>1, <2>2, <2>4 DEF GoodRow
<1>10. GoodCounter(row.hook, counter)'
    <2>1. PICK h : h = task[t].row.hook
        OBVIOUS
    <2>2. PICK old : old = task[t].counter
        OBVIOUS
    <2>3. row.hook = h /\ deliveries[d].hook = h
        BY <1>1, <1>3, <2>1 DEF GoodRow, Attempted, DeliveryRow
    <2>4. GoodCounter(h, old) /\ old \in HookRow /\ old.failures \in Nat
        BY <1>3, <2>1, <2>2 DEF GoodCounter, HookRow
    <2>5. GoodCounter(h, old)'
        BY <1>4, <1>6, <2>4, CounterKept
    <2>6. Cardinality(FailedTo(h)) \in Nat /\ Cardinality(FailedTo(h)') \in Nat
        BY <1>4, <1>6, Counts, CountsGrow
    <2>7. CASE ok
        <3>1. counter \in HookRow /\ counter.failures = 0 /\ counter.status = old.status
            BY <1>1, <2>2, <2>4, <2>7 DEF Counted, HookRow
        <3> QED
            BY <2>3, <2>5, <2>6, <3>1 DEF GoodCounter
    <2>8. CASE ~ok
        <3>1. /\ counter \in HookRow /\ counter.failures = old.failures + 1
              /\ counter.status = IF old.failures + 1 >= MaxFailures THEN "DISABLED"
                                  ELSE old.status
            <4>1. CASE old.failures + 1 >= MaxFailures
                <5>1. counter = [old EXCEPT !.failures = @ + 1, !.status = "DISABLED"]
                    BY <1>1, <2>2, <2>8, <4>1 DEF Counted
                <5>2. counter = [status |-> "DISABLED", failures |-> old.failures + 1]
                    BY <2>4, <5>1 DEF HookRow
                <5> QED
                    BY <2>4, <4>1, <5>2 DEF HookRow
            <4>2. CASE ~(old.failures + 1 >= MaxFailures)
                <5>1. counter = [old EXCEPT !.failures = @ + 1, !.status = @]
                    BY <1>1, <2>2, <2>8, <4>2 DEF Counted
                <5>2. counter = [status |-> old.status, failures |-> old.failures + 1]
                    BY <2>4, <5>1 DEF HookRow
                <5> QED
                    BY <2>4, <4>2, <5>2 DEF HookRow
            <4> QED
                BY <4>1, <4>2
        <3>2. Cardinality(FailedTo(h)') = Cardinality(FailedTo(h)) + 1
            <4>1. n \in SendsTo(h)' /\ ~sends'[n].ok
                BY <1>2, <1>5, <1>7, <2>3, <2>8 DEF SendsTo
            <4>2. n \in FailedTo(h)' /\ n \notin FailedTo(h)
                BY <1>5, <4>1 DEF FailedTo, SendsTo
            <4>3. FailedTo(h)' \subseteq FailedTo(h) \cup {n}
                BY <1>2, <1>5 DEF FailedTo, SendsTo
            <4>4. FailedTo(h) \subseteq FailedTo(h)'
                BY <1>4, <1>6, CountsGrow
            <4>5. FailedTo(h)' = FailedTo(h) \cup {n}
                BY <4>2, <4>3, <4>4
            <4>6. IsFiniteSet(FailedTo(h))
                BY <1>4, Counts
            <4> QED
                BY <4>2, <4>5, <4>6, FS_AddElement
        <3>3. old.failures + 1 <= Cardinality(FailedTo(h)')
            BY <2>4, <2>6, <3>2 DEF GoodCounter
        <3>4. old.failures + 1 >= MaxFailures => Cardinality(FailedTo(h)') >= MaxFailures
            BY <2>4, <2>6, <3>3, WebhookAssumption
        <3> QED
            BY <2>3, <2>5, <3>1, <3>3, <3>4 DEF GoodCounter
    <2> QED
        BY <2>7, <2>8
<1>11. TaskOK(m)'
    <2>1. row \in DeliveryRow /\ counter \in HookRow /\ row.status # "QUEUED"
        BY <1>1, <1>3, <1>9, <1>10 DEF GoodRow, GoodCounter, Attempted, DeliveryRow
    <2>2. m \in Trying /\ m.delivery = d /\ m.row = row /\ m.counter = counter
        BY <1>1, <1>3, <2>1 DEF Trying
    <2> QED
        BY <1>9, <1>10, <2>1, <2>2 DEF TaskOK
<1>12. /\ task' = [u \in Thread |-> task'[u]]
       /\ \A u \in Thread : task'[u] = task[u] \/ task'[u] = m
    BY <1>1, Went
<1>13. \A u \in Thread : task'[u] = m => TaskOK(task[u])'
    BY <1>11 DEF TaskOK
<1>14. known' \subseteq Hook /\ DOMAIN hooks' \subseteq known'
       /\ deliveries' \in Seq(DeliveryRow) /\ log' \in Seq(LogRow)
    BY <1>2 DEF IInv, TypeOK
<1> QED
    BY <1>2, <1>6, <1>12, <1>13, <1>14, Preserved

\* A new delivery has no attempt to its name yet.
LEMMA QueueOneStep == ASSUME IInv, NEW t \in Thread, QueueOne(t) PROVE IInv'
<1>1. PICK h, m, row :
          /\ h \in task[t].todo
          /\ row = [hook |-> h, status |-> "QUEUED", attempts |-> 0]
          /\ deliveries' = Append(deliveries, row)
          /\ m = Queueing(task[t].todo \ {h}, task[t].test,
                          IF h = task[t].test THEN Len(deliveries) + 1 ELSE task[t].mine)
          /\ Go(t, m)
    BY DEF QueueOne
<1>2. UNCHANGED <<hooks, log, known, sends, switchedOff>>
    BY DEF QueueOne, Ghosts
<1>3. /\ task[t] \in Adding /\ task[t].todo \subseteq known
      /\ task[t].mine \in {0} \cup DOMAIN deliveries
    <2>1. task[t].at = "queue" /\ TaskOK(task[t])
        BY DEF QueueOne, IInv
    <2> QED
        BY <2>1, TaskAt
<1>4. SendsOK /\ deliveries \in Seq(DeliveryRow) /\ known \subseteq Hook
      /\ log \in Seq(LogRow) /\ DOMAIN hooks \subseteq known
    BY DEF IInv, TypeOK
<1>5. row \in DeliveryRow /\ row.hook = h /\ row.status = "QUEUED" /\ row.attempts = 0
      /\ h \in known
    BY <1>1, <1>3, <1>4 DEF DeliveryRow
<1> DEFINE n == Len(deliveries) + 1
<1>6. /\ deliveries' \in Seq(DeliveryRow) /\ n \in DOMAIN deliveries' /\ deliveries'[n] = row
      /\ DOMAIN deliveries' = DOMAIN deliveries \cup {n} /\ n \in Nat
      /\ \A d \in DOMAIN deliveries :
             d \in DOMAIN deliveries' /\ deliveries'[d] = deliveries[d]
    BY <1>1, <1>4, <1>5
<1> HIDE DEF n
<1>7. Grows /\ SendsOK'
    BY <1>2, <1>4, <1>6 DEF Grows, SendsOK
<1>8. PICK new : new = n
    OBVIOUS
<1>9. GoodRow(new, row)'
    <2>1. Cardinality(SendsOf(new)') \in Nat
        BY <1>4, <1>7, CountsGrow
    <2>2. row.attempts <= Cardinality(SendsOf(new)') /\ row.status # "SENT"
        BY <1>5, <2>1
    <2> QED
        BY <1>2, <1>5, <1>6, <1>8, <2>2 DEF GoodRow
<1>10. \A d \in DOMAIN deliveries' :
          \/ d \in DOMAIN deliveries /\ deliveries'[d] = deliveries[d]
          \/ GoodRow(d, deliveries[d])'
    BY <1>6, <1>8, <1>9 DEF GoodRow
<1>11. TaskOK(m)'
    <2>1. PICK mine : mine = IF h = task[t].test THEN n ELSE task[t].mine
        OBVIOUS
    <2>2. mine \in {0} \cup DOMAIN deliveries' /\ mine \in Nat
        BY <1>3, <1>6, <2>1 DEF Adding
    <2>3. m = Queueing(task[t].todo \ {h}, task[t].test, mine)
        BY <1>1, <2>1 DEF n
    <2>4. CASE task[t].todo \ {h} = {}
        <3>1. m = Dispatching(mine)
            BY <2>3, <2>4 DEF Queueing
        <3>2. CASE mine = 0
            BY <3>1, <3>2 DEF Dispatching, TaskOK
        <3>3. CASE mine # 0
            <4>1. m = [at |-> "dispatch", delivery |-> mine]
                BY <3>1, <3>3 DEF Dispatching
            <4>2. m \in [at : {"dispatch"}, delivery : Nat] /\ m.delivery \in DOMAIN deliveries'
                BY <2>2, <3>3, <4>1
            <4> QED
                BY <4>2 DEF TaskOK
        <3> QED
            BY <3>2, <3>3
    <2>5. CASE task[t].todo \ {h} # {}
        <3>1. m = [at |-> "queue", todo |-> task[t].todo \ {h}, test |-> task[t].test,
                   mine |-> mine]
            BY <2>3, <2>5 DEF Queueing
        <3>2. m \in Adding /\ m.todo \subseteq known' /\ m.mine = mine
            BY <1>2, <1>3, <2>2, <3>1 DEF Adding
        <3> QED
            BY <2>2, <3>2 DEF TaskOK
    <2> QED
        BY <2>4, <2>5
<1>12. /\ task' = [u \in Thread |-> task'[u]]
       /\ \A u \in Thread : task'[u] = task[u] \/ task'[u] = m
    BY <1>1, Went
<1>13. \A u \in Thread : task'[u] = m => TaskOK(task[u])'
    BY <1>11 DEF TaskOK
<1>14. known' \subseteq Hook /\ DOMAIN hooks' \subseteq known'
       /\ deliveries' \in Seq(DeliveryRow) /\ log' \in Seq(LogRow)
    BY <1>2, <1>4, <1>6
<1> QED
    BY <1>2, <1>7, <1>10, <1>12, <1>13, <1>14, Preserved

\* A new webhook has no failure to its name yet.
LEMMA CreateStep == ASSUME IInv, Create PROVE IInv'
<1>1. PICK h, row :
          /\ h \in Hook \ known
          /\ row = [status |-> "ACTIVE", failures |-> 0] /\ SetHook(h, row)
          /\ known' = known \cup {h}
    BY DEF Create
<1>2. UNCHANGED <<deliveries, log, task, sends, switchedOff>>
    BY DEF Create
<1>3. SendsOK /\ known \subseteq Hook /\ DOMAIN hooks \subseteq known
    BY DEF IInv, TypeOK
<1>4. Grows /\ SendsOK'
    BY <1>1, <1>2, Still
<1>5. row \in HookRow /\ row.status = "ACTIVE" /\ row.failures = 0 /\ h \in known'
    BY <1>1 DEF HookRow
<1>6. GoodCounter(h, row)'
    <2>1. Cardinality(FailedTo(h)') \in Nat
        BY <1>3, <1>4, CountsGrow
    <2> QED
        BY <1>5, <2>1 DEF GoodCounter
<1>7. /\ DOMAIN hooks' = DOMAIN hooks \cup {h} /\ hooks'[h] = row
      /\ \A x \in DOMAIN hooks \ {h} : hooks'[x] = hooks[x]
    BY <1>1, SetHookIs
<1>8. \A x \in DOMAIN hooks' :
          \/ x \in DOMAIN hooks /\ hooks'[x] = hooks[x]
          \/ GoodCounter(x, hooks[x])'
    BY <1>6, <1>7 DEF GoodCounter
<1>9. known' \subseteq Hook /\ DOMAIN hooks' \subseteq known'
      /\ deliveries' \in Seq(DeliveryRow) /\ log' \in Seq(LogRow)
      /\ task' = [t \in Thread |-> task'[t]]
    BY <1>1, <1>2, <1>3, <1>7 DEF IInv, TypeOK
<1> QED
    BY <1>2, <1>4, <1>8, <1>9, Preserved

LEMMA DeleteStep == ASSUME IInv, Delete PROVE IInv'
<1>1. PICK h \in DOMAIN hooks : hooks' = [x \in DOMAIN hooks \ {h} |-> hooks[x]]
    BY DEF Delete
<1>2. UNCHANGED <<deliveries, log, task, known, sends, switchedOff>>
    BY DEF Delete
<1>3. Grows /\ SendsOK'
    BY <1>2, Still
<1>4. \A x \in DOMAIN hooks' : x \in DOMAIN hooks /\ hooks'[x] = hooks[x]
    BY <1>1
<1>5. known' \subseteq Hook /\ DOMAIN hooks' \subseteq known'
      /\ deliveries' \in Seq(DeliveryRow) /\ log' \in Seq(LogRow)
      /\ task' = [t \in Thread |-> task'[t]]
    BY <1>2, <1>4 DEF IInv, TypeOK
<1> QED
    BY <1>2, <1>3, <1>4, <1>5, Preserved

\* A death forgets what was read.  Nothing is lost that IInv speaks of.
LEMMA DieStep == ASSUME IInv, Die PROVE IInv'
<1>1. UNCHANGED <<hooks, deliveries, log, known, sends, switchedOff>>
      /\ task' = [t \in Thread |-> Idle]
    BY DEF Die
<1>2. Grows /\ SendsOK'
    BY <1>1, Still
<1>3. \A t \in Thread : TaskOK(task[t])'
    BY <1>1 DEF TaskOK
<1>4. known' \subseteq Hook /\ DOMAIN hooks' \subseteq known'
      /\ deliveries' \in Seq(DeliveryRow) /\ log' \in Seq(LogRow)
      /\ task' = [t \in Thread |-> task'[t]]
    BY <1>1 DEF IInv, TypeOK
<1> QED
    BY <1>1, <1>2, <1>3, <1>4, Preserved

LEMMA InitHolds == Init => IInv
<1> SUFFICES ASSUME Init PROVE IInv
    OBVIOUS
<1>1. TypeOK /\ SendsOK
    BY DEF Init, TypeOK, SendsOK
<1>2. \A t \in Thread : TaskOK(task[t])
    BY DEF Init, TaskOK
<1>3. DOMAIN deliveries = {} /\ DOMAIN hooks = {} /\ task = [t \in Thread |-> task[t]]
    BY DEF Init
<1> QED
    BY <1>1, <1>2, <1>3 DEF IInv

LEMMA StepHolds == IInv /\ [Next]_vars => IInv'
<1> SUFFICES ASSUME IInv, [Next]_vars PROVE IInv'
    OBVIOUS
<1>1. CASE Create
    BY <1>1, CreateStep
<1>2. CASE Delete
    BY <1>2, DeleteStep
<1>3. CASE Die
    BY <1>3, DieStep
<1>4. ASSUME NEW t \in Thread,
             \/ BeginUpdate(t) \/ BeginQueue(t) \/ ReadListed(t) \/ BeginDispatch(t)
             \/ ReadDelivery(t) \/ ReadHook(t) \/ ReadLog(t)
      PROVE  IInv'
    BY <1>4, Reads
<1>5. ASSUME NEW t \in Thread, EndUpdate(t) PROVE IInv'
    BY <1>5, UpdateStep
<1>6. ASSUME NEW t \in Thread, QueueOne(t) PROVE IInv'
    BY <1>6, QueueOneStep
<1>7. ASSUME NEW t \in Thread, Refuse(t) PROVE IInv'
    BY <1>7, RefuseStep
<1>8. ASSUME NEW t \in Thread, Send(t) PROVE IInv'
    BY <1>8, SendStep
<1>9. ASSUME NEW t \in Thread, SaveDelivery(t) PROVE IInv'
    BY <1>9, SaveDeliveryStep
<1>10. ASSUME NEW t \in Thread, SaveHook(t) PROVE IInv'
    BY <1>10, SaveHookStep
<1>11. ASSUME NEW t \in Thread, SaveLog(t) PROVE IInv'
    BY <1>11, SaveLogStep
<1>12. CASE UNCHANGED vars
    <2>1. UNCHANGED <<hooks, deliveries, log, task, known, sends, switchedOff>>
        BY <1>12 DEF vars
    <2>2. Grows /\ SendsOK'
        BY <2>1, Still
    <2>3. known' \subseteq Hook /\ DOMAIN hooks' \subseteq known'
          /\ deliveries' \in Seq(DeliveryRow) /\ log' \in Seq(LogRow)
          /\ task' = [t \in Thread |-> task'[t]]
        BY <2>1 DEF IInv, TypeOK
    <2> QED
        BY <2>1, <2>2, <2>3, Preserved
<1> QED
    BY <1>1, <1>2, <1>3, <1>4, <1>5, <1>6, <1>7, <1>8, <1>9, <1>10, <1>11, <1>12 DEF Next

LEMMA Holds == Spec => []IInv
BY InitHolds, StepHolds, PTL DEF Spec

-----------------------------------------------------------------------------

\* The rows of the webhooks, of the deliveries and of the delivery log keep
\* the shapes the models of webhook_delivery_service.py declare.
THEOREM TypesHold == Spec => []TypeOK
<1>1. IInv => TypeOK
    BY DEF IInv
<1> QED
    BY <1>1, Holds, PTL

\* dispatch_webhook_delivery never disables a webhook early: whatever the
\* threads overwrite, one that no user disabled and that reads DISABLED has
\* failed MaxFailures times, and no counter exceeds the failures there were.
THEOREM EarnedDisabling == Spec => []DisablingIsEarned
<1>1. IInv => DisablingIsEarned
    BY DEF IInv, DisablingIsEarned, GoodCounter
<1> QED
    BY <1>1, Holds, PTL

\* A delivery file that reads SENT tells the truth: the receiver accepted an
\* attempt for it, and the file claims no more attempts than there were.
THEOREM SentAccepted == Spec => []SentWasAccepted
<1>1. IInv => SentWasAccepted
    BY DEF IInv, SentWasAccepted, GoodRow
<1> QED
    BY <1>1, Holds, PTL

-----------------------------------------------------------------------------
(* Requests that have never overlapped.  Then one thread is at work at most, *)
(* what it has read is what the files say, and what the files lack is what   *)
(* it is about to write.                                                     *)

\* m is what the only thread at work is doing, or there is none.
Lone(m) ==
    \/ m = Idle /\ Quiet
    \/ \E t \in Thread : /\ task[t] = m /\ m # Idle
                         /\ \A u \in Thread \ {t} : task[u] = Idle

\* Every attempt is logged, but for one per death and the one in hand.
Logs(m) ==
    /\ Len(sends) <=
           Len(log) + deaths + (IF m.at \in {"save", "count", "log", "append"} THEN 1 ELSE 0)
    /\ m.at = "append" => Len(m.rows) = Len(log) + 1

\* What was read of a webhook is what its file says.
Mirrors(m) ==
    /\ m.at = "update" => m.hook \in DOMAIN hooks /\ hooks[m.hook] = m.row
    /\ m.at \in {"send", "save", "count"} =>
           m.row.hook \in DOMAIN hooks /\ hooks[m.row.hook].status = "ACTIVE"
    /\ m.at = "send" => hooks[m.row.hook] = m.counter

\* The counter of every webhook is exact, or about to be written.
Exact(m) ==
    deaths = 0 =>
        \A h \in DOMAIN hooks :
            IF m.at \in {"save", "count"} /\ m.row.hook = h
            THEN m.counter.failures = Cardinality(Streak(h))
            ELSE hooks[h].failures = Cardinality(Streak(h))

Right(m) == Logs(m) /\ Mirrors(m) /\ Exact(m)

CalmInv ==
    /\ deaths \in Nat
    /\ calm => \E m : Lone(m) /\ Right(m)

\* The files alone say it all.
Settled ==
    /\ Len(sends) <= Len(log) + deaths
    /\ deaths = 0 => \A h \in DOMAIN hooks : hooks[h].failures = Cardinality(Streak(h))

\* A task that holds nothing that is still to be written.
Resting == {"idle", "list", "queue", "dispatch", "hook", "refuse"}

LEMMA RestingIsRight ==
    ASSUME IInv, deaths \in Nat, NEW m, m.at \in Resting PROVE Right(m) <=> Settled
<1>1. Len(log) + deaths + 0 = Len(log) + deaths
    BY DEF IInv, TypeOK
<1>2. m.at \notin {"save", "count", "log", "append", "update", "send"}
    BY DEF Resting
<1>3. Logs(m) <=> Len(sends) <= Len(log) + deaths
    BY <1>1, <1>2 DEF Logs
<1>4. Mirrors(m)
    BY <1>2 DEF Mirrors
<1>5. Exact(m) <=> (deaths = 0 => \A h \in DOMAIN hooks : hooks[h].failures = Cardinality(Streak(h)))
    BY <1>2 DEF Exact
<1> QED
    BY <1>3, <1>4, <1>5 DEF Right, Settled

LEMMA RestingWillBeRight ==
    ASSUME log' \in Seq(LogRow), deaths' \in Nat,
           NEW CONSTANT m, m.at \in Resting, Settled'
    PROVE  Right(m)'
<1>1. Len(log') + deaths' + 0 = Len(log') + deaths'
    OBVIOUS
<1>2. m.at \notin {"save", "count", "log", "append", "update", "send"}
    BY DEF Resting
<1>3. Logs(m)'
    BY <1>1, <1>2 DEF Logs, Settled
<1>4. Mirrors(m)'
    BY <1>2 DEF Mirrors
<1>5. Exact(m)'
    BY <1>2 DEF Exact, Settled
<1> QED
    BY <1>3, <1>4, <1>5 DEF Right

\* A thread at work, or any thread when none is.
LEMMA Current ==
    ASSUME CalmInv, calm, NEW t \in Thread, task[t] # Idle \/ Quiet
    PROVE  Right(task[t]) /\ \A u \in Thread \ {t} : task[u] = Idle
<1>1. PICK m : Lone(m) /\ Right(m)
    BY DEF CalmInv
<1>2. m = task[t] /\ \A u \in Thread \ {t} : task[u] = Idle
    BY <1>1 DEF Lone, Quiet
<1> QED
    BY <1>1, <1>2

\* It goes on, and is right again.
LEMMA GoesOn ==
    ASSUME IInv, CalmInv, NEW t \in Thread, NEW CONSTANT m, Go(t, m),
           calm' => calm /\ (task[t] # Idle \/ Quiet),
           calm => Right(m)', deaths' = deaths
    PROVE  CalmInv'
<1> SUFFICES ASSUME calm' PROVE \E x : Lone(x)' /\ Right(x)'
    BY DEF CalmInv
<1>1. calm /\ Right(m)'
    OBVIOUS
<1>2. \A u \in Thread \ {t} : task[u] = Idle
    BY <1>1, Current
<1>3. task'[t] = m /\ \A u \in Thread \ {t} : task'[u] = Idle
    BY <1>2, Went
<1>4. Lone(m)'
    <2>1. CASE m = Idle
        BY <1>3, <2>1 DEF Lone, Quiet
    <2>2. CASE m # Idle
        BY <1>3, <2>2 DEF Lone
    <2> QED
        BY <2>1, <2>2
<1> QED
    BY <1>1, <1>4

\* No attempt is added, and no delivery is for another webhook than before.
SameSends ==
    /\ sends' = sends
    /\ \A d \in DOMAIN deliveries : deliveries'[d].hook = deliveries[d].hook

LEMMA StreakSame == ASSUME SendsOK, SameSends, NEW h PROVE Streak(h)' = Streak(h)
<1>1. \A n \in DOMAIN sends :
          deliveries'[sends[n].delivery].hook = deliveries[sends[n].delivery].hook
    BY DEF SendsOK, SameSends
<1>2. SendsTo(h)' = SendsTo(h)
    BY <1>1 DEF SendsTo, SameSends
<1>3. FailedTo(h)' = FailedTo(h)
    BY <1>2 DEF FailedTo, SameSends
<1> QED
    BY <1>2, <1>3 DEF Streak, SameSends

LEMMA RightStays ==
    ASSUME IInv, SameSends, UNCHANGED <<hooks, log, deaths>>, NEW CONSTANT m, Right(m)
    PROVE  Right(m)'
<1>1. \A h : Cardinality(Streak(h)') = Cardinality(Streak(h))
    BY StreakSame DEF IInv
<1> QED
    BY <1>1 DEF Right, Logs, Mirrors, Exact, SameSends

LEMMA SettledStays ==
    ASSUME IInv, SameSends, UNCHANGED <<hooks, log, deaths>>, Settled
    PROVE  Settled'
<1>1. \A h : Cardinality(Streak(h)') = Cardinality(Streak(h))
    BY StreakSame DEF IInv
<1> QED
    BY <1>1 DEF Settled, SameSends

\* A step from rest to rest, which leaves the webhooks and the log alone.
LEMMA RestsOn ==
    ASSUME IInv, CalmInv, NEW t \in Thread, NEW CONSTANT m, Go(t, m),
           m.at \in Resting, task[t].at \in Resting,
           SameSends, UNCHANGED <<hooks, log, deaths>>,
           calm' => calm /\ (task[t] # Idle \/ Quiet)
    PROVE  CalmInv'
<1>1. SUFFICES ASSUME calm, calm' PROVE Right(m)'
    <2>1. calm' => Right(m)'
        BY <1>1
    <2>2. SUFFICES ASSUME calm' PROVE CalmInv'
        BY DEF CalmInv
    <2> QED
        BY <2>1, <2>2, GoesOn
<1>2. Right(task[t])
    BY <1>1, Current
<1>3. deaths \in Nat /\ deaths' \in Nat /\ log' \in Seq(LogRow)
    BY DEF CalmInv, IInv, TypeOK
<1>4. Settled
    BY <1>2, <1>3, RestingIsRight
<1>5. Settled'
    BY <1>4, SettledStays
<1> QED
    BY <1>3, <1>5, RestingWillBeRight

LEMMA CalmQueue ==
    ASSUME IInv, CalmInv, NEW t \in Thread, BeginQueue(t) \/ ReadListed(t) \/ QueueOne(t)
    PROVE  CalmInv'
<1>1. CASE BeginQueue(t)
    <2>1. PICK m : Take(t, m) /\ m.at = "list"
        BY <1>1 DEF BeginQueue
    <2>2. Go(t, m) /\ m.at \in Resting /\ task[t].at \in Resting
        BY <2>1 DEF Take, Idle, Resting
    <2>3. SameSends /\ UNCHANGED <<hooks, log, deaths>>
        BY <1>1 DEF BeginQueue, SameSends
    <2>4. calm' => calm /\ Quiet
        BY <2>1 DEF Take
    <2> QED
        BY <2>2, <2>3, <2>4, RestsOn
<1>2. CASE ReadListed(t)
    <2>1. task[t] \in Reading
        BY <1>2, TaskAt DEF IInv, ReadListed
    <2>3. \A todo, test, mine : Queueing(todo, test, mine).at \in {"idle", "dispatch", "queue"}
        BY DEF Queueing, Dispatching, Idle
    <2>4. PICK m : Go(t, m) /\ m.at \in Resting
        <3>1. CASE task[t].todo = {}
            BY <1>2, <3>1 DEF ReadListed, Idle, Resting
        <3>2. CASE task[t].todo # {}
            <4>1. PICK h, x :
                      Go(t, IF task[t].todo = {h} THEN Queueing(x, task[t].test, 0)
                            ELSE [task[t] EXCEPT !.todo = @ \ {h}, !.active = x])
                BY <1>2, <3>2 DEF ReadListed
            <4>2. CASE task[t].todo = {h}
                BY <2>3, <4>1, <4>2 DEF Resting
            <4>3. CASE task[t].todo # {h}
                <5>1. [task[t] EXCEPT !.todo = @ \ {h}, !.active = x].at = "list"
                    BY <2>1 DEF Reading
                <5> QED
                    BY <4>1, <4>3, <5>1 DEF Resting
            <4> QED
                BY <4>2, <4>3
        <3> QED
            BY <3>1, <3>2
    <2>5. task[t].at \in Resting /\ task[t] # Idle
        BY <2>1 DEF Reading, Idle, Resting
    <2>6. SameSends /\ UNCHANGED <<hooks, log, deaths, calm>>
        BY <1>2 DEF ReadListed, Ghosts, SameSends
    <2> QED
        BY <2>4, <2>5, <2>6, RestsOn
<1>3. CASE QueueOne(t)
    <2>1. PICK h \in task[t].todo :
              /\ deliveries' = Append(deliveries, [hook |-> h, status |-> "QUEUED", attempts |-> 0])
              /\ Go(t, Queueing(task[t].todo \ {h}, task[t].test,
                             IF h = task[t].test THEN Len(deliveries) + 1 ELSE task[t].mine))
        BY <1>3 DEF QueueOne
    <2>2. PICK m : Go(t, m) /\ m.at \in Resting
        BY <2>1 DEF Queueing, Dispatching, Idle, Resting
    <2>3. SameSends
        BY <1>3, <2>1 DEF QueueOne, SameSends, IInv, TypeOK
    <2> QED
        BY <1>3, <2>2, <2>3, RestsOn DEF QueueOne, Ghosts, Idle, Resting
<1> QED
    BY <1>1, <1>2, <1>3

LEMMA CalmDispatch ==
    ASSUME IInv, CalmInv, NEW t \in Thread, BeginDispatch(t) \/ ReadDelivery(t) \/ Refuse(t)
    PROVE  CalmInv'
<1>1. CASE BeginDispatch(t)
    <2>1. PICK m : Take(t, m) /\ m.at = "dispatch"
        BY <1>1 DEF BeginDispatch
    <2>2. Go(t, m) /\ m.at \in Resting /\ task[t].at \in Resting
        BY <2>1 DEF Take, Idle, Resting
    <2>3. SameSends /\ UNCHANGED <<hooks, log, deaths>>
        BY <1>1 DEF BeginDispatch, SameSends
    <2>4. calm' => calm /\ Quiet
        BY <2>1 DEF Take
    <2> QED
        BY <2>2, <2>3, <2>4, RestsOn
<1>2. CASE ReadDelivery(t)
    <2>1. PICK m : Go(t, m) /\ m.at = "hook"
        BY <1>2 DEF ReadDelivery
    <2> QED
        BY <1>2, <2>1, RestsOn DEF ReadDelivery, Ghosts, Idle, Resting, SameSends
<1>3. CASE Refuse(t)
    <2>1. GoodRow(task[t].delivery, task[t].row)
        BY <1>3, TaskAt DEF IInv, Refuse
    <2>2. Refused(task[t].row).hook = deliveries[task[t].delivery].hook
        BY <2>1 DEF GoodRow, Refused, DeliveryRow
    <2>3. SameSends
        BY <1>3, <2>2 DEF Refuse, SameSends, IInv, TypeOK
    <2> QED
        BY <1>3, <2>3, RestsOn DEF Refuse, Ghosts, Idle, Resting
<1> QED
    BY <1>1, <1>2, <1>3

\* The webhook is read.
LEMMA CalmReadHook ==
    ASSUME IInv, CalmInv, NEW t \in Thread, ReadHook(t)
    PROVE  CalmInv'
<1> DEFINE h == task[t].row.hook
<1>1. task[t].at = "hook" /\ task[t] # Idle /\ SameSends
      /\ UNCHANGED <<hooks, log, deaths, calm>>
    BY DEF ReadHook, Ghosts, Idle, SameSends
<1>2. task[t] \in Holding
    BY <1>1, TaskAt DEF IInv
<1>3. CASE h \notin DOMAIN hooks
    BY <1>1, <1>3, RestsOn DEF ReadHook, Idle, Resting
<1>4. CASE h \in DOMAIN hooks /\ hooks[h].status # "ACTIVE"
    <2>1. PICK m : m = [task[t] EXCEPT !.at = "refuse"]
        OBVIOUS
    <2>2. Go(t, m) /\ m.at = "refuse"
        BY <1>2, <1>4, <2>1 DEF ReadHook, Holding
    <2> QED
        BY <1>1, <2>2, RestsOn DEF Resting
<1>5. CASE h \in DOMAIN hooks /\ hooks[h].status = "ACTIVE"
    <2>1. PICK m : m = [at |-> "send", delivery |-> task[t].delivery,
                        row |-> task[t].row, counter |-> hooks[h]]
        OBVIOUS
    <2>2. Go(t, m)
        BY <1>5, <2>1 DEF ReadHook
    <2>3. SUFFICES ASSUME calm PROVE Right(m)
        <3>1. calm => Right(m)'
            BY <1>1, <2>3, RightStays
        <3> QED
            BY <1>1, <2>2, <3>1, GoesOn
    <2>4. Right(task[t])
        BY <1>1, <2>3, Current
    <2>5. Logs(m)
        BY <1>1, <2>1, <2>4 DEF Right, Logs
    <2>6. Mirrors(m)
        BY <1>5, <2>1 DEF Mirrors
    <2>7. Exact(m)
        BY <1>1, <2>1, <2>4 DEF Right, Exact
    <2> QED
        BY <2>5, <2>6, <2>7 DEF Right
<1> QED
    BY <1>3, <1>4, <1>5

LEMMA CalmUpdate ==
    ASSUME IInv, CalmInv, NEW t \in Thread, BeginUpdate(t) \/ EndUpdate(t)
    PROVE  CalmInv'
<1>1. CASE BeginUpdate(t)
    <2>1. PICK h \in DOMAIN hooks, to \in {"ACTIVE", "DISABLED", None} :
              /\ Take(t, [at |-> "update", hook |-> h, to |-> to, row |-> hooks[h]])
              /\ UNCHANGED <<hooks, deliveries, log, known, deaths, sends, switchedOff>>
        BY <1>1 DEF BeginUpdate
    <2>2. PICK m : m = [at |-> "update", hook |-> h, to |-> to, row |-> hooks[h]]
        OBVIOUS
    <2>3. Go(t, m) /\ task[t] = Idle /\ calm' = (calm /\ Quiet) /\ SameSends
        BY <2>1, <2>2 DEF Take, SameSends
    <2>4. SUFFICES ASSUME calm' PROVE Right(m)
        <3>1. calm' => Right(m)'
            BY <2>1, <2>3, <2>4, RightStays
        <3>2. SUFFICES ASSUME calm' PROVE CalmInv'
            BY <2>1 DEF CalmInv
        <3> QED
            BY <2>1, <2>3, <3>1, <3>2, GoesOn
    <2>5. Right(task[t])
        BY <2>3, <2>4, Current
    <2>6. Logs(m)
        BY <2>2, <2>3, <2>5 DEF Right, Logs, Idle
    <2>7. Mirrors(m)
        BY <2>2 DEF Mirrors
    <2>8. Exact(m)
        BY <2>2, <2>3, <2>5 DEF Right, Exact, Idle
    <2> QED
        BY <2>6, <2>7, <2>8 DEF Right
<1>2. CASE EndUpdate(t)
    <2> DEFINE h   == task[t].hook
               row == Updated(task[t].row, task[t].to)
    <2>1. task[t].at = "update" /\ task[t] # Idle /\ SetHook(h, row) /\ Go(t, Idle) /\ SameSends
          /\ UNCHANGED <<log, deaths, calm>>
        BY <1>2 DEF EndUpdate, Idle, SameSends
    <2>2. task[t].row \in HookRow
        BY <2>1, TaskAt DEF IInv
    <2>3. SUFFICES ASSUME calm PROVE Settled'
        <3>1. Idle.at \in Resting
            BY DEF Idle, Resting
        <3>2. calm => Right(Idle)'
            BY <2>1, <2>3, <3>1, RestingWillBeRight DEF CalmInv, IInv, TypeOK
        <3> QED
            BY <2>1, <3>2, GoesOn
    <2>4. Right(task[t])
        BY <2>1, <2>3, Current
    <2>5. h \in DOMAIN hooks /\ hooks[h] = task[t].row
        BY <2>1, <2>4 DEF Right, Mirrors
    <2>6. DOMAIN hooks' = DOMAIN hooks /\ hooks'[h] = row
          /\ \A x \in DOMAIN hooks \ {h} : hooks'[x] = hooks[x]
        <3>1. DOMAIN hooks' = DOMAIN hooks \cup {h} /\ hooks'[h] = row
              /\ \A x \in DOMAIN hooks \ {h} : hooks'[x] = hooks[x]
            BY <2>1, SetHookIs
        <3> QED
            BY <2>5, <3>1
    <2>7. row.failures = hooks[h].failures
        BY <2>2, <2>5 DEF Updated, HookRow
    <2>8. \A x \in DOMAIN hooks' : hooks'[x].failures = hooks[x].failures
        BY <2>6, <2>7
    <2>9. deaths = 0 => \A x \in DOMAIN hooks : hooks[x].failures = Cardinality(Streak(x))
        BY <2>1, <2>4 DEF Right, Exact
    <2>10. \A x : Cardinality(Streak(x)') = Cardinality(Streak(x))
        BY <2>1, StreakSame DEF IInv
    <2>11. Len(sends') <= Len(log') + deaths'
        <3>1. Len(sends) <= Len(log) + deaths + 0
            BY <2>1, <2>4 DEF Right, Logs
        <3> QED
            BY <2>1, <3>1 DEF SameSends, CalmInv, IInv, TypeOK
    <2> QED
        BY <2>1, <2>6, <2>8, <2>9, <2>10, <2>11 DEF Settled
<1> QED
    BY <1>1, <1>2

\* An attempt for delivery d adds one to the streak of its webhook, or ends it.
LEMMA StreakSent ==
    ASSUME SendsOK, NEW d \in DOMAIN deliveries, NEW ok \in BOOLEAN,
           sends' = Append(sends, [delivery |-> d, ok |-> ok]), deliveries' = deliveries, NEW x
    PROVE  Cardinality(Streak(x)') =
               IF deliveries[d].hook # x THEN Cardinality(Streak(x))
               ELSE IF ok THEN 0 ELSE Cardinality(Streak(x)) + 1
<1> DEFINE last == Len(sends) + 1
<1>1. /\ DOMAIN sends = 1..Len(sends) /\ Len(sends) \in Nat
      /\ DOMAIN sends' = 1..last /\ DOMAIN sends' = DOMAIN sends \cup {last}
      /\ \A n \in DOMAIN sends : sends'[n] = sends[n] /\ n < last /\ n \in Nat
      /\ last \notin DOMAIN sends
    BY DEF SendsOK
<1>2. sends'[last] = [delivery |-> d, ok |-> ok]
    BY DEF SendsOK
<1>3. SendsTo(x)' = SendsTo(x) \cup (IF deliveries[d].hook = x THEN {last} ELSE {})
    BY <1>1, <1>2 DEF SendsTo
<1>4. FailedTo(x)' = FailedTo(x) \cup (IF deliveries[d].hook = x /\ ~ok THEN {last} ELSE {})
    BY <1>1, <1>2, <1>3 DEF FailedTo, SendsTo
<1>5. SendsTo(x) \subseteq DOMAIN sends /\ FailedTo(x) \subseteq SendsTo(x)
    BY DEF SendsTo, FailedTo
<1>6. IsFiniteSet(Streak(x)) /\ last \notin Streak(x)
    <2>1. Streak(x) \subseteq DOMAIN sends
        BY <1>5 DEF Streak
    <2>2. IsFiniteSet(DOMAIN sends)
        BY <1>1, FS_Interval
    <2> QED
        BY <1>1, <2>1, <2>2, FS_Subset
<1>7. CASE deliveries[d].hook # x
    <2>1. SendsTo(x)' = SendsTo(x) /\ FailedTo(x)' = FailedTo(x)
        BY <1>3, <1>4, <1>7
    <2>2. Streak(x)' = Streak(x)
        BY <1>1, <1>5, <2>1 DEF Streak
    <2> QED
        BY <1>7, <2>2
<1>8. CASE deliveries[d].hook = x /\ ok
    <2>1. last \in SendsTo(x)' /\ FailedTo(x)' = FailedTo(x) /\ sends'[last].ok
        BY <1>2, <1>3, <1>4, <1>8
    <2>2. \A n \in FailedTo(x)' : last > n
        BY <1>1, <1>5, <2>1
    <2>3. Streak(x)' = {}
        BY <2>1, <2>2 DEF Streak
    <2> QED
        BY <1>8, <2>3, FS_EmptySet
<1>9. CASE deliveries[d].hook = x /\ ~ok
    <2>1. /\ SendsTo(x)' = SendsTo(x) \cup {last} /\ FailedTo(x)' = FailedTo(x) \cup {last}
          /\ ~sends'[last].ok
        BY <1>2, <1>3, <1>4, <1>9
    <2>2. \A n \in SendsTo(x) : ~(n > last)
        BY <1>1, <1>5
    <2>3. last \in Streak(x)'
        BY <2>1, <2>2 DEF Streak
    <2>4. \A n \in FailedTo(x) : n \in Streak(x)' <=> n \in Streak(x)
        BY <1>1, <1>5, <2>1 DEF Streak
    <2>5. Streak(x)' = Streak(x) \cup {last}
        BY <2>1, <2>3, <2>4 DEF Streak
    <2> QED
        BY <1>6, <1>9, <2>5, FS_AddElement
<1> QED
    BY <1>7, <1>8, <1>9

LEMMA CalmSend ==
    ASSUME IInv, CalmInv, NEW t \in Thread, Send(t)
    PROVE  CalmInv'
<1>1. PICK ok \in BOOLEAN :
          /\ sends' = Append(sends, [delivery |-> task[t].delivery, ok |-> ok])
          /\ Go(t, [task[t] EXCEPT !.at = "save", !.row = Attempted(@, ok),
                                   !.counter = Counted(@, ok)])
    BY DEF Send
<1>2. task[t].at = "send" /\ task[t] # Idle /\ UNCHANGED <<hooks, deliveries, log, deaths, calm>>
    BY DEF Send, Ghosts, Idle
<1>3. task[t] \in Trying /\ GoodRow(task[t].delivery, task[t].row)
    BY <1>2, TaskAt DEF IInv
<1>4. PICK d, h, m :
          /\ d = task[t].delivery /\ h = task[t].row.hook
          /\ m = [task[t] EXCEPT !.at = "save", !.row = Attempted(@, ok),
                                 !.counter = Counted(@, ok)]
    OBVIOUS
<1>5. Go(t, m)
    BY <1>1, <1>4
<1>6. m.at = "save" /\ m.row = Attempted(task[t].row, ok) /\ m.counter = Counted(task[t].counter, ok)
    BY <1>3, <1>4 DEF Trying
<1>7. m.row.hook = h
    BY <1>3, <1>4, <1>6 DEF Attempted, Trying, DeliveryRow
<1>8. d \in DOMAIN deliveries /\ deliveries[d].hook = h
    BY <1>3, <1>4 DEF GoodRow
<1>9. SUFFICES ASSUME calm PROVE Right(m)'
    <2>1. calm => Right(m)'
        BY <1>9
    <2> QED
        BY <1>2, <1>5, <2>1, GoesOn
<1>10. Right(task[t])
    BY <1>2, <1>9, Current
<1>11. h \in DOMAIN hooks /\ hooks[h].status = "ACTIVE" /\ hooks[h] = task[t].counter
    BY <1>2, <1>4, <1>10 DEF Right, Mirrors
<1>12. Logs(m)'
    <2>1. Len(sends) <= Len(log) + deaths + 0
        BY <1>2, <1>10 DEF Right, Logs
    <2>2. Len(sends') = Len(sends) + 1 /\ Len(sends) \in Nat /\ Len(log) \in Nat /\ deaths \in Nat
        BY <1>1 DEF IInv, SendsOK, TypeOK, CalmInv
    <2>3. Len(sends') <= Len(log') + deaths' + 1
        BY <1>2, <2>1, <2>2
    <2> QED
        BY <1>6, <2>3 DEF Logs
<1>13. Mirrors(m)'
    BY <1>2, <1>6, <1>7, <1>11 DEF Mirrors
<1>14. Exact(m)'
    <2> SUFFICES ASSUME deaths = 0, NEW x \in DOMAIN hooks
                 PROVE  IF h = x THEN m.counter.failures = Cardinality(Streak(x)')
                        ELSE hooks[x].failures = Cardinality(Streak(x)')
        BY <1>2, <1>6, <1>7 DEF Exact
    <2>1. hooks[x].failures = Cardinality(Streak(x))
        BY <1>2, <1>10 DEF Right, Exact
    <2>2. Cardinality(Streak(x)') =
              IF h # x THEN Cardinality(Streak(x))
              ELSE IF ok THEN 0 ELSE Cardinality(Streak(x)) + 1
        BY <1>1, <1>2, <1>4, <1>8, StreakSent DEF IInv
    <2>3. hooks[h] \in HookRow
        BY <1>11 DEF IInv, TypeOK
    <2>4. m.counter.failures = IF ok THEN 0 ELSE hooks[h].failures + 1
        BY <1>6, <1>11, <2>3 DEF Counted, HookRow
    <2> QED
        BY <2>1, <2>2, <2>4
<1> QED
    BY <1>12, <1>13, <1>14 DEF Right

LEMMA CalmSave ==
    ASSUME IInv, CalmInv, NEW t \in Thread, SaveDelivery(t) \/ SaveHook(t)
    PROVE  CalmInv'
<1>1. task[t].at \in {"save", "count"} /\ task[t] # Idle /\ UNCHANGED <<log, deaths, calm>>
    BY DEF SaveDelivery, SaveHook, Ghosts, Idle
<1>2. task[t] \in Trying /\ GoodRow(task[t].delivery, task[t].row)
    BY <1>1, TaskAt DEF IInv
<1>3. CASE SaveDelivery(t)
    <2>1. PICK m : m = [task[t] EXCEPT !.at = "count"]
        OBVIOUS
    <2>2. Go(t, m) /\ UNCHANGED hooks /\ task[t].at = "save"
        BY <1>3, <2>1 DEF SaveDelivery
    <2>3. m.at = "count" /\ m.row = task[t].row /\ m.counter = task[t].counter
        BY <1>2, <2>1 DEF Trying
    <2>4. SameSends
        BY <1>2, <1>3 DEF SaveDelivery, SameSends, GoodRow, IInv, TypeOK
    <2>5. SUFFICES ASSUME calm PROVE Right(m)
        <3>1. calm => Right(m)'
            BY <1>1, <2>2, <2>4, <2>5, RightStays
        <3> QED
            BY <1>1, <2>2, <3>1, GoesOn
    <2>6. Right(task[t])
        BY <1>1, <2>5, Current
    <2> QED
        BY <2>2, <2>3, <2>6 DEF Right, Logs, Mirrors, Exact
<1>4. CASE SaveHook(t)
    <2>1. PICK h, row, m : /\ h = task[t].row.hook /\ row = task[t].counter
                           /\ m = [at |-> "log", delivery |-> task[t].delivery, row |-> task[t].row]
        OBVIOUS
    <2>2. /\ Go(t, m) /\ SetHook(h, row) /\ SameSends /\ task[t].at = "count"
        BY <1>4, <2>1 DEF SaveHook, SameSends
    <2>3. SUFFICES ASSUME calm PROVE Right(m)'
        <3>1. calm => Right(m)'
            BY <2>3
        <3> QED
            BY <1>1, <2>2, <3>1, GoesOn
    <2>4. Right(task[t])
        BY <1>1, <2>3, Current
    <2>5. Logs(m)'
        BY <1>1, <2>1, <2>2, <2>4 DEF Right, Logs, SameSends
    <2>6. Mirrors(m)'
        BY <2>1 DEF Mirrors
    <2>7. /\ DOMAIN hooks' = DOMAIN hooks \cup {h} /\ hooks'[h] = row
          /\ \A x \in DOMAIN hooks \ {h} : hooks'[x] = hooks[x]
        BY <2>2, SetHookIs
    <2>8. h \in DOMAIN hooks
        BY <2>1, <2>2, <2>4 DEF Right, Mirrors
    <2>9. \A x : Cardinality(Streak(x)') = Cardinality(Streak(x))
        BY <2>2, StreakSame DEF IInv
    <2>10. Exact(m)'
        BY <1>1, <2>1, <2>2, <2>4, <2>7, <2>8, <2>9 DEF Right, Exact
    <2> QED
        BY <2>5, <2>6, <2>10 DEF Right
<1> QED
    BY <1>3, <1>4

LEMMA CalmLog ==
    ASSUME IInv, CalmInv, NEW t \in Thread, ReadLog(t) \/ SaveLog(t)
    PROVE  CalmInv'
<1>1. task[t].at \in {"log", "append"} /\ task[t] # Idle /\ SameSends
      /\ UNCHANGED <<hooks, deaths, calm>>
    BY DEF ReadLog, SaveLog, Ghosts, Idle, SameSends
<1>2. CASE ReadLog(t)
    <2>1. PICK m : m = [at |-> "append", rows |-> Logged(log, task[t].delivery, task[t].row)]
        OBVIOUS
    <2>2. Go(t, m) /\ UNCHANGED log /\ task[t].at = "log"
        BY <1>2, <2>1 DEF ReadLog
    <2>3. SUFFICES ASSUME calm PROVE Right(m)
        <3>1. calm => Right(m)'
            BY <1>1, <2>2, <2>3, RightStays
        <3> QED
            BY <1>1, <2>2, <3>1, GoesOn
    <2>4. Right(task[t])
        BY <1>1, <2>3, Current
    <2>5. task[t] \in Saying /\ task[t].row.status # "QUEUED" /\ task[t].delivery \in DOMAIN deliveries
        BY <2>2, TaskAt DEF IInv
    <2>6. Len(m.rows) = Len(log) + 1
        BY <2>1 DEF Logged, IInv, TypeOK
    <2>7. Logs(m)
        BY <2>1, <2>2, <2>4, <2>6 DEF Right, Logs
    <2>8. Mirrors(m)
        BY <2>1 DEF Mirrors
    <2>9. Exact(m)
        BY <2>1, <2>2, <2>4 DEF Right, Exact
    <2> QED
        BY <2>7, <2>8, <2>9 DEF Right
<1>3. CASE SaveLog(t)
    <2>1. log' = task[t].rows /\ Go(t, Idle) /\ task[t].at = "append"
        BY <1>3 DEF SaveLog
    <2>2. task[t].rows \in Seq(LogRow)
        BY <2>1, TaskAt DEF IInv
    <2>3. SUFFICES ASSUME calm PROVE Settled'
        <3>1. Idle.at \in Resting
            BY DEF Idle, Resting
        <3>2. calm => Right(Idle)'
            BY <1>1, <2>1, <2>2, <2>3, <3>1, RestingWillBeRight DEF CalmInv
        <3> QED
            BY <1>1, <2>1, <3>2, GoesOn
    <2>4. Right(task[t])
        BY <1>1, <2>3, Current
    <2>5. Len(log') = Len(log) + 1 /\ Len(sends) <= Len(log) + deaths + 1
        BY <2>1, <2>4 DEF Right, Logs
    <2>6. Len(sends') <= Len(log') + deaths'
        BY <1>1, <2>2, <2>5 DEF SameSends, CalmInv, IInv, TypeOK, SendsOK
    <2>7. deaths = 0 => \A x \in DOMAIN hooks : hooks[x].failures = Cardinality(Streak(x))
        BY <2>1, <2>4 DEF Right, Exact
    <2>8. \A x : Cardinality(Streak(x)') = Cardinality(Streak(x))
        BY <1>1, StreakSame DEF IInv
    <2> QED
        BY <1>1, <2>6, <2>7, <2>8 DEF Settled
<1> QED
    BY <1>2, <1>3

\* Nobody is at work: the files alone say it all.
LEMMA QuietIsSettled == ASSUME IInv, CalmInv, calm, Quiet PROVE Settled
<1>1. PICK m : Lone(m) /\ Right(m)
    BY DEF CalmInv
<1>2. m = Idle
    BY <1>1 DEF Lone, Quiet
<1>3. m.at \in Resting
    BY <1>2 DEF Idle, Resting
<1> QED
    BY <1>1, <1>3, RestingIsRight DEF CalmInv

LEMMA SettledIsCalm ==
    ASSUME log' \in Seq(LogRow), deaths' \in Nat, calm' => Quiet' /\ Settled'
    PROVE  CalmInv'
<1>1. Idle.at \in Resting
    BY DEF Idle, Resting
<1>2. calm' => Lone(Idle)' /\ Right(Idle)'
    BY <1>1, RestingWillBeRight DEF Lone
<1> QED
    BY <1>2 DEF CalmInv

\* A new webhook was sent nothing, and nobody is at work on it.
LEMMA CalmCreate == ASSUME IInv, CalmInv, Create PROVE CalmInv'
<1>1. PICK h \in Hook \ known : SetHook(h, [status |-> "ACTIVE", failures |-> 0])
    BY DEF Create
<1>2. UNCHANGED <<deliveries, log, task, deaths, sends, calm>> /\ SameSends
    BY DEF Create, SameSends
<1>3. /\ DOMAIN hooks' = DOMAIN hooks \cup {h} /\ hooks'[h].failures = 0
      /\ \A x \in DOMAIN hooks \ {h} : hooks'[x] = hooks[x]
    <2> DEFINE row == [status |-> "ACTIVE", failures |-> 0]
    <2>1. row.failures = 0
        OBVIOUS
    <2> HIDE DEF row
    <2>2. SetHook(h, row)
        BY <1>1 DEF row
    <2> QED
        BY <2>1, <2>2, SetHookIs
<1>4. h \notin DOMAIN hooks
    BY DEF IInv, TypeOK
<1>5. SUFFICES ASSUME calm PROVE \E m : Lone(m)' /\ Right(m)'
    BY <1>2 DEF CalmInv
<1>6. PICK m : Lone(m) /\ Right(m)
    BY <1>5 DEF CalmInv
<1>7. Lone(m)'
    BY <1>2, <1>6 DEF Lone, Quiet
<1>8. Logs(m)'
    BY <1>2, <1>6 DEF Right, Logs
<1>9. Mirrors(m)'
    BY <1>3, <1>4, <1>6 DEF Right, Mirrors
<1>10. Cardinality(Streak(h)') = 0
    <2>1. SendsTo(h) = {}
        BY DEF SendsTo, IInv, SendsOK, GoodRow
    <2>2. Streak(h) = {}
        BY <2>1 DEF Streak, FailedTo
    <2>3. Streak(h)' = Streak(h)
        BY <1>2, StreakSame DEF IInv
    <2> QED
        BY <2>2, <2>3, FS_EmptySet
<1>11. Exact(m)'
    <2> SUFFICES ASSUME deaths = 0, NEW x \in DOMAIN hooks'
                 PROVE  IF m.at \in {"save", "count"} /\ m.row.hook = x
                        THEN m.counter.failures = Cardinality(Streak(x)')
                        ELSE hooks'[x].failures = Cardinality(Streak(x)')
        BY <1>2 DEF Exact
    <2>1. CASE x = h
        <3>1. ~(m.at \in {"save", "count"} /\ m.row.hook = h)
            BY <1>4, <1>6 DEF Right, Mirrors
        <3> QED
            BY <1>3, <1>10, <2>1, <3>1
    <2>2. CASE x # h
        <3>1. x \in DOMAIN hooks /\ hooks'[x] = hooks[x]
            BY <1>3, <2>2
        <3>2. Cardinality(Streak(x)') = Cardinality(Streak(x))
            BY <1>2, StreakSame DEF IInv
        <3> QED
            BY <1>6, <3>1, <3>2 DEF Right, Exact
    <2> QED
        BY <2>1, <2>2
<1> QED
    BY <1>7, <1>8, <1>9, <1>11 DEF Right

LEMMA CalmDelete == ASSUME IInv, CalmInv, Delete PROVE CalmInv'
<1>1. /\ DOMAIN hooks' \subseteq DOMAIN hooks /\ \A x \in DOMAIN hooks' : hooks'[x] = hooks[x]
      /\ UNCHANGED <<log, task, deaths>> /\ SameSends
    BY DEF Delete, SameSends
<1>2. calm' => calm /\ Quiet
    BY DEF Delete
<1>3. calm' => Settled
    BY <1>2, QuietIsSettled
<1>4. \A x : Cardinality(Streak(x)') = Cardinality(Streak(x))
    BY <1>1, StreakSame DEF IInv
<1>5. calm' => Settled'
    BY <1>1, <1>3, <1>4 DEF Settled, SameSends
<1>6. calm' => Quiet'
    BY <1>1, <1>2 DEF Quiet
<1> QED
    BY <1>1, <1>5, <1>6, SettledIsCalm DEF CalmInv, IInv, TypeOK

\* What the one thread had in hand is the attempt that this death loses.
LEMMA CalmDie == ASSUME IInv, CalmInv, Die PROVE CalmInv'
<1>1. /\ deaths' = deaths + 1 /\ deaths \in Nat /\ Len(log) \in Nat /\ Len(sends) \in Nat
      /\ log \in Seq(LogRow) /\ UNCHANGED <<log, sends, calm>> /\ Quiet'
    BY DEF Die, Quiet, CalmInv, IInv, TypeOK, SendsOK
<1>2. SUFFICES ASSUME calm PROVE Settled'
    BY <1>1, <1>2, SettledIsCalm
<1>3. PICK m : Right(m)
    BY <1>2 DEF CalmInv
<1>4. Len(sends) <= Len(log) + deaths + 0 \/ Len(sends) <= Len(log) + deaths + 1
    BY <1>3 DEF Right, Logs
<1>5. Len(sends') <= Len(log') + deaths' /\ deaths' # 0
    BY <1>1, <1>4
<1> QED
    BY <1>5 DEF Settled

LEMMA CalmStep == ASSUME IInv, CalmInv, [Next]_vars PROVE CalmInv'
<1>1. CASE Create
    BY <1>1, CalmCreate
<1>2. CASE Delete
    BY <1>2, CalmDelete
<1>3. CASE Die
    BY <1>3, CalmDie
<1>4. ASSUME NEW t \in Thread, BeginUpdate(t) \/ EndUpdate(t) PROVE CalmInv'
    BY <1>4, CalmUpdate
<1>5. ASSUME NEW t \in Thread, BeginQueue(t) \/ ReadListed(t) \/ QueueOne(t) PROVE CalmInv'
    BY <1>5, CalmQueue
<1>6. ASSUME NEW t \in Thread, BeginDispatch(t) \/ ReadDelivery(t) \/ Refuse(t) PROVE CalmInv'
    BY <1>6, CalmDispatch
<1>7. ASSUME NEW t \in Thread, ReadHook(t) PROVE CalmInv'
    BY <1>7, CalmReadHook
<1>8. ASSUME NEW t \in Thread, Send(t) PROVE CalmInv'
    BY <1>8, CalmSend
<1>9. ASSUME NEW t \in Thread, SaveDelivery(t) \/ SaveHook(t) PROVE CalmInv'
    BY <1>9, CalmSave
<1>10. ASSUME NEW t \in Thread, ReadLog(t) \/ SaveLog(t) PROVE CalmInv'
    BY <1>10, CalmLog
<1>11. CASE UNCHANGED vars
    <2>1. UNCHANGED <<hooks, log, task, deaths, calm>> /\ SameSends
        BY <1>11 DEF vars, SameSends
    <2>2. SUFFICES ASSUME calm PROVE \E m : Lone(m)' /\ Right(m)'
        BY <2>1 DEF CalmInv
    <2>3. PICK m : Lone(m) /\ Right(m)
        BY <2>2 DEF CalmInv
    <2>4. Lone(m)'
        BY <2>1, <2>3 DEF Lone, Quiet
    <2> QED
        BY <2>1, <2>3, <2>4, RightStays
<1> QED
    BY <1>1, <1>2, <1>3, <1>4, <1>5, <1>6, <1>7, <1>8, <1>9, <1>10, <1>11 DEF Next

LEMMA CalmStart == ASSUME Init PROVE CalmInv
<1>1. Len(sends) = 0 /\ Len(log) = 0 /\ deaths = 0 /\ DOMAIN hooks = {} /\ Quiet
    BY DEF Init, Quiet
<1>2. Lone(Idle) /\ Idle.at = "idle"
    BY <1>1 DEF Lone, Idle
<1>3. Logs(Idle)
    BY <1>1, <1>2 DEF Logs
<1>4. Mirrors(Idle) /\ Exact(Idle)
    BY <1>1, <1>2 DEF Mirrors, Exact
<1> QED
    BY <1>1, <1>2, <1>3, <1>4 DEF CalmInv, Right

LEMMA CalmHolds == Spec => [](IInv /\ CalmInv)
<1>1. Init => IInv /\ CalmInv
    BY InitHolds, CalmStart
<1>2. IInv /\ CalmInv /\ [Next]_vars => (IInv /\ CalmInv)'
    BY StepHolds, CalmStep
<1> QED
    BY <1>1, <1>2, PTL DEF Spec

-----------------------------------------------------------------------------

\* dispatch_webhook_delivery counts right when requests do not overlap: with no
\* death either, and nobody at work, the failures in the file of a webhook are
\* its attempts that failed since the last one that was accepted.
THEOREM ExactCounts == Spec => []CountsTheStreak
<1>1. IInv /\ CalmInv => CountsTheStreak
    BY QuietIsSettled DEF CountsTheStreak, Settled
<1> QED
    BY <1>1, CalmHolds, PTL

\* The delivery log has every attempt of requests that do not overlap, but for
\* one per death of the process between sending and _append_delivery_log.
THEOREM LogLacksDeaths == Spec => []LogMissesOnlyDeaths
<1>1. IInv /\ CalmInv => LogMissesOnlyDeaths
    BY QuietIsSettled DEF LogMissesOnlyDeaths, Settled
<1> QED
    BY <1>1, CalmHolds, PTL

\* The files of webhooks change under three actions only, each of which leaves
\* what was decided.
LEMMA Decided ==
    ASSUME IInv, CalmInv, [Next]_vars, calm'
    PROVE  /\ \A h \in known \ DOMAIN hooks : h \notin DOMAIN hooks'
           /\ \A h \in DOMAIN hooks \cap DOMAIN hooks' :
                 hooks[h].status = "DISABLED" /\ hooks'[h].status = "ACTIVE" =>
                     \E t \in Thread : /\ task[t].at = "update"
                                       /\ task[t].hook = h /\ task[t].to = "ACTIVE"
<1>1. CASE UNCHANGED hooks
    BY <1>1
<1>2. CASE Create
    <2>1. PICK h \in Hook \ known : SetHook(h, [status |-> "ACTIVE", failures |-> 0])
        BY <1>2 DEF Create
    <2>2. /\ DOMAIN hooks' = DOMAIN hooks \cup {h}
          /\ \A x \in DOMAIN hooks \ {h} : hooks'[x] = hooks[x]
        BY <2>1, SetHookIs
    <2>3. h \notin DOMAIN hooks
        BY <2>1 DEF IInv, TypeOK
    <2>4. \A x \in DOMAIN hooks : hooks'[x] = hooks[x]
        BY <2>2, <2>3
    <2> QED
        BY <2>1, <2>2, <2>4
<1>3. CASE Delete
    <2>1. DOMAIN hooks' \subseteq DOMAIN hooks /\ \A x \in DOMAIN hooks' : hooks'[x] = hooks[x]
        BY <1>3 DEF Delete
    <2> QED
        BY <2>1
<1>4. ASSUME NEW t \in Thread, EndUpdate(t) \/ SaveHook(t)
      PROVE  \E h \in DOMAIN hooks :
                 /\ DOMAIN hooks' = DOMAIN hooks
                 /\ \A x \in DOMAIN hooks \ {h} : hooks'[x] = hooks[x]
                 /\ hooks[h].status = "DISABLED" /\ hooks'[h].status = "ACTIVE" =>
                        task[t].at = "update" /\ task[t].hook = h /\ task[t].to = "ACTIVE"
    <2>1. calm /\ task[t] # Idle
        <3>1. calm' = calm
            BY <1>4 DEF EndUpdate, SaveHook, Ghosts
        <3>2. task[t].at \in {"update", "count"}
            BY <1>4 DEF EndUpdate, SaveHook
        <3> QED
            BY <3>1, <3>2 DEF Idle
    <2>2. Right(task[t])
        BY <2>1, Current
    <2>3. CASE EndUpdate(t)
        <3>1. PICK h, row : /\ h = task[t].hook /\ row = Updated(task[t].row, task[t].to)
                            /\ SetHook(h, row) /\ task[t].at = "update"
            BY <2>3 DEF EndUpdate
        <3>2. h \in DOMAIN hooks /\ hooks[h] = task[t].row
            BY <2>2, <3>1 DEF Right, Mirrors
        <3>3. /\ DOMAIN hooks' = DOMAIN hooks \cup {h} /\ hooks'[h] = row
              /\ \A x \in DOMAIN hooks \ {h} : hooks'[x] = hooks[x]
            BY <3>1, SetHookIs
        <3>4. row.status = IF task[t].to = None THEN hooks[h].status ELSE task[t].to
            <4>1. hooks[h] \in HookRow
                BY <3>2 DEF IInv, TypeOK
            <4> QED
                BY <3>1, <3>2, <4>1 DEF Updated, HookRow
        <3>5. hooks[h].status = "DISABLED" /\ hooks'[h].status = "ACTIVE" => task[t].to = "ACTIVE"
            BY <3>3, <3>4
        <3> QED
            BY <3>1, <3>2, <3>3, <3>5
    <2>4. CASE SaveHook(t)
        <3>1. PICK h, row : h = task[t].row.hook /\ SetHook(h, row) /\ task[t].at = "count"
            BY <2>4 DEF SaveHook
        <3>2. h \in DOMAIN hooks /\ hooks[h].status = "ACTIVE"
            BY <2>2, <3>1 DEF Right, Mirrors
        <3>3. /\ DOMAIN hooks' = DOMAIN hooks \cup {h}
              /\ \A x \in DOMAIN hooks \ {h} : hooks'[x] = hooks[x]
            BY <3>1, SetHookIs
        <3> QED
            BY <3>2, <3>3
    <2> QED
        BY <1>4, <2>3, <2>4
<1>5. CASE \E t \in Thread : EndUpdate(t) \/ SaveHook(t)
    <2>1. PICK t \in Thread : EndUpdate(t) \/ SaveHook(t)
        BY <1>5
    <2>2. PICK h \in DOMAIN hooks :
              /\ DOMAIN hooks' = DOMAIN hooks
              /\ \A x \in DOMAIN hooks \ {h} : hooks'[x] = hooks[x]
              /\ hooks[h].status = "DISABLED" /\ hooks'[h].status = "ACTIVE" =>
                     task[t].at = "update" /\ task[t].hook = h /\ task[t].to = "ACTIVE"
        BY <1>4, <2>1
    <2>3. \A x \in DOMAIN hooks : x = h \/ hooks'[x] = hooks[x]
        BY <2>2
    <2> QED
        BY <2>2, <2>3
<1>6. CASE Die
    BY <1>1, <1>6 DEF Die
<1>7. CASE \E t \in Thread :
              \/ BeginUpdate(t) \/ BeginQueue(t) \/ ReadListed(t) \/ QueueOne(t)
              \/ BeginDispatch(t) \/ ReadDelivery(t) \/ ReadHook(t) \/ Refuse(t)
              \/ Send(t) \/ SaveDelivery(t) \/ ReadLog(t) \/ SaveLog(t)
    <2>1. UNCHANGED hooks
        BY <1>7 DEF BeginUpdate, BeginQueue, ReadListed, QueueOne, BeginDispatch, ReadDelivery,
                    ReadHook, Refuse, Send, SaveDelivery, ReadLog, SaveLog
    <2> QED
        BY <1>1, <2>1
<1>8. CASE UNCHANGED vars
    BY <1>1, <1>8 DEF vars
<1> QED
    BY <1>2, <1>3, <1>5, <1>6, <1>7, <1>8 DEF Next

\* Requests that do not overlap respect what users decided: a deleted webhook
\* stays away, and dispatch_webhook_delivery never enables one that is disabled.
THEOREM DecisionsStand == Spec => UsersDecide
<1>1. IInv /\ CalmInv /\ [Next]_vars =>
          [calm' =>
             /\ \A h \in known \ DOMAIN hooks : h \notin DOMAIN hooks'
             /\ \A h \in DOMAIN hooks \cap DOMAIN hooks' :
                   hooks[h].status = "DISABLED" /\ hooks'[h].status = "ACTIVE" =>
                       \E t \in Thread : /\ task[t].at = "update"
                                         /\ task[t].hook = h /\ task[t].to = "ACTIVE"]_vars
    BY Decided
<1> QED
    BY <1>1, CalmHolds, PTL DEF Spec, UsersDecide
=============================================================================
