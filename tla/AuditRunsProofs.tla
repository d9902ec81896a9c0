--------------------------- MODULE AuditRunsProofs ---------------------------
(***************************************************************************)
(* What holds of AuditRuns for any number of processes, audits, runs and   *)
(* deaths, whatever the handlers overlap and lose: what a handler holds in *)
(* memory is as good as what it has read.                                  *)
(***************************************************************************)
EXTENDS AuditRuns, WellFoundedInduction, TLAPS

-----------------------------------------------------------------------------
(* What the searches find.                                                  *)

LEMMA Least ==
    ASSUME NEW I, I \subseteq Nat, I # {}
    PROVE  \E n \in I : \A m \in I : n <= m
<1> DEFINE R == OpToRel(<, Nat)
<1>1. IsWellFoundedOn(R, Nat)
    BY NatLessThanWellFounded
<1>2. \A x, y \in Nat : <<y, x>> \in R <=> y < x
    BY DEF OpToRel
<1> HIDE DEF R
<1>3. \E x \in I : \A y \in I : ~ (<<y, x>> \in R)
    BY <1>1, WFMin
<1>4. PICK x \in I : \A y \in I : ~ (<<y, x>> \in R)
    BY <1>3
<1>5. \A y \in I : ~ (y < x)
    BY <1>2, <1>4
<1> HIDE <1>4
<1>6. \A y \in I : x <= y
    BY <1>5
<1> QED
    BY <1>6

LEMMA FindAuditFinds ==
    ASSUME NEW S, NEW rows \in Seq(S), NEW a,
           FindAudit(rows, a) \in DOMAIN rows
    PROVE  rows[FindAudit(rows, a)].id = a
<1> DEFINE I == {i \in 1..Len(rows) : rows[i].id = a}
<1>1. FindAudit(rows, a) = IF I # {} THEN Min(I) ELSE 0
    BY DEF FindAudit, SelectInSeq
<1>2. I # {} /\ I \subseteq Nat
    BY <1>1
<1>3. \E n \in I : \A m \in I : n <= m
    BY <1>2, Least
<1>4. Min(I) \in I
    BY <1>3 DEF Min
<1> QED
    BY <1>1, <1>2, <1>4

LEMMA FindRunFinds ==
    ASSUME NEW S, NEW rows \in Seq(S), NEW id,
           FindRun(rows, id) \in DOMAIN rows
    PROVE  rows[FindRun(rows, id)].id = id
<1>1. FindRun(rows, id) = FindAudit(rows, id)
    BY DEF FindRun, FindAudit, SelectInSeq
<1> QED
    BY <1>1, FindAuditFinds

\* An audit that is registered is found.
LEMMA FindAuditInside ==
    ASSUME NEW S, NEW rows \in Seq(S), NEW a, FindAudit(rows, a) # 0
    PROVE  FindAudit(rows, a) \in DOMAIN rows
<1> DEFINE I == {i \in 1..Len(rows) : rows[i].id = a}
<1>1. FindAudit(rows, a) = IF I # {} THEN Min(I) ELSE 0
    BY DEF FindAudit, SelectInSeq
<1>2. I # {} /\ I \subseteq Nat
    BY <1>1
<1>3. \E n \in I : \A m \in I : n <= m
    BY <1>2, Least
<1>4. Min(I) \in I
    BY <1>3 DEF Min
<1> QED
    BY <1>1, <1>2, <1>4

-----------------------------------------------------------------------------
(* Tables that claim no more than what was earned: E is a set of audits.    *)

GoodAuditRow(row, E) ==
    /\ row \in AuditRow
    /\ row.status = "COMPLETED" => row.id \in E
    /\ row.latest \in RunId => row.latest.audit = row.id

GoodRunRow(row, E) ==
    /\ row \in RunRow
    /\ row.status = "COMPLETED" => row.id.audit \in E

GoodRegistry(rows, E) ==
    rows \in Seq(AuditRow) /\ \A i \in DOMAIN rows : GoodAuditRow(rows[i], E)

GoodRuns(rows, E) ==
    rows \in Seq(RunRow) /\ \A i \in DOMAIN rows : GoodRunRow(rows[i], E)

KnowsRun(c) == c.run \in RunId /\ (c.op = "execute" => c.n \in 1..MaxRuns)

\* The steps a handler still has are in their order, and one that has read
\* both tables knows its run.
Ordered(c) ==
    /\ Len(c.todo) # 0
    /\ \A i \in DOMAIN c.todo : c.todo[i] = "readRegistry" => i = 1
    /\ \A i \in DOMAIN c.todo : c.todo[i] = "readRuns" =>
          i = 1 \/ (i = 2 /\ c.todo[1] = "readRegistry")
    /\ c.op = "create" => \A i \in DOMAIN c.todo : c.todo[i] \in {"readRegistry", "addAudit"}
    /\ c.op = "sync" => \A i \in DOMAIN c.todo : c.todo[i] \notin {"addRun", "openAudit"}
    /\ c.op # "create" /\ c.todo[1] = "readRegistry" =>
          Len(c.todo) > 1 /\ c.todo[2] = "readRuns"
    /\ c.op = "execute" =>
          \/ \E i \in DOMAIN c.todo : c.todo[i] \in {"readRegistry", "readRuns"}
          \/ KnowsRun(c)
    /\ c.op \notin {"create", "execute"} =>
          (\E i \in DOMAIN c.todo : c.todo[i] = "readRegistry") \/ KnowsRun(c)

\* What a handler holds, but for the steps it still has.
GoodMemory(c, E) ==
    /\ c \in Memory
    /\ GoodRegistry(c.registry, E)
    /\ GoodRuns(c.runs, E)
    /\ c.ready => c.audit \in E
    /\ c.run \in RunId => c.run.audit = c.audit

GoodProc(c, E) == c = Idle \/ (GoodMemory(c, E) /\ Ordered(c))

IInv ==
    /\ TypeOK
    /\ GoodRegistry(registry, earned)
    /\ GoodRuns(runs, earned)
    /\ \A a \in AuditId : receipt[a] => a \in earned
    /\ \A p \in Proc : GoodProc(proc[p], earned)

-----------------------------------------------------------------------------

LEMMA MoreEarned ==
    ASSUME NEW E, NEW F, E \subseteq F
    PROVE  /\ \A rows : GoodRegistry(rows, E) => GoodRegistry(rows, F)
           /\ \A rows : GoodRuns(rows, E) => GoodRuns(rows, F)
           /\ \A c : GoodProc(c, E) => GoodProc(c, F)
<1>1. \A rows : GoodRegistry(rows, E) => GoodRegistry(rows, F)
    BY DEF GoodRegistry, GoodAuditRow
<1>2. \A rows : GoodRuns(rows, E) => GoodRuns(rows, F)
    BY DEF GoodRuns, GoodRunRow
<1> QED
    BY <1>1, <1>2 DEF GoodProc, GoodMemory

\* Rows that replace or join good ones.
LEMMA RegistryAppend ==
    ASSUME NEW E, NEW rows, GoodRegistry(rows, E), NEW row, GoodAuditRow(row, E)
    PROVE  GoodRegistry(Append(rows, row), E)
<1> HIDE DEF AuditRow
<1>1. rows \in Seq(AuditRow) /\ row \in AuditRow
    BY DEF GoodRegistry, GoodAuditRow
<1>2. Append(rows, row) \in Seq(AuditRow)
      /\ \A i \in DOMAIN Append(rows, row) :
            (i \in DOMAIN rows /\ Append(rows, row)[i] = rows[i]) \/ Append(rows, row)[i] = row
    BY <1>1
<1> QED
    BY <1>2 DEF GoodRegistry

LEMMA RunsAppend ==
    ASSUME NEW E, NEW rows, GoodRuns(rows, E), NEW row, GoodRunRow(row, E)
    PROVE  GoodRuns(Append(rows, row), E)
<1> HIDE DEF RunRow
<1>1. rows \in Seq(RunRow) /\ row \in RunRow
    BY DEF GoodRuns, GoodRunRow
<1>2. Append(rows, row) \in Seq(RunRow)
      /\ \A i \in DOMAIN Append(rows, row) :
            (i \in DOMAIN rows /\ Append(rows, row)[i] = rows[i]) \/ Append(rows, row)[i] = row
    BY <1>1
<1> QED
    BY <1>2 DEF GoodRuns

LEMMA RegistryReplace ==
    ASSUME NEW E, NEW rows, GoodRegistry(rows, E), NEW i, NEW row,
           i \in DOMAIN rows => GoodAuditRow(row, E)
    PROVE  GoodRegistry([rows EXCEPT ![i] = row], E)
<1> HIDE DEF AuditRow
<1>1. rows \in Seq(AuditRow) /\ (i \in DOMAIN rows => row \in AuditRow)
    BY DEF GoodRegistry, GoodAuditRow
<1> DEFINE new == [rows EXCEPT ![i] = row]
<1>2. new \in Seq(AuditRow) /\ DOMAIN new = DOMAIN rows
      /\ \A j \in DOMAIN rows : new[j] = IF j = i THEN row ELSE rows[j]
    <2>1. CASE i \in DOMAIN rows
        BY <1>1, <2>1
    <2>2. CASE i \notin DOMAIN rows
        <3>1. new = rows
            BY <1>1, <2>2
        <3> QED
            BY <1>1, <2>2, <3>1
    <2> QED
        BY <2>1, <2>2
<1> QED
    BY <1>2 DEF GoodRegistry

-----------------------------------------------------------------------------
(* Closing runs and audits.                                                 *)

LEMMA ClosedRunGood ==
    ASSUME NEW E, NEW row, GoodRunRow(row, E), NEW ready \in BOOLEAN,
           ready => row.id.audit \in E
    PROVE  GoodRunRow(Closed(row, ready), E)
    BY DEF GoodRunRow, Closed, Verdict, RunRow, RunStatus

LEMMA ClosedAuditGood ==
    ASSUME NEW E, NEW row, GoodAuditRow(row, E), NEW ready \in BOOLEAN,
           ready => row.id \in E
    PROVE  GoodAuditRow(Closed(row, ready), E)
    BY DEF GoodAuditRow, Closed, Verdict, AuditRow, RunStatus

LEMMA ClosedRunsGood ==
    ASSUME NEW E, NEW c, GoodMemory(c, E), c.run \in RunId
    PROVE  GoodRuns(ClosedRuns(c), E)
<1>1. c.ready \in BOOLEAN /\ (c.ready => c.run.audit \in E) /\ GoodRuns(c.runs, E)
    BY DEF GoodMemory, Memory
<1>2. c.runs \in Seq(RunRow)
    BY <1>1 DEF GoodRuns
<1>3. \A i \in DOMAIN c.runs : c.runs[i].id = c.run => GoodRunRow(Closed(c.runs[i], c.ready), E)
    BY <1>1, ClosedRunGood DEF GoodRuns
<1> HIDE DEF RunRow
<1>4. CASE c.op = "execute"
    <2> DEFINE new == [i \in DOMAIN c.runs |-> IF c.runs[i].id = c.run
                                               THEN Closed(c.runs[i], c.ready) ELSE c.runs[i]]
    <2>1. \A i \in DOMAIN c.runs : GoodRunRow(new[i], E)
        BY <1>1, <1>3 DEF GoodRuns
    <2>2. new \in Seq(RunRow)
        <3>1. DOMAIN c.runs = 1..Len(c.runs) /\ Len(c.runs) \in Nat
            BY <1>2
        <3>2. \A i \in 1..Len(c.runs) : new[i] \in RunRow
            BY <2>1, <3>1 DEF GoodRunRow
        <3>3. new \in [1..Len(c.runs) -> RunRow]
            BY <3>1, <3>2
        <3> HIDE DEF new
        <3> QED
            BY <3>1, <3>3
    <2>3. DOMAIN new = DOMAIN c.runs
        OBVIOUS
    <2> HIDE DEF new
    <2>4. GoodRuns(new, E)
        BY <2>1, <2>2, <2>3 DEF GoodRuns
    <2> QED
        BY <1>4, <2>4 DEF ClosedRuns, new
<1>5. CASE c.op # "execute"
    <2> DEFINE i == FindRun(c.runs, c.run)
               row == Closed(c.runs[i], c.ready)
    <2>1. i \in DOMAIN c.runs => GoodRunRow(row, E)
        BY <1>2, <1>3, FindRunFinds
    <2>2. ClosedRuns(c) = [c.runs EXCEPT ![i] = row]
        BY <1>5 DEF ClosedRuns
    <2> HIDE DEF i, row
    <2>3. CASE i \in DOMAIN c.runs
        <3>1. row \in RunRow
            BY <2>1, <2>3 DEF GoodRunRow
        <3>2. /\ ClosedRuns(c) \in Seq(RunRow) /\ DOMAIN ClosedRuns(c) = DOMAIN c.runs
              /\ \A j \in DOMAIN c.runs : ClosedRuns(c)[j] = IF j = i THEN row ELSE c.runs[j]
            BY <1>2, <2>2, <2>3, <3>1
        <3> QED
            BY <1>1, <2>1, <2>3, <3>2 DEF GoodRuns
    <2>4. CASE i \notin DOMAIN c.runs
        <3>1. ClosedRuns(c) = c.runs
            BY <1>2, <2>2, <2>4
        <3> QED
            BY <1>1, <3>1
    <2> QED
        BY <2>3, <2>4
<1> QED
    BY <1>4, <1>5

-----------------------------------------------------------------------------
(* A handler goes on.                                                       *)

\* Between its reads and its end, a handler knows its run.
LEMMA RunKnown ==
    ASSUME NEW c, Ordered(c), c.todo \in Seq(Step), c.op # "create",
           c.todo[1] # "readRegistry", c.todo[1] = "readRuns" => c.op # "execute"
    PROVE  KnowsRun(c)
    BY DEF Ordered

LEMMA OrderedTail ==
    ASSUME NEW c, NEW d, Ordered(c), c.todo \in Seq(Step), Len(c.todo) # 1,
           d.todo = Tail(c.todo), d.op = c.op,
           (c.todo[1] = "readRegistry" /\ c.op = "execute") \/ c.op = "create" \/ KnowsRun(d)
    PROVE  Ordered(d)
<1>1. /\ Len(c.todo) \in Nat /\ Len(c.todo) > 1
      /\ DOMAIN d.todo = 1..(Len(c.todo) - 1) /\ Len(d.todo) = Len(c.todo) - 1 /\ Len(d.todo) # 0
      /\ \A i \in DOMAIN d.todo : i + 1 \in DOMAIN c.todo /\ d.todo[i] = c.todo[i + 1]
    <2>1. Len(c.todo) # 0
        BY DEF Ordered
    <2> HIDE DEF Step
    <2>0. Len(c.todo) \in Nat
        OBVIOUS
    <2>2. Len(c.todo) \in Nat /\ Len(c.todo) > 1
        <3>1. \A n \in Nat : n # 0 /\ n # 1 => n > 1
            OBVIOUS
        <3> QED
            BY <2>0, <2>1, <3>1
    <2> DEFINE t == Tail(c.todo)
    <2>3. /\ DOMAIN t = 1..(Len(c.todo) - 1) /\ Len(t) = Len(c.todo) - 1
          /\ \A i \in DOMAIN t : i + 1 \in DOMAIN c.todo /\ t[i] = c.todo[i + 1]
        BY <2>2
    <2> HIDE DEF t
    <2> QED
        BY <2>2, <2>3 DEF t
<1>2. 1 \in DOMAIN c.todo /\ 1 \in DOMAIN d.todo
    BY <1>1
<1>3. \A i \in DOMAIN d.todo : d.todo[i] # "readRegistry"
    BY <1>1 DEF Ordered
<1>4. \A i \in DOMAIN d.todo : d.todo[i] = "readRuns" => i = 1
    BY <1>1 DEF Ordered
<1>5. d.op = "create" => \A i \in DOMAIN d.todo : d.todo[i] \in {"readRegistry", "addAudit"}
    BY <1>1 DEF Ordered
<1>6. d.op = "sync" => \A i \in DOMAIN d.todo : d.todo[i] \notin {"addRun", "openAudit"}
    BY <1>1 DEF Ordered
<1>7. d.op = "execute" => \/ \E i \in DOMAIN d.todo : d.todo[i] \in {"readRegistry", "readRuns"}
                          \/ KnowsRun(d)
    <2>1. CASE c.todo[1] = "readRegistry" /\ c.op # "create"
        <3>1. d.todo[1] = "readRuns"
            BY <2>1, <1>1, <1>2 DEF Ordered
        <3> QED
            BY <3>1, <1>2
    <2> QED
        BY <2>1
<1>8. d.op \notin {"create", "execute"} => KnowsRun(d)
    OBVIOUS
<1> QED
    BY <1>1, <1>2, <1>3, <1>4, <1>5, <1>6, <1>7, <1>8 DEF Ordered

ProcsGood(E) ==
    proc' \in [Proc -> Memory \cup {Idle}] /\ \A q \in Proc : GoodProc(proc'[q], E)

LEMMA AtStep ==
    ASSUME IInv, NEW p \in Proc, NEW s, At(p, s)
    PROVE  /\ proc[p] \in Memory /\ GoodMemory(proc[p], earned) /\ Ordered(proc[p])
           /\ proc[p].todo \in Seq(Step) /\ proc[p].todo[1] = s
           /\ proc[p].audit \in AuditId
<1>1. proc[p] # Idle
    BY DEF At, Idle
<1>2. GoodMemory(proc[p], earned) /\ Ordered(proc[p])
    BY <1>1 DEF IInv, GoodProc
<1>3. proc[p] \in Memory
    BY <1>2 DEF GoodMemory
<1>4. proc[p].todo \in Seq(Step) /\ proc[p].audit \in AuditId
    <2> HIDE DEF Step, AuditId
    <2> QED
        BY <1>3 DEF Memory
<1>5. proc[p].todo[1] = s
    BY <1>4 DEF At
<1> QED
    BY <1>2, <1>3, <1>4, <1>5

LEMMA GoesOn ==
    ASSUME proc \in [Proc -> Memory \cup {Idle}], NEW E, \A q \in Proc : GoodProc(proc[q], E),
           NEW p \in Proc, NEW c, GoodMemory(c, E), Ordered(proc[p]),
           c.todo \in Seq(Step), c.todo = proc[p].todo, c.op = proc[p].op,
           (c.todo[1] = "readRegistry" /\ c.op = "execute") \/ c.op = "create" \/ KnowsRun(c),
           GoOn(p, c)
    PROVE  ProcsGood(E)
<1> DEFINE d == [c EXCEPT !.todo = Tail(@)]
<1>1. c \in Memory
    BY DEF GoodMemory
<1>2. CASE Len(c.todo) = 1
    <2>1. proc' = [proc EXCEPT ![p] = Idle]
        BY <1>2 DEF GoOn
    <2> HIDE DEF Memory
    <2> QED
        BY <2>1 DEF ProcsGood, GoodProc
<1>3. CASE Len(c.todo) # 1
    <2>1. proc' = [proc EXCEPT ![p] = d]
        BY <1>3 DEF GoOn
    <2>2. Len(c.todo) # 0
        BY DEF Ordered
    <2>3. Tail(c.todo) \in Seq(Step)
        <3> HIDE DEF Step
        <3>0. Len(c.todo) \in Nat
            OBVIOUS
        <3>1. \A n \in Nat : n # 0 => n > 0
            OBVIOUS
        <3>2. Len(c.todo) > 0
            BY <2>2, <3>0, <3>1
        <3> QED
            BY <3>2
    <2>4. /\ d \in Memory /\ d.todo = Tail(c.todo) /\ d.op = c.op
          /\ d.registry = c.registry /\ d.runs = c.runs /\ d.ready = c.ready
          /\ d.audit = c.audit /\ d.run = c.run /\ d.n = c.n
        <3> HIDE DEF Step, AuditId, AuditRow, RunRow, RunId
        <3> QED
            BY <1>1, <2>3 DEF Memory
    <2> HIDE DEF d
    <2>5. GoodMemory(d, E)
        BY <2>4 DEF GoodMemory
    <2>6. KnowsRun(c) => KnowsRun(d)
        BY <2>4 DEF KnowsRun
    <2>7. Ordered(d)
        BY <1>3, <2>4, <2>6, OrderedTail
    <2> HIDE DEF Memory
    <2> QED
        BY <2>1, <2>4, <2>5, <2>7 DEF ProcsGood, GoodProc
<1> QED
    BY <1>2, <1>3

LEMMA StaysIdle ==
    ASSUME proc \in [Proc -> Memory \cup {Idle}], NEW E, \A q \in Proc : GoodProc(proc[q], E),
           NEW p \in Proc, Refuse(p)
    PROVE  ProcsGood(E)
<1> HIDE DEF Memory
<1> QED
    BY DEF Refuse, ProcsGood, GoodProc

\* A handler that holds other rows.
LEMMA HoldsRegistry ==
    ASSUME NEW E, NEW c, GoodMemory(c, E), NEW rows, GoodRegistry(rows, E)
    PROVE  LET d == [c EXCEPT !.registry = rows]
           IN  /\ GoodMemory(d, E) /\ d.todo = c.todo /\ d.op = c.op /\ d.runs = c.runs
               /\ d.run = c.run /\ d.n = c.n /\ d.ready = c.ready /\ d.audit = c.audit
<1> DEFINE d == [c EXCEPT !.registry = rows]
<1>1. c \in Memory /\ rows \in Seq(AuditRow)
    BY DEF GoodMemory, GoodRegistry
<1>2. /\ d \in Memory /\ d.todo = c.todo /\ d.op = c.op
      /\ d.registry = rows /\ d.runs = c.runs /\ d.ready = c.ready
      /\ d.audit = c.audit /\ d.run = c.run /\ d.n = c.n
    <2> HIDE DEF Step, AuditId, AuditRow, RunRow, RunId
    <2> QED
        BY <1>1 DEF Memory
<1> HIDE DEF d
<1> QED
    BY <1>2 DEF GoodMemory, d

LEMMA HoldsRuns ==
    ASSUME NEW E, NEW c, GoodMemory(c, E), NEW rows, GoodRuns(rows, E)
    PROVE  LET d == [c EXCEPT !.runs = rows]
           IN  /\ GoodMemory(d, E) /\ d.todo = c.todo /\ d.op = c.op
               /\ d.run = c.run /\ d.n = c.n /\ d.ready = c.ready /\ d.audit = c.audit
<1> DEFINE d == [c EXCEPT !.runs = rows]
<1>1. c \in Memory /\ rows \in Seq(RunRow)
    BY DEF GoodMemory, GoodRuns
<1>2. /\ d \in Memory /\ d.todo = c.todo /\ d.op = c.op
      /\ d.registry = c.registry /\ d.runs = rows /\ d.ready = c.ready
      /\ d.audit = c.audit /\ d.run = c.run /\ d.n = c.n
    <2> HIDE DEF Step, AuditId, AuditRow, RunRow, RunId
    <2> QED
        BY <1>1 DEF Memory
<1> HIDE DEF d
<1> QED
    BY <1>2 DEF GoodMemory, d

-----------------------------------------------------------------------------
(* One lemma per action.                                                    *)

StepGood ==
    /\ GoodRegistry(registry', earned') /\ GoodRuns(runs', earned')
    /\ \A a \in AuditId : receipt'[a] => a \in earned'
    /\ ProcsGood(earned')
    /\ receipt' \in [AuditId -> BOOLEAN] /\ seeded' \subseteq AuditId
    /\ clock' \in Time /\ started' \in 0..MaxRuns /\ earned' \subseteq AuditId
    /\ overlapped' \in BOOLEAN /\ deaths' \in 0..MaxDeaths

\* A step that writes no file and adds nothing to the history.
LEMMA MemoryOnly ==
    ASSUME IInv, UNCHANGED <<files, clock, history>>, ProcsGood(earned)
    PROVE  StepGood
    BY DEF IInv, TypeOK, files, history, StepGood

LEMMA WritesRegistry ==
    ASSUME IInv, NEW p \in Proc, NEW s \in {"addAudit", "openAudit", "closeAudit"}, At(p, s),
           NEW rows, GoodRegistry(rows, earned), WriteRegistry(p, rows)
    PROVE  StepGood
<1> DEFINE c == proc[p]
           d == [c EXCEPT !.registry = rows]
<1>1. /\ GoodMemory(c, earned) /\ Ordered(c)
      /\ c.todo \in Seq(Step) /\ c.todo[1] = s
    BY AtStep
<1>2. /\ GoodMemory(d, earned) /\ d.todo = c.todo /\ d.op = c.op
      /\ d.run = c.run /\ d.n = c.n
    BY <1>1, HoldsRegistry
<1>3. GoOn(p, d)
    BY DEF WriteRegistry
<1> HIDE DEF d
<1>4. d.op = "create" \/ KnowsRun(d)
    BY <1>1, <1>2, RunKnown DEF KnowsRun
<1>5. ProcsGood(earned)
    BY <1>1, <1>2, <1>3, <1>4, GoesOn DEF IInv, TypeOK
<1> QED
    BY <1>5 DEF WriteRegistry, IInv, TypeOK, history, StepGood

LEMMA WritesRuns ==
    ASSUME IInv, NEW p \in Proc, NEW s \in {"addRun", "closeRun"}, At(p, s),
           NEW rows, GoodRuns(rows, earned), WriteRuns(p, rows)
    PROVE  StepGood
<1> DEFINE c == proc[p]
           d == [c EXCEPT !.runs = rows]
<1>1. /\ GoodMemory(c, earned) /\ Ordered(c)
      /\ c.todo \in Seq(Step) /\ c.todo[1] = s
    BY AtStep
<1>2. /\ GoodMemory(d, earned) /\ d.todo = c.todo /\ d.op = c.op
      /\ d.run = c.run /\ d.n = c.n
    BY <1>1, HoldsRuns
<1>3. GoOn(p, d)
    BY DEF WriteRuns
<1> HIDE DEF d
<1>4. d.op = "create" \/ KnowsRun(d)
    BY <1>1, <1>2, RunKnown DEF KnowsRun
<1>5. ProcsGood(earned)
    BY <1>1, <1>2, <1>3, <1>4, GoesOn DEF IInv, TypeOK
<1> QED
    BY <1>5 DEF WriteRuns, IInv, TypeOK, history, StepGood

LEMMA StepBegin ==
    ASSUME IInv, NEW p \in Proc, NEW op \in {"create", "execute", "sync"},
           NEW a \in AuditId, Begin(p, op, a)
    PROVE  StepGood
<1> DEFINE c == [op |-> op, todo |-> Steps(op), audit |-> a, registry |-> << >>,
                 runs |-> << >>, run |-> NoRun, n |-> 0, ready |-> FALSE]
<1>1. proc' = [proc EXCEPT ![p] = c] /\ UNCHANGED <<files, clock, started, earned, deaths>>
      /\ overlapped' \in BOOLEAN
    BY DEF Begin
<1>2. Steps(op) \in Seq(Step)
    <2>1. CASE op = "create"
        BY <2>1 DEF Steps, Step
    <2>2. CASE op = "execute"
        BY <2>2 DEF Steps, Step
    <2>3. CASE op = "sync"
        BY <2>3 DEF Steps, Step
    <2> QED
        BY <2>1, <2>2, <2>3
<1>3. c \in Memory
    <2>1. 0 \in 0..MaxRuns /\ << >> \in Seq(AuditRow) /\ << >> \in Seq(RunRow)
        BY RunsAssumption
    <2> HIDE DEF Step, AuditId, AuditRow, RunRow, RunId
    <2> QED
        BY <1>2, <2>1 DEF Memory
<1>4. Ordered(c)
    <2>1. c.op = op /\ c.todo = Steps(op)
        OBVIOUS
    <2> HIDE DEF c
    <2>2. CASE op = "create"
        BY <2>1, <2>2 DEF Ordered, Steps
    <2>3. CASE op = "execute"
        BY <2>1, <2>3 DEF Ordered, Steps
    <2>4. CASE op = "sync"
        BY <2>1, <2>4 DEF Ordered, Steps
    <2> QED
        BY <2>2, <2>3, <2>4
<1>5. /\ c.registry = << >> /\ c.runs = << >> /\ c.ready = FALSE /\ c.run = NoRun
    OBVIOUS
<1> HIDE DEF c
<1>6. GoodMemory(c, earned)
    BY <1>3, <1>5, NoRunIsNone DEF GoodMemory, GoodRegistry, GoodRuns
<1>7. ProcsGood(earned)
    <2> HIDE DEF Memory
    <2> QED
        BY <1>1, <1>3, <1>4, <1>6 DEF IInv, TypeOK, ProcsGood, GoodProc
<1> QED
    BY <1>1, <1>7 DEF IInv, TypeOK, files, StepGood

LEMMA StepReadRegistry ==
    ASSUME IInv, NEW p \in Proc, ReadRegistry(p)
    PROVE  StepGood
<1> DEFINE c == proc[p]
           i == FindAudit(registry, c.audit)
<1>1. /\ c \in Memory /\ GoodMemory(c, earned) /\ Ordered(c) /\ c.todo \in Seq(Step)
      /\ c.todo[1] = "readRegistry"
    BY AtStep DEF ReadRegistry
<1>2. GoodRegistry(registry, earned) /\ registry \in Seq(AuditRow)
    BY DEF IInv, GoodRegistry
<1>3. CASE c.op = "create"
    <2> DEFINE d == [c EXCEPT !.registry = registry]
    <2>1. GoOn(p, d)
        BY <1>3 DEF ReadRegistry
    <2>2. GoodMemory(d, earned) /\ d.todo = c.todo /\ d.op = c.op
        BY <1>1, <1>2, HoldsRegistry
    <2> HIDE DEF d
    <2>3. ProcsGood(earned)
        BY <1>1, <1>3, <2>1, <2>2, GoesOn DEF IInv, TypeOK
    <2> QED
        BY <2>3, MemoryOnly DEF ReadRegistry
<1>4. CASE c.op # "create" /\ Refuse(p)
    <2>1. ProcsGood(earned)
        BY <1>4, StaysIdle DEF IInv, TypeOK
    <2> QED
        BY <2>1, MemoryOnly DEF ReadRegistry
<1>5. CASE c.op # "create" /\ ~Refuse(p)
    <2> DEFINE run == IF c.op = "sync" THEN registry[i].latest ELSE NoRun
               d == [c EXCEPT !.registry = registry, !.run = run]
    <2>1. GoOn(p, d) /\ i # 0 /\ ~(c.op = "sync" /\ registry[i].latest = NoRun)
        BY <1>5 DEF ReadRegistry
    <2>2. i \in DOMAIN registry /\ registry[i].id = c.audit
        <3> HIDE DEF AuditRow
        <3> QED
            BY <1>2, <2>1, FindAuditInside, FindAuditFinds
    <2>3. run \in RunId \cup {NoRun} /\ (run \in RunId => run.audit = c.audit)
        BY <1>2, <2>2, NoRunIsNone DEF GoodRegistry, GoodAuditRow, AuditRow
    <2> HIDE DEF run
    <2>4. /\ d \in Memory /\ d.todo = c.todo /\ d.op = c.op
          /\ d.registry = registry /\ d.runs = c.runs /\ d.ready = c.ready
          /\ d.audit = c.audit /\ d.run = run
        <3> HIDE DEF Step, AuditId, AuditRow, RunRow, RunId
        <3> QED
            BY <1>1, <1>2, <2>3 DEF Memory
    <2> HIDE DEF d
    <2>5. GoodMemory(d, earned)
        BY <1>1, <1>2, <2>3, <2>4 DEF GoodMemory
    <2>6. c.op = "execute" \/ KnowsRun(d)
        BY <1>1, <1>5, <2>1, <2>3, <2>4 DEF KnowsRun, Memory, run
    <2>7. ProcsGood(earned)
        BY <1>1, <2>1, <2>4, <2>5, <2>6, GoesOn DEF IInv, TypeOK
    <2> QED
        BY <2>7, MemoryOnly DEF ReadRegistry
<1> QED
    BY <1>3, <1>4, <1>5

LEMMA StepReadRuns ==
    ASSUME IInv, NEW p \in Proc, ReadRuns(p)
    PROVE  StepGood
<1> DEFINE c == proc[p]
<1>1. /\ c \in Memory /\ GoodMemory(c, earned) /\ Ordered(c) /\ c.todo \in Seq(Step)
      /\ c.todo[1] = "readRuns" /\ c.audit \in AuditId
    BY AtStep DEF ReadRuns
<1>2. GoodRuns(runs, earned) /\ runs \in Seq(RunRow) /\ started \in 0..MaxRuns /\ clock \in Time
    BY DEF IInv, GoodRuns, TypeOK
<1>3. UNCHANGED <<registry, runs, receipt, clock, earned, overlapped, deaths>>
    BY DEF ReadRuns
<1>4. ASSUME ProcsGood(earned), seeded' \subseteq AuditId, started' \in 0..MaxRuns
      PROVE  StepGood
    BY <1>3, <1>4 DEF IInv, TypeOK, StepGood
<1>5. CASE Refuse(p) /\ UNCHANGED <<seeded, started>>
    <2>1. ProcsGood(earned)
        BY <1>5, StaysIdle DEF IInv, TypeOK
    <2> QED
        BY <2>1, <1>4, <1>5 DEF IInv, TypeOK
<1>6. CASE /\ c.op = "execute" /\ started < MaxRuns
           /\ seeded' = seeded \cup {c.audit}
           /\ started' = started + 1
           /\ GoOn(p, [c EXCEPT !.runs = runs, !.n = started + 1,
                       !.run = [audit |-> c.audit, at |-> clock]])
    <2> DEFINE run == [audit |-> c.audit, at |-> clock]
               d == [c EXCEPT !.runs = runs, !.n = started + 1, !.run = run]
    <2>1. started + 1 \in 1..MaxRuns /\ started + 1 \in 0..MaxRuns
        BY <1>2, <1>6, RunsAssumption
    <2>2. run \in RunId /\ run.audit = c.audit
        BY <1>1, <1>2 DEF RunId
    <2>3. GoOn(p, d)
        BY <1>6
    <2> HIDE DEF run
    <2>4. /\ d \in Memory /\ d.todo = c.todo /\ d.op = c.op
          /\ d.registry = c.registry /\ d.runs = runs /\ d.ready = c.ready
          /\ d.audit = c.audit /\ d.run = run /\ d.n = started + 1
        <3> HIDE DEF Step, AuditId, AuditRow, RunRow, RunId
        <3> QED
            BY <1>1, <1>2, <2>1, <2>2 DEF Memory
    <2> HIDE DEF d
    <2>5. GoodMemory(d, earned)
        BY <1>1, <1>2, <2>2, <2>4 DEF GoodMemory
    <2>6. KnowsRun(d)
        BY <2>1, <2>2, <2>4 DEF KnowsRun
    <2>7. ProcsGood(earned)
        BY <1>1, <2>3, <2>4, <2>5, <2>6, GoesOn DEF IInv, TypeOK
    <2>8. seeded' \subseteq AuditId /\ started' \in 0..MaxRuns
        BY <1>1, <1>6, <2>1 DEF IInv, TypeOK
    <2> QED
        BY <1>4, <2>7, <2>8
<1>7. CASE /\ c.op # "execute"
           /\ GoOn(p, [c EXCEPT !.runs = runs])
           /\ UNCHANGED <<seeded, started>>
    <2> DEFINE d == [c EXCEPT !.runs = runs]
    <2>1. GoodMemory(d, earned) /\ d.todo = c.todo /\ d.op = c.op /\ d.run = c.run /\ d.n = c.n
        BY <1>1, <1>2, HoldsRuns
    <2>2. GoOn(p, d)
        BY <1>7
    <2> HIDE DEF d
    <2>3. KnowsRun(d) \/ c.op = "create"
        BY <1>1, <1>7, <2>1, RunKnown DEF KnowsRun
    <2>4. ProcsGood(earned)
        BY <1>1, <2>1, <2>2, <2>3, GoesOn DEF IInv, TypeOK
    <2> QED
        BY <1>4, <1>7, <2>4 DEF IInv, TypeOK
<1> QED
    BY <1>5, <1>6, <1>7 DEF ReadRuns

LEMMA StepAddAudit ==
    ASSUME IInv, NEW p \in Proc, AddAudit(p)
    PROVE  StepGood
<1> DEFINE c == proc[p]
           row == NewAudit(c.audit)
<1>1. At(p, "addAudit") /\ GoodRegistry(c.registry, earned) /\ c.audit \in AuditId
    BY AtStep DEF AddAudit, GoodMemory
<1>2. GoodAuditRow(row, earned)
    <2> HIDE DEF AuditId, RunId
    <2> QED
        BY <1>1, NoRunIsNone DEF NewAudit, GoodAuditRow, AuditRow, RunStatus
<1> HIDE DEF row
<1>3. GoodRegistry(Append(c.registry, row), earned)
    BY <1>1, <1>2, RegistryAppend
<1> QED
    BY <1>1, <1>3, WritesRegistry DEF AddAudit, row

LEMMA StepAddRun ==
    ASSUME IInv, NEW p \in Proc, AddRun(p)
    PROVE  StepGood
<1> DEFINE c == proc[p]
           row == NewRun(c.run, c.n)
<1>1. At(p, "addRun") /\ GoodRuns(c.runs, earned) /\ Ordered(c) /\ c.todo \in Seq(Step)
      /\ c.todo[1] = "addRun" /\ c \in Memory
    BY AtStep DEF AddRun, GoodMemory
<1>2. 1 \in DOMAIN c.todo
    BY <1>1 DEF At
<1>3. c.op = "execute" /\ KnowsRun(c)
    <2>1. c.op \in {"create", "execute", "sync"}
        <3> HIDE DEF Step, AuditId, AuditRow, RunRow, RunId
        <3> QED
            BY <1>1 DEF Memory
    <2>2. c.op = "execute"
        BY <1>1, <1>2, <2>1 DEF Ordered
    <2> QED
        BY <1>1, <2>2, RunKnown
<1>4. GoodRunRow(row, earned)
    <2> HIDE DEF RunId
    <2> QED
        BY <1>3 DEF KnowsRun, NewRun, GoodRunRow, RunRow, RunStatus
<1> HIDE DEF row
<1>5. GoodRuns(Append(c.runs, row), earned)
    BY <1>1, <1>4, RunsAppend
<1> QED
    BY <1>1, <1>5, WritesRuns DEF AddRun, row

LEMMA StepOpenAudit ==
    ASSUME IInv, NEW p \in Proc, OpenAudit(p)
    PROVE  StepGood
<1> DEFINE c == proc[p]
           i == FindAudit(c.registry, c.audit)
           row == [c.registry[i] EXCEPT !.status = "RUNNING", !.latest = c.run]
<1>1. /\ At(p, "openAudit") /\ GoodRegistry(c.registry, earned) /\ GoodMemory(c, earned)
      /\ c \in Memory /\ c.registry \in Seq(AuditRow)
    BY AtStep DEF OpenAudit, GoodMemory, GoodRegistry
<1>2. c.run \in RunId \cup {NoRun} /\ (c.run \in RunId => c.run.audit = c.audit)
    <2> HIDE DEF Step, AuditId, AuditRow, RunRow, RunId
    <2> QED
        BY <1>1 DEF Memory, GoodMemory
<1>3. i \in DOMAIN c.registry => GoodAuditRow(row, earned)
    <2> SUFFICES ASSUME i \in DOMAIN c.registry  PROVE GoodAuditRow(row, earned)
        OBVIOUS
    <2>1. c.registry[i].id = c.audit /\ GoodAuditRow(c.registry[i], earned)
        <3> HIDE DEF AuditRow
        <3> QED
            BY <1>1, FindAuditFinds DEF GoodRegistry
    <2> HIDE DEF i
    <2> HIDE DEF AuditId, RunId
    <2> QED
        BY <1>2, <2>1 DEF GoodAuditRow, AuditRow, RunStatus
<1>4. [c.registry EXCEPT ![i].status = "RUNNING", ![i].latest = c.run]
          = [c.registry EXCEPT ![i] = row]
    <2> HIDE DEF i
    <2>1. CASE i \in DOMAIN c.registry
        BY <1>1, <2>1 DEF AuditRow
    <2>2. CASE i \notin DOMAIN c.registry
        BY <1>1, <2>2
    <2> QED
        BY <2>1, <2>2
<1> HIDE DEF row
<1>5. GoodRegistry([c.registry EXCEPT ![i] = row], earned)
    BY <1>1, <1>3, RegistryReplace
<1> QED
    BY <1>1, <1>4, <1>5, WritesRegistry DEF OpenAudit

LEMMA StepCloseAudit ==
    ASSUME IInv, NEW p \in Proc, CloseAudit(p)
    PROVE  StepGood
<1> DEFINE c == proc[p]
           i == FindAudit(c.registry, c.audit)
           row == Closed(c.registry[i], c.ready)
<1>1. /\ At(p, "closeAudit") /\ GoodRegistry(c.registry, earned) /\ GoodMemory(c, earned)
      /\ c \in Memory /\ c.registry \in Seq(AuditRow)
    BY AtStep DEF CloseAudit, GoodMemory, GoodRegistry
<1>2. c.ready \in BOOLEAN /\ (c.ready => c.audit \in earned)
    <2> HIDE DEF Step, AuditId, AuditRow, RunRow, RunId
    <2> QED
        BY <1>1 DEF Memory, GoodMemory
<1>3. i \in DOMAIN c.registry => GoodAuditRow(row, earned)
    <2> SUFFICES ASSUME i \in DOMAIN c.registry  PROVE GoodAuditRow(row, earned)
        OBVIOUS
    <2>1. c.registry[i].id = c.audit /\ GoodAuditRow(c.registry[i], earned)
        <3> HIDE DEF AuditRow
        <3> QED
            BY <1>1, FindAuditFinds DEF GoodRegistry
    <2> QED
        BY <1>2, <2>1, ClosedAuditGood
<1>4. WriteRegistry(p, [c.registry EXCEPT ![i] = row])
    BY DEF CloseAudit
<1> HIDE DEF row
<1>5. GoodRegistry([c.registry EXCEPT ![i] = row], earned)
    BY <1>1, <1>3, RegistryReplace
<1> QED
    BY <1>1, <1>4, <1>5, WritesRegistry

LEMMA StepCloseRun ==
    ASSUME IInv, NEW p \in Proc, CloseRun(p)
    PROVE  StepGood
<1> DEFINE c == proc[p]
<1>1. /\ At(p, "closeRun") /\ GoodMemory(c, earned) /\ Ordered(c) /\ c.todo \in Seq(Step)
      /\ c.todo[1] = "closeRun"
    BY AtStep DEF CloseRun
<1>2. 1 \in DOMAIN c.todo
    BY <1>1 DEF At
<1>3. c.op # "create"
    BY <1>1, <1>2 DEF Ordered
<1>4. c.run \in RunId
    BY <1>1, <1>3, RunKnown DEF KnowsRun
<1>5. GoodRuns(ClosedRuns(c), earned)
    BY <1>1, <1>4, ClosedRunsGood
<1> QED
    BY <1>1, <1>5, WritesRuns DEF CloseRun

LEMMA StepReadReceipt ==
    ASSUME IInv, NEW p \in Proc, ReadReceipt(p)
    PROVE  StepGood
<1> DEFINE c == proc[p]
           ready == receipt[c.audit]
           d == [c EXCEPT !.ready = ready]
<1>1. /\ c \in Memory /\ GoodMemory(c, earned) /\ Ordered(c) /\ c.todo \in Seq(Step)
      /\ c.todo[1] = "readReceipt" /\ c.audit \in AuditId
    BY AtStep DEF ReadReceipt
<1>2. ready \in BOOLEAN /\ (ready => c.audit \in earned)
    BY <1>1 DEF IInv, TypeOK
<1>3. GoOn(p, d)
    BY DEF ReadReceipt
<1> HIDE DEF ready
<1>4. /\ d \in Memory /\ d.todo = c.todo /\ d.op = c.op
      /\ d.registry = c.registry /\ d.runs = c.runs /\ d.ready = ready
      /\ d.audit = c.audit /\ d.run = c.run /\ d.n = c.n
    <2> HIDE DEF Step, AuditId, AuditRow, RunRow, RunId
    <2> QED
        BY <1>1, <1>2 DEF Memory
<1> HIDE DEF d
<1>5. GoodMemory(d, earned)
    BY <1>1, <1>2, <1>4 DEF GoodMemory
<1>6. d.op = "create" \/ KnowsRun(d)
    BY <1>1, <1>4, RunKnown DEF KnowsRun
<1>7. ProcsGood(earned)
    BY <1>1, <1>3, <1>4, <1>5, <1>6, GoesOn DEF IInv, TypeOK
<1> QED
    BY <1>7, MemoryOnly DEF ReadReceipt

LEMMA StepPipeline ==
    ASSUME IInv, NEW p \in Proc, Pipeline(p)
    PROVE  StepGood
<1> DEFINE c == proc[p]
<1>1. /\ GoodMemory(c, earned) /\ Ordered(c) /\ c.todo \in Seq(Step)
      /\ c.todo[1] = "pipeline" /\ c.audit \in AuditId
    BY AtStep DEF Pipeline
<1>2. PICK ready \in BOOLEAN :
          /\ receipt' = [receipt EXCEPT ![c.audit] = ready]
          /\ earned' = IF ready THEN earned \cup {c.audit} ELSE earned
    BY DEF Pipeline
<1>3. earned \subseteq earned' /\ earned' \subseteq AuditId
    BY <1>1, <1>2 DEF IInv, TypeOK
<1>4. /\ GoodRegistry(registry, earned') /\ GoodRuns(runs, earned')
      /\ \A q \in Proc : GoodProc(proc[q], earned')
    BY <1>3, MoreEarned DEF IInv
<1>5. GoodMemory(c, earned')
    BY <1>1, <1>4 DEF GoodProc, Idle, Ordered
<1>6. ProcsGood(earned')
    <2>1. CASE Refuse(p)
        BY <2>1, <1>4, StaysIdle DEF IInv, TypeOK
    <2>2. CASE GoOn(p, c)
        <3>1. c.op = "create" \/ KnowsRun(c)
            BY <1>1, RunKnown
        <3> QED
            BY <2>2, <3>1, <1>1, <1>4, <1>5, GoesOn DEF IInv, TypeOK
    <2> QED
        BY <2>1, <2>2 DEF Pipeline
<1>7. receipt' \in [AuditId -> BOOLEAN] /\ \A a \in AuditId : receipt'[a] => a \in earned'
    BY <1>1, <1>2 DEF IInv, TypeOK
<1> QED
    BY <1>3, <1>4, <1>6, <1>7 DEF Pipeline, IInv, TypeOK, StepGood

LEMMA StepPipelineRaises ==
    ASSUME IInv, NEW p \in Proc, PipelineRaises(p)
    PROVE  StepGood
<1>1. ProcsGood(earned)
    BY StaysIdle DEF IInv, TypeOK, PipelineRaises
<1> QED
    BY <1>1, MemoryOnly DEF PipelineRaises

LEMMA StepDie ==
    ASSUME IInv, NEW p \in Proc, Die(p)
    PROVE  StepGood
<1>1. ProcsGood(earned)
    BY StaysIdle DEF IInv, TypeOK, Die
<1>2. /\ registry' = registry \/ registry' = << >>
      /\ runs' = runs \/ runs' = << >>
      /\ UNCHANGED <<receipt, seeded, clock, started, earned, overlapped>>
    BY DEF Die
<1>3. GoodRegistry(<< >>, earned) /\ GoodRuns(<< >>, earned)
    BY DEF GoodRegistry, GoodRuns
<1>4. deaths' \in 0..MaxDeaths
    BY RunsAssumption DEF IInv, TypeOK, Die
<1> QED
    BY <1>1, <1>2, <1>3, <1>4 DEF IInv, TypeOK, StepGood

LEMMA StepTick ==
    ASSUME IInv, Tick
    PROVE  StepGood
<1>1. clock' \in Time
    BY RunsAssumption DEF IInv, TypeOK, Tick, Time
<1>2. ProcsGood(earned)
    BY DEF IInv, TypeOK, Tick, ProcsGood
<1> QED
    BY <1>1, <1>2 DEF IInv, TypeOK, Tick, files, history, StepGood

LEMMA StepStutter ==
    ASSUME IInv, UNCHANGED vars
    PROVE  StepGood
<1>1. ProcsGood(earned)
    BY DEF IInv, TypeOK, vars, ProcsGood
<1> QED
    BY <1>1, MemoryOnly DEF vars

-----------------------------------------------------------------------------
(* The invariant, and the theorems.                                         *)

LEMMA Initially == Init => IInv
<1> SUFFICES ASSUME Init  PROVE IInv
    OBVIOUS
<1>1. TypeOK
    <2> HIDE DEF Memory, AuditId, AuditRow, RunRow
    <2>1. registry \in Seq(AuditRow) /\ runs \in Seq(RunRow)
        BY DEF Init
    <2>2. clock \in Time /\ started \in 0..MaxRuns /\ deaths \in 0..MaxDeaths
        BY RunsAssumption DEF Init, Time
    <2>3. proc \in [Proc -> Memory \cup {Idle}] /\ receipt \in [AuditId -> BOOLEAN]
        BY DEF Init
    <2> QED
        BY <2>1, <2>2, <2>3 DEF Init, TypeOK
<1>2. GoodRegistry(registry, earned) /\ GoodRuns(runs, earned)
    BY DEF Init, GoodRegistry, GoodRuns
<1> QED
    BY <1>1, <1>2 DEF Init, IInv, GoodProc

LEMMA Inductive ==
    ASSUME IInv, [Next]_vars
    PROVE  IInv'
<1>1. ASSUME NEW p \in Proc, Handle(p)
      PROVE  StepGood
    BY <1>1, StepReadRegistry, StepReadRuns, StepAddAudit, StepAddRun, StepOpenAudit,
       StepPipeline, StepPipelineRaises, StepReadReceipt, StepCloseRun, StepCloseAudit
    DEF Handle
<1>2. StepGood
    BY <1>1, StepBegin, StepDie, StepTick, StepStutter DEF Next
<1>3. registry' \in Seq(AuditRow) /\ runs' \in Seq(RunRow)
    BY <1>2 DEF StepGood, GoodRegistry, GoodRuns
<1>4. TypeOK'
    BY <1>2, <1>3 DEF StepGood, ProcsGood, TypeOK
<1> QED
    BY <1>2, <1>4 DEF StepGood, ProcsGood, IInv

LEMMA Invariant == Spec => []IInv
    BY Initially, Inductive, PTL DEF Spec

\* The tables and the memory of the handlers hold rows the code can make,
\* whatever the handlers overlap and wherever a process dies.
THEOREM TypesHold == Spec => []TypeOK
<1>1. IInv => TypeOK
    BY DEF IInv
<1> QED
    BY <1>1, Invariant, PTL

\* No row of either table is COMPLETED unless a pipeline of its audit wrote a
\* ready receipt (execute_audit_run, sync_audit_run_from_artifacts).
THEOREM CompletedEarned == Spec => []CompletedIsEarned
<1>1. IInv => CompletedIsEarned
    BY DEF IInv, GoodRegistry, GoodRuns, GoodAuditRow, GoodRunRow, CompletedIsEarned
<1> QED
    BY <1>1, Invariant, PTL

-----------------------------------------------------------------------------
(* Handlers that do not overlap.                                            *)

\* A handler that has read the table of runs and may write it.
HoldsTable(c) ==
    c # Idle /\ c.op # "create" /\ c.todo[1] \notin {"readRegistry", "readRuns"}

\* Unless two handlers overlapped, one is under way at most; unless a process
\* died, too, what it holds of the runs is what the file holds.
FreshInv ==
    ~overlapped =>
        /\ \A p, q \in Proc : proc[p] # Idle /\ proc[q] # Idle => p = q
        /\ deaths = 0 => \A p \in Proc : HoldsTable(proc[p]) => proc[p].runs = runs

\* What is left of a handler after a step.
LEMMA WentOn ==
    ASSUME IInv, NEW p \in Proc, NEW s, At(p, s), NEW c, DOMAIN c = DOMAIN proc[p],
           c.todo = proc[p].todo, c.op = proc[p].op, GoOn(p, c)
    PROVE  /\ \A q \in Proc \ {p} : proc'[q] = proc[q]
           /\ \/ proc'[p] = Idle
              \/ /\ proc'[p].runs = c.runs /\ proc'[p].op = c.op
                 /\ Len(c.todo) > 1 /\ proc'[p].todo[1] = c.todo[2]
<1>1. /\ proc[p] \in Memory /\ proc[p].todo \in Seq(Step) /\ Len(proc[p].todo) # 0
      /\ proc \in [Proc -> Memory \cup {Idle}]
    BY AtStep DEF IInv, TypeOK, Ordered
<1>2. {"op", "todo", "runs"} \subseteq DOMAIN c
    <2> HIDE DEF Step, AuditId, AuditRow, RunRow, RunId
    <2> QED
        BY <1>1 DEF Memory
<1>3. \A q \in Proc \ {p} : proc'[q] = proc[q]
    <2> HIDE DEF Memory
    <2> QED
        BY <1>1 DEF GoOn
<1>4. CASE Len(c.todo) = 1
    <2> HIDE DEF Memory
    <2> QED
        BY <1>1, <1>3, <1>4 DEF GoOn
<1>5. CASE Len(c.todo) # 1
    <2>1. proc'[p] = [c EXCEPT !.todo = Tail(@)]
        <3> HIDE DEF Memory
        <3> QED
            BY <1>1, <1>5 DEF GoOn
    <2>2. Len(c.todo) > 1 /\ Tail(c.todo)[1] = c.todo[2]
        <3> HIDE DEF Step
        <3>1. Len(c.todo) \in Nat /\ Len(c.todo) # 0 /\ c.todo \in Seq(Step)
            BY <1>1
        <3>2. \A n \in Nat : n # 0 /\ n # 1 => n > 1
            OBVIOUS
        <3>3. Len(c.todo) > 1
            BY <1>5, <3>1, <3>2
        <3> QED
            BY <3>1, <3>3
    <2> QED
        BY <1>2, <1>3, <2>1, <2>2
<1> QED
    BY <1>4, <1>5

\* A step of the handler of p that leaves it idle, without the table, or with
\* the table as it is.
LEMMA StaysFresh ==
    ASSUME IInv, FreshInv, NEW p \in Proc, proc[p] # Idle,
           \A q \in Proc \ {p} : proc'[q] = proc[q],
           HoldsTable(proc'[p]) /\ ~overlapped /\ deaths = 0 => proc'[p].runs = runs',
           UNCHANGED <<overlapped, deaths>>
    PROVE  FreshInv'
<1> SUFFICES ASSUME ~overlapped PROVE FreshInv'
    BY DEF FreshInv
<1>1. \A q \in Proc \ {p} : proc'[q] = Idle
    BY DEF FreshInv
<1> QED
    BY <1>1 DEF FreshInv, HoldsTable

\* The first step and the memory of a handler that takes one.
LEMMA AtHeld ==
    ASSUME IInv, FreshInv, NEW p \in Proc, NEW s, At(p, s)
    PROVE  /\ proc[p] # Idle /\ {"op", "todo", "runs", "run", "registry", "n", "ready"}
                                    \subseteq DOMAIN proc[p]
           /\ proc[p].op # "create" /\ s \notin {"readRegistry", "readRuns"}
                  /\ ~overlapped /\ deaths = 0 => proc[p].runs = runs
<1>1. proc[p] \in Memory /\ proc[p].todo[1] = s
    BY AtStep
<1>2. proc[p] # Idle
    BY DEF At, Idle
<1>3. {"op", "todo", "runs", "run", "registry", "n", "ready"} \subseteq DOMAIN proc[p]
    <2> HIDE DEF Step, AuditId, AuditRow, RunRow, RunId
    <2> QED
        BY <1>1 DEF Memory
<1> QED
    BY <1>1, <1>2, <1>3 DEF FreshInv, HoldsTable

\* A step after which the handler holds the runs it held, which no step wrote.
LEMMA FreshByRest ==
    ASSUME IInv, FreshInv, NEW p \in Proc, NEW s, At(p, s),
           s \notin {"readRegistry", "readRuns"}, NEW c, DOMAIN c = DOMAIN proc[p],
           c.todo = proc[p].todo, c.op = proc[p].op, c.runs = proc[p].runs,
           GoOn(p, c) \/ Refuse(p), UNCHANGED <<runs, overlapped, deaths>>
    PROVE  FreshInv'
<1>1. proc[p] # Idle
      /\ (proc[p].op # "create" /\ ~overlapped /\ deaths = 0 => proc[p].runs = runs)
    BY AtHeld
<1>2. CASE GoOn(p, c)
    <2>1. /\ \A q \in Proc \ {p} : proc'[q] = proc[q]
          /\ proc'[p] = Idle \/ (proc'[p].runs = c.runs /\ proc'[p].op = c.op)
        BY <1>2, WentOn
    <2> QED
        BY <1>1, <2>1, StaysFresh DEF HoldsTable
<1>3. CASE Refuse(p)
    <2>1. proc'[p] = Idle /\ \A q \in Proc \ {p} : proc'[q] = proc[q]
        <3>1. proc \in [Proc -> Memory \cup {Idle}]
            BY DEF IInv, TypeOK
        <3> HIDE DEF Memory
        <3> QED
            BY <1>3, <3>1 DEF Refuse
    <2> QED
        BY <1>1, <2>1, StaysFresh DEF HoldsTable
<1> QED
    BY <1>2, <1>3

LEMMA RefusesFresh ==
    ASSUME IInv, FreshInv, NEW p \in Proc, NEW s, At(p, s), Refuse(p),
           UNCHANGED <<overlapped, deaths>>
    PROVE  FreshInv'
<1>1. proc[p] # Idle
    BY AtHeld
<1>2. proc'[p] = Idle /\ \A q \in Proc \ {p} : proc'[q] = proc[q]
    <2>1. proc \in [Proc -> Memory \cup {Idle}]
        BY DEF IInv, TypeOK
    <2> HIDE DEF Memory
    <2> QED
        BY <2>1 DEF Refuse
<1> QED
    BY <1>1, <1>2, StaysFresh DEF HoldsTable

\* A handler that reads the runs holds them.
LEMMA FreshReadRuns == ASSUME IInv, FreshInv, NEW p \in Proc, ReadRuns(p) PROVE FreshInv'
<1> DEFINE c == proc[p]
<1>1. /\ At(p, "readRuns") /\ UNCHANGED <<runs, overlapped, deaths>>
      /\ c # Idle /\ {"op", "todo", "runs", "run", "n"} \subseteq DOMAIN c
    BY AtHeld DEF ReadRuns
<1>2. \/ Refuse(p)
      \/ GoOn(p, [c EXCEPT !.runs = runs, !.n = started + 1,
                           !.run = [audit |-> c.audit, at |-> clock]])
      \/ GoOn(p, [c EXCEPT !.runs = runs])
    BY DEF ReadRuns
<1>3. ASSUME NEW d, DOMAIN d = DOMAIN c, d.todo = c.todo, d.op = c.op, d.runs = runs, GoOn(p, d)
      PROVE  FreshInv'
    <2>1. /\ \A q \in Proc \ {p} : proc'[q] = proc[q]
          /\ proc'[p] = Idle \/ proc'[p].runs = d.runs
        BY <1>1, <1>3, WentOn
    <2> QED
        BY <1>1, <1>3, <2>1, StaysFresh DEF HoldsTable
<1>4. CASE Refuse(p)
    BY <1>1, <1>4, RefusesFresh
<1>5. CASE GoOn(p, [c EXCEPT !.runs = runs, !.n = started + 1,
                             !.run = [audit |-> c.audit, at |-> clock]])
    <2> DEFINE d == [c EXCEPT !.runs = runs, !.n = started + 1,
                              !.run = [audit |-> c.audit, at |-> clock]]
    <2>1. DOMAIN d = DOMAIN c /\ d.todo = c.todo /\ d.op = c.op /\ d.runs = runs
        BY <1>1
    <2> HIDE DEF d
    <2> QED
        BY <1>3, <1>5, <2>1 DEF d
<1>6. CASE GoOn(p, [c EXCEPT !.runs = runs])
    <2> DEFINE d == [c EXCEPT !.runs = runs]
    <2>1. DOMAIN d = DOMAIN c /\ d.todo = c.todo /\ d.op = c.op /\ d.runs = runs
        BY <1>1
    <2> HIDE DEF d
    <2> QED
        BY <1>3, <1>6, <2>1 DEF d
<1> QED
    BY <1>2, <1>4, <1>5, <1>6

\* A handler that reads the register reads the runs next, unless it creates.
LEMMA FreshReadRegistry ==
    ASSUME IInv, FreshInv, NEW p \in Proc, ReadRegistry(p) PROVE FreshInv'
<1> DEFINE c == proc[p]
           run == IF c.op = "sync" THEN registry[FindAudit(registry, c.audit)].latest ELSE NoRun
<1>1. /\ At(p, "readRegistry") /\ UNCHANGED <<runs, overlapped, deaths>>
      /\ c # Idle /\ {"op", "todo", "runs", "run", "registry"} \subseteq DOMAIN c
    BY AtHeld DEF ReadRegistry, files, history
<1>2. \/ Refuse(p)
      \/ GoOn(p, [c EXCEPT !.registry = registry])
      \/ GoOn(p, [c EXCEPT !.registry = registry, !.run = run])
    BY DEF ReadRegistry
<1>3. ASSUME NEW d, DOMAIN d = DOMAIN c, d.todo = c.todo, d.op = c.op, GoOn(p, d)
      PROVE  FreshInv'
    <2>1. /\ \A q \in Proc \ {p} : proc'[q] = proc[q]
          /\ \/ proc'[p] = Idle
             \/ proc'[p].op = c.op /\ Len(c.todo) > 1 /\ proc'[p].todo[1] = c.todo[2]
        BY <1>1, <1>3, WentOn
    <2>2. c.op = "create" \/ c.todo[2] = "readRuns"
        BY <1>1, AtStep DEF Ordered
    <2>3. ~HoldsTable(proc'[p])
        BY <2>1, <2>2 DEF HoldsTable
    <2> QED
        BY <1>1, <2>1, <2>3, StaysFresh
<1>4. CASE Refuse(p)
    BY <1>1, <1>4, RefusesFresh
<1>5. CASE GoOn(p, [c EXCEPT !.registry = registry])
    <2> DEFINE d == [c EXCEPT !.registry = registry]
    <2>1. DOMAIN d = DOMAIN c /\ d.todo = c.todo /\ d.op = c.op
        BY <1>1
    <2> HIDE DEF d
    <2> QED
        BY <1>3, <1>5, <2>1 DEF d
<1>6. CASE GoOn(p, [c EXCEPT !.registry = registry, !.run = run])
    <2> DEFINE d == [c EXCEPT !.registry = registry, !.run = run]
    <2>1. DOMAIN d = DOMAIN c /\ d.todo = c.todo /\ d.op = c.op
        BY <1>1
    <2> HIDE DEF d
    <2> QED
        BY <1>3, <1>6, <2>1 DEF d
<1> QED
    BY <1>2, <1>4, <1>5, <1>6

\* A handler that writes the runs holds what it wrote.
LEMMA FreshWritesRuns ==
    ASSUME IInv, FreshInv, NEW p \in Proc, NEW s, At(p, s), NEW rows, WriteRuns(p, rows)
    PROVE  FreshInv'
<1> DEFINE d == [proc[p] EXCEPT !.runs = rows]
<1>1. /\ proc[p] # Idle /\ DOMAIN d = DOMAIN proc[p] /\ d.runs = rows
      /\ d.todo = proc[p].todo /\ d.op = proc[p].op
    BY AtHeld
<1>2. GoOn(p, d) /\ runs' = rows /\ UNCHANGED <<overlapped, deaths>>
    BY DEF WriteRuns, history
<1> HIDE DEF d
<1>3. /\ \A q \in Proc \ {p} : proc'[q] = proc[q]
      /\ proc'[p] = Idle \/ proc'[p].runs = rows
    BY <1>1, <1>2, WentOn
<1> QED
    BY <1>1, <1>2, <1>3, StaysFresh DEF HoldsTable

LEMMA FreshWritesRegistry ==
    ASSUME IInv, FreshInv, NEW p \in Proc, NEW s \in {"addAudit", "openAudit", "closeAudit"},
           At(p, s), NEW rows, WriteRegistry(p, rows)
    PROVE  FreshInv'
<1> DEFINE d == [proc[p] EXCEPT !.registry = rows]
<1>1. /\ DOMAIN d = DOMAIN proc[p] /\ d.runs = proc[p].runs
      /\ d.todo = proc[p].todo /\ d.op = proc[p].op
    BY AtHeld
<1>2. GoOn(p, d) /\ UNCHANGED <<runs, overlapped, deaths>>
    BY DEF WriteRegistry, history
<1> HIDE DEF d
<1> QED
    BY <1>1, <1>2, FreshByRest

LEMMA FreshHandle ==
    ASSUME IInv, FreshInv, NEW p \in Proc, Handle(p)
    PROVE  FreshInv'
<1>1. CASE AddAudit(p) \/ OpenAudit(p) \/ CloseAudit(p)
    BY <1>1, FreshWritesRegistry DEF AddAudit, OpenAudit, CloseAudit
<1>2. CASE AddRun(p) \/ CloseRun(p)
    BY <1>2, FreshWritesRuns DEF AddRun, CloseRun
<1>3. CASE Pipeline(p)
    BY <1>3, FreshByRest DEF Pipeline
<1>4. CASE PipelineRaises(p)
    BY <1>4, RefusesFresh DEF PipelineRaises, history
<1>5. CASE ReadReceipt(p)
    <2> DEFINE d == [proc[p] EXCEPT !.ready = receipt[proc[p].audit]]
    <2>1. At(p, "readReceipt") /\ GoOn(p, d) /\ UNCHANGED <<runs, overlapped, deaths>>
        BY <1>5 DEF ReadReceipt, files, history
    <2>2. /\ DOMAIN d = DOMAIN proc[p] /\ d.runs = proc[p].runs
          /\ d.todo = proc[p].todo /\ d.op = proc[p].op
        BY <2>1, AtHeld
    <2> HIDE DEF d
    <2> QED
        BY <2>1, <2>2, FreshByRest
<1> QED
    BY <1>1, <1>2, <1>3, <1>4, <1>5, FreshReadRegistry, FreshReadRuns DEF Handle

LEMMA FreshBegin ==
    ASSUME IInv, FreshInv, NEW p \in Proc, NEW op \in {"create", "execute", "sync"},
           NEW a \in AuditId, Begin(p, op, a)
    PROVE  FreshInv'
<1> DEFINE c == [op |-> op, todo |-> Steps(op), audit |-> a, registry |-> << >>,
                 runs |-> << >>, run |-> NoRun, n |-> 0, ready |-> FALSE]
<1>1. /\ proc' = [proc EXCEPT ![p] = c] /\ UNCHANGED <<runs, deaths>>
      /\ ~overlapped' => ~overlapped /\ \A q \in Proc \ {p} : proc[q] = Idle
    BY DEF Begin, files
<1>2. c.todo[1] = "readRegistry"
    BY DEF Steps
<1> HIDE DEF c
<1>3. proc \in [Proc -> Memory \cup {Idle}]
    BY DEF IInv, TypeOK
<1>4. proc'[p] = c /\ \A q \in Proc \ {p} : proc'[q] = proc[q]
    <2> HIDE DEF Memory
    <2> QED
        BY <1>1, <1>3
<1> QED
    BY <1>1, <1>2, <1>4 DEF FreshInv, HoldsTable

LEMMA FreshDie ==
    ASSUME IInv, FreshInv, NEW p \in Proc, Die(p)
    PROVE  FreshInv'
<1>1. proc' = [proc EXCEPT ![p] = Idle] /\ overlapped' = overlapped
    BY DEF Die, Refuse
<1>2. deaths' # 0
    BY RunsAssumption DEF IInv, TypeOK, Die
<1>3. proc \in [Proc -> Memory \cup {Idle}]
    BY DEF IInv, TypeOK
<1>4. proc'[p] = Idle /\ \A q \in Proc \ {p} : proc'[q] = proc[q]
    <2> HIDE DEF Memory
    <2> QED
        BY <1>1, <1>3
<1> QED
    BY <1>1, <1>2, <1>4 DEF FreshInv

LEMMA FreshHolds == Spec => [](IInv /\ FreshInv)
<1>1. Init => IInv /\ FreshInv
    BY Initially DEF Init, FreshInv, HoldsTable
<1>2. IInv /\ FreshInv /\ [Next]_vars => (IInv /\ FreshInv)'
    <2> SUFFICES ASSUME IInv, FreshInv, [Next]_vars PROVE FreshInv'
        BY Inductive
    <2>1. CASE Tick \/ UNCHANGED vars
        BY <2>1 DEF Tick, vars, files, history, FreshInv, HoldsTable
    <2> QED
        BY <2>1, FreshBegin, FreshHandle, FreshDie DEF Next
<1> QED
    BY <1>1, <1>2, PTL DEF Spec

-----------------------------------------------------------------------------

\* A row that is closed keeps its number and is closed.
LEMMA ClosedKeeps ==
    ASSUME NEW row \in RunRow, NEW ready
    PROVE  Closed(row, ready).n = row.n /\ Closed(row, ready).status # "RUNNING"
<1>1. Verdict(ready) # "RUNNING"
    BY DEF Verdict
<1> HIDE DEF RunId
<1> QED
    BY <1>1 DEF Closed, RunRow

LEMMA ClosingKeeps ==
    ASSUME NEW c, c.runs \in Seq(RunRow), NEW i \in DOMAIN c.runs,
           c.runs[i].status # "RUNNING"
    PROVE  /\ i \in DOMAIN ClosedRuns(c) /\ ClosedRuns(c)[i].n = c.runs[i].n
           /\ ClosedRuns(c)[i].status # "RUNNING"
<1>1. c.runs[i] \in RunRow
    <2> HIDE DEF RunRow
    <2> QED
        OBVIOUS
<1>2. /\ Closed(c.runs[i], c.ready).n = c.runs[i].n
      /\ Closed(c.runs[i], c.ready).status # "RUNNING"
    BY <1>1, ClosedKeeps
<1>3. CASE c.op = "execute"
    BY <1>2, <1>3 DEF ClosedRuns
<1>4. CASE c.op # "execute"
    <2> DEFINE k == FindRun(c.runs, c.run)
               row == Closed(c.runs[k], c.ready)
    <2>1. ClosedRuns(c) = [c.runs EXCEPT ![k] = row]
        BY <1>4 DEF ClosedRuns
    <2>2. k = i => row = Closed(c.runs[i], c.ready)
        OBVIOUS
    <2> HIDE DEF k, row
    <2>3. i \in DOMAIN ClosedRuns(c) /\ ClosedRuns(c)[i] = IF k = i THEN row ELSE c.runs[i]
        BY <2>1
    <2> QED
        BY <1>2, <2>2, <2>3
<1> QED
    BY <1>3, <1>4

\* What handlers that never overlap and never die promise of a run that
\* execute_audit_run or a sync has closed: its row stays in audit_runs.jsonl
\* and stays closed, since every handler writes back what the file holds.
THEOREM ClosedStay == Spec => ClosedRunsStay
<1>1. ASSUME IInv, FreshInv, [Next]_vars
      PROVE  [\A i \in DOMAIN runs :
                  runs[i].status # "RUNNING" /\ ~overlapped' /\ deaths' = 0 =>
                      \E j \in DOMAIN runs' :
                          runs'[j].n = runs[i].n /\ runs'[j].status # "RUNNING"]_vars
    <2> SUFFICES ASSUME ~overlapped', deaths' = 0, NEW i \in DOMAIN runs,
                        runs[i].status # "RUNNING"
                 PROVE  \E j \in DOMAIN runs' :
                            runs'[j].n = runs[i].n /\ runs'[j].status # "RUNNING"
        OBVIOUS
    <2>1. CASE runs' = runs
        BY <2>1
    <2>2. ASSUME NEW p \in Proc, Die(p) PROVE FALSE
        BY <2>2, RunsAssumption, <1>1 DEF Die, IInv, TypeOK
    <2>3. ASSUME NEW p \in Proc, AddRun(p) \/ CloseRun(p)
          PROVE  \E j \in DOMAIN runs' :
                     runs'[j].n = runs[i].n /\ runs'[j].status # "RUNNING"
        <3> DEFINE c == proc[p]
        <3>1. PICK s \in {"addRun", "closeRun"} : At(p, s)
            BY <2>3 DEF AddRun, CloseRun
        <3>2. UNCHANGED <<overlapped, deaths>>
            BY <2>3 DEF AddRun, CloseRun, WriteRuns, history
        <3>3. c.op # "create"
            <4>1. Ordered(c) /\ c.todo \in Seq(Step) /\ c.todo[1] = s
                BY <1>1, <3>1, AtStep
            <4>2. 1 \in DOMAIN c.todo
                BY <4>1, <3>1 DEF At
            <4> QED
                BY <3>1, <4>1, <4>2 DEF Ordered
        <3>4. c.runs = runs
            BY <1>1, <3>1, <3>2, <3>3, AtHeld
        <3>5. runs \in Seq(RunRow)
            BY <1>1 DEF IInv, TypeOK
        <3>6. CASE AddRun(p)
            <4>1. runs' = Append(runs, NewRun(c.run, c.n))
                BY <3>4, <3>6 DEF AddRun, WriteRuns
            <4>2. i \in DOMAIN runs' /\ runs'[i] = runs[i]
                <5> HIDE DEF RunRow
                <5> QED
                    BY <3>5, <4>1
            <4> QED
                BY <4>2
        <3>7. CASE CloseRun(p)
            <4>1. runs' = ClosedRuns(c)
                BY <3>7 DEF CloseRun, WriteRuns
            <4> QED
                BY <3>4, <3>5, <4>1, ClosingKeeps
        <3> QED
            BY <2>3, <3>6, <3>7
    <2>4. \/ runs' = runs
          \/ \E p \in Proc : Die(p) \/ AddRun(p) \/ CloseRun(p)
        BY <1>1 DEF Next, Handle, Begin, ReadRegistry, ReadRuns, AddAudit, OpenAudit, Pipeline,
                    PipelineRaises, ReadReceipt, CloseAudit, WriteRegistry, Tick, files, vars
    <2> QED
        BY <2>1, <2>2, <2>3, <2>4
<1> QED
    BY <1>1, FreshHolds, PTL DEF Spec, ClosedRunsStay

-----------------------------------------------------------------------------
(* The register and the table of runs agree between requests, as long as   *)
(* handlers do not overlap, processes do not die and ids are not made       *)
(* twice.  The two files are written one after the other, so the invariant  *)
(* says for every step of a handler which audit and which run are between.  *)

NextStep(op, s) ==
    CASE s = "readRegistry" -> IF op = "create" THEN "addAudit" ELSE "readRuns"
      [] s = "readRuns"     -> IF op = "execute" THEN "addRun" ELSE "readReceipt"
      [] s = "addRun"       -> "openAudit"
      [] s = "openAudit"    -> "pipeline"
      [] s = "pipeline"     -> "readReceipt"
      [] s = "readReceipt"  -> "closeRun"
      [] s = "closeRun"     -> "closeAudit"
      [] OTHER              -> "none"

\* The steps a handler still has are the last ones of its operation.
InOrder(c) ==
    /\ \A i \in DOMAIN c.todo : i + 1 \in DOMAIN c.todo =>
           c.todo[i + 1] = NextStep(c.op, c.todo[i])
    /\ c.todo[Len(c.todo)] \in {"addAudit", "closeAudit"}

\* A row of the register says what the table of runs says.
Agrees(row) ==
    /\ (\A k \in DOMAIN runs : runs[k].id # row.latest) => row.status = "CREATED"
    /\ \A k \in DOMAIN runs : runs[k].id = row.latest =>
           /\ row.status = runs[k].status
           /\ row.status = "RUNNING" \/ row.ready = runs[k].ready

\* The files agree but for the audits of X and the runs of Y, and m runs are
\* in the table.
View(X, Y, m) ==
    /\ \A i \in DOMAIN registry : registry[i].id \in X \/ Agrees(registry[i])
    /\ \A k \in DOMAIN runs : runs[k].status = "RUNNING" =>
           runs[k].id \in Y \/ \E j \in DOMAIN registry : registry[j].latest = runs[k].id
    /\ {runs[k].n : k \in DOMAIN runs} = 1..m

LatestIs(c) == \A i \in DOMAIN registry : registry[i].id = c.audit => registry[i].latest = c.run

InTable(c) == \E k \in DOMAIN runs : runs[k].id = c.run

\* What holds of the files and the memory of a handler before each step.
Before(c, s) ==
    /\ c.op # "create" /\ s # "readRegistry" => c.audit \in Registered(registry)
    /\ c.op = "sync" /\ s = "readRuns" => LatestIs(c)
    /\ s \in {"pipeline", "readReceipt", "closeRun", "closeAudit"} => LatestIs(c) /\ InTable(c)
    /\ s = "addRun" => c.n = started /\ ~Active(runs, c.audit)
    /\ s = "openAudit" =>
           /\ InTable(c)
           /\ \A k \in DOMAIN runs : runs[k].id = c.run => runs[k].status = "RUNNING"
           /\ \A k \in DOMAIN runs :
                  runs[k].id.audit = c.audit /\ runs[k].status = "RUNNING" => runs[k].id = c.run
    /\ s = "closeAudit" =>
           \A k \in DOMAIN runs : runs[k].id = c.run =>
               runs[k].status = Verdict(c.ready) /\ runs[k].ready = c.ready

BeforeView(c, s) ==
    View(IF s \in {"openAudit", "closeAudit"} THEN {c.audit} ELSE {},
         IF s = "openAudit" THEN {c.run} ELSE {},
         IF s = "addRun" THEN started - 1 ELSE started)

\* Handler p is the only one.
Alone(p) ==
    /\ proc[p] # Idle /\ \A q \in Proc \ {p} : proc[q] = Idle
    /\ InOrder(proc[p])
    /\ proc[p].todo[1] # "readRegistry" => proc[p].registry = registry
    /\ DistinctIds => Before(proc[p], proc[p].todo[1]) /\ BeforeView(proc[p], proc[p].todo[1])

Rests == Quiet /\ (DistinctIds => View({}, {}, started))

CalmInv == ~overlapped /\ deaths = 0 => Rests \/ \E p \in Proc : Alone(p)

AllInv == IInv /\ FreshInv /\ CalmInv

-----------------------------------------------------------------------------
(* Searches.                                                                *)

LEMMA FindNone ==
    ASSUME NEW S, NEW rows \in Seq(S), NEW id, FindRun(rows, id) = 0
    PROVE  \A k \in DOMAIN rows : rows[k].id # id
<1> DEFINE I == {i \in 1..Len(rows) : rows[i].id = id}
<1>1. FindRun(rows, id) = IF I # {} THEN Min(I) ELSE 0
    BY DEF FindRun, SelectInSeq
<1>2. ASSUME I # {} PROVE FALSE
    <2>1. I \subseteq Nat
        OBVIOUS
    <2>2. \E n \in I : \A m \in I : n <= m
        BY <1>2, <2>1, Least
    <2>3. Min(I) \in I
        BY <2>2 DEF Min
    <2> QED
        BY <1>1, <1>2, <2>3
<1> QED
    BY <1>2

LEMMA FindSame == ASSUME NEW rows, NEW id PROVE FindRun(rows, id) = FindAudit(rows, id)
    BY DEF FindRun, FindAudit, SelectInSeq

LEMMA FindIs ==
    ASSUME NEW S, NEW rows \in Seq(S), NEW id, \E k \in DOMAIN rows : rows[k].id = id
    PROVE  FindRun(rows, id) \in DOMAIN rows /\ rows[FindRun(rows, id)].id = id
<1>1. FindRun(rows, id) # 0
    BY FindNone
<1>2. FindRun(rows, id) \in DOMAIN rows
    BY <1>1, FindSame, FindAuditInside
<1> QED
    BY <1>2, FindRunFinds

-----------------------------------------------------------------------------
(* A handler goes on.                                                       *)

LEMMA StepsInOrder ==
    ASSUME NEW op \in {"create", "execute", "sync"}, NEW c, c.op = op, c.todo = Steps(op)
    PROVE  InOrder(c) /\ c.todo[1] = "readRegistry"
<1>1. CASE op = "create"
    BY <1>1 DEF Steps, InOrder, NextStep
<1>2. CASE op = "execute"
    BY <1>2 DEF Steps, InOrder, NextStep
<1>3. CASE op = "sync"
    BY <1>3 DEF Steps, InOrder, NextStep
<1> QED
    BY <1>1, <1>2, <1>3

Fields == {"op", "todo", "audit", "registry", "runs", "run", "n", "ready"}

\* c is what p holds, but for what it has read.
Same(c, p) ==
    /\ DOMAIN c = Fields /\ c.todo = proc[p].todo /\ c.op = proc[p].op
    /\ c.audit = proc[p].audit

LEMMA AtMemory ==
    ASSUME IInv, NEW p \in Proc, NEW s, At(p, s)
    PROVE  /\ DOMAIN proc[p] = Fields /\ proc[p] # Idle /\ proc[p].todo[1] = s
           /\ proc[p].todo \in Seq(Step) /\ Len(proc[p].todo) > 0
           /\ proc[p].op \in {"create", "execute", "sync"} /\ proc[p].audit \in AuditId
<1>1. /\ proc[p] \in Memory /\ Ordered(proc[p]) /\ proc[p].todo \in Seq(Step)
      /\ proc[p].todo[1] = s /\ proc[p].audit \in AuditId /\ proc[p] # Idle
    BY AtStep DEF At, Idle
<1>2. DOMAIN proc[p] = Fields /\ proc[p].op \in {"create", "execute", "sync"}
    <2> HIDE DEF Step, AuditId, AuditRow, RunRow, RunId
    <2> QED
        BY <1>1 DEF Memory, Fields
<1>3. Len(proc[p].todo) \in Nat /\ Len(proc[p].todo) # 0
    <2> HIDE DEF Step
    <2>1. Len(proc[p].todo) \in Nat
        BY <1>1
    <2> QED
        BY <1>1, <2>1 DEF Ordered
<1>4. \A n \in Nat : n # 0 => n > 0
    OBVIOUS
<1> QED
    BY <1>1, <1>2, <1>3, <1>4

LEMMA Moves ==
    ASSUME IInv, NEW p \in Proc, NEW s, At(p, s), InOrder(proc[p]),
           NEW c, Same(c, p), GoOn(p, c)
    PROVE  /\ \A q \in Proc \ {p} : proc'[q] = proc[q]
           /\ s \in {"addAudit", "closeAudit"} => proc'[p] = Idle
           /\ s \notin {"addAudit", "closeAudit"} =>
                  /\ proc'[p] # Idle /\ proc'[p].todo[1] = NextStep(c.op, s)
                  /\ InOrder(proc'[p]) /\ proc'[p].op = c.op /\ proc'[p].audit = c.audit
                  /\ proc'[p].registry = c.registry /\ proc'[p].runs = c.runs
                  /\ proc'[p].run = c.run /\ proc'[p].n = c.n /\ proc'[p].ready = c.ready
<1> DEFINE t == proc[p].todo
<1>1. /\ t \in Seq(Step) /\ Len(t) > 0 /\ t[1] = s /\ c.todo = t
      /\ proc[p].op = c.op /\ c.op \in {"create", "execute", "sync"}
    BY AtMemory DEF Same
<1>2. Len(t) \in Nat /\ 1 \in DOMAIN t /\ DOMAIN t = 1..Len(t)
    <2> HIDE DEF Step
    <2> QED
        BY <1>1
<1>3. s \in {"addAudit", "closeAudit"} => Len(t) = 1
    <2> SUFFICES ASSUME s \in {"addAudit", "closeAudit"}, Len(t) # 1 PROVE FALSE
        OBVIOUS
    <2>0. \A n \in Nat : n > 0 /\ n # 1 => 2 \in 1..n
        OBVIOUS
    <2>1. 2 \in DOMAIN t /\ t[2] \in Step
        <3>1. 2 \in DOMAIN t
            BY <1>1, <1>2, <2>0
        <3> HIDE DEF t, Step
        <3> QED
            BY <1>1, <3>1
    <2>2. t[2] = NextStep(c.op, s)
        BY <1>1, <1>2, <2>1 DEF InOrder
    <2> QED
        BY <2>1, <2>2 DEF NextStep, Step
<1>4. s \notin {"addAudit", "closeAudit"} => Len(t) # 1
    BY <1>1 DEF InOrder
<1>5. proc \in [Proc -> Memory \cup {Idle}]
    BY DEF IInv, TypeOK
<1>6. \A q \in Proc \ {p} : proc'[q] = proc[q]
    <2> HIDE DEF Memory
    <2> QED
        BY <1>5 DEF GoOn
<1>7. CASE Len(t) = 1
    <2>1. proc'[p] = Idle
        <3> HIDE DEF Memory
        <3> QED
            BY <1>1, <1>5, <1>7 DEF GoOn
    <2> QED
        BY <1>4, <1>6, <1>7, <2>1
<1>8. CASE Len(t) # 1
    <2> DEFINE d == [c EXCEPT !.todo = Tail(@)]
    <2>1. proc'[p] = d
        <3> HIDE DEF Memory
        <3> QED
            BY <1>1, <1>5, <1>8 DEF GoOn
    <2>2. /\ d.todo = Tail(t) /\ d.op = c.op /\ d.audit = c.audit /\ d.registry = c.registry
          /\ d.runs = c.runs /\ d.run = c.run /\ d.n = c.n /\ d.ready = c.ready
        BY <1>1 DEF Same, Fields
    <2> HIDE DEF d
    <2>3. /\ Len(Tail(t)) = Len(t) - 1 /\ DOMAIN Tail(t) = 1..(Len(t) - 1)
          /\ \A i \in 1..(Len(t) - 1) : i + 1 \in DOMAIN t /\ Tail(t)[i] = t[i + 1]
        <3> HIDE DEF Step
        <3> QED
            BY <1>1, <1>2, <1>8
    <2>4. /\ 1 \in 1..(Len(t) - 1) /\ Len(t) - 1 \in 1..(Len(t) - 1)
          /\ Len(t) - 1 + 1 = Len(t)
        <3>1. \A n \in Nat : n > 0 /\ n # 1 =>
                  1 \in 1..(n - 1) /\ n - 1 \in 1..(n - 1) /\ n - 1 + 1 = n
            OBVIOUS
        <3> HIDE DEF t
        <3> QED
            BY <1>1, <1>2, <1>8, <3>1
    <2>5. Tail(t)[1] = NextStep(c.op, s)
        BY <1>1, <1>2, <2>3, <2>4 DEF InOrder
    <2>6. InOrder(d)
        <3>1. \A i \in 1..(Len(t) - 1) : i + 1 \in 1..(Len(t) - 1) =>
                  Tail(t)[i + 1] = NextStep(c.op, Tail(t)[i])
            BY <1>1, <2>3 DEF InOrder
        <3>2. Tail(t)[Len(t) - 1] = t[Len(t)]
            BY <2>3, <2>4
        <3>3. t[Len(t)] \in {"addAudit", "closeAudit"}
            BY DEF InOrder
        <3> HIDE DEF t
        <3> QED
            BY <1>1, <2>2, <2>3, <3>1, <3>2, <3>3 DEF InOrder
    <2>7. d # Idle
        BY <1>1, <2>2 DEF Idle
    <2> QED
        BY <1>3, <1>6, <1>8, <2>1, <2>2, <2>5, <2>6, <2>7
<1> QED
    BY <1>7, <1>8

-----------------------------------------------------------------------------
(* The only handler takes a step.                                           *)

LEMMA Own ==
    ASSUME AllInv, NEW p \in Proc, NEW s, At(p, s), ~overlapped, deaths = 0
    PROVE  /\ proc[p] # Idle /\ \A q \in Proc \ {p} : proc[q] = Idle
           /\ InOrder(proc[p])
           /\ s # "readRegistry" => proc[p].registry = registry
           /\ proc[p].op # "create" /\ s \notin {"readRegistry", "readRuns"} =>
                  proc[p].runs = runs
           /\ DistinctIds => Before(proc[p], s) /\ BeforeView(proc[p], s)
<1>1. IInv /\ FreshInv /\ CalmInv
    BY DEF AllInv
<1>2. proc[p] # Idle /\ proc[p].todo[1] = s
    BY <1>1, AtMemory
<1>3. PICK q \in Proc : Alone(q)
    BY <1>1, <1>2 DEF CalmInv, Rests, Quiet
<1>4. q = p
    BY <1>2, <1>3 DEF Alone
<1>5. proc[p].op # "create" /\ s \notin {"readRegistry", "readRuns"} => proc[p].runs = runs
    BY <1>1, AtHeld
<1> QED
    BY <1>2, <1>3, <1>4, <1>5 DEF Alone

\* Ids that are distinct after a step that keeps the rows in place were
\* distinct before it.
LEMMA IdsBefore ==
    ASSUME \A k \in DOMAIN runs : k \in DOMAIN runs' /\ runs'[k].id = runs[k].id,
           \A i \in DOMAIN registry : i \in DOMAIN registry' /\ registry'[i].id = registry[i].id,
           DistinctIds'
    PROVE  DistinctIds
    BY DEF DistinctIds

\* The handler has ended.
LEMMA Ended ==
    ASSUME NEW p \in Proc, \A q \in Proc \ {p} : proc[q] = Idle,
           \A q \in Proc \ {p} : proc'[q] = proc[q], proc'[p] = Idle,
           DistinctIds' => View({}, {}, started)'
    PROVE  Rests'
    BY DEF Rests, Quiet

LEMMA Refused ==
    ASSUME AllInv, NEW p \in Proc, NEW s \in {"readRegistry", "readRuns", "pipeline"}, At(p, s),
           ~overlapped, deaths = 0, Refuse(p), UNCHANGED <<registry, runs, started>>
    PROVE  Rests'
<1>1. \A q \in Proc \ {p} : proc[q] = Idle
    BY Own
<1>2. DistinctIds => View({}, {}, started)
    BY Own DEF BeforeView
<1>3. \A q \in Proc \ {p} : proc'[q] = proc[q]
    BY DEF Refuse, AllInv, IInv, TypeOK
<1>4. proc'[p] = Idle
    <2>1. proc \in [Proc -> Memory \cup {Idle}]
        BY DEF AllInv, IInv, TypeOK
    <2> HIDE DEF Memory
    <2> QED
        BY <2>1 DEF Refuse
<1>5. DistinctIds' => View({}, {}, started)'
    BY <1>2 DEF DistinctIds, View, Agrees
<1> QED
    BY <1>1, <1>3, <1>4, <1>5, Ended

\* A handler that goes on to step u, with what it needs there.
LEMMA Continued ==
    ASSUME NEW p \in Proc, \A q \in Proc \ {p} : proc[q] = Idle /\ proc'[q] = proc[q],
           proc'[p] # Idle, InOrder(proc'[p]), NEW u, u # "readRegistry",
           proc'[p].todo[1] = u, proc'[p].registry = registry',
           DistinctIds' => Before(proc[p], u)' /\ BeforeView(proc[p], u)'
    PROVE  Alone(p)'
    BY DEF Alone, InOrder

LEMMA RegistryRead ==
    ASSUME AllInv, NEW p \in Proc, ~overlapped, deaths = 0, ReadRegistry(p)
    PROVE  Rests' \/ Alone(p)'
<1> DEFINE c == proc[p]
           i == FindAudit(registry, c.audit)
           run == IF c.op = "sync" THEN registry[i].latest ELSE NoRun
<1>1. /\ At(p, "readRegistry") /\ UNCHANGED <<registry, runs, started>> /\ IInv
    BY DEF ReadRegistry, files, history, AllInv
<1>2. /\ c # Idle /\ \A q \in Proc \ {p} : proc[q] = Idle
      /\ InOrder(c) /\ (DistinctIds => View({}, {}, started))
      /\ DOMAIN c = Fields
    BY <1>1, Own, AtMemory DEF BeforeView
<1>3. CASE Refuse(p)
    BY <1>1, <1>3, Refused
<1>4. CASE c.op = "create" /\ GoOn(p, [c EXCEPT !.registry = registry])
    <2> DEFINE d == [c EXCEPT !.registry = registry]
    <2>1. Same(d, p) /\ d.registry = registry
        BY <1>2 DEF Same, Fields
    <2> HIDE DEF d
    <2>2. GoOn(p, d)
        BY <1>4 DEF d
    <2>3. /\ \A q \in Proc \ {p} : proc'[q] = proc[q]
          /\ proc'[p] # Idle /\ proc'[p].todo[1] = "addAudit" /\ InOrder(proc'[p])
          /\ proc'[p].registry = registry' /\ proc'[p].op = "create"
        BY <1>1, <1>2, <1>4, <2>1, <2>2, Moves DEF NextStep, Same
    <2>4. DistinctIds' => Before(proc[p], "addAudit")' /\ BeforeView(proc[p], "addAudit")'
        BY <1>1, <1>2, <2>3 DEF Before, BeforeView, View, Agrees, DistinctIds
    <2> QED
        BY <1>2, <2>3, <2>4, Continued
<1>5. CASE /\ c.op # "create" /\ i # 0
           /\ GoOn(p, [c EXCEPT !.registry = registry, !.run = run])
    <2> DEFINE d == [c EXCEPT !.registry = registry, !.run = run]
    <2>1. Same(d, p) /\ d.registry = registry /\ d.run = run
        BY <1>2 DEF Same, Fields
    <2>2. i \in DOMAIN registry /\ registry[i].id = c.audit
        <3>1. registry \in Seq(AuditRow)
            BY <1>1 DEF IInv, TypeOK
        <3> HIDE DEF AuditRow
        <3> QED
            BY <1>5, <3>1, FindAuditInside, FindAuditFinds
    <2>3. GoOn(p, d)
        BY <1>5
    <2> HIDE DEF d
    <2>4. /\ \A q \in Proc \ {p} : proc'[q] = proc[q]
          /\ proc'[p] # Idle /\ proc'[p].todo[1] = "readRuns" /\ InOrder(proc'[p])
          /\ proc'[p].registry = registry' /\ proc'[p].op = c.op
          /\ proc'[p].audit = c.audit /\ proc'[p].run = run
        BY <1>1, <1>2, <1>5, <2>1, <2>3, Moves DEF NextStep, Same
    <2>5. DistinctIds' => BeforeView(proc[p], "readRuns")'
        BY <1>1, <1>2 DEF BeforeView, View, Agrees, DistinctIds
    <2>6. proc'[p].audit \in Registered(registry)'
        BY <1>1, <2>2, <2>4 DEF Registered
    <2>7. DistinctIds' /\ proc'[p].op = "sync" => LatestIs(proc[p])'
        BY <1>1, <2>2, <2>4 DEF DistinctIds, LatestIs
    <2>8. DistinctIds' => Before(proc[p], "readRuns")'
        BY <2>6, <2>7 DEF Before
    <2> QED
        BY <1>2, <2>4, <2>5, <2>8, Continued
<1> QED
    BY <1>3, <1>4, <1>5 DEF ReadRegistry

LEMMA RunsRead ==
    ASSUME AllInv, NEW p \in Proc, ~overlapped, deaths = 0, ReadRuns(p)
    PROVE  Rests' \/ Alone(p)'
<1> DEFINE c == proc[p]
<1>1. At(p, "readRuns") /\ UNCHANGED <<registry, runs>> /\ IInv
    BY DEF ReadRuns, AllInv
<1>2. /\ c # Idle /\ \A q \in Proc \ {p} : proc[q] = Idle
      /\ InOrder(c) /\ c.registry = registry /\ DOMAIN c = Fields
      /\ c.op \in {"create", "execute", "sync"}
      /\ DistinctIds => Before(c, "readRuns") /\ View({}, {}, started)
    BY <1>1, Own, AtMemory DEF BeforeView
<1>3. c.op # "create"
    BY <1>1, AtStep DEF Ordered, At
<1>4. DistinctIds' => DistinctIds
    BY <1>1 DEF DistinctIds
<1>5. CASE Refuse(p) /\ UNCHANGED started
    BY <1>1, <1>5, Refused
<1>6. CASE /\ c.op = "execute" /\ ~Active(runs, c.audit) /\ started' = started + 1
           /\ GoOn(p, [c EXCEPT !.runs = runs, !.n = started + 1,
                                !.run = [audit |-> c.audit, at |-> clock]])
    <2> DEFINE d == [c EXCEPT !.runs = runs, !.n = started + 1,
                              !.run = [audit |-> c.audit, at |-> clock]]
    <2>1. Same(d, p) /\ d.registry = registry /\ d.n = started + 1
        BY <1>2 DEF Same, Fields
    <2>2. GoOn(p, d)
        BY <1>6
    <2> HIDE DEF d
    <2>3. /\ \A q \in Proc \ {p} : proc'[q] = proc[q]
          /\ proc'[p] # Idle /\ proc'[p].todo[1] = "addRun" /\ InOrder(proc'[p])
          /\ proc'[p].registry = registry' /\ proc'[p].op = "execute"
          /\ proc'[p].audit = c.audit /\ proc'[p].n = started'
        BY <1>1, <1>2, <1>6, <2>1, <2>2, Moves DEF NextStep, Same
    <2>4. started' - 1 = started
        BY <1>1, <1>6 DEF IInv, TypeOK
    <2>5. DistinctIds' => BeforeView(proc[p], "addRun")'
        <3>1. DistinctIds' => View({}, {}, started - 1)'
            BY <1>1, <1>2, <1>4, <2>4 DEF View, Agrees
        <3> QED
            BY <3>1 DEF BeforeView, View, Agrees
    <2>6. DistinctIds' => Before(proc[p], "addRun")'
        BY <1>1, <1>2, <1>3, <1>4, <1>6, <2>3 DEF Before, Active, Registered
    <2> QED
        BY <1>2, <2>3, <2>5, <2>6, Continued
<1>7. CASE /\ c.op # "execute" /\ FindRun(runs, c.run) # 0 /\ started' = started
           /\ GoOn(p, [c EXCEPT !.runs = runs])
    <2> DEFINE d == [c EXCEPT !.runs = runs]
    <2>1. Same(d, p) /\ d.registry = registry /\ d.run = c.run
        BY <1>2 DEF Same, Fields
    <2>2. GoOn(p, d)
        BY <1>7
    <2> HIDE DEF d
    <2>3. /\ \A q \in Proc \ {p} : proc'[q] = proc[q]
          /\ proc'[p] # Idle /\ proc'[p].todo[1] = "readReceipt" /\ InOrder(proc'[p])
          /\ proc'[p].registry = registry' /\ proc'[p].op = c.op
          /\ proc'[p].audit = c.audit /\ proc'[p].run = c.run
        BY <1>1, <1>2, <1>7, <2>1, <2>2, Moves DEF NextStep, Same
    <2>4. InTable(c)
        <3>1. runs \in Seq(RunRow)
            BY <1>1 DEF IInv, TypeOK
        <3>2. FindRun(runs, c.run) \in DOMAIN runs
            <4> HIDE DEF RunRow
            <4> QED
                BY <1>7, <3>1, FindSame, FindAuditInside
        <3> HIDE DEF RunRow
        <3>3. runs[FindRun(runs, c.run)].id = c.run
            BY <3>1, <3>2, FindRunFinds
        <3> QED
            BY <3>2, <3>3 DEF InTable
    <2>5. DistinctIds' => BeforeView(proc[p], "readReceipt")'
        BY <1>1, <1>2, <1>4, <1>7 DEF BeforeView, View, Agrees
    <2>6. DistinctIds' => Before(proc[p], "readReceipt")'
        BY <1>1, <1>2, <1>3, <1>4, <1>7, <2>3, <2>4
        DEF Before, Registered, LatestIs, InTable
    <2> QED
        BY <1>2, <2>3, <2>5, <2>6, Continued
<1> QED
    BY <1>5, <1>6, <1>7 DEF ReadRuns

LEMMA AuditAdded ==
    ASSUME AllInv, NEW p \in Proc, ~overlapped, deaths = 0, AddAudit(p)
    PROVE  Rests' \/ Alone(p)'
<1> DEFINE c == proc[p]
           row == NewAudit(c.audit)
           d == [c EXCEPT !.registry = registry']
<1>1. At(p, "addAudit") /\ UNCHANGED <<runs, started>> /\ IInv
    BY DEF AddAudit, WriteRegistry, history, AllInv
<1>2. /\ \A q \in Proc \ {p} : proc[q] = Idle
      /\ InOrder(c) /\ c.registry = registry /\ DOMAIN c = Fields
      /\ DistinctIds => View({}, {}, started)
    BY <1>1, Own, AtMemory DEF BeforeView
<1>3. registry' = Append(registry, row) /\ GoOn(p, d)
    BY <1>2 DEF AddAudit, WriteRegistry
<1>4. Same(d, p)
    BY <1>2 DEF Same, Fields
<1> HIDE DEF d
<1>5. proc'[p] = Idle /\ \A q \in Proc \ {p} : proc'[q] = proc[q]
    BY <1>1, <1>2, <1>3, <1>4, Moves
<1>6. row.latest = NoRun /\ row.status = "CREATED"
    BY DEF NewAudit
<1> HIDE DEF row
<1>7. registry \in Seq(AuditRow) /\ runs \in Seq(RunRow)
    BY <1>1 DEF IInv, TypeOK
<1>8. /\ \A i \in DOMAIN registry : i \in DOMAIN registry' /\ registry'[i] = registry[i]
      /\ \A i \in DOMAIN registry' : i \in DOMAIN registry \/ registry'[i] = row
    <2> HIDE DEF AuditRow
    <2> QED
        BY <1>3, <1>7
<1>9. DistinctIds' => DistinctIds
    BY <1>1, <1>8, IdsBefore
<1>10. \A k \in DOMAIN runs : runs[k].id # NoRun
    <2>1. \A k \in DOMAIN runs : runs[k].id \in RunId
        <3>1. \A k \in DOMAIN runs : runs[k] \in RunRow
            <4> HIDE DEF RunRow
            <4> QED
                BY <1>7
        <3> HIDE DEF RunId
        <3> QED
            BY <3>1 DEF RunRow
    <2> QED
        BY <2>1, NoRunIsNone
<1>11. DistinctIds' => View({}, {}, started)'
    <2> SUFFICES ASSUME DistinctIds' PROVE View({}, {}, started)'
        OBVIOUS
    <2>1. View({}, {}, started)
        BY <1>2, <1>9
    <2>2. \A i \in DOMAIN registry' : Agrees(registry[i])'
        BY <1>1, <1>6, <1>8, <1>10, <2>1 DEF View, Agrees
    <2> QED
        BY <1>1, <1>8, <2>1, <2>2 DEF View
<1> QED
    BY <1>2, <1>5, <1>11, Ended

\* The run of a handler is of its audit, and is known when it writes.
LEMMA OwnRun ==
    ASSUME IInv, NEW p \in Proc,
           NEW s \in {"addRun", "openAudit", "pipeline", "readReceipt", "closeRun", "closeAudit"},
           At(p, s)
    PROVE  /\ proc[p].op # "create" /\ proc[p].run \in RunId
           /\ proc[p].run.audit = proc[p].audit
           /\ s \in {"addRun", "openAudit"} => proc[p].op = "execute" /\ proc[p].n \in 1..MaxRuns
           /\ proc[p].runs \in Seq(RunRow)
<1> DEFINE c == proc[p]
<1>1. /\ GoodMemory(c, earned) /\ Ordered(c) /\ c.todo \in Seq(Step) /\ c.todo[1] = s
      /\ c.op \in {"create", "execute", "sync"}
    BY AtStep, AtMemory
<1>2. 1 \in DOMAIN c.todo
    BY <1>1 DEF At
<1>3. c.op # "create" /\ (s \in {"addRun", "openAudit"} => c.op = "execute")
    BY <1>1, <1>2 DEF Ordered
<1>4. KnowsRun(c)
    BY <1>1, <1>3, RunKnown
<1> QED
    BY <1>1, <1>3, <1>4 DEF KnowsRun, GoodMemory, GoodRuns

\* The latest run of another audit is another run.
LEMMA OtherLatest ==
    ASSUME IInv, NEW run \in RunId
    PROVE  \A i \in DOMAIN registry : registry[i].id # run.audit => registry[i].latest # run
    BY DEF IInv, GoodRegistry, GoodAuditRow

LEMMA RunAdded ==
    ASSUME AllInv, NEW p \in Proc, ~overlapped, deaths = 0, AddRun(p)
    PROVE  Rests' \/ Alone(p)'
<1> DEFINE c == proc[p]
           row == NewRun(c.run, c.n)
           d == [c EXCEPT !.runs = runs']
<1>1. At(p, "addRun") /\ UNCHANGED <<registry, started>> /\ IInv
    BY DEF AddRun, WriteRuns, history, AllInv
<1>2. /\ c.op = "execute" /\ c.run \in RunId /\ c.run.audit = c.audit /\ c.n \in 1..MaxRuns
    BY <1>1, OwnRun
<1>3. /\ \A q \in Proc \ {p} : proc[q] = Idle
      /\ InOrder(c) /\ c.registry = registry /\ c.runs = runs /\ DOMAIN c = Fields
      /\ DistinctIds => Before(c, "addRun") /\ View({}, {}, started - 1)
    BY <1>1, <1>2, Own, AtMemory DEF BeforeView
<1>4. runs' = Append(runs, row) /\ GoOn(p, d)
    BY <1>3 DEF AddRun, WriteRuns
<1>5. Same(d, p) /\ d.registry = registry /\ d.run = c.run
    BY <1>3 DEF Same, Fields
<1> HIDE DEF d
<1>6. /\ \A q \in Proc \ {p} : proc'[q] = proc[q]
      /\ proc'[p] # Idle /\ proc'[p].todo[1] = "openAudit" /\ InOrder(proc'[p])
      /\ proc'[p].registry = registry' /\ proc'[p].op = "execute"
      /\ proc'[p].audit = c.audit /\ proc'[p].run = c.run
    BY <1>1, <1>2, <1>3, <1>4, <1>5, Moves DEF NextStep, Same
<1>7. row.id = c.run /\ row.n = c.n /\ row.status = "RUNNING"
    BY DEF NewRun
<1> HIDE DEF row
<1>8. /\ \A k \in DOMAIN runs : k \in DOMAIN runs' /\ runs'[k] = runs[k]
      /\ Len(runs) + 1 \in DOMAIN runs' /\ runs'[Len(runs) + 1] = row
      /\ \A k \in DOMAIN runs' : k \in DOMAIN runs \/ k = Len(runs) + 1
    <2>1. runs \in Seq(RunRow)
        BY <1>1 DEF IInv, TypeOK
    <2> HIDE DEF RunRow
    <2> QED
        BY <1>4, <2>1
<1> SUFFICES ASSUME DistinctIds'
             PROVE  Before(proc[p], "openAudit")' /\ BeforeView(proc[p], "openAudit")'
    BY <1>3, <1>6, Continued
<1>9. Before(c, "addRun") /\ View({}, {}, started - 1)
    BY <1>1, <1>3, <1>8, IdsBefore
<1>10. \A k \in DOMAIN runs' : runs'[k].id = c.run => k = Len(runs) + 1
    BY <1>7, <1>8 DEF DistinctIds
<1>11. Before(proc[p], "openAudit")'
    <2>1. c.audit \in Registered(registry)
        BY <1>2, <1>9 DEF Before
    <2>2. \A k \in DOMAIN runs' :
              runs'[k].id.audit = c.audit /\ runs'[k].status = "RUNNING" => runs'[k].id = c.run
        BY <1>7, <1>8, <1>9 DEF Before, Active
    <2> QED
        BY <1>1, <1>6, <1>7, <1>8, <1>10, <2>1, <2>2 DEF Before, InTable, Registered
<1>12. \A i \in DOMAIN registry' : registry'[i].id \in {c.audit} \/ Agrees(registry[i])'
    <2> SUFFICES ASSUME NEW i \in DOMAIN registry, registry[i].id # c.audit
                 PROVE  Agrees(registry[i])'
        BY <1>1
    <2>1. registry[i].latest # c.run /\ Agrees(registry[i])
        BY <1>1, <1>2, <1>9, OtherLatest DEF View
    <2> QED
        BY <1>1, <1>7, <1>8, <2>1 DEF Agrees
<1>13. \A k \in DOMAIN runs' : runs'[k].status = "RUNNING" =>
           runs'[k].id \in {c.run}
           \/ \E j \in DOMAIN registry' : registry'[j].latest = runs'[k].id
    BY <1>1, <1>7, <1>8, <1>9 DEF View
<1>14. {runs'[k].n : k \in DOMAIN runs'} = 1..started'
    <2>1. {runs[k].n : k \in DOMAIN runs} = 1..(started - 1) /\ c.n = started
        BY <1>9 DEF View, Before
    <2>2. {runs'[k].n : k \in DOMAIN runs'} = {runs[k].n : k \in DOMAIN runs} \cup {started}
        BY <1>7, <1>8, <2>1
    <2>3. started \in Nat /\ started > 0
        BY <1>2, <2>1, RunsAssumption
    <2>4. 1..started = 1..(started - 1) \cup {started}
        BY <2>3
    <2> QED
        BY <1>1, <2>1, <2>2, <2>4
<1>15. BeforeView(proc[p], "openAudit")'
    BY <1>6, <1>12, <1>13, <1>14 DEF BeforeView, View
<1> QED
    BY <1>11, <1>15

LEMMA AuditOpened ==
    ASSUME AllInv, NEW p \in Proc, ~overlapped, deaths = 0, OpenAudit(p)
    PROVE  Rests' \/ Alone(p)'
<1> DEFINE c == proc[p]
           i == FindAudit(registry, c.audit)
           d == [c EXCEPT !.registry = registry']
<1>1. At(p, "openAudit") /\ UNCHANGED <<runs, started>> /\ IInv
    BY DEF OpenAudit, WriteRegistry, history, AllInv
<1>2. /\ c.op = "execute" /\ c.run \in RunId /\ c.run.audit = c.audit
    BY <1>1, OwnRun
<1>3. /\ \A q \in Proc \ {p} : proc[q] = Idle
      /\ InOrder(c) /\ c.registry = registry /\ DOMAIN c = Fields
      /\ DistinctIds => Before(c, "openAudit") /\ View({c.audit}, {c.run}, started)
    BY <1>1, <1>2, Own, AtMemory DEF BeforeView
<1>4. registry' = [registry EXCEPT ![i].status = "RUNNING", ![i].latest = c.run] /\ GoOn(p, d)
    BY <1>3 DEF OpenAudit, WriteRegistry
<1>5. Same(d, p) /\ d.registry = registry' /\ d.run = c.run
    BY <1>3 DEF Same, Fields
<1> HIDE DEF d
<1>6. /\ \A q \in Proc \ {p} : proc'[q] = proc[q]
      /\ proc'[p] # Idle /\ proc'[p].todo[1] = "pipeline" /\ InOrder(proc'[p])
      /\ proc'[p].registry = registry' /\ proc'[p].op = "execute"
      /\ proc'[p].audit = c.audit /\ proc'[p].run = c.run
    BY <1>1, <1>2, <1>3, <1>4, <1>5, Moves DEF NextStep, Same
<1>7. registry \in Seq(AuditRow)
    BY <1>1 DEF IInv, TypeOK
<1> HIDE DEF i
<1>8. /\ DOMAIN registry' = DOMAIN registry
      /\ \A j \in DOMAIN registry : j # i => registry'[j] = registry[j]
      /\ i \in DOMAIN registry => /\ registry'[i].id = registry[i].id
                                  /\ registry'[i].status = "RUNNING"
                                  /\ registry'[i].latest = c.run
    <2>1. \A j \in DOMAIN registry : registry[j] \in AuditRow
        <3> HIDE DEF AuditRow
        <3> QED
            BY <1>7
    <2> QED
        BY <1>4, <2>1 DEF AuditRow
<1> SUFFICES ASSUME DistinctIds'
             PROVE  Before(proc[p], "pipeline")' /\ BeforeView(proc[p], "pipeline")'
    BY <1>3, <1>6, Continued
<1>9. DistinctIds /\ Before(c, "openAudit") /\ View({c.audit}, {c.run}, started)
    BY <1>1, <1>3, <1>8, IdsBefore
<1>10. i \in DOMAIN registry /\ registry[i].id = c.audit
    <2>1. \E k \in DOMAIN registry : registry[k].id = c.audit
        BY <1>2, <1>9 DEF Before, Registered
    <2>2. i = FindRun(registry, c.audit)
        BY FindSame DEF i
    <2> HIDE DEF AuditRow
    <2> QED
        BY <1>7, <2>1, <2>2, FindIs
<1>11. \A j \in DOMAIN registry : registry[j].id = c.audit => j = i
    BY <1>9, <1>10 DEF DistinctIds
<1>12. Before(proc[p], "pipeline")'
    <2>1. c.audit \in Registered(registry)'
        BY <1>8, <1>10 DEF Registered
    <2>2. LatestIs(proc[p])'
        BY <1>6, <1>8, <1>10, <1>11 DEF LatestIs
    <2>3. InTable(proc[p])'
        BY <1>1, <1>6, <1>9 DEF Before, InTable
    <2> QED
        BY <1>6, <2>1, <2>2, <2>3 DEF Before
<1>13. \A j \in DOMAIN registry' : Agrees(registry[j])'
    <2> SUFFICES ASSUME NEW j \in DOMAIN registry PROVE Agrees(registry[j])'
        BY <1>8
    <2>1. CASE j = i
        BY <1>1, <1>8, <1>9, <1>10, <2>1 DEF Agrees, Before, InTable
    <2>2. CASE j # i
        <3>1. Agrees(registry[j])
            BY <1>9, <1>11, <2>2 DEF View
        <3> QED
            BY <1>1, <1>8, <2>2, <3>1 DEF Agrees
    <2> QED
        BY <2>1, <2>2
<1>14. \A k \in DOMAIN runs' : runs'[k].status = "RUNNING" =>
           \E j \in DOMAIN registry' : registry'[j].latest = runs'[k].id
    <2> SUFFICES ASSUME NEW k \in DOMAIN runs, runs[k].status = "RUNNING"
                 PROVE  \E j \in DOMAIN registry' : registry'[j].latest = runs[k].id
        BY <1>1
    <2>1. CASE runs[k].id = c.run
        BY <1>8, <1>10, <2>1
    <2>2. CASE runs[k].id # c.run
        <3>1. PICK j \in DOMAIN registry : registry[j].latest = runs[k].id
            BY <1>9, <2>2 DEF View
        <3>2. runs[k].id.audit # c.audit
            BY <1>9, <2>2 DEF Before
        <3>3. runs[k].id \in RunId
            <4>1. runs[k] \in RunRow
                <5>1. runs \in Seq(RunRow)
                    BY <1>1 DEF IInv, TypeOK
                <5> HIDE DEF RunRow
                <5> QED
                    BY <5>1
            <4> HIDE DEF RunId
            <4> QED
                BY <4>1 DEF RunRow
        <3>4. registry[j].id = runs[k].id.audit
            BY <1>1, <3>1, <3>3, OtherLatest
        <3>5. j # i
            BY <1>10, <3>2, <3>4
        <3> QED
            BY <1>8, <3>1, <3>5
    <2> QED
        BY <2>1, <2>2
<1>15. BeforeView(proc[p], "pipeline")'
    BY <1>1, <1>9, <1>13, <1>14 DEF BeforeView, View
<1> QED
    BY <1>12, <1>15

LEMMA PipelineRan ==
    ASSUME AllInv, NEW p \in Proc, ~overlapped, deaths = 0, Pipeline(p) \/ PipelineRaises(p)
    PROVE  Rests' \/ Alone(p)'
<1> DEFINE c == proc[p]
<1>1. At(p, "pipeline") /\ UNCHANGED <<registry, runs, started>> /\ IInv
    BY DEF Pipeline, PipelineRaises, files, history, AllInv
<1>2. /\ \A q \in Proc \ {p} : proc[q] = Idle
      /\ InOrder(c) /\ c.registry = registry /\ DOMAIN c = Fields
      /\ DistinctIds => Before(c, "pipeline") /\ View({}, {}, started)
    BY <1>1, Own, AtMemory DEF BeforeView
<1>3. CASE Refuse(p)
    BY <1>1, <1>3, Refused
<1>4. CASE GoOn(p, c)
    <2>1. Same(c, p)
        BY <1>2 DEF Same
    <2>2. /\ \A q \in Proc \ {p} : proc'[q] = proc[q]
          /\ proc'[p] # Idle /\ proc'[p].todo[1] = "readReceipt" /\ InOrder(proc'[p])
          /\ proc'[p].registry = registry' /\ proc'[p].op = c.op
          /\ proc'[p].audit = c.audit /\ proc'[p].run = c.run
        BY <1>1, <1>2, <1>4, <2>1, Moves DEF NextStep
    <2>3. DistinctIds' => Before(proc[p], "readReceipt")' /\ BeforeView(proc[p], "readReceipt")'
        BY <1>1, <1>2, <2>2
        DEF Before, BeforeView, View, Agrees, DistinctIds, LatestIs, InTable, Registered
    <2> QED
        BY <1>2, <2>2, <2>3, Continued
<1> QED
    BY <1>3, <1>4 DEF Pipeline, PipelineRaises

LEMMA ReceiptRead ==
    ASSUME AllInv, NEW p \in Proc, ~overlapped, deaths = 0, ReadReceipt(p)
    PROVE  Rests' \/ Alone(p)'
<1> DEFINE c == proc[p]
           d == [c EXCEPT !.ready = receipt[c.audit]]
<1>1. At(p, "readReceipt") /\ UNCHANGED <<registry, runs, started>> /\ IInv /\ GoOn(p, d)
    BY DEF ReadReceipt, files, history, AllInv
<1>2. /\ \A q \in Proc \ {p} : proc[q] = Idle
      /\ InOrder(c) /\ c.registry = registry /\ DOMAIN c = Fields
      /\ DistinctIds => Before(c, "readReceipt") /\ View({}, {}, started)
    BY <1>1, Own, AtMemory DEF BeforeView
<1>3. Same(d, p) /\ d.registry = registry /\ d.run = c.run
    BY <1>2 DEF Same, Fields
<1> HIDE DEF d
<1>4. /\ \A q \in Proc \ {p} : proc'[q] = proc[q]
      /\ proc'[p] # Idle /\ proc'[p].todo[1] = "closeRun" /\ InOrder(proc'[p])
      /\ proc'[p].registry = registry' /\ proc'[p].op = c.op
      /\ proc'[p].audit = c.audit /\ proc'[p].run = c.run
    BY <1>1, <1>2, <1>3, Moves DEF NextStep, Same
<1>5. DistinctIds' => Before(proc[p], "closeRun")' /\ BeforeView(proc[p], "closeRun")'
    BY <1>1, <1>2, <1>4
    DEF Before, BeforeView, View, Agrees, DistinctIds, LatestIs, InTable, Registered
<1> QED
    BY <1>2, <1>4, <1>5, Continued

LEMMA ClosedIs ==
    ASSUME NEW row \in RunRow, NEW ready
    PROVE  /\ Closed(row, ready).id = row.id /\ Closed(row, ready).n = row.n
           /\ Closed(row, ready).status = Verdict(ready) /\ Closed(row, ready).ready = ready
    BY DEF Closed, RunRow

\* Both ways of closing close the row of the run, when it is the only one.
LEMMA ClosingIs ==
    ASSUME NEW c, c.runs \in Seq(RunRow), NEW k \in DOMAIN c.runs, c.runs[k].id = c.run
    PROVE  /\ DOMAIN ClosedRuns(c) = DOMAIN c.runs
           /\ \A j \in DOMAIN c.runs : ClosedRuns(c)[j].id = c.runs[j].id
           /\ \A j \in DOMAIN c.runs : ClosedRuns(c)[j].n = c.runs[j].n
           /\ \A j \in DOMAIN c.runs : c.runs[j].id # c.run => ClosedRuns(c)[j] = c.runs[j]
           /\ (\A j \in DOMAIN c.runs : c.runs[j].id = c.run => j = k) =>
                  /\ ClosedRuns(c)[k].status = Verdict(c.ready)
                  /\ ClosedRuns(c)[k].ready = c.ready
<1>1. \A j \in DOMAIN c.runs : c.runs[j] \in RunRow
    <2> HIDE DEF RunRow
    <2> QED
        OBVIOUS
<1>2. \A j \in DOMAIN c.runs :
          /\ Closed(c.runs[j], c.ready).id = c.runs[j].id
          /\ Closed(c.runs[j], c.ready).n = c.runs[j].n
          /\ Closed(c.runs[j], c.ready).status = Verdict(c.ready)
          /\ Closed(c.runs[j], c.ready).ready = c.ready
    BY <1>1, ClosedIs
<1>3. CASE c.op = "execute"
    BY <1>2, <1>3 DEF ClosedRuns
<1>4. CASE c.op # "execute"
    <2> DEFINE i == FindRun(c.runs, c.run)
    <2>1. ClosedRuns(c) = [c.runs EXCEPT ![i] = Closed(c.runs[i], c.ready)]
        BY <1>4 DEF ClosedRuns
    <2>2. i \in DOMAIN c.runs /\ c.runs[i].id = c.run
        <3> HIDE DEF RunRow
        <3> QED
            BY FindIs
    <2> HIDE DEF i
    <2> QED
        BY <1>2, <2>1, <2>2
<1> QED
    BY <1>3, <1>4

LEMMA RunClosed ==
    ASSUME AllInv, NEW p \in Proc, ~overlapped, deaths = 0, CloseRun(p)
    PROVE  Rests' \/ Alone(p)'
<1> DEFINE c == proc[p]
           d == [c EXCEPT !.runs = runs']
<1>1. At(p, "closeRun") /\ UNCHANGED <<registry, started>> /\ IInv
    BY DEF CloseRun, WriteRuns, history, AllInv
<1>2. c.op # "create" /\ c.run \in RunId /\ c.run.audit = c.audit /\ c.runs \in Seq(RunRow)
    BY <1>1, OwnRun
<1>3. /\ \A q \in Proc \ {p} : proc[q] = Idle
      /\ InOrder(c) /\ c.registry = registry /\ c.runs = runs /\ DOMAIN c = Fields
      /\ DistinctIds => Before(c, "closeRun") /\ View({}, {}, started)
    BY <1>1, <1>2, Own, AtMemory DEF BeforeView
<1>4. runs' = ClosedRuns(c) /\ GoOn(p, d)
    BY <1>3 DEF CloseRun, WriteRuns
<1>5. Same(d, p) /\ d.registry = registry /\ d.run = c.run /\ d.ready = c.ready
    BY <1>3 DEF Same, Fields
<1> HIDE DEF d
<1>6. /\ \A q \in Proc \ {p} : proc'[q] = proc[q]
      /\ proc'[p] # Idle /\ proc'[p].todo[1] = "closeAudit" /\ InOrder(proc'[p])
      /\ proc'[p].registry = registry' /\ proc'[p].op = c.op /\ proc'[p].ready = c.ready
      /\ proc'[p].audit = c.audit /\ proc'[p].run = c.run
    BY <1>1, <1>2, <1>3, <1>4, <1>5, Moves DEF NextStep, Same
<1> SUFFICES ASSUME DistinctIds'
             PROVE  Before(proc[p], "closeAudit")' /\ BeforeView(proc[p], "closeAudit")'
    BY <1>3, <1>6, Continued
<1>7. /\ \A k \in DOMAIN runs : k \in DOMAIN runs' /\ runs'[k].id = runs[k].id
    <2>1. runs \in Seq(RunRow) /\ \A j \in DOMAIN runs : runs[j] \in RunRow
        <3>1. runs \in Seq(RunRow)
            BY <1>2, <1>3
        <3> HIDE DEF RunRow
        <3> QED
            BY <3>1
    <2>2. \A j \in DOMAIN runs : Closed(runs[j], c.ready).id = runs[j].id
        BY <2>1, ClosedIs
    <2>3. CASE c.op = "execute"
        BY <1>3, <1>4, <2>2, <2>3 DEF ClosedRuns
    <2>4. CASE c.op # "execute"
        <3> DEFINE i == FindRun(runs, c.run)
        <3>1. runs' = [runs EXCEPT ![i] = Closed(runs[i], c.ready)]
            BY <1>3, <1>4, <2>4 DEF ClosedRuns
        <3> HIDE DEF i
        <3> QED
            BY <2>2, <3>1
    <2> QED
        BY <2>3, <2>4
<1>8. DistinctIds /\ Before(c, "closeRun") /\ View({}, {}, started)
    BY <1>1, <1>3, <1>7, IdsBefore
<1>9. PICK k \in DOMAIN runs : runs[k].id = c.run
    BY <1>8 DEF Before, InTable
<1>10. /\ DOMAIN runs' = DOMAIN runs
       /\ \A j \in DOMAIN runs : runs'[j].n = runs[j].n
       /\ \A j \in DOMAIN runs : runs[j].id # c.run => runs'[j] = runs[j]
       /\ runs'[k].status = Verdict(c.ready) /\ runs'[k].ready = c.ready
    BY <1>2, <1>3, <1>4, <1>8, <1>9, ClosingIs DEF DistinctIds
<1>11. \A j \in DOMAIN runs : runs[j].id = c.run => j = k
    BY <1>8, <1>9 DEF DistinctIds
<1>12. Before(proc[p], "closeAudit")'
    <2>1. c.audit \in Registered(registry)' /\ LatestIs(proc[p])'
        BY <1>1, <1>2, <1>6, <1>8 DEF Before, Registered, LatestIs
    <2>2. InTable(proc[p])'
        BY <1>6, <1>7, <1>9 DEF InTable
    <2>3. \A j \in DOMAIN runs' : runs'[j].id = c.run =>
              runs'[j].status = Verdict(c.ready) /\ runs'[j].ready = c.ready
        BY <1>7, <1>10, <1>11
    <2> QED
        BY <1>6, <2>1, <2>2, <2>3 DEF Before
<1>13. \A i \in DOMAIN registry' : registry'[i].id \in {c.audit} \/ Agrees(registry[i])'
    <2> SUFFICES ASSUME NEW i \in DOMAIN registry, registry[i].id # c.audit
                 PROVE  Agrees(registry[i])'
        BY <1>1
    <2>1. registry[i].latest # c.run /\ Agrees(registry[i])
        BY <1>1, <1>2, <1>8, OtherLatest DEF View
    <2> QED
        BY <1>1, <1>7, <1>10, <2>1 DEF Agrees
<1>14. \A j \in DOMAIN runs' : runs'[j].status = "RUNNING" =>
           \E i \in DOMAIN registry' : registry'[i].latest = runs'[j].id
    BY <1>1, <1>7, <1>8, <1>10, <1>11 DEF View, Verdict
<1>15. {runs'[j].n : j \in DOMAIN runs'} = 1..started'
    BY <1>1, <1>8, <1>10 DEF View
<1>16. BeforeView(proc[p], "closeAudit")'
    BY <1>6, <1>13, <1>14, <1>15 DEF BeforeView, View
<1> QED
    BY <1>12, <1>16

LEMMA AuditClosed ==
    ASSUME AllInv, NEW p \in Proc, ~overlapped, deaths = 0, CloseAudit(p)
    PROVE  Rests' \/ Alone(p)'
<1> DEFINE c == proc[p]
           i == FindAudit(registry, c.audit)
           d == [c EXCEPT !.registry = registry']
<1>1. At(p, "closeAudit") /\ UNCHANGED <<runs, started>> /\ IInv
    BY DEF CloseAudit, WriteRegistry, history, AllInv
<1>2. c.op # "create" /\ c.run \in RunId /\ c.run.audit = c.audit
    BY <1>1, OwnRun
<1>3. /\ \A q \in Proc \ {p} : proc[q] = Idle
      /\ InOrder(c) /\ c.registry = registry /\ DOMAIN c = Fields
      /\ DistinctIds => Before(c, "closeAudit") /\ View({c.audit}, {}, started)
    BY <1>1, <1>2, Own, AtMemory DEF BeforeView
<1>4. registry' = [registry EXCEPT ![i] = Closed(registry[i], c.ready)] /\ GoOn(p, d)
    BY <1>3 DEF CloseAudit, WriteRegistry
<1>5. Same(d, p)
    BY <1>3 DEF Same, Fields
<1> HIDE DEF d
<1>6. proc'[p] = Idle /\ \A q \in Proc \ {p} : proc'[q] = proc[q]
    BY <1>1, <1>3, <1>4, <1>5, Moves
<1>7. registry \in Seq(AuditRow)
    BY <1>1 DEF IInv, TypeOK
<1> HIDE DEF i
<1>8. /\ DOMAIN registry' = DOMAIN registry
      /\ \A j \in DOMAIN registry : j # i => registry'[j] = registry[j]
      /\ i \in DOMAIN registry => /\ registry'[i].id = registry[i].id
                                  /\ registry'[i].latest = registry[i].latest
                                  /\ registry'[i].status = Verdict(c.ready)
                                  /\ registry'[i].ready = c.ready
    <2>1. \A j \in DOMAIN registry : registry[j] \in AuditRow
        <3> HIDE DEF AuditRow
        <3> QED
            BY <1>7
    <2> QED
        BY <1>4, <2>1 DEF AuditRow, Closed
<1> SUFFICES ASSUME DistinctIds' PROVE View({}, {}, started)'
    BY <1>3, <1>6, Ended
<1>9. DistinctIds /\ Before(c, "closeAudit") /\ View({c.audit}, {}, started)
    BY <1>1, <1>3, <1>8, IdsBefore
<1>10. i \in DOMAIN registry /\ registry[i].id = c.audit
    <2>1. \E k \in DOMAIN registry : registry[k].id = c.audit
        BY <1>2, <1>9 DEF Before, Registered
    <2>2. i = FindRun(registry, c.audit)
        BY FindSame DEF i
    <2> HIDE DEF AuditRow
    <2> QED
        BY <1>7, <2>1, <2>2, FindIs
<1>11. \A j \in DOMAIN registry : registry[j].id = c.audit => j = i
    BY <1>9, <1>10 DEF DistinctIds
<1>12. registry[i].latest = c.run /\ \E k \in DOMAIN runs : runs[k].id = c.run
    BY <1>9, <1>10 DEF Before, LatestIs, InTable
<1>13. \A k \in DOMAIN runs : runs[k].id = c.run =>
           runs[k].status = Verdict(c.ready) /\ runs[k].ready = c.ready
    BY <1>9 DEF Before
<1>14. \A j \in DOMAIN registry' : Agrees(registry[j])'
    <2> SUFFICES ASSUME NEW j \in DOMAIN registry PROVE Agrees(registry[j])'
        BY <1>8
    <2>1. CASE j = i
        BY <1>1, <1>8, <1>10, <1>12, <1>13, <2>1 DEF Agrees
    <2>2. CASE j # i
        <3>1. Agrees(registry[j])
            BY <1>9, <1>11, <2>2 DEF View
        <3> QED
            BY <1>1, <1>8, <2>2, <3>1 DEF Agrees
    <2> QED
        BY <2>1, <2>2
<1>15. \A j \in DOMAIN registry : registry'[j].latest = registry[j].latest
    BY <1>8
<1> QED
    BY <1>1, <1>8, <1>9, <1>14, <1>15 DEF View

-----------------------------------------------------------------------------
(* The other steps.                                                         *)

LEMMA CalmBegin ==
    ASSUME AllInv, NEW p \in Proc, NEW op \in {"create", "execute", "sync"},
           NEW a \in AuditId, Begin(p, op, a)
    PROVE  CalmInv'
<1> DEFINE c == [op |-> op, todo |-> Steps(op), audit |-> a, registry |-> << >>,
                 runs |-> << >>, run |-> NoRun, n |-> 0, ready |-> FALSE]
<1>1. /\ proc[p] = Idle /\ proc' = [proc EXCEPT ![p] = c]
      /\ UNCHANGED <<registry, runs, started, deaths>>
      /\ ~overlapped' => ~overlapped /\ \A q \in Proc \ {p} : proc[q] = Idle
    BY DEF Begin, files
<1> SUFFICES ASSUME ~overlapped', deaths' = 0 PROVE Alone(p)'
    BY DEF CalmInv
<1>2. DistinctIds => View({}, {}, started)
    <2>1. Quiet
        BY <1>1 DEF Quiet
    <2> QED
        BY <1>1, <2>1 DEF AllInv, CalmInv, Rests, Quiet, Alone
<1>3. InOrder(c) /\ c.todo[1] = "readRegistry" /\ c.op = op
    BY StepsInOrder
<1> HIDE DEF c
<1>4. proc \in [Proc -> Memory \cup {Idle}]
    BY DEF AllInv, IInv, TypeOK
<1>5. proc'[p] = c /\ \A q \in Proc \ {p} : proc'[q] = proc[q]
    <2> HIDE DEF Memory
    <2> QED
        BY <1>1, <1>4
<1>6. c # Idle
    BY <1>3 DEF Idle
<1>7. DistinctIds' => Before(proc[p], "readRegistry")' /\ BeforeView(proc[p], "readRegistry")'
    BY <1>1, <1>2 DEF Before, BeforeView, View, Agrees, DistinctIds
<1>8. InOrder(proc[p])'
    BY <1>3, <1>5 DEF InOrder
<1> QED
    BY <1>1, <1>3, <1>5, <1>6, <1>7, <1>8 DEF Alone

LEMMA CalmHandle ==
    ASSUME AllInv, NEW p \in Proc, Handle(p)
    PROVE  CalmInv'
<1>1. UNCHANGED <<overlapped, deaths>>
    BY DEF Handle, ReadRegistry, ReadRuns, AddAudit, AddRun, OpenAudit, Pipeline,
           PipelineRaises, ReadReceipt, CloseRun, CloseAudit, WriteRegistry, WriteRuns, history
<1> SUFFICES ASSUME ~overlapped, deaths = 0 PROVE Rests' \/ Alone(p)'
    BY <1>1 DEF CalmInv
<1> QED
    BY RegistryRead, RunsRead, AuditAdded, RunAdded, AuditOpened, PipelineRan, ReceiptRead,
       RunClosed, AuditClosed DEF Handle

\* A step that only lets time pass.
LEMMA CalmStill ==
    ASSUME AllInv, UNCHANGED <<registry, runs, proc, started, overlapped, deaths>>
    PROVE  CalmInv'
<1> SUFFICES ASSUME ~overlapped, deaths = 0 PROVE Rests' \/ \E p \in Proc : Alone(p)'
    BY DEF CalmInv
<1>1. CASE Rests
    BY <1>1 DEF Rests, Quiet, View, Agrees, DistinctIds
<1>2. CASE \E p \in Proc : Alone(p)
    <2>1. PICK p \in Proc : Alone(p)
        BY <1>2
    <2>2. Alone(p)'
        BY <2>1 DEF Alone, InOrder, Before, BeforeView, View, Agrees, DistinctIds, LatestIs,
                    InTable, Registered, Active
    <2> QED
        BY <2>2
<1> QED
    BY <1>1, <1>2 DEF AllInv, CalmInv

LEMMA CalmHolds == Spec => [](IInv /\ CalmInv)
<1>1. Init => AllInv
    <2> SUFFICES ASSUME Init PROVE CalmInv
        BY Initially DEF Init, AllInv, FreshInv, HoldsTable
    <2>1. Quiet
        BY DEF Init, Quiet
    <2>2. View({}, {}, started)
        BY DEF Init, View
    <2> QED
        BY <2>1, <2>2 DEF CalmInv, Rests
<1>2. AllInv /\ [Next]_vars => AllInv'
    <2> SUFFICES ASSUME AllInv, [Next]_vars PROVE FreshInv' /\ CalmInv'
        BY Inductive DEF AllInv
    <2>1. CASE Tick \/ UNCHANGED vars
        <3>1. CalmInv'
            BY <2>1, CalmStill DEF Tick, vars, files, history
        <3>2. FreshInv'
            BY <2>1 DEF AllInv, Tick, vars, files, history, FreshInv, HoldsTable
        <3> QED
            BY <3>1, <3>2
    <2>2. ASSUME NEW p \in Proc, NEW op \in {"create", "execute", "sync"},
                 NEW a \in AuditId, Begin(p, op, a)
          PROVE  FreshInv' /\ CalmInv'
        BY <2>2, CalmBegin, FreshBegin DEF AllInv
    <2>3. ASSUME NEW p \in Proc, Handle(p) PROVE FreshInv' /\ CalmInv'
        BY <2>3, CalmHandle, FreshHandle DEF AllInv
    <2>4. ASSUME NEW p \in Proc, Die(p) PROVE FreshInv' /\ CalmInv'
        <3>1. deaths' # 0
            BY <2>4, RunsAssumption DEF Die, AllInv, IInv, TypeOK
        <3> QED
            BY <2>4, <3>1, FreshDie DEF AllInv, CalmInv
    <2> QED
        BY <2>1, <2>2, <2>3, <2>4 DEF Next
<1>3. AllInv => IInv /\ CalmInv
    BY DEF AllInv
<1> QED
    BY <1>1, <1>2, <1>3, PTL DEF Spec

\* Between requests that never overlapped or died, the register (GET
\* /audits/{id}) and the table of runs (GET /audits/{id}/runs/latest) tell the
\* same of every audit, a run that was left RUNNING is the latest of its
\* audit, and every run that was started is in the table.
THEOREM RegisterAndRuns == Spec => []RegisterAgrees
<1>1. ASSUME IInv, CalmInv PROVE RegisterAgrees
    <2> SUFFICES ASSUME Quiet, deaths = 0, ~overlapped, DistinctIds
                 PROVE  /\ \A i \in DOMAIN registry :
                               LET run == FindRun(runs, registry[i].latest)
                               IN  IF run = 0 THEN registry[i].status = "CREATED"
                                   ELSE /\ registry[i].status = runs[run].status
                                        /\ \/ registry[i].status = "RUNNING"
                                           \/ registry[i].ready = runs[run].ready
                        /\ \A i \in DOMAIN runs :
                               runs[i].status = "RUNNING" =>
                                   \E j \in DOMAIN registry : registry[j].latest = runs[i].id
                        /\ {runs[i].n : i \in DOMAIN runs} = 1..started
        BY DEF RegisterAgrees
    <2>1. View({}, {}, started)
        BY <1>1 DEF CalmInv, Rests, Alone, Quiet
    <2>2. ASSUME NEW i \in DOMAIN registry
          PROVE  LET run == FindRun(runs, registry[i].latest)
                 IN  IF run = 0 THEN registry[i].status = "CREATED"
                     ELSE /\ registry[i].status = runs[run].status
                          /\ \/ registry[i].status = "RUNNING"
                             \/ registry[i].ready = runs[run].ready
        <3> DEFINE id == registry[i].latest
                   run == FindRun(runs, id)
        <3>1. runs \in Seq(RunRow)
            BY <1>1 DEF IInv, TypeOK
        <3>2. Agrees(registry[i])
            BY <2>1 DEF View
        <3> HIDE DEF RunRow
        <3>3. CASE run = 0
            BY <3>1, <3>2, <3>3, FindNone DEF Agrees
        <3>4. CASE run # 0
            <4>1. run \in DOMAIN runs
                BY <3>1, <3>4, FindSame, FindAuditInside
            <4>2. runs[run].id = id
                BY <3>1, <4>1, FindRunFinds
            <4> QED
                BY <3>2, <3>4, <4>1, <4>2 DEF Agrees
        <3> QED
            BY <3>3, <3>4
    <2> QED
        BY <2>1, <2>2 DEF View
<1> QED
    BY <1>1, CalmHolds, PTL
=============================================================================
