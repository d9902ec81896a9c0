-------------------------- MODULE RemediationProofs --------------------------
(***************************************************************************)
(* Theorems of RemediationOperator, for every value of its constants, and  *)
(* of RemediationWriters with one process, which implements it up to the   *)
(* first death, and whose deaths leave at most one item behind each.       *)
(***************************************************************************)
EXTENDS RemediationWriters, FiniteSetTheorems, TLAPS

ItemRows == UNION {[D -> Row] : D \in SUBSET Item}

-----------------------------------------------------------------------------
(* Lemmas about the operators of RemediationLifecycle and Requests.         *)

\* The index and the gate computed from item rows have their declared shapes.
LEMMA ArtifactTypes ==
    ASSUME NEW items \in ItemRows, NEW today
    PROVE  /\ IndexOf(items, today) \in Index
           /\ Unresolved(items) \in SUBSET Item
<1>1. DOMAIN items \subseteq Item
  BY DEF ItemRows
<1>2. Unresolved(items) \in SUBSET Item
  BY <1>1 DEF Unresolved
<1>3. [s \in Status |-> {i \in DOMAIN items : items[i].status = s}]
          \in [Status -> SUBSET Item]
  BY <1>1
<1>4. Overdue(items, today) \in SUBSET Item /\ DueSoon(items, today) \in SUBSET Item
  BY <1>1 DEF Overdue, DueSoon
<1> QED
  BY <1>2, <1>3, <1>4 DEF IndexOf, Index

\* Replacing the row of an item keeps the items and their type.
LEMMA RowReplaced ==
    ASSUME NEW items \in ItemRows, NEW i \in DOMAIN items, NEW row \in Row
    PROVE  /\ [items EXCEPT ![i] = row] \in ItemRows
           /\ DOMAIN [items EXCEPT ![i] = row] = DOMAIN items
           /\ i \in Item
<1>1. PICK D \in SUBSET Item : items \in [D -> Row]
  BY DEF ItemRows
<1>2. [items EXCEPT ![i] = row] \in [D -> Row]
  BY <1>1
<1> QED
  BY <1>1, <1>2 DEF ItemRows

\* What the lifecycle functions make of a row.
LEMMA RowTypes ==
    ASSUME NEW row \in Row
    PROVE  /\ \A o \in User : [row EXCEPT !.owner = o] \in Row
           /\ \A d \in DueDate : [row EXCEPT !.due = d] \in Row
           /\ \A to \in Status, E \in SUBSET File : Transitioned(row, to, E) \in Row
           /\ \A E \in SUBSET File : Submitted(row, E) \in Row
           /\ \A passed \in BOOLEAN : Verified(row, passed) \in Row
  BY DEF Row, Status, Transitioned, Submitted, Verified, Verdict

LEMMA InitialTypes ==
    ASSUME NEW G \in SUBSET Item
    PROVE  InitializeItems(G) \in ItemRows
  BY DEF InitializeItems, InitialRow, ItemRows, Row, Status

\* The workspace files after the index and the gate are recomputed.
LEMMA RecomputedTypes ==
    ASSUME NEW f \in Files, NEW items \in ItemRows, NEW t
    PROVE  Recomputed(f, items, t) \in Files
<1>1. IndexOf(items, Day(t)) \in Index /\ Unresolved(items) \in SUBSET Item
  BY ArtifactTypes
<1> QED
  BY <1>1 DEF Recomputed, Files, ItemRows

LEMMA NoFilesType == NoFiles \in Files
<1>1. [i \in {} |-> InitialRow] \in [{} -> Row]
  OBVIOUS
<1> QED
  BY <1>1 DEF NoFiles, Files

-----------------------------------------------------------------------------
(* Type correctness.                                                        *)

\* The rows that the requests append have their declared shapes.
LEMMA AppendedTypes ==
    ASSUME NEW i \in Item, NEW u \in User, NEW t \in Nat, NEW n \in Nat
    PROVE  /\ OwnerEvent(i, u, t, n) \in Event
           /\ DueEvent(i, u, t, n) \in Event
           /\ \A to \in Status, E \in SUBSET File :
                  TransitionEvent(i, to, u, E, t, n) \in Event
           /\ \A E \in SUBSET File : QueuedEvent(i, E, t, n) \in Event
           /\ \A passed \in BOOLEAN, E \in SUBSET File :
                  ResultEvent(i, passed, E, t, n) \in Event
           /\ \A action \in LogActions : Logged(u, i, action, t, n) \in LogRow
  BY DEF OwnerEvent, DueEvent, TransitionEvent, QueuedEvent, ResultEvent, Verdict,
         Logged, Event, Actions, Status, System, LogRow

\* A note added to the outbox keeps its shape.
LEMMA NoteAdded ==
    ASSUME NEW outbox \in SUBSET Note, NEW i \in Item,
           NEW type \in RequestNotes \cup DueNotes, NEW us \in SUBSET User,
           NEW t \in Nat, NEW n \in Nat
    PROVE  outbox \cup {Notify(i, type, us, t, n)} \in SUBSET Note
  BY DEF Notify, Note

LEMMA CreatedTypes ==
    ASSUME NEW G \in SUBSET Item, NEW t \in Nat, NEW n \in Nat
    PROVE  InitializeTimeline(G, t, n) \in SUBSET Event
  BY DEF InitializeTimeline, Event, Actions, Status, System

\* The files of a workspace whose items, ledger, metadata, log and outbox
\* are replaced by rows of the right shapes.
LEMMA ReplacedTypes ==
    ASSUME NEW f \in Files, NEW items \in ItemRows, NEW t,
           NEW timeline \in SUBSET Event, NEW evidence \in SUBSET Metadata,
           NEW log \in SUBSET LogRow, NEW outbox \in SUBSET Note
    PROVE  /\ [Recomputed(f, items, t) EXCEPT !.timeline = timeline] \in Files
           /\ [Recomputed(f, items, t) EXCEPT !.timeline = timeline, !.log = log] \in Files
           /\ [Recomputed(f, items, t) EXCEPT
                  !.timeline = timeline, !.log = log, !.outbox = outbox] \in Files
           /\ [Recomputed(f, items, t) EXCEPT !.timeline = timeline,
                  !.evidence = evidence, !.log = log, !.outbox = outbox] \in Files
<1>1. Recomputed(f, items, t) \in Files
  BY RecomputedTypes
<1> QED
  BY <1>1 DEF Files

\* The item rows of a workspace, and the parts of it that requests extend.
LEMMA FilesParts ==
    ASSUME NEW f \in Files
    PROVE  /\ f.items \in ItemRows
           /\ DOMAIN f.items \subseteq Item
           /\ \A i \in DOMAIN f.items : f.items[i] \in Row
           /\ f.timeline \in SUBSET Event
           /\ f.evidence \in SUBSET Metadata
           /\ f.log \in SUBSET LogRow
           /\ f.outbox \in SUBSET Note
<1>1. f.items \in ItemRows
  BY DEF Files, ItemRows
<1>2. PICK D \in SUBSET Item : f.items \in [D -> Row]
  BY <1>1 DEF ItemRows
<1> QED
  BY <1>1, <1>2 DEF Files

LEMMA RecipientTypes ==
    ASSUME NEW f \in Files, NEW i \in DOMAIN f.items, NEW u \in User
    PROVE  OwnerOr(f.items, i, u) \in SUBSET User
<1>1. f.items[i] \in Row
  BY FilesParts
<1> QED
  BY <1>1 DEF OwnerOr, Row

LEMMA ReminderTypes ==
    ASSUME NEW f \in Files, NEW I, NEW t \in Nat, NEW n \in Nat
    PROVE  Reminders(f.items, f.outbox, I, t, n) \in SUBSET Note
<1>1. \A type \in DueNotes : \A i \in ToRemind(f.items, f.outbox, I, type, Day(t)) :
          i \in DOMAIN f.items /\ f.items[i].owner # None
  BY DEF ToRemind, Overdue, DueSoon
<1>2. \A type \in DueNotes : \A i \in ToRemind(f.items, f.outbox, I, type, Day(t)) :
          i \in Item /\ f.items[i].owner \in User
  BY <1>1, FilesParts DEF Row
<1> QED
  BY <1>2 DEF Reminders, Notify, Note

\* Every request turns well-typed files into well-typed files.
LEMMA ResultTypes ==
    ASSUME NEW f \in Files, NEW t \in Nat, NEW n \in Nat,
           NEW u \in User, NEW i \in DOMAIN f.items
    PROVE  /\ \A o \in User : AssignOwnerResult(f, u, i, o, t, n) \in Files
           /\ \A d \in DueDate : SetDueDateResult(f, u, i, d, t, n) \in Files
           /\ \A E \in SUBSET File : SubmitResult(f, u, i, E, t, n) \in Files
           /\ \A to \in Status : TransitionResult(f, u, i, to, t, n) \in Files
           /\ \A passed \in BOOLEAN : VerificationResult(f, u, i, passed, t, n) \in Files
<1>1. /\ i \in Item /\ f.items \in ItemRows /\ f.items[i] \in Row
      /\ f.items[i].evidence \in SUBSET File
      /\ OwnerOr(f.items, i, u) \in SUBSET User
  BY FilesParts, RecipientTypes DEF Row
<1>2. /\ f.timeline \in SUBSET Event /\ f.evidence \in SUBSET Metadata
      /\ f.log \in SUBSET LogRow /\ f.outbox \in SUBSET Note
  BY FilesParts
<1>3. ASSUME NEW o \in User PROVE AssignOwnerResult(f, u, i, o, t, n) \in Files
  <2>1. [f.items EXCEPT ![i] = [f.items[i] EXCEPT !.owner = o]] \in ItemRows
    BY <1>1, RowTypes, RowReplaced
  <2>2. [f.items EXCEPT ![i].owner = o]
            = [f.items EXCEPT ![i] = [f.items[i] EXCEPT !.owner = o]]
    OBVIOUS
  <2>3. f.timeline \cup {OwnerEvent(i, u, t, n)} \in SUBSET Event
    BY <1>1, <1>2, AppendedTypes
  <2>4. f.log \cup {Logged(u, i, "OWNER_ASSIGNED", t, n)} \in SUBSET LogRow
    BY <1>1, <1>2, AppendedTypes DEF LogActions
  <2>5. f.outbox \cup {Notify(i, "REMEDIATION_OWNER_ASSIGNED", {o}, t, n)}
            \in SUBSET Note
    BY <1>1, <1>2, NoteAdded DEF RequestNotes
  <2> QED
    BY <2>1, <2>2, <2>3, <2>4, <2>5, <1>2, ReplacedTypes, ZenonT(30) DEF AssignOwnerResult
<1>4. ASSUME NEW d \in DueDate PROVE SetDueDateResult(f, u, i, d, t, n) \in Files
  <2>1. [f.items EXCEPT ![i] = [f.items[i] EXCEPT !.due = d]] \in ItemRows
    BY <1>1, RowTypes, RowReplaced
  <2>2. [f.items EXCEPT ![i].due = d]
            = [f.items EXCEPT ![i] = [f.items[i] EXCEPT !.due = d]]
    OBVIOUS
  <2>3. f.timeline \cup {DueEvent(i, u, t, n)} \in SUBSET Event
    BY <1>1, <1>2, AppendedTypes
  <2>4. f.log \cup {Logged(u, i, "DUE_DATE_SET", t, n)} \in SUBSET LogRow
    BY <1>1, <1>2, AppendedTypes DEF LogActions
  <2>5. f.outbox \cup {Notify(i, "REMEDIATION_DUE_DATE_SET", OwnerOr(f.items, i, u), t, n)}
            \in SUBSET Note
    BY <1>1, <1>2, NoteAdded DEF RequestNotes
  <2> QED
    BY <2>1, <2>2, <2>3, <2>4, <2>5, <1>2, ReplacedTypes, ZenonT(30) DEF SetDueDateResult
<1>5. ASSUME NEW E \in SUBSET File PROVE SubmitResult(f, u, i, E, t, n) \in Files
  <2>1. [f.items EXCEPT ![i] = Submitted(f.items[i], E)] \in ItemRows
    BY <1>1, RowTypes, RowReplaced
  <2>2. "EVIDENCE_SUBMITTED" \in Status /\ n + 1 \in Nat
    BY DEF Status
  <2>3. f.timeline \cup {TransitionEvent(i, "EVIDENCE_SUBMITTED", u, E, t, n),
                         QueuedEvent(i, E, t, n + 1)} \in SUBSET Event
    BY <1>1, <1>2, <2>2, AppendedTypes
  <2>4. f.log \cup {Logged(u, i, "STATUS_EVIDENCE_SUBMITTED", t, n)} \in SUBSET LogRow
    BY <1>1, <1>2, AppendedTypes DEF LogActions
  <2>5. f.outbox \cup {Notify(i, "REMEDIATION_EVIDENCE_SUBMITTED",
                              OwnerOr(f.items, i, u), t, n)} \in SUBSET Note
    BY <1>1, <1>2, NoteAdded DEF RequestNotes
  <2>6. WithMetadata(f.evidence, u, i, E, t) \in SUBSET Metadata
    BY <1>1, <1>2 DEF WithMetadata, Metadata
  <2> QED
    BY <2>1, <2>3, <2>4, <2>5, <2>6, ReplacedTypes, ZenonT(30) DEF SubmitResult
<1>6. ASSUME NEW to \in Status PROVE TransitionResult(f, u, i, to, t, n) \in Files
  <2>1. [f.items EXCEPT ![i] = Transitioned(f.items[i], to, {})] \in ItemRows
    BY <1>1, RowTypes, RowReplaced
  <2>2. f.timeline \cup {TransitionEvent(i, to, u, {}, t, n)} \in SUBSET Event
    <3>1. i \in Item /\ {} \in SUBSET File
      BY <1>1
    <3>2. TransitionEvent(i, to, u, {}, t, n) \in Event
      BY <3>1, AppendedTypes
    <3> QED
      BY <1>2, <3>2
  <2>3. f.log \cup {Logged(u, i, PlainAction(to), t, n)} \in SUBSET LogRow
    BY <1>1, <1>2, AppendedTypes DEF LogActions, PlainAction
  <2> QED
    BY <2>1, <2>2, <2>3, <1>2, ReplacedTypes DEF TransitionResult
<1>7. f.log \cup {Logged(u, i, "VERIFICATION_RESULT_APPLIED", t, n)} \in SUBSET LogRow
  BY <1>1, <1>2, AppendedTypes DEF LogActions
<1>8. f.outbox \cup {Notify(i, "REMEDIATION_VERIFICATION_RESULT",
                          OwnerOr(f.items, i, u), t, n)} \in SUBSET Note
  BY <1>1, <1>2, NoteAdded DEF RequestNotes
<1>9. ASSUME NEW passed \in BOOLEAN
      PROVE  VerificationResult(f, u, i, passed, t, n) \in Files
  <2>1. [f.items EXCEPT ![i] = Verified(f.items[i], passed)] \in ItemRows
    BY <1>1, RowTypes, RowReplaced
  <2>2. ResultEvent(i, passed, f.items[i].evidence, t, n) \in Event
    BY <1>1, AppendedTypes, Zenon
  <2>3. f.timeline \cup {ResultEvent(i, passed, f.items[i].evidence, t, n)}
            \in SUBSET Event
    BY <1>2, <2>2
  <2> QED
    BY <2>1, <2>3, <1>2, <1>7, <1>8, ReplacedTypes, ZenonT(30) DEF VerificationResult
<1> QED
  BY <1>3, <1>4, <1>5, <1>6, <1>9

LEMMA BootstrapTypes ==
    ASSUME NEW G \in SUBSET Item, NEW t \in Nat, NEW n \in Nat
    PROVE  BootstrapResult(G, t, n) \in Files
<1>1. Recomputed(NoFiles, InitializeItems(G), t) \in Files
  BY NoFilesType, InitialTypes, RecomputedTypes
<1>2. InitializeTimeline(G, t, n) \in SUBSET Event
  BY CreatedTypes
<1> QED
  BY <1>1, <1>2 DEF BootstrapResult, Files

LEMMA PlanTypes ==
    ASSUME NEW f \in Files, NEW I, NEW t \in Nat, NEW n \in Nat
    PROVE  [f EXCEPT !.outbox = @ \cup Reminders(f.items, @, I, t, n)] \in Files
<1>1. Reminders(f.items, f.outbox, I, t, n) \in SUBSET Note
  BY ReminderTypes
<1> QED
  BY <1>1 DEF Files

LEMMA InitType == Init => TypeOK
  BY NoFilesType DEF Init, TypeOK

LEMMA NextType == TypeOK /\ [Next]_vars => TypeOK'
<1> SUFFICES ASSUME TypeOK, [Next]_vars PROVE TypeOK'
  OBVIOUS
<1> USE DEF TypeOK
<1>1. CASE Bootstrap
  BY <1>1, BootstrapTypes DEF Bootstrap, Serve
<1>2. CASE AssignOwner
  BY <1>2, ResultTypes DEF AssignOwner, AssignOwnerAllowed, InReach, Serve
<1>3. CASE SetDueDate
  <2>1. PICK u \in User, i \in Item, d \in DueDate :
           /\ SetDueDateAllowed(files.items, u, i)
           /\ Serve(SetDueDateResult(files, u, i, d, clock, seq))
    BY <1>3 DEF SetDueDate
  <2>2. i \in DOMAIN files.items
    BY <2>1 DEF SetDueDateAllowed, InReach
  <2>3. SetDueDateResult(files, u, i, d, clock, seq) \in Files
    BY <2>2, ResultTypes, Zenon
  <2> QED
    BY <2>1, <2>3 DEF Serve
<1>4. CASE SubmitEvidence
  BY <1>4, ResultTypes DEF SubmitEvidence, TransitionAllowed, InReach, Serve
<1>5. CASE TransitionStatus
  BY <1>5, ResultTypes DEF TransitionStatus, TransitionAllowed, InReach, Serve
<1>6. CASE ApplyVerificationResult
  <2>1. PICK u \in User, i \in Item, passed \in BOOLEAN :
           /\ VerificationAllowed(files.items, u, i)
           /\ Serve(VerificationResult(files, u, i, passed, clock, seq))
    BY <1>6 DEF ApplyVerificationResult
  <2>2. i \in DOMAIN files.items
    BY <2>1 DEF VerificationAllowed, InReach
  <2>3. VerificationResult(files, u, i, passed, clock, seq) \in Files
    BY <2>2, ResultTypes, Zenon
  <2> QED
    BY <2>1, <2>3 DEF Serve
<1>7. CASE PlanDueNotifications
  <2>1. PICK I : PlanFor(I)
    BY <1>7 DEF PlanDueNotifications
  <2>2. [files EXCEPT !.outbox = @ \cup Reminders(files.items, @, I, clock, seq)]
            \in Files
    BY PlanTypes, Zenon
  <2> QED
    BY <2>1, <2>2 DEF PlanFor, Serve
<1>8. CASE Tick
  BY <1>8 DEF Tick
<1>9. CASE UNCHANGED vars
  BY <1>9 DEF vars
<1> QED
  BY <1>1, <1>2, <1>3, <1>4, <1>5, <1>6, <1>7, <1>8, <1>9 DEF Next

\* The workspace files always hold rows of their declared shapes.
THEOREM TypeCorrect == Spec => []TypeOK
  BY InitType, NextType, PTL DEF Spec

-----------------------------------------------------------------------------
(* The ledger and the state.  What makes the safety properties inductive,   *)
(* item by item: the ledger tells the status, EVIDENCE_SUBMITTED is not     *)
(* left behind, and an item in VERIFYING already carries the evidence, the  *)
(* metadata and the queue row that a later CLOSED refers to.                *)

NewestIn(T, e) ==
    /\ IsStatusEvent(e)
    /\ \A d \in T : d.item = e.item /\ IsStatusEvent(d) => d.seq <= e.seq

Told(f, i) ==
    \E e \in f.timeline :
        e.item = i /\ NewestIn(f.timeline, e) /\ e.to = f.items[i].status

Covered(f, i) ==
    /\ f.items[i].evidence # {}
    /\ \A e \in f.items[i].evidence : \E m \in f.evidence : m.item = i /\ m.file = e

QueuedFor(f, i) ==
    \E q \in f.timeline :
        /\ q.item = i /\ q.action = "VERIFICATION_QUEUED"
        /\ q.evidence = f.items[i].evidence

VerifiedFor(f, i) ==
    \E r, q \in f.timeline :
        /\ r.item = i /\ r.action = "VERIFICATION_RESULT" /\ NewestIn(f.timeline, r)
        /\ q.item = i /\ q.action = "VERIFICATION_QUEUED" /\ q.seq < r.seq
        /\ q.evidence = f.items[i].evidence
        /\ r.evidence = f.items[i].evidence

Good(f, i) ==
    /\ Told(f, i)
    /\ f.items[i].status # "EVIDENCE_SUBMITTED"
    /\ f.items[i].status = "VERIFYING" => Covered(f, i) /\ QueuedFor(f, i)
    /\ f.items[i].status = "CLOSED" => Covered(f, i) /\ VerifiedFor(f, i)

\* Every row of the ledger is older than the rows still to come.
Fresh(f, n) == \A e \in f.timeline : e.seq < n

IInv ==
    /\ TypeOK
    /\ Fresh(files, seq)
    /\ \A i \in Items : Good(files, i)

\* An item whose row keeps its status and evidence stays good when the ledger
\* grows by rows that are not status rows of that item and no metadata of it
\* disappears.
LEMMA GoodFrame ==
    ASSUME NEW f, NEW g, NEW j,
           Good(f, j),
           g.items[j].status = f.items[j].status,
           g.items[j].evidence = f.items[j].evidence,
           f.timeline \subseteq g.timeline,
           \A e \in g.timeline : e \in f.timeline \/ ~IsStatusEvent(e) \/ e.item # j,
           \A m \in f.evidence : m.item = j =>
               \E k \in g.evidence : k.item = j /\ k.file = m.file
    PROVE  Good(g, j)
<1>1. \A e \in f.timeline : e.item = j /\ NewestIn(f.timeline, e)
          => NewestIn(g.timeline, e)
  BY DEF NewestIn
<1>2. Told(g, j)
  BY <1>1 DEF Good, Told
<1>3. Covered(f, j) => Covered(g, j)
  BY DEF Covered
<1>4. QueuedFor(f, j) => QueuedFor(g, j)
  BY DEF QueuedFor
<1>5. VerifiedFor(f, j) => VerifiedFor(g, j)
  BY <1>1 DEF VerifiedFor
<1> QED
  BY <1>2, <1>3, <1>4, <1>5 DEF Good

\* Before any bootstrap there are no items.
LEMMA InitIInv == Init => IInv
<1> SUFFICES ASSUME Init PROVE IInv
  OBVIOUS
<1>1. DOMAIN files.items = {} /\ files.timeline = {}
  BY DEF Init, NoFiles
<1> QED
  BY <1>1, InitType DEF IInv, Items, Fresh

LEMMA StatusIsNotNone == \A s \in Status : s # None
  BY LifecycleAssumption

\* The same for a request that touches item i only: the others stay good.
LEMMA OthersStayGood ==
    ASSUME NEW f, NEW g, NEW i,
           DOMAIN g.items = DOMAIN f.items,
           \A j \in DOMAIN f.items : Good(f, j),
           \A j \in DOMAIN f.items \ {i} : g.items[j] = f.items[j],
           f.timeline \subseteq g.timeline,
           \A e \in g.timeline : e \in f.timeline \/ e.item = i,
           \A m \in f.evidence : m.item # i => m \in g.evidence
    PROVE  \A j \in DOMAIN g.items \ {i} : Good(g, j)
<1> TAKE j \in DOMAIN g.items \ {i}
<1>1. Good(f, j) /\ g.items[j] = f.items[j]
  OBVIOUS
<1>2. \A m \in f.evidence : m.item = j => \E k \in g.evidence : k.item = j /\ k.file = m.file
  OBVIOUS
<1>3. \A e \in g.timeline : e \in f.timeline \/ ~IsStatusEvent(e) \/ e.item # j
  OBVIOUS
<1> QED
  BY <1>1, <1>2, <1>3, GoodFrame

\* bootstrap: every item is OPEN and its only ledger row says so.
LEMMA BootstrapGood ==
    ASSUME NEW G \in SUBSET Item, NEW t \in Nat, NEW n \in Nat
    PROVE  LET g == BootstrapResult(G, t, n)
           IN  Fresh(g, n + 2) /\ \A i \in DOMAIN g.items : Good(g, i)
<1> DEFINE g == BootstrapResult(G, t, n)
           created(i) == [item |-> i, action |-> "CREATED", actor |-> System,
                          from |-> None, to |-> "OPEN", evidence |-> {},
                          at |-> t, seq |-> n]
<1>1. /\ g.items = [i \in G |-> InitialRow]
      /\ g.timeline = {created(i) : i \in G}
  BY DEF BootstrapResult, Recomputed, NoFiles, InitializeItems, InitializeTimeline
<1> HIDE DEF g
<1>2. Fresh(g, n + 2)
  BY <1>1 DEF Fresh
<1>3. ASSUME NEW i \in G PROVE Good(g, i)
  <2>1. g.items[i].status = "OPEN"
    BY <1>1 DEF InitialRow
  <2>2. created(i) \in g.timeline
    BY <1>1
  <2>3. \A d \in g.timeline : d.seq <= created(i).seq
    BY <1>1
  <2>4. created(i).item = i /\ created(i).to = "OPEN"
    OBVIOUS
  <2>5. "OPEN" # None
    BY StatusIsNotNone DEF Status
  <2> HIDE DEF created
  <2>6. Told(g, i)
    BY <2>1, <2>2, <2>3, <2>4, <2>5 DEF Told, NewestIn, IsStatusEvent
  <2> QED
    BY <2>1, <2>6 DEF Good
<1> QED
  BY <1>1, <1>2, <1>3 DEF g

\* assign_owner: no status, no evidence, no status row.
LEMMA AssignOwnerGood ==
    ASSUME NEW f \in Files, NEW i \in DOMAIN f.items, NEW u, NEW o, NEW t, NEW n \in Nat,
           Fresh(f, n), \A j \in DOMAIN f.items : Good(f, j)
    PROVE  LET g == AssignOwnerResult(f, u, i, o, t, n)
           IN  Fresh(g, n + 2) /\ \A j \in DOMAIN g.items : Good(g, j)
<1> DEFINE g == AssignOwnerResult(f, u, i, o, t, n)
<1>1. /\ g.items = [f.items EXCEPT ![i].owner = o]
      /\ g.timeline = f.timeline \cup {OwnerEvent(i, u, t, n)}
      /\ g.evidence = f.evidence
  BY DEF AssignOwnerResult, Recomputed, Files
<1>2. \A j \in DOMAIN f.items : f.items[j] \in Row
  BY FilesParts
<1> HIDE DEF g
<1>3. /\ OwnerEvent(i, u, t, n).seq = n /\ OwnerEvent(i, u, t, n).to = None
  BY DEF OwnerEvent
<1>4. Fresh(g, n + 2)
  <2>1. \A e \in f.timeline : e.seq \in Nat
    BY FilesParts DEF Event
  <2> QED
    BY <1>1, <1>3, <2>1 DEF Fresh
<1>5. ASSUME NEW j \in DOMAIN g.items PROVE Good(g, j)
  <2>1. /\ j \in DOMAIN f.items
        /\ g.items[j].status = f.items[j].status
        /\ g.items[j].evidence = f.items[j].evidence
    BY <1>1, <1>2 DEF Row
  <2>2. \A e \in g.timeline : e \in f.timeline \/ ~IsStatusEvent(e) \/ e.item # j
    BY <1>1, <1>3 DEF IsStatusEvent
  <2> QED
    BY <1>1, <2>1, <2>2, GoodFrame
<1> QED
  BY <1>4, <1>5 DEF g

\* set_due_date: neither.
LEMMA SetDueDateGood ==
    ASSUME NEW f \in Files, NEW i \in DOMAIN f.items, NEW u, NEW d, NEW t, NEW n \in Nat,
           Fresh(f, n), \A j \in DOMAIN f.items : Good(f, j)
    PROVE  LET g == SetDueDateResult(f, u, i, d, t, n)
           IN  Fresh(g, n + 2) /\ \A j \in DOMAIN g.items : Good(g, j)
<1> DEFINE g == SetDueDateResult(f, u, i, d, t, n)
<1>1. /\ g.items = [f.items EXCEPT ![i].due = d]
      /\ g.timeline = f.timeline \cup {DueEvent(i, u, t, n)}
      /\ g.evidence = f.evidence
  BY DEF SetDueDateResult, Recomputed, Files
<1>2. \A j \in DOMAIN f.items : f.items[j] \in Row
  BY FilesParts
<1> HIDE DEF g
<1>3. DueEvent(i, u, t, n).seq = n /\ DueEvent(i, u, t, n).to = None
  BY DEF DueEvent, OwnerEvent
<1>4. Fresh(g, n + 2)
  <2>1. \A e \in f.timeline : e.seq \in Nat
    BY FilesParts DEF Event
  <2> QED
    BY <1>1, <1>3, <2>1 DEF Fresh
<1>5. ASSUME NEW j \in DOMAIN g.items PROVE Good(g, j)
  <2>1. /\ j \in DOMAIN f.items
        /\ g.items[j].status = f.items[j].status
        /\ g.items[j].evidence = f.items[j].evidence
    BY <1>1, <1>2 DEF Row
  <2>2. \A e \in g.timeline : e \in f.timeline \/ ~IsStatusEvent(e) \/ e.item # j
    BY <1>1, <1>3 DEF IsStatusEvent
  <2> QED
    BY <1>1, <2>1, <2>2, GoodFrame
<1> QED
  BY <1>4, <1>5 DEF g

\* submit_for_verification: the item arrives in VERIFYING with the evidence,
\* its metadata and the queue row, which is the newest status row.
LEMMA SubmitGood ==
    ASSUME NEW f \in Files, NEW i \in DOMAIN f.items, NEW u, NEW E \in SUBSET File,
           E # {}, NEW t, NEW n \in Nat,
           Fresh(f, n), \A j \in DOMAIN f.items : Good(f, j)
    PROVE  LET g == SubmitResult(f, u, i, E, t, n)
           IN  Fresh(g, n + 2) /\ \A j \in DOMAIN g.items : Good(g, j)
<1> DEFINE g == SubmitResult(f, u, i, E, t, n)
           tr == TransitionEvent(i, "EVIDENCE_SUBMITTED", u, E, t, n)
           qd == QueuedEvent(i, E, t, n + 1)
<1>1. /\ g.items = [f.items EXCEPT ![i] = Submitted(f.items[i], E)]
      /\ g.timeline = f.timeline \cup {tr, qd}
      /\ g.evidence = WithMetadata(f.evidence, u, i, E, t)
  BY DEF SubmitResult, Recomputed, Files
<1>2. f.items[i] \in Row /\ \A e \in f.timeline : e.seq \in Nat
  BY FilesParts DEF Event
<1>3. /\ tr.seq = n /\ tr.item = i
      /\ qd.seq = n + 1 /\ qd.item = i /\ qd.to = "VERIFYING"
      /\ qd.action = "VERIFICATION_QUEUED" /\ qd.evidence = E
  BY DEF TransitionEvent, QueuedEvent
<1>4. /\ g.items[i].status = "VERIFYING" /\ g.items[i].evidence = E
      /\ DOMAIN g.items = DOMAIN f.items
  BY <1>1, <1>2 DEF Submitted, Transitioned, Row
<1>5. /\ \A m \in f.evidence : m.item # i => m \in g.evidence
      /\ \A e \in E : \E m \in g.evidence : m.item = i /\ m.file = e
  <2>1. \A m \in f.evidence : m.item # i => m \in g.evidence
    BY <1>1 DEF WithMetadata
  <2>2. ASSUME NEW e \in E PROVE \E m \in g.evidence : m.item = i /\ m.file = e
    <3>1. [item |-> i, file |-> e, by |-> u, at |-> t] \in g.evidence
      BY <1>1 DEF WithMetadata
    <3> QED
      BY <3>1
  <2> QED
    BY <2>1, <2>2
<1> HIDE DEF g, tr, qd
<1>6. Fresh(g, n + 2)
  BY <1>1, <1>2, <1>3 DEF Fresh
<1>7. NewestIn(g.timeline, qd)
  <2>1. \A d \in g.timeline : d.seq <= qd.seq
    BY <1>1, <1>2, <1>3 DEF Fresh
  <2> QED
    BY <2>1, <1>3, StatusIsNotNone DEF NewestIn, IsStatusEvent, Status
<1>8. Good(g, i)
  BY <1>1, <1>3, <1>4, <1>5, <1>7 DEF Good, Told, Covered, QueuedFor
<1>9. \A j \in DOMAIN g.items \ {i} : Good(g, j)
  <2>1. \A j \in DOMAIN f.items \ {i} : g.items[j] = f.items[j]
    BY <1>1
  <2>2. f.timeline \subseteq g.timeline
    BY <1>1
  <2>3. \A e \in g.timeline : e \in f.timeline \/ e.item = i
    BY <1>1, <1>3
  <2> QED
    BY <1>4, <1>5, <2>1, <2>2, <2>3, OthersStayGood
<1> QED
  BY <1>6, <1>8, <1>9 DEF g

\* The edges that transition_status accepts.
LEMMA UserEdges ==
    ASSUME NEW row \in Row, NEW to, NEW E, CanTransition(row, to, E)
    PROVE  \/ row.status = "OPEN" /\ to = "IN_PROGRESS"
           \/ row.status = "IN_PROGRESS" /\ to \in {"EVIDENCE_SUBMITTED", "OPEN"}
           \/ row.status = "EVIDENCE_SUBMITTED" /\ to = "IN_PROGRESS"
           \/ row.status = "CLOSED" /\ to = "OPEN"
<1>1. row.status \in Status
  BY DEF Row
<1> QED
  BY <1>1 DEF CanTransition, ValidTransitions, Status

\* The other transitions end in OPEN or IN_PROGRESS, which ask for nothing.
LEMMA TransitionGood ==
    ASSUME NEW f \in Files, NEW i \in DOMAIN f.items, NEW u, NEW to, NEW t, NEW n \in Nat,
           to # "EVIDENCE_SUBMITTED", CanTransition(f.items[i], to, {}),
           Fresh(f, n), \A j \in DOMAIN f.items : Good(f, j)
    PROVE  LET g == TransitionResult(f, u, i, to, t, n)
           IN  Fresh(g, n + 2) /\ \A j \in DOMAIN g.items : Good(g, j)
<1> DEFINE g == TransitionResult(f, u, i, to, t, n)
           tr == TransitionEvent(i, to, u, {}, t, n)
<1>1. /\ g.items = [f.items EXCEPT ![i] = Transitioned(f.items[i], to, {})]
      /\ g.timeline = f.timeline \cup {tr}
      /\ g.evidence = f.evidence
  BY DEF TransitionResult, Recomputed, Files
<1>2. f.items[i] \in Row /\ \A e \in f.timeline : e.seq \in Nat
  BY FilesParts DEF Event
<1>3. tr.seq = n /\ tr.item = i /\ tr.to = to
  BY DEF TransitionEvent
<1>4. to \in {"OPEN", "IN_PROGRESS"}
  BY <1>2, UserEdges
<1>5. g.items[i].status = to /\ DOMAIN g.items = DOMAIN f.items
  BY <1>1, <1>2 DEF Transitioned, Row
<1> HIDE DEF g, tr
<1>6. Fresh(g, n + 2)
  BY <1>1, <1>2, <1>3 DEF Fresh
<1>7. NewestIn(g.timeline, tr)
  <2>1. \A d \in g.timeline : d.seq <= tr.seq
    BY <1>1, <1>2, <1>3 DEF Fresh
  <2> QED
    BY <2>1, <1>3, <1>4, StatusIsNotNone DEF NewestIn, IsStatusEvent, Status
<1>8. Good(g, i)
  BY <1>1, <1>3, <1>4, <1>5, <1>7 DEF Good, Told
<1>9. \A j \in DOMAIN g.items \ {i} : Good(g, j)
  <2>1. \A j \in DOMAIN f.items \ {i} : g.items[j] = f.items[j]
    BY <1>1
  <2>2. f.timeline \subseteq g.timeline
    BY <1>1
  <2>3. \A e \in g.timeline : e \in f.timeline \/ e.item = i
    BY <1>1, <1>3
  <2> QED
    BY <1>1, <1>5, <2>1, <2>2, <2>3, OthersStayGood
<1> QED
  BY <1>6, <1>8, <1>9 DEF g

\* apply_verification_result: what a closed item needs is what an item in
\* VERIFYING has, and the result row is the newest status row.
LEMMA VerificationGood ==
    ASSUME NEW f \in Files, NEW i \in DOMAIN f.items, NEW u, NEW passed \in BOOLEAN,
           NEW t, NEW n \in Nat, f.items[i].status = "VERIFYING",
           Fresh(f, n), \A j \in DOMAIN f.items : Good(f, j)
    PROVE  LET g == VerificationResult(f, u, i, passed, t, n)
           IN  Fresh(g, n + 2) /\ \A j \in DOMAIN g.items : Good(g, j)
<1> DEFINE g == VerificationResult(f, u, i, passed, t, n)
           rs == ResultEvent(i, passed, f.items[i].evidence, t, n)
<1>1. /\ g.items = [f.items EXCEPT ![i] = Verified(f.items[i], passed)]
      /\ g.timeline = f.timeline \cup {rs}
      /\ g.evidence = f.evidence
  BY DEF VerificationResult, Recomputed, Files
<1>2. f.items[i] \in Row /\ \A e \in f.timeline : e.seq \in Nat
  BY FilesParts DEF Event
<1>3. /\ rs.seq = n /\ rs.item = i /\ rs.to = Verdict(passed)
      /\ rs.action = "VERIFICATION_RESULT" /\ rs.evidence = f.items[i].evidence
  BY DEF ResultEvent
<1>4. Verdict(passed) \in {"CLOSED", "IN_PROGRESS"}
  BY DEF Verdict
<1>5. /\ g.items[i].status = Verdict(passed)
      /\ g.items[i].evidence = f.items[i].evidence
      /\ DOMAIN g.items = DOMAIN f.items
  BY <1>1, <1>2 DEF Verified, Row
<1> HIDE DEF g, rs
<1>6. Fresh(g, n + 2)
  BY <1>1, <1>2, <1>3 DEF Fresh
<1>7. NewestIn(g.timeline, rs)
  <2>1. \A d \in g.timeline : d.seq <= rs.seq
    BY <1>1, <1>2, <1>3 DEF Fresh
  <2> QED
    BY <2>1, <1>3, <1>4, StatusIsNotNone DEF NewestIn, IsStatusEvent, Status
<1>8. Good(g, i)
  <2>1. Told(g, i)
    BY <1>1, <1>3, <1>5, <1>7 DEF Told
  <2>2. Covered(f, i) /\ QueuedFor(f, i)
    BY DEF Good
  <2>3. Covered(g, i)
    BY <2>2, <1>1, <1>5 DEF Covered
  <2>4. PICK q \in f.timeline : /\ q.item = i /\ q.action = "VERIFICATION_QUEUED"
                                /\ q.evidence = f.items[i].evidence
    BY <2>2 DEF QueuedFor
  <2>5. q \in g.timeline /\ rs \in g.timeline /\ q.seq < rs.seq
    BY <2>4, <1>1, <1>3 DEF Fresh
  <2>6. VerifiedFor(g, i)
    BY <2>4, <2>5, <1>3, <1>5, <1>7 DEF VerifiedFor
  <2> QED
    BY <2>1, <2>3, <2>6, <1>4, <1>5 DEF Good
<1>9. \A j \in DOMAIN g.items \ {i} : Good(g, j)
  <2>1. \A j \in DOMAIN f.items \ {i} : g.items[j] = f.items[j]
    BY <1>1
  <2>2. f.timeline \subseteq g.timeline
    BY <1>1
  <2>3. \A e \in g.timeline : e \in f.timeline \/ e.item = i
    BY <1>1, <1>3
  <2> QED
    BY <1>1, <1>5, <2>1, <2>2, <2>3, OthersStayGood
<1> QED
  BY <1>6, <1>8, <1>9 DEF g

\* IInv is inductive.
LEMMA NextIInv == IInv /\ [Next]_vars => IInv'
<1> SUFFICES ASSUME IInv, [Next]_vars PROVE IInv'
  OBVIOUS
<1>1. TypeOK /\ TypeOK'
  BY NextType DEF IInv
<1>2. /\ files \in Files /\ clock \in Nat /\ seq \in Nat
      /\ Fresh(files, seq) /\ \A i \in DOMAIN files.items : Good(files, i)
  BY DEF IInv, TypeOK, Items
<1> DEFINE After(g) == Fresh(g, seq + 2) /\ \A j \in DOMAIN g.items : Good(g, j)
<1>3. ASSUME NEW g, Serve(g), After(g) PROVE IInv'
  BY <1>1, <1>3 DEF IInv, Serve, Items
<1> HIDE DEF After
<1>4. CASE Bootstrap
  <2>1. PICK G \in SUBSET Item : Serve(BootstrapResult(G, clock, seq))
    BY <1>4 DEF Bootstrap
  <2>2. After(BootstrapResult(G, clock, seq))
    BY <1>2, BootstrapGood DEF After
  <2> QED
    BY <2>1, <2>2, <1>3
<1>5. CASE AssignOwner
  <2>1. PICK u, o \in User, i \in Item :
           /\ AssignOwnerAllowed(files.items, u, i, o)
           /\ Serve(AssignOwnerResult(files, u, i, o, clock, seq))
    BY <1>5 DEF AssignOwner
  <2>2. After(AssignOwnerResult(files, u, i, o, clock, seq))
    BY <2>1, <1>2, AssignOwnerGood DEF After, AssignOwnerAllowed, InReach
  <2> QED
    BY <2>1, <2>2, <1>3
<1>6. CASE SetDueDate
  <2>1. PICK u \in User, i \in Item, d \in DueDate :
           /\ SetDueDateAllowed(files.items, u, i)
           /\ Serve(SetDueDateResult(files, u, i, d, clock, seq))
    BY <1>6 DEF SetDueDate
  <2>2. After(SetDueDateResult(files, u, i, d, clock, seq))
    BY <2>1, <1>2, SetDueDateGood DEF After, SetDueDateAllowed, InReach
  <2> QED
    BY <2>1, <2>2, <1>3
<1>7. CASE SubmitEvidence
  <2>1. PICK u \in User, i \in Item, E \in SUBSET File :
           /\ TransitionAllowed(files.items, u, i, "EVIDENCE_SUBMITTED", E)
           /\ Serve(SubmitResult(files, u, i, E, clock, seq))
    BY <1>7 DEF SubmitEvidence
  <2>2. After(SubmitResult(files, u, i, E, clock, seq))
    BY <2>1, <1>2, SubmitGood DEF After, TransitionAllowed, InReach, CanTransition
  <2> QED
    BY <2>1, <2>2, <1>3
<1>8. CASE TransitionStatus
  <2>1. PICK u \in User, i \in Item, to \in Status \ {"EVIDENCE_SUBMITTED"} :
           /\ TransitionAllowed(files.items, u, i, to, {})
           /\ Serve(TransitionResult(files, u, i, to, clock, seq))
    BY <1>8 DEF TransitionStatus
  <2>2. After(TransitionResult(files, u, i, to, clock, seq))
    BY <2>1, <1>2, TransitionGood DEF After, TransitionAllowed, InReach
  <2> QED
    BY <2>1, <2>2, <1>3
<1>9. CASE ApplyVerificationResult
  <2>1. PICK u \in User, i \in Item, passed \in BOOLEAN :
           /\ VerificationAllowed(files.items, u, i)
           /\ Serve(VerificationResult(files, u, i, passed, clock, seq))
    BY <1>9 DEF ApplyVerificationResult
  <2>2. i \in DOMAIN files.items /\ files.items[i].status = "VERIFYING"
    BY <2>1 DEF VerificationAllowed, InReach
  <2>3. After(VerificationResult(files, u, i, passed, clock, seq))
    BY <2>2, <1>2, VerificationGood, Zenon DEF After
  <2> QED
    BY <2>1, <2>3, <1>3
<1>10. CASE PlanDueNotifications
  <2>1. PICK I : PlanFor(I)
    BY <1>10 DEF PlanDueNotifications
  <2> DEFINE g == [files EXCEPT
                      !.outbox = @ \cup Reminders(files.items, @, I, clock, seq)]
  <2>2. /\ g.items = files.items /\ g.timeline = files.timeline
        /\ g.evidence = files.evidence
    BY <1>2 DEF Files
  <2>3. Serve(g)
    BY <2>1 DEF PlanFor
  <2> HIDE DEF g
  <2>4. \A j \in DOMAIN g.items : Good(g, j)
    BY <1>2, <2>2, GoodFrame
  <2>5. Fresh(g, seq + 2)
    <3>1. \A e \in files.timeline : e.seq \in Nat
      BY <1>2, FilesParts DEF Event
    <3> QED
      BY <1>2, <2>2, <3>1 DEF Fresh
  <2> QED
    BY <2>3, <2>4, <2>5, <1>3 DEF After
<1>11. CASE Tick \/ UNCHANGED vars
  BY <1>11, <1>1, <1>2 DEF Tick, vars, IInv, Items
<1> QED
  BY <1>4, <1>5, <1>6, <1>7, <1>8, <1>9, <1>10, <1>11 DEF Next

THEOREM Inductive == Spec => []IInv
  BY InitIInv, NextIInv, PTL DEF Spec

\* The ledger tells the status of every item (see LedgerTellsStatus).
THEOREM LedgerTells == Spec => []LedgerTellsStatus
<1>1. IInv => LedgerTellsStatus
  BY DEF IInv, Good, Told, LedgerTellsStatus, NewestIn, IsNewest
<1> QED
  BY <1>1, Inductive, PTL

\* Only a passed verification of the evidence it carries closes an item
\* (see ClosedIsVerified).
THEOREM ClosedVerified == Spec => []ClosedIsVerified
<1>1. IInv => ClosedIsVerified
  BY DEF IInv, Good, Covered, VerifiedFor, ClosedIsVerified, NewestIn, IsNewest
<1> QED
  BY <1>1, Inductive, PTL

-----------------------------------------------------------------------------
(* Action properties.                                                       *)

\* What a request other than a bootstrap may do to the workspace f.
Lawful(f, g, n) ==
    /\ DOMAIN g.items = DOMAIN f.items
    /\ \A i \in DOMAIN f.items : StatusStep(f.items[i].status, g.items[i].status)
    /\ f.timeline \subseteq g.timeline
    /\ f.log \subseteq g.log
    /\ f.outbox \subseteq g.outbox
    /\ \A e \in g.timeline \ f.timeline : e.seq >= n

LEMMA AssignOwnerLawful ==
    ASSUME NEW f \in Files, NEW i \in DOMAIN f.items, NEW u, NEW o, NEW t, NEW n \in Nat
    PROVE  Lawful(f, AssignOwnerResult(f, u, i, o, t, n), n)
<1> DEFINE g == AssignOwnerResult(f, u, i, o, t, n)
<1>1. /\ g.items = [f.items EXCEPT ![i].owner = o]
      /\ g.timeline = f.timeline \cup {OwnerEvent(i, u, t, n)}
      /\ f.log \subseteq g.log /\ f.outbox \subseteq g.outbox
  BY DEF AssignOwnerResult, Recomputed, Files
<1>2. \A j \in DOMAIN f.items : f.items[j] \in Row
  BY FilesParts
<1> HIDE DEF g
<1>3. \A j \in DOMAIN f.items : g.items[j].status = f.items[j].status
  BY <1>1, <1>2 DEF Row
<1>4. OwnerEvent(i, u, t, n).seq = n
  BY DEF OwnerEvent
<1> QED
  BY <1>1, <1>3, <1>4 DEF Lawful, StatusStep, g

LEMMA SetDueDateLawful ==
    ASSUME NEW f \in Files, NEW i \in DOMAIN f.items, NEW u, NEW d, NEW t, NEW n \in Nat
    PROVE  Lawful(f, SetDueDateResult(f, u, i, d, t, n), n)
<1> DEFINE g == SetDueDateResult(f, u, i, d, t, n)
<1>1. /\ g.items = [f.items EXCEPT ![i].due = d]
      /\ g.timeline = f.timeline \cup {DueEvent(i, u, t, n)}
      /\ f.log \subseteq g.log /\ f.outbox \subseteq g.outbox
  BY DEF SetDueDateResult, Recomputed, Files
<1>2. \A j \in DOMAIN f.items : f.items[j] \in Row
  BY FilesParts
<1> HIDE DEF g
<1>3. \A j \in DOMAIN f.items : g.items[j].status = f.items[j].status
  BY <1>1, <1>2 DEF Row
<1>4. DueEvent(i, u, t, n).seq = n
  BY DEF DueEvent, OwnerEvent
<1> QED
  BY <1>1, <1>3, <1>4 DEF Lawful, StatusStep, g

LEMMA SubmitLawful ==
    ASSUME NEW f \in Files, NEW i \in DOMAIN f.items, NEW u, NEW E, NEW t, NEW n \in Nat,
           CanTransition(f.items[i], "EVIDENCE_SUBMITTED", E)
    PROVE  Lawful(f, SubmitResult(f, u, i, E, t, n), n)
<1> DEFINE g == SubmitResult(f, u, i, E, t, n)
<1>1. /\ g.items = [f.items EXCEPT ![i] = Submitted(f.items[i], E)]
      /\ g.timeline = f.timeline \cup
             {TransitionEvent(i, "EVIDENCE_SUBMITTED", u, E, t, n),
              QueuedEvent(i, E, t, n + 1)}
      /\ f.log \subseteq g.log /\ f.outbox \subseteq g.outbox
  BY DEF SubmitResult, Recomputed, Files
<1>2. f.items[i] \in Row /\ f.items[i].status = "IN_PROGRESS"
  BY FilesParts, UserEdges
<1> HIDE DEF g
<1>3. g.items[i].status = "VERIFYING"
  BY <1>1, <1>2 DEF Submitted, Transitioned, Row
<1>4. /\ TransitionEvent(i, "EVIDENCE_SUBMITTED", u, E, t, n).seq = n
      /\ QueuedEvent(i, E, t, n + 1).seq = n + 1
  BY DEF TransitionEvent, QueuedEvent
<1> QED
  BY <1>1, <1>2, <1>3, <1>4 DEF Lawful, StatusStep, g

LEMMA TransitionLawful ==
    ASSUME NEW f \in Files, NEW i \in DOMAIN f.items, NEW u, NEW to, NEW t, NEW n \in Nat,
           to # "EVIDENCE_SUBMITTED", CanTransition(f.items[i], to, {}),
           f.items[i].status # "EVIDENCE_SUBMITTED"
    PROVE  Lawful(f, TransitionResult(f, u, i, to, t, n), n)
<1> DEFINE g == TransitionResult(f, u, i, to, t, n)
<1>1. /\ g.items = [f.items EXCEPT ![i] = Transitioned(f.items[i], to, {})]
      /\ g.timeline = f.timeline \cup {TransitionEvent(i, to, u, {}, t, n)}
      /\ f.log \subseteq g.log /\ f.outbox \subseteq g.outbox
  BY DEF TransitionResult, Recomputed, Files
<1>2. f.items[i] \in Row /\ StatusStep(f.items[i].status, to)
  BY FilesParts, UserEdges DEF StatusStep
<1> HIDE DEF g
<1>3. g.items[i].status = to
  BY <1>1, <1>2 DEF Transitioned, Row
<1>4. TransitionEvent(i, to, u, {}, t, n).seq = n
  BY DEF TransitionEvent
<1> QED
  BY <1>1, <1>2, <1>3, <1>4 DEF Lawful, StatusStep, g

LEMMA VerificationLawful ==
    ASSUME NEW f \in Files, NEW i \in DOMAIN f.items, NEW u, NEW passed \in BOOLEAN,
           NEW t, NEW n \in Nat, f.items[i].status = "VERIFYING"
    PROVE  Lawful(f, VerificationResult(f, u, i, passed, t, n), n)
<1> DEFINE g == VerificationResult(f, u, i, passed, t, n)
<1>1. /\ g.items = [f.items EXCEPT ![i] = Verified(f.items[i], passed)]
      /\ g.timeline = f.timeline \cup
             {ResultEvent(i, passed, f.items[i].evidence, t, n)}
      /\ f.log \subseteq g.log /\ f.outbox \subseteq g.outbox
  BY DEF VerificationResult, Recomputed, Files
<1>2. f.items[i] \in Row
  BY FilesParts
<1> HIDE DEF g
<1>3. g.items[i].status \in {"CLOSED", "IN_PROGRESS"}
  BY <1>1, <1>2 DEF Verified, Verdict, Row
<1>4. ResultEvent(i, passed, f.items[i].evidence, t, n).seq = n
  BY DEF ResultEvent
<1> QED
  BY <1>1, <1>3, <1>4 DEF Lawful, StatusStep, g

\* Every step is a bootstrap or lawful.
LEMMA NextLawful ==
    ASSUME IInv, [Next]_vars
    PROVE  Bootstrap \/ Lawful(files, files', seq)
<1>1. files \in Files /\ clock \in Nat /\ seq \in Nat
  BY DEF IInv, TypeOK
<1>2. CASE AssignOwner
  BY <1>1, <1>2, AssignOwnerLawful DEF AssignOwner, AssignOwnerAllowed, InReach, Serve
<1>3. CASE SetDueDate
  <2>1. PICK u \in User, i \in Item, d \in DueDate :
           /\ SetDueDateAllowed(files.items, u, i)
           /\ files' = SetDueDateResult(files, u, i, d, clock, seq)
    BY <1>3 DEF SetDueDate, Serve
  <2> QED
    BY <2>1, <1>1, SetDueDateLawful DEF SetDueDateAllowed, InReach
<1>4. CASE SubmitEvidence
  <2>1. PICK u \in User, i \in Item, E \in SUBSET File :
           /\ TransitionAllowed(files.items, u, i, "EVIDENCE_SUBMITTED", E)
           /\ files' = SubmitResult(files, u, i, E, clock, seq)
    BY <1>4 DEF SubmitEvidence, Serve
  <2> QED
    BY <2>1, <1>1, SubmitLawful DEF TransitionAllowed, InReach
<1>5. CASE TransitionStatus
  <2>1. PICK u \in User, i \in Item, to \in Status \ {"EVIDENCE_SUBMITTED"} :
           /\ TransitionAllowed(files.items, u, i, to, {})
           /\ files' = TransitionResult(files, u, i, to, clock, seq)
    BY <1>5 DEF TransitionStatus, Serve
  <2>2. i \in DOMAIN files.items /\ files.items[i].status # "EVIDENCE_SUBMITTED"
    BY <2>1 DEF TransitionAllowed, InReach, IInv, Items, Good
  <2> QED
    BY <2>1, <2>2, <1>1, TransitionLawful DEF TransitionAllowed
<1>6. CASE ApplyVerificationResult
  <2>1. PICK u \in User, i \in Item, passed \in BOOLEAN :
           /\ VerificationAllowed(files.items, u, i)
           /\ files' = VerificationResult(files, u, i, passed, clock, seq)
    BY <1>6 DEF ApplyVerificationResult, Serve
  <2>2. i \in DOMAIN files.items /\ files.items[i].status = "VERIFYING"
    BY <2>1 DEF VerificationAllowed, InReach
  <2>3. Lawful(files, VerificationResult(files, u, i, passed, clock, seq), seq)
    BY <2>2, <1>1, VerificationLawful, Zenon
  <2> QED
    BY <2>1, <2>3
<1>7. CASE PlanDueNotifications
  <2>1. PICK I : PlanFor(I)
    BY <1>7 DEF PlanDueNotifications
  <2>2. /\ files'.items = files.items /\ files'.timeline = files.timeline
        /\ files'.log = files.log /\ files.outbox \subseteq files'.outbox
    BY <2>1, <1>1 DEF PlanFor, Serve, Files
  <2> QED
    BY <2>2 DEF Lawful, StatusStep
<1>8. CASE Tick \/ UNCHANGED vars
  BY <1>8 DEF Tick, vars, Lawful, StatusStep
<1> QED
  BY <1>2, <1>3, <1>4, <1>5, <1>6, <1>7, <1>8 DEF Next

\* A status moves along the lifecycle only (see LifecycleOnly).
THEOREM OnlyAlongLifecycle == Spec => LifecycleOnly
<1> DEFINE Moves == \/ Bootstrap
                    \/ /\ DOMAIN files'.items = Items
                       /\ \A i \in Items :
                             StatusStep(files.items[i].status, files'.items[i].status)
<1>1. IInv /\ [Next]_vars => [Moves]_vars
  BY NextLawful DEF Lawful, Items
<1> QED
  BY <1>1, Inductive, PTL DEF Spec, LifecycleOnly

\* The ledger, the log and the outbox only grow (see LedgersOnlyGrow).
THEOREM LedgersGrow == Spec => LedgersOnlyGrow
<1> DEFINE Grows == \/ Bootstrap
                    \/ /\ files.timeline \subseteq files'.timeline
                       /\ files.log \subseteq files'.log
                       /\ files.outbox \subseteq files'.outbox
                       /\ \A d \in files.timeline, e \in files'.timeline \ files.timeline :
                              d.seq < e.seq
<1>1. IInv /\ [Next]_vars => [Grows]_vars
  <2> SUFFICES ASSUME IInv, [Next]_vars PROVE Bootstrap \/ Grows
    OBVIOUS
  <2>1. CASE Lawful(files, files', seq)
    <3>1. files' \in Files /\ seq \in Nat /\ files \in Files
      BY NextType DEF IInv, TypeOK
    <3>2. \A d \in files.timeline : d.seq < seq /\ d.seq \in Nat
      BY <3>1, FilesParts DEF IInv, Fresh, Event
    <3>3. \A e \in files'.timeline : e.seq \in Nat
      BY <3>1, FilesParts DEF Event
    <3> QED
      BY <2>1, <3>1, <3>2, <3>3 DEF Lawful
  <2> QED
    BY <2>1, NextLawful
<1> QED
  BY <1>1, Inductive, PTL DEF Spec, LedgersOnlyGrow

-----------------------------------------------------------------------------
(* Who appears where: tenants and reminders.  Both invariants are inductive  *)
(* once types are known.                                                     *)

\* The two invariants, of a workspace f.
Isolated(f) ==
    /\ \A i \in DOMAIN f.items : f.items[i].owner # None =>
           /\ UserTenant[f.items[i].owner] = TenantOf[i]
           /\ RoleOf[f.items[i].owner] \in MUTATION_ROLES
    /\ \A r \in f.log : UserTenant[r.actor] = TenantOf[r.item]
    /\ \A m \in f.outbox : \A u \in m.recipients : UserTenant[u] = TenantOf[m.item]

OneADay(f) ==
    \A m1, m2 \in f.outbox :
        /\ m1.type \in DueNotes /\ m1.type = m2.type
        /\ m1.item = m2.item /\ Day(m1.at) = Day(m2.at)
        => m1 = m2

\* What a request of u about i does to owners, audit log and outbox.
Kept(f, g, u, i) ==
    /\ DOMAIN g.items = DOMAIN f.items
    /\ \A j \in DOMAIN f.items :
           \/ g.items[j].owner = f.items[j].owner
           \/ /\ j = i /\ UserTenant[g.items[j].owner] = UserTenant[u]
              /\ RoleOf[g.items[j].owner] \in MUTATION_ROLES
    /\ \A r \in g.log : r \in f.log \/ (r.item = i /\ r.actor = u)
    /\ \A m \in g.outbox :
           \/ m \in f.outbox
           \/ /\ m.item = i /\ m.type \in RequestNotes
              /\ \A v \in m.recipients :
                     \/ UserTenant[v] = UserTenant[u]
                     \/ v = f.items[i].owner /\ v # None

LEMMA KeptIsEnough ==
    ASSUME NEW f, NEW g, NEW u, NEW i \in DOMAIN f.items, Kept(f, g, u, i),
           TenantOf[i] = UserTenant[u], Isolated(f), OneADay(f)
    PROVE  Isolated(g) /\ OneADay(g)
<1>1. RequestNotes \cap DueNotes = {}
  BY DEF RequestNotes, DueNotes
<1>2. OneADay(g)
  BY <1>1 DEF OneADay, Kept
<1>3. \A j \in DOMAIN g.items : g.items[j].owner # None =>
           /\ UserTenant[g.items[j].owner] = TenantOf[j]
           /\ RoleOf[g.items[j].owner] \in MUTATION_ROLES
  BY DEF Kept, Isolated
<1>4. \A r \in g.log : UserTenant[r.actor] = TenantOf[r.item]
  BY DEF Kept, Isolated
<1>5. \A m \in g.outbox : \A v \in m.recipients : UserTenant[v] = TenantOf[m.item]
  BY DEF Kept, Isolated
<1> QED
  BY <1>2, <1>3, <1>4, <1>5 DEF Isolated

\* The request touches one row, whose owner it leaves alone, and adds one row
\* to the audit log and one notification, to the owner or to the user.
LEMMA OrdinaryKept ==
    ASSUME NEW f \in Files, NEW g, NEW u, NEW i \in DOMAIN f.items,
           DOMAIN g.items = DOMAIN f.items,
           \A j \in DOMAIN f.items : g.items[j].owner = f.items[j].owner,
           \A r \in g.log : r \in f.log \/ (r.item = i /\ r.actor = u),
           \A m \in g.outbox :
               \/ m \in f.outbox
               \/ /\ m.item = i /\ m.type \in RequestNotes
                  /\ m.recipients = OwnerOr(f.items, i, u)
    PROVE  Kept(f, g, u, i)
<1>1. \A v \in OwnerOr(f.items, i, u) : v = u \/ (v = f.items[i].owner /\ v # None)
  BY DEF OwnerOr
<1> QED
  BY <1>1 DEF Kept

LEMMA AssignOwnerKept ==
    ASSUME NEW f \in Files, NEW i \in DOMAIN f.items, NEW u, NEW o, NEW t, NEW n,
           UserTenant[o] = UserTenant[u], RoleOf[o] \in MUTATION_ROLES
    PROVE  Kept(f, AssignOwnerResult(f, u, i, o, t, n), u, i)
<1> DEFINE g == AssignOwnerResult(f, u, i, o, t, n)
           m == Notify(i, "REMEDIATION_OWNER_ASSIGNED", {o}, t, n)
           r == Logged(u, i, "OWNER_ASSIGNED", t, n)
<1>1. /\ g.items = [f.items EXCEPT ![i].owner = o]
      /\ g.log = f.log \cup {r} /\ g.outbox = f.outbox \cup {m}
  BY DEF AssignOwnerResult, Recomputed, Files
<1>2. /\ m.item = i /\ m.type \in RequestNotes /\ m.recipients = {o}
      /\ r.item = i /\ r.actor = u
  BY DEF Notify, Logged, RequestNotes
<1>3. \A j \in DOMAIN f.items : f.items[j] \in Row
  BY FilesParts
<1> HIDE DEF g, m, r
<1>4. \A j \in DOMAIN f.items :
          g.items[j].owner = f.items[j].owner \/ (j = i /\ g.items[j].owner = o)
  BY <1>1, <1>3 DEF Row
<1> QED
  BY <1>1, <1>2, <1>4 DEF Kept, g

LEMMA SetDueDateKept ==
    ASSUME NEW f \in Files, NEW i \in DOMAIN f.items, NEW u, NEW d, NEW t, NEW n
    PROVE  Kept(f, SetDueDateResult(f, u, i, d, t, n), u, i)
<1> DEFINE g == SetDueDateResult(f, u, i, d, t, n)
           m == Notify(i, "REMEDIATION_DUE_DATE_SET", OwnerOr(f.items, i, u), t, n)
           r == Logged(u, i, "DUE_DATE_SET", t, n)
<1>1. /\ g.items = [f.items EXCEPT ![i].due = d]
      /\ g.log = f.log \cup {r} /\ g.outbox = f.outbox \cup {m}
  BY DEF SetDueDateResult, Recomputed, Files
<1>2. /\ m.item = i /\ m.type \in RequestNotes
      /\ m.recipients = OwnerOr(f.items, i, u)
      /\ r.item = i /\ r.actor = u
  BY DEF Notify, Logged, RequestNotes
<1>3. \A j \in DOMAIN f.items : f.items[j] \in Row
  BY FilesParts
<1> HIDE DEF g, m, r
<1>4. \A j \in DOMAIN f.items : g.items[j].owner = f.items[j].owner
  BY <1>1, <1>3 DEF Row
<1> QED
  BY <1>1, <1>2, <1>4, OrdinaryKept DEF g

LEMMA SubmitKept ==
    ASSUME NEW f \in Files, NEW i \in DOMAIN f.items, NEW u, NEW E, NEW t, NEW n
    PROVE  Kept(f, SubmitResult(f, u, i, E, t, n), u, i)
<1> DEFINE g == SubmitResult(f, u, i, E, t, n)
           m == Notify(i, "REMEDIATION_EVIDENCE_SUBMITTED",
                       OwnerOr(f.items, i, u), t, n)
           r == Logged(u, i, "STATUS_EVIDENCE_SUBMITTED", t, n)
<1>1. /\ g.items = [f.items EXCEPT ![i] = Submitted(f.items[i], E)]
      /\ g.log = f.log \cup {r} /\ g.outbox = f.outbox \cup {m}
  BY DEF SubmitResult, Recomputed, Files
<1>2. /\ m.item = i /\ m.type \in RequestNotes
      /\ m.recipients = OwnerOr(f.items, i, u)
      /\ r.item = i /\ r.actor = u
  BY DEF Notify, Logged, RequestNotes
<1>3. \A j \in DOMAIN f.items : f.items[j] \in Row
  BY FilesParts
<1> HIDE DEF g, m, r
<1>4. \A j \in DOMAIN f.items : g.items[j].owner = f.items[j].owner
  BY <1>1, <1>3 DEF Row, Submitted, Transitioned
<1> QED
  BY <1>1, <1>2, <1>4, OrdinaryKept DEF g

LEMMA TransitionKept ==
    ASSUME NEW f \in Files, NEW i \in DOMAIN f.items, NEW u, NEW to, NEW t, NEW n
    PROVE  Kept(f, TransitionResult(f, u, i, to, t, n), u, i)
<1> DEFINE g == TransitionResult(f, u, i, to, t, n)
           r == Logged(u, i, PlainAction(to), t, n)
<1>1. /\ g.items = [f.items EXCEPT ![i] = Transitioned(f.items[i], to, {})]
      /\ g.log = f.log \cup {r} /\ g.outbox = f.outbox
  BY DEF TransitionResult, Recomputed, Files
<1>2. r.item = i /\ r.actor = u
  BY DEF Logged
<1>3. \A j \in DOMAIN f.items : f.items[j] \in Row
  BY FilesParts
<1> HIDE DEF g, r
<1>4. \A j \in DOMAIN f.items : g.items[j].owner = f.items[j].owner
  BY <1>1, <1>3 DEF Row, Transitioned
<1> QED
  BY <1>1, <1>2, <1>4, OrdinaryKept DEF g

LEMMA VerificationKept ==
    ASSUME NEW f \in Files, NEW i \in DOMAIN f.items, NEW u,
           NEW passed \in BOOLEAN, NEW t, NEW n
    PROVE  Kept(f, VerificationResult(f, u, i, passed, t, n), u, i)
<1> DEFINE g == VerificationResult(f, u, i, passed, t, n)
           m == Notify(i, "REMEDIATION_VERIFICATION_RESULT",
                       OwnerOr(f.items, i, u), t, n)
           r == Logged(u, i, "VERIFICATION_RESULT_APPLIED", t, n)
<1>1. /\ g.items = [f.items EXCEPT ![i] = Verified(f.items[i], passed)]
      /\ g.log = f.log \cup {r} /\ g.outbox = f.outbox \cup {m}
  BY DEF VerificationResult, Recomputed, Files
<1>2. /\ m.item = i /\ m.type \in RequestNotes
      /\ m.recipients = OwnerOr(f.items, i, u)
      /\ r.item = i /\ r.actor = u
  BY DEF Notify, Logged, RequestNotes
<1>3. \A j \in DOMAIN f.items : f.items[j] \in Row
  BY FilesParts
<1> HIDE DEF g, m, r
<1>4. \A j \in DOMAIN f.items : g.items[j].owner = f.items[j].owner
  BY <1>1, <1>3 DEF Row, Verified
<1> QED
  BY <1>1, <1>2, <1>4, OrdinaryKept DEF g

\* The planner: a reminder goes to the owner of an item that had none of its
\* type that day, and one run makes one of a type for an item.
LEMMA RemindersKept ==
    ASSUME NEW f \in Files, NEW g, NEW I, NEW t \in Nat, NEW n \in Nat,
           g.items = f.items, g.log = f.log,
           g.outbox = f.outbox \cup Reminders(f.items, f.outbox, I, t, n),
           Isolated(f), OneADay(f)
    PROVE  Isolated(g) /\ OneADay(g)
<1> DEFINE R == Reminders(f.items, f.outbox, I, t, n)
<1>1. ASSUME NEW m \in R
      PROVE  \E i \in DOMAIN f.items, type \in DueNotes :
                /\ m = Notify(i, type, {f.items[i].owner}, t, n)
                /\ f.items[i].owner # None
                /\ ~AlreadyNoted(f.outbox, i, type, Day(t))
  <2>1. PICK type \in DueNotes :
           m \in {Notify(i, type, {f.items[i].owner}, t, n) :
                    i \in ToRemind(f.items, f.outbox, I, type, Day(t))}
    BY DEF Reminders
  <2>2. PICK i \in ToRemind(f.items, f.outbox, I, type, Day(t)) :
           m = Notify(i, type, {f.items[i].owner}, t, n)
    BY <2>1
  <2>3. /\ i \in DOMAIN f.items /\ f.items[i].owner # None
        /\ ~AlreadyNoted(f.outbox, i, type, Day(t))
    BY <2>2 DEF ToRemind, Overdue, DueSoon
  <2> QED
    BY <2>2, <2>3
<1>2. \A m \in R :
          /\ m.item \in DOMAIN f.items /\ m.type \in DueNotes /\ m.at = t
          /\ m = Notify(m.item, m.type, {f.items[m.item].owner}, t, n)
          /\ m.recipients = {f.items[m.item].owner}
          /\ f.items[m.item].owner # None
          /\ ~AlreadyNoted(f.outbox, m.item, m.type, Day(t))
  BY <1>1 DEF Notify
<1> HIDE DEF R
<1>3. g.outbox = f.outbox \cup R
  BY DEF R
<1>4. Isolated(g)
  <2>1. \A m \in f.outbox : \A u \in m.recipients : UserTenant[u] = TenantOf[m.item]
    BY DEF Isolated
  <2>2. ASSUME NEW m \in R, NEW u \in m.recipients
        PROVE  UserTenant[u] = TenantOf[m.item]
    <3>1. /\ m.item \in DOMAIN f.items /\ f.items[m.item].owner # None
          /\ m.recipients = {f.items[m.item].owner}
      BY <1>2
    <3>2. UserTenant[f.items[m.item].owner] = TenantOf[m.item]
      BY <3>1 DEF Isolated
    <3> QED
      BY <3>1, <3>2
  <2>3. \A m \in g.outbox : \A u \in m.recipients : UserTenant[u] = TenantOf[m.item]
    BY <1>3, <2>1, <2>2
  <2> QED
    BY <2>3 DEF Isolated
<1>5. OneADay(g)
  <2> SUFFICES ASSUME NEW m1 \in g.outbox, NEW m2 \in g.outbox,
                      m1.type \in DueNotes, m1.type = m2.type,
                      m1.item = m2.item, Day(m1.at) = Day(m2.at)
               PROVE  m1 = m2
    BY DEF OneADay
  <2>1. CASE m1 \in f.outbox /\ m2 \in f.outbox
    BY <2>1 DEF OneADay
  <2>2. CASE m1 \in R /\ m2 \in R
    BY <2>2, <1>2
  <2>3. CASE m1 \in R /\ m2 \in f.outbox
    BY <2>3, <1>2 DEF AlreadyNoted
  <2>4. CASE m1 \in f.outbox /\ m2 \in R
    BY <2>4, <1>2 DEF AlreadyNoted
  <2> QED
    BY <2>1, <2>2, <2>3, <2>4, <1>3
<1> QED
  BY <1>4, <1>5

LEMMA BootstrapKept ==
    ASSUME NEW G \in SUBSET Item, NEW t, NEW n
    PROVE  LET g == BootstrapResult(G, t, n) IN Isolated(g) /\ OneADay(g)
<1> DEFINE g == BootstrapResult(G, t, n)
<1>1. g.items = InitializeItems(G) /\ g.log = {} /\ g.outbox = {}
  BY DEF BootstrapResult, Recomputed, NoFiles
<1>2. DOMAIN g.items = G /\ \A i \in G : g.items[i].owner = None
  BY <1>1 DEF InitializeItems, InitialRow
<1> HIDE DEF g
<1> QED
  BY <1>1, <1>2 DEF Isolated, OneADay, g

-----------------------------------------------------------------------------

TInv == TypeOK /\ Isolated(files) /\ OneADay(files)

LEMMA InitTInv == Init => TInv
<1> SUFFICES ASSUME Init PROVE TInv
  OBVIOUS
<1>1. files.items = [i \in {} |-> InitialRow] /\ files.log = {} /\ files.outbox = {}
  BY DEF Init, NoFiles
<1>2. DOMAIN files.items = {}
  BY <1>1
<1> QED
  BY <1>1, <1>2, InitType DEF TInv, Isolated, OneADay

LEMMA NextTInv == TInv /\ [Next]_vars => TInv'
<1> SUFFICES ASSUME TInv, [Next]_vars PROVE TInv'
  OBVIOUS
<1>1. TypeOK /\ TypeOK' /\ Isolated(files) /\ OneADay(files)
  BY NextType DEF TInv
<1>2. files \in Files /\ clock \in Nat /\ seq \in Nat
  BY <1>1 DEF TypeOK
<1> SUFFICES Isolated(files') /\ OneADay(files')
  BY <1>1 DEF TInv, Isolated, OneADay
<1>4. CASE Bootstrap
  BY <1>4, BootstrapKept DEF Bootstrap, Serve
<1>5. CASE AssignOwner
  <2>1. PICK u, o \in User, i \in Item :
           /\ AssignOwnerAllowed(files.items, u, i, o)
           /\ files' = AssignOwnerResult(files, u, i, o, clock, seq)
    BY <1>5 DEF AssignOwner, Serve
  <2>2. Kept(files, files', u, i)
    BY <2>1, <1>2, AssignOwnerKept DEF AssignOwnerAllowed, InReach
  <2> QED
    BY <2>1, <2>2, <1>1, KeptIsEnough DEF AssignOwnerAllowed, InReach
<1>6. CASE SetDueDate
  <2>1. PICK u \in User, i \in Item, d \in DueDate :
           /\ SetDueDateAllowed(files.items, u, i)
           /\ files' = SetDueDateResult(files, u, i, d, clock, seq)
    BY <1>6 DEF SetDueDate, Serve
  <2>2. Kept(files, files', u, i)
    BY <2>1, <1>2, SetDueDateKept DEF SetDueDateAllowed, InReach
  <2> QED
    BY <2>1, <2>2, <1>1, KeptIsEnough DEF SetDueDateAllowed, InReach
<1>7. CASE SubmitEvidence
  <2>1. PICK u \in User, i \in Item, E \in SUBSET File :
           /\ TransitionAllowed(files.items, u, i, "EVIDENCE_SUBMITTED", E)
           /\ files' = SubmitResult(files, u, i, E, clock, seq)
    BY <1>7 DEF SubmitEvidence, Serve
  <2>2. Kept(files, files', u, i)
    BY <2>1, <1>2, SubmitKept DEF TransitionAllowed, InReach
  <2> QED
    BY <2>1, <2>2, <1>1, KeptIsEnough DEF TransitionAllowed, InReach
<1>8. CASE TransitionStatus
  <2>1. PICK u \in User, i \in Item, to \in Status \ {"EVIDENCE_SUBMITTED"} :
           /\ TransitionAllowed(files.items, u, i, to, {})
           /\ files' = TransitionResult(files, u, i, to, clock, seq)
    BY <1>8 DEF TransitionStatus, Serve
  <2>2. Kept(files, files', u, i)
    BY <2>1, <1>2, TransitionKept DEF TransitionAllowed, InReach
  <2> QED
    BY <2>1, <2>2, <1>1, KeptIsEnough DEF TransitionAllowed, InReach
<1>9. CASE ApplyVerificationResult
  <2>1. PICK u \in User, i \in Item, passed \in BOOLEAN :
           /\ VerificationAllowed(files.items, u, i)
           /\ files' = VerificationResult(files, u, i, passed, clock, seq)
    BY <1>9 DEF ApplyVerificationResult, Serve
  <2>2. i \in DOMAIN files.items /\ TenantOf[i] = UserTenant[u]
    BY <2>1 DEF VerificationAllowed, InReach
  <2>3. Kept(files, VerificationResult(files, u, i, passed, clock, seq), u, i)
    BY <2>2, <1>2, VerificationKept, Zenon
  <2>4. Kept(files, files', u, i)
    BY <2>1, <2>3, Zenon
  <2> QED
    BY <2>2, <2>4, <1>1, KeptIsEnough
<1>10. CASE PlanDueNotifications
  <2>1. PICK I : PlanFor(I)
    BY <1>10 DEF PlanDueNotifications
  <2>2. /\ files'.items = files.items /\ files'.log = files.log
        /\ files'.outbox = files.outbox \cup
               Reminders(files.items, files.outbox, I, clock, seq)
    BY <2>1, <1>2 DEF PlanFor, Serve, Files
  <2> QED
    BY <2>2, <1>1, <1>2, RemindersKept
<1>11. CASE Tick \/ UNCHANGED vars
  BY <1>11, <1>1 DEF Tick, vars
<1> QED
  BY <1>4, <1>5, <1>6, <1>7, <1>8, <1>9, <1>10, <1>11 DEF Next

THEOREM TenancyInductive == Spec => []TInv
  BY InitTInv, NextTInv, PTL DEF Spec

\* Nothing crosses a tenant boundary (see TenantIsolation).
THEOREM TenantsApart == Spec => []TenantIsolation
<1>1. TInv => TenantIsolation
  BY DEF TInv, Isolated, TenantIsolation, Items
<1> QED
  BY <1>1, TenancyInductive, PTL

\* One reminder of a type for an item a day (see OneReminderADay).
THEOREM RemindedOnce == Spec => []OneReminderADay
<1>1. TInv => OneReminderADay
  BY DEF TInv, OneADay, OneReminderADay
<1> QED
  BY <1>1, TenancyInductive, PTL

-----------------------------------------------------------------------------
(* The requests of RemediationOperator are those of RemediationWriters: the *)
(* instance has its own copies of the same operators.                       *)

LEMMA SameRecomputed ==
    ASSUME NEW f, NEW items, NEW t
    PROVE  Operator!Recomputed(f, items, t) = Recomputed(f, items, t)
  BY DEF Operator!Recomputed, Operator!IndexOf, Operator!Overdue, Operator!DueSoon,
     Operator!HasDue, Operator!DueIn7Days, Operator!Day, Operator!Unresolved, Operator!Status,
     Recomputed, IndexOf, Overdue, DueSoon, HasDue, DueIn7Days, Day, Unresolved, Status

LEMMA SameAssign ==
    ASSUME NEW f, NEW u, NEW i, NEW o, NEW t, NEW n
    PROVE  /\ Operator!AssignOwnerAllowed(f.items, u, i, o) <=> AssignOwnerAllowed(f.items, u, i, o)
           /\ Operator!AssignOwnerResult(f, u, i, o, t, n) = AssignOwnerResult(f, u, i, o, t, n)
  BY SameRecomputed DEF Operator!AssignOwnerAllowed, Operator!AssignOwnerResult,
     Operator!InReach, Operator!OwnerEvent, Operator!Logged, Operator!Notify,
     Operator!OWNER_ASSIGNMENT_ROLES, Operator!MUTATION_ROLES,
     AssignOwnerAllowed, AssignOwnerResult, InReach, OwnerEvent, Logged, Notify,
     OWNER_ASSIGNMENT_ROLES, MUTATION_ROLES

LEMMA SameDue ==
    ASSUME NEW f, NEW u, NEW i, NEW d, NEW t, NEW n
    PROVE  /\ Operator!SetDueDateAllowed(f.items, u, i) <=> SetDueDateAllowed(f.items, u, i)
           /\ Operator!SetDueDateResult(f, u, i, d, t, n) = SetDueDateResult(f, u, i, d, t, n)
  BY SameRecomputed DEF Operator!SetDueDateAllowed, Operator!SetDueDateResult,
     Operator!InReach, Operator!DueEvent, Operator!OwnerEvent, Operator!Logged,
     Operator!Notify, Operator!OwnerOr, Operator!OWNER_ASSIGNMENT_ROLES,
     SetDueDateAllowed, SetDueDateResult, InReach, DueEvent, OwnerEvent, Logged, Notify,
     OwnerOr, OWNER_ASSIGNMENT_ROLES

LEMMA SameTransition ==
    ASSUME NEW f, NEW u, NEW i, NEW to, NEW E, NEW t, NEW n
    PROVE  /\ Operator!TransitionAllowed(f.items, u, i, to, E)
                  <=> TransitionAllowed(f.items, u, i, to, E)
           /\ Operator!SubmitResult(f, u, i, E, t, n) = SubmitResult(f, u, i, E, t, n)
           /\ Operator!TransitionResult(f, u, i, to, t, n) = TransitionResult(f, u, i, to, t, n)
<1>1. Operator!TransitionAllowed(f.items, u, i, to, E) <=> TransitionAllowed(f.items, u, i, to, E)
  BY DEF Operator!TransitionAllowed, Operator!InReach, Operator!OwnerOrPrivileged,
     Operator!CanTransition, Operator!ValidTransitions, Operator!MUTATION_ROLES,
     TransitionAllowed, InReach, OwnerOrPrivileged, CanTransition, ValidTransitions,
     MUTATION_ROLES
<1>2. Operator!SubmitResult(f, u, i, E, t, n) = SubmitResult(f, u, i, E, t, n)
  BY SameRecomputed DEF Operator!SubmitResult, Operator!Submitted, Operator!Transitioned,
     Operator!TransitionEvent, Operator!QueuedEvent, Operator!System, Operator!WithMetadata,
     Operator!Logged, Operator!Notify, Operator!OwnerOr,
     SubmitResult, Submitted, Transitioned, TransitionEvent, QueuedEvent, System,
     WithMetadata, Logged, Notify, OwnerOr
<1>3. Operator!TransitionResult(f, u, i, to, t, n) = TransitionResult(f, u, i, to, t, n)
  BY SameRecomputed DEF Operator!TransitionResult, Operator!Transitioned,
     Operator!TransitionEvent, Operator!Logged, Operator!PlainAction,
     TransitionResult, Transitioned, TransitionEvent, Logged, PlainAction
<1> QED  BY <1>1, <1>2, <1>3

LEMMA SameVerification ==
    ASSUME NEW f, NEW u, NEW i, NEW passed, NEW t, NEW n
    PROVE  /\ Operator!VerificationAllowed(f.items, u, i) <=> VerificationAllowed(f.items, u, i)
           /\ Operator!VerificationResult(f, u, i, passed, t, n)
                  = VerificationResult(f, u, i, passed, t, n)
  BY SameRecomputed DEF Operator!VerificationAllowed, Operator!VerificationResult,
     Operator!InReach, Operator!Verified, Operator!Verdict, Operator!ResultEvent,
     Operator!System, Operator!Logged, Operator!Notify, Operator!OwnerOr,
     Operator!VERIFICATION_ROLES,
     VerificationAllowed, VerificationResult, InReach, Verified, Verdict, ResultEvent,
     System, Logged, Notify, OwnerOr, VERIFICATION_ROLES

LEMMA SameBootstrap ==
    ASSUME NEW G, NEW t, NEW n
    PROVE  /\ Operator!BootstrapResult(G, t, n) = BootstrapResult(G, t, n)
           /\ Operator!NoFiles = NoFiles
<1>1. Operator!NoFiles = NoFiles
  BY DEF Operator!NoFiles, Operator!InitialRow, NoFiles, InitialRow
<1> QED  BY <1>1, SameRecomputed DEF Operator!BootstrapResult, Operator!InitializeItems,
         Operator!InitialRow, Operator!InitializeTimeline, Operator!System,
         BootstrapResult, InitializeItems, InitialRow, InitializeTimeline, System

LEMMA SamePlan ==
    ASSUME NEW items, NEW outbox, NEW I, NEW t, NEW n, NEW u
    PROVE  /\ Operator!Reminders(items, outbox, I, t, n) = Reminders(items, outbox, I, t, n)
           /\ Operator!TenantItems(items, u) = TenantItems(items, u)
  BY DEF Operator!Reminders, Operator!ToRemind, Operator!AlreadyNoted, Operator!DueNotes,
     Operator!Notify, Operator!Day, Operator!Overdue, Operator!DueSoon, Operator!HasDue,
     Operator!DueIn7Days, Operator!TenantItems,
     Reminders, ToRemind, AlreadyNoted, DueNotes, Notify, Day, Overdue, DueSoon, HasDue,
     DueIn7Days, TenantItems

-----------------------------------------------------------------------------
(* A workspace has seven files; what a request reads and writes of them.    *)

Field == {"items", "timeline", "index", "gate", "evidence", "log", "outbox"}

IsWorkspace(f) ==
    f = [items |-> f.items, timeline |-> f.timeline, index |-> f.index, gate |-> f.gate,
         evidence |-> f.evidence, log |-> f.log, outbox |-> f.outbox]

\* The files of W from f and the others from g.
Merge(f, g, W) == [x \in Field |-> IF x \in W THEN f[x] ELSE g[x]]

LEMMA MergeAll ==
    ASSUME NEW a, NEW b, NEW c, NEW d, NEW e, NEW l, NEW o, NEW g
    PROVE  LET h == [items |-> a, timeline |-> b, index |-> c, gate |-> d, evidence |-> e,
                     log |-> l, outbox |-> o]
           IN  Merge(h, g, Field) = h
  BY DEF Merge, Field

LEMMA MergeRequest ==
    ASSUME NEW a, NEW b, NEW c, NEW d, NEW e, NEW l, NEW o, NEW g
    PROVE  Merge([items |-> a, timeline |-> b, index |-> c, gate |-> d, evidence |-> e,
                  log |-> l, outbox |-> o], g,
                 {"items", "timeline", "index", "gate", "log", "outbox"})
               = [items |-> a, timeline |-> b, index |-> c, gate |-> d,
                  evidence |-> g.evidence, log |-> l, outbox |-> o]
  BY DEF Merge, Field

LEMMA MergeOutbox ==
    ASSUME NEW f, NEW g, IsWorkspace(g)
    PROVE  Merge(f, g, {"outbox"})
               = [items |-> g.items, timeline |-> g.timeline, index |-> g.index,
                  gate |-> g.gate, evidence |-> g.evidence, log |-> g.log,
                  outbox |-> f.outbox]
  BY DEF Merge, Field

LEMMA FilesOf ==
    /\ \A op \in {"assign", "due", "verify"} :
           /\ Range(Reads(op)) = {"timeline", "log", "outbox"}
           /\ Range(Writes(op)) = {"items", "timeline", "index", "gate", "log", "outbox"}
    /\ \A op \in {"submit", "transition"} :
           /\ Range(Reads(op)) = {"timeline", "log", "outbox", "evidence"}
           /\ Range(Writes(op)) = Field
    /\ Range(Reads("plan")) = {"outbox"} /\ Range(Writes("plan")) = {"outbox"}
    /\ Range(Reads("bootstrap")) = {} /\ Range(Writes("bootstrap")) = Field
<1>1. \A a, b, c : Range(<<a, b, c>>) = {a, b, c}
  BY DEF Range
<1>2. \A a, b, c, d : Range(<<a, b, c, d>>) = {a, b, c, d}
  BY DEF Range
<1>3. \A a, b, c, d, e, f : Range(<<a, b, c, d, e, f>>) = {a, b, c, d, e, f}
  BY DEF Range
<1>4. \A a, b, c, d, e, f, g : Range(<<a, b, c, d, e, f, g>>) = {a, b, c, d, e, f, g}
  BY DEF Range
<1>5. \A a : Range(<<a>>) = {a}
  BY DEF Range
<1>6. Range(<< >>) = {}
  BY DEF Range
<1> QED  BY <1>1, <1>2, <1>3, <1>4, <1>5, <1>6 DEF Reads, Writes, Field

\* The item rows come first, and Reads names what follows.
Agree(f, g, op) ==
    op # "bootstrap" => f.items = g.items /\ \A x \in Range(Reads(op)) : f[x] = g[x]

\* A request computes the same from what it read as from the workspace, as far
\* as it writes it, and leaves the rest of the workspace as it is.
LEMMA RecomputedIs ==
    ASSUME NEW f, IsWorkspace(f), NEW items, NEW t
    PROVE  Recomputed(f, items, t) =
               [items |-> items, timeline |-> f.timeline, index |-> IndexOf(items, Day(t)),
                gate |-> Unresolved(items), evidence |-> f.evidence, log |-> f.log,
                outbox |-> f.outbox]
<1> DEFINE index == IndexOf(items, Day(t))
           gate == Unresolved(items)
<1>1. Recomputed(f, items, t) = [f EXCEPT !.items = items, !.index = index, !.gate = gate]
  BY DEF Recomputed
<1> HIDE DEF index, gate
<1>2. Recomputed(f, items, t) =
          [items |-> items, timeline |-> f.timeline, index |-> index, gate |-> gate,
           evidence |-> f.evidence, log |-> f.log, outbox |-> f.outbox]
  BY <1>1 DEF IsWorkspace
<1> QED  BY <1>2 DEF index, gate

\* A request on one item, told by what it adds.
Served(f, items, t, events, evidence, row, notes) ==
    [items |-> items, timeline |-> f.timeline \cup events, index |-> IndexOf(items, Day(t)),
     gate |-> Unresolved(items), evidence |-> evidence, log |-> f.log \cup {row},
     outbox |-> f.outbox \cup notes]

LEMMA ServedMerges ==
    ASSUME NEW f, NEW g, NEW items, NEW t, NEW events, NEW row, NEW notes, NEW op,
           Agree(f, g, op), op \in {"assign", "due", "verify"}
    PROVE  Merge(Served(f, items, t, events, f.evidence, row, notes), g, Range(Writes(op)))
               = Served(g, items, t, events, g.evidence, row, notes)
<1>1. f.timeline = g.timeline /\ f.log = g.log /\ f.outbox = g.outbox
  BY FilesOf DEF Agree
<1>2. Range(Writes(op)) = {"items", "timeline", "index", "gate", "log", "outbox"}
  BY FilesOf
<1> DEFINE b == f.timeline \cup events
           c == IndexOf(items, Day(t))
           d == Unresolved(items)
           l == f.log \cup {row}
           o == f.outbox \cup notes
<1> HIDE DEF b, c, d, l, o
<1>3. Merge([items |-> items, timeline |-> b, index |-> c, gate |-> d, evidence |-> f.evidence,
             log |-> l, outbox |-> o], g, Range(Writes(op)))
          = [items |-> items, timeline |-> b, index |-> c, gate |-> d,
             evidence |-> g.evidence, log |-> l, outbox |-> o]
  BY <1>2, MergeRequest
<1> QED  BY <1>1, <1>3 DEF Served, b, c, d, l, o

\* How the three kinds of requests are written in RemediationRequests.
Serving(f, items, t, events, row, notes) ==
    [Recomputed(f, items, t) EXCEPT !.timeline = f.timeline \cup events,
        !.log = f.log \cup {row}, !.outbox = f.outbox \cup notes]

Submitting(f, items, t, events, evidence, row, notes) ==
    [Recomputed(f, items, t) EXCEPT !.timeline = f.timeline \cup events,
        !.evidence = evidence, !.log = f.log \cup {row}, !.outbox = f.outbox \cup notes]

Transitioning(f, items, t, events, row) ==
    [Recomputed(f, items, t) EXCEPT !.timeline = f.timeline \cup events,
        !.log = f.log \cup {row}]

LEMMA ServedIs ==
    ASSUME NEW f, IsWorkspace(f), NEW items, NEW t, NEW events, NEW row, NEW notes, NEW h,
           h = Serving(f, items, t, events, row, notes)
    PROVE  h = Served(f, items, t, events, f.evidence, row, notes)
<1> DEFINE index == IndexOf(items, Day(t))
           gate == Unresolved(items)
           b == f.timeline \cup events
           l == f.log \cup {row}
           o == f.outbox \cup notes
<1>2. h = [[items |-> items, timeline |-> f.timeline, index |-> index, gate |-> gate,
            evidence |-> f.evidence, log |-> f.log, outbox |-> f.outbox]
              EXCEPT !.timeline = b, !.log = l, !.outbox = o]
  BY RecomputedIs DEF Serving
<1> HIDE DEF index, gate, b, l, o
<1>3. h = [items |-> items, timeline |-> b, index |-> index, gate |-> gate,
           evidence |-> f.evidence, log |-> l, outbox |-> o]
  BY <1>2
<1> QED  BY <1>3 DEF Served, index, gate, b, l, o

LEMMA SubmittedIs ==
    ASSUME NEW f, IsWorkspace(f), NEW items, NEW t, NEW events, NEW evidence, NEW row,
           NEW notes, NEW h,
           h = Submitting(f, items, t, events, evidence, row, notes)
    PROVE  h = Served(f, items, t, events, evidence, row, notes)
<1> DEFINE index == IndexOf(items, Day(t))
           gate == Unresolved(items)
           b == f.timeline \cup events
           l == f.log \cup {row}
           o == f.outbox \cup notes
<1>2. h = [[items |-> items, timeline |-> f.timeline, index |-> index, gate |-> gate,
            evidence |-> f.evidence, log |-> f.log, outbox |-> f.outbox]
              EXCEPT !.timeline = b, !.evidence = evidence, !.log = l, !.outbox = o]
  BY RecomputedIs DEF Submitting
<1> HIDE DEF index, gate, b, l, o
<1>3. h = [items |-> items, timeline |-> b, index |-> index, gate |-> gate,
           evidence |-> evidence, log |-> l, outbox |-> o]
  BY <1>2
<1> QED  BY <1>3 DEF Served, index, gate, b, l, o

LEMMA TransitionedIs ==
    ASSUME NEW f, IsWorkspace(f), NEW items, NEW t, NEW events, NEW row, NEW h,
           h = Transitioning(f, items, t, events, row)
    PROVE  h = Served(f, items, t, events, f.evidence, row, {})
<1> DEFINE index == IndexOf(items, Day(t))
           gate == Unresolved(items)
           b == f.timeline \cup events
           l == f.log \cup {row}
           o == f.outbox \cup {}
<1>1. o = f.outbox
  OBVIOUS
<1>2. h = [[items |-> items, timeline |-> f.timeline, index |-> index, gate |-> gate,
            evidence |-> f.evidence, log |-> f.log, outbox |-> f.outbox]
              EXCEPT !.timeline = b, !.log = l, !.outbox = o]
  <2>1. h = [[items |-> items, timeline |-> f.timeline, index |-> index, gate |-> gate,
            evidence |-> f.evidence, log |-> f.log, outbox |-> f.outbox]
              EXCEPT !.timeline = b, !.log = l]
    BY RecomputedIs DEF Transitioning
  <2> HIDE DEF index, gate, b, l, o
  <2> QED  BY <1>1, <2>1
<1> HIDE DEF index, gate, b, l, o
<1>3. h = [items |-> items, timeline |-> b, index |-> index, gate |-> gate,
           evidence |-> f.evidence, log |-> l, outbox |-> o]
  BY <1>2
<1> QED  BY <1>3 DEF Served, index, gate, b, l, o

\* What a process writes of a request is what the whole workspace gives.
LEMMA AssignMerges ==
    ASSUME NEW f, NEW g, IsWorkspace(f), IsWorkspace(g), Agree(f, g, "assign"),
           NEW u, NEW i, NEW o, NEW t, NEW n
    PROVE  Merge(AssignOwnerResult(f, u, i, o, t, n), g, Range(Writes("assign")))
               = AssignOwnerResult(g, u, i, o, t, n)
<1> DEFINE items == [f.items EXCEPT ![i].owner = o]
           events == {OwnerEvent(i, u, t, n)}
           row == Logged(u, i, "OWNER_ASSIGNED", t, n)
           notes == {Notify(i, "REMEDIATION_OWNER_ASSIGNED", {o}, t, n)}
<1>1. f.items = g.items
  BY DEF Agree
<1>2. ASSUME NEW h, IsWorkspace(h), h.items = f.items
      PROVE  AssignOwnerResult(h, u, i, o, t, n)
                 = Served(h, items, t, events, h.evidence, row, notes)
  <2>1. AssignOwnerResult(h, u, i, o, t, n) =
            Serving(h, items, t, events, row, notes)
    BY <1>2 DEF AssignOwnerResult, Serving
  <2> HIDE DEF items, events, row, notes
  <2> QED  BY <1>2, <2>1, ServedIs
<1> HIDE DEF items, events, row, notes
<1> QED  BY <1>1, <1>2, ServedMerges

LEMMA DueMerges ==
    ASSUME NEW f, NEW g, IsWorkspace(f), IsWorkspace(g), Agree(f, g, "due"),
           NEW u, NEW i, NEW d, NEW t, NEW n
    PROVE  Merge(SetDueDateResult(f, u, i, d, t, n), g, Range(Writes("due")))
               = SetDueDateResult(g, u, i, d, t, n)
<1> DEFINE items == [f.items EXCEPT ![i].due = d]
           events == {DueEvent(i, u, t, n)}
           row == Logged(u, i, "DUE_DATE_SET", t, n)
           notes == {Notify(i, "REMEDIATION_DUE_DATE_SET", OwnerOr(f.items, i, u), t, n)}
<1>1. f.items = g.items
  BY DEF Agree
<1>2. ASSUME NEW h, IsWorkspace(h), h.items = f.items
      PROVE  SetDueDateResult(h, u, i, d, t, n)
                 = Served(h, items, t, events, h.evidence, row, notes)
  <2>1. SetDueDateResult(h, u, i, d, t, n) =
            Serving(h, items, t, events, row, notes)
    BY <1>2 DEF SetDueDateResult, Serving
  <2> HIDE DEF items, events, row, notes
  <2> QED  BY <1>2, <2>1, ServedIs
<1> HIDE DEF items, events, row, notes
<1> QED  BY <1>1, <1>2, ServedMerges

LEMMA VerificationMerges ==
    ASSUME NEW f, NEW g, IsWorkspace(f), IsWorkspace(g), Agree(f, g, "verify"),
           NEW u, NEW i, NEW passed, NEW t, NEW n
    PROVE  Merge(VerificationResult(f, u, i, passed, t, n), g, Range(Writes("verify")))
               = VerificationResult(g, u, i, passed, t, n)
<1> DEFINE items == [f.items EXCEPT ![i] = Verified(f.items[i], passed)]
           events == {ResultEvent(i, passed, f.items[i].evidence, t, n)}
           row == Logged(u, i, "VERIFICATION_RESULT_APPLIED", t, n)
           notes == {Notify(i, "REMEDIATION_VERIFICATION_RESULT", OwnerOr(f.items, i, u), t, n)}
<1>1. f.items = g.items
  BY DEF Agree
<1>2. ASSUME NEW h, IsWorkspace(h), h.items = f.items
      PROVE  VerificationResult(h, u, i, passed, t, n)
                 = Served(h, items, t, events, h.evidence, row, notes)
  <2>1. VerificationResult(h, u, i, passed, t, n) =
            Serving(h, items, t, events, row, notes)
    BY <1>2 DEF VerificationResult, Serving
  <2> HIDE DEF items, events, row, notes
  <2> QED  BY <1>2, <2>1, ServedIs
<1> HIDE DEF items, events, row, notes
<1> QED  BY <1>1, <1>2, ServedMerges

\* Submissions and transitions read and write all rows there are.
LEMMA ServedAll ==
    ASSUME NEW f, NEW g, NEW items, NEW t, NEW events, NEW evidence, NEW row, NEW notes,
           f.timeline = g.timeline, f.log = g.log, f.outbox = g.outbox
    PROVE  Merge(Served(f, items, t, events, evidence, row, notes), g, Field)
               = Served(g, items, t, events, evidence, row, notes)
  BY MergeAll DEF Served

LEMMA SubmitMerges ==
    ASSUME NEW f, NEW g, IsWorkspace(f), IsWorkspace(g), Agree(f, g, "submit"),
           NEW u, NEW i, NEW E, NEW t, NEW n
    PROVE  Merge(SubmitResult(f, u, i, E, t, n), g, Range(Writes("submit")))
               = SubmitResult(g, u, i, E, t, n)
<1> DEFINE items == [f.items EXCEPT ![i] = Submitted(f.items[i], E)]
           events == {TransitionEvent(i, "EVIDENCE_SUBMITTED", u, E, t, n),
                      QueuedEvent(i, E, t, n + 1)}
           evidence == WithMetadata(f.evidence, u, i, E, t)
           row == Logged(u, i, "STATUS_EVIDENCE_SUBMITTED", t, n)
           notes == {Notify(i, "REMEDIATION_EVIDENCE_SUBMITTED", OwnerOr(f.items, i, u), t, n)}
<1>1. /\ f.items = g.items /\ f.evidence = g.evidence
      /\ f.timeline = g.timeline /\ f.log = g.log /\ f.outbox = g.outbox
  BY FilesOf DEF Agree
<1>2. ASSUME NEW h, IsWorkspace(h), h.items = f.items, h.evidence = f.evidence
      PROVE  SubmitResult(h, u, i, E, t, n)
                 = Served(h, items, t, events, evidence, row, notes)
  <2>1. SubmitResult(h, u, i, E, t, n) =
            Submitting(h, items, t, events, evidence, row, notes)
    BY <1>2 DEF SubmitResult, Submitting
  <2> HIDE DEF items, events, evidence, row, notes
  <2> QED  BY <1>2, <2>1, SubmittedIs
<1> HIDE DEF items, events, evidence, row, notes
<1> QED  BY <1>1, <1>2, ServedAll, FilesOf

LEMMA TransitionMerges ==
    ASSUME NEW f, NEW g, IsWorkspace(f), IsWorkspace(g), Agree(f, g, "transition"),
           NEW u, NEW i, NEW to, NEW t, NEW n
    PROVE  Merge(TransitionResult(f, u, i, to, t, n), g, Range(Writes("transition")))
               = TransitionResult(g, u, i, to, t, n)
<1> DEFINE items == [f.items EXCEPT ![i] = Transitioned(f.items[i], to, {})]
           events == {TransitionEvent(i, to, u, {}, t, n)}
           row == Logged(u, i, PlainAction(to), t, n)
<1>1. /\ f.items = g.items /\ f.evidence = g.evidence
      /\ f.timeline = g.timeline /\ f.log = g.log /\ f.outbox = g.outbox
  BY FilesOf DEF Agree
<1>2. ASSUME NEW h, IsWorkspace(h), h.items = f.items, h.evidence = f.evidence
      PROVE  TransitionResult(h, u, i, to, t, n)
                 = Served(h, items, t, events, f.evidence, row, {})
  <2>1. TransitionResult(h, u, i, to, t, n) =
            Transitioning(h, items, t, events, row)
    BY <1>2 DEF TransitionResult, Transitioning
  <2> HIDE DEF items, events, row
  <2> QED  BY <1>2, <2>1, TransitionedIs
<1> HIDE DEF items, events, row
<1> QED  BY <1>1, <1>2, ServedAll, FilesOf

LEMMA PlanMerges ==
    ASSUME NEW f, NEW g, IsWorkspace(f), IsWorkspace(g), Agree(f, g, "plan"),
           NEW I, NEW t, NEW n
    PROVE  Merge([f EXCEPT !.outbox = @ \cup Reminders(f.items, @, I, t, n)], g,
                 Range(Writes("plan")))
               = [g EXCEPT !.outbox = @ \cup Reminders(g.items, @, I, t, n)]
<1>1. f.items = g.items /\ f.outbox = g.outbox
  BY FilesOf DEF Agree
<1> DEFINE o == g.outbox \cup Reminders(g.items, g.outbox, I, t, n)
           h == [f EXCEPT !.outbox = o]
<1>2. [f EXCEPT !.outbox = @ \cup Reminders(f.items, @, I, t, n)] = h
  BY <1>1
<1>3. [g EXCEPT !.outbox = @ \cup Reminders(g.items, @, I, t, n)] = [g EXCEPT !.outbox = o]
  OBVIOUS
<1> HIDE DEF o
<1>4. h.outbox = o
  BY DEF IsWorkspace
<1>5. [g EXCEPT !.outbox = o] =
          [items |-> g.items, timeline |-> g.timeline, index |-> g.index, gate |-> g.gate,
           evidence |-> g.evidence, log |-> g.log, outbox |-> o]
  BY DEF IsWorkspace
<1> HIDE DEF h
<1>6. Merge(h, g, {"outbox"}) = [g EXCEPT !.outbox = o]
  BY <1>4, <1>5, MergeOutbox
<1> QED  BY <1>2, <1>3, <1>6, FilesOf

LEMMA BootstrapMerges ==
    ASSUME NEW g, NEW G, NEW t, NEW n
    PROVE  Merge(BootstrapResult(G, t, n), g, Range(Writes("bootstrap")))
               = BootstrapResult(G, t, n)
<1> DEFINE items == InitializeItems(G)
           timeline == InitializeTimeline(G, t, n)
           index == IndexOf(items, Day(t))
           gate == Unresolved(items)
<1>1. IsWorkspace(NoFiles)
  BY DEF IsWorkspace, NoFiles
<1>2. Recomputed(NoFiles, items, t) =
          [items |-> items, timeline |-> NoFiles.timeline, index |-> index, gate |-> gate,
           evidence |-> NoFiles.evidence, log |-> NoFiles.log, outbox |-> NoFiles.outbox]
  BY <1>1, RecomputedIs
<1>3. BootstrapResult(G, t, n) = [Recomputed(NoFiles, items, t) EXCEPT !.timeline = timeline]
  BY DEF BootstrapResult
<1> HIDE DEF items, timeline, index, gate
<1>4. BootstrapResult(G, t, n) =
          [items |-> items, timeline |-> timeline, index |-> index, gate |-> gate,
           evidence |-> NoFiles.evidence, log |-> NoFiles.log, outbox |-> NoFiles.outbox]
  BY <1>2, <1>3
<1> QED  BY <1>4, MergeAll, FilesOf

-----------------------------------------------------------------------------
(* One process p.                                                           *)

\* What p has read is in the files, and its checks still hold of them.
Reading(p) ==
    pc[p] = "reading" =>
        /\ req[p] \in Request /\ seq < MaxSeq
        /\ req[p].op # "bootstrap" =>
               mem[p].items = files.items /\ Allowed(req[p], files.items)
        /\ \A x \in Range(Reads(req[p].op)) : x \in Range(todo[p]) \/ mem[p][x] = files[x]

\* The inductive invariant of one process.
LoneInv(p) ==
    /\ pc \in [{p} -> {"idle", "reading", "writing"}]
    /\ req = [q \in {p} |-> req[q]] /\ mem = [q \in {p} |-> mem[q]]
    /\ todo \in [{p} -> Seq(Field)]
    /\ IsWorkspace(files) /\ IsWorkspace(mem[p])
    /\ seq \in Nat /\ crashes \in Nat
    /\ Reading(p)
    /\ pc[p] = "writing" => todo[p] # << >>

\* What Target says of one process.
TargetOf(p) ==
    Merge(mem[p], files, IF pc[p] = "writing" THEN Range(todo[p]) ELSE {})

LEMMA TargetIs ==
    ASSUME NEW p, Proc = {p}, LoneInv(p) PROVE Target = TargetOf(p)
<1>1. DOMAIN files = Field
  BY DEF LoneInv, IsWorkspace, Field
<1>2. Pending = IF pc[p] = "writing" THEN Range(todo[p]) ELSE {}
  BY DEF Pending
<1>3. \A x \in Pending :
          (CHOOSE q \in Proc : pc[q] = "writing" /\ x \in Range(todo[q])) = p
  BY <1>2
<1> QED  BY <1>1, <1>2, <1>3 DEF Target, TargetOf, Merge

LEMMA TargetWillBe ==
    ASSUME NEW p, Proc = {p}, LoneInv(p)' PROVE Target' = TargetOf(p)'
<1>1. DOMAIN files' = Field
  BY DEF LoneInv, IsWorkspace, Field
<1>2. Pending' = IF pc'[p] = "writing" THEN Range(todo'[p]) ELSE {}
  BY DEF Pending
<1>3. \A x \in Pending' :
          (CHOOSE q \in Proc : pc'[q] = "writing" /\ x \in Range(todo'[q])) = p
  BY <1>2
<1> QED  BY <1>1, <1>2, <1>3 DEF Target, TargetOf, Merge

LEMMA MergeNone ==
    ASSUME NEW f, NEW g, IsWorkspace(g) PROVE Merge(f, g, {}) = g
<1>1. DOMAIN g = Field /\ g = [x \in DOMAIN g |-> g[x]]
  BY DEF IsWorkspace, Field
<1> QED  BY <1>1 DEF Merge

LEMMA RangeIs ==
    ASSUME NEW s \in Seq(Field), s # << >>
    PROVE  /\ Head(s) \in Field /\ Tail(s) \in Seq(Field)
           /\ Range(s) = {Head(s)} \cup Range(Tail(s))
           /\ Len(s) > 1 <=> Tail(s) # << >>
<1>1. Head(s) \in Field /\ Tail(s) \in Seq(Field) /\ Len(Tail(s)) = Len(s) - 1 /\ Len(s) \in Nat
      /\ Len(s) > 0
  OBVIOUS
<1>2. \A n \in 1..(Len(s) - 1) : Tail(s)[n] = s[n + 1]
  OBVIOUS
<1>3. \A r \in Seq(Field) : \A x : x \in Range(r) <=> \E n \in 1..Len(r) : x = r[n]
  BY DEF Range
<1>4. Head(s) = s[1]
  OBVIOUS
<1>5. ASSUME NEW x \in Range(s) PROVE x = Head(s) \/ x \in Range(Tail(s))
  <2>1. PICK n \in 1..Len(s) : x = s[n]
    BY <1>3, <1>5
  <2>2. CASE n = 1
    BY <1>4, <2>1, <2>2
  <2>3. CASE n # 1
    <3>1. n - 1 \in 1..(Len(s) - 1) /\ (n - 1) + 1 = n
      BY <1>1, <2>1, <2>3
    <3>2. Tail(s)[n - 1] = x
      BY <1>2, <2>1, <3>1
    <3> QED  BY <1>1, <1>3, <3>1, <3>2
  <2> QED  BY <2>2, <2>3
<1>6. ASSUME NEW x \in Range(Tail(s)) PROVE x \in Range(s)
  <2>1. PICK n \in 1..(Len(s) - 1) : x = Tail(s)[n]
    BY <1>1, <1>3, <1>6
  <2>2. n + 1 \in 1..Len(s) /\ s[n + 1] = x
    BY <1>1, <1>2, <2>1
  <2> QED  BY <1>3, <2>2
<1>7. Head(s) \in Range(s)
  BY <1>1, <1>3, <1>4
<1>8. Range(s) = {Head(s)} \cup Range(Tail(s))
  BY <1>5, <1>6, <1>7
<1>9. Len(s) > 1 <=> Tail(s) # << >>
  BY <1>1
<1> QED  BY <1>1, <1>8, <1>9

\* What the operator's users see of a process that is not writing: the files.
LEMMA NotWriting ==
    ASSUME NEW p, Proc = {p}, LoneInv(p), pc[p] # "writing" PROVE Target = files
  BY TargetIs, MergeNone DEF TargetOf, LoneInv

LEMMA NotWritingNext ==
    ASSUME NEW p, Proc = {p}, LoneInv(p)', pc'[p] # "writing" PROVE Target' = files'
<1>1. Target' = Merge(mem'[p], files', {})
  BY TargetWillBe DEF TargetOf
<1>2. IsWorkspace(files')
  BY DEF LoneInv, IsWorkspace
<1> QED  BY <1>1, <1>2, MergeNone

LEMMA OpsAre ==
    ASSUME NEW r \in Request
    PROVE  /\ r.op \in {"bootstrap", "assign", "due", "submit", "transition", "verify", "plan"}
           /\ Reads(r.op) \in Seq(Field) /\ Writes(r.op) \in Seq(Field)
           /\ Writes(r.op) # << >>
<1>1. r.op \in {"bootstrap", "assign", "due", "submit", "transition", "verify", "plan"}
  BY DEF Request
<1>2. /\ << >> \in Seq(Field)
      /\ \A a \in Field : <<a>> \in Seq(Field)
      /\ \A a, b, c \in Field : <<a, b, c>> \in Seq(Field)
      /\ \A a, b, c, d \in Field : <<a, b, c, d>> \in Seq(Field)
      /\ \A a, b, c, d, e, f \in Field : <<a, b, c, d, e, f>> \in Seq(Field)
      /\ \A a, b, c, d, e, f, g \in Field : <<a, b, c, d, e, f, g>> \in Seq(Field)
  OBVIOUS
<1>3. /\ "items" \in Field /\ "timeline" \in Field /\ "index" \in Field /\ "gate" \in Field
      /\ "evidence" \in Field /\ "log" \in Field /\ "outbox" \in Field
  BY DEF Field
<1>4. Reads(r.op) \in Seq(Field) /\ Writes(r.op) \in Seq(Field)
  BY <1>1, <1>2, <1>3 DEF Reads, Writes
<1>5. Range(Writes(r.op)) # {} /\ Range(<< >>) = {}
  BY <1>1, FilesOf DEF Range, Field
<1> QED  BY <1>1, <1>4, <1>5

LEMMA BeginStutters ==
    ASSUME NEW p, Proc = {p}, LoneInv(p), Begin(p)
    PROVE  LoneInv(p)' /\ UNCHANGED <<Target, clock, seq>>
<1>1. PICK r \in Request :
          /\ r.op # "bootstrap" => Allowed(r, files.items)
          /\ req' = [req EXCEPT ![p] = r]
          /\ todo' = [todo EXCEPT ![p] = Reads(r.op)]
          /\ mem' = [mem EXCEPT ![p] = IF r.op = "bootstrap" THEN NoFiles
                                       ELSE [NoFiles EXCEPT !.items = files.items]]
  BY DEF Begin
<1>2. /\ pc[p] = "idle" /\ pc' = [pc EXCEPT ![p] = "reading"]
      /\ UNCHANGED <<files, clock, seq, crashes>>
      /\ seq + 2 * Cardinality({q \in Proc : pc[q] = "reading"}) < MaxSeq
  BY DEF Begin
<1>3. seq < MaxSeq
  <2>1. {q \in Proc : pc[q] = "reading"} = {}
    BY <1>2
  <2>2. Cardinality({q \in Proc : pc[q] = "reading"}) = 0
    BY <2>1, FS_EmptySet
  <2> QED  BY <1>2, <2>2 DEF LoneInv
<1>4. pc'[p] = "reading" /\ req'[p] = r /\ todo'[p] = Reads(r.op)
      /\ pc' \in [{p} -> {"idle", "reading", "writing"}]
      /\ req' = [q \in {p} |-> req'[q]] /\ mem' = [q \in {p} |-> mem'[q]]
      /\ todo' \in [{p} -> Seq(Field)]
  BY <1>1, <1>2, OpsAre DEF LoneInv
<1>5. IsWorkspace(mem'[p]) /\ (r.op # "bootstrap" => mem'[p].items = files.items)
  <2>1. mem'[p] = IF r.op = "bootstrap" THEN NoFiles ELSE [NoFiles EXCEPT !.items = files.items]
    BY <1>1 DEF LoneInv
  <2>2. IsWorkspace(NoFiles)
    BY DEF NoFiles, IsWorkspace
  <2>3. [NoFiles EXCEPT !.items = files.items] =
            [items |-> files.items, timeline |-> NoFiles.timeline, index |-> NoFiles.index,
             gate |-> NoFiles.gate, evidence |-> NoFiles.evidence, log |-> NoFiles.log,
             outbox |-> NoFiles.outbox]
    BY <2>2 DEF IsWorkspace
  <2>4. IsWorkspace([NoFiles EXCEPT !.items = files.items])
        /\ [NoFiles EXCEPT !.items = files.items].items = files.items
    BY <2>3 DEF IsWorkspace
  <2> QED  BY <2>1, <2>2, <2>4
<1>6. Reading(p)'
  BY <1>1, <1>2, <1>3, <1>4, <1>5 DEF Reading, Allowed
<1>7. LoneInv(p)'
  BY <1>2, <1>4, <1>5, <1>6 DEF LoneInv, IsWorkspace
<1> QED  BY <1>2, <1>4, <1>7, NotWriting, NotWritingNext

\* A process that gives up, or is done.
LEMMA IdleStutters ==
    ASSUME NEW p, Proc = {p}, LoneInv(p), pc' = [pc EXCEPT ![p] = "idle"],
           req' = [req EXCEPT ![p] = NoRequest], todo' = [todo EXCEPT ![p] = << >>],
           mem' = [mem EXCEPT ![p] = NoFiles], IsWorkspace(files'), crashes' \in Nat, UNCHANGED seq
    PROVE  LoneInv(p)' /\ Target' = files'
<1>0. << >> \in Seq(Field)
  OBVIOUS
<1>1. /\ pc'[p] = "idle" /\ pc' \in [{p} -> {"idle", "reading", "writing"}]
      /\ req' = [q \in {p} |-> req'[q]] /\ mem' = [q \in {p} |-> mem'[q]]
      /\ todo' \in [{p} -> Seq(Field)] /\ mem'[p] = NoFiles
  <2>1. pc'[p] = "idle" /\ pc' \in [{p} -> {"idle", "reading", "writing"}]
    BY DEF LoneInv
  <2>2. req' = [q \in {p} |-> req'[q]]
    BY DEF LoneInv
  <2>3. mem' = [q \in {p} |-> mem'[q]] /\ mem'[p] = NoFiles
    BY DEF LoneInv
  <2>4. todo' \in [{p} -> Seq(Field)]
    BY <1>0 DEF LoneInv
  <2> QED  BY <2>1, <2>2, <2>3, <2>4
<1>2. IsWorkspace(NoFiles)
  BY DEF IsWorkspace, NoFiles
<1>3. LoneInv(p)'
  BY <1>1, <1>2 DEF LoneInv, Reading, IsWorkspace
<1> QED  BY <1>1, <1>3, NotWritingNext

LEMMA ReadStutters ==
    ASSUME NEW p, Proc = {p}, LoneInv(p), Read(p)
    PROVE  LoneInv(p)' /\ UNCHANGED <<Target, clock, seq>>
<1> DEFINE x == Head(todo[p])
<1>1. /\ pc[p] = "reading" /\ todo[p] # << >> /\ todo[p] \in Seq(Field)
      /\ UNCHANGED <<files, clock, seq, crashes>>
  BY DEF Read, LoneInv
<1>2. /\ x \in Field /\ Tail(todo[p]) \in Seq(Field)
      /\ Range(todo[p]) = {x} \cup Range(Tail(todo[p]))
  BY <1>1, RangeIs
<1>3. IsWorkspace(files)
  BY DEF LoneInv
<1>4. CASE files[x] = Torn
  <2>1. /\ pc' = [pc EXCEPT ![p] = "idle"] /\ req' = [req EXCEPT ![p] = NoRequest]
        /\ todo' = [todo EXCEPT ![p] = << >>] /\ mem' = [mem EXCEPT ![p] = NoFiles]
    BY <1>4 DEF Read
  <2> QED  BY <1>1, <1>3, <2>1, IdleStutters, NotWriting DEF LoneInv
<1>5. CASE files[x] # Torn
  <2>1. /\ mem' = [mem EXCEPT ![p][x] = files[x]]
        /\ todo' = [todo EXCEPT ![p] = Tail(todo[p])]
        /\ UNCHANGED <<pc, req>>
    BY <1>5 DEF Read
  <2> HIDE DEF x
  <2>2. mem'[p] = [mem[p] EXCEPT ![x] = files[x]] /\ todo'[p] = Tail(todo[p])
        /\ mem' = [q \in {p} |-> mem'[q]] /\ todo' \in [{p} -> Seq(Field)]
    BY <1>2, <2>1 DEF LoneInv
  <2>3. DOMAIN mem[p] = Field
    BY DEF LoneInv, IsWorkspace, Field
  <2>4. mem'[p][x] = files[x] /\ \A y \in Field \ {x} : mem'[p][y] = mem[p][y]
    BY <1>2, <2>2, <2>3
  <2>5. IsWorkspace(mem'[p])
    <3>1. DOMAIN mem'[p] = Field
      BY <2>2, <2>3
    <3>2. mem'[p] = [y \in Field |-> mem'[p][y]]
      BY <2>2, <2>3
    <3> QED  BY <3>2 DEF IsWorkspace, Field
  <2>6. req[p] \in Request => Range(Reads(req[p].op)) \subseteq Field \ {"items"}
    BY FilesOf, OpsAre DEF Field
  <2>7. Reading(p)'
    <3> SUFFICES /\ req[p] \in Request /\ seq < MaxSeq
                 /\ req[p].op # "bootstrap" =>
                        mem'[p].items = files.items /\ Allowed(req[p], files.items)
                 /\ \A y \in Range(Reads(req[p].op)) :
                        y \in Range(todo'[p]) \/ mem'[p][y] = files[y]
      BY <1>1, <2>1 DEF Reading, Allowed
    <3>1. /\ req[p] \in Request /\ seq < MaxSeq
          /\ req[p].op # "bootstrap" =>
                 mem[p].items = files.items /\ Allowed(req[p], files.items)
          /\ \A y \in Range(Reads(req[p].op)) : y \in Range(todo[p]) \/ mem[p][y] = files[y]
      BY <1>1 DEF LoneInv, Reading
    <3>2. mem'[p].items = mem[p].items \/ (x = "items" /\ mem'[p].items = files.items)
      BY <2>4 DEF Field
    <3>3. \A y \in Range(Reads(req[p].op)) : y \in Range(todo'[p]) \/ mem'[p][y] = files[y]
      BY <1>2, <2>2, <2>4, <2>6, <3>1
    <3> QED  BY <3>1, <3>2, <3>3
  <2>8. LoneInv(p)'
    BY <1>1, <2>1, <2>2, <2>5, <2>7 DEF LoneInv, IsWorkspace
  <2> QED  BY <1>1, <2>1, <2>8, NotWriting, NotWritingNext
<1> QED  BY <1>4, <1>5

LEMMA WriteStutters ==
    ASSUME NEW p, Proc = {p}, LoneInv(p), Write(p)
    PROVE  LoneInv(p)' /\ UNCHANGED <<Target, clock, seq>>
<1> DEFINE x == Head(todo[p])
<1>1. /\ pc[p] = "writing" /\ todo[p] # << >> /\ todo[p] \in Seq(Field)
      /\ UNCHANGED <<clock, seq, crashes>> /\ files' = [files EXCEPT ![x] = mem[p][x]]
  BY DEF Write, LoneInv
<1>2. /\ x \in Field /\ Tail(todo[p]) \in Seq(Field)
      /\ Range(todo[p]) = {x} \cup Range(Tail(todo[p]))
      /\ Len(todo[p]) > 1 <=> Tail(todo[p]) # << >>
  BY <1>1, RangeIs
<1>3. DOMAIN files = Field /\ files = [y \in DOMAIN files |-> files[y]]
  BY DEF LoneInv, IsWorkspace, Field
<1> HIDE DEF x
<1>4. files' = [y \in Field |-> IF y = x THEN mem[p][y] ELSE files[y]]
  BY <1>1, <1>2, <1>3
<1>5. IsWorkspace(files')
  BY <1>4 DEF IsWorkspace, Field
<1>6. Target = Merge(mem[p], files, Range(todo[p]))
  BY <1>1, TargetIs DEF TargetOf
<1>7. CASE Len(todo[p]) > 1
  <2>1. todo' = [todo EXCEPT ![p] = Tail(todo[p])] /\ UNCHANGED <<pc, req, mem>>
    BY <1>7 DEF Write
  <2>2. todo'[p] = Tail(todo[p]) /\ todo' \in [{p} -> Seq(Field)] /\ todo'[p] # << >>
    BY <1>2, <1>7, <2>1 DEF LoneInv
  <2>3. LoneInv(p)'
    BY <1>1, <1>5, <2>1, <2>2 DEF LoneInv, Reading, IsWorkspace
  <2>4. Target' = Merge(mem[p], files', Range(Tail(todo[p])))
    BY <1>1, <2>1, <2>2, <2>3, TargetWillBe DEF TargetOf
  <2>5. Merge(mem[p], files', Range(Tail(todo[p]))) = Merge(mem[p], files, Range(todo[p]))
    BY <1>2, <1>4 DEF Merge
  <2> QED  BY <1>1, <1>6, <2>3, <2>4, <2>5
<1>8. CASE ~(Len(todo[p]) > 1)
  <2>1. /\ pc' = [pc EXCEPT ![p] = "idle"] /\ req' = [req EXCEPT ![p] = NoRequest]
        /\ todo' = [todo EXCEPT ![p] = << >>] /\ mem' = [mem EXCEPT ![p] = NoFiles]
    BY <1>8 DEF Write
  <2>2. LoneInv(p)' /\ Target' = files'
    BY <1>1, <1>5, <2>1, IdleStutters DEF LoneInv
  <2>3. Range(todo[p]) = {x}
    <3>1. Range(<< >>) = {}
      BY DEF Range
    <3> QED  BY <1>2, <1>8, <3>1
  <2>4. files' = Merge(mem[p], files, {x})
    BY <1>4 DEF Merge
  <2> QED  BY <1>1, <1>6, <2>2, <2>3, <2>4
<1> QED  BY <1>7, <1>8

\* What the process writes of its request, laid over the files, is what the
\* request makes of the files.
LEMMA ResultMerges ==
    ASSUME NEW r \in Request, NEW f, NEW g, IsWorkspace(f), IsWorkspace(g),
           Agree(f, g, r.op), NEW t, NEW n
    PROVE  Merge(Result(r, f, t, n), g, Range(Writes(r.op))) = Result(r, g, t, n)
<1>1. CASE r.op = "assign"
  BY <1>1, AssignMerges DEF Result
<1>2. CASE r.op = "due"
  BY <1>2, DueMerges DEF Result
<1>3. CASE r.op = "submit"
  BY <1>3, SubmitMerges DEF Result
<1>4. CASE r.op = "transition"
  BY <1>4, TransitionMerges DEF Result
<1>5. CASE r.op = "verify"
  BY <1>5, VerificationMerges DEF Result
<1>6. CASE r.op = "plan"
  <2>1. f.items = g.items
    BY <1>6 DEF Agree
  <2>2. PlanItems(r, f.items) = PlanItems(r, g.items)
    BY <2>1
  <2> DEFINE I == PlanItems(r, g.items)
  <2>3. /\ Result(r, f, t, n) = [f EXCEPT !.outbox = @ \cup Reminders(f.items, @, I, t, n)]
        /\ Result(r, g, t, n) = [g EXCEPT !.outbox = @ \cup Reminders(g.items, @, I, t, n)]
    BY <1>6, <2>2 DEF Result
  <2> HIDE DEF I
  <2> QED  BY <1>6, <2>3, PlanMerges
<1>7. CASE r.op = "bootstrap"
  BY <1>7, BootstrapMerges DEF Result
<1> QED  BY <1>1, <1>2, <1>3, <1>4, <1>5, <1>6, <1>7, OpsAre

LEMMA ResultIsWorkspace ==
    ASSUME NEW r \in Request, NEW f, IsWorkspace(f), NEW t, NEW n
    PROVE  IsWorkspace(Result(r, f, t, n))
<1> DEFINE h == Result(r, f, t, n)
<1>1. Agree(f, f, r.op)
  BY DEF Agree
<1>2. h = Merge(h, f, Range(Writes(r.op)))
  BY <1>1, ResultMerges
<1> HIDE DEF h
<1> QED  BY <1>2 DEF Merge, IsWorkspace, Field, h

\* A request that is allowed and takes effect is a step of RemediationOperator.
LEMMA RequestIsStep ==
    ASSUME NEW r \in Request, seq < MaxSeq,
           r.op # "bootstrap" => Allowed(r, Target.items),
           Target' = Result(r, Target, clock, seq), seq' = seq + 2, UNCHANGED clock
    PROVE  Operator!Next
<1> DEFINE Serves(result) == Operator!Serve(result)
<1>0. \A result : Target' = result => Serves(result)
  BY DEF Operator!Serve
<1> HIDE DEF Serves
<1>1. CASE r.op = "assign"
  <2>1. r.by \in User /\ r.owner \in User /\ r.item \in Item
    BY <1>1 DEF Request
  <2>2. AssignOwnerAllowed(Target.items, r.by, r.item, r.owner)
        /\ Target' = AssignOwnerResult(Target, r.by, r.item, r.owner, clock, seq)
    BY <1>1 DEF Allowed, Result
  <2>3. Operator!AssignOwner
    BY <1>0, <2>1, <2>2, SameAssign DEF Operator!AssignOwner, Serves
  <2> QED  BY <2>3 DEF Operator!Next
<1>2. CASE r.op = "due"
  <2>1. r.by \in User /\ r.due \in DueDate /\ r.item \in Item
    BY <1>2 DEF Request
  <2>2. SetDueDateAllowed(Target.items, r.by, r.item)
        /\ Target' = SetDueDateResult(Target, r.by, r.item, r.due, clock, seq)
    BY <1>2 DEF Allowed, Result
  <2>3. Operator!SetDueDate
    BY <1>0, <2>1, <2>2, SameDue DEF Operator!SetDueDate, Serves
  <2> QED  BY <2>3 DEF Operator!Next
<1>3. CASE r.op = "submit"
  <2>1. r.by \in User /\ r.evidence \in SUBSET File /\ r.item \in Item
    BY <1>3 DEF Request
  <2>2. TransitionAllowed(Target.items, r.by, r.item, "EVIDENCE_SUBMITTED", r.evidence)
        /\ Target' = SubmitResult(Target, r.by, r.item, r.evidence, clock, seq)
    BY <1>3 DEF Allowed, Result
  <2>3. Operator!SubmitEvidence
    BY <1>0, <2>1, <2>2, SameTransition DEF Operator!SubmitEvidence, Serves
  <2> QED  BY <2>3 DEF Operator!Next
<1>4. CASE r.op = "transition"
  <2>1. r.by \in User /\ r.to \in Operator!Status \ {"EVIDENCE_SUBMITTED"} /\ r.item \in Item
    BY <1>4 DEF Request, Status, Operator!Status
  <2>2. TransitionAllowed(Target.items, r.by, r.item, r.to, {})
        /\ Target' = TransitionResult(Target, r.by, r.item, r.to, clock, seq)
    BY <1>4 DEF Allowed, Result
  <2>3. Operator!TransitionStatus
    BY <1>0, <2>1, <2>2, SameTransition DEF Operator!TransitionStatus, Serves
  <2> QED  BY <2>3 DEF Operator!Next
<1>5. CASE r.op = "verify"
  <2>1. r.by \in User /\ r.passed \in BOOLEAN /\ r.item \in Item
    BY <1>5 DEF Request
  <2>2. VerificationAllowed(Target.items, r.by, r.item)
        /\ Target' = VerificationResult(Target, r.by, r.item, r.passed, clock, seq)
    BY <1>5 DEF Allowed, Result
  <2>3. Operator!ApplyVerificationResult
    BY <1>0, <2>1, <2>2, SameVerification DEF Operator!ApplyVerificationResult, Serves
  <2> QED  BY <2>3 DEF Operator!Next
<1>6. CASE r.op = "plan"
  <2>1. ASSUME NEW I, PlanItems(r, Target.items) = I PROVE Operator!PlanFor(I)
    <3> DEFINE result == [Target EXCEPT !.outbox =
                              @ \cup Reminders(Target.items, @, I, clock, seq)]
               same == [Target EXCEPT !.outbox =
                              @ \cup Operator!Reminders(Target.items, @, I, clock, seq)]
    <3>1. Target' = result
      BY <1>6, <2>1 DEF Result
    <3>2. result = same
      BY SamePlan
    <3>3. Serves(same)
      BY <1>0, <3>1, <3>2
    <3> QED  BY <3>3 DEF Operator!PlanFor, Serves
  <2>2. CASE r.scope = None
    <3>1. PlanItems(r, Target.items) = DOMAIN Target.items
      BY <2>2 DEF PlanItems
    <3>2. Operator!PlanDueNotifications
      BY <2>1, <3>1 DEF Operator!PlanDueNotifications
    <3> QED  BY <3>2 DEF Operator!Next
  <2>3. CASE r.scope # None
    <3>1. PICK u \in User : UserTenant[u] = r.scope /\ RoleOf[u] \in PLANNER_ROLES
      BY <1>6, <2>3 DEF Allowed
    <3>2. PlanItems(r, Target.items) = Operator!TenantItems(Target.items, u)
      BY <2>3, <3>1 DEF PlanItems, Operator!TenantItems
    <3>3. Operator!PlanFor(Operator!TenantItems(Target.items, u))
      BY <2>1, <3>2
    <3>4. Operator!PlanDueNotifications
      BY <3>1, <3>3 DEF Operator!PlanDueNotifications, Operator!PLANNER_ROLES, PLANNER_ROLES
    <3> QED  BY <3>4 DEF Operator!Next
  <2> QED  BY <2>2, <2>3
<1>7. CASE r.op = "bootstrap"
  <2>1. r.items \in SUBSET Item
    BY <1>7 DEF Request
  <2>2. Target' = BootstrapResult(r.items, clock, seq)
    BY <1>7 DEF Result
  <2>3. Operator!Bootstrap
    BY <1>0, <2>1, <2>2, SameBootstrap DEF Operator!Bootstrap, Serves
  <2> QED  BY <2>3 DEF Operator!Next
<1> QED  BY <1>1, <1>2, <1>3, <1>4, <1>5, <1>6, <1>7, OpsAre

\* When it has read all and computes, the request takes effect.
LEMMA ComputeServes ==
    ASSUME NEW p, Proc = {p}, LoneInv(p), Compute(p)
    PROVE  LoneInv(p)' /\ Operator!Next
<1> DEFINE r == req[p]
           result == Result(r, mem[p], clock, seq)
<1>1. /\ pc[p] = "reading" /\ todo[p] = << >>
      /\ mem' = [mem EXCEPT ![p] = result]
      /\ todo' = [todo EXCEPT ![p] = Writes(r.op)]
      /\ pc' = [pc EXCEPT ![p] = "writing"]
      /\ seq' = seq + 2 /\ UNCHANGED <<files, clock, req, crashes>>
  BY DEF Compute
<1>2. /\ r \in Request /\ seq < MaxSeq
      /\ r.op # "bootstrap" => mem[p].items = files.items /\ Allowed(r, files.items)
      /\ \A x \in Range(Reads(r.op)) : x \in Range(todo[p]) \/ mem[p][x] = files[x]
  BY <1>1 DEF LoneInv, Reading
<1>3. Range(todo[p]) = {}
  BY <1>1 DEF Range
<1>4. Agree(mem[p], files, r.op) /\ IsWorkspace(mem[p]) /\ IsWorkspace(files)
  BY <1>2, <1>3 DEF Agree, LoneInv
<1>5. Merge(result, files, Range(Writes(r.op))) = Result(r, files, clock, seq)
  BY <1>2, <1>4, ResultMerges
<1>6. IsWorkspace(result)
  BY <1>2, <1>4, ResultIsWorkspace
<1>7. /\ Writes(r.op) \in Seq(Field) /\ Writes(r.op) # << >>
  BY <1>2, OpsAre
<1> HIDE DEF result
<1>8. /\ mem'[p] = result /\ todo'[p] = Writes(r.op) /\ pc'[p] = "writing"
      /\ mem' = [q \in {p} |-> mem'[q]] /\ todo' \in [{p} -> Seq(Field)]
      /\ pc' \in [{p} -> {"idle", "reading", "writing"}]
  BY <1>1, <1>7 DEF LoneInv
<1>9. LoneInv(p)'
  BY <1>1, <1>6, <1>7, <1>8 DEF LoneInv, Reading, IsWorkspace
<1>10. Target = files
  BY <1>1, NotWriting
<1>11. Target' = Result(r, files, clock, seq)
  BY <1>1, <1>5, <1>8, <1>9, TargetWillBe DEF TargetOf
<1>12. r.op # "bootstrap" => Allowed(r, Target.items)
  BY <1>2, <1>10
<1> QED  BY <1>1, <1>2, <1>9, <1>10, <1>11, <1>12, RequestIsStep

LEMMA CrashesGrow ==
    ASSUME crashes \in Nat, [WritersNext]_writersVars
    PROVE  crashes' \in Nat /\ (crashes' = 0 => crashes = 0 /\ \A q \in Proc : ~Crash(q))
<1>1. CASE UNCHANGED writersVars
  BY <1>1 DEF writersVars, Crash
<1>2. CASE WritersTick
  BY <1>2 DEF WritersTick, Crash
<1>3. ASSUME NEW q \in Proc, Begin(q) \/ Read(q) \/ Compute(q) \/ Write(q) PROVE UNCHANGED crashes
  BY <1>3 DEF Begin, Read, Compute, Write
<1>4. ASSUME NEW q \in Proc, Crash(q) PROVE crashes' = crashes + 1
  BY <1>4 DEF Crash
<1>5. crashes' = crashes \/ crashes' = crashes + 1
  BY <1>1, <1>2, <1>3, <1>4 DEF WritersNext, writersVars, WritersTick
<1> QED  BY <1>4, <1>5

LEMMA CrashKeeps ==
    ASSUME NEW p, Proc = {p}, LoneInv(p), Crash(p)
    PROVE  LoneInv(p)'
<1>1. /\ pc' = [pc EXCEPT ![p] = "idle"] /\ req' = [req EXCEPT ![p] = NoRequest]
      /\ todo' = [todo EXCEPT ![p] = << >>] /\ mem' = [mem EXCEPT ![p] = NoFiles]
      /\ crashes' = crashes + 1 /\ UNCHANGED seq
      /\ files' = files \/ \E x, y : files' = [files EXCEPT ![x] = y]
  BY DEF Crash
<1>2. IsWorkspace(files')
  <2>1. DOMAIN files = Field /\ DOMAIN files' = Field
    BY <1>1 DEF LoneInv, IsWorkspace, Field
  <2>2. files' = [x \in Field |-> files'[x]]
    BY <1>1, <2>1 DEF LoneInv, IsWorkspace, Field
  <2> QED  BY <2>2 DEF IsWorkspace, Field
<1>3. crashes' \in Nat
  BY <1>1 DEF LoneInv
<1> QED  BY <1>1, <1>2, <1>3, IdleStutters

\* Every step keeps the invariant and, before any death, is one of the
\* operator's or none.
LEMMA LoneStep ==
    ASSUME NEW p, Proc = {p}, LoneInv(p), [WritersNext]_writersVars
    PROVE  LoneInv(p)' /\ (crashes' = 0 => [Operator!Next]_(Operator!vars))
<1>1. CASE Begin(p) \/ Read(p) \/ Write(p)
  BY <1>1, BeginStutters, ReadStutters, WriteStutters DEF Operator!vars
<1>2. CASE Compute(p)
  BY <1>2, ComputeServes
<1>3. CASE Crash(p)
  BY <1>3, CrashKeeps, CrashesGrow DEF LoneInv
<1>4. CASE WritersTick
  <2>1. LoneInv(p)' /\ UNCHANGED Target
    BY <1>4 DEF WritersTick, LoneInv, Reading, IsWorkspace, Target, Pending
  <2> QED  BY <1>4, <2>1 DEF WritersTick, Operator!Tick, Operator!Next
<1>5. CASE UNCHANGED writersVars
  <2>1. LoneInv(p)' /\ UNCHANGED <<Target, clock, seq>>
    BY <1>5 DEF writersVars, LoneInv, Reading, IsWorkspace, Target, Pending
  <2> QED  BY <2>1 DEF Operator!vars
<1> QED  BY <1>1, <1>2, <1>3, <1>4, <1>5 DEF WritersNext

LEMMA LoneStart ==
    ASSUME NEW p, Proc = {p}, WritersInit
    PROVE  LoneInv(p) /\ Operator!Init
<1>1. IsWorkspace(NoFiles)
  BY DEF IsWorkspace, NoFiles
<1>2. LoneInv(p)
  BY <1>1 DEF WritersInit, LoneInv, Reading
<1>3. Target = NoFiles
  BY <1>2, NotWriting DEF WritersInit
<1> QED  BY <1>2, <1>3, SameBootstrap DEF WritersInit, Operator!Init

\* One process serves every request as if in one step until it dies: for any
\* items, users, tenants, files and dates, it implements RemediationOperator
\* up to then.
THEOREM OneProcess ==
    ASSUME NEW CONSTANT p, Proc = {p}
    PROVE  WritersSpec => OneProcessIsAtomic
<1>1. WritersInit => LoneInv(p) /\ Operator!Init
  BY LoneStart
<1>2. LoneInv(p) /\ [WritersNext]_writersVars =>
          LoneInv(p)' /\ (crashes' = 0 => [Operator!Next]_(Operator!vars))
  BY LoneStep
<1> QED  BY <1>1, <1>2, PTL DEF WritersSpec, OneProcessIsAtomic

-----------------------------------------------------------------------------
(* What deaths leave behind.  A process that dies leaves some files of a    *)
(* request written and the others not; what is said of the files on disk is *)
(* therefore said of them at each point of a request, together with what    *)
(* the process is still going to write.                                     *)

\* The gate and the index are those of the item rows.
Consistent(f) ==
    /\ f.gate = Unresolved(f.items)
    /\ f.index.byStatus = IndexOf(f.items, 0).byStatus

Trail(f) ==
    /\ \A r \in f.log : \E e \in f.timeline : e.seq = r.seq /\ e.item = r.item
    /\ \A m \in f.outbox : m.type \in RequestNotes =>
           \E r \in f.log : r.seq = m.seq /\ r.item = m.item

StatusIn(rows, i) == {e \in rows : e.item = i /\ IsStatusEvent(e)}

\* The newest status row of item i says its status.
InStep(items, rows, i) ==
    \E e \in StatusIn(rows, i) :
        /\ e.to = items[i].status
        /\ \A d \in StatusIn(rows, i) : d.seq <= e.seq

OutOf(items, rows) == {i \in DOMAIN items : ~InStep(items, rows, i)}

Numbered(rows, n) == \A e \in rows : e.seq \in Nat /\ e.seq < n

\* A workspace that no torn write has touched, with at most k items out of step.
Sound(f, n, k) ==
    /\ DOMAIN f.items \subseteq Item
    /\ \A i \in DOMAIN f.items : "status" \in DOMAIN f.items[i]
    /\ Trail(f)
    /\ Numbered(f.timeline, n)
    /\ Cardinality(OutOf(f.items, f.timeline)) <= k

Rests ==
    /\ settled /\ files.gate # None => Consistent(files)
    /\ intact => Sound(files, seq, crashes)

\* The order of the writes, as far as it matters.
Rank(op, x) ==
    IF op = "bootstrap" THEN IF x = "items" THEN 1 ELSE 2
    ELSE CASE x = "items" -> 1
           [] x = "timeline" -> 2
           [] x = "log" -> 4
           [] x = "outbox" -> 5
           [] OTHER -> 3

Sorted(op, s) ==
    \A i, j \in 1..Len(s) : i < j => Rank(op, s[i]) <= Rank(op, s[j]) /\ s[i] # s[j]

\* The notifications that p is going to write have their audit rows on disk.
Noted(p) ==
    \A m \in mem[p].outbox : m.type \in RequestNotes =>
        \E r \in files.log : r.seq = m.seq /\ r.item = m.item

PlanInv(p) == Rests /\ (intact => Noted(p))

ResetInv(p) ==
    /\ Consistent(mem[p]) /\ Sound(mem[p], seq, crashes)
    /\ intact /\ "items" \in Range(todo[p]) => Sound(files, seq, crashes)

ServeInv(p) ==
    /\ Consistent(mem[p])
    /\ intact =>
           /\ Sound(mem[p], seq, crashes) /\ Sound(files, seq, crashes + 1)
           /\ files.timeline \subseteq mem[p].timeline /\ files.log \subseteq mem[p].log
           /\ Cardinality(OutOf(mem[p].items, files.timeline)) <= crashes + 1

Writing(p) ==
    LET op == req[p].op IN
    /\ req[p] \in Request
    /\ Sorted(op, todo[p]) /\ Range(todo[p]) \subseteq Range(Writes(op))
    /\ \A x \in Range(Writes(op)) \ Range(todo[p]) : files[x] = mem[p][x]
    /\ op = "plan" => PlanInv(p)
    /\ op = "bootstrap" => ResetInv(p)
    /\ op \notin {"plan", "bootstrap"} => ServeInv(p)

DeathInv(p) ==
    /\ settled \in BOOLEAN /\ intact \in BOOLEAN
    /\ pc[p] # "writing" => Rests
    /\ pc[p] = "writing" => Writing(p)
    /\ pc[p] = "idle" => req[p] = NoRequest

-----------------------------------------------------------------------------
(* What a request does to the rows.                                         *)

\* What a request on item i adds, from number n on.
Touches(f, items, events, row, notes, i, n) ==
    /\ DOMAIN items = DOMAIN f.items
    /\ \A j \in DOMAIN items : "status" \in DOMAIN items[j] /\ (j # i => items[j] = f.items[j])
    /\ \A e \in events : e.item = i /\ e.seq \in {n, n + 1}
    /\ \E e \in events : e.seq = n
    /\ row.item = i /\ row.seq = n
    /\ \A m \in notes : m.item = i /\ m.seq = n
    /\ \/ items[i].status = f.items[i].status /\ \A e \in events : ~IsStatusEvent(e)
       \/ \E e \in events : /\ IsStatusEvent(e) /\ e.to = items[i].status
                            /\ \A d \in events : d.seq <= e.seq

\* The rows of a file of items have a status.
HasStatus(items) == \A j \in DOMAIN items : "status" \in DOMAIN items[j]

LEMMA AssignTouches ==
    ASSUME NEW f, HasStatus(f.items), NEW i \in DOMAIN f.items, NEW u, NEW o, NEW t,
           NEW n \in Nat
    PROVE  Touches(f, [f.items EXCEPT ![i].owner = o], {OwnerEvent(i, u, t, n)},
                   Logged(u, i, "OWNER_ASSIGNED", t, n),
                   {Notify(i, "REMEDIATION_OWNER_ASSIGNED", {o}, t, n)}, i, n)
  BY DEF Touches, HasStatus, OwnerEvent, Logged, Notify, IsStatusEvent

LEMMA DueTouches ==
    ASSUME NEW f, HasStatus(f.items), NEW i \in DOMAIN f.items, NEW u, NEW d, NEW t,
           NEW n \in Nat
    PROVE  Touches(f, [f.items EXCEPT ![i].due = d], {DueEvent(i, u, t, n)},
                   Logged(u, i, "DUE_DATE_SET", t, n),
                   {Notify(i, "REMEDIATION_DUE_DATE_SET", OwnerOr(f.items, i, u), t, n)}, i, n)
  BY DEF Touches, HasStatus, DueEvent, OwnerEvent, Logged, Notify, IsStatusEvent

LEMMA VerificationTouches ==
    ASSUME NEW f, HasStatus(f.items), NEW i \in DOMAIN f.items, NEW u, NEW passed, NEW t,
           NEW n \in Nat
    PROVE  Touches(f, [f.items EXCEPT ![i] = Verified(f.items[i], passed)],
                   {ResultEvent(i, passed, f.items[i].evidence, t, n)},
                   Logged(u, i, "VERIFICATION_RESULT_APPLIED", t, n),
                   {Notify(i, "REMEDIATION_VERIFICATION_RESULT", OwnerOr(f.items, i, u), t, n)},
                   i, n)
<1> DEFINE items == [f.items EXCEPT ![i] = Verified(f.items[i], passed)]
<1>1. /\ DOMAIN items = DOMAIN f.items /\ items[i] = Verified(f.items[i], passed)
      /\ \A j \in DOMAIN items : j # i => items[j] = f.items[j]
  OBVIOUS
<1>2. items[i].status = Verdict(passed) /\ "status" \in DOMAIN items[i]
  BY <1>1 DEF HasStatus, Verified
<1>3. Verdict(passed) # None
  BY LifecycleAssumption DEF Verdict, Status
<1> HIDE DEF items
<1>4. HasStatus(items)
  BY <1>1, <1>2 DEF HasStatus
<1>5. Touches(f, items, {ResultEvent(i, passed, f.items[i].evidence, t, n)},
              Logged(u, i, "VERIFICATION_RESULT_APPLIED", t, n),
              {Notify(i, "REMEDIATION_VERIFICATION_RESULT", OwnerOr(f.items, i, u), t, n)}, i, n)
  BY <1>1, <1>2, <1>3, <1>4 DEF Touches, HasStatus, ResultEvent, Logged, Notify, IsStatusEvent
<1> QED  BY <1>5 DEF items

LEMMA SubmitTouches ==
    ASSUME NEW f, HasStatus(f.items), NEW i \in DOMAIN f.items, NEW u, NEW E, NEW t,
           NEW n \in Nat
    PROVE  Touches(f, [f.items EXCEPT ![i] = Submitted(f.items[i], E)],
                   {TransitionEvent(i, "EVIDENCE_SUBMITTED", u, E, t, n),
                    QueuedEvent(i, E, t, n + 1)},
                   Logged(u, i, "STATUS_EVIDENCE_SUBMITTED", t, n),
                   {Notify(i, "REMEDIATION_EVIDENCE_SUBMITTED", OwnerOr(f.items, i, u), t, n)},
                   i, n)
<1> DEFINE items == [f.items EXCEPT ![i] = Submitted(f.items[i], E)]
           one == TransitionEvent(i, "EVIDENCE_SUBMITTED", u, E, t, n)
           two == QueuedEvent(i, E, t, n + 1)
<1>1. /\ DOMAIN items = DOMAIN f.items /\ items[i] = Submitted(f.items[i], E)
      /\ \A j \in DOMAIN items : j # i => items[j] = f.items[j]
  OBVIOUS
<1>2. items[i].status = "VERIFYING" /\ "status" \in DOMAIN items[i]
  BY <1>1 DEF HasStatus, Submitted, Transitioned
<1>3. "VERIFYING" # None
  BY LifecycleAssumption DEF Status
<1>4. /\ one.item = i /\ one.seq = n
      /\ two.item = i /\ two.seq = n + 1 /\ two.to = "VERIFYING"
  BY DEF TransitionEvent, QueuedEvent
<1> HIDE DEF items, one, two
<1>5. HasStatus(items)
  BY <1>1, <1>2 DEF HasStatus
<1>6. Touches(f, items, {one, two}, Logged(u, i, "STATUS_EVIDENCE_SUBMITTED", t, n),
              {Notify(i, "REMEDIATION_EVIDENCE_SUBMITTED", OwnerOr(f.items, i, u), t, n)}, i, n)
  BY <1>1, <1>2, <1>3, <1>4, <1>5 DEF Touches, HasStatus, Logged, Notify, IsStatusEvent
<1> QED  BY <1>6 DEF items, one, two

LEMMA TransitionTouches ==
    ASSUME NEW f, HasStatus(f.items), NEW i \in DOMAIN f.items, NEW u, NEW to \in Status,
           NEW t, NEW n \in Nat
    PROVE  Touches(f, [f.items EXCEPT ![i] = Transitioned(f.items[i], to, {})],
                   {TransitionEvent(i, to, u, {}, t, n)},
                   Logged(u, i, PlainAction(to), t, n), {}, i, n)
<1> DEFINE items == [f.items EXCEPT ![i] = Transitioned(f.items[i], to, {})]
<1>1. /\ DOMAIN items = DOMAIN f.items /\ items[i] = Transitioned(f.items[i], to, {})
      /\ \A j \in DOMAIN items : j # i => items[j] = f.items[j]
  OBVIOUS
<1>2. items[i].status = to /\ "status" \in DOMAIN items[i]
  BY <1>1 DEF HasStatus, Transitioned
<1>3. to # None
  BY LifecycleAssumption
<1> HIDE DEF items
<1>4. HasStatus(items)
  BY <1>1, <1>2 DEF HasStatus
<1>5. Touches(f, items, {TransitionEvent(i, to, u, {}, t, n)},
              Logged(u, i, PlainAction(to), t, n), {}, i, n)
  BY <1>1, <1>2, <1>3, <1>4 DEF Touches, HasStatus, TransitionEvent, Logged, IsStatusEvent
<1> QED  BY <1>5 DEF items

\* Any request on an item, as one of these.
LEMMA RequestServes ==
    ASSUME NEW r \in Request, r.op \in {"assign", "due", "submit", "transition", "verify"},
           NEW f, IsWorkspace(f), Allowed(r, f.items), NEW t, NEW n \in Nat
    PROVE  \E items, events, evidence, row, notes :
               /\ Result(r, f, t, n) = Served(f, items, t, events, evidence, row, notes)
               /\ HasStatus(f.items) =>
                      r.item \in DOMAIN f.items /\ Touches(f, items, events, row, notes, r.item, n)
<1> DEFINE i == r.item
<1>1. CASE r.op = "assign"
  <2> DEFINE items == [f.items EXCEPT ![i].owner = r.owner]
             events == {OwnerEvent(i, r.by, t, n)}
             row == Logged(r.by, i, "OWNER_ASSIGNED", t, n)
             notes == {Notify(i, "REMEDIATION_OWNER_ASSIGNED", {r.owner}, t, n)}
  <2>1. Result(r, f, t, n) = Serving(f, items, t, events, row, notes)
    BY <1>1 DEF Result, AssignOwnerResult, Serving
  <2>2. i \in DOMAIN f.items
    BY <1>1 DEF Allowed, AssignOwnerAllowed, InReach
  <2>3. HasStatus(f.items) => Touches(f, items, events, row, notes, i, n)
    BY <2>2, AssignTouches
  <2> HIDE DEF items, events, row, notes
  <2> QED  BY <2>1, <2>2, <2>3, ServedIs
<1>2. CASE r.op = "due"
  <2> DEFINE items == [f.items EXCEPT ![i].due = r.due]
             events == {DueEvent(i, r.by, t, n)}
             row == Logged(r.by, i, "DUE_DATE_SET", t, n)
             notes == {Notify(i, "REMEDIATION_DUE_DATE_SET", OwnerOr(f.items, i, r.by), t, n)}
  <2>1. Result(r, f, t, n) = Serving(f, items, t, events, row, notes)
    BY <1>2 DEF Result, SetDueDateResult, Serving
  <2>2. i \in DOMAIN f.items
    BY <1>2 DEF Allowed, SetDueDateAllowed, InReach
  <2>3. HasStatus(f.items) => Touches(f, items, events, row, notes, i, n)
    BY <2>2, DueTouches
  <2> HIDE DEF items, events, row, notes
  <2> QED  BY <2>1, <2>2, <2>3, ServedIs
<1>3. CASE r.op = "submit"
  <2> DEFINE E == r.evidence
             items == [f.items EXCEPT ![i] = Submitted(f.items[i], E)]
             events == {TransitionEvent(i, "EVIDENCE_SUBMITTED", r.by, E, t, n),
                        QueuedEvent(i, E, t, n + 1)}
             evidence == WithMetadata(f.evidence, r.by, i, E, t)
             row == Logged(r.by, i, "STATUS_EVIDENCE_SUBMITTED", t, n)
             notes == {Notify(i, "REMEDIATION_EVIDENCE_SUBMITTED",
                              OwnerOr(f.items, i, r.by), t, n)}
  <2>1. Result(r, f, t, n) = Submitting(f, items, t, events, evidence, row, notes)
    BY <1>3 DEF Result, SubmitResult, Submitting
  <2>2. i \in DOMAIN f.items
    BY <1>3 DEF Allowed, TransitionAllowed, InReach
  <2>3. HasStatus(f.items) => Touches(f, items, events, row, notes, i, n)
    BY <2>2, SubmitTouches
  <2> HIDE DEF items, events, evidence, row, notes
  <2> QED  BY <2>1, <2>2, <2>3, SubmittedIs
<1>4. CASE r.op = "transition"
  <2> DEFINE items == [f.items EXCEPT ![i] = Transitioned(f.items[i], r.to, {})]
             events == {TransitionEvent(i, r.to, r.by, {}, t, n)}
             row == Logged(r.by, i, PlainAction(r.to), t, n)
  <2>1. Result(r, f, t, n) = Transitioning(f, items, t, events, row)
    BY <1>4 DEF Result, TransitionResult, Transitioning
  <2>2. i \in DOMAIN f.items
    BY <1>4 DEF Allowed, TransitionAllowed, InReach
  <2>3. r.to \in Status
    BY <1>4 DEF Request
  <2>4. HasStatus(f.items) => Touches(f, items, events, row, {}, i, n)
    BY <2>2, <2>3, TransitionTouches
  <2> HIDE DEF items, events, row
  <2> QED  BY <2>1, <2>2, <2>4, TransitionedIs
<1>5. CASE r.op = "verify"
  <2> DEFINE items == [f.items EXCEPT ![i] = Verified(f.items[i], r.passed)]
             events == {ResultEvent(i, r.passed, f.items[i].evidence, t, n)}
             row == Logged(r.by, i, "VERIFICATION_RESULT_APPLIED", t, n)
             notes == {Notify(i, "REMEDIATION_VERIFICATION_RESULT",
                              OwnerOr(f.items, i, r.by), t, n)}
  <2>1. Result(r, f, t, n) = Serving(f, items, t, events, row, notes)
    BY <1>5 DEF Result, VerificationResult, Serving
  <2>2. i \in DOMAIN f.items
    BY <1>5 DEF Allowed, VerificationAllowed, InReach
  <2>3. HasStatus(f.items) => Touches(f, items, events, row, notes, i, n)
    BY <2>2, VerificationTouches
  <2> HIDE DEF items, events, row, notes
  <2> QED  BY <2>1, <2>2, <2>3, ServedIs
<1> QED  BY <1>1, <1>2, <1>3, <1>4, <1>5

\* Whatever is computed, the gate and the index are those of the item rows.
LEMMA ServedConsistent ==
    ASSUME NEW f, NEW items, NEW t, NEW events, NEW evidence, NEW row, NEW notes
    PROVE  Consistent(Served(f, items, t, events, evidence, row, notes))
  BY DEF Consistent, Served, IndexOf

\* The item of the request is in step afterwards if its status changed; the
\* others, and it if its status did not change, are as they were.
LEMMA TouchedSteps ==
    ASSUME NEW f, NEW items, NEW events, NEW row, NEW notes, NEW i, NEW n \in Nat,
           Touches(f, items, events, row, notes, i, n), Numbered(f.timeline, n)
    PROVE  /\ OutOf(items, f.timeline \cup events) \subseteq OutOf(f.items, f.timeline)
           /\ OutOf(items, f.timeline) \subseteq OutOf(f.items, f.timeline) \cup {i}
<1>1. ASSUME NEW j \in DOMAIN items, j # i
      PROVE  /\ InStep(items, f.timeline \cup events, j) <=> InStep(f.items, f.timeline, j)
             /\ InStep(items, f.timeline, j) <=> InStep(f.items, f.timeline, j)
  <2>1. StatusIn(f.timeline \cup events, j) = StatusIn(f.timeline, j)
    BY <1>1 DEF Touches, StatusIn
  <2>2. items[j] = f.items[j]
    BY <1>1 DEF Touches
  <2> QED  BY <2>1, <2>2 DEF InStep
<1>2. InStep(f.items, f.timeline, i) => InStep(items, f.timeline \cup events, i)
  <2>1. CASE items[i].status = f.items[i].status /\ \A e \in events : ~IsStatusEvent(e)
    <3>1. StatusIn(f.timeline \cup events, i) = StatusIn(f.timeline, i)
      BY <2>1 DEF StatusIn
    <3> QED  BY <2>1, <3>1 DEF InStep
  <2>2. CASE \E e \in events : /\ IsStatusEvent(e) /\ e.to = items[i].status
                               /\ \A d \in events : d.seq <= e.seq
    <3>1. PICK e \in events : /\ IsStatusEvent(e) /\ e.to = items[i].status
                              /\ \A d \in events : d.seq <= e.seq
      BY <2>2
    <3>2. e.item = i /\ e.seq \in Nat /\ n <= e.seq
      BY <3>1 DEF Touches
    <3>3. \A d \in f.timeline : d.seq <= e.seq
      BY <3>2 DEF Numbered
    <3>4. e \in StatusIn(f.timeline \cup events, i)
          /\ \A d \in StatusIn(f.timeline \cup events, i) : d.seq <= e.seq
      BY <3>1, <3>2, <3>3 DEF StatusIn
    <3> QED  BY <3>1, <3>4 DEF InStep
  <2> QED  BY <2>1, <2>2 DEF Touches
<1>3. DOMAIN items = DOMAIN f.items
  BY DEF Touches
<1> QED  BY <1>1, <1>2, <1>3 DEF OutOf

LEMMA OutOfFinite ==
    ASSUME IsFiniteSet(Item), NEW items, NEW rows, DOMAIN items \subseteq Item
    PROVE  IsFiniteSet(OutOf(items, rows)) /\ Cardinality(OutOf(items, rows)) \in Nat
<1>1. OutOf(items, rows) \subseteq Item
  BY DEF OutOf
<1> QED  BY <1>1, FS_Subset, FS_CardinalityType

\* What a request computes from sound files is sound.
LEMMA ServedSound ==
    ASSUME IsFiniteSet(Item), NEW f, NEW items, NEW t, NEW events, NEW evidence, NEW row,
           NEW notes, NEW i, NEW n \in Nat, NEW k \in Nat,
           Touches(f, items, events, row, notes, i, n), Sound(f, n, k)
    PROVE  /\ Sound(Served(f, items, t, events, evidence, row, notes), n + 2, k)
           /\ Cardinality(OutOf(items, f.timeline)) <= k + 1
<1> DEFINE h == Served(f, items, t, events, evidence, row, notes)
<1>1. /\ h.items = items /\ h.timeline = f.timeline \cup events /\ h.log = f.log \cup {row}
      /\ h.outbox = f.outbox \cup notes
  BY DEF Served
<1> HIDE DEF h
<1>2. Numbered(f.timeline, n) /\ Trail(f) /\ DOMAIN f.items \subseteq Item
      /\ Cardinality(OutOf(f.items, f.timeline)) <= k
  BY DEF Sound
<1>3. DOMAIN items \subseteq Item /\ \A j \in DOMAIN items : "status" \in DOMAIN items[j]
  BY <1>2 DEF Touches
<1>4. Trail(h)
  <2>1. \A r \in h.log : \E e \in h.timeline : e.seq = r.seq /\ e.item = r.item
    BY <1>1, <1>2 DEF Trail, Touches
  <2>2. \A m \in h.outbox : m.type \in RequestNotes =>
            \E r \in h.log : r.seq = m.seq /\ r.item = m.item
    BY <1>1, <1>2 DEF Trail, Touches
  <2> QED  BY <2>1, <2>2 DEF Trail
<1>5. Numbered(h.timeline, n + 2)
  <2>1. \A e \in f.timeline : e.seq \in Nat /\ e.seq < n + 2
    BY <1>2 DEF Numbered
  <2>2. \A e \in events : e.seq \in Nat /\ e.seq < n + 2
    BY DEF Touches
  <2> QED  BY <1>1, <2>1, <2>2 DEF Numbered
<1>6. /\ IsFiniteSet(OutOf(f.items, f.timeline)) /\ Cardinality(OutOf(f.items, f.timeline)) \in Nat
      /\ IsFiniteSet(OutOf(items, f.timeline)) /\ Cardinality(OutOf(items, f.timeline)) \in Nat
      /\ IsFiniteSet(OutOf(items, h.timeline)) /\ Cardinality(OutOf(items, h.timeline)) \in Nat
  BY <1>2, <1>3, OutOfFinite
<1>7. /\ OutOf(items, h.timeline) \subseteq OutOf(f.items, f.timeline)
      /\ OutOf(items, f.timeline) \subseteq OutOf(f.items, f.timeline) \cup {i}
  BY <1>1, <1>2, TouchedSteps
<1>8. Cardinality(OutOf(items, h.timeline)) <= k
  <2>1. Cardinality(OutOf(items, h.timeline)) <= Cardinality(OutOf(f.items, f.timeline))
    BY <1>6, <1>7, FS_Subset
  <2> QED  BY <1>2, <1>6, <2>1
<1>9. Cardinality(OutOf(items, f.timeline)) <= k + 1
  <2>1. /\ IsFiniteSet(OutOf(f.items, f.timeline) \cup {i})
        /\ Cardinality(OutOf(f.items, f.timeline) \cup {i})
               <= Cardinality(OutOf(f.items, f.timeline)) + 1
        /\ Cardinality(OutOf(f.items, f.timeline) \cup {i}) \in Nat
    <3> DEFINE S == OutOf(f.items, f.timeline)
    <3>1. IsFiniteSet(S) /\ Cardinality(S) \in Nat
      BY <1>6
    <3> HIDE DEF S
    <3>2. IsFiniteSet(S \cup {i})
          /\ Cardinality(S \cup {i}) = (IF i \in S THEN Cardinality(S) ELSE Cardinality(S) + 1)
      BY <3>1, FS_AddElement
    <3>3. Cardinality(S \cup {i}) <= Cardinality(S) + 1 /\ Cardinality(S \cup {i}) \in Nat
      BY <3>1, <3>2
    <3> QED  BY <3>2, <3>3 DEF S
  <2>2. Cardinality(OutOf(items, f.timeline))
            <= Cardinality(OutOf(f.items, f.timeline) \cup {i})
    BY <1>7, <2>1, FS_Subset
  <2> QED  BY <1>2, <1>6, <2>1, <2>2
<1> QED  BY <1>1, <1>3, <1>4, <1>5, <1>8, <1>9 DEF Sound, h

\* A bootstrap computes a sound workspace.
LEMMA BootstrapSound ==
    ASSUME NEW G \in SUBSET Item, NEW t, NEW n \in Nat, NEW k \in Nat
    PROVE  Consistent(BootstrapResult(G, t, n)) /\ Sound(BootstrapResult(G, t, n), n + 2, k)
<1> DEFINE items == InitializeItems(G)
           timeline == InitializeTimeline(G, t, n)
           h == BootstrapResult(G, t, n)
<1>1. IsWorkspace(NoFiles) /\ NoFiles.log = {} /\ NoFiles.outbox = {}
  BY DEF IsWorkspace, NoFiles
<1>2. /\ h.items = items /\ h.timeline = timeline /\ h.log = {} /\ h.outbox = {}
      /\ h.gate = Unresolved(items) /\ h.index = IndexOf(items, Day(t))
  <2> DEFINE index == IndexOf(items, Day(t))
             gate == Unresolved(items)
  <2>1. Recomputed(NoFiles, items, t) =
            [items |-> items, timeline |-> NoFiles.timeline, index |-> index, gate |-> gate,
             evidence |-> NoFiles.evidence, log |-> NoFiles.log, outbox |-> NoFiles.outbox]
    BY <1>1, RecomputedIs
  <2>2. h = [Recomputed(NoFiles, items, t) EXCEPT !.timeline = timeline]
    BY DEF BootstrapResult
  <2> HIDE DEF items, timeline, index, gate, h
  <2>3. /\ h.items = items /\ h.timeline = timeline /\ h.log = {} /\ h.outbox = {}
        /\ h.gate = gate /\ h.index = index
    BY <1>1, <2>1, <2>2
  <2> QED  BY <2>3 DEF index, gate
<1> HIDE DEF h
<1>3. Consistent(h)
  BY <1>2 DEF Consistent, IndexOf
<1>4. DOMAIN items = G /\ \A i \in G : items[i].status = "OPEN" /\ "status" \in DOMAIN items[i]
  BY DEF InitializeItems, InitialRow
<1>5. Numbered(timeline, n + 2)
  BY DEF Numbered, InitializeTimeline
<1>6. OutOf(items, timeline) = {}
  <2> SUFFICES ASSUME NEW i \in G PROVE InStep(items, timeline, i)
    BY <1>4 DEF OutOf
  <2>1. PICK e : e = [item |-> i, action |-> "CREATED", actor |-> System, from |-> None,
                      to |-> "OPEN", evidence |-> {}, at |-> t, seq |-> n]
    OBVIOUS
  <2>2. e \in timeline /\ e.item = i /\ e.to = "OPEN" /\ e.seq = n
    BY <2>1 DEF InitializeTimeline
  <2>3. "OPEN" # None
    BY LifecycleAssumption DEF Status
  <2>4. \A d \in timeline : d.seq = n
    BY DEF InitializeTimeline
  <2>5. e \in StatusIn(timeline, i) /\ \A d \in StatusIn(timeline, i) : d.seq <= e.seq
    BY <2>2, <2>3, <2>4 DEF StatusIn, IsStatusEvent
  <2> QED  BY <1>4, <2>2, <2>5 DEF InStep
<1>7. Cardinality(OutOf(h.items, h.timeline)) <= k
  BY <1>2, <1>6, FS_EmptySet
<1> QED  BY <1>2, <1>3, <1>4, <1>5, <1>7 DEF Sound, Trail, h

-----------------------------------------------------------------------------
(* The order of the writes.                                                 *)

LEMMA WritesSorted == ASSUME NEW r \in Request PROVE Sorted(r.op, Writes(r.op))
<1>1. CASE r.op \in {"assign", "due", "verify"}
  <2>1. Writes(r.op) = <<"items", "timeline", "index", "gate", "log", "outbox">>
    BY <1>1 DEF Writes
  <2> QED  BY <1>1, <2>1 DEF Sorted, Rank
<1>2. CASE r.op \in {"submit", "transition"}
  <2>1. Writes(r.op) = <<"items", "timeline", "index", "gate", "evidence", "log", "outbox">>
    BY <1>2 DEF Writes
  <2> QED  BY <1>2, <2>1 DEF Sorted, Rank
<1>3. CASE r.op = "plan"
  BY <1>3 DEF Sorted, Writes
<1>4. CASE r.op = "bootstrap"
  <2>1. Writes(r.op) = <<"items", "timeline", "index", "gate", "evidence", "outbox", "log">>
    BY <1>4 DEF Writes
  <2> QED  BY <1>4, <2>1 DEF Sorted, Rank
<1> QED  BY <1>1, <1>2, <1>3, <1>4, OpsAre

LEMMA TailSorted ==
    ASSUME NEW op, NEW s \in Seq(Field), s # << >>, Sorted(op, s)
    PROVE  /\ Sorted(op, Tail(s))
           /\ \A y \in Range(Tail(s)) : Rank(op, Head(s)) <= Rank(op, y) /\ Head(s) # y
<1>1. Len(s) \in Nat /\ Len(s) > 0 /\ Len(Tail(s)) = Len(s) - 1 /\ Head(s) = s[1]
      /\ \A k \in 1..(Len(s) - 1) : Tail(s)[k] = s[k + 1]
  OBVIOUS
<1>2. Sorted(op, Tail(s))
  <2> SUFFICES ASSUME NEW i \in 1..Len(Tail(s)), NEW j \in 1..Len(Tail(s)), i < j
               PROVE  Rank(op, Tail(s)[i]) <= Rank(op, Tail(s)[j]) /\ Tail(s)[i] # Tail(s)[j]
    BY DEF Sorted
  <2>1. i + 1 \in 1..Len(s) /\ j + 1 \in 1..Len(s) /\ i + 1 < j + 1
    BY <1>1
  <2>2. Tail(s)[i] = s[i + 1] /\ Tail(s)[j] = s[j + 1]
    BY <1>1
  <2> QED  BY <2>1, <2>2 DEF Sorted
<1>3. ASSUME NEW y \in Range(Tail(s)) PROVE Rank(op, Head(s)) <= Rank(op, y) /\ Head(s) # y
  <2>1. PICK k \in 1..(Len(s) - 1) : y = Tail(s)[k]
    <3>1. DOMAIN Tail(s) = 1..(Len(s) - 1)
      BY <1>1
    <3> QED  BY <1>3, <3>1 DEF Range
  <2>2. 1 \in 1..Len(s) /\ k + 1 \in 1..Len(s) /\ 1 < k + 1 /\ y = s[k + 1]
    BY <1>1, <2>1
  <2> QED  BY <1>1, <2>2 DEF Sorted
<1> QED  BY <1>2, <1>3

\* The file x that p writes next, and those that follow.
LEMMA NextFile ==
    ASSUME NEW p, Proc = {p}, LoneInv(p), pc[p] = "writing", Writing(p)
    PROVE  LET op == req[p].op
               x  == Head(todo[p])
               V  == Range(Tail(todo[p]))
           IN  /\ x \in Field /\ Range(todo[p]) = {x} \cup V /\ x \notin V
               /\ Sorted(op, Tail(todo[p]))
               /\ "items" \notin V
               /\ op # "bootstrap" => /\ "timeline" \in V => x = "items"
                                      /\ x = "outbox" => "log" \notin V
<1> DEFINE op == req[p].op
           x  == Head(todo[p])
           V  == Range(Tail(todo[p]))
<1>1. todo[p] \in Seq(Field) /\ todo[p] # << >> /\ Sorted(op, todo[p])
  BY DEF LoneInv, Writing
<1>2. x \in Field /\ Range(todo[p]) = {x} \cup V
  BY <1>1, RangeIs
<1>3. Sorted(op, Tail(todo[p])) /\ \A y \in V : Rank(op, x) <= Rank(op, y) /\ x # y
  BY <1>1, TailSorted
<1> HIDE DEF op, x, V
<1>4. "items" \notin V
  BY <1>2, <1>3 DEF Rank, Field
<1>5. op # "bootstrap" => ("timeline" \in V => x = "items") /\ (x = "outbox" => "log" \notin V)
  BY <1>2, <1>3 DEF Rank, Field
<1> QED  BY <1>2, <1>3, <1>4, <1>5 DEF op, x, V

-----------------------------------------------------------------------------
(* One write.                                                               *)

\* What the claims read of a workspace.
LEMMA SameFiles ==
    ASSUME NEW f, NEW g, f.items = g.items, f.timeline = g.timeline, f.index = g.index,
           f.gate = g.gate, f.log = g.log, f.outbox = g.outbox, NEW n, NEW k
    PROVE  /\ Consistent(g) => Consistent(f)
           /\ Sound(g, n, k) => Sound(f, n, k)
  BY DEF Consistent, Sound, Trail

LEMMA FileWritten ==
    ASSUME NEW p, Proc = {p}, LoneInv(p), Write(p)
    PROVE  /\ Head(todo[p]) \in Field
           /\ \A y \in Field : files'[y] = IF y = Head(todo[p]) THEN mem[p][y] ELSE files[y]
<1>1. pc[p] = "writing" /\ todo[p] # << >> /\ todo[p] \in Seq(Field)
      /\ files' = [files EXCEPT ![Head(todo[p])] = mem[p][Head(todo[p])]]
  BY DEF Write, LoneInv
<1>2. Head(todo[p]) \in Field
  BY <1>1, RangeIs
<1>3. DOMAIN files = Field
  BY DEF LoneInv, IsWorkspace, Field
<1> QED  BY <1>1, <1>2, <1>3

\* What is on disk of a request whose files are all written.
LEMMA AllWritten ==
    ASSUME NEW p, Proc = {p}, LoneInv(p), pc[p] = "writing", Writing(p), Write(p),
           ~(Len(todo[p]) > 1), req[p].op # "plan"
    PROVE  /\ Consistent(mem[p]) => Consistent(files')
           /\ \A n, k : Sound(mem[p], n, k) => Sound(files', n, k)
<1>1. Range(todo[p]) = {Head(todo[p])}
  <2>1. Range(<< >>) = {}
    BY DEF Range
  <2> QED  BY <2>1, RangeIs DEF LoneInv
<1>2. \A y \in Range(Writes(req[p].op)) \cap Field : files'[y] = mem[p][y]
  BY <1>1, FileWritten DEF Writing
<1>3. {"items", "timeline", "index", "gate", "log", "outbox"} \subseteq Range(Writes(req[p].op)) \cap Field
  BY OpsAre, FilesOf DEF Field, Writing
<1>4. /\ files'["items"] = mem[p]["items"] /\ files'["timeline"] = mem[p]["timeline"]
      /\ files'["index"] = mem[p]["index"] /\ files'["gate"] = mem[p]["gate"]
      /\ files'["log"] = mem[p]["log"] /\ files'["outbox"] = mem[p]["outbox"]
  BY <1>2, <1>3
<1> QED  BY <1>4, SameFiles

\* A write of a request on an item keeps the files sound.
LEMMA ServeWrites ==
    ASSUME IsFiniteSet(Item), NEW p, Proc = {p}, LoneInv(p), pc[p] = "writing", Writing(p), Write(p),
           req[p].op \notin {"plan", "bootstrap"}, intact
    PROVE  /\ Sound(files', seq, crashes + 1)
           /\ files'.timeline \subseteq mem[p].timeline /\ files'.log \subseteq mem[p].log
           /\ Cardinality(OutOf(mem[p].items, files'.timeline)) <= crashes + 1
<1> DEFINE m == mem[p]
           W == Range(todo[p])
           V == Range(Tail(todo[p]))
<1>1. PICK x : x = Head(todo[p])
  OBVIOUS
<1>2. x \in Field /\ \A y \in Field : files'[y] = IF y = x THEN m[y] ELSE files[y]
  BY <1>1, FileWritten
<1>3. /\ W = {x} \cup V /\ "items" \notin V
      /\ "timeline" \in V => x = "items"
      /\ x = "outbox" => "log" \notin V
  BY <1>1, NextFile
<1>4. \A y \in {"items", "timeline", "log"} : y \notin W => files[y] = m[y]
  <2>1. {"items", "timeline", "log"} \subseteq Range(Writes(req[p].op))
    BY OpsAre, FilesOf DEF Writing, Field
  <2> QED  BY <2>1 DEF Writing
<1>5. /\ Sound(m, seq, crashes) /\ Sound(files, seq, crashes + 1)
      /\ files.timeline \subseteq m.timeline /\ files.log \subseteq m.log
      /\ Cardinality(OutOf(m.items, files.timeline)) <= crashes + 1
  BY DEF Writing, ServeInv
<1>6. /\ files'.items = IF x = "items" THEN m.items ELSE files.items
      /\ files'.timeline = IF x = "timeline" THEN m.timeline ELSE files.timeline
      /\ files'.log = IF x = "log" THEN m.log ELSE files.log
      /\ files'.outbox = IF x = "outbox" THEN m.outbox ELSE files.outbox
  BY <1>2 DEF Field
<1> HIDE DEF m, W, V
<1>7. Cardinality(OutOf(m.items, m.timeline)) <= crashes + 1
  <2>1. Cardinality(OutOf(m.items, m.timeline)) <= crashes /\ crashes \in Nat
        /\ DOMAIN m.items \subseteq Item
    BY <1>5 DEF Sound, LoneInv
  <2>2. Cardinality(OutOf(m.items, m.timeline)) \in Nat
    BY <2>1, OutOfFinite
  <2> QED  BY <2>1, <2>2
<1>8. /\ x # "items" /\ x # "timeline" => files.timeline = m.timeline
      /\ x = "outbox" => files.log = m.log
      /\ x # "items" => files.items = m.items
  BY <1>3, <1>4
<1>9. /\ DOMAIN files'.items \subseteq Item
      /\ \A i \in DOMAIN files'.items : "status" \in DOMAIN files'.items[i]
      /\ Numbered(files'.timeline, seq)
  BY <1>5, <1>6 DEF Sound
<1>10. files'.timeline \subseteq m.timeline /\ files'.log \subseteq m.log
  BY <1>5, <1>6
<1>11. \A r \in files'.log : \E e \in files'.timeline : e.seq = r.seq /\ e.item = r.item
  <2>1. files.timeline \subseteq files'.timeline
    BY <1>5, <1>6
  <2>2. CASE x = "log"
    BY <1>5, <1>6, <1>8, <2>2 DEF Sound, Trail
  <2>3. CASE x # "log"
    <3>1. \A r \in files.log : \E e \in files.timeline : e.seq = r.seq /\ e.item = r.item
      BY <1>5 DEF Sound, Trail
    <3> QED  BY <1>6, <2>1, <2>3, <3>1
  <2> QED  BY <2>2, <2>3
<1>12. \A o \in files'.outbox : o.type \in RequestNotes =>
           \E r \in files'.log : r.seq = o.seq /\ r.item = o.item
  <2>1. files.log \subseteq files'.log
    BY <1>5, <1>6
  <2>2. CASE x = "outbox"
    <3>1. files'.outbox = m.outbox /\ files'.log = m.log
      BY <1>6, <1>8, <2>2
    <3> QED  BY <1>5, <3>1 DEF Sound, Trail
  <2>3. CASE x # "outbox"
    <3>1. \A o \in files.outbox : o.type \in RequestNotes =>
              \E r \in files.log : r.seq = o.seq /\ r.item = o.item
      BY <1>5 DEF Sound, Trail
    <3> QED  BY <1>6, <2>1, <2>3, <3>1
  <2> QED  BY <2>2, <2>3
<1>13. /\ Cardinality(OutOf(files'.items, files'.timeline)) <= crashes + 1
       /\ Cardinality(OutOf(m.items, files'.timeline)) <= crashes + 1
  <2>1. Cardinality(OutOf(files.items, files.timeline)) <= crashes + 1
    BY <1>5 DEF Sound
  <2>2. CASE x = "items"
    BY <1>5, <1>6, <2>2
  <2>3. CASE x = "timeline"
    BY <1>6, <1>7, <1>8, <2>3
  <2>4. CASE x # "items" /\ x # "timeline"
    BY <1>5, <1>6, <2>1, <2>4
  <2> QED  BY <2>2, <2>3, <2>4
<1>14. Trail(files')
  BY <1>11, <1>12 DEF Trail
<1> QED  BY <1>9, <1>10, <1>13, <1>14 DEF Sound, m

\* Later numbers and more deaths allow as much.
LEMMA SoundGrows ==
    ASSUME IsFiniteSet(Item), NEW f, NEW n \in Nat, NEW m \in Nat, n <= m,
           NEW k \in Nat, NEW l \in Nat, k <= l, Sound(f, n, k)
    PROVE  Sound(f, m, l)
<1>1. DOMAIN f.items \subseteq Item /\ Cardinality(OutOf(f.items, f.timeline)) <= k
  BY DEF Sound
<1>2. Cardinality(OutOf(f.items, f.timeline)) \in Nat
  BY <1>1, OutOfFinite
<1>3. Cardinality(OutOf(f.items, f.timeline)) <= l
  BY <1>1, <1>2
<1>4. Numbered(f.timeline, m)
  BY DEF Sound, Numbered
<1> QED  BY <1>3, <1>4 DEF Sound

\* The planner rewrites the outbox only, with notes whose audit rows are there.
LEMMA PlanWrites ==
    ASSUME NEW p, Proc = {p}, LoneInv(p), DeathInv(p), pc[p] = "writing", Write(p),
           req[p].op = "plan"
    PROVE  /\ UNCHANGED <<settled, intact>> /\ Rests'
           /\ files'.log = files.log
<1>0. Writing(p)
  BY DEF DeathInv
<1>1. Head(todo[p]) = "outbox"
  <2>1. Range(todo[p]) \subseteq {"outbox"}
    BY <1>0, FilesOf DEF Writing
  <2> QED  BY <2>1, RangeIs DEF LoneInv
<1>2. UNCHANGED <<settled, intact, seq, crashes>>
  <2>1. settled \in BOOLEAN /\ intact \in BOOLEAN
    BY DEF DeathInv
  <2> QED  BY <2>1 DEF Write
<1>3. /\ files'.items = files.items /\ files'.timeline = files.timeline
      /\ files'.index = files.index /\ files'.gate = files.gate /\ files'.log = files.log
      /\ files'.outbox = mem[p].outbox
  BY <1>1, FileWritten DEF Field
<1>4. (settled /\ files.gate # None => Consistent(files)) /\ (intact => Sound(files, seq, crashes))
      /\ (intact => Noted(p))
  BY <1>0 DEF Writing, PlanInv, Rests
<1>5. settled' /\ files'.gate # None => Consistent(files')
  BY <1>2, <1>3, <1>4 DEF Consistent
<1>6. ASSUME intact PROVE Sound(files', seq, crashes)
  BY <1>3, <1>4, <1>6 DEF Sound, Trail, Noted
<1>7. intact' => Sound(files', seq', crashes')
  BY <1>2, <1>6
<1>8. Rests'
  BY <1>5, <1>7 DEF Rests, Consistent, Sound
<1> QED  BY <1>2, <1>3, <1>8

\* A write that is not the last of its request.
LEMMA NextWrite ==
    ASSUME IsFiniteSet(Item), NEW p, Proc = {p}, LoneInv(p), DeathInv(p), Write(p),
           Len(todo[p]) > 1
    PROVE  DeathInv(p)'
<1>1. /\ pc[p] = "writing" /\ todo' = [todo EXCEPT ![p] = Tail(todo[p])]
      /\ UNCHANGED <<pc, req, mem, settled, intact, seq, crashes>>
  BY DEF Write
<1>2. Writing(p) /\ todo'[p] = Tail(todo[p])
  BY <1>1 DEF DeathInv, LoneInv
<1> DEFINE op == req[p].op
           x == Head(todo[p])
           V == Range(Tail(todo[p]))
<1>3. /\ x \in Field /\ Range(todo[p]) = {x} \cup V
      /\ Sorted(op, Tail(todo[p])) /\ "items" \notin V
  BY <1>1, <1>2, NextFile
<1>4. \A y \in Field : files'[y] = IF y = x THEN mem[p][y] ELSE files[y]
  BY FileWritten
<1>5. \A y \in Range(Writes(op)) \ V : files'[y] = mem[p][y]
  <2>1. Range(Writes(op)) \subseteq Field
    BY <1>2, OpsAre, FilesOf DEF Writing, Field
  <2>2. \A y \in Range(Writes(op)) \ Range(todo[p]) : files[y] = mem[p][y]
    BY <1>2 DEF Writing
  <2> QED  BY <1>3, <1>4, <2>1, <2>2
<1>6. req[p] \in Request /\ V \subseteq Range(Writes(op))
  BY <1>2, <1>3 DEF Writing
<1> HIDE DEF x
<1>7. ASSUME op = "plan" PROVE PlanInv(p)'
  <2>1. Rests' /\ files'.log = files.log
    BY <1>1, <1>7, PlanWrites, <1>2
  <2>2. intact => Noted(p)
    BY <1>2, <1>7 DEF Writing, PlanInv
  <2> QED  BY <1>1, <2>1, <2>2 DEF PlanInv, Noted
<1>8. ASSUME op = "bootstrap" PROVE ResetInv(p)'
  <2>1. Consistent(mem[p]) /\ Sound(mem[p], seq, crashes)
    BY <1>2, <1>8 DEF Writing, ResetInv
  <2> QED  BY <1>1, <1>2, <1>3, <2>1 DEF ResetInv, Consistent, Sound
<1>9. ASSUME op \notin {"plan", "bootstrap"} PROVE ServeInv(p)'
  <2>1. Consistent(mem[p]) /\ (intact => Sound(mem[p], seq, crashes))
    BY <1>2, <1>9 DEF Writing, ServeInv
  <2>2. intact =>
            /\ Sound(files', seq, crashes + 1)
            /\ files'.timeline \subseteq mem[p].timeline /\ files'.log \subseteq mem[p].log
            /\ Cardinality(OutOf(mem[p].items, files'.timeline)) <= crashes + 1
    BY <1>1, <1>2, <1>9, ServeWrites
  <2> QED  BY <1>1, <2>1, <2>2 DEF ServeInv, Consistent, Sound
<1>10. Writing(p)'
  BY <1>1, <1>2, <1>3, <1>5, <1>6, <1>7, <1>8, <1>9 DEF Writing
<1> QED  BY <1>1, <1>10 DEF DeathInv

\* The last write of a request: its files are all there.
LEMMA LastWrite ==
    ASSUME NEW p, Proc = {p}, LoneInv(p), DeathInv(p), Write(p), ~(Len(todo[p]) > 1)
    PROVE  DeathInv(p)'
<1>1. /\ pc[p] = "writing" /\ pc' = [pc EXCEPT ![p] = "idle"]
      /\ req' = [req EXCEPT ![p] = NoRequest] /\ UNCHANGED <<seq, crashes>>
      /\ settled' = (settled \/ req[p].op # "plan")
      /\ intact' = (intact \/ req[p].op = "bootstrap")
  BY DEF Write
<1>2. Writing(p) /\ pc'[p] = "idle" /\ req'[p] = NoRequest
  BY <1>1 DEF DeathInv, LoneInv
<1>3. settled' \in BOOLEAN /\ intact' \in BOOLEAN
  BY <1>1
<1>4. CASE req[p].op = "plan"
  <2>1. Rests'
    BY <1>1, <1>2, <1>4, PlanWrites
  <2> QED  BY <1>2, <1>3, <2>1 DEF DeathInv
<1>5. CASE req[p].op # "plan"
  <2>1. Consistent(mem[p]) /\ (intact' => Sound(mem[p], seq, crashes))
    BY <1>1, <1>2, <1>5 DEF Writing, ResetInv, ServeInv, DeathInv
  <2>2. Consistent(files') /\ (intact' => Sound(files', seq, crashes))
    BY <1>1, <1>2, <1>5, <2>1, AllWritten
  <2>3. Rests'
    BY <1>1, <2>2 DEF Rests, Consistent, Sound
  <2> QED  BY <1>2, <1>3, <2>3 DEF DeathInv
<1> QED  BY <1>4, <1>5

\* A death between two writes.
LEMMA DeathRests ==
    ASSUME IsFiniteSet(Item), NEW p, Proc = {p}, LoneInv(p), DeathInv(p), Crash(p)
    PROVE  DeathInv(p)'
<1> DEFINE x == Head(todo[p])
<1>1. /\ pc[p] = "writing" /\ pc' = [pc EXCEPT ![p] = "idle"]
      /\ req' = [req EXCEPT ![p] = NoRequest] /\ UNCHANGED seq
      /\ crashes' = crashes + 1 /\ settled' = FALSE
      /\ \/ files' = files /\ intact' = (intact /\ ~(req[p].op = "bootstrap" /\ x # "items"))
         \/ intact' = FALSE
  BY DEF Crash
<1>2. Writing(p) /\ pc'[p] = "idle" /\ req'[p] = NoRequest
  BY <1>1 DEF DeathInv, LoneInv
<1>3. x \in Range(todo[p])
  BY <1>1, RangeIs DEF LoneInv
<1> HIDE DEF x
<1>4. ASSUME intact' PROVE Sound(files', seq', crashes')
  <2>1. files' = files /\ intact /\ (req[p].op = "bootstrap" => x = "items")
    BY <1>1, <1>4
  <2>2. seq \in Nat /\ crashes \in Nat /\ seq <= seq /\ crashes <= crashes + 1
    BY DEF LoneInv
  <2>3. Sound(files, seq, crashes) \/ Sound(files, seq, crashes + 1)
    BY <1>2, <1>3, <2>1 DEF Writing, PlanInv, ResetInv, ServeInv, Rests
  <2>4. Sound(files, seq, crashes + 1)
    BY <2>2, <2>3, SoundGrows
  <2> QED  BY <1>1, <2>1, <2>4
<1>5. Rests'
  BY <1>1, <1>4 DEF Rests, Sound
<1>6. settled' \in BOOLEAN /\ intact' \in BOOLEAN
  BY <1>1
<1> QED  BY <1>2, <1>5, <1>6 DEF DeathInv

-----------------------------------------------------------------------------
(* The request is computed: what it will write is as sound as what it read. *)

LEMMA ServeComputed ==
    ASSUME IsFiniteSet(Item), NEW p, Proc = {p}, LoneInv(p), Rests, pc[p] = "reading",
           todo[p] = << >>, req[p].op \in {"assign", "due", "submit", "transition", "verify"},
           NEW h, h = Result(req[p], mem[p], clock, seq)
    PROVE  /\ Consistent(h)
           /\ intact => /\ Sound(h, seq + 2, crashes) /\ Sound(files, seq + 2, crashes + 1)
                        /\ files.timeline \subseteq h.timeline /\ files.log \subseteq h.log
                        /\ Cardinality(OutOf(h.items, files.timeline)) <= crashes + 1
<1> DEFINE r == req[p]
           f == mem[p]
<1>1. /\ r \in Request /\ f.items = files.items /\ Allowed(r, f.items)
      /\ f.timeline = files.timeline /\ f.log = files.log /\ f.outbox = files.outbox
      /\ IsWorkspace(f) /\ seq \in Nat /\ crashes \in Nat
  <2>1. Range(todo[p]) = {}
    BY DEF Range
  <2>2. {"timeline", "log", "outbox"} \subseteq Range(Reads(r.op))
    BY FilesOf
  <2>3. /\ r \in Request /\ f.items = files.items /\ Allowed(r, f.items)
        /\ \A x \in Range(Reads(r.op)) : f[x] = files[x]
    BY <2>1 DEF LoneInv, Reading
  <2> QED  BY <2>2, <2>3 DEF LoneInv
<1> HIDE DEF r, f
<1>2. PICK items, events, evidence, row, notes :
          /\ h = Served(f, items, clock, events, evidence, row, notes)
          /\ HasStatus(f.items) =>
                 r.item \in DOMAIN f.items /\ Touches(f, items, events, row, notes, r.item, seq)
  BY <1>1, RequestServes DEF r, f
<1>3. Consistent(h)
  BY <1>2, ServedConsistent
<1>4. ASSUME intact
      PROVE  /\ Sound(h, seq + 2, crashes) /\ Sound(files, seq + 2, crashes + 1)
             /\ files.timeline \subseteq h.timeline /\ files.log \subseteq h.log
             /\ Cardinality(OutOf(h.items, files.timeline)) <= crashes + 1
  <2>1. Sound(files, seq, crashes)
    BY <1>4 DEF Rests
  <2>2. Sound(f, seq, crashes) /\ HasStatus(f.items)
    BY <1>1, <2>1 DEF Sound, Trail, HasStatus
  <2>3. /\ Sound(h, seq + 2, crashes)
        /\ Cardinality(OutOf(items, f.timeline)) <= crashes + 1
    BY <1>1, <1>2, <2>2, ServedSound
  <2>4. /\ h.items = items /\ h.timeline = f.timeline \cup events /\ h.log = f.log \cup {row}
    BY <1>2 DEF Served
  <2>5. Sound(files, seq + 2, crashes + 1)
    <3>1. seq + 2 \in Nat /\ crashes + 1 \in Nat /\ seq <= seq + 2 /\ crashes <= crashes + 1
      BY <1>1
    <3> QED  BY <1>1, <2>1, <3>1, SoundGrows
  <2> QED  BY <1>1, <2>3, <2>4, <2>5
<1> QED  BY <1>3, <1>4

LEMMA PlanComputed ==
    ASSUME NEW p, Proc = {p}, LoneInv(p), Rests, pc[p] = "reading", todo[p] = << >>,
           req[p].op = "plan", intact, NEW h, h = Result(req[p], mem[p], clock, seq),
           NEW m \in h.outbox, m.type \in RequestNotes
    PROVE  \E r \in files.log : r.seq = m.seq /\ r.item = m.item
<1> DEFINE f == mem[p]
           I == PlanItems(req[p], f.items)
<1>1. f.outbox = files.outbox
  <2>1. Range(todo[p]) = {}
    BY DEF Range
  <2>2. "outbox" \in Range(Reads("plan"))
    BY FilesOf
  <2> QED  BY <2>1, <2>2 DEF LoneInv, Reading
<1>2. "outbox" \in DOMAIN f
  BY DEF LoneInv, IsWorkspace
<1>3. h = [f EXCEPT !.outbox = @ \cup Reminders(f.items, @, I, clock, seq)]
  BY DEF Result
<1> HIDE DEF f, I
<1>4. h.outbox = files.outbox \cup Reminders(f.items, f.outbox, I, clock, seq)
  BY <1>1, <1>2, <1>3
<1>5. \A q \in Reminders(f.items, f.outbox, I, clock, seq) : q.type \in DueNotes
  BY DEF Reminders, Notify
<1>6. m \in files.outbox
  BY <1>4, <1>5 DEF RequestNotes, DueNotes
<1> QED  BY <1>6 DEF Rests, Sound, Trail

LEMMA ComputeRests ==
    ASSUME IsFiniteSet(Item), NEW p, Proc = {p}, LoneInv(p), DeathInv(p), Compute(p)
    PROVE  DeathInv(p)'
<1> DEFINE r == req[p]
           h == Result(r, mem[p], clock, seq)
<1>1. /\ pc[p] = "reading" /\ todo[p] = << >>
      /\ mem' = [mem EXCEPT ![p] = h]
      /\ todo' = [todo EXCEPT ![p] = Writes(r.op)]
      /\ pc' = [pc EXCEPT ![p] = "writing"]
      /\ seq' = seq + 2 /\ UNCHANGED <<files, req, crashes, settled, intact>>
  BY DEF Compute
<1>2. /\ r \in Request /\ Rests /\ seq \in Nat /\ crashes \in Nat
      /\ settled \in BOOLEAN /\ intact \in BOOLEAN
  BY <1>1 DEF LoneInv, Reading, DeathInv
<1> HIDE DEF h
<1>3. mem'[p] = h /\ todo'[p] = Writes(r.op) /\ pc'[p] = "writing"
  BY <1>1 DEF LoneInv
<1>4. intact => Sound(files, seq + 2, crashes)
  <2>1. seq + 2 \in Nat /\ seq <= seq + 2 /\ crashes <= crashes
    BY <1>2
  <2> QED  BY <1>2, <2>1, SoundGrows DEF Rests
<1>5. Rests'
  BY <1>1, <1>2, <1>4 DEF Rests, Sound, Consistent
<1>6. ASSUME r.op = "plan" PROVE PlanInv(p)'
  <2>1. intact => \A m \in h.outbox : m.type \in RequestNotes =>
            \E q \in files.log : q.seq = m.seq /\ q.item = m.item
    BY <1>1, <1>2, <1>6, PlanComputed DEF h
  <2> QED  BY <1>1, <1>3, <1>5, <2>1 DEF PlanInv, Noted
<1>7. ASSUME r.op = "bootstrap" PROVE ResetInv(p)'
  <2>1. r.items \in SUBSET Item /\ h = BootstrapResult(r.items, clock, seq)
    BY <1>2, <1>7 DEF Request, Result, h
  <2>2. Consistent(h) /\ Sound(h, seq + 2, crashes)
    BY <1>2, <2>1, BootstrapSound
  <2> QED  BY <1>1, <1>3, <1>4, <2>2 DEF ResetInv, Consistent, Sound
<1>8. ASSUME r.op \notin {"plan", "bootstrap"} PROVE ServeInv(p)'
  <2>1. r.op \in {"assign", "due", "submit", "transition", "verify"}
    BY <1>2, <1>8, OpsAre
  <2>2. /\ Consistent(h)
        /\ intact => /\ Sound(h, seq + 2, crashes) /\ Sound(files, seq + 2, crashes + 1)
                     /\ files.timeline \subseteq h.timeline /\ files.log \subseteq h.log
                     /\ Cardinality(OutOf(h.items, files.timeline)) <= crashes + 1
    BY <1>1, <1>2, <2>1, ServeComputed DEF h
  <2> QED  BY <1>1, <1>3, <2>2 DEF ServeInv, Consistent, Sound
<1>9. Sorted(r.op, Writes(r.op))
  BY <1>2, WritesSorted
<1>10. Writing(p)'
  BY <1>1, <1>2, <1>3, <1>6, <1>7, <1>8, <1>9 DEF Writing
<1> QED  BY <1>1, <1>2, <1>3, <1>10 DEF DeathInv

\* A step that leaves the files alone.
LEMMA OtherSteps ==
    ASSUME NEW p, Proc = {p}, LoneInv(p), DeathInv(p),
           Begin(p) \/ Read(p) \/ WritersTick \/ UNCHANGED writersVars
    PROVE  DeathInv(p)'
<1>1. UNCHANGED <<files, seq, crashes, settled, intact>>
  BY DEF Begin, Read, WritersTick, writersVars
<1>2. CASE Begin(p) \/ Read(p)
  <2>1. /\ pc[p] # "writing" /\ pc'[p] # "writing"
        /\ pc'[p] = "idle" => req'[p] = NoRequest
    BY <1>2 DEF Begin, Read, LoneInv
  <2> QED  BY <1>1, <2>1 DEF DeathInv, Rests, Consistent, Sound
<1>3. CASE WritersTick \/ UNCHANGED writersVars
  <2>1. UNCHANGED <<pc, req, todo, mem>>
    BY <1>3 DEF WritersTick, writersVars
  <2> QED  BY <1>1, <2>1 DEF DeathInv, Writing, PlanInv, ResetInv, ServeInv, Noted, Rests,
           Consistent, Sound
<1> QED  BY <1>2, <1>3

LEMMA DeathStep ==
    ASSUME IsFiniteSet(Item), NEW p, Proc = {p}, LoneInv(p), DeathInv(p), [WritersNext]_writersVars
    PROVE  DeathInv(p)'
<1>1. CASE Begin(p) \/ Read(p) \/ WritersTick \/ UNCHANGED writersVars
  BY <1>1, OtherSteps
<1>2. CASE Compute(p)
  BY <1>2, ComputeRests
<1>3. CASE Write(p)
  BY <1>3, NextWrite, LastWrite
<1>4. CASE Crash(p)
  BY <1>4, DeathRests
<1> QED  BY <1>1, <1>2, <1>3, <1>4 DEF WritersNext

LEMMA DeathStart ==
    ASSUME NEW p, Proc = {p}, WritersInit PROVE DeathInv(p)
<1>1. files = NoFiles /\ seq = 0 /\ crashes = 0 /\ settled = TRUE /\ intact = TRUE
      /\ pc[p] = "idle" /\ req[p] = NoRequest
  BY DEF WritersInit
<1>2. /\ DOMAIN files.items = {} /\ files.timeline = {} /\ files.log = {}
      /\ files.outbox = {} /\ files.gate = None
  BY <1>1 DEF NoFiles
<1>3. OutOf(files.items, files.timeline) = {}
  BY <1>2 DEF OutOf
<1>4. Sound(files, seq, crashes)
  BY <1>1, <1>2, <1>3, FS_EmptySet DEF Sound, Trail, Numbered
<1> QED  BY <1>1, <1>2, <1>4 DEF DeathInv, Rests

-----------------------------------------------------------------------------

LEMMA DeathHolds ==
    ASSUME NEW CONSTANT p, Proc = {p}, IsFiniteSet(Item)
    PROVE  WritersSpec => [](LoneInv(p) /\ DeathInv(p))
<1>1. WritersInit => LoneInv(p) /\ DeathInv(p)
  BY LoneStart, DeathStart
<1>2. LoneInv(p) /\ DeathInv(p) /\ [WritersNext]_writersVars => LoneInv(p)' /\ DeathInv(p)'
  BY LoneStep, DeathStep
<1> QED  BY <1>1, <1>2, PTL DEF WritersSpec

\* With one process, whatever deaths came before, once a request has been
\* carried out in full the gate and the index on disk are those of the item
\* rows: recompute_lifecycle_artifacts repairs what a death left stale.
THEOREM WorkspaceSettles ==
    ASSUME NEW CONSTANT p, Proc = {p}, IsFiniteSet(Item)
    PROVE  WritersSpec => []SettledWorkspace
<1>1. DeathInv(p) => SettledWorkspace
  BY DEF DeathInv, Rests, Consistent, SettledWorkspace, Idle
<1> QED  BY <1>1, DeathHolds, PTL

\* With one process, at any point of any request and after any death between
\* two writes, an audit row has its ledger row and a notification of a request
\* its audit row: the service saves the ledger, the log and the outbox in
\* that order.
THEOREM TrailOrdered ==
    ASSUME NEW CONSTANT p, Proc = {p}, IsFiniteSet(Item)
    PROVE  WritersSpec => []TrailInOrder
<1>1. LoneInv(p) /\ DeathInv(p) => TrailInOrder
  <2> SUFFICES ASSUME LoneInv(p), DeathInv(p), intact, ~Resetting PROVE Trail(files)
    BY DEF TrailInOrder, Trail
  <2>1. CASE pc[p] # "writing"
    BY <2>1 DEF DeathInv, Rests, Sound
  <2>2. CASE pc[p] = "writing"
    <3>1. req[p].op # "bootstrap"
      BY DEF Resetting
    <3> QED  BY <2>2, <3>1 DEF DeathInv, Writing, PlanInv, ServeInv, Rests, Sound
  <2> QED  BY <2>1, <2>2
<1> QED  BY <1>1, DeathHolds, PTL

\* With one process, a death between two writes leaves at most one item whose
\* newest status row in the ledger does not say its status, and no request
\* adds another: the rows are saved right before the ledger.
THEOREM OneItemADeath ==
    ASSUME NEW CONSTANT p, Proc = {p}, IsFiniteSet(Item)
    PROVE  WritersSpec => []OneItemPerCrash
<1>1. LoneInv(p) /\ DeathInv(p) => OneItemPerCrash
  <2>1. OutOfStep = OutOf(files.items, files.timeline)
    BY DEF OutOfStep, StatusRows, OutOf, InStep, StatusIn
  <2> QED  BY <2>1 DEF OneItemPerCrash, Idle, DeathInv, Rests, Sound
<1> QED  BY <1>1, DeathHolds, PTL
=============================================================================
