------------------------ MODULE RemediationLifecycle ------------------------
(***************************************************************************)
(* The pure part of the remediation workspace: core/remediation_lifecycle. *)
(* A lifecycle row, the rows of the timeline ledger, and the functions     *)
(* that turn one list of rows into the next.  No file is touched here; the *)
(* operators are the in-memory computations that the services of           *)
(* RemediationRequests combine.                                            *)
(*                                                                         *)
(* Abstractions.  The rows of a file are a set, its sort order is left     *)
(* out; so are hashes, titles, details and notes (a note shorter than ten  *)
(* characters refuses the request and changes nothing).  seq is not in the *)
(* code: it numbers the rows in the order they are made, so that           *)
(* properties can speak of the newest one.                                 *)
(***************************************************************************)
EXTENDS Naturals

CONSTANTS
    Item,        \* remediation ids
    User,        \* user ids of the actor directory
    File,        \* evidence file ids
    DueDate,     \* due dates, as day numbers
    Blocking,    \* the items whose release_blocking flag is set
    DayLength,   \* clock ticks (seconds) in a day
    None         \* Python's None

Status == {"OPEN", "IN_PROGRESS", "EVIDENCE_SUBMITTED", "VERIFYING", "CLOSED"}

ASSUME LifecycleAssumption ==
    /\ Blocking \subseteq Item
    /\ DueDate \subseteq Nat
    /\ DayLength \in Nat \ {0}
    /\ None \notin User
    /\ None \notin DueDate
    /\ None \notin Status

\* VALID_TRANSITIONS: what transition_status lets a user ask for.
ValidTransitions(from) ==
    CASE from = "OPEN"               -> {"IN_PROGRESS"}
      [] from = "IN_PROGRESS"        -> {"EVIDENCE_SUBMITTED", "OPEN"}
      [] from = "EVIDENCE_SUBMITTED" -> {"IN_PROGRESS"}
      [] from = "VERIFYING"          -> {}
      [] from = "CLOSED"             -> {"OPEN"}

Row == [status   : Status,
        owner    : User \cup {None},
        due      : DueDate \cup {None},
        evidence : SUBSET File,
        closed   : BOOLEAN]              \* closed_at is not None

Actions == {"CREATED", "OWNER_ASSIGNED", "DUE_DATE_SET", "STATUS_CHANGED",
            "VERIFICATION_QUEUED", "VERIFICATION_RESULT"}

System == "tenet"                        \* the actor of SYSTEM events

Event == [item : Item, action : Actions, actor : User \cup {System},
          from : Status \cup {None}, to : Status \cup {None},
          evidence : SUBSET File, at : Nat, seq : Nat]

Day(t) == t \div DayLength

-----------------------------------------------------------------------------
(* initialize_lifecycle_items and initialize_timeline: the generated items  *)
(* are all OPEN, without owner, due date or evidence.                       *)

InitialRow == [status |-> "OPEN", owner |-> None, due |-> None,
               evidence |-> {}, closed |-> FALSE]

InitializeItems(G) == [i \in G |-> InitialRow]

InitializeTimeline(G, t, n) ==
    {[item |-> i, action |-> "CREATED", actor |-> System, from |-> None,
      to |-> "OPEN", evidence |-> {}, at |-> t, seq |-> n] : i \in G}

-----------------------------------------------------------------------------
(* The rows a lifecycle function appends to the timeline.                   *)

OwnerEvent(i, a, t, n) ==
    [item |-> i, action |-> "OWNER_ASSIGNED", actor |-> a, from |-> None,
     to |-> None, evidence |-> {}, at |-> t, seq |-> n]

DueEvent(i, a, t, n) ==
    [OwnerEvent(i, a, t, n) EXCEPT !.action = "DUE_DATE_SET"]

\* transition_status keeps a reference to the row it mutates (current_row is
\* row), so the event's from_status is read after status was overwritten:
\* from and to are both the new status.
TransitionEvent(i, to, a, E, t, n) ==
    [item |-> i, action |-> "STATUS_CHANGED", actor |-> a, from |-> to,
     to |-> to, evidence |-> E, at |-> t, seq |-> n]

QueuedEvent(i, E, t, n) ==
    [item |-> i, action |-> "VERIFICATION_QUEUED", actor |-> System,
     from |-> "EVIDENCE_SUBMITTED", to |-> "VERIFYING", evidence |-> E,
     at |-> t, seq |-> n]

Verdict(passed) == IF passed THEN "CLOSED" ELSE "IN_PROGRESS"

ResultEvent(i, passed, E, t, n) ==
    [item |-> i, action |-> "VERIFICATION_RESULT", actor |-> System,
     from |-> "VERIFYING", to |-> Verdict(passed), evidence |-> E,
     at |-> t, seq |-> n]

-----------------------------------------------------------------------------
(* The lifecycle functions on rows.                                         *)

\* Mutant: the files of a submission are not asked for.
CanTransitionUnevidenced(row, to, E) == to \in ValidTransitions(row.status)

\* transition_status refuses an edge that is not in VALID_TRANSITIONS and an
\* evidence submission without files.
CanTransition(row, to, E) ==
    /\ to \in ValidTransitions(row.status)
    /\ to = "EVIDENCE_SUBMITTED" => E # {}

\* transition_status: closed_at is dropped by every transition but one to
\* CLOSED; the evidence of the row is replaced only on submission.
Transitioned(row, to, E) ==
    [row EXCEPT !.status = to,
                !.evidence = IF to = "EVIDENCE_SUBMITTED" THEN E ELSE row.evidence,
                !.closed = (to = "CLOSED")]

\* submit_for_verification: the transition, then VERIFYING at once.
Submitted(row, E) ==
    [Transitioned(row, "EVIDENCE_SUBMITTED", E) EXCEPT !.status = "VERIFYING"]

\* apply_verification_result, allowed from VERIFYING only.
Verified(row, passed) ==
    [row EXCEPT !.status = Verdict(passed), !.closed = passed]

-----------------------------------------------------------------------------
(* recompute_lifecycle_artifacts: the gate is the set of unresolved release *)
(* blockers (PASS when it is empty); the index keeps the items behind each  *)
(* of its counters.                                                         *)

Unresolved(items) ==
    {i \in DOMAIN items : i \in Blocking /\ items[i].status # "CLOSED"}

DueIn7Days == 7

HasDue(items, i) == items[i].due # None /\ items[i].status # "CLOSED"

Overdue(items, today) ==
    {i \in DOMAIN items : HasDue(items, i) /\ items[i].due < today}

DueSoon(items, today) ==
    {i \in DOMAIN items : /\ HasDue(items, i)
                          /\ today <= items[i].due
                          /\ items[i].due <= today + DueIn7Days}

IndexOf(items, today) ==
    [byStatus |-> [s \in Status |-> {i \in DOMAIN items : items[i].status = s}],
     overdue  |-> Overdue(items, today),
     dueSoon  |-> DueSoon(items, today)]

Index == [byStatus : [Status -> SUBSET Item], overdue : SUBSET Item,
          dueSoon : SUBSET Item]

-----------------------------------------------------------------------------

IsStatusEvent(e) == e.to # None
=============================================================================
