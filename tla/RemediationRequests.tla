------------------------ MODULE RemediationRequests -------------------------
(***************************************************************************)
(* core/remediation_operator_service.py: who may ask for what, and the     *)
(* contents of the seven workspace files that a request computes.  Each    *)
(* request of the service is a pair of operators: XAllowed, its checks in  *)
(* terms of the item rows it read, and XResult, the file contents it then  *)
(* writes.  RemediationOperator serves a request in one step,              *)
(* RemediationWriters reads and writes one file at a time.                 *)
(*                                                                         *)
(* f is the workspace, a record with one field per file; t is the time in  *)
(* seconds and n numbers the first row the request appends.                *)
(***************************************************************************)
EXTENDS RemediationLifecycle

CONSTANTS
    Tenant,
    TenantOf,     \* the tenant of each item
    UserTenant,   \* the tenant of each user in the actor directory
    RoleOf        \* the role of each user in the actor directory

Role == {"ADMIN", "OWNER", "ANALYST", "VIEWER"}

ASSUME DirectoryAssumption ==
    /\ TenantOf \in [Item -> Tenant]
    /\ UserTenant \in [User -> Tenant]
    /\ RoleOf \in [User -> Role]

MUTATION_ROLES         == {"ADMIN", "OWNER", "ANALYST"}
OWNER_ASSIGNMENT_ROLES == {"ADMIN", "OWNER"}
VERIFICATION_ROLES     == {"ADMIN", "OWNER", "ANALYST"}
PLANNER_ROLES          == {"ADMIN", "OWNER"}

-----------------------------------------------------------------------------
(* The files.                                                               *)

LogActions == {"OWNER_ASSIGNED", "DUE_DATE_SET", "VERIFICATION_RESULT_APPLIED",
               "STATUS_IN_PROGRESS", "STATUS_OPEN", "STATUS_EVIDENCE_SUBMITTED"}

LogRow == [item : Item, actor : User, action : LogActions, at : Nat, seq : Nat]

RequestNotes == {"REMEDIATION_OWNER_ASSIGNED", "REMEDIATION_DUE_DATE_SET",
                 "REMEDIATION_EVIDENCE_SUBMITTED", "REMEDIATION_VERIFICATION_RESULT"}

DueNotes == {"REMEDIATION_OVERDUE", "REMEDIATION_DUE_SOON"}

Note == [item : Item, type : RequestNotes \cup DueNotes,
         recipients : SUBSET User, at : Nat, seq : Nat]

Metadata == [item : Item, file : File, by : User, at : Nat]

\* No file exists before the first bootstrap; a missing JSONL file reads as
\* no rows, and the index and the gate, which are only written, are None.
NoFiles == [items |-> [i \in {} |-> InitialRow], timeline |-> {}, index |-> None,
            gate |-> None, evidence |-> {}, log |-> {}, outbox |-> {}]

\* Every request that changes the rows writes the index and the gate of the
\* rows it computed (recompute_lifecycle_artifacts).
Recomputed(f, items, t) ==
    [f EXCEPT !.items = items, !.index = IndexOf(items, Day(t)),
              !.gate = Unresolved(items)]

Logged(u, i, action, t, n) ==
    [item |-> i, actor |-> u, action |-> action, at |-> t, seq |-> n]

Notify(i, type, users, t, n) ==
    [item |-> i, type |-> type, recipients |-> users, at |-> t, seq |-> n]

\* The owner if there is one, else the user who asked.
OwnerOr(items, i, u) == IF items[i].owner # None THEN {items[i].owner} ELSE {u}

-----------------------------------------------------------------------------
(* The checks.                                                              *)

\* _find_remediation and _require_same_tenant
InReach(items, u, i) == i \in DOMAIN items /\ TenantOf[i] = UserTenant[u]

\* _require_owner_or_privileged
OwnerOrPrivileged(items, u, i) ==
    \/ RoleOf[u] \in {"ADMIN", "OWNER"}
    \/ RoleOf[u] = "ANALYST" /\ items[i].owner = u

\* Mutant: the tenant of the new owner is not compared.
AssignOwnerAnyTenant(items, u, i, o) ==
    /\ RoleOf[u] \in OWNER_ASSIGNMENT_ROLES
    /\ InReach(items, u, i)
    /\ RoleOf[o] \in MUTATION_ROLES

AssignOwnerAllowed(items, u, i, o) ==
    /\ RoleOf[u] \in OWNER_ASSIGNMENT_ROLES
    /\ InReach(items, u, i)
    /\ UserTenant[o] = UserTenant[u]
    /\ RoleOf[o] \in MUTATION_ROLES

SetDueDateAllowed(items, u, i) ==
    /\ RoleOf[u] \in OWNER_ASSIGNMENT_ROLES
    /\ InReach(items, u, i)

TransitionAllowed(items, u, i, to, E) ==
    /\ RoleOf[u] \in MUTATION_ROLES
    /\ InReach(items, u, i)
    /\ OwnerOrPrivileged(items, u, i)
    /\ CanTransition(items[i], to, E)

VerificationAllowed(items, u, i) ==
    /\ RoleOf[u] \in VERIFICATION_ROLES
    /\ InReach(items, u, i)
    /\ items[i].status = "VERIFYING"

-----------------------------------------------------------------------------
(* The results.                                                             *)

\* bootstrap_from_generated_remediation: everything is reset to the rows of
\* the generated items.
BootstrapResult(G, t, n) ==
    [Recomputed(NoFiles, InitializeItems(G), t) EXCEPT
        !.timeline = InitializeTimeline(G, t, n)]

\* assign_owner_api
AssignOwnerResult(f, u, i, o, t, n) ==
    [Recomputed(f, [f.items EXCEPT ![i].owner = o], t) EXCEPT
        !.timeline = f.timeline \cup {OwnerEvent(i, u, t, n)},
        !.log = f.log \cup {Logged(u, i, "OWNER_ASSIGNED", t, n)},
        !.outbox = f.outbox \cup
            {Notify(i, "REMEDIATION_OWNER_ASSIGNED", {o}, t, n)}]

\* set_due_date_api
SetDueDateResult(f, u, i, d, t, n) ==
    [Recomputed(f, [f.items EXCEPT ![i].due = d], t) EXCEPT
        !.timeline = f.timeline \cup {DueEvent(i, u, t, n)},
        !.log = f.log \cup {Logged(u, i, "DUE_DATE_SET", t, n)},
        !.outbox = f.outbox \cup
            {Notify(i, "REMEDIATION_DUE_DATE_SET", OwnerOr(f.items, i, u), t, n)}]

\* _append_evidence_metadata, for every file of E: a row with the same item
\* and file is replaced.
WithMetadata(rows, u, i, E, t) ==
    {m \in rows : ~(m.item = i /\ m.file \in E)}
        \cup {[item |-> i, file |-> e, by |-> u, at |-> t] : e \in E}

\* Mutant: the event of the queued verification is left out.
SubmitUnqueued(f, u, i, E, t, n) ==
    [Recomputed(f, [f.items EXCEPT ![i] = Submitted(f.items[i], E)], t) EXCEPT
        !.timeline = f.timeline \cup
            {TransitionEvent(i, "EVIDENCE_SUBMITTED", u, E, t, n)},
        !.evidence = WithMetadata(f.evidence, u, i, E, t),
        !.log = f.log \cup {Logged(u, i, "STATUS_EVIDENCE_SUBMITTED", t, n)},
        !.outbox = f.outbox \cup
            {Notify(i, "REMEDIATION_EVIDENCE_SUBMITTED", OwnerOr(f.items, i, u), t, n)}]

\* transition_status_api, the EVIDENCE_SUBMITTED branch
SubmitResult(f, u, i, E, t, n) ==
    [Recomputed(f, [f.items EXCEPT ![i] = Submitted(f.items[i], E)], t) EXCEPT
        !.timeline = f.timeline \cup
            {TransitionEvent(i, "EVIDENCE_SUBMITTED", u, E, t, n),
             QueuedEvent(i, E, t, n + 1)},
        !.evidence = WithMetadata(f.evidence, u, i, E, t),
        !.log = f.log \cup {Logged(u, i, "STATUS_EVIDENCE_SUBMITTED", t, n)},
        !.outbox = f.outbox \cup
            {Notify(i, "REMEDIATION_EVIDENCE_SUBMITTED", OwnerOr(f.items, i, u), t, n)}]

\* transition_status_api, every other status: no notification, and the
\* evidence files of the request are ignored.
PlainAction(to) == IF to = "OPEN" THEN "STATUS_OPEN" ELSE "STATUS_IN_PROGRESS"

TransitionResult(f, u, i, to, t, n) ==
    [Recomputed(f, [f.items EXCEPT ![i] = Transitioned(f.items[i], to, {})], t) EXCEPT
        !.timeline = f.timeline \cup {TransitionEvent(i, to, u, {}, t, n)},
        !.log = f.log \cup {Logged(u, i, PlainAction(to), t, n)}]

\* apply_verification_result_api
VerificationResult(f, u, i, passed, t, n) ==
    [Recomputed(f, [f.items EXCEPT ![i] = Verified(f.items[i], passed)], t) EXCEPT
        !.timeline = f.timeline \cup
            {ResultEvent(i, passed, f.items[i].evidence, t, n)},
        !.log = f.log \cup {Logged(u, i, "VERIFICATION_RESULT_APPLIED", t, n)},
        !.outbox = f.outbox \cup
            {Notify(i, "REMEDIATION_VERIFICATION_RESULT", OwnerOr(f.items, i, u), t, n)}]

-----------------------------------------------------------------------------
(* core/remediation_due_planner.py                                          *)

\* The items of I that deserve a reminder of a type today: not closed, owned,
\* due within a week or overdue, and without such a reminder yet.
\* Mutant: the existing event ids are not looked up.
NeverNoted(outbox, i, type, today) == FALSE

AlreadyNoted(outbox, i, type, today) ==
    \E m \in outbox : m.item = i /\ m.type = type /\ Day(m.at) = today

ToRemind(items, outbox, I, type, today) ==
    {i \in I \cap (IF type = "REMEDIATION_OVERDUE"
                   THEN Overdue(items, today) ELSE DueSoon(items, today)) :
        /\ items[i].owner # None
        /\ ~AlreadyNoted(outbox, i, type, today)}

\* plan_due_notifications: the reminders it adds to the outbox.
Reminders(items, outbox, I, t, n) ==
    UNION {{Notify(i, type, {items[i].owner}, t, n) :
                i \in ToRemind(items, outbox, I, type, Day(t))} : type \in DueNotes}

TenantItems(items, u) == {i \in DOMAIN items : TenantOf[i] = UserTenant[u]}
=============================================================================
