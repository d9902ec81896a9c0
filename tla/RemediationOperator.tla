------------------------ MODULE RemediationOperator -------------------------
(***************************************************************************)
(* The remediation workspace as its users are to see it: every request of  *)
(* the operator service is served in one step.  This is what one API       *)
(* process does that is not interrupted: its handlers are coroutines that  *)
(* never await, so none runs between the reads and the writes of another.  *)
(* RemediationWriters takes the steps apart.                               *)
(***************************************************************************)
EXTENDS RemediationRequests

CONSTANTS MaxSeq,    \* bound on the rows the requests number
          MaxTime    \* bound on the clock

ASSUME BoundsAssumption == MaxSeq \in Nat /\ MaxTime \in Nat

VARIABLES files,     \* the contents of the seven workspace files
          clock,     \* seconds
          seq        \* number of the next ledger row (not in the code)

vars == <<files, clock, seq>>

Init == files = NoFiles /\ clock = 0 /\ seq = 0

\* A request takes two numbers, since a submission appends two events.
Serve(result) ==
    /\ seq < MaxSeq
    /\ files' = result
    /\ seq' = seq + 2
    /\ UNCHANGED clock

\* scripts/bootstrap_remediation_operator_workspace.py
Bootstrap == \E G \in SUBSET Item : Serve(BootstrapResult(G, clock, seq))

AssignOwner == \E u, o \in User, i \in Item :
    /\ AssignOwnerAllowed(files.items, u, i, o)
    /\ Serve(AssignOwnerResult(files, u, i, o, clock, seq))

SetDueDate == \E u \in User, i \in Item, d \in DueDate :
    /\ SetDueDateAllowed(files.items, u, i)
    /\ Serve(SetDueDateResult(files, u, i, d, clock, seq))

SubmitEvidence == \E u \in User, i \in Item, E \in SUBSET File :
    /\ TransitionAllowed(files.items, u, i, "EVIDENCE_SUBMITTED", E)
    /\ Serve(SubmitResult(files, u, i, E, clock, seq))

TransitionStatus == \E u \in User, i \in Item, to \in Status \ {"EVIDENCE_SUBMITTED"} :
    /\ TransitionAllowed(files.items, u, i, to, {})
    /\ Serve(TransitionResult(files, u, i, to, clock, seq))

ApplyVerificationResult == \E u \in User, i \in Item, passed \in BOOLEAN :
    /\ VerificationAllowed(files.items, u, i)
    /\ Serve(VerificationResult(files, u, i, passed, clock, seq))

\* POST /jobs/plan-due-notifications plans for the items of the caller's
\* tenant, scripts/run_remediation_due_notifications.py for all of them.
PlanFor(I) ==
    Serve([files EXCEPT
              !.outbox = @ \cup Reminders(files.items, @, I, clock, seq)])

PlanDueNotifications ==
    \/ \E u \in User : /\ RoleOf[u] \in PLANNER_ROLES
                       /\ PlanFor(TenantItems(files.items, u))
    \/ PlanFor(DOMAIN files.items)

Tick == clock < MaxTime /\ clock' = clock + 1 /\ UNCHANGED <<files, seq>>

Next ==
    \/ Bootstrap
    \/ AssignOwner
    \/ SetDueDate
    \/ SubmitEvidence
    \/ TransitionStatus
    \/ ApplyVerificationResult
    \/ PlanDueNotifications
    \/ Tick

Spec == Init /\ [][Next]_vars

-----------------------------------------------------------------------------

Items == DOMAIN files.items

Files == [items    : UNION {[D -> Row] : D \in SUBSET Item},
          timeline : SUBSET Event,
          index    : Index \cup {None},
          gate     : (SUBSET Item) \cup {None},
          evidence : SUBSET Metadata,
          log      : SUBSET LogRow,
          outbox   : SUBSET Note]

\* The values of the variables: the workspace files hold rows of their
\* declared shapes, and the clock and the row numbers are naturals.
TypeOK == files \in Files /\ clock \in Nat /\ seq \in Nat

\* e is the newest row of its item that changed a status.
IsNewest(e) ==
    /\ IsStatusEvent(e)
    /\ \A d \in files.timeline : d.item = e.item /\ IsStatusEvent(d) => d.seq <= e.seq

\* The ledger tells the state: the newest status row of an item says the
\* status the item has (remediation_lifecycle.py appends a row whenever it
\* writes a status, and nothing else writes one).
LedgerTellsStatus ==
    \A i \in Items : \E e \in files.timeline :
        e.item = i /\ IsNewest(e) /\ e.to = files.items[i].status

\* An item is CLOSED only by a passed verification of the very evidence it
\* carries: the newest status row of a closed item is a VERIFICATION_RESULT
\* over its evidence, which is not empty, has a metadata row for every file,
\* and was queued for verification earlier.
ClosedIsVerified ==
    \A i \in Items : files.items[i].status = "CLOSED" =>
        /\ files.items[i].evidence # {}
        /\ \A e \in files.items[i].evidence :
               \E m \in files.evidence : m.item = i /\ m.file = e
        /\ \E r, q \in files.timeline :
               /\ r.item = i /\ r.action = "VERIFICATION_RESULT" /\ IsNewest(r)
               /\ q.item = i /\ q.action = "VERIFICATION_QUEUED" /\ q.seq < r.seq
               /\ q.evidence = files.items[i].evidence
               /\ r.evidence = files.items[i].evidence

\* Nothing crosses a tenant boundary: an item is owned by a user of its own
\* tenant who may work on it, and its audit rows and notifications name users
\* of that tenant only (_require_same_tenant, assign_owner_api, the planner).
TenantIsolation ==
    /\ \A i \in Items : files.items[i].owner # None =>
           /\ UserTenant[files.items[i].owner] = TenantOf[i]
           /\ RoleOf[files.items[i].owner] \in MUTATION_ROLES
    /\ \A r \in files.log : UserTenant[r.actor] = TenantOf[r.item]
    /\ \A m \in files.outbox : \A u \in m.recipients : UserTenant[u] = TenantOf[m.item]

\* However often and for whomever the planner runs, an item gets one reminder
\* of a type a day (the event id of plan_due_notifications ends in the day).
OneReminderADay ==
    \A m1, m2 \in files.outbox :
        /\ m1.type \in DueNotes /\ m1.type = m2.type
        /\ m1.item = m2.item /\ Day(m1.at) = Day(m2.at)
        => m1 = m2

\* Between two bootstraps a status moves along the lifecycle only, whichever
\* request moves it: EVIDENCE_SUBMITTED is never left in the file, only a
\* verification leaves VERIFYING, and it alone closes.
StatusStep(from, to) ==
    \/ from = to
    \/ from = "OPEN"        /\ to = "IN_PROGRESS"
    \/ from = "IN_PROGRESS" /\ to \in {"OPEN", "VERIFYING"}
    \/ from = "VERIFYING"   /\ to \in {"CLOSED", "IN_PROGRESS"}
    \/ from = "CLOSED"      /\ to = "OPEN"

LifecycleOnly ==
    [][\/ Bootstrap
       \/ /\ DOMAIN files'.items = Items
          /\ \A i \in Items : StatusStep(files.items[i].status, files'.items[i].status)]_vars

\* Every STATUS_CHANGED row of the ledger names a transition that
\* VALID_TRANSITIONS allows, from its from_status to its to_status.
StatusRowsAreEdges ==
    \A e \in files.timeline :
        e.action = "STATUS_CHANGED" => e.to \in ValidTransitions(e.from)

\* Between two bootstraps the ledger, the audit log and the outbox only grow,
\* by rows newer than every row before: their rows are marked immutable.
LedgersOnlyGrow ==
    [][\/ Bootstrap
       \/ /\ files.timeline \subseteq files'.timeline
          /\ files.log \subseteq files'.log
          /\ files.outbox \subseteq files'.outbox
          /\ \A d \in files.timeline, e \in files'.timeline \ files.timeline :
                 d.seq < e.seq]_vars
=============================================================================
