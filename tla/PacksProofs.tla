----------------------------- MODULE PacksProofs -----------------------------
(***************************************************************************)
(* What holds of EvidencePacks for any threads, items, jobs and bounds.    *)
(* Types and jobs hold however requests overlap; the rest speaks of         *)
(* requests that take turns, where what a request has read is still what   *)
(* the file says.                                                          *)
(***************************************************************************)
EXTENDS EvidencePacks, FiniteSetTheorems, TLAPS

-----------------------------------------------------------------------------
(* What a request holds at each of its steps.                               *)

Fields == {"at", "job", "goal", "todo", "item", "copy", "detail", "flow", "run"}

Middle == Pending \ {"UPLOADED"}

\* The steps of a user's request, which are not the work of a job.
OfUsers == {"index", "manifest", "catalog", "brief", "count", "ensure", "update",
            "summary", "baseline", "decide", "submit"}

OfJobs == {"running", "list", "SUCCEEDED", "FAILED"}

\* The steps of the execution of a pack.
OfPack == {"corpus", "controls", "store", "reset", "reseed", "packed"}

Executing(r) ==
    r.at \in OfPack \/ (r.at = "seeds" /\ r.goal \in {"pack", "execute", "job"})

\* The step has a workflow that it read, or the number of the audit it stored.
HoldsFlow(r) ==
    \/ r.at \in {"readiness", "plan", "execute", "executed", "ensure", "summary"}
    \/ r.at = "seeds" /\ r.goal = "summary"
    \/ Executing(r) /\ r.goal # "pack"

HasStored(r) ==
    \/ r.at \in {"reset", "reseed", "packed", "executed"}
    \/ r.at = "seeds" /\ Executing(r)

OfFlow == {"refresh", "fetch", "readiness", "plan", "execute", "executed"}

Steps == OfUsers \cup OfJobs \cup OfPack \cup OfFlow \cup Pending \cup {"next", "seeds"}

Table == [Item -> Status \cup {Absent}]

\* The jobs that have a record.
Known == {j \in Job : jobs[j] # None}

\* There is an audit on file if the workflow f was executed.
Audited(f, audit) == f.execution # 0 => audit # None

Shape(r, known) ==
    /\ DOMAIN r = Fields
    /\ r.at \in Steps
    /\ r.todo \subseteq Item
    /\ r.job = None \/ r.job \in known
    /\ r.at \in OfUsers => r.job = None
    /\ r.at \in OfJobs => r.job # None
    /\ r.at \in {"index", "manifest", "catalog"} \cup Pending => r.item \in Item
    /\ r.at \in {"index"} \cup Pending => r.copy \in Table
    /\ r.at \in {"catalog", "store"} => r.copy \in SUBSET Item
    /\ r.at \in {"brief", "count"} => r.copy \in Nat
    /\ r.at = "count" => r.detail \in Detail
    /\ r.at = "submit" => r.copy \in known

ShapeOfFlow(r, audit) ==
    /\ r.at \in {"readiness", "plan"} => r.goal \in {"refresh", "execute", "job"}
    /\ r.at \in {"refresh", "execute"} => r.goal \in {"execute", "job"}
    /\ r.at = "fetch" => r.goal = "job"
    /\ HoldsFlow(r) => r.flow \in Flow /\ Audited(r.flow, audit)
    /\ Executing(r) => r.goal \in {"pack", "execute", "job"} /\ r.detail \in Detail
    /\ HasStored(r) => r.run \in 1..MaxStores /\ audit # None
    /\ r.at \in {"ensure", "summary"} => r.goal = "summary"
    /\ r.at = "ensure" => audit # None
    /\ r.at = "seeds" => r.goal \in {"pack", "execute", "job", "update", "summary"}
    /\ r.at = "seeds" /\ r.goal \in {"update", "summary"} => r.job = None
    /\ r.at \in {"seeds", "update", "summary"} => r.copy \in RemediationState
    /\ r.at \in {"baseline", "decide"} => r.copy \in ReviewState
    /\ r.at = "baseline" => r.goal \in {"decide", "view"}

Shaped(r, known, audit) ==
    r = Idle \/ (r # Idle /\ Shape(r, known) /\ ShapeOfFlow(r, audit))

FilesOK ==
    /\ TypeOK
    /\ pool \subseteq Known
    /\ flow # None => Audited(flow, stored)

Types ==
    /\ FilesOK
    /\ request = [t \in Thread |-> request[t]]
    /\ \A t \in Thread : Shaped(request[t], Known, stored)

\* Records and audits stay on file, so what was read stays in shape.
LEMMA StaysShaped ==
    ASSUME NEW r, NEW known, NEW known1, NEW audit, NEW audit1,
           Shaped(r, known, audit), known \subseteq known1,
           audit # None => audit1 # None
    PROVE  Shaped(r, known1, audit1)
<1>1. Shape(r, known) => Shape(r, known1)
  BY DEF Shape
<1>2. ShapeOfFlow(r, audit) => ShapeOfFlow(r, audit1)
  BY DEF ShapeOfFlow, Audited
<1> QED  BY <1>1, <1>2 DEF Shaped

\* A step of thread t keeps the types if it leaves t and the files in shape.
LEMMA StepTyped ==
    ASSUME Types, NEW t \in Thread, NEW m, request' = [request EXCEPT ![t] = m],
           stored # None => stored' # None, Known \subseteq Known',
           FilesOK', Shaped(m, Known', stored')
    PROVE  Types'
<1>1. request' = [s \in Thread |-> request'[s]]
  BY DEF Types
<1>2. ASSUME NEW s \in Thread PROVE Shaped(request'[s], Known', stored')
  <2>1. CASE s = t
    BY <2>1 DEF Types
  <2>2. CASE s # t
    <3>1. request'[s] = request[s]
      BY <2>2 DEF Types
    <3> QED  BY <3>1, StaysShaped DEF Types
  <2> QED  BY <2>1, <2>2
<1> QED  BY <1>1, <1>2 DEF Types

\* ... a step that writes nothing, if it leaves t in shape.
LEMMA QuietTyped ==
    ASSUME Types, NEW t \in Thread, NEW m, request' = [request EXCEPT ![t] = m],
           UNCHANGED <<packFiles, flow, runFiles, jobs, pool>>, Shaped(m, Known, stored)
    PROVE  Types'
<1>1. UNCHANGED <<Known, FilesOK>>
  BY DEF packFiles, runFiles, FilesOK, TypeOK, Known
<1>2. stored' = stored
  BY DEF runFiles
<1> QED  BY <1>1, <1>2, StepTyped DEF Types

\* A thread at a step other than "idle" has read and planned something.
LEMMA AtWork ==
    ASSUME Types, NEW t \in Thread, request[t].at # "idle"
    PROVE  Shape(request[t], Known) /\ ShapeOfFlow(request[t], stored)
  BY DEF Types, Shaped, Idle

LEMMA EndingShaped ==
    ASSUME NEW r, NEW known, NEW audit, Shape(r, known), NEW s \in {"SUCCEEDED", "FAILED"}
    PROVE  Shaped(Ending(r, s), known, audit)
<1>1. CASE r.job = None
  BY <1>1 DEF Ending, Shaped
<1>2. CASE r.job # None
  <2> DEFINE m == [NewRequest EXCEPT !.at = s, !.job = r.job]
  <2>1. DOMAIN m = Fields /\ m # Idle /\ m.at = s /\ m.job = r.job /\ m.todo = {}
    BY DEF NewRequest, Fields, Idle
  <2>2. Shape(m, known) /\ ShapeOfFlow(m, audit)
    BY <1>2, <2>1 DEF Shape, ShapeOfFlow, Steps, OfUsers, OfJobs, OfPack, OfFlow, Pending,
       Executing, HoldsFlow, HasStored
  <2> QED  BY <1>2, <2>1, <2>2 DEF Ending, Shaped
<1> QED  BY <1>1, <1>2

LEMMA EndShaped ==
    ASSUME Types, NEW t \in Thread, request[t].at # "idle"
    PROVE  /\ Shaped(Idle, Known, stored)
           /\ Shaped(Done(request[t]), Known, stored)
           /\ Shaped(Raised(request[t]), Known, stored)
  BY AtWork, EndingShaped DEF Done, Raised, Shaped

\* What a user sends is in shape when it has read files.
LEMMA ServedShaped ==
    ASSUME Types, NEW m, DOMAIN m = Fields, m.job = None, m.todo \subseteq Item,
           \/ m.at = "index" /\ m.item \in Item /\ m.copy = index
           \/ m.at = "next"
           \/ m.at = "readiness" /\ m.goal = "refresh" /\ m.flow = flow /\ flow # None
           \/ /\ m.at \in {"execute", "refresh"} /\ m.goal = "execute"
              /\ m.flow = flow /\ flow # None
           \/ m.at = "corpus" /\ m.goal = "pack" /\ m.detail = detail
           \/ /\ m.at = "ensure" /\ m.goal = "summary" /\ m.flow = flow /\ flow # None
              /\ stored # None
           \/ /\ m.at = "baseline" /\ m.goal \in {"decide", "view"}
              /\ m.copy \in ReviewState
           \/ m.at = "decide" /\ m.copy \in ReviewState
    PROVE  Shaped(m, Known, stored)
<1>1. m # Idle
  BY DEF Fields, Idle
<1>2. /\ index \in Table /\ detail \in Detail
      /\ flow # None => flow \in Flow /\ Audited(flow, stored)
  BY DEF Types, FilesOK, TypeOK, Table
<1>3. Shape(m, Known)
  BY <1>2 DEF Shape, Steps, OfUsers, OfJobs, OfPack, OfFlow, Pending
<1>4. ShapeOfFlow(m, stored)
  BY <1>2 DEF ShapeOfFlow, OfPack, Executing, HoldsFlow, HasStored
<1> QED  BY <1>1, <1>3, <1>4 DEF Shaped

LEMMA EnsuredShaped ==
    ASSUME Types, stored # None, NEW r, DOMAIN r = Fields, r.job = None, r.todo \subseteq Item,
           \/ r.goal = "update"
           \/ r.goal = "summary" /\ r.flow \in Flow /\ Audited(r.flow, stored)
    PROVE  Shaped(Ensured(r), Known, stored)
<1>1. Seeds \in RemediationState
  BY DEF Seeds, RemediationState, Types, FilesOK, TypeOK, Audit
<1> DEFINE m == Ensured(r)
<1>2. /\ DOMAIN m = Fields /\ m.at \in {"seeds", r.goal} /\ m.copy \in RemediationState
      /\ m.job = None /\ m.todo = r.todo /\ m.goal = r.goal /\ m.flow = r.flow
  BY <1>1 DEF Ensured, Fields, Types, FilesOK, TypeOK
<1>3. m # Idle
  BY <1>2 DEF Idle, Fields
<1> HIDE DEF m
<1>4. Shape(m, Known)
  BY <1>2 DEF Shape, Steps, OfUsers, OfJobs, OfPack, OfFlow, Pending
<1>5. ShapeOfFlow(m, stored)
  BY <1>2 DEF ShapeOfFlow, OfPack, Executing, HoldsFlow, HasStored
<1> QED  BY <1>3, <1>4, <1>5 DEF Shaped, m

\* What a request makes of what it has read, r, is in shape as m again.
LEMMA MovedShaped ==
    ASSUME NEW r, NEW m, NEW known, NEW audit, Shape(r, known), ShapeOfFlow(r, audit),
           DOMAIN m = Fields, m.job = r.job, m.todo \subseteq Item,
           \/ r.at = "index" /\ m.at = "manifest" /\ m.item = r.item
           \/ r.at = "manifest" /\ m.at = "catalog" /\ m.item = r.item /\ m.copy \in SUBSET Item
           \/ r.at = "catalog" /\ m.at = "brief" /\ m.copy \in Nat
           \/ r.at = "brief" /\ m.at = "count" /\ m.copy = r.copy /\ m.detail \in Detail
           \/ r.at = "next" /\ m.at \in {"next", "UPLOADED"}
              /\ (m.at = "UPLOADED" => m.item \in Item /\ m.copy \in Table)
           \/ r.at \in Pending /\ m.at \in Pending /\ m.item = r.item /\ m.copy \in Table
           \/ r.at \in Pending \cup {"list"} /\ m.at = "next"
           \/ r.at \in OfFlow \ {"executed"} /\ m.at \in {"readiness", "execute", "plan"}
              /\ m.goal = r.goal /\ m.flow \in Flow /\ Audited(m.flow, audit)
              /\ (m.at = "execute" => r.goal # "refresh")
           \/ r.at = "plan" /\ m.at = "fetch" /\ m.goal = "job"
           \/ r.at = "execute" /\ m.at = "corpus" /\ m.goal = r.goal /\ m.flow = r.flow
              /\ m.detail \in Detail
           \/ r.at = "corpus" /\ m.at = "controls" /\ m.goal = r.goal /\ m.flow = r.flow
              /\ m.detail = r.detail
           \/ r.at = "controls" /\ m.at = "store" /\ m.goal = r.goal /\ m.flow = r.flow
              /\ m.detail = r.detail /\ m.copy \in SUBSET Item
           \/ r.at = "reset" /\ m.at = "reseed" /\ m.goal = r.goal /\ m.flow = r.flow
              /\ m.detail = r.detail /\ m.run = r.run
           \/ r.at = "reseed" /\ m.at = "seeds" /\ m.goal = r.goal /\ m.flow = r.flow
              /\ m.detail = r.detail /\ m.run = r.run /\ m.copy \in RemediationState
           \/ r.at = "seeds" /\ m.at = "packed" /\ Executing(r) /\ m.goal = r.goal
              /\ m.flow = r.flow /\ m.detail = r.detail /\ m.run = r.run
           \/ r.at = "seeds" /\ ~Executing(r) /\ m.at = r.goal /\ m.goal = r.goal
              /\ m.flow = r.flow /\ m.copy = r.copy
           \/ r.at = "packed" /\ r.goal # "pack" /\ m.at = "executed" /\ m.flow = r.flow
              /\ m.run = r.run
           \/ r.at = "baseline" /\ m.at = "decide" /\ m.copy = r.copy
           \/ r.at = "running" /\ (m.at = "list" \/ (m.at = "refresh" /\ m.goal = "job"))
    PROVE  Shaped(m, known, audit)
<1>1. m # Idle
  BY DEF Fields, Idle
<1>2. Shape(m, known)
  BY DEF Shape, ShapeOfFlow, Executing, Steps, OfUsers, OfJobs, OfPack, OfFlow, Pending
<1>3. ShapeOfFlow(m, audit)
  BY DEF Shape, ShapeOfFlow, Pending, OfFlow, OfPack, Executing, HoldsFlow, HasStored
<1> QED  BY <1>1, <1>2, <1>3 DEF Shaped

-----------------------------------------------------------------------------
(* Types, step by step.                                                     *)

\* The requests of users that begin by reading.
LEMMA BeginTyped ==
    ASSUME Types, NEW t \in Thread,
           \/ \E e \in Item : Ingest(t, e)
           \/ \E items \in SUBSET Item : Process(t, items)
           \/ Refresh(t) \/ Execute(t) \/ ExecutePack(t)
           \/ Remediate(t) \/ RefreshRemediation(t) \/ Review(t)
    PROVE  Types'
<1> USE DEF Serve, Begin
<1> DEFINE Was(m) == /\ request' = [request EXCEPT ![t] = m]
                     /\ UNCHANGED <<packFiles, flow, runFiles, jobs, pool>>
<1>0. /\ flow # None => flow \in Flow /\ Audited(flow, stored)
      /\ review \in ReviewState \cup {None} /\ stored \in Audit \cup {None}
  BY DEF Types, FilesOK, TypeOK
<1>1. ASSUME NEW e \in Item, Ingest(t, e) PROVE Types'
  <2> DEFINE m == [NewRequest EXCEPT !.at = "index", !.item = e, !.copy = index]
  <2>1. /\ DOMAIN m = Fields /\ m.job = None /\ m.todo = {} /\ m.at = "index"
        /\ m.item = e /\ m.copy = index
    BY DEF NewRequest, Fields
  <2>2. Was(m)
    BY <1>1 DEF Ingest
  <2> HIDE DEF m
  <2> QED  BY <2>1, <2>2, ServedShaped, QuietTyped
<1>2. ASSUME NEW items \in SUBSET Item, Process(t, items) PROVE Types'
  <2> DEFINE m == [NewRequest EXCEPT !.at = "next", !.todo = items]
  <2>1. DOMAIN m = Fields /\ m.job = None /\ m.todo = items /\ m.at = "next"
    BY DEF NewRequest, Fields
  <2>2. Was(m)
    BY <1>2 DEF Process
  <2> HIDE DEF m
  <2> QED  BY <2>1, <2>2, ServedShaped, QuietTyped
<1>3. CASE Refresh(t)
  <2> DEFINE m == [NewRequest EXCEPT !.at = "readiness", !.goal = "refresh", !.flow = flow]
  <2>1. /\ DOMAIN m = Fields /\ m.job = None /\ m.todo = {} /\ m.at = "readiness"
        /\ m.goal = "refresh" /\ m.flow = flow
    BY DEF NewRequest, Fields
  <2>2. Was(m) /\ flow # None
    BY <1>3 DEF Refresh
  <2> HIDE DEF m
  <2> QED  BY <2>1, <2>2, ServedShaped, QuietTyped
<1>4. CASE Execute(t)
  <2> DEFINE m == [NewRequest EXCEPT !.at = IF flow.planned THEN "execute" ELSE "refresh",
                                     !.goal = "execute", !.flow = flow]
  <2>1. /\ DOMAIN m = Fields /\ m.job = None /\ m.todo = {} /\ m.at \in {"execute", "refresh"}
        /\ m.goal = "execute" /\ m.flow = flow
    BY DEF NewRequest, Fields
  <2>2. Was(m) /\ flow # None
    BY <1>4 DEF Execute
  <2> HIDE DEF m
  <2> QED  BY <2>1, <2>2, ServedShaped, QuietTyped
<1>5. CASE ExecutePack(t)
  <2> DEFINE m == [NewRequest EXCEPT !.at = "corpus", !.goal = "pack", !.detail = detail]
  <2>1. /\ DOMAIN m = Fields /\ m.job = None /\ m.todo = {} /\ m.at = "corpus"
        /\ m.goal = "pack" /\ m.detail = detail
    BY DEF NewRequest, Fields
  <2>2. Was(m)
    BY <1>5 DEF ExecutePack
  <2> HIDE DEF m
  <2> QED  BY <2>1, <2>2, ServedShaped, QuietTyped
<1>6. CASE Remediate(t)
  <2> DEFINE r == [NewRequest EXCEPT !.goal = "update"]
  <2>1. DOMAIN r = Fields /\ r.job = None /\ r.todo = {} /\ r.goal = "update"
    BY DEF NewRequest, Fields
  <2>2. Was(Ensured(r)) /\ stored # None
    BY <1>6 DEF Remediate
  <2> HIDE DEF r
  <2> QED  BY <2>1, <2>2, EnsuredShaped, QuietTyped
<1>7. CASE RefreshRemediation(t)
  <2> DEFINE m == [NewRequest EXCEPT !.at = "ensure", !.goal = "summary", !.flow = flow]
  <2>1. /\ DOMAIN m = Fields /\ m.job = None /\ m.todo = {} /\ m.at = "ensure"
        /\ m.goal = "summary" /\ m.flow = flow
    BY DEF NewRequest, Fields
  <2>2. Was(m) /\ flow # None /\ stored # None
    BY <1>0, <1>7 DEF RefreshRemediation, Audited
  <2> HIDE DEF m
  <2> QED  BY <2>1, <2>2, ServedShaped, QuietTyped
<1>8. CASE Review(t)
  <2>1. PICK goal \in {"decide", "view"} :
            /\ stored # None
            /\ Was(IF review = None
                   THEN [NewRequest EXCEPT !.at = "baseline", !.goal = goal,
                                           !.copy = [of |-> stored.n, decided |-> FALSE]]
                   ELSE [NewRequest EXCEPT !.at = "decide", !.copy = review])
    BY <1>8 DEF Review
  <2>2. CASE review = None
    <3> DEFINE c == [of |-> stored.n, decided |-> FALSE]
               m == [NewRequest EXCEPT !.at = "baseline", !.goal = goal, !.copy = c]
    <3>1. c \in ReviewState
      BY <1>0, <2>1 DEF Audit, ReviewState
    <3>2. Was(m)
      BY <2>1, <2>2
    <3> HIDE DEF c
    <3>3. /\ DOMAIN m = Fields /\ m.job = None /\ m.todo = {} /\ m.at = "baseline"
          /\ m.goal = goal /\ m.copy = c
      BY DEF NewRequest, Fields
    <3> HIDE DEF m
    <3> QED  BY <3>1, <3>2, <3>3, ServedShaped, QuietTyped
  <2>3. CASE review # None
    <3> DEFINE m == [NewRequest EXCEPT !.at = "decide", !.copy = review]
    <3>1. /\ DOMAIN m = Fields /\ m.job = None /\ m.todo = {} /\ m.at = "decide"
          /\ m.copy = review
      BY DEF NewRequest, Fields
    <3>2. Was(m)
      BY <2>1, <2>3
    <3> HIDE DEF m
    <3> QED  BY <1>0, <2>3, <3>1, <3>2, ServedShaped, QuietTyped
  <2> QED  BY <2>2, <2>3
<1> QED  BY <1>1, <1>2, <1>3, <1>4, <1>5, <1>6, <1>7, <1>8

\* The steps that read a file, or none.
LEMMA ReadTyped ==
    ASSUME Types, NEW t \in Thread,
           \/ ReadManifest(t) \/ ReadSummary(t) \/ ReadItem(t) \/ EndProcessing(t)
           \/ ReadWorkflow(t) \/ ReadReadiness(t) \/ ReadPack(t) \/ ReadCorpus(t)
           \/ ReadControls(t) \/ ReadFindings(t) \/ ReadItems(t) \/ ListItems(t)
    PROVE  Types'
<1> USE DEF Step
<1> DEFINE r == request[t]
           Was(m) == /\ request' = [request EXCEPT ![t] = m]
                     /\ UNCHANGED <<packFiles, flow, runFiles, jobs, pool>>
<1>0. /\ index \in Table /\ catalog \in SUBSET Item /\ detail \in Detail
      /\ stored \in Audit \cup {None}
      /\ flow # None => flow \in Flow /\ Audited(flow, stored)
  BY DEF Types, FilesOK, TypeOK, Table
<1>q. ASSUME NEW m, Was(m), Shaped(m, Known, stored) PROVE Types'
  BY <1>q, QuietTyped
<1>m. ASSUME r.at # "idle"
      PROVE  Shape(r, Known) /\ ShapeOfFlow(r, stored) /\ DOMAIN r = Fields /\ r.todo \subseteq Item
  BY <1>m, AtWork DEF Shape
<1>e. ASSUME r.at # "idle"
      PROVE  /\ Shaped(Idle, Known, stored) /\ Shaped(Done(r), Known, stored)
             /\ Shaped(Raised(r), Known, stored)
  BY <1>e, EndShaped
<1>1. CASE ReadManifest(t)
  <2> DEFINE m == [r EXCEPT !.at = "catalog", !.copy = catalog]
  <2>1. r.at = "manifest" /\ (Was(Idle) \/ Was(m))
    BY <1>1 DEF ReadManifest
  <2>2. Shaped(m, Known, stored)
    <3>1. /\ DOMAIN m = Fields /\ m.job = r.job /\ m.todo = r.todo /\ m.at = "catalog"
          /\ m.item = r.item /\ m.copy = catalog
      BY <1>m, <2>1 DEF Fields
    <3> HIDE DEF m
    <3> QED  BY <1>0, <1>m, <2>1, <3>1, MovedShaped
  <2> HIDE DEF m
  <2> QED  BY <1>q, <1>e, <2>1, <2>2
<1>2. CASE ReadSummary(t)
  <2> DEFINE m == [r EXCEPT !.at = "count", !.detail = detail]
  <2>1. r.at = "brief" /\ Was(m)
    BY <1>2 DEF ReadSummary
  <2>2. Shaped(m, Known, stored)
    <3>1. /\ DOMAIN m = Fields /\ m.job = r.job /\ m.todo = r.todo /\ m.at = "count"
          /\ m.copy = r.copy /\ m.detail = detail
      BY <1>m, <2>1 DEF Fields
    <3>2. r.copy \in Nat
      BY <1>m, <2>1 DEF Shape
    <3> HIDE DEF m
    <3> QED  BY <1>0, <1>m, <2>1, <3>1, <3>2, MovedShaped
  <2> HIDE DEF m
  <2> QED  BY <1>q, <2>1, <2>2
<1>3. CASE ReadItem(t)
  <2>1. PICK e \in r.todo : LET n == [r EXCEPT !.todo = @ \ {e}] IN
            Was(IF index[e] = Absent THEN n
                ELSE [n EXCEPT !.at = "UPLOADED", !.item = e, !.copy = index])
    BY <1>3 DEF ReadItem
  <2>2. r.at = "next"
    BY <1>3 DEF ReadItem
  <2> DEFINE n == [r EXCEPT !.todo = @ \ {e}]
             m == [n EXCEPT !.at = "UPLOADED", !.item = e, !.copy = index]
  <2>3. /\ DOMAIN n = Fields /\ n.job = r.job /\ n.todo = r.todo \ {e} /\ n.at = "next"
    BY <1>m, <2>2 DEF Fields
  <2>4. Was(n) \/ Was(m)
    BY <2>1
  <2> HIDE DEF n
  <2>5. /\ DOMAIN m = Fields /\ m.job = r.job /\ m.todo = r.todo \ {e} /\ m.at = "UPLOADED"
        /\ m.item = e /\ m.copy = index
    BY <2>3 DEF Fields
  <2>6. e \in Item /\ r.todo \ {e} \subseteq Item
    BY <1>m, <2>2
  <2> HIDE DEF m
  <2>7. Shaped(n, Known, stored)
    BY <1>m, <2>2, <2>3, <2>6, MovedShaped
  <2>8. Shaped(m, Known, stored)
    BY <1>0, <1>m, <2>2, <2>5, <2>6, MovedShaped
  <2> QED  BY <1>q, <2>4, <2>7, <2>8
<1>4. CASE EndProcessing(t)
  <2>1. r.at = "next" /\ Was(Done(r))
    BY <1>4 DEF EndProcessing
  <2> QED  BY <1>q, <1>e, <2>1
<1>5. CASE ReadWorkflow(t)
  <2>1. PICK x \in {<<"refresh", "readiness">>, <<"fetch", "execute">>} :
            /\ r.at = x[1]
            /\ Was(IF flow = None THEN Raised(r) ELSE [r EXCEPT !.at = x[2], !.flow = flow])
    BY <1>5 DEF ReadWorkflow
  <2>2. r.at \in {"refresh", "fetch"} /\ x[2] = IF r.at = "refresh" THEN "readiness" ELSE "execute"
    BY <2>1
  <2> DEFINE m == [r EXCEPT !.at = x[2], !.flow = flow]
  <2>3. Was(Raised(r)) \/ (flow # None /\ Was(m))
    BY <2>1
  <2>4. ASSUME flow # None PROVE Shaped(m, Known, stored)
    <3>1. /\ DOMAIN m = Fields /\ m.job = r.job /\ m.todo = r.todo /\ m.at = x[2]
          /\ m.goal = r.goal /\ m.flow = flow
      BY <1>m, <2>2 DEF Fields
    <3>2. m.at = "execute" => r.goal # "refresh"
      BY <1>m, <2>2, <3>1 DEF ShapeOfFlow
    <3>3. r.at \in OfFlow \ {"executed"} /\ m.at \in {"readiness", "execute"}
      BY <2>2, <3>1 DEF OfFlow
    <3> HIDE DEF m
    <3> QED  BY <1>0, <1>m, <2>2, <2>4, <3>1, <3>2, <3>3, MovedShaped
  <2> HIDE DEF m
  <2> QED  BY <1>q, <1>e, <2>2, <2>3, <2>4
<1>6. CASE ReadReadiness(t)
  <2> DEFINE s == IF CorpusReady(index) THEN "READY_FOR_EXECUTION" ELSE "BLOCKED_BY_READINESS"
             m == [r EXCEPT !.at = "plan", !.flow.planned = TRUE, !.flow.status = s]
  <2>1. r.at = "readiness" /\ Was(m)
    BY <1>6 DEF ReadReadiness
  <2>2. s \in FlowStatus
    BY DEF FlowStatus
  <2>3. r.flow \in Flow /\ Audited(r.flow, stored)
    BY <1>m, <2>1 DEF ShapeOfFlow, HoldsFlow
  <2> HIDE DEF s
  <2>4. /\ DOMAIN m = Fields /\ m.job = r.job /\ m.todo = r.todo /\ m.at = "plan"
        /\ m.goal = r.goal
        /\ m.flow = [[r.flow EXCEPT !.planned = TRUE] EXCEPT !.status = s]
    BY <1>m, <2>1 DEF Fields
  <2>5. m.flow \in Flow /\ Audited(m.flow, stored)
    <3> DEFINE f == [r.flow EXCEPT !.planned = TRUE]
    <3>1. f \in Flow /\ f.execution = r.flow.execution
      BY <2>3 DEF Flow
    <3> HIDE DEF f
    <3>2. [f EXCEPT !.status = s] \in Flow /\ [f EXCEPT !.status = s].execution = f.execution
      BY <2>2, <3>1 DEF Flow
    <3>3. m.flow = [f EXCEPT !.status = s]
      BY <2>4 DEF f
    <3> QED  BY <2>3, <3>1, <3>2, <3>3 DEF Audited
  <2>6. r.at \in OfFlow \ {"executed"}
    BY <2>1 DEF OfFlow
  <2> HIDE DEF m
  <2> QED  BY <1>m, <1>q, <2>1, <2>4, <2>5, <2>6, MovedShaped
<1>7. CASE ReadPack(t)
  <2> DEFINE m == [r EXCEPT !.at = "corpus", !.detail = detail]
  <2>1. r.at = "execute" /\ (Was(m) \/ Was(Raised(r)))
    BY <1>7 DEF ReadPack
  <2>2. Shaped(m, Known, stored)
    <3>1. /\ DOMAIN m = Fields /\ m.job = r.job /\ m.todo = r.todo /\ m.at = "corpus"
          /\ m.goal = r.goal /\ m.flow = r.flow /\ m.detail = detail
      BY <1>m, <2>1 DEF Fields
    <3> HIDE DEF m
    <3> QED  BY <1>0, <1>m, <2>1, <3>1, MovedShaped
  <2> HIDE DEF m
  <2> QED  BY <1>q, <1>e, <2>1, <2>2
<1>8. CASE ReadCorpus(t)
  <2> DEFINE m == [r EXCEPT !.at = "controls"]
  <2>1. r.at = "corpus" /\ (Was(m) \/ Was(Raised(r)))
    BY <1>8 DEF ReadCorpus
  <2>2. Shaped(m, Known, stored)
    <3>1. /\ DOMAIN m = Fields /\ m.job = r.job /\ m.todo = r.todo /\ m.at = "controls"
          /\ m.goal = r.goal /\ m.flow = r.flow /\ m.detail = r.detail
      BY <1>m, <2>1 DEF Fields
    <3> HIDE DEF m
    <3> QED  BY <1>m, <2>1, <3>1, MovedShaped
  <2> HIDE DEF m
  <2> QED  BY <1>q, <1>e, <2>1, <2>2
<1>9. CASE ReadControls(t)
  <2> DEFINE m == [r EXCEPT !.at = "store", !.copy = catalog]
  <2>1. r.at = "controls" /\ Was(m)
    BY <1>9 DEF ReadControls
  <2>2. /\ DOMAIN m = Fields /\ m.job = r.job /\ m.todo = r.todo /\ m.at = "store"
        /\ m.goal = r.goal /\ m.flow = r.flow /\ m.detail = r.detail /\ m.copy = catalog
    BY <1>m, <2>1 DEF Fields
  <2> HIDE DEF m
  <2> QED  BY <1>0, <1>m, <1>q, <2>1, <2>2, MovedShaped
<1>10. CASE ReadFindings(t)
  <2> DEFINE m == [r EXCEPT !.at = "seeds", !.copy = Seeds]
  <2>1. r.at = "reseed" /\ Was(m)
    BY <1>10 DEF ReadFindings
  <2>2. stored # None
    BY <1>m, <2>1 DEF ShapeOfFlow, HasStored
  <2>3. Seeds \in RemediationState
    BY <1>0, <2>2 DEF Seeds, RemediationState, Audit
  <2>4. /\ DOMAIN m = Fields /\ m.job = r.job /\ m.todo = r.todo /\ m.at = "seeds"
        /\ m.goal = r.goal /\ m.flow = r.flow /\ m.detail = r.detail /\ m.run = r.run
        /\ m.copy = Seeds
    BY <1>m, <2>1 DEF Fields
  <2> HIDE DEF m
  <2> QED  BY <1>m, <1>q, <2>1, <2>3, <2>4, MovedShaped
<1>11. CASE ReadItems(t)
  <2>1. r.at = "ensure" /\ Was(Ensured(r))
    BY <1>11 DEF ReadItems
  <2>2. /\ stored # None /\ r.job = None /\ r.goal = "summary"
        /\ r.flow \in Flow /\ Audited(r.flow, stored)
    BY <1>m, <2>1 DEF Shape, ShapeOfFlow, HoldsFlow, OfUsers
  <2> QED  BY <1>m, <1>q, <2>1, <2>2, EnsuredShaped
<1>12. CASE ListItems(t)
  <2> DEFINE m == [r EXCEPT !.at = "next", !.todo = Indexed(index)]
  <2>1. r.at = "list" /\ Was(m)
    BY <1>12 DEF ListItems
  <2>2. DOMAIN m = Fields /\ m.job = r.job /\ m.todo = Indexed(index) /\ m.at = "next"
    BY <1>m, <2>1 DEF Fields
  <2>3. m.todo \subseteq Item
    BY <2>2 DEF Indexed
  <2> HIDE DEF m
  <2> QED  BY <1>m, <1>q, <2>1, <2>2, <2>3, MovedShaped
<1> QED
  BY <1>1, <1>2, <1>3, <1>4, <1>5, <1>6, <1>7, <1>8, <1>9, <1>10, <1>11, <1>12

\* ... a step that writes files but no audit and no job.
LEMMA WriteTypedBy ==
    ASSUME Types, NEW t \in Thread, NEW m, request' = [request EXCEPT ![t] = m],
           UNCHANGED <<stored, jobs, pool>>, Shaped(m, Known, stored),
           index' \in Table, catalog' \in SUBSET Item, detail' \in Detail,
           flow' # None => flow' \in Flow /\ Audited(flow', stored),
           review' \in ReviewState \cup {None},
           remediation' \in RemediationState \cup {None}
    PROVE  Types'
<1>1. Known' = Known
  BY DEF Known
<1>2. FilesOK'
  BY <1>1 DEF FilesOK, Types, TypeOK, Table
<1> QED  BY <1>1, <1>2, StepTyped

\* The steps that write a file of the pack or the workflow.
LEMMA PackWriteTyped ==
    ASSUME Types, NEW t \in Thread,
           \/ WriteIndex(t) \/ WriteCatalog(t) \/ WriteSummary(t) \/ WriteStatus(t)
           \/ WriteReadiness(t) \/ WriteExecuted(t) \/ WriteExecution(t)
           \/ WriteSummaryOfItems(t)
    PROVE  Types'
<1> USE DEF Step
<1> DEFINE r == request[t]
           Moves(m) == request' = [request EXCEPT ![t] = m]
<1>0. /\ index \in Table /\ catalog \in SUBSET Item /\ detail \in Detail
      /\ flow # None => flow \in Flow /\ Audited(flow, stored)
      /\ review \in ReviewState \cup {None} /\ remediation \in RemediationState \cup {None}
  BY DEF Types, FilesOK, TypeOK, Table
<1>m. ASSUME r.at # "idle"
      PROVE  Shape(r, Known) /\ ShapeOfFlow(r, stored) /\ DOMAIN r = Fields /\ r.todo \subseteq Item
  BY <1>m, AtWork DEF Shape
<1>e. ASSUME r.at # "idle"
      PROVE  /\ Shaped(Idle, Known, stored) /\ Shaped(Done(r), Known, stored)
             /\ Shaped(Raised(r), Known, stored)
  BY <1>e, EndShaped
<1>1. CASE WriteIndex(t)
  <2> DEFINE m == [r EXCEPT !.at = "manifest", !.copy = None]
  <2>1. /\ r.at = "index" /\ Moves(m) /\ index' = [r.copy EXCEPT ![r.item] = "UPLOADED"]
        /\ UNCHANGED <<catalog, detail, flow, runFiles, jobs, pool>>
    BY <1>1 DEF WriteIndex
  <2>2. /\ DOMAIN m = Fields /\ m.job = r.job /\ m.todo = r.todo /\ m.at = "manifest"
        /\ m.item = r.item
    BY <1>m, <2>1 DEF Fields
  <2> HIDE DEF m
  <2>3. Shaped(m, Known, stored)
    BY <1>m, <2>1, <2>2, MovedShaped
  <2>4. index' \in Table
    BY <1>m, <2>1 DEF Shape, Table, Status, Pending
  <2> QED  BY <1>0, <2>1, <2>3, <2>4, WriteTypedBy DEF runFiles
<1>2. CASE WriteCatalog(t)
  <2> DEFINE new == r.copy \cup {r.item}
             m == [r EXCEPT !.at = "brief", !.copy = Cardinality(new)]
  <2>1. /\ r.at = "catalog" /\ Moves(m) /\ catalog' = new
        /\ UNCHANGED <<index, detail, flow, runFiles, jobs, pool>>
    BY <1>2 DEF WriteCatalog
  <2>2. new \in SUBSET Item
    BY <1>m, <2>1 DEF Shape
  <2>3. Cardinality(new) \in Nat
    BY <2>2, FS_Subset, FS_CardinalityType, PackAssumption
  <2> HIDE DEF new
  <2>4. /\ DOMAIN m = Fields /\ m.job = r.job /\ m.todo = r.todo /\ m.at = "brief"
        /\ m.copy = Cardinality(new)
    BY <1>m, <2>1 DEF Fields
  <2> HIDE DEF m
  <2>5. Shaped(m, Known, stored)
    BY <1>m, <2>1, <2>3, <2>4, MovedShaped
  <2> QED  BY <1>0, <2>1, <2>2, <2>5, WriteTypedBy DEF runFiles
<1>3. CASE WriteSummary(t)
  <2>1. /\ r.at = "count" /\ Moves(Idle) /\ detail' = [r.detail EXCEPT !.count = r.copy]
        /\ UNCHANGED <<index, catalog, flow, runFiles, jobs, pool>>
    BY <1>3 DEF WriteSummary
  <2>2. detail' \in Detail
    BY <1>m, <2>1 DEF Shape, Detail
  <2> QED  BY <1>0, <1>e, <2>1, <2>2, WriteTypedBy DEF runFiles
<1>4. CASE WriteStatus(t)
  <2>1. PICK s \in After(r.at) : LET new == [r.copy EXCEPT ![r.item] = s] IN
            /\ Moves(IF s \in Pending THEN [r EXCEPT !.at = s, !.copy = new]
                     ELSE [r EXCEPT !.at = "next", !.item = None, !.copy = None])
            /\ index' = new
    BY <1>4 DEF WriteStatus
  <2>2. r.at \in Pending /\ UNCHANGED <<catalog, detail, flow, runFiles, jobs, pool>>
    BY <1>4 DEF WriteStatus
  <2>3. s \in Status /\ r.at # "idle"
    BY <2>1, <2>2 DEF After, Status, Pending, Failed
  <2> DEFINE new == [r.copy EXCEPT ![r.item] = s]
             m == [r EXCEPT !.at = s, !.copy = new]
             n == [r EXCEPT !.at = "next", !.item = None, !.copy = None]
  <2>4. new \in Table
    BY <1>m, <2>2, <2>3 DEF Shape, Table
  <2>5. index' = new /\ Moves(IF s \in Pending THEN m ELSE n)
    BY <2>1
  <2> HIDE DEF new
  <2>6. /\ DOMAIN m = Fields /\ m.job = r.job /\ m.todo = r.todo /\ m.at = s
        /\ m.item = r.item /\ m.copy = new
    BY <1>m, <2>3 DEF Fields
  <2>7. DOMAIN n = Fields /\ n.job = r.job /\ n.todo = r.todo /\ n.at = "next"
    BY <1>m, <2>3 DEF Fields
  <2> HIDE DEF m, n
  <2>8. s \in Pending => Shaped(m, Known, stored)
    BY <1>m, <2>2, <2>3, <2>4, <2>6, MovedShaped
  <2>9. Shaped(n, Known, stored)
    BY <1>m, <2>2, <2>3, <2>7, MovedShaped
  <2> QED  BY <1>0, <2>2, <2>4, <2>5, <2>8, <2>9, WriteTypedBy DEF runFiles
<1>5. CASE WriteReadiness(t)
  <2> DEFINE m == [r EXCEPT !.at = "execute"]
             n == [r EXCEPT !.at = "fetch"]
  <2>1. /\ r.at = "plan" /\ flow' = r.flow
        /\ Moves(CASE r.goal = "refresh" -> Done(r) [] r.goal = "execute" -> m
                   [] r.goal = "job" -> n)
        /\ UNCHANGED <<packFiles, runFiles, jobs, pool>>
    BY <1>5 DEF WriteReadiness
  <2>2. r.goal \in {"refresh", "execute", "job"} /\ r.flow \in Flow /\ Audited(r.flow, stored)
    BY <1>m, <2>1 DEF ShapeOfFlow, HoldsFlow
  <2>3. /\ DOMAIN m = Fields /\ m.job = r.job /\ m.todo = r.todo /\ m.at = "execute"
        /\ m.goal = r.goal /\ m.flow = r.flow
    BY <1>m, <2>1 DEF Fields
  <2>4. /\ DOMAIN n = Fields /\ n.job = r.job /\ n.todo = r.todo /\ n.at = "fetch"
        /\ n.goal = r.goal
    BY <1>m, <2>1 DEF Fields
  <2> HIDE DEF m, n
  <2>5. r.goal = "execute" => Shaped(m, Known, stored)
    BY <1>m, <2>1, <2>2, <2>3, MovedShaped DEF OfFlow
  <2>6. r.goal = "job" => Shaped(n, Known, stored)
    BY <1>m, <2>1, <2>2, <2>4, MovedShaped
  <2>7. PICK k : Moves(k) /\ Shaped(k, Known, stored)
    BY <1>e, <2>1, <2>2, <2>5, <2>6
  <2> QED  BY <1>0, <2>1, <2>2, <2>7, WriteTypedBy DEF runFiles, packFiles
<1>6. CASE WriteExecuted(t)
  <2>1. /\ r.at = "executed" /\ Moves(Done(r))
        /\ flow' = [r.flow EXCEPT !.status = "AUDIT_EXECUTED", !.execution = r.run]
        /\ UNCHANGED <<packFiles, runFiles, jobs, pool>>
    BY <1>6 DEF WriteExecuted
  <2>2. r.flow \in Flow /\ r.run \in 1..MaxStores /\ stored # None
    BY <1>m, <2>1 DEF ShapeOfFlow, HoldsFlow, HasStored
  <2>3. flow' \in Flow
    <3> DEFINE f == [r.flow EXCEPT !.status = "AUDIT_EXECUTED"]
    <3>1. f \in Flow
      BY <2>2 DEF Flow, FlowStatus
    <3> HIDE DEF f
    <3>2. [f EXCEPT !.execution = r.run] \in Flow
      BY <2>2, <3>1, PackAssumption DEF Flow
    <3> QED  BY <2>1, <3>2 DEF f
  <2> QED  BY <1>0, <1>e, <2>1, <2>2, <2>3, WriteTypedBy DEF runFiles, packFiles, Audited
<1>7. CASE WriteExecution(t)
  <2> DEFINE m == [r EXCEPT !.at = "executed"]
  <2>1. /\ r.at = "packed" /\ detail' = [r.detail EXCEPT !.execution = r.run]
        /\ Moves(IF r.goal = "pack" THEN Done(r) ELSE m)
        /\ UNCHANGED <<index, catalog, flow, runFiles, jobs, pool>>
    BY <1>7 DEF WriteExecution
  <2>2. r.detail \in Detail /\ r.run \in 1..MaxStores
    BY <1>m, <2>1 DEF ShapeOfFlow, HasStored, Executing, OfPack
  <2>3. detail' \in Detail
    BY <2>1, <2>2, PackAssumption DEF Detail
  <2>4. /\ DOMAIN m = Fields /\ m.job = r.job /\ m.todo = r.todo /\ m.at = "executed"
        /\ m.flow = r.flow /\ m.run = r.run
    BY <1>m, <2>1 DEF Fields
  <2> HIDE DEF m
  <2>5. r.goal # "pack" => Shaped(m, Known, stored)
    BY <1>m, <2>1, <2>4, MovedShaped
  <2> QED  BY <1>0, <1>e, <2>1, <2>3, <2>5, WriteTypedBy DEF runFiles
<1>8. CASE WriteSummaryOfItems(t)
  <2>1. /\ r.at = "summary" /\ Moves(Idle) /\ UNCHANGED <<packFiles, runFiles, jobs, pool>>
        /\ flow' = [r.flow EXCEPT !.status = IF r.copy.items THEN "REMEDIATION_ACTIVE"
                                             ELSE "COMPLETED_NO_REMEDIATION"]
    BY <1>8 DEF WriteSummaryOfItems
  <2>2. r.flow \in Flow /\ Audited(r.flow, stored)
    BY <1>m, <2>1 DEF ShapeOfFlow, HoldsFlow
  <2> DEFINE s == IF r.copy.items THEN "REMEDIATION_ACTIVE" ELSE "COMPLETED_NO_REMEDIATION"
  <2>3. s \in FlowStatus /\ flow' = [r.flow EXCEPT !.status = s]
    BY <2>1 DEF FlowStatus
  <2> HIDE DEF s
  <2>4. flow' \in Flow /\ Audited(flow', stored)
    BY <2>2, <2>3 DEF Flow, Audited
  <2> QED  BY <1>0, <1>e, <2>1, <2>4, WriteTypedBy DEF runFiles, packFiles
<1> QED  BY <1>1, <1>2, <1>3, <1>4, <1>5, <1>6, <1>7, <1>8

\* The steps that write a file of the run.
LEMMA RunWriteTyped ==
    ASSUME Types, NEW t \in Thread,
           \/ StoreAudit(t) \/ ResetReview(t) \/ WriteSeeds(t) \/ UpdateItem(t)
           \/ WriteBaseline(t) \/ WriteDecision(t)
    PROVE  Types'
<1> USE DEF Step
<1> DEFINE r == request[t]
           Moves(m) == request' = [request EXCEPT ![t] = m]
<1>0. /\ index \in Table /\ catalog \in SUBSET Item /\ detail \in Detail
      /\ flow # None => flow \in Flow /\ Audited(flow, stored)
      /\ stored \in Audit \cup {None}
      /\ review \in ReviewState \cup {None} /\ remediation \in RemediationState \cup {None}
  BY DEF Types, FilesOK, TypeOK, Table
<1>m. ASSUME r.at # "idle"
      PROVE  Shape(r, Known) /\ ShapeOfFlow(r, stored) /\ DOMAIN r = Fields /\ r.todo \subseteq Item
  BY <1>m, AtWork DEF Shape
<1>1. CASE StoreAudit(t)
  <2> DEFINE n == IF stored = None THEN 1 ELSE stored.n + 1
             m == [r EXCEPT !.at = "reset", !.run = n, !.copy = None]
  <2>1. PICK findings \in BOOLEAN :
            stored' = [n |-> n, evidence |-> r.copy, findings |-> findings]
    BY <1>1 DEF StoreAudit
  <2>2. /\ r.at = "store" /\ Moves(m) /\ n <= MaxStores
        /\ UNCHANGED <<packFiles, flow, review, remediation, jobs, pool>>
    BY <1>1 DEF StoreAudit
  <2>3. n \in 1..MaxStores
    BY <1>0, <2>2, PackAssumption DEF Audit
  <2> HIDE DEF n
  <2>4. stored' \in Audit
    BY <1>m, <2>1, <2>2, <2>3 DEF Audit, Shape
  <2>5. stored' # None
    BY <2>4, NoneIsNoValue
  <2>6. /\ DOMAIN m = Fields /\ m.job = r.job /\ m.todo = r.todo /\ m.at = "reset"
        /\ m.goal = r.goal /\ m.flow = r.flow /\ m.detail = r.detail /\ m.run = n
    BY <1>m, <2>2 DEF Fields
  <2> HIDE DEF m
  <2>7. Known' = Known
    BY <2>2 DEF Known
  <2>8. Shaped(m, Known, stored')
    <3>1. m # Idle
      BY <2>6 DEF Fields, Idle
    <3>2. Shape(m, Known)
      BY <1>m, <2>2, <2>6 DEF Shape, Steps, OfUsers, OfJobs, OfPack, OfFlow, Pending
    <3>3. ShapeOfFlow(m, stored')
      BY <1>m, <2>2, <2>3, <2>5, <2>6
         DEF ShapeOfFlow, OfPack, Executing, HoldsFlow, HasStored, Audited
    <3> QED  BY <3>1, <3>2, <3>3 DEF Shaped
  <2>9. FilesOK'
    BY <1>0, <2>2, <2>4, <2>5, <2>7
       DEF FilesOK, Types, TypeOK, packFiles, Audited
  <2> QED  BY <2>2, <2>5, <2>7, <2>8, <2>9, StepTyped
<1>2. CASE ResetReview(t)
  <2> DEFINE m == [r EXCEPT !.at = "reseed"]
  <2>1. /\ r.at = "reset" /\ Moves(m) /\ review' = None
        /\ UNCHANGED <<packFiles, flow, stored, remediation, jobs, pool>>
    BY <1>2 DEF ResetReview
  <2>2. /\ DOMAIN m = Fields /\ m.job = r.job /\ m.todo = r.todo /\ m.at = "reseed"
        /\ m.goal = r.goal /\ m.flow = r.flow /\ m.detail = r.detail /\ m.run = r.run
    BY <1>m, <2>1 DEF Fields
  <2> HIDE DEF m
  <2>3. Shaped(m, Known, stored)
    BY <1>m, <2>1, <2>2, MovedShaped
  <2> QED  BY <1>0, <2>1, <2>3, WriteTypedBy DEF packFiles
<1>3. CASE WriteSeeds(t)
  <2> DEFINE m == [r EXCEPT !.at = r.goal]
             n == [r EXCEPT !.at = "packed", !.copy = None]
  <2>1. /\ r.at = "seeds" /\ remediation' = r.copy
        /\ Moves(IF r.goal \in {"update", "summary"} THEN m ELSE n)
        /\ UNCHANGED <<packFiles, flow, stored, review, jobs, pool>>
    BY <1>3 DEF WriteSeeds
  <2>2. /\ r.copy \in RemediationState
        /\ r.goal \in {"pack", "execute", "job", "update", "summary"}
    BY <1>m, <2>1 DEF ShapeOfFlow
  <2>3. /\ DOMAIN m = Fields /\ m.job = r.job /\ m.todo = r.todo /\ m.at = r.goal
        /\ m.goal = r.goal /\ m.flow = r.flow /\ m.copy = r.copy
    BY <1>m, <2>1 DEF Fields
  <2>4. /\ DOMAIN n = Fields /\ n.job = r.job /\ n.todo = r.todo /\ n.at = "packed"
        /\ n.goal = r.goal /\ n.flow = r.flow /\ n.detail = r.detail /\ n.run = r.run
    BY <1>m, <2>1 DEF Fields
  <2> HIDE DEF m, n
  <2>5. Executing(r) <=> r.goal \notin {"update", "summary"}
    BY <2>1, <2>2 DEF Executing, OfPack
  <2>6. r.goal \in {"update", "summary"} => Shaped(m, Known, stored)
    BY <1>m, <2>1, <2>3, <2>5, MovedShaped
  <2>7. r.goal \notin {"update", "summary"} => Shaped(n, Known, stored)
    BY <1>m, <2>1, <2>4, <2>5, MovedShaped
  <2> QED  BY <1>0, <2>1, <2>2, <2>6, <2>7, WriteTypedBy DEF packFiles
<1>4. CASE UpdateItem(t)
  <2>1. /\ r.at = "update" /\ Moves(Idle)
        /\ remediation' \in {r.copy, remediation}
        /\ UNCHANGED <<packFiles, flow, stored, review, jobs, pool>>
    BY <1>4 DEF UpdateItem
  <2>2. r.copy \in RemediationState
    BY <1>m, <2>1 DEF ShapeOfFlow
  <2> QED  BY <1>0, <2>1, <2>2, WriteTypedBy DEF packFiles, Shaped
<1>5. CASE WriteBaseline(t)
  <2> DEFINE m == [r EXCEPT !.at = "decide"]
  <2>1. /\ r.at = "baseline" /\ Moves(IF r.goal = "view" THEN Idle ELSE m)
        /\ review' = r.copy
        /\ UNCHANGED <<packFiles, flow, stored, remediation, jobs, pool>>
    BY <1>5 DEF WriteBaseline
  <2>2. r.copy \in ReviewState
    BY <1>m, <2>1 DEF ShapeOfFlow
  <2>3. /\ DOMAIN m = Fields /\ m.job = r.job /\ m.todo = r.todo /\ m.at = "decide"
        /\ m.copy = r.copy
    BY <1>m, <2>1 DEF Fields
  <2> HIDE DEF m
  <2>4. Shaped(m, Known, stored) /\ Shaped(Idle, Known, stored)
    BY <1>m, <2>1, <2>3, MovedShaped DEF Shaped
  <2> QED  BY <1>0, <2>1, <2>2, <2>4, WriteTypedBy DEF packFiles
<1>6. CASE WriteDecision(t)
  <2>1. /\ r.at = "decide" /\ Moves(Idle) /\ review' = [r.copy EXCEPT !.decided = TRUE]
        /\ UNCHANGED <<packFiles, flow, stored, remediation, jobs, pool>>
    BY <1>6 DEF WriteDecision
  <2>2. review' \in ReviewState
    BY <1>m, <2>1 DEF ShapeOfFlow, ReviewState
  <2> QED  BY <1>0, <2>1, <2>2, WriteTypedBy DEF packFiles, Shaped
<1> QED  BY <1>1, <1>2, <1>3, <1>4, <1>5, <1>6

\* The steps that concern a job.
LEMMA JobTyped ==
    ASSUME Types, NEW t \in Thread,
           \/ \E j \in Job, type \in JobType : Submit(t, j, type)
           \/ \E j \in Job : Take(t, j)
           \/ Enqueue(t) \/ SaveRunning(t) \/ SaveJob(t)
    PROVE  Types'
<1> USE DEF Step, Serve, Begin
<1> DEFINE r == request[t]
           Moves(m) == request' = [request EXCEPT ![t] = m]
           Rest == <<packFiles, flow, runFiles>>
<1>0. TypeOK /\ pool \subseteq Known /\ (flow # None => Audited(flow, stored))
  BY DEF Types, FilesOK
<1>m. ASSUME r.at # "idle"
      PROVE  Shape(r, Known) /\ ShapeOfFlow(r, stored) /\ DOMAIN r = Fields /\ r.todo \subseteq Item
  BY <1>m, AtWork DEF Shape
<1>f. ASSUME UNCHANGED Rest, jobs' \in [Job -> JobRecord \cup {None}],
             Known \subseteq Known', pool' \subseteq Known'
      PROVE  FilesOK'
  <2>1. pool' \subseteq Job
    BY <1>f DEF Known
  <2> QED  BY <1>0, <1>f, <2>1 DEF FilesOK, TypeOK, packFiles, runFiles
<1>n. ASSUME NEW s, NEW j, s \in OfJobs, j \in Known
      PROVE  Shaped([NewRequest EXCEPT !.at = s, !.job = j], Known, stored)
  <2> DEFINE m == [NewRequest EXCEPT !.at = s, !.job = j]
  <2>1. DOMAIN m = Fields /\ m.at = s /\ m.job = j /\ m.todo = {}
    BY DEF NewRequest, Fields
  <2>2. m # Idle
    BY <1>n, <2>1 DEF Idle, OfJobs
  <2>3. j # None
    BY <1>n, NoneIsNoValue DEF Known
  <2> HIDE DEF m
  <2>4. Shape(m, Known)
    BY <1>n, <2>1, <2>3 DEF Shape, Steps, OfUsers, OfJobs, OfPack, OfFlow, Pending
  <2>5. ShapeOfFlow(m, stored)
    BY <1>n, <2>1 DEF ShapeOfFlow, OfJobs, OfPack, Executing, HoldsFlow, HasStored
  <2> QED  BY <2>2, <2>4, <2>5 DEF Shaped, m
<1>1. ASSUME NEW j \in Job, NEW type \in JobType, Submit(t, j, type) PROVE Types'
  <2> DEFINE m == [NewRequest EXCEPT !.at = "submit", !.copy = j]
             rec == [type |-> type, status |-> "PENDING"]
  <2>1. Moves(m) /\ jobs' = [jobs EXCEPT ![j] = rec] /\ UNCHANGED <<Rest, pool>>
    BY <1>1 DEF Submit
  <2>2. rec \in JobRecord /\ rec # None
    BY NoneIsNoValue DEF JobRecord
  <2> HIDE DEF rec
  <2>3. jobs' \in [Job -> JobRecord \cup {None}] /\ Known' = Known \cup {j}
    BY <1>0, <2>1, <2>2 DEF TypeOK, Known
  <2>4. DOMAIN m = Fields /\ m.job = None /\ m.todo = {} /\ m.at = "submit" /\ m.copy = j
    BY DEF NewRequest, Fields
  <2>5. m # Idle
    BY <2>4 DEF Idle
  <2> HIDE DEF m
  <2>6. Shape(m, Known')
    BY <2>3, <2>4 DEF Shape, Steps, OfUsers, OfJobs, OfPack, OfFlow, Pending
  <2>7. ShapeOfFlow(m, stored)
    BY <2>4 DEF ShapeOfFlow, OfPack, Executing, HoldsFlow, HasStored
  <2>8. FilesOK'
    BY <1>0, <1>f, <2>1, <2>3
  <2> QED  BY <2>1, <2>3, <2>5, <2>6, <2>7, <2>8, StepTyped DEF Shaped, runFiles
<1>2. ASSUME NEW j \in Job, Take(t, j) PROVE Types'
  <2> DEFINE m == [NewRequest EXCEPT !.at = "running", !.job = j]
  <2>1. /\ j \in pool /\ Moves(m) /\ pool' = pool \ {j} /\ UNCHANGED <<Rest, jobs>>
    BY <1>2 DEF Take
  <2>2. Shaped(m, Known, stored)
    <3>1. "running" \in OfJobs /\ j \in Known
      BY <1>0, <2>1 DEF OfJobs
    <3> QED  BY <1>n, <3>1
  <2>3. Known' = Known
    BY <2>1 DEF Known
  <2>4. FilesOK'
    BY <1>0, <1>f, <2>1, <2>3 DEF TypeOK
  <2> HIDE DEF m
  <2> QED  BY <2>1, <2>2, <2>3, <2>4, StepTyped DEF runFiles
<1>3. CASE Enqueue(t)
  <2>1. /\ r.at = "submit" /\ Moves(Idle) /\ pool' = pool \cup {r.copy}
        /\ UNCHANGED <<Rest, jobs>>
    BY <1>3 DEF Enqueue
  <2>2. r.copy \in Known
    BY <1>m, <2>1 DEF Shape
  <2>3. Known' = Known
    BY <2>1 DEF Known
  <2>4. FilesOK'
    BY <1>0, <1>f, <2>1, <2>2, <2>3 DEF TypeOK
  <2> QED  BY <2>1, <2>3, <2>4, StepTyped DEF runFiles, Shaped
<1>s. ASSUME NEW s, r.job \in Known, jobs' = [jobs EXCEPT ![r.job].status = s],
             s \in {"RUNNING", "SUCCEEDED", "FAILED"}
      PROVE  jobs' \in [Job -> JobRecord \cup {None}] /\ Known' = Known
  <2>1. jobs[r.job] \in JobRecord /\ r.job \in Job
    BY <1>0, <1>s DEF Known, TypeOK
  <2> DEFINE rec == [jobs[r.job] EXCEPT !.status = s]
  <2>2. rec \in JobRecord /\ rec # None
    BY <1>s, <2>1, NoneIsNoValue DEF JobRecord
  <2>3. jobs' = [jobs EXCEPT ![r.job] = rec]
    BY <1>s
  <2> HIDE DEF rec
  <2> QED  BY <1>0, <1>s, <2>1, <2>2, <2>3 DEF TypeOK, Known
<1>j. ASSUME r.at \in OfJobs PROVE r.job \in Known /\ r.at # "idle"
  <2>1. r.at # "idle"
    BY <1>j DEF OfJobs
  <2> QED  BY <1>j, <1>m, <2>1 DEF Shape
<1>4. CASE SaveRunning(t)
  <2> DEFINE m == [r EXCEPT !.at = "list"]
             n == [r EXCEPT !.at = "refresh", !.goal = "job"]
  <2>1. /\ r.at = "running" /\ (Moves(m) \/ Moves(n))
        /\ jobs' = [jobs EXCEPT ![r.job].status = "RUNNING"] /\ UNCHANGED <<Rest, pool>>
    BY <1>4 DEF SaveRunning
  <2>2. r.job \in Known
    BY <1>j, <2>1 DEF OfJobs
  <2>3. jobs' \in [Job -> JobRecord \cup {None}] /\ Known' = Known
    BY <1>s, <2>1, <2>2
  <2>4. DOMAIN m = Fields /\ m.job = r.job /\ m.todo = r.todo /\ m.at = "list"
    BY <1>m, <2>1 DEF Fields
  <2>5. /\ DOMAIN n = Fields /\ n.job = r.job /\ n.todo = r.todo /\ n.at = "refresh"
        /\ n.goal = "job"
    BY <1>m, <2>1 DEF Fields
  <2> HIDE DEF m, n
  <2>6. Shaped(m, Known, stored) /\ Shaped(n, Known, stored)
    BY <1>m, <2>1, <2>4, <2>5, MovedShaped
  <2>7. FilesOK'
    BY <1>0, <1>f, <2>1, <2>3
  <2> QED  BY <2>1, <2>3, <2>6, <2>7, StepTyped DEF runFiles
<1>5. CASE SaveJob(t)
  <2>1. PICK s \in {"SUCCEEDED", "FAILED"} :
            /\ r.at = s /\ Moves(Idle) /\ jobs' = [jobs EXCEPT ![r.job].status = s]
            /\ UNCHANGED <<Rest, pool>>
    BY <1>5 DEF SaveJob
  <2>2. r.job \in Known
    BY <1>j, <2>1 DEF OfJobs
  <2>3. jobs' \in [Job -> JobRecord \cup {None}] /\ Known' = Known
    BY <1>s, <2>1, <2>2
  <2>4. FilesOK'
    BY <1>0, <1>f, <2>1, <2>3
  <2> QED  BY <2>1, <2>3, <2>4, StepTyped DEF runFiles, Shaped
<1> QED  BY <1>1, <1>2, <1>3, <1>4, <1>5

LEMMA InitTyped == Init => Types
<1> SUFFICES ASSUME Init PROVE Types
  OBVIOUS
<1>1. index \in Table
  BY DEF Init, Table, Status, Pending
<1>2. catalog \in SUBSET Item /\ Cardinality(catalog) \in Nat
  <2>1. catalog \in SUBSET Item
    BY DEF Init, Indexed
  <2> QED  BY <2>1, FS_Subset, FS_CardinalityType, PackAssumption
<1>3. detail \in Detail
  BY <1>2, PackAssumption DEF Init, Detail
<1>4. FilesOK
  BY <1>1, <1>2, <1>3 DEF Init, FilesOK, TypeOK, Table
<1> QED  BY <1>4 DEF Types, Shaped, Init

LEMMA NextTyped == Types /\ [Next]_vars => Types'
<1> SUFFICES ASSUME Types, [Next]_vars PROVE Types'
  OBVIOUS
<1>1. CASE CreateWorkflow
  <2> DEFINE f == [status |-> "CREATED", planned |-> FALSE, execution |-> 0]
  <2>1. f \in Flow /\ Audited(f, stored)
    BY PackAssumption DEF Flow, FlowStatus, Audited
  <2>2. flow' = f /\ UNCHANGED <<packFiles, runFiles, jobs, pool, request>>
    BY <1>1 DEF CreateWorkflow
  <2> HIDE DEF f
  <2>3. FilesOK' /\ Known' = Known
    BY <2>1, <2>2 DEF FilesOK, Types, TypeOK, Known, packFiles, runFiles
  <2> QED  BY <2>2, <2>3 DEF Types, runFiles
<1>2. CASE Die
  <2>1. /\ request' = [t \in Thread |-> Idle] /\ pool' = {}
        /\ UNCHANGED <<packFiles, flow, runFiles, jobs>>
    BY <1>2 DEF Die
  <2>2. FilesOK'
    BY <2>1 DEF FilesOK, Types, TypeOK, Known, packFiles, runFiles
  <2> QED  BY <2>1, <2>2 DEF Types, Shaped
<1>3. ASSUME NEW t \in Thread, Continue(t) PROVE Types'
  BY <1>3, ReadTyped, PackWriteTyped, RunWriteTyped, JobTyped DEF Continue
<1>4. CASE UNCHANGED vars
  <2>1. UNCHANGED <<Known, FilesOK>>
    BY <1>4 DEF vars, packFiles, runFiles, Known, FilesOK, TypeOK
  <2> QED  BY <1>4, <2>1 DEF vars, runFiles, Types
<1> QED  BY <1>1, <1>2, <1>3, <1>4, BeginTyped, JobTyped DEF Next

\* Every file holds what its readers expect, however requests overlap and
\* wherever the process dies; and what a request holds is what it has read.
THEOREM TypesHold == Spec => []TypeOK
<1>1. Spec => []Types
  BY InitTyped, NextTyped, PTL DEF Spec
<1>2. Types => TypeOK
  BY DEF Types, FilesOK
<1> QED  BY <1>1, <1>2, PTL

-----------------------------------------------------------------------------
(* Jobs.                                                                    *)

\* A request that works for a job and goes on still works for it.
KeepsJob(r, m) == r.job = None \/ (m # Idle /\ m.job = r.job)

LEMMA EndingKeeps ==
    ASSUME NEW r, NEW s
    PROVE  KeepsJob(r, Ending(r, s))
<1> DEFINE m == [NewRequest EXCEPT !.at = s, !.job = r.job]
<1>1. DOMAIN m = Fields /\ m.job = r.job
  BY DEF NewRequest, Fields
<1>2. m # Idle
  BY <1>1 DEF Fields, Idle
<1> QED  BY <1>1, <1>2 DEF KeepsJob, Ending

LEMMA JobKept ==
    ASSUME Types, NEW t \in Thread, Continue(t),
           ~Enqueue(t), ~SaveRunning(t), ~SaveJob(t)
    PROVE  /\ request[t].at # "submit"
           /\ request' = [request EXCEPT ![t] = request'[t]]
           /\ UNCHANGED <<jobs, pool, deaths>>
           /\ KeepsJob(request[t], request'[t])
<1> DEFINE r == request[t]
           Was(m) == request' = [request EXCEPT ![t] = m]
<1> USE DEF Step, counters
<1>t. request = [s \in Thread |-> request[s]]
  BY DEF Types
<1>u. ASSUME r.at \in OfUsers PROVE KeepsJob(r, request'[t])
  <2>1. r.at # "idle"
    BY <1>u DEF OfUsers
  <2> QED  BY <1>u, <2>1, AtWork DEF KeepsJob, Shape
<1>f. ASSUME r.at # "idle" PROVE DOMAIN r = Fields
  BY <1>f, AtWork DEF Shape
<1>d. KeepsJob(r, Done(r)) /\ KeepsJob(r, Raised(r))
  BY EndingKeeps DEF Done, Raised
<1>1. CASE WriteIndex(t) \/ ReadManifest(t) \/ WriteCatalog(t) \/ ReadSummary(t)
           \/ WriteSummary(t) \/ UpdateItem(t) \/ WriteSummaryOfItems(t) \/ ReadItems(t)
           \/ WriteBaseline(t) \/ WriteDecision(t)
  BY <1>1, <1>t, <1>u DEF OfUsers, WriteIndex, ReadManifest, WriteCatalog, ReadSummary,
     WriteSummary, UpdateItem, WriteSummaryOfItems, ReadItems, WriteBaseline, WriteDecision
<1>g. ASSUME NEW m, r.at # "submit", request' = [request EXCEPT ![t] = m],
             UNCHANGED <<jobs, pool, deaths>>, KeepsJob(r, m)
      PROVE  /\ r.at # "submit" /\ request' = [request EXCEPT ![t] = request'[t]]
             /\ UNCHANGED <<jobs, pool, deaths>> /\ KeepsJob(r, request'[t])
  BY <1>g, <1>t
<1>2. CASE ReadItem(t)
  <2>1. r.at # "idle" /\ r.at # "submit" /\ UNCHANGED <<jobs, pool, deaths>>
    BY <1>2 DEF ReadItem
  <2>p. PICK e \in r.todo : LET k == [r EXCEPT !.todo = @ \ {e}] IN
            Was(IF index[e] = Absent THEN k
                ELSE [k EXCEPT !.at = "UPLOADED", !.item = e, !.copy = index])
    BY <1>2 DEF ReadItem
  <2> DEFINE n == [r EXCEPT !.todo = @ \ {e}]
             m == [n EXCEPT !.at = "UPLOADED", !.item = e, !.copy = index]
  <2>2. Was(n) \/ Was(m)
    BY <2>p
  <2>3. KeepsJob(r, n) /\ KeepsJob(r, m)
    BY <1>f, <2>1 DEF KeepsJob, Fields, Idle
  <2> HIDE DEF n, m
  <2> QED  BY <1>d, <1>g, <2>1, <2>2, <2>3
<1>3. CASE EndProcessing(t) \/ WriteExecuted(t)
  BY <1>3, <1>t, <1>d DEF EndProcessing, WriteExecuted
<1>4. CASE WriteStatus(t)
  <2>1. r.at # "idle" /\ r.at # "submit" /\ UNCHANGED <<jobs, pool, deaths>>
    BY <1>4 DEF WriteStatus, Pending
  <2>p. PICK s \in After(r.at) : LET new == [r.copy EXCEPT ![r.item] = s] IN
            Was(IF s \in Pending THEN [r EXCEPT !.at = s, !.copy = new]
                ELSE [r EXCEPT !.at = "next", !.item = None, !.copy = None])
    BY <1>4 DEF WriteStatus
  <2> DEFINE new == [r.copy EXCEPT ![r.item] = s]
             m == [r EXCEPT !.at = s, !.copy = new]
             n == [r EXCEPT !.at = "next", !.item = None, !.copy = None]
  <2>2. Was(m) \/ Was(n)
    BY <2>p
  <2> HIDE DEF new
  <2>3. KeepsJob(r, m) /\ KeepsJob(r, n)
    BY <1>f, <2>1 DEF KeepsJob, Fields, Idle
  <2> HIDE DEF m, n
  <2> QED  BY <1>d, <1>g, <2>1, <2>2, <2>3
<1>5. CASE ReadWorkflow(t)
  <2>1. r.at # "idle" /\ r.at # "submit" /\ UNCHANGED <<jobs, pool, deaths>>
    BY <1>5 DEF ReadWorkflow
  <2>p. PICK x \in {<<"refresh", "readiness">>, <<"fetch", "execute">>} :
            Was(IF flow = None THEN Raised(r) ELSE [r EXCEPT !.at = x[2], !.flow = flow])
    BY <1>5 DEF ReadWorkflow
  <2> DEFINE m == [r EXCEPT !.at = x[2], !.flow = flow]
  <2>2. Was(Raised(r)) \/ Was(m)
    BY <2>p
  <2>3. KeepsJob(r, m)
    BY <1>f, <2>1 DEF KeepsJob, Fields, Idle
  <2> HIDE DEF m
  <2> QED  BY <1>d, <1>g, <2>1, <2>2, <2>3
<1>6. CASE ReadReadiness(t)
  <2>1. r.at # "idle" /\ r.at # "submit" /\ UNCHANGED <<jobs, pool, deaths>>
    BY <1>6 DEF ReadReadiness
  <2> DEFINE new == IF CorpusReady(index) THEN "READY_FOR_EXECUTION" ELSE "BLOCKED_BY_READINESS"
             m == [r EXCEPT !.at = "plan", !.flow.planned = TRUE, !.flow.status = new]
  <2>2. Was(m)
    BY <1>6 DEF ReadReadiness
  <2> HIDE DEF new
  <2>3. KeepsJob(r, m)
    BY <1>f, <2>1 DEF KeepsJob, Fields, Idle
  <2> HIDE DEF m
  <2> QED  BY <1>d, <1>g, <2>1, <2>2, <2>3
<1>7. CASE WriteReadiness(t)
  <2>1. r.at # "idle" /\ r.at # "submit" /\ UNCHANGED <<jobs, pool, deaths>>
    BY <1>7 DEF WriteReadiness
  <2> DEFINE m == [r EXCEPT !.at = "execute"]
             n == [r EXCEPT !.at = "fetch"]
  <2>2. Was(CASE r.goal = "refresh" -> Done(r) [] r.goal = "execute" -> m [] r.goal = "job" -> n)
    BY <1>7 DEF WriteReadiness
  <2>3. KeepsJob(r, m) /\ KeepsJob(r, n)
    BY <1>f, <2>1 DEF KeepsJob, Fields, Idle
  <2>4. r.goal \in {"refresh", "execute", "job"}
    BY <1>7, AtWork DEF WriteReadiness, ShapeOfFlow
  <2> HIDE DEF m, n
  <2>5. Was(Done(r)) \/ Was(m) \/ Was(n)
    BY <2>2, <2>4
  <2> QED  BY <1>d, <1>g, <2>1, <2>3, <2>5
<1>8. CASE ReadPack(t)
  <2>1. r.at # "idle" /\ r.at # "submit" /\ UNCHANGED <<jobs, pool, deaths>>
    BY <1>8 DEF ReadPack
  <2> DEFINE m == [r EXCEPT !.at = "corpus", !.detail = detail]
  <2>2. Was(Raised(r)) \/ Was(m)
    BY <1>8 DEF ReadPack
  <2>3. KeepsJob(r, m)
    BY <1>f, <2>1 DEF KeepsJob, Fields, Idle
  <2> HIDE DEF m
  <2> QED  BY <1>d, <1>g, <2>1, <2>2, <2>3
<1>9. CASE ReadCorpus(t)
  <2>1. r.at # "idle" /\ r.at # "submit" /\ UNCHANGED <<jobs, pool, deaths>>
    BY <1>9 DEF ReadCorpus
  <2> DEFINE m == [r EXCEPT !.at = "controls"]
  <2>2. Was(Raised(r)) \/ Was(m)
    BY <1>9 DEF ReadCorpus
  <2>3. KeepsJob(r, m)
    BY <1>f, <2>1 DEF KeepsJob, Fields, Idle
  <2> HIDE DEF m
  <2> QED  BY <1>d, <1>g, <2>1, <2>2, <2>3
<1>10. CASE ReadControls(t)
  <2>1. r.at # "idle" /\ r.at # "submit" /\ UNCHANGED <<jobs, pool, deaths>>
    BY <1>10 DEF ReadControls
  <2> DEFINE m == [r EXCEPT !.at = "store", !.copy = catalog]
  <2>2. Was(m)
    BY <1>10 DEF ReadControls
  <2>3. KeepsJob(r, m)
    BY <1>f, <2>1 DEF KeepsJob, Fields, Idle
  <2> HIDE DEF m
  <2> QED  BY <1>d, <1>g, <2>1, <2>2, <2>3
<1>11. CASE StoreAudit(t)
  <2>1. r.at # "idle" /\ r.at # "submit" /\ UNCHANGED <<jobs, pool, deaths>>
    BY <1>11 DEF StoreAudit
  <2> DEFINE new == IF stored = None THEN 1 ELSE stored.n + 1
             m == [r EXCEPT !.at = "reset", !.run = new, !.copy = None]
  <2>2. Was(m)
    BY <1>11 DEF StoreAudit
  <2> HIDE DEF new
  <2>3. KeepsJob(r, m)
    BY <1>f, <2>1 DEF KeepsJob, Fields, Idle
  <2> HIDE DEF m
  <2> QED  BY <1>d, <1>g, <2>1, <2>2, <2>3
<1>12. CASE ResetReview(t)
  <2>1. r.at # "idle" /\ r.at # "submit" /\ UNCHANGED <<jobs, pool, deaths>>
    BY <1>12 DEF ResetReview
  <2> DEFINE m == [r EXCEPT !.at = "reseed"]
  <2>2. Was(m)
    BY <1>12 DEF ResetReview
  <2>3. KeepsJob(r, m)
    BY <1>f, <2>1 DEF KeepsJob, Fields, Idle
  <2> HIDE DEF m
  <2> QED  BY <1>d, <1>g, <2>1, <2>2, <2>3
<1>13. CASE ReadFindings(t)
  <2>1. r.at # "idle" /\ r.at # "submit" /\ UNCHANGED <<jobs, pool, deaths>>
    BY <1>13 DEF ReadFindings
  <2> DEFINE m == [r EXCEPT !.at = "seeds", !.copy = Seeds]
  <2>2. Was(m)
    BY <1>13 DEF ReadFindings
  <2>3. KeepsJob(r, m)
    BY <1>f, <2>1 DEF KeepsJob, Fields, Idle
  <2> HIDE DEF m
  <2> QED  BY <1>d, <1>g, <2>1, <2>2, <2>3
<1>14. CASE WriteExecution(t)
  <2>1. r.at # "idle" /\ r.at # "submit" /\ UNCHANGED <<jobs, pool, deaths>>
    BY <1>14 DEF WriteExecution
  <2> DEFINE m == [r EXCEPT !.at = "executed"]
  <2>2. Was(Done(r)) \/ Was(m)
    BY <1>14 DEF WriteExecution
  <2>3. KeepsJob(r, m)
    BY <1>f, <2>1 DEF KeepsJob, Fields, Idle
  <2> HIDE DEF m
  <2> QED  BY <1>d, <1>g, <2>1, <2>2, <2>3
<1>15. CASE WriteSeeds(t)
  <2>1. r.at # "idle" /\ r.at # "submit" /\ UNCHANGED <<jobs, pool, deaths>>
    BY <1>15 DEF WriteSeeds
  <2> DEFINE m == [r EXCEPT !.at = r.goal]
             n == [r EXCEPT !.at = "packed", !.copy = None]
  <2>2. Was(m) \/ Was(n)
    BY <1>15 DEF WriteSeeds
  <2>3. KeepsJob(r, m) /\ KeepsJob(r, n)
    BY <1>f, <2>1 DEF KeepsJob, Fields, Idle
  <2> HIDE DEF m, n
  <2> QED  BY <1>d, <1>g, <2>1, <2>2, <2>3
<1>16. CASE ListItems(t)
  <2>1. r.at # "idle" /\ r.at # "submit" /\ UNCHANGED <<jobs, pool, deaths>>
    BY <1>16 DEF ListItems
  <2> DEFINE m == [r EXCEPT !.at = "next", !.todo = Indexed(index)]
  <2>2. Was(m)
    BY <1>16 DEF ListItems
  <2>3. KeepsJob(r, m)
    BY <1>f, <2>1 DEF KeepsJob, Fields, Idle
  <2> HIDE DEF m
  <2> QED  BY <1>d, <1>g, <2>1, <2>2, <2>3
<1> QED
  BY <1>1, <1>2, <1>3, <1>4, <1>5, <1>6, <1>7, <1>8, <1>9, <1>10, <1>11, <1>12, <1>13,
     <1>14, <1>15, <1>16 DEF Continue

\* Thread t is about to put job j into the pool, or has taken it out.
Holds(t, j) ==
    /\ request[t] # Idle
    /\ request[t].job = j \/ (request[t].at = "submit" /\ request[t].copy = j)

Unended(j) == jobs[j] # None /\ jobs[j].status \in {"PENDING", "RUNNING"}

JobsHeld ==
    /\ deaths \in Nat
    /\ \A j \in Job :
           Unended(j) => deaths > 0 \/ j \in pool \/ \E t \in Thread : Holds(t, j)

\* A step of t that has no other job in its hands leaves the jobs where they are.
LEMMA HeldBy ==
    ASSUME Types, JobsHeld, NEW t \in Thread,
           request' = [request EXCEPT ![t] = request'[t]], UNCHANGED deaths,
           \A j \in Job : Unended(j)' =>
               \/ Unended(j) /\ (j \in pool => j \in pool') /\ (Holds(t, j) => Holds(t, j)')
               \/ j \in pool' \/ Holds(t, j)'
    PROVE  JobsHeld'
<1> SUFFICES ASSUME NEW j \in Job, Unended(j)'
             PROVE  deaths > 0 \/ j \in pool' \/ \E s \in Thread : Holds(s, j)'
  BY DEF JobsHeld
<1>1. CASE j \in pool' \/ Holds(t, j)'
  BY <1>1
<1>2. CASE Unended(j) /\ (j \in pool => j \in pool') /\ (Holds(t, j) => Holds(t, j)')
  <2>1. deaths > 0 \/ j \in pool \/ \E s \in Thread : Holds(s, j)
    BY <1>2 DEF JobsHeld
  <2>2. ASSUME NEW s \in Thread, s # t, Holds(s, j) PROVE Holds(s, j)'
    <3>1. request'[s] = request[s]
      BY <2>2 DEF Types
    <3> QED  BY <2>2, <3>1 DEF Holds
  <2> QED  BY <1>2, <2>1, <2>2
<1> QED  BY <1>1, <1>2

LEMMA JobsStayHeld == Types /\ JobsHeld /\ [Next]_vars => JobsHeld'
<1> SUFFICES ASSUME Types, JobsHeld, [Next]_vars PROVE JobsHeld'
  OBVIOUS
<1> USE DEF Serve, Begin, Step, counters
<1>t. ASSUME NEW t \in Thread, NEW m, request' = [request EXCEPT ![t] = m]
      PROVE  request'[t] = m /\ request' = [request EXCEPT ![t] = request'[t]]
  BY <1>t DEF Types
<1>i. \A j \in Job : j # None
  BY NoneIsNoValue
<1>1. CASE CreateWorkflow \/ UNCHANGED vars
  BY <1>1 DEF CreateWorkflow, vars, JobsHeld, Holds, Unended
<1>2. CASE Die
  <2>1. deaths' \in Nat /\ deaths' > 0
    BY <1>2 DEF Die, JobsHeld
  <2> QED  BY <2>1 DEF JobsHeld
<1>3. ASSUME NEW t \in Thread, Continue(t), ~Enqueue(t), ~SaveRunning(t), ~SaveJob(t)
      PROVE  JobsHeld'
  <2>1. /\ request[t].at # "submit" /\ request' = [request EXCEPT ![t] = request'[t]]
        /\ UNCHANGED <<jobs, pool, deaths>> /\ KeepsJob(request[t], request'[t])
    BY <1>3, JobKept
  <2>2. \A j \in Job : Holds(t, j) => Holds(t, j)'
    BY <1>i, <2>1 DEF Holds, KeepsJob
  <2> QED  BY <2>1, <2>2, HeldBy DEF Unended
<1>4. ASSUME NEW t \in Thread, Enqueue(t) PROVE JobsHeld'
  <2>1. /\ request[t].at = "submit" /\ request' = [request EXCEPT ![t] = Idle]
        /\ pool' = pool \cup {request[t].copy} /\ UNCHANGED <<jobs, deaths>>
    BY <1>4 DEF Enqueue
  <2>2. request[t].job = None
    BY <2>1, AtWork DEF Shape, OfUsers
  <2>3. \A j \in Job : Holds(t, j) => j \in pool'
    BY <1>i, <2>1, <2>2 DEF Holds
  <2> QED  BY <1>t, <2>1, <2>3, HeldBy DEF Unended
<1>5. ASSUME NEW t \in Thread, SaveRunning(t) PROVE JobsHeld'
  <2> DEFINE r == request[t]
             m == [r EXCEPT !.at = "list"]
             n == [r EXCEPT !.at = "refresh", !.goal = "job"]
  <2>1. /\ r.at = "running" /\ UNCHANGED <<pool, deaths>>
        /\ request' = [request EXCEPT ![t] = m] \/ request' = [request EXCEPT ![t] = n]
        /\ jobs' = [jobs EXCEPT ![r.job].status = "RUNNING"]
    BY <1>5 DEF SaveRunning
  <2>2. DOMAIN r = Fields /\ r.job \in Known
    BY <2>1, AtWork DEF Shape, OfJobs
  <2>3. m.job = r.job /\ n.job = r.job /\ m # Idle /\ n # Idle
    BY <2>2 DEF Fields, Idle
  <2> HIDE DEF m, n
  <2>4. request'[t].job = r.job /\ request'[t] # Idle
    BY <1>t, <2>1, <2>3
  <2>5. request' = [request EXCEPT ![t] = request'[t]]
    BY <1>t, <2>1
  <2>6. jobs \in [Job -> JobRecord \cup {None}]
    BY DEF Types, FilesOK, TypeOK
  <2>7. \A j \in Job : j # r.job => jobs'[j] = jobs[j]
    BY <2>1, <2>6
  <2>8. \A j \in Job : j = r.job => Holds(t, j)'
    BY <2>4 DEF Holds
  <2>9. \A j \in Job : j # r.job => ~Holds(t, j)
    BY <2>1 DEF Holds
  <2> QED  BY <2>1, <2>5, <2>7, <2>8, <2>9, HeldBy DEF Unended
<1>6. ASSUME NEW t \in Thread, SaveJob(t) PROVE JobsHeld'
  <2> DEFINE r == request[t]
  <2>1. PICK s \in {"SUCCEEDED", "FAILED"} :
            /\ r.at = s /\ request' = [request EXCEPT ![t] = Idle] /\ UNCHANGED <<pool, deaths>>
            /\ jobs' = [jobs EXCEPT ![r.job].status = s]
    BY <1>6 DEF SaveJob
  <2>2. r.job \in Known
    BY <2>1, AtWork DEF Shape, OfJobs
  <2>3. jobs \in [Job -> JobRecord \cup {None}]
    BY DEF Types, FilesOK, TypeOK
  <2>4. jobs[r.job] \in JobRecord
    BY <2>2, <2>3 DEF Known
  <2>5. jobs'[r.job].status = s
    BY <2>1, <2>2, <2>3, <2>4 DEF Known, JobRecord
  <2>7. \A j \in Job : j # r.job => jobs'[j] = jobs[j]
    BY <2>1, <2>3
  <2>8. \A j \in Job : j # r.job => ~Holds(t, j)
    BY <2>1 DEF Holds
  <2>9. \A j \in Job : Unended(j)' => j # r.job
    BY <2>1, <2>5 DEF Unended
  <2> QED  BY <1>t, <2>1, <2>7, <2>8, <2>9, HeldBy DEF Unended
<1>7. ASSUME NEW t \in Thread, NEW j \in Job, NEW type \in JobType, Submit(t, j, type)
      PROVE  JobsHeld'
  <2> DEFINE m == [NewRequest EXCEPT !.at = "submit", !.copy = j]
  <2>1. /\ request[t] = Idle /\ request' = [request EXCEPT ![t] = m] /\ UNCHANGED <<pool, deaths>>
        /\ jobs' = [jobs EXCEPT ![j] = [type |-> type, status |-> "PENDING"]]
    BY <1>7 DEF Submit
  <2>2. m # Idle /\ m.at = "submit" /\ m.copy = j
    BY DEF NewRequest, Idle
  <2> HIDE DEF m
  <2>3. Holds(t, j)'
    BY <1>t, <2>1, <2>2 DEF Holds
  <2>4. \A k \in Job : k # j => jobs'[k] = jobs[k]
    BY <2>1 DEF Types, FilesOK, TypeOK
  <2>5. \A k \in Job : ~Holds(t, k)
    BY <2>1 DEF Holds
  <2> QED  BY <1>t, <2>1, <2>3, <2>4, <2>5, HeldBy DEF Unended
<1>8. ASSUME NEW t \in Thread, NEW j \in Job, Take(t, j) PROVE JobsHeld'
  <2> DEFINE m == [NewRequest EXCEPT !.at = "running", !.job = j]
  <2>1. /\ request[t] = Idle /\ request' = [request EXCEPT ![t] = m]
        /\ pool' = pool \ {j} /\ UNCHANGED <<jobs, deaths>>
    BY <1>8 DEF Take
  <2>2. m # Idle /\ m.job = j
    BY DEF NewRequest, Idle
  <2> HIDE DEF m
  <2>3. Holds(t, j)'
    BY <1>t, <2>1, <2>2 DEF Holds
  <2>4. \A k \in Job : ~Holds(t, k) /\ (k \in pool /\ k # j => k \in pool')
    BY <2>1 DEF Holds
  <2> QED  BY <1>t, <2>1, <2>3, <2>4, HeldBy, ZenonT(30) DEF Unended
<1>9. ASSUME NEW t \in Thread,
             \/ \E e \in Item : Ingest(t, e)
             \/ \E items \in SUBSET Item : Process(t, items)
             \/ Refresh(t) \/ Execute(t) \/ ExecutePack(t)
             \/ Remediate(t) \/ RefreshRemediation(t) \/ Review(t)
      PROVE  JobsHeld'
  <2>1. /\ request[t] = Idle /\ UNCHANGED <<jobs, pool, deaths>>
        /\ \E m : request' = [request EXCEPT ![t] = m]
    BY <1>9 DEF Ingest, Process, Refresh, Execute, ExecutePack, Remediate,
       RefreshRemediation, Review
  <2>2. request' = [request EXCEPT ![t] = request'[t]]
    BY <1>t, <2>1
  <2>3. \A k \in Job : ~Holds(t, k)
    BY <2>1 DEF Holds
  <2> QED  BY <2>1, <2>2, <2>3, HeldBy DEF Unended
<1> QED
  BY <1>1, <1>2, <1>3, <1>4, <1>5, <1>6, <1>7, <1>8, <1>9 DEF Next

\* A job that has no end waits in the pool or is being run, or the process
\* died: however many threads there are, whatever they overlap, and whether
\* the work of the job succeeds, fails or raises, none is ever dropped.
THEOREM JobsEnd == Spec => []StrandedByDeath
<1>1. Init => JobsHeld
  BY DEF Init, JobsHeld, Unended
<1>2. JobsHeld => StrandedByDeath
  BY DEF JobsHeld, StrandedByDeath, Unended, Holds, Busy
<1> QED  BY <1>1, <1>2, InitTyped, NextTyped, JobsStayHeld, PTL DEF Spec

-----------------------------------------------------------------------------
(* Requests that take turns.                                                *)

\* What the request r has read is what the files say.
Fresh(r) ==
    /\ r.at \in {"index"} \cup Pending => r.copy = index
    /\ r.at = "catalog" => r.copy = catalog
    /\ r.at \in {"manifest", "catalog"} => index[r.item] # Absent
    /\ r.at = "controls" => CorpusReady(index)
    /\ r.at = "store" => r.copy \subseteq processed

\* The review and the remediations are of the audit.
Current ==
    /\ review # None => review.of = stored.n
    /\ stored # None => remediation # None /\ remediation.of = stored.n

\* r is between the new audit and its first remediations.
Renewing(r) == r.at \in {"reset", "reseed"} \/ (r.at = "seeds" /\ Executing(r))

\* What the request r has begun and has yet to finish.
Unfinished(r) ==
    /\ ~Renewing(r) => Current
    /\ Renewing(r) /\ r.at # "reset" => review = None
    /\ r.at \in {"seeds", "update", "summary", "baseline", "decide"} =>
           stored # None /\ r.copy.of = stored.n
    /\ \A e \in Item : index[e] \in Middle => r.at \in Pending /\ r.item = e

PackFiles ==
    /\ catalog \subseteq Indexed(index)
    /\ \A e \in Item : index[e] = "READY" => e \in processed
    /\ stored # None => stored.evidence \subseteq processed

Good(t) ==
    PackFiles /\ Fresh(request[t]) /\ (deaths = 0 => Unfinished(request[t]))

\* All threads but t are idle.
Alone(t) == \A s \in Thread : s # t => request[s] = Idle

Turns ==
    ~overlapped =>
        /\ \A s, t \in Thread : request[s] # Idle /\ request[t] # Idle => s = t
        /\ PackFiles
        /\ deaths = 0 /\ Busy = {} => Unfinished(Idle)
        /\ \A t \in Thread : Alone(t) => Good(t)

\* Only what t does counts, as long as requests take turns.
LEMMA TurnStep ==
    ASSUME Types, Turns, NEW t \in Thread, NEW m, request' = [request EXCEPT ![t] = m],
           UNCHANGED deaths,
           \/ request[t] # Idle /\ UNCHANGED overlapped
           \/ overlapped' = (overlapped \/ Busy # {}),
           Good(t) => Good(t)'
    PROVE  Turns'
<1> SUFFICES ASSUME ~overlapped' PROVE Turns'
  BY DEF Turns
<1>1. ~overlapped /\ Alone(t)
  <2>1. ~overlapped
    OBVIOUS
  <2>2. CASE request[t] # Idle
    BY <2>1, <2>2 DEF Turns, Alone
  <2>3. CASE Busy = {}
    BY <2>1, <2>3 DEF Busy, Alone
  <2> QED  BY <2>1, <2>2, <2>3
<1>2. Good(t)'
  BY <1>1 DEF Turns
<1>3. \A s \in Thread : s # t => request'[s] = Idle
  BY <1>1 DEF Alone, Types
<1>4. ASSUME NEW s \in Thread, Alone(s)' PROVE Good(s)'
  <2>1. request'[s] = request'[t]
    BY <1>3, <1>4 DEF Alone
  <2> QED  BY <1>2, <2>1 DEF Good
<1>5. (deaths = 0 /\ Busy = {})' => Unfinished(Idle)'
  <2>1. Busy' = {} => request'[t] = Idle
    BY DEF Busy
  <2>2. request'[t] = Idle /\ deaths' = 0 => Unfinished(Idle)'
    BY <1>2 DEF Good, Unfinished, Renewing, Executing, OfPack, Current
  <2> QED  BY <2>1, <2>2
<1>6. PackFiles'
  BY <1>2 DEF Good
<1> QED  BY <1>3, <1>4, <1>5, <1>6 DEF Turns

\* The steps at which nothing is fresh or unfinished.
Plain == {"idle", "brief", "count", "next", "list", "running", "submit", "refresh",
          "fetch", "readiness", "plan", "execute", "corpus", "packed", "executed",
          "ensure", "SUCCEEDED", "FAILED"}

PlainFiles == <<index, catalog, stored, review, remediation, processed>>

LEMMA PlainIsGood ==
    ASSUME NEW t \in Thread, UNCHANGED <<PlainFiles, deaths>>,
           request[t].at \in Plain, request'[t].at \in Plain
    PROVE  Good(t) => Good(t)'
<1> SUFFICES ASSUME Good(t) PROVE Good(t)'
  OBVIOUS
<1>1. PackFiles'
  BY DEF Good, PackFiles, PlainFiles, Indexed
<1>2. Fresh(request[t])'
  BY DEF Fresh, Plain, Pending
<1>3. deaths = 0 => Unfinished(request[t])'
  <2>1. ~Renewing(request[t]) /\ ~Renewing(request[t])'
    BY DEF Renewing, Plain
  <2>2. request[t].at \notin Pending
    BY DEF Plain, Pending
  <2>3. request'[t].at \notin {"seeds", "update", "summary", "baseline", "decide"}
    BY DEF Plain
  <2> QED  BY <2>1, <2>2, <2>3 DEF Good, Unfinished, Current, PlainFiles
<1> QED  BY <1>1, <1>2, <1>3 DEF Good

\* A thread begins a request or goes on with one.
Turning(t) ==
    /\ request' = [request EXCEPT ![t] = request'[t]]
    /\ UNCHANGED deaths
    /\ \/ request[t] # Idle /\ UNCHANGED overlapped
       \/ overlapped' = (overlapped \/ Busy # {})

LEMMA TurningWhen ==
    ASSUME Types, NEW t \in Thread, NEW m
    PROVE  /\ Begin(t, m) => Turning(t) /\ request[t] = Idle /\ request'[t] = m
           /\ \A x : x # "idle" /\ Step(t, x, m) =>
                  Turning(t) /\ request[t].at = x /\ request'[t] = m
<1>1. request = [s \in Thread |-> request[s]]
  BY DEF Types
<1>2. request' = [request EXCEPT ![t] = m] =>
          request' = [request EXCEPT ![t] = request'[t]] /\ request'[t] = m
  BY <1>1
<1> QED  BY <1>2 DEF Begin, Step, Turning, counters, Idle

\* Steps from one plain step to another.
LEMMA PlainStays ==
    ASSUME Types, NEW t \in Thread,
           \/ \E items \in SUBSET Item : Process(t, items)
           \/ Refresh(t) \/ Execute(t) \/ ExecutePack(t) \/ RefreshRemediation(t)
           \/ \E j \in Job, type \in JobType : Submit(t, j, type)
           \/ \E j \in Job : Take(t, j)
           \/ ReadSummary(t) \/ WriteSummary(t) \/ EndProcessing(t) \/ ReadWorkflow(t)
           \/ ReadReadiness(t) \/ WriteReadiness(t) \/ WriteExecuted(t) \/ ReadPack(t)
           \/ WriteExecution(t) \/ Enqueue(t) \/ SaveRunning(t) \/ ListItems(t) \/ SaveJob(t)
    PROVE  /\ Turning(t) /\ UNCHANGED PlainFiles
           /\ request[t].at \in Plain /\ request'[t].at \in Plain
<1> DEFINE r == request[t]
           Was(m) == Turning(t) /\ r.at \in Plain /\ request'[t] = m
           Goes == /\ Turning(t) /\ UNCHANGED PlainFiles
                   /\ r.at \in Plain /\ request'[t].at \in Plain
<1> USE DEF Serve
<1>b. ASSUME NEW m, Begin(t, m) PROVE Was(m)
  BY <1>b, TurningWhen DEF Plain, Idle
<1>s. ASSUME NEW m, NEW x \in Plain, x # "idle", Step(t, x, m) PROVE Was(m) /\ DOMAIN r = Fields
  <2>1. r.at # "idle"
    BY <1>s DEF Step
  <2> QED  BY <1>s, <2>1, TurningWhen, AtWork DEF Shape
<1>e. /\ Idle.at \in Plain /\ Done(r).at \in Plain /\ Raised(r).at \in Plain
  BY DEF Plain, Idle, Done, Raised, Ending, NewRequest
<1>g. ASSUME NEW m, Was(m), m.at \in Plain, UNCHANGED PlainFiles PROVE Goes
  BY <1>g
<1>1. ASSUME NEW items \in SUBSET Item, Process(t, items) PROVE Goes
  <2> DEFINE m == [NewRequest EXCEPT !.at = "next", !.todo = items]
  <2>1. Begin(t, m) /\ UNCHANGED PlainFiles
    BY <1>1 DEF Process, PlainFiles, packFiles, runFiles
  <2>2. m.at \in Plain
    BY DEF NewRequest, Plain
  <2> HIDE DEF m
  <2> QED  BY <1>b, <1>g, <2>1, <2>2
<1>2. CASE Refresh(t)
  <2> DEFINE m == [NewRequest EXCEPT !.at = "readiness", !.goal = "refresh", !.flow = flow]
  <2>1. Begin(t, m) /\ UNCHANGED PlainFiles
    BY <1>2 DEF Refresh, PlainFiles, packFiles, runFiles
  <2>2. m.at \in Plain
    BY DEF NewRequest, Plain
  <2> HIDE DEF m
  <2> QED  BY <1>b, <1>g, <2>1, <2>2
<1>3. CASE Execute(t)
  <2> DEFINE m == [NewRequest EXCEPT !.at = IF flow.planned THEN "execute" ELSE "refresh",
                                     !.goal = "execute", !.flow = flow]
  <2>1. Begin(t, m) /\ UNCHANGED PlainFiles
    BY <1>3 DEF Execute, PlainFiles, packFiles, runFiles
  <2>2. m.at \in Plain
    BY DEF NewRequest, Plain
  <2> HIDE DEF m
  <2> QED  BY <1>b, <1>g, <2>1, <2>2
<1>4. CASE ExecutePack(t)
  <2> DEFINE m == [NewRequest EXCEPT !.at = "corpus", !.goal = "pack", !.detail = detail]
  <2>1. Begin(t, m) /\ UNCHANGED PlainFiles
    BY <1>4 DEF ExecutePack, PlainFiles, packFiles, runFiles
  <2>2. m.at \in Plain
    BY DEF NewRequest, Plain
  <2> HIDE DEF m
  <2> QED  BY <1>b, <1>g, <2>1, <2>2
<1>5. CASE RefreshRemediation(t)
  <2> DEFINE m == [NewRequest EXCEPT !.at = "ensure", !.goal = "summary", !.flow = flow]
  <2>1. Begin(t, m) /\ UNCHANGED PlainFiles
    BY <1>5 DEF RefreshRemediation, PlainFiles, packFiles, runFiles
  <2>2. m.at \in Plain
    BY DEF NewRequest, Plain
  <2> HIDE DEF m
  <2> QED  BY <1>b, <1>g, <2>1, <2>2
<1>6. ASSUME NEW j \in Job, NEW type \in JobType, Submit(t, j, type) PROVE Goes
  <2> DEFINE m == [NewRequest EXCEPT !.at = "submit", !.copy = j]
  <2>1. Begin(t, m) /\ UNCHANGED PlainFiles
    BY <1>6 DEF Submit, PlainFiles, packFiles, runFiles
  <2>2. m.at \in Plain
    BY DEF NewRequest, Plain
  <2> HIDE DEF m
  <2> QED  BY <1>b, <1>g, <2>1, <2>2
<1>7. ASSUME NEW j \in Job, Take(t, j) PROVE Goes
  <2> DEFINE m == [NewRequest EXCEPT !.at = "running", !.job = j]
  <2>1. Begin(t, m) /\ UNCHANGED PlainFiles
    BY <1>7 DEF Take, PlainFiles, packFiles, runFiles
  <2>2. m.at \in Plain
    BY DEF NewRequest, Plain
  <2> HIDE DEF m
  <2> QED  BY <1>b, <1>g, <2>1, <2>2
<1>8. CASE ReadSummary(t)
  <2> DEFINE m == [r EXCEPT !.at = "count", !.detail = detail]
  <2>1. UNCHANGED PlainFiles
    BY <1>8 DEF ReadSummary, PlainFiles, packFiles, runFiles
  <2>2. Step(t, "brief", m)
    BY <1>8 DEF ReadSummary
  <2>3. "brief" \in Plain /\ "brief" # "idle"
    BY DEF Plain
  <2>4. DOMAIN r = Fields => m.at \in Plain
    BY DEF Fields, Plain
  <2> HIDE DEF m
  <2> QED  BY <1>e, <1>g, <1>s, <2>1, <2>2, <2>3, <2>4
<1>9. CASE WriteSummary(t)
  <2>1. UNCHANGED PlainFiles
    BY <1>9 DEF WriteSummary, PlainFiles, packFiles, runFiles
  <2>2. Step(t, "count", Idle)
    BY <1>9 DEF WriteSummary
  <2>3. "count" \in Plain /\ "count" # "idle"
    BY DEF Plain
  <2> QED  BY <1>e, <1>g, <1>s, <2>1, <2>2, <2>3
<1>10. CASE EndProcessing(t)
  <2>1. UNCHANGED PlainFiles
    BY <1>10 DEF EndProcessing, PlainFiles, packFiles, runFiles
  <2>2. Step(t, "next", Done(r))
    BY <1>10 DEF EndProcessing
  <2>3. "next" \in Plain /\ "next" # "idle"
    BY DEF Plain
  <2> QED  BY <1>e, <1>g, <1>s, <2>1, <2>2, <2>3
<1>11. CASE ReadWorkflow(t)
  <2>1. UNCHANGED PlainFiles
    BY <1>11 DEF ReadWorkflow, PlainFiles, packFiles, runFiles
  <2>2. PICK x \in {<<"refresh", "readiness">>, <<"fetch", "execute">>} :
            Step(t, x[1], IF flow = None THEN Raised(r) ELSE [r EXCEPT !.at = x[2], !.flow = flow])
    BY <1>11 DEF ReadWorkflow
  <2>3. x[1] \in Plain /\ x[1] # "idle" /\ x[2] \in Plain
    BY <2>2 DEF Plain
  <2> DEFINE m == [r EXCEPT !.at = x[2], !.flow = flow]
  <2>4. Step(t, x[1], Raised(r)) \/ Step(t, x[1], m)
    BY <2>2
  <2>5. DOMAIN r = Fields => m.at = x[2]
    BY DEF Fields
  <2> HIDE DEF m
  <2> QED  BY <1>e, <1>g, <1>s, <2>1, <2>3, <2>4, <2>5
<1>12. CASE ReadReadiness(t)
  <2> DEFINE o == IF CorpusReady(index) THEN "READY_FOR_EXECUTION" ELSE "BLOCKED_BY_READINESS"
             m == [r EXCEPT !.at = "plan", !.flow.planned = TRUE, !.flow.status = o]
  <2>1. UNCHANGED PlainFiles
    BY <1>12 DEF ReadReadiness, PlainFiles, packFiles, runFiles
  <2>2. Step(t, "readiness", m)
    BY <1>12 DEF ReadReadiness
  <2> HIDE DEF o
  <2>3. "readiness" \in Plain /\ "readiness" # "idle"
    BY DEF Plain
  <2>4. DOMAIN r = Fields => m.at \in Plain
    BY DEF Fields, Plain
  <2> HIDE DEF m
  <2> QED  BY <1>e, <1>g, <1>s, <2>1, <2>2, <2>3, <2>4
<1>13. CASE WriteReadiness(t)
  <2>1. UNCHANGED PlainFiles
    BY <1>13 DEF WriteReadiness, PlainFiles, packFiles, runFiles
  <2> DEFINE m == [r EXCEPT !.at = "execute"]
             n == [r EXCEPT !.at = "fetch"]
  <2>2. Step(t, "plan", CASE r.goal = "refresh" -> Done(r) [] r.goal = "execute" -> m
                          [] r.goal = "job" -> n)
    BY <1>13 DEF WriteReadiness
  <2>3. r.goal \in {"refresh", "execute", "job"}
    BY <2>2, AtWork DEF Step, ShapeOfFlow
  <2>4. DOMAIN r = Fields => m.at \in Plain /\ n.at \in Plain
    BY DEF Fields, Plain
  <2> HIDE DEF m, n
  <2>5. Step(t, "plan", Done(r)) \/ Step(t, "plan", m) \/ Step(t, "plan", n)
    BY <2>2, <2>3
  <2>6. "plan" \in Plain
    BY DEF Plain
  <2> QED  BY <1>e, <1>g, <1>s, <2>1, <2>4, <2>5, <2>6
<1>14. CASE WriteExecuted(t)
  <2>1. UNCHANGED PlainFiles
    BY <1>14 DEF WriteExecuted, PlainFiles, packFiles, runFiles
  <2>2. Step(t, "executed", Done(r))
    BY <1>14 DEF WriteExecuted
  <2>3. "executed" \in Plain /\ "executed" # "idle"
    BY DEF Plain
  <2> QED  BY <1>e, <1>g, <1>s, <2>1, <2>2, <2>3
<1>15. CASE ReadPack(t)
  <2> DEFINE m == [r EXCEPT !.at = "corpus", !.detail = detail]
  <2>1. UNCHANGED PlainFiles
    BY <1>15 DEF ReadPack, PlainFiles, packFiles, runFiles
  <2>2. Step(t, "execute", Raised(r)) \/ Step(t, "execute", m)
    BY <1>15 DEF ReadPack
  <2>3. "execute" \in Plain /\ "execute" # "idle"
    BY DEF Plain
  <2>4. DOMAIN r = Fields => m.at \in Plain
    BY DEF Fields, Plain
  <2> HIDE DEF m
  <2> QED  BY <1>e, <1>g, <1>s, <2>1, <2>2, <2>3, <2>4
<1>16. CASE WriteExecution(t)
  <2> DEFINE m == [r EXCEPT !.at = "executed"]
  <2>1. UNCHANGED PlainFiles
    BY <1>16 DEF WriteExecution, PlainFiles, packFiles, runFiles
  <2>2. Step(t, "packed", Done(r)) \/ Step(t, "packed", m)
    BY <1>16 DEF WriteExecution
  <2>3. "packed" \in Plain /\ "packed" # "idle"
    BY DEF Plain
  <2>4. DOMAIN r = Fields => m.at \in Plain
    BY DEF Fields, Plain
  <2> HIDE DEF m
  <2> QED  BY <1>e, <1>g, <1>s, <2>1, <2>2, <2>3, <2>4
<1>17. CASE Enqueue(t)
  <2>1. UNCHANGED PlainFiles
    BY <1>17 DEF Enqueue, PlainFiles, packFiles, runFiles
  <2>2. Step(t, "submit", Idle)
    BY <1>17 DEF Enqueue
  <2>3. "submit" \in Plain /\ "submit" # "idle"
    BY DEF Plain
  <2> QED  BY <1>e, <1>g, <1>s, <2>1, <2>2, <2>3
<1>18. CASE SaveRunning(t)
  <2> DEFINE m == [r EXCEPT !.at = "list"]
             n == [r EXCEPT !.at = "refresh", !.goal = "job"]
  <2>1. UNCHANGED PlainFiles
    BY <1>18 DEF SaveRunning, PlainFiles, packFiles, runFiles
  <2>2. Step(t, "running", m) \/ Step(t, "running", n)
    BY <1>18 DEF SaveRunning
  <2>3. "running" \in Plain /\ "running" # "idle"
    BY DEF Plain
  <2>4. DOMAIN r = Fields => m.at \in Plain /\ n.at \in Plain
    BY DEF Fields, Plain
  <2> HIDE DEF m, n
  <2> QED  BY <1>e, <1>g, <1>s, <2>1, <2>2, <2>3, <2>4
<1>19. CASE ListItems(t)
  <2> DEFINE m == [r EXCEPT !.at = "next", !.todo = Indexed(index)]
  <2>1. UNCHANGED PlainFiles
    BY <1>19 DEF ListItems, PlainFiles, packFiles, runFiles
  <2>2. Step(t, "list", m)
    BY <1>19 DEF ListItems
  <2>3. "list" \in Plain /\ "list" # "idle"
    BY DEF Plain
  <2>4. DOMAIN r = Fields => m.at \in Plain
    BY DEF Fields, Plain
  <2> HIDE DEF m
  <2> QED  BY <1>e, <1>g, <1>s, <2>1, <2>2, <2>3, <2>4
<1>20. CASE SaveJob(t)
  <2>1. UNCHANGED PlainFiles
    BY <1>20 DEF SaveJob, PlainFiles, packFiles, runFiles
  <2>2. Step(t, "SUCCEEDED", Idle) \/ Step(t, "FAILED", Idle)
    BY <1>20 DEF SaveJob
  <2>3. "SUCCEEDED" \in Plain /\ "FAILED" \in Plain
    BY DEF Plain
  <2> QED  BY <1>e, <1>g, <1>s, <2>1, <2>2, <2>3
<1> QED
  BY <1>1, <1>2, <1>3, <1>4, <1>5, <1>6, <1>7, <1>8, <1>9, <1>10, <1>11,
     <1>12, <1>13, <1>14, <1>15, <1>16, <1>17, <1>18, <1>19, <1>20

\* A step of t that leaves good what t does.
GoodStep(t) == Turning(t) /\ (Good(t) => Good(t)')

\* ... is enough if the files are only read.
LEMMA GoodRead ==
    ASSUME NEW t \in Thread, Turning(t), UNCHANGED PlainFiles,
           Good(t) => /\ Fresh(request'[t])
                      /\ deaths = 0 => Unfinished(request'[t])
    PROVE  GoodStep(t)
<1>1. PackFiles => PackFiles'
  BY DEF PackFiles, PlainFiles, Indexed
<1>2. Fresh(request'[t]) => Fresh(request[t])'
  BY DEF Fresh, PlainFiles, CorpusReady, Indexed
<1>3. Unfinished(request'[t]) => Unfinished(request[t])'
  BY DEF Unfinished, PlainFiles, Renewing, Executing, Current
<1>4. deaths' = deaths
  BY DEF Turning
<1> QED  BY <1>1, <1>2, <1>3, <1>4 DEF GoodStep, Good

\* The steps of an ingestion.
LEMMA IngestGood ==
    ASSUME Types, NEW t \in Thread,
           \/ \E e \in Item : Ingest(t, e)
           \/ WriteIndex(t) \/ ReadManifest(t) \/ WriteCatalog(t)
    PROVE  GoodStep(t)
<1> DEFINE r == request[t]
<1> USE DEF Serve
<1>m. r.at # "idle" => Shape(r, Known) /\ DOMAIN r = Fields
  BY AtWork DEF Shape
<1>1. ASSUME NEW e \in Item, Ingest(t, e) PROVE GoodStep(t)
  <2> DEFINE m == [NewRequest EXCEPT !.at = "index", !.item = e, !.copy = index]
  <2>1. Begin(t, m) /\ UNCHANGED PlainFiles
    BY <1>1 DEF Ingest, PlainFiles, packFiles, runFiles
  <2>2. m.at = "index" /\ m.copy = index
    BY DEF NewRequest
  <2> HIDE DEF m
  <2>3. Turning(t) /\ r = Idle /\ request'[t] = m
    BY <2>1, TurningWhen
  <2>4. Good(t) => Fresh(m)
    BY <2>2 DEF Fresh, Pending
  <2>5. Unfinished(Idle) => Unfinished(m)
    BY <2>2 DEF Unfinished, Renewing, Idle, Pending
  <2> QED  BY <2>1, <2>3, <2>4, <2>5, GoodRead DEF Good
<1>2. CASE WriteIndex(t)
  <2> DEFINE m == [r EXCEPT !.at = "manifest", !.copy = None]
  <2>1. /\ Step(t, "index", m) /\ index' = [r.copy EXCEPT ![r.item] = "UPLOADED"]
        /\ UNCHANGED <<catalog, stored, review, remediation, processed>>
    BY <1>2 DEF WriteIndex, packFiles, runFiles
  <2>2. r.at = "index" /\ r.item \in Item /\ r.copy \in Table
    BY <1>m, <2>1 DEF Step, Shape
  <2>3. m.at = "manifest" /\ m.item = r.item
    BY <1>m, <2>2 DEF Fields
  <2> HIDE DEF m
  <2>4. Turning(t) /\ request'[t] = m
    BY <2>1, TurningWhen
  <2> SUFFICES ASSUME Good(t) PROVE Good(t)'
    BY <2>4 DEF GoodStep
  <2>5. r.copy = index
    BY <2>2 DEF Good, Fresh
  <2>6. /\ \A e \in Item : index'[e] = IF e = r.item THEN "UPLOADED" ELSE index[e]
    BY <2>1, <2>2, <2>5 DEF Table
  <2>7. PackFiles'
    BY <2>1, <2>6 DEF Good, PackFiles, Indexed, Absent
  <2>8. Fresh(request[t])'
    BY <2>2, <2>3, <2>4, <2>6 DEF Fresh, Pending, Absent
  <2>9. Unfinished(r) => Unfinished(request[t])'
    BY <2>1, <2>2, <2>3, <2>4, <2>6 DEF Unfinished, Renewing, Current, Middle, Pending
  <2> QED  BY <2>4, <2>7, <2>8, <2>9 DEF Good, Turning
<1>3. CASE ReadManifest(t)
  <2> DEFINE m == [r EXCEPT !.at = "catalog", !.copy = catalog]
  <2>1. (Step(t, "manifest", Idle) \/ Step(t, "manifest", m)) /\ UNCHANGED PlainFiles
    BY <1>3 DEF ReadManifest, PlainFiles, packFiles, runFiles
  <2>2. r.at = "manifest"
    BY <2>1 DEF Step
  <2>3. m.at = "catalog" /\ m.item = r.item /\ m.copy = catalog
    BY <1>m, <2>2 DEF Fields
  <2> HIDE DEF m
  <2>4. Turning(t) /\ (request'[t] = Idle \/ request'[t] = m)
    BY <2>1, TurningWhen
  <2>5. Fresh(r) => Fresh(m) /\ Fresh(Idle)
    BY <2>2, <2>3 DEF Fresh, Pending, Idle
  <2>6. Unfinished(r) => Unfinished(m) /\ Unfinished(Idle)
    BY <2>2, <2>3 DEF Unfinished, Renewing, Idle, Pending
  <2> QED  BY <2>1, <2>4, <2>5, <2>6, GoodRead DEF Good
<1>4. CASE WriteCatalog(t)
  <2> DEFINE new == r.copy \cup {r.item}
             m == [r EXCEPT !.at = "brief", !.copy = Cardinality(new)]
  <2>1. /\ Step(t, "catalog", m) /\ catalog' = new
        /\ UNCHANGED <<index, stored, review, remediation, processed>>
    BY <1>4 DEF WriteCatalog, packFiles, runFiles
  <2>2. r.at = "catalog" /\ r.item \in Item
    BY <1>m, <2>1 DEF Step, Shape
  <2>3. m.at = "brief"
    BY <1>m, <2>2 DEF Fields
  <2> HIDE DEF m
  <2>4. Turning(t) /\ request'[t] = m
    BY <2>1, TurningWhen
  <2> SUFFICES ASSUME Good(t) PROVE Good(t)'
    BY <2>4 DEF GoodStep
  <2>5. r.copy = catalog /\ index[r.item] # Absent
    BY <2>2 DEF Good, Fresh
  <2>6. PackFiles'
    BY <2>1, <2>2, <2>5 DEF Good, PackFiles, Indexed
  <2>7. Fresh(request[t])'
    BY <2>3, <2>4 DEF Fresh, Pending
  <2>8. Unfinished(r) => Unfinished(request[t])'
    BY <2>1, <2>2, <2>3, <2>4 DEF Unfinished, Renewing, Current, Middle, Pending
  <2> QED  BY <2>4, <2>6, <2>7, <2>8 DEF Good, Turning
<1> QED  BY <1>1, <1>2, <1>3, <1>4

\* The steps of processing.
LEMMA ProcessGood ==
    ASSUME Types, NEW t \in Thread, ReadItem(t) \/ WriteStatus(t)
    PROVE  GoodStep(t)
<1> DEFINE r == request[t]
<1>m. r.at # "idle" => Shape(r, Known) /\ DOMAIN r = Fields
  BY AtWork DEF Shape
<1>1. CASE ReadItem(t)
  <2>1. PICK e \in r.todo : LET k == [r EXCEPT !.todo = @ \ {e}] IN
            Step(t, "next", IF index[e] = Absent THEN k
                ELSE [k EXCEPT !.at = "UPLOADED", !.item = e, !.copy = index])
    BY <1>1 DEF ReadItem
  <2>2. UNCHANGED PlainFiles
    BY <1>1 DEF ReadItem, PlainFiles, packFiles, runFiles
  <2> DEFINE n == [r EXCEPT !.todo = @ \ {e}]
             m == [n EXCEPT !.at = "UPLOADED", !.item = e, !.copy = index]
  <2>3. Step(t, "next", n) \/ Step(t, "next", m)
    BY <2>1
  <2>4. r.at = "next"
    BY <2>3 DEF Step
  <2>5. n.at = "next" /\ m.at = "UPLOADED" /\ m.copy = index
    BY <1>m, <2>4 DEF Fields
  <2> HIDE DEF m, n
  <2>6. Turning(t) /\ (request'[t] = n \/ request'[t] = m)
    BY <2>3, TurningWhen
  <2>7. Fresh(m) /\ Fresh(n)
    BY <2>5 DEF Fresh, Pending
  <2>8. Unfinished(r) => Unfinished(m) /\ Unfinished(n)
    BY <2>4, <2>5 DEF Unfinished, Renewing, Pending
  <2> QED  BY <2>2, <2>6, <2>7, <2>8, GoodRead DEF Good
<1>2. CASE WriteStatus(t)
  <2>1. PICK s \in After(r.at) : LET new == [r.copy EXCEPT ![r.item] = s] IN
            /\ Step(t, r.at, IF s \in Pending THEN [r EXCEPT !.at = s, !.copy = new]
                             ELSE [r EXCEPT !.at = "next", !.item = None, !.copy = None])
            /\ index' = new
            /\ processed' = IF s = "READY" THEN processed \cup {r.item} ELSE processed
    BY <1>2 DEF WriteStatus
  <2>2. r.at \in Pending /\ UNCHANGED <<catalog, stored, review, remediation>>
    BY <1>2 DEF WriteStatus, runFiles
  <2>3. s \in Status /\ s # "UPLOADED" /\ r.at # "idle"
    BY <2>1, <2>2 DEF After, Status, Pending, Failed
  <2>4. r.item \in Item /\ r.copy \in Table
    BY <1>m, <2>2, <2>3 DEF Shape
  <2> DEFINE new == [r.copy EXCEPT ![r.item] = s]
             m == [r EXCEPT !.at = s, !.copy = new]
             n == [r EXCEPT !.at = "next", !.item = None, !.copy = None]
  <2>5. (s \in Pending /\ Step(t, r.at, m)) \/ (s \notin Pending /\ Step(t, r.at, n))
    BY <2>1
  <2>6. index' = new
    BY <2>1
  <2> HIDE DEF new
  <2>7. m.at = s /\ m.item = r.item /\ m.copy = new /\ n.at = "next"
    BY <1>m, <2>3 DEF Fields
  <2> HIDE DEF m, n
  <2>8. /\ Turning(t)
        /\ request'[t] = IF s \in Pending THEN m ELSE n
    BY <2>3, <2>5, TurningWhen
  <2> SUFFICES ASSUME Good(t) PROVE Good(t)'
    BY <2>8 DEF GoodStep
  <2>9. r.copy = index
    BY <2>2 DEF Good, Fresh
  <2>10. \A e \in Item : index'[e] = IF e = r.item THEN s ELSE index[e]
    BY <2>4, <2>6, <2>9 DEF Table, new
  <2>11. PackFiles'
    <3>1. Absent \notin Status
      BY DEF Status, Pending, Failed, Absent
    <3>2. Indexed(index) \subseteq Indexed(index')
      BY <2>3, <2>10, <3>1 DEF Indexed
    <3>3. processed \subseteq processed' /\ (s = "READY" => r.item \in processed')
      BY <2>1
    <3> QED  BY <2>2, <2>10, <3>2, <3>3 DEF Good, PackFiles
  <2>12. Fresh(request[t])'
    BY <2>6, <2>7, <2>8 DEF Fresh, Pending
  <2>13. Unfinished(r) => Unfinished(request[t])'
    <3>1. ~Renewing(r) /\ ~Renewing(request[t])'
      BY <2>2, <2>7, <2>8 DEF Renewing, Pending
    <3>2. request'[t].at \notin {"seeds", "update", "summary", "baseline", "decide"}
      BY <2>7, <2>8 DEF Pending
    <3>3. Current => Current'
      BY <2>2 DEF Current
    <3>4. ASSUME Unfinished(r), NEW e \in Item, index'[e] \in Middle
          PROVE  request'[t].at \in Pending /\ request'[t].item = e
      <4>1. e = r.item
        BY <2>10, <3>4 DEF Unfinished
      <4>2. s \in Pending
        BY <2>10, <3>4, <4>1 DEF Middle
      <4> QED  BY <2>7, <2>8, <4>1, <4>2
    <3> QED  BY <3>1, <3>2, <3>3, <3>4 DEF Unfinished
  <2> QED  BY <2>8, <2>11, <2>12, <2>13 DEF Good, Turning
<1> QED  BY <1>1, <1>2

\* The steps of the execution of a pack.
LEMMA ExecutionGood ==
    ASSUME Types, NEW t \in Thread,
           ReadCorpus(t) \/ ReadControls(t) \/ StoreAudit(t) \/ ResetReview(t) \/ ReadFindings(t)
    PROVE  GoodStep(t)
<1> DEFINE r == request[t]
<1>m. r.at # "idle" => Shape(r, Known) /\ ShapeOfFlow(r, stored) /\ DOMAIN r = Fields
  BY AtWork DEF Shape
<1>1. CASE ReadCorpus(t)
  <2> DEFINE m == [r EXCEPT !.at = "controls"]
  <2>1. /\ Step(t, "corpus", IF CorpusReady(index) THEN m ELSE Raised(r))
        /\ UNCHANGED PlainFiles
    BY <1>1 DEF ReadCorpus, PlainFiles, packFiles, runFiles
  <2>2. r.at = "corpus"
    BY <2>1 DEF Step
  <2>3. m.at = "controls"
    BY <1>m, <2>2 DEF Fields
  <2>4. Raised(r).at \in {"idle", "FAILED"}
    BY DEF Raised, Ending, Idle, NewRequest
  <2> HIDE DEF m
  <2>5. Turning(t) /\ request'[t] = IF CorpusReady(index) THEN m ELSE Raised(r)
    BY <2>1, TurningWhen
  <2>6. Fresh(request'[t])
    BY <2>3, <2>4, <2>5 DEF Fresh, Pending
  <2>7. Unfinished(r) => Unfinished(request'[t])
    BY <2>2, <2>3, <2>4, <2>5 DEF Unfinished, Renewing, Pending
  <2> QED  BY <2>1, <2>5, <2>6, <2>7, GoodRead DEF Good
<1>2. CASE ReadControls(t)
  <2> DEFINE m == [r EXCEPT !.at = "store", !.copy = catalog]
  <2>1. Step(t, "controls", m) /\ UNCHANGED PlainFiles
    BY <1>2 DEF ReadControls, PlainFiles, packFiles, runFiles
  <2>2. r.at = "controls"
    BY <2>1 DEF Step
  <2>3. m.at = "store" /\ m.copy = catalog
    BY <1>m, <2>2 DEF Fields
  <2> HIDE DEF m
  <2>4. Turning(t) /\ request'[t] = m
    BY <2>1, TurningWhen
  <2>5. Good(t) => Fresh(m)
    <3> SUFFICES ASSUME Good(t) PROVE Fresh(m)
      OBVIOUS
    <3>1. CorpusReady(index)
      BY <2>2 DEF Good, Fresh
    <3>2. catalog \subseteq processed
      BY <3>1 DEF Good, PackFiles, CorpusReady, Indexed
    <3> QED  BY <2>3, <3>2 DEF Fresh, Pending
  <2>6. Unfinished(r) => Unfinished(m)
    BY <2>2, <2>3 DEF Unfinished, Renewing, Pending
  <2> QED  BY <2>1, <2>4, <2>5, <2>6, GoodRead DEF Good
<1>3. CASE StoreAudit(t)
  <2>1. PICK findings, n :
            /\ Step(t, "store", [r EXCEPT !.at = "reset", !.run = n, !.copy = None])
            /\ stored' = [n |-> n, evidence |-> r.copy, findings |-> findings]
    BY <1>3 DEF StoreAudit
  <2>2. UNCHANGED <<index, catalog, review, remediation, processed>>
    BY <1>3 DEF StoreAudit, packFiles
  <2> DEFINE m == [r EXCEPT !.at = "reset", !.run = n, !.copy = None]
  <2>3. r.at = "store"
    BY <2>1 DEF Step
  <2>4. m.at = "reset"
    BY <1>m, <2>3 DEF Fields
  <2>5. Step(t, "store", m)
    BY <2>1
  <2> HIDE DEF m
  <2>6. Turning(t) /\ request'[t] = m
    BY <2>5, TurningWhen
  <2> SUFFICES ASSUME Good(t) PROVE Good(t)'
    BY <2>6 DEF GoodStep
  <2>7. stored'.evidence \subseteq processed
    BY <2>1, <2>3 DEF Good, Fresh
  <2>8. PackFiles'
    BY <2>2, <2>7 DEF Good, PackFiles, Indexed
  <2>9. Fresh(request[t])'
    BY <2>4, <2>6 DEF Fresh, Pending
  <2>10. Unfinished(r) => Unfinished(request[t])'
    BY <2>2, <2>3, <2>4, <2>6 DEF Unfinished, Renewing, Pending
  <2> QED  BY <2>6, <2>8, <2>9, <2>10 DEF Good, Turning
<1>4. CASE ResetReview(t)
  <2> DEFINE m == [r EXCEPT !.at = "reseed"]
  <2>1. /\ Step(t, "reset", m) /\ review' = None
        /\ UNCHANGED <<index, catalog, stored, remediation, processed>>
    BY <1>4 DEF ResetReview, packFiles
  <2>2. r.at = "reset"
    BY <2>1 DEF Step
  <2>3. m.at = "reseed"
    BY <1>m, <2>2 DEF Fields
  <2> HIDE DEF m
  <2>4. Turning(t) /\ request'[t] = m
    BY <2>1, TurningWhen
  <2>5. PackFiles => PackFiles'
    BY <2>1 DEF PackFiles, Indexed
  <2>6. Fresh(request[t])'
    BY <2>3, <2>4 DEF Fresh, Pending
  <2>7. Unfinished(r) => Unfinished(request[t])'
    BY <2>1, <2>2, <2>3, <2>4 DEF Unfinished, Renewing, Pending
  <2> QED  BY <2>4, <2>5, <2>6, <2>7 DEF GoodStep, Good, Turning
<1>5. CASE ReadFindings(t)
  <2> DEFINE m == [r EXCEPT !.at = "seeds", !.copy = Seeds]
  <2>1. Step(t, "reseed", m) /\ UNCHANGED PlainFiles
    BY <1>5 DEF ReadFindings, PlainFiles, packFiles, runFiles
  <2>2. r.at = "reseed"
    BY <2>1 DEF Step
  <2>3. m.at = "seeds" /\ m.copy = Seeds /\ m.goal = r.goal
    BY <1>m, <2>2 DEF Fields
  <2>4. r.goal \in {"pack", "execute", "job"} /\ stored # None
    BY <1>m, <2>2 DEF ShapeOfFlow, Executing, OfPack, HasStored
  <2> HIDE DEF m
  <2>5. Turning(t) /\ request'[t] = m
    BY <2>1, TurningWhen
  <2>6. Fresh(m)
    BY <2>3 DEF Fresh, Pending
  <2>7. Unfinished(r) => Unfinished(m)
    BY <2>2, <2>3, <2>4 DEF Unfinished, Renewing, Executing, Seeds, Pending
  <2> QED  BY <2>1, <2>5, <2>6, <2>7, GoodRead DEF Good
<1> QED  BY <1>1, <1>2, <1>3, <1>4, <1>5

\* What ensure_remediation_state has read is the remediation of the audit.
LEMMA EnsuredGood ==
    ASSUME NEW r, NEW q, DOMAIN r = Fields, r.goal \in {"update", "summary"},
           stored # None, q.at \in {"idle", "ensure"}
    PROVE  Fresh(Ensured(r)) /\ (Unfinished(q) => Unfinished(Ensured(r)))
<1> DEFINE m == Ensured(r)
<1>1. /\ m.goal = r.goal
      /\ \/ m.at = "seeds" /\ m.copy = Seeds
         \/ m.at = r.goal /\ m.copy = remediation
  BY DEF Ensured, Fields
<1> HIDE DEF m
<1>2. Fresh(m)
  BY <1>1 DEF Fresh, Pending
<1>3. Unfinished(q) => Current /\ \A e \in Item : index[e] \notin Middle
  BY DEF Unfinished, Renewing, Pending
<1>4. Current => m.copy.of = stored.n
  BY <1>1 DEF Current, Seeds
<1>5. ~Renewing(m)
  BY <1>1 DEF Renewing, Executing, OfPack
<1>6. Unfinished(q) => Unfinished(m)
  BY <1>3, <1>4, <1>5 DEF Unfinished
<1> QED  BY <1>2, <1>6 DEF m

\* The steps of the remediations.
LEMMA RemediationGood ==
    ASSUME Types, NEW t \in Thread,
           \/ Remediate(t) \/ ReadItems(t) \/ WriteSeeds(t) \/ UpdateItem(t)
           \/ WriteSummaryOfItems(t)
    PROVE  GoodStep(t)
<1> DEFINE r == request[t]
<1>m. r.at # "idle" => Shape(r, Known) /\ ShapeOfFlow(r, stored) /\ DOMAIN r = Fields
  BY AtWork DEF Shape
<1>1. CASE Remediate(t)
  <2> DEFINE q == [NewRequest EXCEPT !.goal = "update"]
  <2>1. Begin(t, Ensured(q)) /\ UNCHANGED PlainFiles /\ stored # None
    BY <1>1 DEF Remediate, Serve, PlainFiles, packFiles, runFiles
  <2>2. DOMAIN q = Fields /\ q.goal = "update"
    BY DEF NewRequest, Fields
  <2> HIDE DEF q
  <2>3. Turning(t) /\ r = Idle /\ request'[t] = Ensured(q)
    BY <2>1, TurningWhen
  <2>4. r.at = "idle"
    BY <2>3 DEF Idle
  <2> QED  BY <2>1, <2>2, <2>3, <2>4, EnsuredGood, GoodRead DEF Good
<1>2. CASE ReadItems(t)
  <2>1. Step(t, "ensure", Ensured(r)) /\ UNCHANGED PlainFiles
    BY <1>2 DEF ReadItems, PlainFiles, packFiles, runFiles
  <2>2. r.at = "ensure"
    BY <2>1 DEF Step
  <2>3. r.goal = "summary" /\ stored # None /\ DOMAIN r = Fields
    BY <1>m, <2>2 DEF ShapeOfFlow
  <2>4. Turning(t) /\ request'[t] = Ensured(r)
    BY <2>1, TurningWhen
  <2> QED  BY <2>1, <2>2, <2>3, <2>4, EnsuredGood, GoodRead DEF Good
<1>3. CASE WriteSeeds(t)
  <2> DEFINE m == [r EXCEPT !.at = r.goal]
             n == [r EXCEPT !.at = "packed", !.copy = None]
  <2>1. /\ Step(t, "seeds", IF r.goal \in {"update", "summary"} THEN m ELSE n)
        /\ remediation' = r.copy /\ UNCHANGED <<index, catalog, stored, review, processed>>
    BY <1>3 DEF WriteSeeds, packFiles
  <2>2. r.at = "seeds"
    BY <2>1 DEF Step
  <2>3. /\ r.goal \in {"pack", "execute", "job", "update", "summary"}
        /\ r.copy \in RemediationState /\ r.copy # None
    BY <1>m, <2>2, NoneIsNoValue DEF ShapeOfFlow
  <2>4. m.at = r.goal /\ m.copy = r.copy /\ n.at = "packed"
    BY <1>m, <2>2 DEF Fields
  <2> HIDE DEF m, n
  <2>5. /\ Turning(t)
        /\ request'[t] = IF r.goal \in {"update", "summary"} THEN m ELSE n
    BY <2>1, TurningWhen
  <2>6. PackFiles => PackFiles'
    BY <2>1 DEF PackFiles, Indexed
  <2>7. request'[t].at \in {"packed", "update", "summary"}
    BY <2>4, <2>5
  <2>8. Fresh(request[t])'
    BY <2>7 DEF Fresh, Pending
  <2>9. Unfinished(r) => Unfinished(request[t])'
    <3> SUFFICES ASSUME Unfinished(r) PROVE Unfinished(request[t])'
      OBVIOUS
    <3>1. r.copy.of = stored.n /\ \A e \in Item : index[e] \notin Middle
      BY <2>2 DEF Unfinished, Pending
    <3>2. review # None => review.of = stored.n
      BY <2>2 DEF Unfinished, Renewing, Current
    <3>3. Current'
      BY <2>1, <2>3, <3>1, <3>2 DEF Current
    <3>4. request'[t].at \in {"update", "summary"} => request'[t].copy = r.copy
      BY <2>4, <2>5, <2>7
    <3>5. stored # None
      BY <2>2 DEF Unfinished
    <3>6. ~Renewing(request[t])'
      BY <2>7 DEF Renewing, OfPack
    <3> QED  BY <2>1, <2>7, <3>1, <3>3, <3>4, <3>5, <3>6 DEF Unfinished
  <2> QED  BY <2>5, <2>6, <2>8, <2>9 DEF GoodStep, Good, Turning
<1>4. CASE UpdateItem(t)
  <2>1. /\ Step(t, "update", Idle) /\ remediation' \in {r.copy, remediation}
        /\ UNCHANGED <<index, catalog, stored, review, processed>>
    BY <1>4 DEF UpdateItem, packFiles
  <2>2. r.at = "update"
    BY <2>1 DEF Step
  <2>3. r.copy # None
    BY <1>m, <2>2, NoneIsNoValue DEF ShapeOfFlow
  <2>4. Turning(t) /\ request'[t] = Idle
    BY <2>1, TurningWhen
  <2>5. PackFiles => PackFiles'
    BY <2>1 DEF PackFiles, Indexed
  <2>6. Fresh(request[t])'
    BY <2>4 DEF Fresh, Pending, Idle
  <2>7. Unfinished(r) => Unfinished(request[t])'
    BY <2>1, <2>2, <2>3, <2>4 DEF Unfinished, Renewing, Current, Pending, Idle
  <2> QED  BY <2>4, <2>5, <2>6, <2>7 DEF GoodStep, Good, Turning
<1>5. CASE WriteSummaryOfItems(t)
  <2>1. Step(t, "summary", Idle) /\ UNCHANGED PlainFiles
    BY <1>5 DEF WriteSummaryOfItems, PlainFiles, packFiles, runFiles
  <2>2. r.at = "summary"
    BY <2>1 DEF Step
  <2>3. Turning(t) /\ request'[t] = Idle
    BY <2>1, TurningWhen
  <2>4. Fresh(Idle) /\ (Unfinished(r) => Unfinished(Idle))
    BY <2>2 DEF Fresh, Unfinished, Renewing, Pending, Idle
  <2> QED  BY <2>1, <2>3, <2>4, GoodRead DEF Good
<1> QED  BY <1>1, <1>2, <1>3, <1>4, <1>5

\* The steps of a review.
LEMMA ReviewGood ==
    ASSUME Types, NEW t \in Thread, Review(t) \/ WriteBaseline(t) \/ WriteDecision(t)
    PROVE  GoodStep(t)
<1> DEFINE r == request[t]
<1>m. r.at # "idle" => Shape(r, Known) /\ ShapeOfFlow(r, stored) /\ DOMAIN r = Fields
  BY AtWork DEF Shape
<1>1. CASE Review(t)
  <2>1. PICK goal \in {"decide", "view"} :
            /\ stored # None
            /\ Begin(t, IF review = None
                   THEN [NewRequest EXCEPT !.at = "baseline", !.goal = goal,
                                           !.copy = [of |-> stored.n, decided |-> FALSE]]
                   ELSE [NewRequest EXCEPT !.at = "decide", !.copy = review])
    BY <1>1 DEF Review, Serve
  <2>2. UNCHANGED PlainFiles
    BY <1>1 DEF Review, PlainFiles, packFiles, runFiles
  <2> DEFINE c == [of |-> stored.n, decided |-> FALSE]
             m == [NewRequest EXCEPT !.at = "baseline", !.goal = goal, !.copy = c]
             n == [NewRequest EXCEPT !.at = "decide", !.copy = review]
  <2>3. Begin(t, m) \/ (review # None /\ Begin(t, n))
    BY <2>1
  <2>4. c.of = stored.n
    OBVIOUS
  <2> HIDE DEF c
  <2>5. m.at = "baseline" /\ m.copy = c /\ n.at = "decide" /\ n.copy = review
    BY DEF NewRequest
  <2> HIDE DEF m, n
  <2>6. /\ Turning(t) /\ r = Idle
        /\ request'[t] = m \/ (review # None /\ request'[t] = n)
    BY <2>3, TurningWhen
  <2>7. Fresh(m) /\ Fresh(n)
    BY <2>5 DEF Fresh, Pending
  <2>8. Unfinished(Idle) => Current /\ \A e \in Item : index[e] \notin Middle
    BY DEF Unfinished, Renewing, Executing, OfPack, Idle, Pending
  <2>9. Unfinished(Idle) => Unfinished(m) /\ (review # None => Unfinished(n))
    BY <2>1, <2>4, <2>5, <2>8 DEF Unfinished, Renewing, Current
  <2> QED  BY <2>2, <2>6, <2>7, <2>9, GoodRead DEF Good
<1>2. CASE WriteBaseline(t)
  <2> DEFINE m == [r EXCEPT !.at = "decide"]
  <2>1. /\ Step(t, "baseline", IF r.goal = "view" THEN Idle ELSE m) /\ review' = r.copy
        /\ UNCHANGED <<index, catalog, stored, remediation, processed>>
    BY <1>2 DEF WriteBaseline, packFiles
  <2>2. r.at = "baseline"
    BY <2>1 DEF Step
  <2>3. m.at = "decide" /\ m.copy = r.copy
    BY <1>m, <2>2 DEF Fields
  <2> HIDE DEF m
  <2>4. Turning(t) /\ (request'[t] = Idle \/ request'[t] = m)
    BY <2>1, TurningWhen
  <2>5. PackFiles => PackFiles'
    BY <2>1 DEF PackFiles, Indexed
  <2>6. Fresh(request[t])'
    BY <2>3, <2>4 DEF Fresh, Pending, Idle
  <2>7. Unfinished(r) => Unfinished(request[t])'
    BY <2>1, <2>2, <2>3, <2>4 DEF Unfinished, Renewing, Current, Pending, Idle
  <2> QED  BY <2>4, <2>5, <2>6, <2>7 DEF GoodStep, Good, Turning
<1>3. CASE WriteDecision(t)
  <2>1. /\ Step(t, "decide", Idle) /\ review' = [r.copy EXCEPT !.decided = TRUE]
        /\ UNCHANGED <<index, catalog, stored, remediation, processed>>
    BY <1>3 DEF WriteDecision, packFiles
  <2>2. r.at = "decide"
    BY <2>1 DEF Step
  <2>3. review'.of = r.copy.of
    BY <1>m, <2>1, <2>2 DEF ShapeOfFlow, ReviewState
  <2>4. Turning(t) /\ request'[t] = Idle
    BY <2>1, TurningWhen
  <2>5. PackFiles => PackFiles'
    BY <2>1 DEF PackFiles, Indexed
  <2>6. Fresh(request[t])'
    BY <2>4 DEF Fresh, Pending, Idle
  <2>7. Unfinished(r) => Unfinished(request[t])'
    BY <2>1, <2>2, <2>3, <2>4 DEF Unfinished, Renewing, Current, Pending, Idle
  <2> QED  BY <2>4, <2>5, <2>6, <2>7 DEF GoodStep, Good, Turning
<1> QED  BY <1>1, <1>2, <1>3

LEMMA InitTurns == Init => Turns
<1> SUFFICES ASSUME Init PROVE Turns
  OBVIOUS
<1>1. PackFiles
  BY DEF Init, PackFiles
<1>2. Unfinished(Idle)
  BY DEF Init, Unfinished, Renewing, Executing, OfPack, Idle, Current, Middle, Pending, Absent
<1>3. \A t \in Thread : request[t] = Idle /\ Fresh(Idle)
  BY DEF Init, Fresh, Pending, Idle
<1> QED  BY <1>1, <1>2, <1>3 DEF Turns, Good

LEMMA NextTurns == Types /\ JobsHeld /\ Turns /\ [Next]_vars => Turns'
<1> SUFFICES ASSUME Types, JobsHeld, Turns, [Next]_vars PROVE Turns'
  OBVIOUS
<1>g. ASSUME NEW t \in Thread, GoodStep(t) PROVE Turns'
  BY <1>g, TurnStep DEF GoodStep, Turning
<1>p. ASSUME NEW t \in Thread, Turning(t), UNCHANGED PlainFiles,
             request[t].at \in Plain, request'[t].at \in Plain
      PROVE  Turns'
  <2>1. Good(t) => Good(t)'
    BY <1>p, PlainIsGood DEF Turning
  <2> QED  BY <1>g, <1>p, <2>1 DEF GoodStep
<1>1. CASE CreateWorkflow \/ UNCHANGED vars
  <2>1. UNCHANGED <<PlainFiles, request, deaths, overlapped>>
    BY <1>1 DEF CreateWorkflow, vars, PlainFiles, packFiles, runFiles, counters
  <2>2. UNCHANGED <<PackFiles, Busy, Unfinished(Idle)>>
    BY <2>1 DEF PlainFiles, PackFiles, Indexed, Busy, Unfinished, Renewing, Executing, Current
  <2>3. \A t \in Thread : Good(t) => Good(t)'
    BY <2>1, <2>2 DEF Good, PlainFiles, PackFiles, Fresh, CorpusReady, Indexed, Unfinished,
       Renewing, Executing, Current
  <2> QED  BY <2>1, <2>2, <2>3 DEF Turns, Alone
<1>2. CASE Die
  <2>1. /\ \A t \in Thread : request'[t] = Idle
        /\ UNCHANGED <<PlainFiles, overlapped>> /\ deaths' = deaths + 1
    BY <1>2 DEF Die, PlainFiles, packFiles, runFiles
  <2>2. deaths' # 0
    BY <2>1 DEF JobsHeld
  <2>3. PackFiles => PackFiles'
    BY <2>1 DEF PackFiles, PlainFiles, Indexed
  <2>4. \A t \in Thread : Fresh(request[t])'
    BY <2>1 DEF Fresh, Idle, Pending
  <2> QED  BY <2>1, <2>2, <2>3, <2>4 DEF Turns, Good
<1>3. ASSUME NEW t \in Thread, Continue(t) PROVE Turns'
  BY <1>3, <1>g, <1>p, PlainStays, IngestGood, ProcessGood, ExecutionGood, RemediationGood,
     ReviewGood DEF Continue
<1>4. ASSUME NEW t \in Thread,
             \/ \E e \in Item : Ingest(t, e)
             \/ \E items \in SUBSET Item : Process(t, items)
             \/ Refresh(t) \/ Execute(t) \/ ExecutePack(t)
             \/ Remediate(t) \/ RefreshRemediation(t) \/ Review(t)
             \/ \E j \in Job, type \in JobType : Submit(t, j, type)
             \/ \E j \in Job : Take(t, j)
      PROVE  Turns'
  BY <1>4, <1>g, <1>p, PlainStays, IngestGood, RemediationGood, ReviewGood
<1> QED  BY <1>1, <1>2, <1>3, <1>4 DEF Next

LEMMA Inductive == Spec => [](Types /\ JobsHeld /\ Turns)
<1>1. Init => JobsHeld
  BY DEF Init, JobsHeld, Unended
<1> QED
  BY <1>1, InitTyped, InitTurns, NextTyped, JobsStayHeld, NextTurns, PTL DEF Spec

\* As long as requests take turns, and wherever the process dies, the catalog
\* of a pack names no evidence that the index does not have.
THEOREM CatalogHolds == Spec => []CatalogIsIndexed
<1>1. Turns => CatalogIsIndexed
  BY DEF Turns, PackFiles, CatalogIsIndexed
<1> QED  BY <1>1, Inductive, PTL

\* As long as requests take turns, and wherever the process dies, a stored
\* audit rests on evidence that was processed: what failed, and what is still
\* being extracted or classified, is in no audit.
THEOREM AuditRests == Spec => []AuditedWasProcessed
<1>1. Turns => AuditedWasProcessed
  BY DEF Turns, PackFiles, AuditedWasProcessed
<1> QED  BY <1>1, Inductive, PTL

\* Between requests that take turns the review and the remediations on file
\* are of the audit on file, however often the run is executed again.
THEOREM ReviewHolds == Spec => []ReviewIsCurrent
<1>1. Turns => ReviewIsCurrent
  BY DEF Turns, Unfinished, Renewing, Executing, OfPack, Idle, Current, Calm, ReviewIsCurrent
<1> QED  BY <1>1, Inductive, PTL

\* Between requests that take turns no item is in the middle of its
\* processing, whichever of its steps failed.
THEOREM NoneStuck == Spec => []NothingIsStuck
<1>1. Turns => NothingIsStuck
  BY DEF Turns, Unfinished, Idle, Calm, NothingIsStuck, Middle, Pending
<1> QED  BY <1>1, Inductive, PTL
=============================================================================
