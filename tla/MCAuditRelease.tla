--------------------------- MODULE MCAuditRelease ---------------------------
(* AuditRelease with two threads, which are interchangeable.  To bound the  *)
(* run, requests do not overlap once the process has died, a behaviour with *)
(* overlap has FaultRequests requests, one less when an execution           *)
(* overlapped, when a narrative is made in it, or when there is a death     *)
(* instead, and two executions do not overlap.                              *)
EXTENDS AuditRelease, TLC

CONSTANT FaultRequests

Symmetry == Permutations(Thread)

Overlap == \E t, u \in Busy : t # u

Narrated == narrated # {} \/ \E t \in Busy : request[t].goal = "augment"

Bounded ==
    /\ Overlap => /\ deaths = 0 /\ requests <= FaultRequests
                  /\ \E t \in Busy : request[t].goal # "execute"
                  /\ Narrated => requests < FaultRequests
    /\ raced => requests < FaultRequests /\ deaths = 0
    /\ deaths > 0 => requests < FaultRequests

MCSpec == Init /\ [][Next /\ Bounded']_vars
=============================================================================
