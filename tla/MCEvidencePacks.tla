-------------------------- MODULE MCEvidencePacks ---------------------------
(* EvidencePacks with two threads, which are interchangeable.  To bound the *)
(* run, a behaviour has a death or requests that overlap, not both, and the *)
(* latter with OverlapRequests requests.                                    *)
EXTENDS EvidencePacks, TLC

CONSTANT OverlapRequests

Symmetry == Permutations(Thread) \cup Permutations(Item)

OneFault == overlapped => deaths = 0 /\ requests <= OverlapRequests

MCSpec == Init /\ [][Next /\ OneFault']_vars
=============================================================================
