----------------------------- MODULE MCAuditRuns -----------------------------
(* AuditRuns with two processes, which are interchangeable.  To bound the   *)
(* run, a behaviour has handlers that overlap or a death, not both.         *)
EXTENDS AuditRuns, TLC

Symmetry == Permutations(Proc)

OneFault == overlapped => deaths = 0

MCSpec == Init /\ [][Next /\ OneFault']_vars
=============================================================================
