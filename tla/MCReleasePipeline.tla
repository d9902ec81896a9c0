------------------------- MODULE MCReleasePipeline --------------------------
(* Two audits for TLC, and the three kinds of gates that other tools hand   *)
(* in: a pass, a pass that gives reasons, and a block.                      *)
EXTENDS ReleasePipeline, TLC

CONSTANTS a1, a2

MCGate == {[status |-> "PASS", ready |-> TRUE, reasons |-> FALSE],
           [status |-> "PASS", ready |-> TRUE, reasons |-> TRUE],
           [status |-> "BLOCKED", ready |-> FALSE, reasons |-> TRUE]}

\* Nothing orders audits or tells them apart.
AuditSymmetry == Permutations(Audit)

\* Bound: a death, or a start while something else is under way, but not both.
OneFault == deaths = 0 \/ calm

MCSpec == Init /\ [][Next /\ OneFault']_vars
=============================================================================
