--------------------------- MODULE MCScheduleChain ---------------------------
(* ScheduleChain with one schedule that is due every day.                   *)
EXTENDS ScheduleChain
=============================================================================
