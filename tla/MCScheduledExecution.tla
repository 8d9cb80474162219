----------------------- MODULE MCScheduledExecution -----------------------
(* A small instance of ScheduledExecution for TLC. *)
EXTENDS ScheduledExecution, TLC

CONSTANTS e1, e2, r1, q1, o1
===========================================================================
