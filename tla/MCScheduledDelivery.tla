----------------------- MODULE MCScheduledDelivery -----------------------
(* Small instances of ScheduledDelivery for TLC. *)
EXTENDS ScheduledDelivery, TLC

CONSTANTS e1, e2, r1, r2, q1, o1, o2, c1, c2, c3

\* Calls of a behaviour are interchangeable, and so are ticks.
Symmetry == Permutations(Calls) \cup Permutations(Runners)

===========================================================================
