------------------------- MODULE MCDueScheduleScan -------------------------
(* Small instances of DueScheduleScan for TLC. *)
EXTENDS DueScheduleScan

CONSTANTS s1, s2, w1, w2, r1, r2

\* The strategy of the schedule of period 2 throws when asked at instant 2.
ThrowsOnce == {<<2, 2>>}

===========================================================================
