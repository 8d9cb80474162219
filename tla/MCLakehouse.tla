---------------------------- MODULE MCLakehouse ----------------------------
EXTENDS Lakehouse, TLC
CONSTANTS k1, k2

\* The first batch describes both keys, the second only one of them.
MCKeysOf == 1 :> {k1, k2} @@ 2 :> {k2}
=============================================================================
