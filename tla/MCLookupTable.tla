---------------------------- MODULE MCLookupTable ----------------------------
(* Small instances of LookupTable for TLC: two buckets, two keys in the first *)
(* and one in the second.                                                     *)
EXTENDS LookupTable, TLC

CONSTANTS t1, t2, t3, k0, k1, k2, v1, v2

MCThreads == {t1, t2, t3}
MCTwoThreads == {t1, t2}
MCKeys == {k0, k1, k2}
MCValues == {v1, v2}
MCHash == k0 :> 0 @@ k1 :> 1 @@ k2 :> 2
===============================================================================
