----------------------------- MODULE MCLockedList -----------------------------
(* Small instances of LockedList for TLC. *)
EXTENDS LockedList, TLC

CONSTANTS t1, t2, t3, v1, v2, n1, n2, n3

MCThreads == {t1, t2, t3}
MCValues == {v1, v2}
MCNodes == {n1, n2, n3}

\* for_each exchanges the two values: neither idempotent nor constant.
MCImage == v1 :> v2 @@ v2 :> v1

\* Threads, addresses and the two values are interchangeable, in the abstract
\* specification too; no liveness property is checked with this.
ListSymmetry == Permutations(MCThreads) \cup Permutations(MCNodes) \cup Permutations(MCValues)
===============================================================================
