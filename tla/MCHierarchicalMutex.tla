-------------------------- MODULE MCHierarchicalMutex --------------------------
(* Small instances of HierarchicalMutex for TLC: the two levels of p091 with *)
(* a third mutex, and two mutexes that share a level.                        *)
EXTENDS HierarchicalMutex, TLC

CONSTANTS t1, t2, t3, m10, m20, n20

MCThreads == {t1, t2, t3}
MCMutexes == {m10, m20, n20}
MCLevel == m10 :> 10 @@ m20 :> 20 @@ n20 :> 20
===============================================================================
