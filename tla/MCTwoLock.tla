------------------------------- MODULE MCTwoLock -------------------------------
(* Small instances of the two-lock queues for TLC: the program is p236 or p241, *)
(* chosen at the start.                                                         *)
EXTENDS TwoLockWaitQueue, TLC

CONSTANTS t1, t2, t3, v1, v2, n1, n2, n3, n4

VARIABLE program   \* which of the two runs

P236 == INSTANCE TwoLockQueue WITH CondVar <- FALSE

MCThreads == {t1, t2, t3}
MCTwoThreads == {t1, t2}
MCValues == {v1, v2}
MCNodes == {n1, n2, n3, n4}

\* Threads and addresses are interchangeable, in the abstract specification too;
\* no liveness property is checked with this.
ThreadAndNodeSymmetry == Permutations(MCThreads) \cup Permutations(MCNodes)

MCInit == WaitInit /\ program \in {"p236", "p241"}

MCNext == /\ \/ program = "p236" /\ P236!Next /\ UNCHANGED waiting
             \/ program = "p241" /\ WaitNext
          /\ UNCHANGED program

MCSpec == MCInit /\ [][MCNext]_<<vars, program>>

MCFairSpec == MCSpec /\ Fairness
===============================================================================
