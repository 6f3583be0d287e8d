------------------------------- MODULE MCStacks -------------------------------
(***************************************************************************)
(* Small instances of the three lock-free stacks for TLC: the program is   *)
(* p270, p272 or p281, chosen at the start, and the promises they share    *)
(* are stated once for all of them.                                        *)
(***************************************************************************)
EXTENDS CountedStack, TLC

CONSTANTS Slots, NoThread,   \* of HazardStack
          t1, t2, t3, v1, v2, n1, n2, n3

\* p281 makes one call less, and that is a number of calls.
ASSUME HazardAssumption == Slots \in Nat \ {0} /\ NoThread \notin Threads /\ MaxCalls # 0

VARIABLES slotOwner, hazard, slot, index, reclaim, taken,   \* of HazardStack
          program                                           \* which of the three runs

hazardVars == <<slotOwner, hazard, slot, index, reclaim, taken>>

\* p281 has more steps in a call, and one call less.
H == INSTANCE HazardStack WITH MaxCalls <- MaxCalls - 1

MCThreads == {t1, t2, t3}
MCTwoThreads == {t1, t2}
MCValues == {v1, v2}
MCNodes == {n1, n2, n3}
MCTwoNodes == {n1, n2}

\* Threads and addresses are interchangeable, in the abstract specification too;
\* no liveness property is checked with this.
ThreadAndNodeSymmetry == Permutations(MCThreads) \cup Permutations(MCNodes)

MCInit == CountedInit /\ H!HazardInit /\ program \in {"p270", "p272", "p281"}

MCNext == /\ \/ program = "p270" /\ Next /\ UNCHANGED <<reclaimVars, hazardVars>>
             \/ program = "p272" /\ CountedNext /\ UNCHANGED hazardVars
             \/ program = "p281" /\ H!HazardNext /\ UNCHANGED reclaimVars
          /\ UNCHANGED program

MCSpec == MCInit /\ [][MCNext]_<<stackVars, hazardVars, program>>
-------------------------------------------------------------------------------
(* Properties. *)

\* Every variable has its type; p272's counter counts the threads inside pop
\* (p272:41, p272:50, p272:91), and a slot of p281's table belongs to the one
\* thread that keeps it (p281:32).
StacksTypeOK == CASE program = "p270" -> TypeOK
                  [] program = "p272" -> CountedTypeOK
                  [] program = "p281" -> H!HazardTypeOK

\* A node is never freed while a thread that read the head before may still look
\* into it: that is what the count of p272:91 and the hazard pointer of p281:162
\* are for.
NoAccessAfterFree == CASE program = "p272" -> NoUseAfterFree
                       [] program = "p281" -> H!NoUseAfterFree
                       [] OTHER -> TRUE

\* The two ways of reclaiming leak nothing and free nothing twice, although
\* threads take, extend and put back the lists of waiting nodes at the same time
\* (p272:37, p281:109).
EveryNodeHasOneOwner == CASE program = "p272" -> NodesHaveOneOwner
                          [] program = "p281" -> H!NodesHaveOneOwner
                          [] OTHER -> TRUE

\* No field of a node is changed or freed while another thread may read it, but
\* for p272's links of nodes that have left the stack (p272:67 against p272:100).
RacesOnlyOnLeftNodes == IF program = "p281" THEN H!NoDataRace ELSE LinkRacesOnly

\* push and pop of all three take effect at one instant each and in LIFO order;
\* the exchanges are not deceived by an address that was freed and used again
\* (the ABA problem at p272:100 and p281:165).
Lifo == INSTANCE LifoStack WITH
            items <- Contents,
            got   <- [t \in Threads |-> IF program = "p281" THEN H!HazardResult(t) ELSE Result(t)]
StacksAreLifo == Lifo!Spec
===============================================================================
