------------------------- MODULE SynchronizationProofs -------------------------
(***************************************************************************)
(* Proofs about the two kinds of synchronization that the repository builds*)
(* on or shows by themselves.                                              *)
(*                                                                         *)
(* First the hierarchical mutex, for every set of threads and mutexes and  *)
(* every assignment of levels: types, ownership, the fall of the levels,   *)
(* and that no set of threads can wait in a circle.                        *)
(*                                                                         *)
(* Then the programs about memory orders, for every number of items,       *)
(* rounds and polls: a program keeps its memory sound (MemOK), and what a  *)
(* thread may still read there follows from what it has seen (Seen), what  *)
(* the entries of a flag pass on (Passes) and what the newest one does     *)
(* (Leads).  Each program has an invariant in these terms; OrdersInv is    *)
(* that of the program that was chosen.                                    *)
(***************************************************************************)
EXTENDS HierarchicalMutex, MemoryOrders, TLAPS, FiniteSetTheorems, SequenceTheorems, WellFoundedInduction

\* The levels fall between any two guards of a thread, not only neighbours.
Falling == \A t \in Threads : \A i, j \in DOMAIN held[t] :
               i < j => Level[held[t][j]] < Level[held[t][i]]

\* The inductive invariant.  Falling makes the mutexes of a thread distinct, so
\* that closing a guard gives up that mutex and no other.
IInv == TypeOK /\ OwnersHold /\ LevelsDescend /\ Falling

\* Closing the innermost guard leaves the others as they were.
LEMMA FrontProps ==
  ASSUME NEW s \in Seq(Mutexes), s # <<>>
  PROVE  /\ SubSeq(s, 1, Len(s) - 1) \in Seq(Mutexes)
         /\ Len(SubSeq(s, 1, Len(s) - 1)) = Len(s) - 1
         /\ \A i \in 1 .. (Len(s) - 1) : SubSeq(s, 1, Len(s) - 1)[i] = s[i]
<1>1. Len(s) \in Nat \ {0} /\ \A i \in 1 .. Len(s) : s[i] \in Mutexes
  BY LenProperties, EmptySeq, ElementOfSeq
<1> DEFINE n == Len(s) - 1
<1>2. n \in Int /\ \A i \in 1 .. n : s[i] \in Mutexes
  BY <1>1
<1>3. /\ SubSeq(s, 1, n) \in Seq(Mutexes)
      /\ Len(SubSeq(s, 1, n)) = (IF 1 <= n THEN n - 1 + 1 ELSE 0)
      /\ \A i \in 1 .. n - 1 + 1 : SubSeq(s, 1, n)[i] = s[1 + i - 1]
  <2> HIDE DEF n
  <2> QED
    BY <1>2, SubSeqProperties
<1>4. Len(s) - 1 = n /\ n \in Nat
  BY <1>1
<1> HIDE DEF n
<1>5. n - 1 + 1 = n /\ \A i \in 1 .. n : 1 + i - 1 = i
  BY <1>4
<1>6. Len(SubSeq(s, 1, n)) = n
  BY <1>3, <1>4
<1>7. ASSUME NEW i \in 1 .. n PROVE SubSeq(s, 1, n)[i] = s[i]
  BY <1>3, <1>5
<1> QED
  BY <1>3, <1>4, <1>6, <1>7

\* With no guards the invariant holds.
LEMMA InitIInv == Init => IInv
  BY HierarchicalMutexAssumption
  DEF Init, IInv, TypeOK, OwnersHold, LevelsDescend, GuardsDescend, Depth, Outside, Falling

\* The i-th guard of a thread: its mutex is one, and the thread owns it.
LEMMA Guards ==
  ASSUME TypeOK, OwnersHold
  PROVE  \A t \in Threads : /\ Len(held[t]) \in Nat
                            /\ DOMAIN held[t] = 1 .. Len(held[t])
                            /\ held[t] # <<>> => Len(held[t]) > 0
                            /\ \A i \in 1 .. Len(held[t]) : /\ held[t][i] \in Mutexes
                                                            /\ Level[held[t][i]] \in Nat
                                                            /\ owner[held[t][i]] = t
<1> SUFFICES ASSUME NEW t \in Threads
             PROVE  /\ Len(held[t]) \in Nat
                    /\ DOMAIN held[t] = 1 .. Len(held[t])
                    /\ held[t] # <<>> => Len(held[t]) > 0
                    /\ \A i \in 1 .. Len(held[t]) : /\ held[t][i] \in Mutexes
                                                    /\ Level[held[t][i]] \in Nat
                                                    /\ owner[held[t][i]] = t
  OBVIOUS
<1>1. held[t] \in Seq(Mutexes)
  BY DEF TypeOK
<1>2. Len(held[t]) \in Nat /\ DOMAIN held[t] = 1 .. Len(held[t])
  BY <1>1, LenProperties
<1>3. held[t] # <<>> => Len(held[t]) > 0
  BY <1>1, EmptySeq
<1>4. \A i \in 1 .. Len(held[t]) : held[t][i] \in Mutexes
  BY <1>1, ElementOfSeq
<1>5. \A i \in 1 .. Len(held[t]) : owner[held[t][i]] = t
  BY <1>2, <1>4 DEF OwnersHold
<1>6. \A i \in 1 .. Len(held[t]) : Level[held[t][i]] \in Nat
  BY <1>4, HierarchicalMutexAssumption
<1> QED
  BY <1>2, <1>3, <1>4, <1>5, <1>6

\* The mutex a thread is locking lies below every mutex it has.
LEMMA TargetIsLowest ==
  ASSUME IInv, NEW t \in Threads, target[t] \in Mutexes, NEW i \in 1 .. Len(held[t])
  PROVE  Level[target[t]] < Level[held[t][i]]
<1> DEFINE n == Len(held[t])
<1>1. n \in Nat /\ DOMAIN held[t] = 1 .. n /\ i \in 1 .. n
  BY Guards DEF IInv
<1>2. Level[held[t][i]] \in Nat /\ Level[held[t][n]] \in Nat /\ Level[target[t]] \in Nat
  BY <1>1, Guards, HierarchicalMutexAssumption DEF IInv
<1>3. thrLevel[t] = Level[held[t][n]]
  <2>1. pc[t] \notin {"unlock", "unlock_unwinding"}
    BY DEF IInv, TypeOK
  <2>2. thrLevel[t] = Outside(t, n + 1)
    BY <2>1 DEF IInv, LevelsDescend, Depth
  <2>3. n + 1 # 1 /\ (n + 1) - 1 = n
    BY <1>1
  <2> QED
    BY <2>2, <2>3 DEF Outside
<1>4. Level[target[t]] < thrLevel[t]
  BY DEF IInv, LevelsDescend
<1>5. i = n \/ Level[held[t][n]] < Level[held[t][i]]
  BY <1>1 DEF IInv, Falling
<1> QED
  BY <1>2, <1>3, <1>4, <1>5

\* The steps that close or open no guard and change no level.
LEMMA FrameIInv ==
  ASSUME IInv, TypeOK', NEW t \in Threads,
         UNCHANGED <<prev, thrLevel, held>>,
         \A u \in Threads \ {t} : pc'[u] = pc[u] /\ target'[u] = target[u],
         pc[t] \notin {"unlock", "unlock_unwinding"},
         pc'[t] \notin {"unlock", "unlock_unwinding"},
         target'[t] \in Mutexes => Level[target'[t]] < thrLevel[t]
  PROVE  LevelsDescend' /\ Falling'
<1>1. \A u \in Threads : GuardsDescend(u)' /\ Depth(u)' = Depth(u)
  BY DEF IInv, LevelsDescend, GuardsDescend, Depth, Outside
<1>2. \A u \in Threads : thrLevel'[u] = Outside(u, Depth(u) + 1)'
  BY <1>1 DEF IInv, LevelsDescend, Outside
<1>3. \A u \in Threads : target'[u] \in Mutexes => Level[target'[u]] < thrLevel'[u]
  BY DEF IInv, LevelsDescend
<1>4. Falling'
  BY DEF IInv, Falling
<1> QED
  BY <1>1, <1>2, <1>3, <1>4 DEF LevelsDescend

\* Every step of every thread preserves the invariant.
LEMMA NextIInv == IInv /\ [Next]_vars => IInv'
<1> SUFFICES ASSUME IInv, [Next]_vars PROVE IInv'
  OBVIOUS
<1> USE HierarchicalMutexAssumption
<1>0. \A t \in Threads : /\ Len(held[t]) \in Nat
                         /\ DOMAIN held[t] = 1 .. Len(held[t])
                         /\ held[t] # <<>> => Len(held[t]) > 0
                         /\ \A i \in 1 .. Len(held[t]) : /\ held[t][i] \in Mutexes
                                                         /\ Level[held[t][i]] \in Nat
                                                         /\ owner[held[t][i]] = t
  BY Guards DEF IInv
\* The steps that change no guard and no remembered level.
<1>1. ASSUME NEW t \in Threads, NEW m \in Mutexes, CallLock(t, m) PROVE IInv'
  <2>1. TypeOK'
    BY <1>1 DEF IInv, TypeOK, CallLock, Goto
  <2>2. OwnersHold'
    BY <1>1 DEF IInv, TypeOK, OwnersHold, CallLock, Goto
  <2>3. LevelsDescend' /\ Falling'
    BY <1>1, <2>1, FrameIInv DEF IInv, TypeOK, CallLock, Allowed, Goto
  <2> QED
    BY <2>1, <2>2, <2>3 DEF IInv
<1>2. ASSUME NEW t \in Threads, NEW m \in Mutexes, CallTryLock(t, m) PROVE IInv'
  <2>1. TypeOK'
    BY <1>2 DEF IInv, TypeOK, CallTryLock, Goto
  <2>2. OwnersHold'
    BY <1>2 DEF IInv, TypeOK, OwnersHold, CallTryLock, Goto
  <2>3. LevelsDescend' /\ Falling'
    BY <1>2, <2>1, FrameIInv DEF IInv, TypeOK, CallTryLock, Allowed, Goto
  <2> QED
    BY <2>1, <2>2, <2>3 DEF IInv
<1>3. ASSUME NEW t \in Threads, NEW m \in Mutexes, Violation(t, m) PROVE IInv'
  <2>1. TypeOK'
    BY <1>3 DEF IInv, TypeOK, Violation, Goto
  <2>2. OwnersHold'
    BY <1>3 DEF IInv, TypeOK, OwnersHold, Violation, Goto
  <2>3. LevelsDescend' /\ Falling'
    BY <1>3, <2>1, FrameIInv DEF IInv, TypeOK, Violation, Goto
  <2> QED
    BY <2>1, <2>2, <2>3 DEF IInv
<1>4. ASSUME NEW t \in Threads, Acquire(t) PROVE IInv'
  <2>1. TypeOK'
    BY <1>4 DEF IInv, TypeOK, Acquire, Goto
  <2>2. OwnersHold'
    <3>1. \A m \in Mutexes : owner'[m] = IF m = target[t] THEN t ELSE owner[m]
      BY <1>4 DEF IInv, TypeOK, Acquire
    <3>2. \A u \in Threads : \A i \in DOMAIN held[u] : held[u][i] # target[t]
      BY <1>0, <1>4 DEF Acquire
    <3>3. ASSUME NEW m \in Mutexes, NEW u \in Threads
          PROVE  owner'[m] = u <=> \/ \E i \in DOMAIN held'[u] : held'[u][i] = m
                                   \/ pc'[u] = "update" /\ target'[u] = m
      <4>1. owner[m] = u <=> \/ \E i \in DOMAIN held[u] : held[u][i] = m
                             \/ pc[u] = "update" /\ target[u] = m
        BY DEF IInv, OwnersHold
      <4> QED
        BY <4>1, <3>1, <3>2, <1>4 DEF IInv, TypeOK, Acquire, Goto
    <3> QED
      BY <3>3 DEF OwnersHold
  <2>3. LevelsDescend' /\ Falling'
    BY <1>4, <2>1, FrameIInv DEF IInv, TypeOK, LevelsDescend, Acquire, Goto
  <2> QED
    BY <2>1, <2>2, <2>3 DEF IInv
<1>5. ASSUME NEW t \in Threads, TryFails(t) PROVE IInv'
  <2>1. TypeOK'
    BY <1>5 DEF IInv, TypeOK, TryFails, Goto
  <2>2. OwnersHold'
    BY <1>5 DEF IInv, TypeOK, OwnersHold, TryFails, Goto
  <2>3. LevelsDescend' /\ Falling'
    BY <1>5, <2>1, FrameIInv DEF IInv, TypeOK, TryFails, Goto
  <2> QED
    BY <2>1, <2>2, <2>3 DEF IInv
<1>6. ASSUME NEW t \in Threads, Catch(t) PROVE IInv'
  <2>1. TypeOK'
    BY <1>6 DEF IInv, TypeOK, Catch, Goto
  <2>2. OwnersHold'
    BY <1>6 DEF IInv, TypeOK, OwnersHold, Catch, Goto
  <2>3. LevelsDescend' /\ Falling'
    BY <1>6, <2>1, FrameIInv DEF IInv, TypeOK, LevelsDescend, Catch, Goto
  <2> QED
    BY <2>1, <2>2, <2>3 DEF IInv
\* A new innermost guard, on a mutex below all the others.
<1>7. ASSUME NEW t \in Threads, Update(t) PROVE IInv'
  <2> DEFINE n == Len(held[t])
             m == target[t]
  <2>1. /\ m \in Mutexes /\ pc[t] = "update" /\ owner[m] = t /\ owner' = owner
        /\ Level[m] \in 0 .. MaxLevel /\ thrLevel[t] \in 0 .. MaxLevel
        /\ n \in Nat /\ held[t] \in Seq(Mutexes)
    BY <1>7, <1>0 DEF IInv, TypeOK, OwnersHold, Update
  <2>2. held' = [held EXCEPT ![t] = Append(held[t], m)]
    BY <1>7 DEF Update
  <2>3. /\ held'[t] = Append(held[t], m)
        /\ \A u \in Threads \ {t} : held'[u] = held[u]
    BY <2>2 DEF IInv, TypeOK
  <2>4. /\ held'[t] \in Seq(Mutexes)
        /\ Len(held'[t]) = n + 1
        /\ \A i \in 1 .. n : held'[t][i] = held[t][i]
        /\ held'[t][n + 1] = m
    BY <2>1, <2>3, AppendProperties
  <2>5. DOMAIN held'[t] = 1 .. (n + 1)
    BY <2>4, LenProperties
  <2>6. /\ prev' = [prev EXCEPT ![m] = thrLevel[t]]
        /\ thrLevel' = [thrLevel EXCEPT ![t] = Level[m]]
        /\ target' = [target EXCEPT ![t] = NoMutex]
        /\ pc' = [pc EXCEPT ![t] = "running"]
        /\ calls' = calls
    BY <1>7 DEF Update, Goto
  <2>7. /\ prev'[m] = thrLevel[t]
        /\ \A x \in Mutexes \ {m} : prev'[x] = prev[x]
        /\ thrLevel'[t] = Level[m] /\ pc'[t] = "running" /\ target'[t] = NoMutex
        /\ \A u \in Threads \ {t} : /\ thrLevel'[u] = thrLevel[u]
                                    /\ pc'[u] = pc[u]
                                    /\ target'[u] = target[u]
    BY <2>1, <2>6 DEF IInv, TypeOK
  <2>8. TypeOK'
    <3>1. held' \in [Threads -> Seq(Mutexes)]
      BY <2>2, <2>3, <2>4 DEF IInv, TypeOK
    <3>2. prev' \in [Mutexes -> 0 .. MaxLevel] /\ thrLevel' \in [Threads -> 0 .. MaxLevel]
      BY <2>1, <2>6 DEF IInv, TypeOK
    <3>3. \A u \in Threads : pc'[u] \in {"unlock", "unlock_unwinding"} => held'[u] # <<>>
      BY <2>3, <2>7 DEF IInv, TypeOK
    <3>4. Level[m] < thrLevel[t]
      BY <2>1 DEF IInv, LevelsDescend
    <3>5. \A x \in Mutexes : prev'[x] = 0 \/ Level[x] < prev'[x]
      BY <2>7, <3>4 DEF IInv, TypeOK
    <3> HIDE DEF m
    <3> QED
      BY <2>1, <2>6, <3>1, <3>2, <3>3, <3>5 DEF IInv, TypeOK
  <2>9. \A u \in Threads \ {t} : \A i \in 1 .. Len(held[u]) : held[u][i] # m
    BY <1>0, <2>1
  <2>10. \A i \in 1 .. n : Level[m] < Level[held[t][i]]
    BY <2>1, TargetIsLowest
  <2>11. \A i \in 1 .. n : held[t][i] # m /\ held[t][i] \in Mutexes
    BY <1>0, <2>1, <2>10
  <2>12. OwnersHold'
    <3>1. ASSUME NEW x \in Mutexes, NEW u \in Threads
          PROVE  owner'[x] = u <=> \/ \E i \in DOMAIN held'[u] : held'[u][i] = x
                                   \/ pc'[u] = "update" /\ target'[u] = x
      <4>1. owner'[x] = u <=> \/ \E i \in DOMAIN held[u] : held[u][i] = x
                              \/ pc[u] = "update" /\ target[u] = x
        BY <2>1 DEF IInv, OwnersHold
      <4>2. CASE u # t
        BY <4>1, <4>2, <2>3, <2>7
      <4>3. CASE u = t
        <5>1. (\E i \in DOMAIN held'[t] : held'[t][i] = x)
                <=> x = m \/ \E i \in DOMAIN held[t] : held[t][i] = x
          <6>1. ASSUME NEW i \in DOMAIN held'[t], held'[t][i] = x, x # m
                PROVE  i \in DOMAIN held[t] /\ held[t][i] = x
            <7>1. i # n + 1
              BY <6>1, <2>4
            <7>2. i \in 1 .. n
              BY <7>1, <2>1, <2>5
            <7> QED
              BY <6>1, <7>2, <1>0, <2>4
          <6>2. ASSUME NEW i \in DOMAIN held[t], held[t][i] = x
                PROVE  i \in DOMAIN held'[t] /\ held'[t][i] = x
            <7>1. i \in 1 .. n
              BY <1>0
            <7>2. i \in 1 .. (n + 1)
              BY <7>1, <2>1
            <7> QED
              BY <6>2, <7>1, <7>2, <2>4, <2>5
          <6>3. n + 1 \in DOMAIN held'[t] /\ held'[t][n + 1] = m
            BY <2>1, <2>4, <2>5
          <6>4. ASSUME x = m PROVE \E i \in DOMAIN held'[t] : held'[t][i] = x
            BY <6>3, <6>4
          <6> HIDE DEF m
          <6> QED
            BY <6>1, <6>2, <6>4
        <5> QED
          BY <4>1, <4>3, <5>1, <2>1, <2>7
      <4> QED
        BY <4>2, <4>3
    <3> QED
      BY <3>1 DEF OwnersHold
  <2>13. LevelsDescend'
    <3>1. ASSUME NEW u \in Threads \ {t}
          PROVE  /\ GuardsDescend(u)'
                 /\ thrLevel'[u] = Outside(u, Depth(u) + 1)'
                 /\ target'[u] \in Mutexes => Level[target'[u]] < thrLevel'[u]
      <4>1. held'[u] = held[u] /\ pc'[u] = pc[u] /\ thrLevel'[u] = thrLevel[u]
        BY <2>3, <2>7
      <4>2. \A i \in 1 .. Len(held[u]) : prev'[held[u][i]] = prev[held[u][i]]
        BY <1>0, <2>7, <2>9
      <4>3. GuardsDescend(u)'
        BY <4>1, <4>2, <1>0 DEF IInv, LevelsDescend, GuardsDescend, Outside
      <4>4. thrLevel'[u] = Outside(u, Depth(u) + 1)'
        BY <4>1 DEF IInv, LevelsDescend, Outside, Depth
      <4> QED
        BY <4>1, <4>3, <4>4, <2>7 DEF IInv, LevelsDescend
    <3>2. thrLevel[t] = Outside(t, n + 1) /\ Level[m] < thrLevel[t]
      BY <2>1 DEF IInv, LevelsDescend, Depth
    <3>3. \A i \in 1 .. (n + 1) : Outside(t, i)' = Outside(t, i)
      <4>1. ASSUME NEW i \in 1 .. (n + 1), i # 1 PROVE i - 1 \in 1 .. n
        BY <4>1, <2>1
      <4> QED
        BY <4>1, <2>4 DEF Outside
    <3>4. \A i \in 1 .. n : /\ Level[held[t][i]] < Outside(t, i)
                            /\ prev[held[t][i]] = Outside(t, i)
      BY <1>0 DEF IInv, LevelsDescend, GuardsDescend
    <3>5. ASSUME NEW i \in 1 .. (n + 1)
          PROVE  Level[held'[t][i]] < Outside(t, i)' /\ prev'[held'[t][i]] = Outside(t, i)'
      <4>1. CASE i = n + 1
        <5>1. held'[t][i] = m
          BY <4>1, <2>4
        <5>2. Outside(t, i)' = Outside(t, n + 1)
          BY <4>1, <3>3
        <5>3. prev'[m] = thrLevel[t]
          BY <2>7
        <5> QED
          BY <5>1, <5>2, <5>3, <3>2
      <4>2. CASE i \in 1 .. n
        <5>1. held'[t][i] = held[t][i] /\ prev'[held[t][i]] = prev[held[t][i]]
          BY <4>2, <2>4, <2>7, <2>11
        <5>2. Outside(t, i)' = Outside(t, i)
          BY <3>3
        <5> QED
          BY <4>2, <5>1, <5>2, <3>4
      <4> QED
        BY <4>1, <4>2, <2>1
    <3>6. Depth(t)' = n + 1
      BY <2>4, <2>7 DEF Depth
    <3>7. thrLevel'[t] = Outside(t, Depth(t) + 1)'
      <4>1. (n + 1) + 1 # 1 /\ (n + 1) + 1 - 1 = n + 1
        BY <2>1
      <4> QED
        BY <4>1, <3>6, <2>4, <2>7 DEF Outside
    <3> QED
      BY <3>1, <3>5, <3>7, <2>5, <2>7, HierarchicalMutexAssumption DEF LevelsDescend, GuardsDescend
  <2>14. Falling'
    <3>1. ASSUME NEW i \in 1 .. (n + 1), NEW j \in 1 .. (n + 1), i < j
          PROVE  Level[held'[t][j]] < Level[held'[t][i]]
      <4>1. i \in 1 .. n /\ held'[t][i] = held[t][i]
        <5>1. n \in Nat /\ i <= n /\ i \in Nat \ {0}
          BY <3>1, <2>1
        <5> QED
          BY <5>1, <2>4
      <4>2. CASE j = n + 1
        BY <4>1, <4>2, <2>4, <2>10
      <4>3. CASE j \in 1 .. n
        BY <4>1, <4>3, <3>1, <2>4, <1>0 DEF IInv, Falling
      <4> QED
        BY <4>2, <4>3, <2>1
    <3>2. \A u \in Threads \ {t} : \A i, j \in DOMAIN held'[u] :
              i < j => Level[held'[u][j]] < Level[held'[u][i]]
      BY <2>3 DEF IInv, Falling
    <3> QED
      BY <3>1, <3>2, <2>5 DEF Falling
  <2> QED
    BY <2>8, <2>12, <2>13, <2>14 DEF IInv
\* The level outside the innermost guard is the one its mutex remembers.
<1>8. ASSUME NEW t \in Threads, Restore(t) PROVE IInv'
  <2> DEFINE n == Len(held[t])
  <2>1. n \in DOMAIN held[t] /\ n \in Nat /\ n > 0
    BY <1>8, <1>0 DEF Restore
  <2>2. prev[Innermost(t)] = Outside(t, n)
    BY <2>1 DEF IInv, LevelsDescend, GuardsDescend, Innermost
  <2>3. prev[Innermost(t)] \in 0 .. MaxLevel
    BY <2>1, <1>0 DEF IInv, TypeOK, Innermost
  <2>4. /\ pc[t] \in {"running", "unwinding"} /\ held[t] # <<>>
        /\ thrLevel' = [thrLevel EXCEPT ![t] = prev[Innermost(t)]]
        /\ pc' = [pc EXCEPT ![t] = IF pc[t] = "running" THEN "unlock" ELSE "unlock_unwinding"]
        /\ UNCHANGED <<owner, prev, held, target, calls>>
    BY <1>8 DEF Restore, Goto
  <2>5. TypeOK'
    BY <2>3, <2>4 DEF IInv, TypeOK
  <2>6. /\ pc'[t] \in {"unlock", "unlock_unwinding"} /\ thrLevel'[t] = prev[Innermost(t)]
        /\ \A u \in Threads \ {t} : thrLevel'[u] = thrLevel[u] /\ pc'[u] = pc[u]
    BY <2>4 DEF IInv, TypeOK
  <2>7. OwnersHold'
    <3>1. \A u \in Threads : pc'[u] = "update" <=> pc[u] = "update"
      BY <2>4, <2>6
    <3> QED
      BY <2>4, <3>1 DEF IInv, OwnersHold
  <2>8. LevelsDescend'
    <3>1. \A u \in Threads : GuardsDescend(u)'
      BY <2>4 DEF IInv, LevelsDescend, GuardsDescend, Outside
    <3>2. ASSUME NEW u \in Threads \ {t}
          PROVE  /\ thrLevel'[u] = Outside(u, Depth(u) + 1)'
                 /\ target'[u] \in Mutexes => Level[target'[u]] < thrLevel'[u]
      BY <2>4, <2>6 DEF IInv, LevelsDescend, Outside, Depth
    <3>3. Depth(t)' + 1 = n
      BY <2>1, <2>4, <2>6 DEF Depth
    <3>4. thrLevel'[t] = Outside(t, Depth(t) + 1)'
      BY <2>2, <2>4, <2>6, <3>3 DEF Outside
    <3>5. target'[t] \notin Mutexes
      BY <2>4 DEF IInv, TypeOK
    <3> QED
      BY <3>1, <3>2, <3>4, <3>5 DEF LevelsDescend
  <2>9. Falling'
    BY <2>4 DEF IInv, Falling
  <2> QED
    BY <2>5, <2>7, <2>8, <2>9 DEF IInv
\* The innermost guard is gone, and with it this one mutex.
<1>9. ASSUME NEW t \in Threads, Release(t) PROVE IInv'
  <2> DEFINE n == Len(held[t])
             m == held[t][n]
  <2>1. pc[t] \in {"unlock", "unlock_unwinding"} /\ held[t] # <<>> /\ held[t] \in Seq(Mutexes)
    BY <1>9 DEF IInv, TypeOK, Release
  <2>2. n \in Nat /\ n > 0 /\ n \in 1 .. n /\ m \in Mutexes /\ owner[m] = t
    BY <2>1, <1>0
  <2>3. /\ owner' = [owner EXCEPT ![m] = NoThread]
        /\ held' = [held EXCEPT ![t] = SubSeq(held[t], 1, Len(held[t]) - 1)]
        /\ pc' = [pc EXCEPT ![t] = IF pc[t] = "unlock" THEN "running" ELSE "unwinding"]
        /\ UNCHANGED <<prev, thrLevel, target, calls>>
    BY <1>9 DEF Release, Innermost, Goto
  <2>4. /\ held'[t] = SubSeq(held[t], 1, Len(held[t]) - 1)
        /\ \A u \in Threads \ {t} : held'[u] = held[u] /\ pc'[u] = pc[u]
        /\ pc'[t] \in {"running", "unwinding"}
    BY <2>3 DEF IInv, TypeOK
  <2>5. /\ held'[t] \in Seq(Mutexes)
        /\ Len(held'[t]) = n - 1
        /\ \A i \in 1 .. (n - 1) : held'[t][i] = held[t][i]
    BY <2>1, <2>4, FrontProps
  <2>6. DOMAIN held'[t] = 1 .. (n - 1) /\ n - 1 \in Nat
    BY <2>2, <2>5, LenProperties
  <2>7. TypeOK'
    <3>1. held' \in [Threads -> Seq(Mutexes)]
      BY <2>3, <2>4, <2>5 DEF IInv, TypeOK
    <3>2. owner' \in [Mutexes -> Threads \cup {NoThread}]
      BY <2>3 DEF IInv, TypeOK
    <3>3. \A u \in Threads : pc'[u] \in {"unlock", "unlock_unwinding"} => held'[u] # <<>>
      BY <2>4 DEF IInv, TypeOK
    <3>4. \A u \in Threads : target'[u] \in Mutexes <=> pc'[u] \in {"lock", "try_lock", "update"}
      BY <2>1, <2>3, <2>4 DEF IInv, TypeOK
    <3>5. pc' \in [Threads -> {"running", "lock", "try_lock", "update",
                               "unlock", "unlock_unwinding", "unwinding"}]
      BY <2>3 DEF IInv, TypeOK
    <3> QED
      BY <2>3, <3>1, <3>2, <3>3, <3>4, <3>5 DEF IInv, TypeOK
  <2>8. \A i \in 1 .. (n - 1) : held[t][i] # m
    <3>1. ASSUME NEW i \in 1 .. (n - 1) PROVE Level[m] < Level[held[t][i]]
      <4>1. i \in 1 .. n /\ i < n
        BY <3>1, <2>2
      <4> QED
        BY <4>1, <2>2, <1>0 DEF IInv, Falling
    <3>2. Level[m] \in Nat
      BY <2>2, HierarchicalMutexAssumption
    <3> QED
      BY <3>1, <3>2
  <2>9. OwnersHold'
    <3>1. ASSUME NEW x \in Mutexes, NEW u \in Threads
          PROVE  owner'[x] = u <=> \/ \E i \in DOMAIN held'[u] : held'[u][i] = x
                                   \/ pc'[u] = "update" /\ target'[u] = x
      <4>1. owner[x] = u <=> \/ \E i \in DOMAIN held[u] : held[u][i] = x
                             \/ pc[u] = "update" /\ target[u] = x
        BY DEF IInv, OwnersHold
      <4>2. owner'[x] = IF x = m THEN NoThread ELSE owner[x]
        BY <2>3 DEF IInv, TypeOK
      <4>3. CASE u # t
        <5>1. x = m => owner[x] # u /\ owner'[x] # u
          BY <4>2, <4>3, <2>2, HierarchicalMutexAssumption
        <5> QED
          BY <4>1, <4>2, <4>3, <5>1, <2>3, <2>4
      <4>4. CASE u = t
        <5>1. (\E i \in DOMAIN held'[t] : held'[t][i] = x)
                <=> x # m /\ \E i \in DOMAIN held[t] : held[t][i] = x
          <6>1. ASSUME NEW i \in DOMAIN held'[t], held'[t][i] = x
                PROVE  x # m /\ i \in DOMAIN held[t] /\ held[t][i] = x
            <7>1. i \in 1 .. (n - 1) /\ held[t][i] = x
              BY <6>1, <2>5, <2>6
            <7>2. i \in DOMAIN held[t]
              BY <7>1, <1>0, <2>2
            <7> QED
              BY <7>1, <7>2, <2>8
          <6>2. ASSUME NEW i \in DOMAIN held[t], held[t][i] = x, x # m
                PROVE  i \in DOMAIN held'[t] /\ held'[t][i] = x
            <7>1. i # n
              BY <6>2
            <7>2. i \in 1 .. (n - 1)
              BY <7>1, <1>0, <2>2
            <7> QED
              BY <6>2, <7>2, <2>5, <2>6
          <6> QED
            BY <6>1, <6>2
        <5>2. pc[t] # "update" /\ pc'[t] # "update" /\ NoThread # t
          BY <2>1, <2>4, HierarchicalMutexAssumption
        <5> QED
          BY <4>1, <4>2, <4>4, <5>1, <5>2
      <4> QED
        BY <4>3, <4>4
    <3> QED
      BY <3>1 DEF OwnersHold
  <2>10. LevelsDescend'
    <3>1. ASSUME NEW u \in Threads \ {t}
          PROVE  /\ GuardsDescend(u)'
                 /\ thrLevel'[u] = Outside(u, Depth(u) + 1)'
                 /\ target'[u] \in Mutexes => Level[target'[u]] < thrLevel'[u]
      <4>1. held'[u] = held[u] /\ pc'[u] = pc[u]
        BY <2>4
      <4>2. GuardsDescend(u)'
        BY <4>1, <2>3 DEF IInv, LevelsDescend, GuardsDescend, Outside
      <4>3. thrLevel'[u] = Outside(u, Depth(u) + 1)'
        BY <4>1, <2>3 DEF IInv, LevelsDescend, Outside, Depth
      <4> QED
        BY <4>2, <4>3, <2>3 DEF IInv, LevelsDescend
    <3>2. \A i \in 1 .. n : Outside(t, i)' = Outside(t, i)
      <4>1. ASSUME NEW i \in 1 .. n, i # 1 PROVE i - 1 \in 1 .. (n - 1)
        BY <4>1, <2>2
      <4> QED
        BY <4>1, <2>5 DEF Outside
    <3>3. GuardsDescend(t)'
      <4>1. \A i \in 1 .. (n - 1) : i \in 1 .. n
        BY <2>2
      <4>2. \A i \in 1 .. n : Level[held[t][i]] < Outside(t, i) /\ prev[held[t][i]] = Outside(t, i)
        BY <1>0 DEF IInv, LevelsDescend, GuardsDescend
      <4> QED
        BY <4>1, <4>2, <2>3, <2>5, <2>6, <3>2 DEF GuardsDescend
    <3>4. Depth(t) + 1 = n /\ Depth(t)' + 1 = n
      BY <2>1, <2>2, <2>4, <2>5 DEF Depth
    <3>5. thrLevel[t] = Outside(t, n)
      BY <3>4 DEF IInv, LevelsDescend
    <3>6. thrLevel'[t] = Outside(t, Depth(t) + 1)'
      BY <2>2, <2>3, <3>2, <3>4, <3>5
    <3>7. target'[t] \notin Mutexes
      BY <2>1, <2>3 DEF IInv, TypeOK
    <3> QED
      BY <3>1, <3>3, <3>6, <3>7 DEF LevelsDescend
  <2>11. Falling'
    <3>1. ASSUME NEW i \in 1 .. (n - 1), NEW j \in 1 .. (n - 1), i < j
          PROVE  Level[held'[t][j]] < Level[held'[t][i]]
      <4>1. i \in 1 .. n /\ j \in 1 .. n
        BY <2>2
      <4> QED
        BY <4>1, <3>1, <2>5, <1>0 DEF IInv, Falling
    <3>2. \A u \in Threads \ {t} : \A i, j \in DOMAIN held'[u] :
              i < j => Level[held'[u][j]] < Level[held'[u][i]]
      BY <2>4 DEF IInv, Falling
    <3> QED
      BY <3>1, <3>2, <2>6 DEF Falling
  <2> QED
    BY <2>7, <2>9, <2>10, <2>11 DEF IInv
<1>10. CASE UNCHANGED vars
  <2>1. TypeOK' /\ OwnersHold' /\ Falling'
    BY <1>10 DEF vars, IInv, TypeOK, OwnersHold, Falling
  <2>2. LevelsDescend'
    BY <1>10 DEF vars, IInv, LevelsDescend, GuardsDescend, Depth, Outside
  <2> QED
    BY <2>1, <2>2 DEF IInv
<1> QED
  BY <1>1, <1>2, <1>3, <1>4, <1>5, <1>6, <1>7, <1>8, <1>9, <1>10 DEF Next, Step

\* Types, for any threads, mutexes and levels, and a mutex that was ever locked
\* remembers a level above its own (p091:18, 24-25).
THEOREM TypeCorrect == Spec => []TypeOK
<1>1. IInv => TypeOK
  BY DEF IInv
<1> QED
  BY InitIInv, NextIInv, <1>1, PTL DEF Spec

\* A mutex has the owner whose guard is on it, and no other: the guards of a
\* thread and the internal mutexes agree, exceptions included (p091:34-50).
THEOREM GuardsAreOwned == Spec => []OwnersHold
<1>1. IInv => OwnersHold
  BY DEF IInv
<1> QED
  BY InitIInv, NextIInv, <1>1, PTL DEF Spec

\* The remembered levels are right whatever the nesting (p091:17-26, 40-43).
THEOREM HierarchyHolds == Spec => []LevelsDescend
<1>1. IInv => LevelsDescend
  BY DEF IInv
<1> QED
  BY InitIInv, NextIInv, <1>1, PTL DEF Spec
-------------------------------------------------------------------------------
(* No deadlock. *)

\* In a circle of blocked threads, take one whose target is lowest: the owner of
\* that mutex, a thread of the circle too, is locking a mutex below it.
LEMMA NoCircle ==
  ASSUME IInv, NEW S \in SUBSET Threads, S # {}
  PROVE  \E t \in S : ~(pc[t] = "lock" /\ owner[target[t]] \in S)
<1> SUFFICES ASSUME \A t \in S : pc[t] = "lock" /\ owner[target[t]] \in S
             PROVE  FALSE
  OBVIOUS
<1> DEFINE T == {Level[target[t]] : t \in S}
<1>1. \A t \in S : target[t] \in Mutexes
  BY DEF IInv, TypeOK
<1>2. T \subseteq Nat /\ T # {}
  BY <1>1, HierarchicalMutexAssumption
<1>3. PICK l \in T : \A k \in T : ~(<<k, l>> \in OpToRel(<, Nat))
  BY <1>2, NatLessThanWellFounded, WFMin
<1>4. PICK t \in S : Level[target[t]] = l
  BY <1>3
<1> DEFINE u == owner[target[t]]
<1>5. u \in S /\ u \in Threads
  OBVIOUS
<1>6. \E i \in DOMAIN held[u] : held[u][i] = target[t]
  BY <1>1, <1>5 DEF IInv, OwnersHold
<1>7. Level[target[u]] < Level[target[t]]
  BY <1>1, <1>5, <1>6, Guards, TargetIsLowest DEF IInv
<1>8. Level[target[u]] \in T /\ Level[target[u]] \in Nat /\ l \in Nat
  BY <1>2, <1>3, <1>5
<1> QED
  BY <1>3, <1>4, <1>7, <1>8 DEF OpToRel

\* What the levels are for: threads never block one another in a circle, however
\* many there are and in whatever order they take the mutexes (p091:17-21).
THEOREM DeadlockFreedom == Spec => []NoCircularWait
<1>1. IInv => NoCircularWait
  BY NoCircle DEF NoCircularWait
<1> QED
  BY InitIInv, NextIInv, <1>1, PTL DEF Spec

-------------------------------------------------------------------------------
(* Views and the memory. *)

\* An entry of a history: a value and the view it carries.
Entry(L) == [val : Int, view : [L -> Nat]]

\* One view, or the lengths, at most another.
Below(L, F, G) == \A y \in L : F[y] <= G[y]
\* How many entries each location has.
Lens(L) == [y \in L |-> Len(history[y])]

\* The types of the memory with the locations L.
MemTypes(L) == /\ history \in [L -> Seq(Entry(L))]
               /\ view \in [ThreadNames -> [L -> Nat]]
               /\ unseen \in [ThreadNames -> [L -> Nat]]
               /\ fenced \in [ThreadNames -> [L -> Nat]]
               /\ depends \in [ThreadNames -> [L -> Nat]]
               /\ scLast \in [L -> Nat]

\* No view is ahead of the memory.
MemBounds(L) ==
    /\ \A x \in L : Len(history[x]) >= 1
    /\ Below(L, scLast, Lens(L))
    /\ \A t \in ThreadNames : /\ Below(L, view[t], Lens(L))
                              /\ Below(L, unseen[t], Lens(L))
                              /\ Below(L, fenced[t], Lens(L))
                              /\ Below(L, depends[t], Lens(L))
    /\ \A x \in L : \A i \in 1 .. Len(history[x]) : Below(L, history[x][i].view, Lens(L))

\* A sound memory.
MemOK(L) == MemTypes(L) /\ MemBounds(L)

\* The later of two views is their least upper bound.
LEMMA LaterIs ==
  ASSUME NEW L, NEW V \in [L -> Nat], NEW W \in [L -> Nat]
  PROVE  /\ Later(V, W) \in [L -> Nat]
         /\ Below(L, V, Later(V, W)) /\ Below(L, W, Later(V, W))
         /\ \A N \in [L -> Nat] : Below(L, V, N) /\ Below(L, W, N) => Below(L, Later(V, W), N)
  BY DEF Later, Below

\* It is the second one where that shows more.
LEMMA LaterAt ==
  ASSUME NEW L, NEW V \in [L -> Nat], NEW W \in [L -> Nat], NEW x \in L, V[x] <= W[x]
  PROVE  Later(V, W)[x] = W[x]
  BY DEF Later

\* Views are ordered transitively.
LEMMA BelowTrans ==
  ASSUME NEW L, NEW F \in [L -> Nat], NEW G \in [L -> Nat], NEW H \in [L -> Nat],
         Below(L, F, G), Below(L, G, H)
  PROVE  Below(L, F, H)
<1> SUFFICES ASSUME NEW y \in L PROVE F[y] <= H[y]
  BY DEF Below
<1>1. F[y] \in Nat /\ G[y] \in Nat /\ H[y] \in Nat /\ F[y] <= G[y] /\ G[y] <= H[y]
  BY DEF Below
<1> QED
  BY <1>1

\* The lengths of the histories bound everything that the memory holds, and are at least 1.
LEMMA LensIs ==
  ASSUME NEW L, MemOK(L)
  PROVE  /\ Lens(L) \in [L -> Nat]
         /\ \A y \in L : Lens(L)[y] = Len(history[y]) /\ Len(history[y]) \in Nat \ {0}
         /\ \A y \in L : Lens(L)[y] >= 1
         /\ Locations = L
<1>1. /\ history \in [L -> Seq(Entry(L))]
      /\ \A y \in L : Len(history[y]) >= 1
  BY DEF MemOK, MemTypes, MemBounds
<1>2. \A y \in L : Len(history[y]) \in Nat
  <2> TAKE y \in L
  <2>1. history[y] \in Seq(Entry(L))
    BY <1>1
  <2> QED
    BY <2>1, LenProperties
<1> QED
  BY <1>1, <1>2 DEF Lens, Locations

\* The view that knows one entry.
LEMMA JustIs ==
  ASSUME NEW L, MemOK(L), NEW x \in L, NEW i \in Nat
  PROVE  /\ Just(x, i) \in [L -> Nat]
         /\ Just(x, i)[x] = i
<1> DEFINE J == [y \in L |-> IF y = x THEN i ELSE 1]
<1>1. Just(x, i) = J
  BY LensIs DEF Just
<1>2. J \in [L -> Nat] /\ J[x] = i
  OBVIOUS
<1> QED
  BY <1>1, <1>2

\* Every view that reaches the entry is above it.
LEMMA JustBelow ==
  ASSUME NEW L, MemOK(L), NEW x \in L, NEW i \in Nat, NEW N \in [L -> Nat],
         \A y \in L : N[y] >= 1, i <= N[x]
  PROVE  Below(L, Just(x, i), N)
<1> DEFINE J == [y \in L |-> IF y = x THEN i ELSE 1]
<1>1. Just(x, i) = J
  BY LensIs DEF Just
<1>2. \A y \in L : J[y] = (IF y = x THEN i ELSE 1) /\ N[y] \in Nat
  OBVIOUS
<1> HIDE DEF J
<1> QED
  BY <1>1, <1>2 DEF Below

\* The view of a thread that knows nothing: the first entries.
LEMMA BottomIs ==
  ASSUME NEW L
  PROVE  /\ Bottom(L) \in [L -> Nat] /\ \A x \in L : Bottom(L)[x] = 1
  BY DEF Bottom

\* The view that knows nothing is below every other view.
LEMMA BottomBelow ==
  ASSUME NEW L, NEW N \in [L -> Nat], \A y \in L : N[y] >= 1
  PROVE  Below(L, Bottom(L), N)
  BY DEF Bottom, Below

\* The memory at the start has one entry, 0, in each location.
LEMMA InitMem ==
  ASSUME NEW L, MemoryInit(ThreadNames, L)
  PROVE  /\ MemOK(L)
         /\ \A x \in L : /\ Len(history[x]) = 1
                         /\ history[x][1].val = 0
                         /\ scLast[x] = 1
                         /\ \A t \in ThreadNames : view[t][x] = 1
<1>1. Bottom(L) \in [L -> Nat] /\ \A x \in L : Bottom(L)[x] = 1
  BY BottomIs
<1>2. \A x \in L : history[x] = <<[val |-> 0, view |-> Bottom(L)]>>
  BY DEF MemoryInit
<1>3. [val |-> 0, view |-> Bottom(L)] \in Entry(L)
  BY <1>1 DEF Entry
<1> DEFINE e == [val |-> 0, view |-> Bottom(L)]
<1>a. e \in Entry(L) /\ e.val = 0 /\ e.view = Bottom(L)
  BY <1>3
<1>b. \A x \in L : history[x] = <<e>>
  BY <1>2
<1> HIDE DEF e
<1>c. <<e>> \in Seq(Entry(L)) /\ Len(<<e>>) = 1 /\ <<e>>[1] = e
  BY <1>a
<1>4. \A x \in L : /\ history[x] \in Seq(Entry(L)) /\ Len(history[x]) = 1
                   /\ history[x][1].val = 0 /\ history[x][1].view = Bottom(L)
  BY <1>a, <1>b, <1>c
<1>5. MemTypes(L)
  BY <1>1, <1>4 DEF MemTypes, MemoryInit
<1>6. MemBounds(L)
  <2>1. \A x \in L : \A i \in 1 .. Len(history[x]) : history[x][i].view = Bottom(L)
    BY <1>4
  <2>2. Lens(L) \in [L -> Nat] /\ \A y \in L : Lens(L)[y] = 1
    BY <1>4 DEF Lens
  <2>3. Below(L, Bottom(L), Lens(L))
    BY <1>1, <2>2 DEF Below
  <2> QED
    BY <1>4, <2>1, <2>3 DEF MemBounds, MemoryInit
<1> QED
  BY <1>1, <1>4, <1>5, <1>6 DEF MemOK, MemoryInit

\* A load keeps the memory sound, and an acquire takes over what the entry carries.
LEMMA LoadMem ==
  ASSUME NEW L, MemOK(L), NEW t \in ThreadNames, NEW x \in L, NEW o,
         NEW i \in Readable(t, x, o), Load(t, x, i, o)
  PROVE  /\ MemOK(L)'
         /\ Below(L, view[t], view'[t])
         /\ o \in Acquires => Below(L, history[x][i].view, view'[t])
         /\ Below(L, unseen[t], unseen'[t])
         /\ Below(L, history[x][i].view, unseen'[t])
         /\ o = "consume" => Below(L, history[x][i].view, depends'[t])
         /\ \A u \in ThreadNames \ {t} : view'[u] = view[u] /\ unseen'[u] = unseen[u]
         /\ view'[t][x] >= i
         /\ UNCHANGED <<history, fenced, scLast>>
<1> DEFINE H == history[x][i].view
           W == IF o \in Acquires THEN H ELSE Bottom(Locations)
           J == Just(x, i)
           Z == Later(view[t], J)
           V == Later(Z, W)
           U == Later(unseen[t], H)
           D0 == Later(depends[t], H)
           D == IF o = "consume" THEN D0 ELSE depends[t]
           N == Lens(L)
<1>0. /\ Locations = L /\ N \in [L -> Nat]
      /\ \A y \in L : N[y] = Len(history[y]) /\ N[y] >= 1
  BY LensIs
<1>1. i \in 1 .. Len(history[x]) /\ i \in Nat /\ i <= N[x]
  BY <1>0 DEF Readable
<1>2. /\ view[t] \in [L -> Nat] /\ unseen[t] \in [L -> Nat] /\ depends[t] \in [L -> Nat]
      /\ Below(L, view[t], N) /\ Below(L, unseen[t], N) /\ Below(L, depends[t], N)
  BY DEF MemOK, MemTypes, MemBounds
<1>3. H \in [L -> Nat] /\ Below(L, H, N)
  <2>1. history[x][i] \in Entry(L)
    BY <1>1 DEF MemOK, MemTypes
  <2>2. history[x][i].view \in [L -> Nat]
    BY <2>1 DEF Entry
  <2> QED
    BY <1>1, <2>2 DEF MemOK, MemBounds
<1> HIDE DEF N
<1>4. J \in [L -> Nat] /\ J[x] = i /\ Below(L, J, N)
  BY <1>0, <1>1, JustIs, JustBelow
<1>5. W \in [L -> Nat] /\ Below(L, W, N) /\ (o \in Acquires => W = H)
  BY <1>0, <1>3, BottomIs, BottomBelow
<1>6. /\ view' = [view EXCEPT ![t] = V]
      /\ unseen' = [unseen EXCEPT ![t] = U]
      /\ depends' = [depends EXCEPT ![t] = D]
      /\ UNCHANGED <<history, fenced, scLast>>
  BY DEF Load, Read
<1> HIDE DEF H, W, J
<1>7. Z \in [L -> Nat] /\ Below(L, Z, N) /\ Below(L, view[t], Z) /\ Below(L, J, Z)
  BY <1>0, <1>2, <1>4, LaterIs
<1> HIDE DEF Z
<1>8. V \in [L -> Nat] /\ Below(L, V, N) /\ Below(L, Z, V) /\ Below(L, W, V)
  BY <1>0, <1>5, <1>7, LaterIs
<1> HIDE DEF V
<1>9. U \in [L -> Nat] /\ Below(L, U, N) /\ Below(L, unseen[t], U) /\ Below(L, H, U)
  BY <1>0, <1>2, <1>3, LaterIs
<1> HIDE DEF U
<1>10. D0 \in [L -> Nat] /\ Below(L, D0, N) /\ Below(L, H, D0)
  BY <1>0, <1>2, <1>3, LaterIs
<1>11. D \in [L -> Nat] /\ Below(L, D, N) /\ (o = "consume" => Below(L, H, D))
  BY <1>10, <1>2
<1> HIDE DEF D0, D
<1>12. Below(L, view[t], V) /\ Below(L, J, V)
  BY <1>2, <1>4, <1>7, <1>8, BelowTrans
<1>13. V[x] >= i
  BY <1>12, <1>4, <1>8 DEF Below
<1>14. /\ view'[t] = V /\ unseen'[t] = U /\ depends'[t] = D
       /\ \A u \in ThreadNames \ {t} : view'[u] = view[u] /\ unseen'[u] = unseen[u] /\ depends'[u] = depends[u]
  BY <1>6 DEF MemOK, MemTypes
<1>15. MemTypes(L)'
  <2>1. /\ view' \in [ThreadNames -> [L -> Nat]]
        /\ unseen' \in [ThreadNames -> [L -> Nat]]
        /\ depends' \in [ThreadNames -> [L -> Nat]]
    BY <1>6, <1>8, <1>9, <1>11 DEF MemOK, MemTypes
  <2> QED
    BY <2>1, <1>6 DEF MemOK, MemTypes
<1>16. Lens(L)' = Lens(L)
  BY <1>6 DEF Lens
<1>17. MemBounds(L)'
  <2>1. \A u \in ThreadNames : /\ Below(L, view'[u], N) /\ Below(L, unseen'[u], N)
                                /\ Below(L, fenced'[u], N) /\ Below(L, depends'[u], N)
    BY <1>6, <1>8, <1>9, <1>11, <1>14 DEF MemOK, MemBounds, N
  <2> QED
    BY <2>1, <1>6, <1>16 DEF MemOK, MemBounds, N
<1>18. H = history[x][i].view
  BY DEF H
<1> QED
  BY <1>5, <1>6, <1>8, <1>9, <1>11, <1>12, <1>13, <1>14, <1>15, <1>17, <1>18 DEF MemOK

\* The lengths once x has one entry more.
Longer(L, x) == [Lens(L) EXCEPT ![x] = Len(history[x]) + 1]

\* Thread t appends the entry e to x, and V and U become its views.
Appends(t, x, e, V, U, o) ==
    /\ history' = [history EXCEPT ![x] = Append(@, e)]
    /\ view' = [view EXCEPT ![t] = V]
    /\ unseen' = [unseen EXCEPT ![t] = U]
    /\ NoteSeqCst(x, Len(history[x]) + 1, o)
    /\ UNCHANGED <<fenced, depends>>

\* A new entry e of x with the view of its writer.
LEMMA AppendMem ==
  ASSUME NEW L, MemOK(L), NEW t \in ThreadNames, NEW x \in L, NEW e \in Entry(L), NEW V \in [L -> Nat],
         NEW U \in [L -> Nat], NEW o, Appends(t, x, e, V, U, o),
         Below(L, V, Longer(L, x)), Below(L, e.view, Longer(L, x)), Below(L, U, Longer(L, x))
  PROVE  /\ MemOK(L)'
         /\ Len(history'[x]) = Len(history[x]) + 1
         /\ history'[x][Len(history[x]) + 1] = e
         /\ \A i \in 1 .. Len(history[x]) : history'[x][i] = history[x][i]
         /\ \A y \in L \ {x} : history'[y] = history[y] /\ scLast'[y] = scLast[y]
         /\ scLast'[x] = IF o = "seq_cst" THEN Len(history[x]) + 1 ELSE scLast[x]
         /\ view'[t] = V /\ unseen'[t] = U
         /\ \A u \in ThreadNames \ {t} : view'[u] = view[u] /\ unseen'[u] = unseen[u]
<1> USE DEF Appends
<1> DEFINE N == Longer(L, x)
<1>0. /\ Lens(L) \in [L -> Nat]
      /\ \A y \in L : Lens(L)[y] = Len(history[y]) /\ Len(history[y]) \in Nat \ {0}
  BY LensIs
<1>n. /\ N \in [L -> Nat] /\ N = [Lens(L) EXCEPT ![x] = Len(history[x]) + 1]
      /\ Below(L, V, N) /\ Below(L, e.view, N) /\ Below(L, U, N)
  BY <1>0 DEF Longer
<1>m. N \in [L -> Nat] /\ Lens(L) \in [L -> Nat]
  BY <1>n, <1>0
<1> HIDE DEF N
<1>1. history \in [L -> Seq(Entry(L))] /\ history[x] \in Seq(Entry(L)) /\ Len(history[x]) \in Nat
  BY <1>0 DEF MemOK, MemTypes
<1>2. /\ history'[x] = Append(history[x], e)
      /\ \A y \in L \ {x} : history'[y] = history[y]
      /\ history' \in [L -> Seq(Entry(L))]
  BY <1>1, AppendProperties
<1>3. /\ Len(history'[x]) = Len(history[x]) + 1
      /\ history'[x][Len(history[x]) + 1] = e
      /\ \A i \in 1 .. Len(history[x]) : history'[x][i] = history[x][i]
  BY <1>1, <1>2, AppendProperties
<1>4. /\ scLast' \in [L -> Nat]
      /\ \A y \in L \ {x} : scLast'[y] = scLast[y]
      /\ scLast'[x] = IF o = "seq_cst" THEN Len(history[x]) + 1 ELSE scLast[x]
  BY <1>1 DEF NoteSeqCst, MemOK, MemTypes
<1>5. /\ view'[t] = V /\ unseen'[t] = U
      /\ \A u \in ThreadNames \ {t} : view'[u] = view[u] /\ unseen'[u] = unseen[u]
  BY DEF MemOK, MemTypes
<1>6. MemTypes(L)'
  <2>1. view' \in [ThreadNames -> [L -> Nat]] /\ unseen' \in [ThreadNames -> [L -> Nat]]
    BY DEF MemOK, MemTypes
  <2> QED
    BY <1>2, <1>4, <2>1 DEF MemOK, MemTypes
<1>7. N[x] = Len(history[x]) + 1 /\ \A y \in L \ {x} : N[y] = Lens(L)[y]
  BY <1>0, <1>n
<1>8. Lens(L)' = N
  <2>1. \A y \in L : Len(history'[y]) = N[y]
    BY <1>0, <1>2, <1>3, <1>7
  <2>2. Lens(L)' = [y \in L |-> Len(history'[y])]
    BY DEF Lens
  <2> QED
    BY <2>1, <2>2, <1>n
<1>9. \A F \in [L -> Nat] : Below(L, F, Lens(L)) => Below(L, F, N)
  <2>1. Below(L, Lens(L), N)
    BY <1>0, <1>n, <1>7 DEF Below
  <2> QED
    BY <1>m, <2>1, BelowTrans
<1>10. \A u \in ThreadNames :
         /\ Below(L, view'[u], N) /\ Below(L, unseen'[u], N)
         /\ Below(L, fenced'[u], N) /\ Below(L, depends'[u], N)
  BY <1>5, <1>9, <1>n DEF MemOK, MemTypes, MemBounds
<1>11. Below(L, scLast', N)
  <2>1. Below(L, scLast, N)
    BY <1>9 DEF MemOK, MemTypes, MemBounds
  <2>2. \A y \in L : scLast[y] \in Nat /\ N[y] \in Nat
    BY <1>n DEF MemOK, MemTypes
  <2> QED
    <3>1. \A y \in L : scLast[y] <= N[y]
      BY <2>1 DEF Below
    <3>2. scLast[x] <= N[x] /\ scLast'[x] <= N[x]
      BY <3>1, <1>4, <1>7, <2>2, <1>0
    <3>3. \A y \in L : scLast'[y] <= N[y]
      BY <3>1, <3>2, <1>4
    <3> QED
      BY <3>3 DEF Below
<1>12. \A z \in L : \A i \in 1 .. Len(history'[z]) : Below(L, history'[z][i].view, N)
  <2> SUFFICES ASSUME NEW z \in L, NEW i \in 1 .. Len(history'[z])
               PROVE  Below(L, history'[z][i].view, N)
    OBVIOUS
  <2>1. CASE z = x /\ i = Len(history[x]) + 1
    BY <2>1, <1>3, <1>n
  <2>2. CASE ~(z = x /\ i = Len(history[x]) + 1)
    <3>1. i \in 1 .. Len(history[z]) /\ history'[z][i] = history[z][i]
      BY <2>2, <1>1, <1>2, <1>3
    <3>2. history[z][i] \in Entry(L)
      BY <3>1, <1>1
    <3>3. history[z][i].view \in [L -> Nat] /\ Below(L, history[z][i].view, Lens(L))
      BY <3>1, <3>2 DEF MemOK, MemBounds, Entry
    <3> QED
      BY <3>1, <3>3, <1>9
  <2> QED
    BY <2>1, <2>2
<1>13. MemBounds(L)'
  <2>1. \A y \in L : Len(history'[y]) >= 1
    BY <1>0, <1>2, <1>3
  <2>2. Below(L, scLast', Lens(L)')
    BY <1>8, <1>11
  <2>3. \A u \in ThreadNames :
           /\ Below(L, view'[u], Lens(L)') /\ Below(L, unseen'[u], Lens(L)')
           /\ Below(L, fenced'[u], Lens(L)') /\ Below(L, depends'[u], Lens(L)')
    BY <1>8, <1>10
  <2>4. \A z \in L : \A i \in 1 .. Len(history'[z]) : Below(L, history'[z][i].view, Lens(L)')
    BY <1>8, <1>12
  <2> QED
    BY <2>1, <2>2, <2>3, <2>4 DEF MemBounds
<1> QED
  BY <1>2, <1>3, <1>4, <1>5, <1>6, <1>13 DEF MemOK

\* The lengths with x one longer are a bound of all that the old lengths bound.
LEMMA LongerIs ==
  ASSUME NEW L, MemOK(L), NEW x \in L
  PROVE  /\ Longer(L, x) \in [L -> Nat]
         /\ Longer(L, x)[x] = Len(history[x]) + 1
         /\ \A y \in L : Longer(L, x)[y] >= 1
         /\ \A F \in [L -> Nat] : Below(L, F, Lens(L)) => Below(L, F, Longer(L, x))
<1>1. /\ Lens(L) \in [L -> Nat]
      /\ \A y \in L : Lens(L)[y] = Len(history[y]) /\ Len(history[y]) \in Nat \ {0}
  BY LensIs
<1>2. Longer(L, x) \in [L -> Nat] /\ Longer(L, x)[x] = Len(history[x]) + 1 /\ \A y \in L \ {x} : Longer(L, x)[y] = Lens(L)[y]
  BY <1>1 DEF Longer
<1>3. (\A y \in L : Longer(L, x)[y] >= 1) /\ Below(L, Lens(L), Longer(L, x))
  BY <1>1, <1>2 DEF Below
<1>4. \A F \in [L -> Nat] : Below(L, F, Lens(L)) => Below(L, F, Longer(L, x))
  BY <1>1, <1>2, <1>3, BelowTrans
<1> QED
  BY <1>2, <1>3, <1>4

\* A store appends its value; a release leaves the view of the writer in the entry.
LEMMA StoreMem ==
  ASSUME NEW L, MemOK(L), NEW t \in ThreadNames, NEW x \in L, NEW v \in Int, NEW o, Store(t, x, v, o)
  PROVE  /\ MemOK(L)'
         /\ Len(history'[x]) = Len(history[x]) + 1
         /\ history'[x][Len(history[x]) + 1].val = v
         /\ \A i \in 1 .. Len(history[x]) : history'[x][i] = history[x][i]
         /\ \A y \in L \ {x} : history'[y] = history[y] /\ scLast'[y] = scLast[y]
         /\ scLast'[x] = IF o = "seq_cst" THEN Len(history[x]) + 1 ELSE scLast[x]
         /\ Below(L, view[t], view'[t])
         /\ o \in Releases => history'[x][Len(history[x]) + 1].view = view'[t]
         /\ o \notin Releases => Below(L, fenced[t], history'[x][Len(history[x]) + 1].view)
         /\ view'[t][x] = Len(history[x]) + 1
         /\ \A u \in ThreadNames \ {t} : view'[u] = view[u]
         /\ UNCHANGED <<unseen, fenced, depends>>
<1> DEFINE n == Len(history[x]) + 1
           J == Just(x, n)
           V == Later(view[t], J)
           F == Later(fenced[t], J)
           C == Carried(t, x, n, V, o)
           e == [val |-> v, view |-> C]
<1> DEFINE N == Longer(L, x)
<1>0. /\ N \in [L -> Nat] /\ N[x] = Len(history[x]) + 1
      /\ \A y \in L : N[y] >= 1
      /\ \A G \in [L -> Nat] : Below(L, G, Lens(L)) => Below(L, G, N)
  BY LongerIs
<1> HIDE DEF N
<1>1. /\ view[t] \in [L -> Nat] /\ fenced[t] \in [L -> Nat] /\ unseen[t] \in [L -> Nat]
      /\ Below(L, view[t], Lens(L)) /\ Below(L, fenced[t], Lens(L)) /\ Below(L, unseen[t], Lens(L))
      /\ unseen \in [ThreadNames -> [L -> Nat]] /\ view \in [ThreadNames -> [L -> Nat]]
  BY DEF MemOK, MemTypes, MemBounds
<1>2. Lens(L) \in [L -> Nat] /\ Len(history[x]) \in Nat /\ Lens(L)[x] = Len(history[x])
  BY LensIs
<1>3. Below(L, view[t], N) /\ Below(L, fenced[t], N) /\ Below(L, unseen[t], N)
  BY <1>0, <1>1
<1>5. /\ history' = [history EXCEPT ![x] = Append(@, e)]
      /\ view' = [view EXCEPT ![t] = V]
      /\ NoteSeqCst(x, n, o)
      /\ UNCHANGED <<unseen, fenced, depends>>
  BY DEF Store
<1>6. C = IF o \in Releases THEN V ELSE F
  BY DEF Carried
<1>7. e.val = v /\ e.view = C /\ n = Len(history[x]) + 1
  OBVIOUS
<1>e. (C \in [L -> Nat]) => e \in Entry(L)
  BY DEF Entry
<1> HIDE DEF n
<1>4. J \in [L -> Nat] /\ J[x] = n /\ Below(L, J, N)
  <2>1. n \in Nat /\ n <= N[x]
    BY <1>0, <1>2, <1>7
  <2> QED
    BY <1>0, <2>1, JustIs, JustBelow
<1> HIDE DEF e, C, J
<1>8. V \in [L -> Nat] /\ Below(L, view[t], V) /\ Below(L, V, N)
  BY <1>0, <1>1, <1>3, <1>4, LaterIs
<1>9. F \in [L -> Nat] /\ Below(L, fenced[t], F) /\ Below(L, F, N)
  BY <1>0, <1>1, <1>3, <1>4, LaterIs
<1>10. V[x] = n
  <2>1. view[t][x] <= J[x]
    BY <1>1, <1>2, <1>4, <1>7 DEF Below
  <2>2. \A F2, G2 \in [L -> Nat] : F2[x] <= G2[x] => Later(F2, G2)[x] = G2[x]
    BY LaterAt
  <2> QED
    BY <2>1, <2>2, <1>1, <1>4
<1> HIDE DEF V, F
<1>11. C \in [L -> Nat] /\ Below(L, C, N)
  BY <1>6, <1>8, <1>9
<1>12. e \in Entry(L) /\ Below(L, e.view, N)
  BY <1>11, <1>e, <1>7
<1>13. unseen' = [unseen EXCEPT ![t] = unseen[t]]
  BY <1>1, <1>5
<1>14. NoteSeqCst(x, Len(history[x]) + 1, o)
  BY <1>5, <1>7
<1>15. /\ MemOK(L)'
       /\ Len(history'[x]) = Len(history[x]) + 1
       /\ history'[x][Len(history[x]) + 1] = e
       /\ \A i \in 1 .. Len(history[x]) : history'[x][i] = history[x][i]
       /\ \A y \in L \ {x} : history'[y] = history[y] /\ scLast'[y] = scLast[y]
       /\ scLast'[x] = IF o = "seq_cst" THEN Len(history[x]) + 1 ELSE scLast[x]
       /\ view'[t] = V
       /\ \A u \in ThreadNames \ {t} : view'[u] = view[u]
  <2> DEFINE U == unseen[t]
  <2>1. Appends(t, x, e, V, U, o)
    BY <1>5, <1>13, <1>14 DEF Appends
  <2>2. U \in [L -> Nat] /\ Below(L, U, N)
    BY <1>1, <1>3
  <2> HIDE DEF U
  <2>3. /\ V \in [L -> Nat] /\ Below(L, V, Longer(L, x)) /\ Below(L, U, Longer(L, x))
        /\ e \in Entry(L) /\ Below(L, e.view, Longer(L, x))
    BY <1>8, <1>12, <2>2 DEF N
  <2> QED
    BY <2>1, <2>2, <2>3, AppendMem
<1> QED
  BY <1>15, <1>5, <1>6, <1>7, <1>8, <1>9, <1>10

\* A read-modify-write also takes over, and passes on, what the newest entry carried.
LEMMA ExchangeMem ==
  ASSUME NEW L, MemOK(L), NEW t \in ThreadNames, NEW x \in L, NEW v \in Int, NEW o, Exchange(t, x, v, o)
  PROVE  /\ MemOK(L)'
         /\ Len(history'[x]) = Len(history[x]) + 1
         /\ history'[x][Len(history[x]) + 1].val = v
         /\ \A i \in 1 .. Len(history[x]) : history'[x][i] = history[x][i]
         /\ \A y \in L \ {x} : history'[y] = history[y] /\ scLast'[y] = scLast[y]
         /\ scLast'[x] = IF o = "seq_cst" THEN Len(history[x]) + 1 ELSE scLast[x]
         /\ Below(L, view[t], view'[t])
         /\ o \in Acquires => Below(L, Newest(x).view, view'[t])
         /\ Below(L, Newest(x).view, history'[x][Len(history[x]) + 1].view)
         /\ o \in Releases => Below(L, view'[t], history'[x][Len(history[x]) + 1].view)
         /\ view'[t][x] = Len(history[x]) + 1
         /\ \A u \in ThreadNames \ {t} : view'[u] = view[u]
         /\ UNCHANGED <<fenced, depends>>
<1> DEFINE m == Len(history[x])
           n == m + 1
           W == Newest(x).view
           B == IF o \in Acquires THEN W ELSE Bottom(Locations)
           K == Just(x, m)
           J == Just(x, n)
           Z == Later(view[t], K)
           R == Later(Z, B)
           V == Later(R, J)
           F == Later(fenced[t], J)
           C == Carried(t, x, n, V, o)
           E == Later(W, C)
           e == [val |-> v, view |-> E]
           U == Later(unseen[t], W)
<1> DEFINE N == Longer(L, x)
<1>0. /\ N \in [L -> Nat] /\ N[x] = Len(history[x]) + 1
      /\ \A y \in L : N[y] >= 1
      /\ \A G \in [L -> Nat] : Below(L, G, Lens(L)) => Below(L, G, N)
  BY LongerIs
<1> HIDE DEF N
<1>1. /\ view[t] \in [L -> Nat] /\ fenced[t] \in [L -> Nat] /\ unseen[t] \in [L -> Nat]
      /\ Below(L, view[t], Lens(L)) /\ Below(L, fenced[t], Lens(L)) /\ Below(L, unseen[t], Lens(L))
      /\ unseen \in [ThreadNames -> [L -> Nat]] /\ view \in [ThreadNames -> [L -> Nat]]
  BY DEF MemOK, MemTypes, MemBounds
<1>2. /\ Lens(L) \in [L -> Nat] /\ m \in Nat \ {0} /\ Lens(L)[x] = m /\ Locations = L
      /\ \A y \in L : Lens(L)[y] >= 1
  BY LensIs
<1>3. Below(L, view[t], N) /\ Below(L, fenced[t], N) /\ Below(L, unseen[t], N)
  BY <1>0, <1>1
<1>4. W \in [L -> Nat] /\ Below(L, W, Lens(L)) /\ Below(L, W, N)
  <2>1. history[x] \in Seq(Entry(L)) /\ m \in 1 .. Len(history[x])
    BY <1>2 DEF MemOK, MemTypes
  <2>2. history[x][m] \in Entry(L) /\ Newest(x) = history[x][m]
    BY <2>1 DEF Newest
  <2>3. W \in [L -> Nat] /\ Below(L, W, Lens(L))
    BY <2>1, <2>2 DEF Entry, MemOK, MemBounds
  <2> QED
    BY <2>3, <1>0
<1>5. Read(t, x, n - 1, o) = R
  <2>1. n - 1 = m
    BY <1>2
  <2> QED
    BY <2>1 DEF Read, Newest
<1>6. /\ history' = [history EXCEPT ![x] = Append(@, e)]
      /\ view' = [view EXCEPT ![t] = V]
      /\ unseen' = [unseen EXCEPT ![t] = U]
      /\ NoteSeqCst(x, n, o)
      /\ UNCHANGED <<fenced, depends>>
  BY <1>5 DEF Exchange
<1>7. C = IF o \in Releases THEN V ELSE F
  BY DEF Carried
<1>8. e.val = v /\ e.view = E /\ m = Len(history[x]) /\ n = m + 1 /\ W = Newest(x).view
  OBVIOUS
<1>e. (E \in [L -> Nat]) => e \in Entry(L)
  BY DEF Entry
<1> HIDE DEF m, W
<1>9. B \in [L -> Nat] /\ (o \in Acquires => B = W) /\ Below(L, B, Lens(L))
  BY <1>2, <1>4, BottomIs, BottomBelow
<1>10. K \in [L -> Nat] /\ Below(L, K, Lens(L))
  <2>1. m \in Nat /\ m <= Lens(L)[x]
    BY <1>2
  <2> QED
    BY <1>2, <2>1, JustIs, JustBelow
<1> HIDE DEF n
<1>11. J \in [L -> Nat] /\ J[x] = n /\ Below(L, J, N)
  <2>1. n \in Nat /\ n <= N[x]
    BY <1>0, <1>2, <1>8
  <2> QED
    BY <1>0, <2>1, JustIs, JustBelow
<1> HIDE DEF e, C, J, K, B
<1>12. Z \in [L -> Nat] /\ Below(L, view[t], Z) /\ Below(L, Z, Lens(L))
  BY <1>1, <1>2, <1>10, LaterIs
<1> HIDE DEF Z
<1>13. R \in [L -> Nat] /\ Below(L, Z, R) /\ Below(L, B, R) /\ Below(L, R, Lens(L))
  BY <1>2, <1>9, <1>12, LaterIs
<1> HIDE DEF R
<1>14. Below(L, R, N) /\ Below(L, view[t], R)
  BY <1>0, <1>1, <1>2, <1>12, <1>13, BelowTrans
<1>15. V \in [L -> Nat] /\ Below(L, R, V) /\ Below(L, V, N)
  BY <1>0, <1>11, <1>13, <1>14, LaterIs
<1>16. V[x] = n
  <2>1. R[x] <= J[x]
    BY <1>2, <1>8, <1>11, <1>13 DEF Below
  <2> QED
    BY <2>1, <1>13, <1>11, LaterAt
<1>17. F \in [L -> Nat] /\ Below(L, F, N)
  BY <1>0, <1>1, <1>3, <1>11, LaterIs
<1> HIDE DEF V, F
<1>18. Below(L, view[t], V) /\ (o \in Acquires => Below(L, W, V))
  BY <1>1, <1>9, <1>13, <1>14, <1>15, BelowTrans
<1>19. C \in [L -> Nat] /\ Below(L, C, N)
  BY <1>7, <1>15, <1>17
<1>20. E \in [L -> Nat] /\ Below(L, W, E) /\ Below(L, C, E) /\ Below(L, E, N)
  BY <1>0, <1>4, <1>19, LaterIs
<1>21. U \in [L -> Nat] /\ Below(L, U, N)
  BY <1>0, <1>1, <1>3, <1>4, LaterIs
<1> HIDE DEF E, U
<1>22. e \in Entry(L) /\ Below(L, e.view, N)
  BY <1>20, <1>e, <1>8
<1>23. NoteSeqCst(x, Len(history[x]) + 1, o)
  BY <1>6, <1>8
<1>24. /\ MemOK(L)'
       /\ Len(history'[x]) = Len(history[x]) + 1
       /\ history'[x][Len(history[x]) + 1] = e
       /\ \A i \in 1 .. Len(history[x]) : history'[x][i] = history[x][i]
       /\ \A y \in L \ {x} : history'[y] = history[y] /\ scLast'[y] = scLast[y]
       /\ scLast'[x] = IF o = "seq_cst" THEN Len(history[x]) + 1 ELSE scLast[x]
       /\ view'[t] = V
       /\ \A u \in ThreadNames \ {t} : view'[u] = view[u]
  <2>1. Appends(t, x, e, V, U, o)
    BY <1>6, <1>23 DEF Appends
  <2> QED
    BY <1>15, <1>21, <1>22, <2>1, AppendMem DEF N
<1> QED
  BY <1>24, <1>6, <1>7, <1>8, <1>15, <1>16, <1>18, <1>20

\* Fences and joins only raise views.
LEMMA FenceMem ==
  ASSUME NEW L, MemOK(L), NEW t \in ThreadNames
  PROVE  /\ AcquireFence(t) =>
              /\ MemOK(L)'
              /\ Below(L, view[t], view'[t]) /\ Below(L, unseen[t], view'[t])
              /\ \A u \in ThreadNames \ {t} : view'[u] = view[u]
         /\ ReleaseFence(t) =>
              /\ MemOK(L)'
              /\ fenced'[t] = view[t]
         /\ \A s \in ThreadNames : Joins(t, s) =>
              /\ MemOK(L)'
              /\ Below(L, view[t], view'[t]) /\ Below(L, view[s], view'[t])
              /\ \A u \in ThreadNames \ {t} : view'[u] = view[u]
<1>1. /\ view \in [ThreadNames -> [L -> Nat]] /\ unseen \in [ThreadNames -> [L -> Nat]]
      /\ Lens(L) \in [L -> Nat]
  BY LensIs DEF MemOK, MemTypes
<1>2. \A s \in ThreadNames : Below(L, view[s], Lens(L)) /\ Below(L, unseen[s], Lens(L))
  BY DEF MemOK, MemBounds
<1>3. ASSUME NEW F \in [L -> Nat], Below(L, F, Lens(L)),
             view' = [view EXCEPT ![t] = Later(@, F)], UNCHANGED <<history, unseen, fenced, depends, scLast>>
      PROVE  /\ MemOK(L)'
             /\ Below(L, view[t], view'[t]) /\ Below(L, F, view'[t])
             /\ \A u \in ThreadNames \ {t} : view'[u] = view[u]
  <2> DEFINE V == Later(view[t], F)
  <2>1. view' = [view EXCEPT ![t] = V]
    BY <1>3
  <2>2. V \in [L -> Nat] /\ Below(L, view[t], V) /\ Below(L, F, V) /\ Below(L, V, Lens(L))
    BY <1>1, <1>2, <1>3, LaterIs
  <2> HIDE DEF V
  <2>3. /\ view' \in [ThreadNames -> [L -> Nat]] /\ view'[t] = V
        /\ \A u \in ThreadNames \ {t} : view'[u] = view[u]
    BY <2>1, <2>2, <1>1
  <2>4. Lens(L)' = Lens(L)
    BY <1>3 DEF Lens
  <2>5. MemTypes(L)'
    BY <1>3, <2>3 DEF MemOK, MemTypes
  <2>6. \A u \in ThreadNames : Below(L, view'[u], Lens(L))
    BY <2>2, <2>3, <1>2
  <2>7. MemBounds(L)'
    BY <1>3, <2>4, <2>6 DEF MemOK, MemBounds
  <2> QED
    BY <2>2, <2>3, <2>5, <2>7 DEF MemOK
<1>4. ASSUME AcquireFence(t)
      PROVE  /\ MemOK(L)'
             /\ Below(L, view[t], view'[t]) /\ Below(L, unseen[t], view'[t])
             /\ \A u \in ThreadNames \ {t} : view'[u] = view[u]
  BY <1>1, <1>2, <1>3, <1>4 DEF AcquireFence
<1>5. ASSUME ReleaseFence(t)
      PROVE  MemOK(L)' /\ fenced'[t] = view[t]
  <2>1. /\ fenced' = [fenced EXCEPT ![t] = view[t]]
        /\ UNCHANGED <<history, view, unseen, depends, scLast>>
        /\ fenced \in [ThreadNames -> [L -> Nat]]
    BY <1>5 DEF ReleaseFence, MemOK, MemTypes
  <2>2. /\ fenced' \in [ThreadNames -> [L -> Nat]] /\ fenced'[t] = view[t]
        /\ \A u \in ThreadNames \ {t} : fenced'[u] = fenced[u]
    BY <2>1, <1>1
  <2>3. Lens(L)' = Lens(L)
    BY <2>1 DEF Lens
  <2>4. MemTypes(L)'
    BY <2>1, <2>2 DEF MemOK, MemTypes
  <2>5. \A u \in ThreadNames : Below(L, fenced'[u], Lens(L))
    BY <2>2, <1>2 DEF MemOK, MemBounds
  <2>6. MemBounds(L)'
    BY <2>1, <2>3, <2>5 DEF MemOK, MemBounds
  <2> QED
    BY <2>2, <2>4, <2>6 DEF MemOK
<1>6. ASSUME NEW s \in ThreadNames, Joins(t, s)
      PROVE  /\ MemOK(L)'
             /\ Below(L, view[t], view'[t]) /\ Below(L, view[s], view'[t])
             /\ \A u \in ThreadNames \ {t} : view'[u] = view[u]
  BY <1>1, <1>2, <1>3, <1>6 DEF Joins
<1> QED
  BY <1>4, <1>5, <1>6

-------------------------------------------------------------------------------
(* The statements of a thread. *)

\* Program p runs on a sound memory.
Base(p) == /\ program = p
           /\ MemOK(LocationsOf(p))
           /\ place \in [ThreadNames -> Nat \ {0}]
           /\ reg \in [ThreadNames -> Int]

\* Thread t goes on, and no other thread.
Moves(t) == /\ place'[t] = place[t] + 1
            /\ \A u \in ThreadNames \ {t} : place'[u] = place[u]

\* x has the new entry v, and t has seen it.
Writes(L, t, x, v) ==
    /\ Len(history'[x]) = Len(history[x]) + 1
    /\ history'[x][Len(history[x]) + 1].val = v
    /\ \A i \in 1 .. Len(history[x]) : history'[x][i] = history[x][i]
    /\ \A y \in L \ {x} : history'[y] = history[y] /\ scLast'[y] = scLast[y]
    /\ Below(L, view[t], view'[t])
    /\ view'[t][x] = Len(history[x]) + 1
    /\ \A u \in ThreadNames \ {t} : view'[u] = view[u]
    /\ UNCHANGED <<fenced, depends>>

\* The view of t grows, with what F shows.
Sees(L, t, F) ==
    /\ Below(L, view[t], view'[t])
    /\ Below(L, F, view'[t])
    /\ \A u \in ThreadNames \ {t} : view'[u] = view[u]
    /\ UNCHANGED <<history, fenced, scLast>>

\* The location a statement of a thread names is one of the program.
LEMMA AtIsLocation ==
  ASSUME NEW p, NEW t \in ThreadNames, NEW k \in DOMAIN Text(p, t), "at" \in DOMAIN Text(p, t)[k]
  PROVE  Text(p, t)[k].at \in LocationsOf(p)
<1> DEFINE S == UNION {{Text(p, u)[i] : i \in DOMAIN Text(p, u)} : u \in ThreadNames}
<1>1. Text(p, t)[k] \in S
  OBVIOUS
<1>2. LocationsOf(p) = {s.at : s \in {r \in S : "at" \in DOMAIN r}}
  BY DEF LocationsOf
<1> HIDE DEF S
<1> QED
  BY <1>1, <1>2

\* A thread that steps has not ended.
LEMMA NotEnded ==
  ASSUME NEW t, ThreadStep(t)
  PROVE  ~Ended(t)
  BY DEF ThreadStep, LoadStep, StoreStep, ReplaceStep, CountStep, PlainStep, FenceStep, JoinStep,
     TakeStep,
         ItemStep, Doing

\* An ordinary store is carried out by PlainStep.
LEMMA PutRaw ==
  ASSUME NEW t \in ThreadNames, NEW x, NEW v, ThreadStep(t), Now(t) = Put(x, v)
  PROVE  /\ Store(t, x, v, "relaxed") /\ place' = [place EXCEPT ![t] = @ + 1]
         /\ UNCHANGED <<program, reg, processed>>
<1>1. Now(t).op = "put" /\ Now(t).at = x /\ Now(t).val = v
  BY DEF Put
<1> QED
  BY <1>1 DEF ThreadStep, LoadStep, StoreStep, ReplaceStep, CountStep, PlainStep, FenceStep,
     JoinStep, TakeStep,
         ItemStep, Doing, Advance

\* An atomic store is carried out by StoreStep.
LEMMA StoreRaw ==
  ASSUME NEW t \in ThreadNames, NEW x, NEW v, NEW o, ThreadStep(t), Now(t) = StoreOf(x, v, o)
  PROVE  Store(t, x, v, o) /\ place' = [place EXCEPT ![t] = @ + 1] /\ UNCHANGED <<program, reg, processed>>
<1>1. Now(t).op = "store" /\ Now(t).at = x /\ Now(t).val = v /\ Now(t).order = o
  BY DEF StoreOf
<1> QED
  BY <1>1 DEF ThreadStep, LoadStep, StoreStep, ReplaceStep, CountStep, PlainStep, FenceStep,
     JoinStep, TakeStep,
         ItemStep, Doing, Advance

\* An ordinary load is carried out by PlainStep.
LEMMA GetRaw ==
  ASSUME NEW t \in ThreadNames, NEW x, ThreadStep(t), Now(t) = Get(x) \/ Now(t) = GetDependent(x)
  PROVE  /\ UNCHANGED memory /\ place' = [place EXCEPT ![t] = @ + 1] /\ UNCHANGED <<program, processed>>
         /\ reg' = [reg EXCEPT ![t] = Newest(x).val]
<1>1. Now(t).op \in {"get", "get_dependent"} /\ Now(t).at = x
  BY DEF Get, GetDependent
<1> QED
  BY <1>1 DEF ThreadStep, LoadStep, StoreStep, ReplaceStep, CountStep, PlainStep, FenceStep,
     JoinStep, TakeStep,
         ItemStep, Doing, Advance

\* An atomic load is carried out by LoadStep; a wait reads the value it waits for.
LEMMA LoadRaw ==
  ASSUME NEW t \in ThreadNames, NEW x, NEW v, NEW o, ThreadStep(t),
         Now(t) \in {LoadOf(x, o), WaitFor(x, v, o), Expect(x, v, o)}
  PROVE  \E i \in Readable(t, x, o) :
            /\ Now(t) = WaitFor(x, v, o) => history[x][i].val = v
            /\ Load(t, x, i, o)
            /\ reg' = [reg EXCEPT ![t] = history[x][i].val]
            /\ place' = [place EXCEPT ![t] = @ + 1] /\ UNCHANGED <<program, processed>>
<1>1. /\ Now(t).op \in {"load", "wait", "expect"} /\ Now(t).at = x /\ Now(t).order = o
      /\ Now(t) = WaitFor(x, v, o) => Now(t).op = "wait" /\ Now(t).val = v
  BY DEF LoadOf, WaitFor, Expect
<1> QED
  BY <1>1 DEF ThreadStep, LoadStep, StoreStep, ReplaceStep, CountStep, PlainStep, FenceStep,
     JoinStep, TakeStep,
         ItemStep, Doing, Advance

\* An exchange is carried out by ReplaceStep, on the value it replaces.
LEMMA ReplaceRaw ==
  ASSUME NEW t \in ThreadNames, NEW x, NEW w, NEW v, NEW o, ThreadStep(t), Now(t) = Replace(x, w, v, o)
  PROVE  /\ Newest(x).val = w /\ Exchange(t, x, v, o)
         /\ place' = [place EXCEPT ![t] = @ + 1] /\ UNCHANGED <<program, reg, processed>>
<1>1. Now(t).op = "replace" /\ Now(t).at = x /\ Now(t).val = v /\ Now(t).order = o /\ Now(t).from = w
  BY DEF Replace
<1> QED
  BY <1>1 DEF ThreadStep, LoadStep, StoreStep, ReplaceStep, CountStep, PlainStep, FenceStep,
     JoinStep, TakeStep,
         ItemStep, Doing, Advance

\* A conditional increment is carried out by CountStep.
LEMMA CountRaw ==
  ASSUME NEW t \in ThreadNames, NEW x, ThreadStep(t), Now(t) = CountIf(x)
  PROVE  /\ \/ reg[t] = 0 /\ UNCHANGED memory
            \/ reg[t] # 0 /\ Exchange(t, x, Newest(x).val + 1, "seq_cst")
         /\ place' = [place EXCEPT ![t] = @ + 1] /\ UNCHANGED <<program, reg, processed>>
<1>1. Now(t).op = "count" /\ Now(t).at = x /\ Now(t).order = "seq_cst"
  BY DEF CountIf
<1> QED
  BY <1>1 DEF ThreadStep, LoadStep, StoreStep, ReplaceStep, CountStep, PlainStep, FenceStep,
     JoinStep, TakeStep,
         ItemStep, Doing, Advance

\* A fence is carried out by FenceStep.
LEMMA FenceRaw ==
  ASSUME NEW t \in ThreadNames, NEW o, ThreadStep(t), Now(t) = Fence(o)
  PROVE  /\ IF o = "acquire" THEN AcquireFence(t) ELSE ReleaseFence(t)
         /\ place' = [place EXCEPT ![t] = @ + 1] /\ UNCHANGED <<program, reg, processed>>
<1>1. Now(t).op = "fence" /\ Now(t).order = o
  BY DEF Fence
<1> QED
  BY <1>1 DEF ThreadStep, LoadStep, StoreStep, ReplaceStep, CountStep, PlainStep, FenceStep,
     JoinStep, TakeStep,
         ItemStep, Doing, Advance

\* A join is carried out by JoinStep, once the other thread has ended.
LEMMA JoinRaw ==
  ASSUME NEW t \in ThreadNames, NEW s, ThreadStep(t), Now(t) = [op |-> "join", thread |-> s]
  PROVE  /\ Ended(s) /\ Joins(t, s)
         /\ place' = [place EXCEPT ![t] = @ + 1] /\ UNCHANGED <<program, reg, processed>>
<1>1. Now(t).op = "join" /\ Now(t).thread = s
  OBVIOUS
<1> QED
  BY <1>1 DEF ThreadStep, LoadStep, StoreStep, ReplaceStep, CountStep, PlainStep, FenceStep,
     JoinStep, TakeStep,
         ItemStep, Doing, Advance

\* A poll of p209 is carried out by TakeStep.
LEMMA TakeRaw ==
  ASSUME NEW t \in ThreadNames, NEW x, NEW o, ThreadStep(t), Now(t) = FetchSub(x, o)
  PROVE  /\ Exchange(t, x, Newest(x).val - 1, o)
         /\ reg' = [reg EXCEPT ![t] = Newest(x).val]
         /\ \/ Newest(x).val > 0 /\ place' = [place EXCEPT ![t] = @ + 1]
            \/ Newest(x).val <= 0 /\ place' = place
         /\ UNCHANGED <<program, processed>>
<1>1. Now(t).op = "fetch_sub" /\ Now(t).at = x /\ Now(t).order = o
  BY DEF FetchSub
<1> QED
  BY <1>1 DEF ThreadStep, LoadStep, StoreStep, ReplaceStep, CountStep, PlainStep, FenceStep,
     JoinStep, TakeStep,
         ItemStep, Doing, Advance

\* An item of p209 is carried out by ItemStep.
LEMMA ItemRaw ==
  ASSUME NEW t \in ThreadNames, NEW x, ThreadStep(t), Now(t) = Item(x)
  PROVE  /\ processed' = Append(processed, reg[t] - 1)
         /\ place' = [place EXCEPT ![t] = 1]
         /\ UNCHANGED <<memory, program, reg>>
<1>1. Now(t).op = "item" /\ Now(t).at = x
  BY DEF Item
<1> QED
  BY <1>1 DEF ThreadStep, LoadStep, StoreStep, ReplaceStep, CountStep, PlainStep, FenceStep,
     JoinStep, TakeStep,
         ItemStep, Doing, Advance

\* A thread without a text has ended.
LEMMA Place0 ==
  ASSUME NEW t, place[t] \in Nat \ {0}, ~Ended(t), Text(program, t) = <<>>
  PROVE  FALSE
  BY DEF Ended

\* A thread in a text of one statement is at that one,
LEMMA Place1 ==
  ASSUME NEW t, NEW s1, place[t] \in Nat \ {0}, ~Ended(t),
         Text(program, t) = <<s1>>
  PROVE  \/ place[t] = 1 /\ Now(t) = s1
<1>1. Len(<<s1>>) = 1
  OBVIOUS
<1> QED
  BY <1>1 DEF Ended, Now

\* in a text of two at the first or the second,
LEMMA Place2 ==
  ASSUME NEW t, NEW s1, NEW s2, place[t] \in Nat \ {0}, ~Ended(t),
         Text(program, t) = <<s1, s2>>
  PROVE  \/ place[t] = 1 /\ Now(t) = s1
         \/ place[t] = 2 /\ Now(t) = s2
<1>1. Len(<<s1, s2>>) = 2
  OBVIOUS
<1> QED
  BY <1>1 DEF Ended, Now

\* in a text of three at one of the three,
LEMMA Place3 ==
  ASSUME NEW t, NEW s1, NEW s2, NEW s3, place[t] \in Nat \ {0}, ~Ended(t),
         Text(program, t) = <<s1, s2, s3>>
  PROVE  \/ place[t] = 1 /\ Now(t) = s1
         \/ place[t] = 2 /\ Now(t) = s2
         \/ place[t] = 3 /\ Now(t) = s3
<1>1. Len(<<s1, s2, s3>>) = 3
  OBVIOUS
<1> QED
  BY <1>1 DEF Ended, Now

\* and in a text of four at one of the four.
LEMMA Place4 ==
  ASSUME NEW t, NEW s1, NEW s2, NEW s3, NEW s4, place[t] \in Nat \ {0}, ~Ended(t),
         Text(program, t) = <<s1, s2, s3, s4>>
  PROVE  \/ place[t] = 1 /\ Now(t) = s1
         \/ place[t] = 2 /\ Now(t) = s2
         \/ place[t] = 3 /\ Now(t) = s3
         \/ place[t] = 4 /\ Now(t) = s4
<1>1. Len(<<s1, s2, s3, s4>>) = 4
  OBVIOUS
<1> QED
  BY <1>1 DEF Ended, Now

\* A thread whose text joins the four others first is at one of the joins or at what follows.
LEMMA PlaceJoin ==
  ASSUME NEW t, NEW s, place[t] \in Nat \ {0}, ~Ended(t), Text(program, t) = JoinAll \o <<s>>
  PROVE  \/ place[t] = 5 /\ Now(t) = s
         \/ place[t] = 1 /\ Now(t) = [op |-> "join", thread |-> "a"]
         \/ place[t] = 2 /\ Now(t) = [op |-> "join", thread |-> "b"]
         \/ place[t] = 3 /\ Now(t) = [op |-> "join", thread |-> "c"]
         \/ place[t] = 4 /\ Now(t) = [op |-> "join", thread |-> "d"]
<1> DEFINE ja == [op |-> "join", thread |-> "a"]
           jb == [op |-> "join", thread |-> "b"]
           jc == [op |-> "join", thread |-> "c"]
           jd == [op |-> "join", thread |-> "d"]
<1>1. JoinAll = <<ja, jb, jc, jd>>
  BY DEF JoinAll
<1> HIDE DEF ja, jb, jc, jd
<1> DEFINE J == <<ja, jb, jc, jd>>
           S == {ja, jb, jc, jd, s}
           T == <<s>>
           J5 == J \o T
<1>2. /\ J \in Seq(S) /\ Len(J) = 4 /\ T \in Seq(S) /\ Len(T) = 1
      /\ J[1] = ja /\ J[2] = jb /\ J[3] = jc /\ J[4] = jd /\ T[1] = s
  OBVIOUS
<1> HIDE DEF J, T, S
<1>3. /\ Len(J5) = 5 /\ J5[1] = ja /\ J5[2] = jb /\ J5[3] = jc /\ J5[4] = jd /\ J5[5] = s
  <2>1. /\ Len(J5) = Len(J) + Len(T)
        /\ \A i \in 1 .. Len(J) + Len(T) : J5[i] = IF i <= Len(J) THEN J[i] ELSE T[i - Len(J)]
    BY <1>2, ConcatProperties
  <2> HIDE DEF J5
  <2> QED
    BY <1>2, <2>1
<1> HIDE DEF J5
<1>4. Text(program, t) = J5
  BY <1>1 DEF J, J5, T
<1> HIDE DEF J5
<1>5. \/ place[t] = 5 /\ Now(t) = s
      \/ place[t] = 1 /\ Now(t) = ja
      \/ place[t] = 2 /\ Now(t) = jb
      \/ place[t] = 3 /\ Now(t) = jc
      \/ place[t] = 4 /\ Now(t) = jd
  <2> HIDE DEF T
  <2>0. Len(Text(program, t)) = 5
    BY <1>3, <1>4
  <2>1. place[t] \in 1 .. 5
    BY <2>0 DEF Ended
  <2>2. Now(t) = J5[place[t]]
    BY <1>4 DEF Now
  <2> QED
    BY <1>3, <2>1, <2>2
<1> QED
  BY <1>5 DEF ja, jb, jc, jd

\* The basis of a program holds again once a thread has gone on.
LEMMA BaseMoves ==
  ASSUME NEW p, Base(p), NEW t \in ThreadNames, place' = [place EXCEPT ![t] = @ + 1], program' = program,
         MemOK(LocationsOf(p))', reg' \in [ThreadNames -> Int]
  PROVE  Base(p)' /\ Moves(t)
<1>1. place \in [ThreadNames -> Nat \ {0}]
  BY DEF Base
<1>2. place' \in [ThreadNames -> Nat \ {0}] /\ Moves(t)
  BY <1>1 DEF Moves
<1> QED
  BY <1>2 DEF Base

\* A memory that does not change stays sound.
LEMMA SameMem ==
  ASSUME NEW L, MemOK(L), UNCHANGED memory
  PROVE  MemOK(L)'
<1>1. Lens(L)' = Lens(L)
  BY DEF Lens, memory
<1> QED
  BY <1>1 DEF MemOK, MemTypes, MemBounds, memory

\* What an ordinary store does to a program.
LEMMA PutStep ==
  ASSUME NEW p, Base(p), NEW t \in ThreadNames, NEW x \in LocationsOf(p), NEW v \in Int,
         ThreadStep(t), Now(t) = Put(x, v)
  PROVE  /\ Base(p)' /\ Moves(t) /\ Writes(LocationsOf(p), t, x, v)
         /\ UNCHANGED <<unseen, reg, processed>>
<1> DEFINE L == LocationsOf(p)
<1>1. /\ Store(t, x, v, "relaxed") /\ place' = [place EXCEPT ![t] = @ + 1]
      /\ UNCHANGED <<program, reg, processed>>
  BY PutRaw
<1>2. MemOK(L) /\ x \in L
  BY DEF Base
<1> HIDE DEF L
<1>3. MemOK(L)' /\ Writes(L, t, x, v) /\ unseen' = unseen
  BY <1>1, <1>2, StoreMem DEF Writes
<1>4. reg' \in [ThreadNames -> Int]
  BY <1>1 DEF Base
<1> QED
  BY <1>1, <1>3, <1>4, BaseMoves DEF L

\* What an atomic store does to a program.
LEMMA StoreStepIs ==
  ASSUME NEW p, Base(p), NEW t \in ThreadNames, NEW x \in LocationsOf(p), NEW v \in Int, NEW o,
         ThreadStep(t), Now(t) = StoreOf(x, v, o)
  PROVE  /\ Base(p)' /\ Moves(t) /\ Writes(LocationsOf(p), t, x, v)
         /\ o \in Releases => history'[x][Len(history[x]) + 1].view = view'[t]
         /\ o \notin Releases => Below(LocationsOf(p), fenced[t], history'[x][Len(history[x]) + 1].view)
         /\ scLast'[x] = IF o = "seq_cst" THEN Len(history[x]) + 1 ELSE scLast[x]
         /\ UNCHANGED <<unseen, reg, processed>>
<1> DEFINE L == LocationsOf(p)
<1>1. Store(t, x, v, o) /\ place' = [place EXCEPT ![t] = @ + 1] /\ UNCHANGED <<program, reg, processed>>
  BY StoreRaw
<1>2. MemOK(L) /\ x \in L
  BY DEF Base
<1> HIDE DEF L
<1>3. /\ MemOK(L)' /\ Writes(L, t, x, v) /\ unseen' = unseen
      /\ o \in Releases => history'[x][Len(history[x]) + 1].view = view'[t]
      /\ o \notin Releases => Below(L, fenced[t], history'[x][Len(history[x]) + 1].view)
      /\ scLast'[x] = IF o = "seq_cst" THEN Len(history[x]) + 1 ELSE scLast[x]
  BY <1>1, <1>2, StoreMem DEF Writes
<1>4. reg' \in [ThreadNames -> Int]
  BY <1>1 DEF Base
<1> QED
  BY <1>1, <1>3, <1>4, BaseMoves DEF L

\* What an ordinary load does to a program.
LEMMA GetStep ==
  ASSUME NEW p, Base(p), NEW t \in ThreadNames, NEW x \in LocationsOf(p),
         ThreadStep(t), Now(t) = Get(x) \/ Now(t) = GetDependent(x)
  PROVE  /\ Base(p)' /\ Moves(t)
         /\ UNCHANGED <<memory, processed>>
<1> DEFINE L == LocationsOf(p)
<1>1. /\ UNCHANGED memory /\ place' = [place EXCEPT ![t] = @ + 1] /\ UNCHANGED <<program, processed>>
      /\ reg' = [reg EXCEPT ![t] = Newest(x).val]
  BY GetRaw
<1>2. MemOK(L) /\ x \in L /\ reg \in [ThreadNames -> Int]
  BY DEF Base
<1> HIDE DEF L
<1>3. MemOK(L)'
  BY <1>1, <1>2, SameMem
<1>4. Newest(x).val \in Int
  <2>1. history[x] \in Seq(Entry(L)) /\ Len(history[x]) \in Nat \ {0}
    BY <1>2, LensIs DEF MemOK, MemTypes
  <2>2. Newest(x) \in Entry(L)
    BY <2>1 DEF Newest
  <2> QED
    BY <2>2 DEF Entry
<1>5. reg' \in [ThreadNames -> Int]
  BY <1>1, <1>2, <1>4
<1> QED
  BY <1>1, <1>3, <1>5, BaseMoves DEF L

\* What an atomic load does to a program.
LEMMA LoadStepIs ==
  ASSUME NEW p, Base(p), NEW t \in ThreadNames, NEW x \in LocationsOf(p), NEW v, NEW o,
         ThreadStep(t), Now(t) \in {LoadOf(x, o), WaitFor(x, v, o), Expect(x, v, o)}
  PROVE  /\ Base(p)' /\ Moves(t) /\ UNCHANGED <<history, fenced, scLast, processed>>
         /\ Below(LocationsOf(p), view[t], view'[t])
         /\ \A u \in ThreadNames \ {t} : view'[u] = view[u] /\ unseen'[u] = unseen[u] /\ reg'[u] = reg[u]
         /\ \E i \in 1 .. Len(history[x]) :
               /\ i >= view[t][x] /\ (o = "seq_cst" => i >= scLast[x])
               /\ Now(t) = WaitFor(x, v, o) => history[x][i].val = v
               /\ reg'[t] = history[x][i].val
               /\ o \in Acquires => Below(LocationsOf(p), history[x][i].view, view'[t])
               /\ Below(LocationsOf(p), history[x][i].view, unseen'[t])
               /\ o = "consume" => Below(LocationsOf(p), history[x][i].view, depends'[t])
<1> DEFINE L == LocationsOf(p)
<1>1. PICK i \in Readable(t, x, o) :
            /\ Now(t) = WaitFor(x, v, o) => history[x][i].val = v
            /\ Load(t, x, i, o)
            /\ reg' = [reg EXCEPT ![t] = history[x][i].val]
            /\ place' = [place EXCEPT ![t] = @ + 1] /\ UNCHANGED <<program, processed>>
  BY LoadRaw
<1>2. MemOK(L) /\ x \in L /\ reg \in [ThreadNames -> Int]
  BY DEF Base
<1>3. i \in 1 .. Len(history[x]) /\ i >= view[t][x] /\ (o = "seq_cst" => i >= scLast[x])
  BY DEF Readable
<1> HIDE DEF L
<1>4. /\ MemOK(L)'
      /\ Below(L, view[t], view'[t])
      /\ o \in Acquires => Below(L, history[x][i].view, view'[t])
      /\ Below(L, history[x][i].view, unseen'[t])
      /\ o = "consume" => Below(L, history[x][i].view, depends'[t])
      /\ \A u \in ThreadNames \ {t} : view'[u] = view[u] /\ unseen'[u] = unseen[u]
      /\ UNCHANGED <<history, fenced, scLast>>
  BY <1>1, <1>2, LoadMem
<1>5. history[x][i].val \in Int
  <2>1. history[x][i] \in Entry(L)
    BY <1>2, <1>3 DEF MemOK, MemTypes
  <2> QED
    BY <2>1 DEF Entry
<1>6. reg' \in [ThreadNames -> Int] /\ reg'[t] = history[x][i].val /\ \A u \in ThreadNames \ {t} : reg'[u] = reg[u]
  BY <1>1, <1>2, <1>5
<1>7. Base(p)' /\ Moves(t)
  BY <1>1, <1>4, <1>6, BaseMoves DEF L
<1> QED
  BY <1>1, <1>3, <1>4, <1>6, <1>7 DEF L

\* What a read-modify-write does to a program, whatever value v it writes.
LEMMA ExchangeIs ==
  ASSUME NEW p, Base(p), NEW t \in ThreadNames, NEW x \in LocationsOf(p), NEW v \in Int, NEW o, Exchange(t, x, v, o)
  PROVE  /\ MemOK(LocationsOf(p))' /\ Writes(LocationsOf(p), t, x, v)
         /\ o \in Acquires => Below(LocationsOf(p), Newest(x).view, view'[t])
         /\ Below(LocationsOf(p), Newest(x).view, history'[x][Len(history[x]) + 1].view)
         /\ o \in Releases => Below(LocationsOf(p), view'[t], history'[x][Len(history[x]) + 1].view)
         /\ scLast'[x] = IF o = "seq_cst" THEN Len(history[x]) + 1 ELSE scLast[x]
         /\ Newest(x) = history[x][Len(history[x])]
         /\ Newest(x).val \in Int
<1> DEFINE L == LocationsOf(p)
<1>2. MemOK(L) /\ x \in L
  BY DEF Base
<1> HIDE DEF L
<1>3. /\ MemOK(L)' /\ Writes(L, t, x, v)
      /\ o \in Acquires => Below(L, Newest(x).view, view'[t])
      /\ Below(L, Newest(x).view, history'[x][Len(history[x]) + 1].view)
      /\ o \in Releases => Below(L, view'[t], history'[x][Len(history[x]) + 1].view)
      /\ scLast'[x] = IF o = "seq_cst" THEN Len(history[x]) + 1 ELSE scLast[x]
  BY <1>2, ExchangeMem DEF Writes
<1>4. Newest(x).val \in Int
  <2>1. history[x] \in Seq(Entry(L)) /\ Len(history[x]) \in Nat \ {0}
    BY <1>2, LensIs DEF MemOK, MemTypes
  <2>2. Newest(x) \in Entry(L)
    BY <2>1 DEF Newest
  <2> QED
    BY <2>2 DEF Entry
<1>5. Newest(x) = history[x][Len(history[x])]
  BY DEF Newest
<1> QED
  BY <1>3, <1>4, <1>5 DEF L

\* The newest value of a location is a number.
LEMMA NewestInt ==
  ASSUME NEW p, Base(p), NEW x \in LocationsOf(p)
  PROVE  Newest(x).val \in Int /\ Newest(x) = history[x][Len(history[x])] /\ Len(history[x]) \in Nat \ {0}
<1> DEFINE L == LocationsOf(p)
<1>2. MemOK(L) /\ x \in L
  BY DEF Base
<1> HIDE DEF L
<1>4. history[x] \in Seq(Entry(L)) /\ Len(history[x]) \in Nat \ {0}
  BY <1>2, LensIs DEF MemOK, MemTypes
<1>5. Newest(x) \in Entry(L)
  BY <1>4 DEF Newest
<1> QED
  BY <1>4, <1>5 DEF Entry, Newest

\* What an exchange does to a program.
LEMMA ReplaceStepIs ==
  ASSUME NEW p, Base(p), NEW t \in ThreadNames, NEW x \in LocationsOf(p), NEW w, NEW v \in Int, NEW o,
         ThreadStep(t), Now(t) = Replace(x, w, v, o)
  PROVE  /\ Base(p)' /\ Moves(t) /\ Writes(LocationsOf(p), t, x, v)
         /\ Newest(x).val = w /\ Newest(x) = history[x][Len(history[x])]
         /\ o \in Acquires => Below(LocationsOf(p), Newest(x).view, view'[t])
         /\ Below(LocationsOf(p), Newest(x).view, history'[x][Len(history[x]) + 1].view)
         /\ o \in Releases => Below(LocationsOf(p), view'[t], history'[x][Len(history[x]) + 1].view)
         /\ UNCHANGED <<reg, processed>>
<1>1. /\ Newest(x).val = w /\ Exchange(t, x, v, o)
      /\ place' = [place EXCEPT ![t] = @ + 1] /\ UNCHANGED <<program, reg, processed>>
  BY ReplaceRaw
<1>2. reg' \in [ThreadNames -> Int]
  BY <1>1 DEF Base
<1>3. /\ MemOK(LocationsOf(p))' /\ Writes(LocationsOf(p), t, x, v)
      /\ o \in Acquires => Below(LocationsOf(p), Newest(x).view, view'[t])
      /\ Below(LocationsOf(p), Newest(x).view, history'[x][Len(history[x]) + 1].view)
      /\ o \in Releases => Below(LocationsOf(p), view'[t], history'[x][Len(history[x]) + 1].view)
      /\ Newest(x) = history[x][Len(history[x])]
  BY <1>1, ExchangeIs
<1>4. Base(p)' /\ Moves(t)
  BY <1>1, <1>2, <1>3, BaseMoves
<1> QED
  BY <1>1, <1>3, <1>4

\* What a conditional increment does to a program.
LEMMA CountStepIs ==
  ASSUME NEW p, Base(p), NEW t \in ThreadNames, NEW x \in LocationsOf(p), ThreadStep(t), Now(t) = CountIf(x)
  PROVE  /\ Base(p)' /\ Moves(t) /\ UNCHANGED <<reg, processed>>
         /\ \/ reg[t] = 0 /\ UNCHANGED memory
            \/ /\ reg[t] # 0 /\ Writes(LocationsOf(p), t, x, Newest(x).val + 1)
               /\ Newest(x) = history[x][Len(history[x])]
<1>1. /\ \/ reg[t] = 0 /\ UNCHANGED memory
         \/ reg[t] # 0 /\ Exchange(t, x, Newest(x).val + 1, "seq_cst")
      /\ place' = [place EXCEPT ![t] = @ + 1] /\ UNCHANGED <<program, reg, processed>>
  BY CountRaw
<1>2. reg' \in [ThreadNames -> Int]
  BY <1>1 DEF Base
<1>3. CASE reg[t] = 0 /\ UNCHANGED memory
  <2>1. MemOK(LocationsOf(p))'
    BY <1>3, SameMem DEF Base
  <2>2. Base(p)' /\ Moves(t)
    BY <1>1, <1>2, <2>1, BaseMoves
  <2> QED
    BY <1>1, <1>3, <2>2
<1>4. CASE reg[t] # 0 /\ Exchange(t, x, Newest(x).val + 1, "seq_cst")
  <2> DEFINE v == Newest(x).val + 1
  <2>1. v \in Int
    BY NewestInt
  <2>2. Exchange(t, x, v, "seq_cst")
    BY <1>4
  <2> HIDE DEF v
  <2>3. /\ MemOK(LocationsOf(p))' /\ Writes(LocationsOf(p), t, x, v)
        /\ Newest(x) = history[x][Len(history[x])]
    BY <2>1, <2>2, ExchangeIs
  <2>4. Base(p)' /\ Moves(t)
    BY <1>1, <1>2, <2>3, BaseMoves
  <2> QED
    BY <1>1, <1>4, <2>3, <2>4 DEF v
<1> QED
  BY <1>1, <1>3, <1>4

\* What a fence does to a program.
LEMMA FenceStepIs ==
  ASSUME NEW p, Base(p), NEW t \in ThreadNames, NEW o, ThreadStep(t), Now(t) = Fence(o)
  PROVE  /\ Base(p)' /\ Moves(t) /\ UNCHANGED <<reg, processed, history, unseen, depends, scLast>>
         /\ o = "acquire" => /\ Below(LocationsOf(p), view[t], view'[t])
                             /\ Below(LocationsOf(p), unseen[t], view'[t])
                             /\ \A u \in ThreadNames \ {t} : view'[u] = view[u]
                             /\ fenced' = fenced
         /\ o # "acquire" => /\ fenced'[t] = view[t]
                             /\ view' = view
<1>1. /\ IF o = "acquire" THEN AcquireFence(t) ELSE ReleaseFence(t)
      /\ place' = [place EXCEPT ![t] = @ + 1] /\ UNCHANGED <<program, reg, processed>>
  BY FenceRaw
<1>2. reg' \in [ThreadNames -> Int]
  BY <1>1 DEF Base
<1> DEFINE L == LocationsOf(p)
<1>3. MemOK(L)
  BY DEF Base
<1> HIDE DEF L
<1>4. /\ MemOK(L)'
      /\ o = "acquire" => /\ Below(L, view[t], view'[t])
                          /\ Below(L, unseen[t], view'[t])
                          /\ \A u \in ThreadNames \ {t} : view'[u] = view[u]
      /\ o # "acquire" => fenced'[t] = view[t]
  BY <1>1, <1>3, FenceMem
<1>5. /\ UNCHANGED <<history, unseen, depends, scLast>>
      /\ o = "acquire" => fenced' = fenced
      /\ o # "acquire" => view' = view
  BY <1>1 DEF AcquireFence, ReleaseFence
<1>6. Base(p)' /\ Moves(t)
  BY <1>1, <1>2, <1>4, BaseMoves DEF L
<1> QED
  BY <1>1, <1>4, <1>5, <1>6 DEF L

\* What a join does to a program.
LEMMA JoinStepIs ==
  ASSUME NEW p, Base(p), NEW t \in ThreadNames, NEW s \in ThreadNames, ThreadStep(t), Now(t) = [op |-> "join", thread |-> s]
  PROVE  /\ Base(p)' /\ Moves(t) /\ UNCHANGED <<reg, processed, unseen, depends>> /\ Ended(s)
         /\ Sees(LocationsOf(p), t, view[s])
<1>1. /\ Ended(s) /\ Joins(t, s)
      /\ place' = [place EXCEPT ![t] = @ + 1] /\ UNCHANGED <<program, reg, processed>>
  BY JoinRaw
<1>2. reg' \in [ThreadNames -> Int]
  BY <1>1 DEF Base
<1> DEFINE L == LocationsOf(p)
<1>3. MemOK(L)
  BY DEF Base
<1> HIDE DEF L
<1>4. /\ MemOK(L)'
      /\ Below(L, view[t], view'[t]) /\ Below(L, view[s], view'[t])
      /\ \A u \in ThreadNames \ {t} : view'[u] = view[u]
  BY <1>1, <1>3, FenceMem
<1>5. UNCHANGED <<history, unseen, fenced, depends, scLast>>
  BY <1>1 DEF Joins
<1>6. Base(p)' /\ Moves(t)
  BY <1>1, <1>2, <1>4, BaseMoves DEF L
<1> QED
  BY <1>1, <1>4, <1>5, <1>6 DEF L, Sees

\* The bounds of what everybody sees.
LEMMA Bounds ==
  ASSUME NEW p, Base(p), NEW x \in LocationsOf(p)
  PROVE  /\ Len(history[x]) \in Nat \ {0} /\ scLast[x] \in Nat
         /\ \A t \in ThreadNames : /\ view[t][x] \in Nat /\ view[t][x] <= Len(history[x])
                                   /\ depends[t][x] \in Nat /\ depends[t][x] <= Len(history[x])
                                   /\ unseen[t][x] \in Nat /\ fenced[t][x] \in Nat
         /\ \A y \in LocationsOf(p) : \A i \in 1 .. Len(history[y]) :
               /\ history[y][i].view[x] \in Nat /\ history[y][i].view[x] <= Len(history[x])
               /\ history[y][i].val \in Int
<1> DEFINE L == LocationsOf(p)
<1>1. MemOK(L) /\ x \in L
  BY DEF Base
<1> HIDE DEF L
<1>2. Lens(L)[x] = Len(history[x]) /\ Len(history[x]) \in Nat \ {0}
  BY <1>1, LensIs
<1>3. scLast[x] \in Nat
  BY <1>1 DEF MemOK, MemTypes
<1>4. \A t \in ThreadNames : /\ view[t][x] \in Nat /\ view[t][x] <= Len(history[x])
                             /\ depends[t][x] \in Nat /\ depends[t][x] <= Len(history[x])
                             /\ unseen[t][x] \in Nat /\ fenced[t][x] \in Nat
  BY <1>1, <1>2 DEF MemOK, MemTypes, MemBounds, Below
<1>5. ASSUME NEW y \in L, NEW i \in 1 .. Len(history[y])
      PROVE  /\ history[y][i].view[x] \in Nat /\ history[y][i].view[x] <= Len(history[x])
             /\ history[y][i].val \in Int
  <2>1. history[y][i] \in Entry(L)
    BY <1>1, <1>5 DEF MemOK, MemTypes
  <2>2. history[y][i].view \in [L -> Nat] /\ history[y][i].val \in Int
    BY <2>1 DEF Entry
  <2>3. history[y][i].view[x] <= Lens(L)[x]
    BY <1>1, <1>5 DEF MemOK, MemBounds, Below
  <2> QED
    BY <1>1, <1>2, <2>2, <2>3
<1> QED
  BY <1>2, <1>3, <1>4, <1>5 DEF L

-------------------------------------------------------------------------------
(* What is passed on. *)

\* The bounds, after a step.
LEMMA NextBounds ==
  ASSUME NEW p, Base(p)', NEW x \in LocationsOf(p)
  PROVE  /\ Len(history'[x]) \in Nat
         /\ \A t \in ThreadNames : view'[t][x] \in Nat /\ view'[t][x] <= Len(history'[x])
                               /\ depends'[t][x] \in Nat /\ depends'[t][x] <= Len(history'[x])
                               /\ fenced'[t][x] \in Nat /\ fenced'[t][x] <= Len(history'[x])
                               /\ unseen'[t][x] \in Nat /\ unseen'[t][x] <= Len(history'[x])
         /\ \A y \in LocationsOf(p) : \A i \in 1 .. Len(history'[y]) :
               history'[y][i].view[x] \in Nat /\ history'[y][i].view[x] <= Len(history'[x])
<1> DEFINE L == LocationsOf(p)
<1>1. MemTypes(L)' /\ MemBounds(L)' /\ x \in L
  BY DEF Base, MemOK
<1> HIDE DEF L
<1>2. history'[x] \in Seq(Entry(L)) /\ Len(history'[x]) \in Nat /\ Lens(L)'[x] = Len(history'[x])
  BY <1>1 DEF MemTypes, Lens
<1>3. \A t \in ThreadNames : /\ view'[t] \in [L -> Nat] /\ depends'[t] \in [L -> Nat]
                             /\ fenced'[t] \in [L -> Nat] /\ unseen'[t] \in [L -> Nat]
  BY <1>1 DEF MemTypes
<1>4. \A t \in ThreadNames : /\ view'[t][x] <= Lens(L)'[x] /\ depends'[t][x] <= Lens(L)'[x]
                             /\ fenced'[t][x] <= Lens(L)'[x] /\ unseen'[t][x] <= Lens(L)'[x]
  BY <1>1 DEF MemBounds, Below
<1>5. ASSUME NEW y \in L, NEW i \in 1 .. Len(history'[y])
      PROVE  history'[y][i].view[x] \in Nat /\ history'[y][i].view[x] <= Len(history'[x])
  <2>1. history'[y][i] \in Entry(L)
    BY <1>1, <1>5 DEF MemTypes
  <2>2. history'[y][i].view \in [L -> Nat]
    BY <2>1 DEF Entry
  <2>3. history'[y][i].view[x] <= Lens(L)'[x]
    BY <1>1, <1>5 DEF MemBounds, Below
  <2> QED
    BY <1>1, <1>2, <2>2, <2>3
<1> QED
  BY <1>1, <1>2, <1>3, <1>4, <1>5 DEF L

\* Who sees at least what F shows has seen all of x if F had.
LEMMA Informed ==
  ASSUME NEW p, Base(p)', NEW x \in LocationsOf(p), NEW t \in ThreadNames, NEW F,
         Below(LocationsOf(p), F, view'[t]), Ordered(x, F), history'[x] = history[x]
  PROVE  Ordered(x, view[t])'
<1>1. view'[t][x] \in Nat /\ view'[t][x] <= Len(history'[x]) /\ Len(history'[x]) \in Nat
  BY NextBounds
<1>2. F[x] <= view'[t][x]
  BY DEF Below
<1> QED
  BY <1>1, <1>2 DEF Ordered

\* The values stored into f, and what the entries with value v pass on: all of x.
Vals(f) == {history[f][i].val : i \in 1 .. Len(history[f])}
Passes(f, v, x) == \A i \in 1 .. Len(history[f]) :
                      history[f][i].val = v => Ordered(x, history[f][i].view)

\* A write adds its value to those of its location alone.
LEMMA ValsGrow ==
  ASSUME NEW p, Base(p), NEW t, NEW f \in LocationsOf(p), NEW v, Writes(LocationsOf(p), t, f, v)
  PROVE  /\ Vals(f)' = Vals(f) \cup {v}
         /\ \A y \in LocationsOf(p) \ {f} : Vals(y)' = Vals(y)
<1>1. Len(history[f]) \in Nat
  BY Bounds
<1>2. /\ Len(history'[f]) = Len(history[f]) + 1
      /\ history'[f][Len(history[f]) + 1].val = v
      /\ \A i \in 1 .. Len(history[f]) : history'[f][i] = history[f][i]
      /\ \A y \in LocationsOf(p) \ {f} : history'[y] = history[y]
  BY DEF Writes
<1>3. 1 .. Len(history'[f]) = (1 .. Len(history[f])) \cup {Len(history[f]) + 1}
  BY <1>1, <1>2
<1>4. Vals(f)' = {history'[f][i].val : i \in (1 .. Len(history[f])) \cup {Len(history[f]) + 1}}
  BY <1>3 DEF Vals
<1>5. Vals(f)' = {history'[f][i].val : i \in 1 .. Len(history[f])} \cup {v}
  BY <1>2, <1>4
<1>6. {history'[f][i].val : i \in 1 .. Len(history[f])} = Vals(f)
  BY <1>2 DEF Vals
<1>7. Vals(f)' = Vals(f) \cup {v}
  BY <1>5, <1>6
<1>8. \A y \in LocationsOf(p) \ {f} : Vals(y)' = Vals(y)
  BY <1>2 DEF Vals
<1> QED
  BY <1>7, <1>8

\* It keeps what the entries pass on, if the new one does so as well.
LEMMA PassesGrow ==
  ASSUME NEW p, Base(p), NEW t, NEW f \in LocationsOf(p), NEW v, Writes(LocationsOf(p), t, f, v),
         NEW x \in LocationsOf(p) \ {f}, NEW w, Passes(f, w, x),
         v = w => Ordered(x, history'[f][Len(history[f]) + 1].view)
  PROVE  Passes(f, w, x)'
<1>1. Len(history[f]) \in Nat
  BY Bounds
<1>2. /\ Len(history'[f]) = Len(history[f]) + 1
      /\ history'[f][Len(history[f]) + 1].val = v
      /\ \A i \in 1 .. Len(history[f]) : history'[f][i] = history[f][i]
      /\ history'[x] = history[x]
  BY DEF Writes
<1> SUFFICES ASSUME NEW i \in 1 .. Len(history'[f]), history'[f][i].val = w
             PROVE  Ordered(x, history[f][i].view)'
  BY DEF Passes
<1>3. CASE i = Len(history[f]) + 1
  BY <1>2, <1>3 DEF Ordered
<1>4. CASE i \in 1 .. Len(history[f])
  BY <1>2, <1>4 DEF Ordered, Passes
<1> QED
  BY <1>1, <1>2, <1>3, <1>4

\* Entries pass on x for as long as nothing is stored there.
LEMMA PassesKept ==
  ASSUME NEW f, NEW x, NEW v, history'[f] = history[f],
         Passes(f, v, x), history'[x] = history[x] \/ v \notin Vals(f)
  PROVE  Passes(f, v, x)'
  BY DEF Passes, Vals, Ordered

\* A value that was not stored passes on everything.
LEMMA PassesNone ==
  ASSUME NEW f, NEW x, NEW v, v \notin Vals(f)
  PROVE  Passes(f, v, x)
  BY DEF Passes, Vals

\* A wait with an acquire takes over what the entries with its value pass on.
LEMMA WaitAcquire ==
  ASSUME NEW p, Base(p), NEW t \in ThreadNames, NEW f \in LocationsOf(p), NEW v, NEW o \in Acquires,
         ThreadStep(t), Now(t) = WaitFor(f, v, o)
  PROVE  /\ Base(p)' /\ Moves(t) /\ UNCHANGED <<history, fenced, scLast, processed>>
         /\ v \in Vals(f)
         /\ Below(LocationsOf(p), view[t], view'[t])
         /\ \A u \in ThreadNames \ {t} : view'[u] = view[u] /\ reg'[u] = reg[u]
         /\ \A x \in LocationsOf(p) : Passes(f, v, x) => Ordered(x, view[t])'
<1>1. /\ Base(p)' /\ Moves(t) /\ UNCHANGED <<history, fenced, scLast, processed>>
      /\ Below(LocationsOf(p), view[t], view'[t])
      /\ \A u \in ThreadNames \ {t} : view'[u] = view[u] /\ reg'[u] = reg[u]
  BY LoadStepIs
<1>2. PICK i \in 1 .. Len(history[f]) :
               /\ history[f][i].val = v
               /\ Below(LocationsOf(p), history[f][i].view, view'[t])
  BY LoadStepIs
<1>3. ASSUME NEW x \in LocationsOf(p), Passes(f, v, x) PROVE Ordered(x, view[t])'
  <2>1. Ordered(x, history[f][i].view)
    BY <1>2, <1>3 DEF Passes
  <2> QED
    BY <1>1, <1>2, <2>1, Informed
<1> QED
  BY <1>1, <1>2, <1>3 DEF Vals

\* What the store of v into f with a release leaves: the entry passes on what t has seen.
LEMMA StoreRelease ==
  ASSUME NEW p, Base(p), NEW t \in ThreadNames, NEW f \in LocationsOf(p), NEW v \in Int, NEW o \in Releases,
         ThreadStep(t), Now(t) = StoreOf(f, v, o)
  PROVE  /\ Base(p)' /\ Moves(t) /\ Writes(LocationsOf(p), t, f, v) /\ UNCHANGED <<unseen, reg, processed>>
         /\ Vals(f)' = Vals(f) \cup {v}
         /\ \A y \in LocationsOf(p) \ {f} : history'[y] = history[y] /\ Vals(y)' = Vals(y)
         /\ \A u \in ThreadNames \ {t} : view'[u] = view[u]
         /\ \A x \in LocationsOf(p) \ {f} : Ordered(x, view[t]) =>
               /\ Ordered(x, view[t])'
               /\ \A w : Passes(f, w, x) => Passes(f, w, x)'
<1>1. /\ Base(p)' /\ Moves(t) /\ Writes(LocationsOf(p), t, f, v)
      /\ history'[f][Len(history[f]) + 1].view = view'[t]
      /\ UNCHANGED <<unseen, reg, processed>>
  BY StoreStepIs
<1>2. /\ Vals(f)' = Vals(f) \cup {v}
      /\ \A y \in LocationsOf(p) \ {f} : history'[y] = history[y] /\ Vals(y)' = Vals(y)
      /\ \A u \in ThreadNames \ {t} : view'[u] = view[u]
  BY <1>1, ValsGrow DEF Writes
<1>3. ASSUME NEW x \in LocationsOf(p) \ {f}, Ordered(x, view[t])
      PROVE  /\ Ordered(x, view[t])'
             /\ \A w : Passes(f, w, x) => Passes(f, w, x)'
  <2>1. Below(LocationsOf(p), view[t], view'[t]) /\ history'[x] = history[x]
    BY <1>1 DEF Writes
  <2>2. Ordered(x, view[t])'
    BY <1>1, <1>3, <2>1, Informed
  <2>3. Ordered(x, history'[f][Len(history[f]) + 1].view)
    BY <1>1, <2>1, <2>2 DEF Ordered
  <2> QED
    BY <1>1, <1>3, <2>2, <2>3, PassesGrow
<1> QED
  BY <1>1, <1>2, <1>3

-------------------------------------------------------------------------------
(* What was seen. *)

\* Thread t has seen all of x; the value of the newest entry, and the length of the history.
Seen(x, t) == Ordered(x, view[t])
Top(x) == Newest(x).val
Size(x) == Len(history[x])

\* The newest entry of f passes on all of x.
Leads(f, x) == Ordered(x, Newest(f).view)

\* A step that stores nothing; only the view of t grows.
Quiet(L, t) == /\ Below(L, view[t], view'[t])
               /\ \A u \in ThreadNames \ {t} : view'[u] = view[u]
               /\ UNCHANGED history

\* What was seen stays seen while nothing is stored there.
LEMMA SeenLater ==
  ASSUME NEW p, Base(p)', NEW x \in LocationsOf(p), NEW t \in ThreadNames, Seen(x, t), history'[x] = history[x],
         Below(LocationsOf(p), view[t], view'[t]) \/ view'[t] = view[t]
  PROVE  Seen(x, t)'
<1>1. CASE Below(LocationsOf(p), view[t], view'[t])
  <2>1. Ordered(x, view[t])
    BY DEF Seen
  <2>2. Ordered(x, view[t])'
    BY <1>1, <2>1, Informed
  <2> QED
    BY <2>2 DEF Seen
<1>2. CASE view'[t] = view[t]
  BY <1>2 DEF Seen, Ordered
<1> QED
  BY <1>1, <1>2

\* A step that writes nothing keeps what was seen.
LEMMA QuietSeen ==
  ASSUME NEW p, Base(p)', NEW t \in ThreadNames, Quiet(LocationsOf(p), t),
         NEW u \in ThreadNames, NEW x \in LocationsOf(p), Seen(x, u)
  PROVE  Seen(x, u)'
<1>1. Below(LocationsOf(p), view[u], view'[u]) \/ view'[u] = view[u]
  BY DEF Quiet
<1> QED
  BY <1>1, SeenLater DEF Quiet

\* A step that writes nothing keeps the values.
LEMMA QuietKeeps ==
  ASSUME NEW L, NEW t, Quiet(L, t), NEW y
  PROVE  Vals(y)' = Vals(y) /\ Top(y)' = Top(y) /\ Size(y)' = Size(y)
  BY DEF Quiet, Vals, Top, Size, Newest

\* A step that writes nothing keeps what the entries pass on.
LEMMA QuietPasses ==
  ASSUME NEW L, NEW t, Quiet(L, t), NEW f, NEW x, NEW v, Passes(f, v, x)
  PROVE  Passes(f, v, x)'
  BY DEF Quiet, Passes, Ordered

\* Whoever writes x has seen all of it.
LEMMA WritesOwn ==
  ASSUME NEW p, Base(p), NEW t \in ThreadNames, NEW x \in LocationsOf(p), NEW v, Writes(LocationsOf(p), t, x, v)
  PROVE  /\ Seen(x, t)' /\ Top(x)' = v /\ Size(x)' = Size(x) + 1 /\ Vals(x)' = Vals(x) \cup {v}
         /\ \A i \in 1 .. Size(x) : history'[x][i] = history[x][i]
<1>1. /\ Len(history'[x]) = Len(history[x]) + 1
      /\ history'[x][Len(history[x]) + 1].val = v
      /\ view'[t][x] = Len(history[x]) + 1
      /\ \A i \in 1 .. Len(history[x]) : history'[x][i] = history[x][i]
  BY DEF Writes
<1> QED
  BY <1>1, ValsGrow DEF Seen, Ordered, Top, Newest, Size

\* A write leaves the values of the other locations alone.
LEMMA WritesKeeps ==
  ASSUME NEW p, NEW t \in ThreadNames, NEW x \in LocationsOf(p), NEW v, Writes(LocationsOf(p), t, x, v),
         NEW y \in LocationsOf(p) \ {x}
  PROVE  Vals(y)' = Vals(y) /\ Top(y)' = Top(y) /\ Size(y)' = Size(y) /\ history'[y] = history[y]
  BY DEF Writes, Vals, Top, Size, Newest

\* A write leaves alone what was seen of the other locations.
LEMMA WritesSeen ==
  ASSUME NEW p, Base(p)', NEW t \in ThreadNames, NEW x \in LocationsOf(p), NEW v, Writes(LocationsOf(p), t, x, v),
         NEW y \in LocationsOf(p) \ {x}, NEW u \in ThreadNames, Seen(y, u)
  PROVE  Seen(y, u)'
<1>1. Below(LocationsOf(p), view[u], view'[u]) \/ view'[u] = view[u]
  BY DEF Writes
<1>2. history'[y] = history[y]
  BY DEF Writes
<1> QED
  BY <1>1, <1>2, SeenLater

\* A write leaves alone what the entries of the other locations pass on.
LEMMA WritesPasses ==
  ASSUME NEW p, NEW t \in ThreadNames, NEW x \in LocationsOf(p), NEW v, Writes(LocationsOf(p), t, x, v),
         NEW f \in LocationsOf(p) \ {x}, NEW y \in LocationsOf(p), NEW w, Passes(f, w, y),
         y # x \/ w \notin Vals(f)
  PROVE  Passes(f, w, y)'
<1>1. history'[f] = history[f] /\ (history'[y] = history[y] \/ w \notin Vals(f))
  BY DEF Writes
<1> QED
  BY <1>1, PassesKept

\* What a release leaves in the entry it stores.
LEMMA ReleasePasses ==
  ASSUME NEW p, Base(p), NEW t \in ThreadNames, NEW f \in LocationsOf(p), NEW v \in Int, NEW o \in Releases,
         ThreadStep(t), Now(t) = StoreOf(f, v, o), NEW x \in LocationsOf(p) \ {f}, Seen(x, t)
  PROVE  /\ Leads(f, x)'
         /\ \A w : Passes(f, w, x) => Passes(f, w, x)'
<1>1. Ordered(x, view[t])
  BY DEF Seen
<1>2. /\ Base(p)' /\ Writes(LocationsOf(p), t, f, v)
      /\ history'[f][Len(history[f]) + 1].view = view'[t]
  BY StoreStepIs
<1>3. Ordered(x, view[t])'
  BY <1>1, StoreRelease
<1>4. Newest(f)' = history'[f][Len(history[f]) + 1]
  BY <1>2 DEF Writes, Newest
<1>5. Leads(f, x)'
  BY <1>2, <1>3, <1>4 DEF Leads, Ordered
<1>6. \A w : Passes(f, w, x) => Passes(f, w, x)'
  BY <1>1, StoreRelease
<1> QED
  BY <1>5, <1>6

\* After a fence, a store that is no release leaves what the fence kept.
LEMMA FencedPasses ==
  ASSUME NEW p, Base(p), NEW t \in ThreadNames, NEW f \in LocationsOf(p), NEW v \in Int, NEW o,
         o \notin Releases,
         ThreadStep(t), Now(t) = StoreOf(f, v, o), NEW x \in LocationsOf(p) \ {f}, Ordered(x, fenced[t]),
         NEW w, Passes(f, w, x)
  PROVE  Passes(f, w, x)'
<1>0. Base(p)' /\ Writes(LocationsOf(p), t, f, v)
  BY StoreStepIs
<1>a. Below(LocationsOf(p), fenced[t], history'[f][Len(history[f]) + 1].view)
  BY StoreStepIs
<1>1. /\ Base(p)' /\ Writes(LocationsOf(p), t, f, v)
      /\ Below(LocationsOf(p), fenced[t], history'[f][Len(history[f]) + 1].view)
  BY <1>0, <1>a
<1>2. history'[x] = history[x] /\ Len(history'[f]) = Len(history[f]) + 1
  BY <1>1 DEF Writes
<1>3. Len(history[f]) + 1 \in 1 .. Len(history'[f])
  <2>1. Len(history[f]) \in Nat
    BY Bounds
  <2> QED
    BY <2>1, <1>2
<1>4. /\ history'[f][Len(history[f]) + 1].view[x] \in Nat
      /\ history'[f][Len(history[f]) + 1].view[x] <= Len(history'[x])
  BY <1>1, <1>3, NextBounds
<1>5. /\ fenced[t][x] <= history'[f][Len(history[f]) + 1].view[x]
      /\ fenced[t][x] = Len(history[x]) /\ Len(history[x]) \in Nat
  BY <1>1, Bounds DEF Below, Ordered
<1>6. Ordered(x, history'[f][Len(history[f]) + 1].view)
  BY <1>2, <1>4, <1>5 DEF Ordered
<1> QED
  BY <1>1, <1>6, PassesGrow

\* A load writes nothing.
LEMMA LoadQuiet ==
  ASSUME NEW p, Base(p), NEW t \in ThreadNames, NEW x \in LocationsOf(p), NEW v, NEW o,
         ThreadStep(t), Now(t) \in {LoadOf(x, o), WaitFor(x, v, o), Expect(x, v, o)}
  PROVE  /\ Base(p)' /\ Moves(t) /\ Quiet(LocationsOf(p), t) /\ UNCHANGED <<fenced, scLast, processed>>
         /\ \A u \in ThreadNames \ {t} : reg'[u] = reg[u] /\ unseen'[u] = unseen[u]
  BY LoadStepIs DEF Quiet

\* Who has seen all of a location reads its newest value.
LEMMA LoadSeen ==
  ASSUME NEW p, Base(p), NEW t \in ThreadNames, NEW x \in LocationsOf(p), NEW v, NEW o,
         ThreadStep(t), Now(t) \in {LoadOf(x, o), WaitFor(x, v, o), Expect(x, v, o)}, Seen(x, t)
  PROVE  reg'[t] = Top(x)
<1>1. PICK i \in 1 .. Len(history[x]) :
               /\ i >= view[t][x] /\ (o = "seq_cst" => i >= scLast[x])
               /\ Now(t) = WaitFor(x, v, o) => history[x][i].val = v
               /\ reg'[t] = history[x][i].val
               /\ o \in Acquires => Below(LocationsOf(p), history[x][i].view, view'[t])
               /\ Below(LocationsOf(p), history[x][i].view, unseen'[t])
               /\ o = "consume" => Below(LocationsOf(p), history[x][i].view, depends'[t])
  BY LoadStepIs
<1>2. i = Len(history[x])
  BY <1>1, Bounds DEF Seen, Ordered
<1> QED
  BY <1>1, <1>2 DEF Top, Newest

\* A store is a write.
LEMMA StoreWrites ==
  ASSUME NEW p, Base(p), NEW t \in ThreadNames, NEW x \in LocationsOf(p), NEW v \in Int, NEW o,
         ThreadStep(t), Now(t) = StoreOf(x, v, o)
  PROVE  /\ Base(p)' /\ Moves(t) /\ Writes(LocationsOf(p), t, x, v)
         /\ UNCHANGED <<unseen, reg, processed>>
  BY StoreStepIs

\* A load that is not waited for writes nothing.
LEMMA LoadOfQuiet ==
  ASSUME NEW p, Base(p), NEW t \in ThreadNames, NEW x \in LocationsOf(p), NEW o,
         ThreadStep(t), Now(t) = LoadOf(x, o)
  PROVE  /\ Base(p)' /\ Moves(t) /\ Quiet(LocationsOf(p), t) /\ UNCHANGED <<fenced, scLast, processed>>
         /\ \A u \in ThreadNames \ {t} : reg'[u] = reg[u] /\ unseen'[u] = unseen[u]
<1>1. \E v : Now(t) \in {LoadOf(x, o), WaitFor(x, v, o), Expect(x, v, o)}
  OBVIOUS
<1> QED
  BY <1>1, LoadQuiet

\* It reads the newest value if the thread has seen that.
LEMMA LoadOfSeen ==
  ASSUME NEW p, Base(p), NEW t \in ThreadNames, NEW x \in LocationsOf(p), NEW o,
         ThreadStep(t), Now(t) = LoadOf(x, o), Seen(x, t)
  PROVE  reg'[t] = Top(x)
<1>1. \E v : Now(t) \in {LoadOf(x, o), WaitFor(x, v, o), Expect(x, v, o)}
  OBVIOUS
<1> QED
  BY <1>1, LoadSeen

\* A wait writes nothing.
LEMMA WaitForQuiet ==
  ASSUME NEW p, Base(p), NEW t \in ThreadNames, NEW x \in LocationsOf(p), NEW v, NEW o,
         ThreadStep(t), Now(t) = WaitFor(x, v, o)
  PROVE  /\ Base(p)' /\ Moves(t) /\ Quiet(LocationsOf(p), t) /\ UNCHANGED <<fenced, scLast, processed>>
         /\ \A u \in ThreadNames \ {t} : reg'[u] = reg[u] /\ unseen'[u] = unseen[u]
<1>1. Now(t) \in {LoadOf(x, o), WaitFor(x, v, o), Expect(x, v, o)}
  OBVIOUS
<1> QED
  BY <1>1, LoadQuiet

\* The load of an assertion writes nothing.
LEMMA ExpectQuiet ==
  ASSUME NEW p, Base(p), NEW t \in ThreadNames, NEW x \in LocationsOf(p), NEW v, NEW o,
         ThreadStep(t), Now(t) = Expect(x, v, o)
  PROVE  /\ Base(p)' /\ Moves(t) /\ Quiet(LocationsOf(p), t) /\ UNCHANGED <<fenced, scLast, processed>>
         /\ \A u \in ThreadNames \ {t} : reg'[u] = reg[u] /\ unseen'[u] = unseen[u]
<1>1. Now(t) \in {LoadOf(x, o), WaitFor(x, v, o), Expect(x, v, o)}
  OBVIOUS
<1> QED
  BY <1>1, LoadQuiet

\* A wait ends on a value that was stored.
LEMMA WaitFound ==
  ASSUME NEW p, Base(p), NEW t \in ThreadNames, NEW f \in LocationsOf(p), NEW v, NEW o,
         ThreadStep(t), Now(t) = WaitFor(f, v, o)
  PROVE  v \in Vals(f)
<1>1. PICK i \in 1 .. Len(history[f]) : history[f][i].val = v
  BY LoadStepIs
<1> QED
  BY <1>1 DEF Vals

\* With an acquire the thread that waited has seen what the entries with that value pass on.
LEMMA WaitSees ==
  ASSUME NEW p, Base(p), NEW t \in ThreadNames, NEW f \in LocationsOf(p), NEW v, NEW o \in Acquires,
         ThreadStep(t), Now(t) = WaitFor(f, v, o), NEW x \in LocationsOf(p), Passes(f, v, x)
  PROVE  Seen(x, t)'
<1>1. Ordered(x, view[t])'
  BY WaitAcquire
<1> QED
  BY <1>1 DEF Seen

\* A relaxed wait has that in reserve for a fence, a consume for what depends on the value.
LEMMA WaitUnseen ==
  ASSUME NEW p, Base(p), NEW t \in ThreadNames, NEW f \in LocationsOf(p), NEW v, NEW o,
         ThreadStep(t), Now(t) = WaitFor(f, v, o), NEW x \in LocationsOf(p), Passes(f, v, x)
  PROVE  /\ Ordered(x, unseen[t])'
         /\ o = "consume" => Ordered(x, depends[t])'
<1>1. Base(p)' /\ history' = history
  BY LoadStepIs
<1>2. PICK i \in 1 .. Len(history[f]) :
               /\ history[f][i].val = v
               /\ Below(LocationsOf(p), history[f][i].view, unseen'[t])
               /\ o = "consume" => Below(LocationsOf(p), history[f][i].view, depends'[t])
  BY LoadStepIs
<1>3. Ordered(x, history[f][i].view)
  BY <1>2 DEF Passes
<1>4. /\ unseen'[t][x] \in Nat /\ unseen'[t][x] <= Len(history'[x]) /\ Len(history'[x]) \in Nat
      /\ depends'[t][x] \in Nat /\ depends'[t][x] <= Len(history'[x])
  BY <1>1, NextBounds
<1>5. /\ history[f][i].view[x] = Len(history'[x]) /\ history[f][i].view[x] <= unseen'[t][x]
      /\ o = "consume" => history[f][i].view[x] <= depends'[t][x]
  BY <1>1, <1>2, <1>3 DEF Below, Ordered
<1> QED
  BY <1>4, <1>5 DEF Ordered

\* A seq_cst load of x, whose seq_cst entries all hold 1.
Ones(x) == \A i \in 1 .. Len(history[x]) : i >= scLast[x] => history[x][i].val = 1

\* A seq_cst load reads 1 when no entry behind the last seq_cst store has another value.
LEMMA LoadOnes ==
  ASSUME NEW p, Base(p), NEW t \in ThreadNames, NEW x \in LocationsOf(p), NEW v, NEW o,
         ThreadStep(t), Now(t) \in {LoadOf(x, o), WaitFor(x, v, o), Expect(x, v, o)}, Ones(x)
  PROVE  o = "seq_cst" => reg'[t] = 1
<1>1. PICK i \in Readable(t, x, o) :
            /\ Now(t) = WaitFor(x, v, o) => history[x][i].val = v
            /\ Load(t, x, i, o)
            /\ reg' = [reg EXCEPT ![t] = history[x][i].val]
            /\ place' = [place EXCEPT ![t] = @ + 1] /\ UNCHANGED <<program, processed>>
  BY LoadRaw
<1>2. i \in 1 .. Len(history[x]) /\ (o = "seq_cst" => i >= scLast[x])
  BY DEF Readable
<1>3. reg'[t] = history[x][i].val
  BY <1>1 DEF Base
<1> QED
  BY <1>2, <1>3 DEF Ones

\* A seq_cst store of 1 makes it so,
LEMMA StoreOnes ==
  ASSUME NEW p, Base(p), NEW t \in ThreadNames, NEW x \in LocationsOf(p), ThreadStep(t), Now(t) = StoreOf(x, 1, "seq_cst")
  PROVE  Ones(x)'
<1>1. /\ Writes(LocationsOf(p), t, x, 1) /\ scLast'[x] = Len(history[x]) + 1
  BY StoreStepIs
<1>2. Len(history[x]) \in Nat
  BY Bounds
<1> QED
  BY <1>1, <1>2 DEF Ones, Writes

\* and it stays so while the location does not change.
LEMMA OnesKept ==
  ASSUME NEW x, Ones(x), history'[x] = history[x], scLast'[x] = scLast[x]
  PROVE  Ones(x)'
  BY DEF Ones

\* An exchange passes on what the newest entry did: it continues the release sequence.
LEMMA ReplacePasses ==
  ASSUME NEW p, Base(p), NEW t \in ThreadNames, NEW f \in LocationsOf(p), NEW w, NEW v \in Int, NEW o,
         ThreadStep(t), Now(t) = Replace(f, w, v, o), NEW x \in LocationsOf(p) \ {f}, Leads(f, x)
  PROVE  /\ Leads(f, x)'
         /\ o \in Acquires => Seen(x, t)'
         /\ \A z : Passes(f, z, x) => Passes(f, z, x)'
<1>1. /\ Base(p)' /\ Writes(LocationsOf(p), t, f, v)
      /\ o \in Acquires => Below(LocationsOf(p), Newest(f).view, view'[t])
      /\ Below(LocationsOf(p), Newest(f).view, history'[f][Len(history[f]) + 1].view)
  BY ReplaceStepIs
<1>2. Ordered(x, Newest(f).view) /\ history'[x] = history[x] /\ Len(history'[f]) = Len(history[f]) + 1
  BY <1>1 DEF Leads, Writes
<1>3. Len(history[f]) + 1 \in 1 .. Len(history'[f])
  <2>1. Len(history[f]) \in Nat
    BY Bounds
  <2> QED
    BY <2>1, <1>2
<1>4. /\ history'[f][Len(history[f]) + 1].view[x] \in Nat
      /\ history'[f][Len(history[f]) + 1].view[x] <= Len(history'[x])
  BY <1>1, <1>3, NextBounds
<1>5. /\ Newest(f).view[x] <= history'[f][Len(history[f]) + 1].view[x]
      /\ Newest(f).view[x] = Len(history[x])
  BY <1>1, <1>2 DEF Below, Ordered
<1>6. Ordered(x, history'[f][Len(history[f]) + 1].view)
  <2>1. Len(history[x]) \in Nat
    BY Bounds
  <2> QED
    BY <2>1, <1>2, <1>4, <1>5 DEF Ordered
<1>7. Newest(f)' = history'[f][Len(history[f]) + 1]
  BY <1>2 DEF Newest
<1>8. Leads(f, x)'
  BY <1>2, <1>4, <1>5, <1>7, Bounds DEF Leads, Ordered
<1>9. ASSUME o \in Acquires PROVE Seen(x, t)'
  <2>1. Ordered(x, view[t])'
    BY <1>1, <1>2, <1>9, Informed
  <2> QED
    BY <2>1 DEF Seen
<1>10. \A z : Passes(f, z, x) => Passes(f, z, x)'
  BY <1>1, <1>6, PassesGrow
<1> QED
  BY <1>8, <1>9, <1>10

\* The newest entry is one of the entries.
LEMMA TopIs ==
  ASSUME NEW p, Base(p), NEW f \in LocationsOf(p)
  PROVE  /\ Top(f) \in Int /\ Top(f) \in Vals(f) /\ Size(f) \in Nat \ {0}
         /\ \A x, v : Passes(f, v, x) /\ v = Top(f) => Leads(f, x)
<1>1. Newest(f).val \in Int /\ Newest(f) = history[f][Len(history[f])] /\ Len(history[f]) \in Nat \ {0}
  BY NewestInt
<1>2. Len(history[f]) \in 1 .. Len(history[f])
  BY <1>1
<1> QED
  BY <1>1, <1>2 DEF Top, Vals, Size, Passes, Leads

\* A poll of p209 writes the count, and goes on only if it was positive.
LEMMA TakeStepIs ==
  ASSUME NEW p, Base(p), NEW t \in ThreadNames, NEW f \in LocationsOf(p), NEW o, ThreadStep(t), Now(t) = FetchSub(f, o)
  PROVE  /\ Base(p)' /\ Writes(LocationsOf(p), t, f, Top(f) - 1) /\ processed' = processed
         /\ reg'[t] = Top(f) /\ \A u \in ThreadNames \ {t} : reg'[u] = reg[u]
         /\ IF Top(f) > 0 THEN Moves(t) ELSE place' = place
<1> DEFINE v == Newest(f).val - 1
<1>1. /\ Exchange(t, f, v, o)
      /\ reg' = [reg EXCEPT ![t] = Newest(f).val]
      /\ \/ Newest(f).val > 0 /\ place' = [place EXCEPT ![t] = @ + 1]
         \/ Newest(f).val <= 0 /\ place' = place
      /\ UNCHANGED <<program, processed>>
  BY TakeRaw
<1>2. Newest(f).val \in Int /\ v \in Int /\ v = Top(f) - 1 /\ Top(f) = Newest(f).val
  BY NewestInt DEF Top
<1> HIDE DEF v
<1>3. MemOK(LocationsOf(p))' /\ Writes(LocationsOf(p), t, f, v)
  BY <1>1, <1>2, ExchangeIs
<1>4. reg \in [ThreadNames -> Int] /\ place \in [ThreadNames -> Nat \ {0}] /\ program = p
  BY DEF Base
<1>5. reg' \in [ThreadNames -> Int] /\ reg'[t] = Top(f) /\ \A u \in ThreadNames \ {t} : reg'[u] = reg[u]
  BY <1>1, <1>2, <1>4
<1>6. CASE Newest(f).val > 0
  <2>1. place' = [place EXCEPT ![t] = @ + 1]
    BY <1>1, <1>2, <1>6
  <2>2. Base(p)' /\ Moves(t)
    BY <1>1, <1>3, <1>5, <2>1, BaseMoves
  <2> QED
    BY <1>1, <1>2, <1>3, <1>5, <1>6, <2>2
<1>7. CASE ~(Newest(f).val > 0)
  <2>1. place' = place
    BY <1>1, <1>2, <1>7
  <2>2. Base(p)'
    BY <1>1, <1>3, <1>4, <1>5, <2>1 DEF Base
  <2> QED
    BY <1>1, <1>2, <1>3, <1>5, <1>7, <2>1, <2>2
<1> QED
  BY <1>6, <1>7

\* It continues the release sequence, and has seen what that passes on.
LEMMA TakeLeads ==
  ASSUME NEW p, Base(p), NEW t \in ThreadNames, NEW f \in LocationsOf(p), NEW o, ThreadStep(t), Now(t) = FetchSub(f, o),
         NEW x \in LocationsOf(p) \ {f}, Leads(f, x)
  PROVE  /\ Leads(f, x)'
         /\ o \in Acquires => Seen(x, t)'
<1> DEFINE v == Newest(f).val - 1
<1>1. Exchange(t, f, v, o) /\ v \in Int
  BY TakeRaw, NewestInt
<1> HIDE DEF v
<1>0. Base(p)' /\ Writes(LocationsOf(p), t, f, Top(f) - 1)
  BY TakeStepIs
<1>2. /\ o \in Acquires => Below(LocationsOf(p), Newest(f).view, view'[t])
      /\ Below(LocationsOf(p), Newest(f).view, history'[f][Len(history[f]) + 1].view)
  BY <1>1, ExchangeIs
<1>3. Ordered(x, Newest(f).view) /\ history'[x] = history[x] /\ Len(history'[f]) = Len(history[f]) + 1
  BY <1>0 DEF Leads, Writes
<1>4. Len(history[f]) + 1 \in 1 .. Len(history'[f])
  <2>1. Len(history[f]) \in Nat
    BY Bounds
  <2> QED
    BY <2>1, <1>3
<1>5. /\ history'[f][Len(history[f]) + 1].view[x] \in Nat
      /\ history'[f][Len(history[f]) + 1].view[x] <= Len(history'[x])
  BY <1>0, <1>4, NextBounds
<1>6. /\ Newest(f).view[x] <= history'[f][Len(history[f]) + 1].view[x]
      /\ Newest(f).view[x] = Len(history[x])
  BY <1>2, <1>3 DEF Below, Ordered
<1>7. Newest(f)' = history'[f][Len(history[f]) + 1]
  BY <1>3 DEF Newest
<1>8. Leads(f, x)'
  <2>1. Len(history[x]) \in Nat
    BY Bounds
  <2> QED
    BY <2>1, <1>3, <1>5, <1>6, <1>7 DEF Leads, Ordered
<1>9. ASSUME o \in Acquires PROVE Seen(x, t)'
  <2>1. Ordered(x, view[t])'
    BY <1>0, <1>2, <1>3, <1>9, Informed
  <2> QED
    BY <2>1 DEF Seen
<1> QED
  BY <1>8, <1>9

\* The item of p209 is noted, and the consumer polls again.
LEMMA ItemStepIs ==
  ASSUME NEW p, Base(p), NEW t \in ThreadNames, NEW x, ThreadStep(t), Now(t) = Item(x)
  PROVE  /\ Base(p)' /\ UNCHANGED <<memory, reg>> /\ processed' = Append(processed, reg[t] - 1)
         /\ place'[t] = 1 /\ \A u \in ThreadNames \ {t} : place'[u] = place[u]
<1>1. /\ processed' = Append(processed, reg[t] - 1)
      /\ place' = [place EXCEPT ![t] = 1]
      /\ UNCHANGED <<memory, program, reg>>
  BY ItemRaw
<1>2. MemOK(LocationsOf(p))'
  BY <1>1, SameMem DEF Base
<1>3. place \in [ThreadNames -> Nat \ {0}]
  BY DEF Base
<1>4. place' \in [ThreadNames -> Nat \ {0}] /\ place'[t] = 1 /\ \A u \in ThreadNames \ {t} : place'[u] = place[u]
  BY <1>1, <1>3
<1> QED
  BY <1>1, <1>2, <1>4 DEF Base

\* Reads of ordinary memory, joins and fences are quiet.
LEMMA GetQuiet ==
  ASSUME NEW p, Base(p), NEW t \in ThreadNames, UNCHANGED memory
  PROVE  Quiet(LocationsOf(p), t) /\ UNCHANGED <<fenced, unseen, depends, scLast>>
<1>1. view[t] \in [LocationsOf(p) -> Nat] /\ view' = view /\ history' = history
  BY DEF Base, MemOK, MemTypes, memory
<1>2. \A x \in LocationsOf(p) : view[t][x] <= view'[t][x]
  BY <1>1
<1> QED
  BY <1>1, <1>2 DEF Quiet, memory, Below

\* Who joins a thread has seen what that thread had seen.
LEMMA JoinSees ==
  ASSUME NEW p, Base(p), NEW t \in ThreadNames, NEW s \in ThreadNames, ThreadStep(t), Now(t) = [op |-> "join", thread |-> s]
  PROVE  /\ Base(p)' /\ Moves(t) /\ Quiet(LocationsOf(p), t) /\ Ended(s)
         /\ UNCHANGED <<reg, processed, unseen, depends, fenced, scLast>>
         /\ \A x \in LocationsOf(p) : Seen(x, s) => Seen(x, t)'
<1>1. /\ Base(p)' /\ Moves(t) /\ UNCHANGED <<reg, processed, unseen, depends>> /\ Ended(s)
      /\ Sees(LocationsOf(p), t, view[s])
  BY JoinStepIs
<1>2. /\ Quiet(LocationsOf(p), t) /\ Below(LocationsOf(p), view[s], view'[t])
      /\ UNCHANGED <<history, fenced, scLast>>
  BY <1>1 DEF Sees, Quiet
<1>3. ASSUME NEW x \in LocationsOf(p), Seen(x, s) PROVE Seen(x, t)'
  <2>1. Ordered(x, view[s]) /\ history'[x] = history[x]
    BY <1>2, <1>3 DEF Seen
  <2>2. Ordered(x, view[t])'
    BY <1>1, <1>2, <2>1, Informed
  <2> QED
    BY <2>2 DEF Seen
<1> QED
  BY <1>1, <1>2, <1>3

\* An acquire fence sees what is in reserve, a release fence keeps what was seen for later stores.
LEMMA FenceQuiet ==
  ASSUME NEW p, Base(p), NEW t \in ThreadNames, NEW o, ThreadStep(t), Now(t) = Fence(o)
  PROVE  /\ Base(p)' /\ Moves(t) /\ Quiet(LocationsOf(p), t) /\ UNCHANGED <<reg, processed, unseen, depends, scLast>>
         /\ \A x \in LocationsOf(p) : o = "acquire" /\ Ordered(x, unseen[t]) => Seen(x, t)'
         /\ \A x \in LocationsOf(p) : o # "acquire" /\ Seen(x, t) => Ordered(x, fenced[t])'
<1>1. /\ Base(p)' /\ Moves(t) /\ UNCHANGED <<reg, processed, history, unseen, depends, scLast>>
      /\ o = "acquire" => /\ Below(LocationsOf(p), view[t], view'[t])
                          /\ Below(LocationsOf(p), unseen[t], view'[t])
                          /\ \A u \in ThreadNames \ {t} : view'[u] = view[u]
      /\ o # "acquire" => fenced'[t] = view[t] /\ view' = view
  BY FenceStepIs
<1>2. view[t] \in [LocationsOf(p) -> Nat]
  BY DEF Base, MemOK, MemTypes
<1>3. Below(LocationsOf(p), view[t], view[t])
  BY <1>2 DEF Below
<1>4. Quiet(LocationsOf(p), t)
  BY <1>1, <1>3 DEF Quiet
<1>5. ASSUME NEW x \in LocationsOf(p), o = "acquire", Ordered(x, unseen[t]) PROVE Seen(x, t)'
  <2>1. Ordered(x, view[t])'
    BY <1>1, <1>5, Informed
  <2> QED
    BY <2>1 DEF Seen
<1>6. ASSUME NEW x \in LocationsOf(p), o # "acquire", Seen(x, t) PROVE Ordered(x, fenced[t])'
  BY <1>1, <1>6 DEF Seen, Ordered
<1> QED
  BY <1>1, <1>4, <1>5, <1>6

\* At the start the basis of a program holds and everybody has seen everything.
LEMMA InitBase ==
  ASSUME NEW p, OrdersInit, program = p
  PROVE  /\ Base(p) /\ processed = <<>>
         /\ \A t \in ThreadNames : place[t] = 1 /\ reg[t] = 0
         /\ \A x \in LocationsOf(p) : /\ Size(x) = 1 /\ Vals(x) = {0} /\ Top(x) = 0 /\ history[x][1].val = 0
                                      /\ \A t \in ThreadNames : Seen(x, t)
<1>1. /\ MemoryInit(ThreadNames, LocationsOf(p)) /\ place = [t \in ThreadNames |-> 1]
      /\ reg = [t \in ThreadNames |-> 0] /\ processed = <<>>
  BY DEF OrdersInit
<1>2. MemOK(LocationsOf(p))
  BY <1>1, InitMem
<1>3. Base(p)
  BY <1>1, <1>2 DEF Base
<1>4. ASSUME NEW x \in LocationsOf(p)
      PROVE  /\ Size(x) = 1 /\ Vals(x) = {0} /\ Top(x) = 0 /\ history[x][1].val = 0
             /\ \A t \in ThreadNames : Seen(x, t)
  <2>1. Len(history[x]) = 1 /\ history[x][1].val = 0 /\ \A t \in ThreadNames : view[t][x] = 1
    BY <1>1, InitMem
  <2>2. 1 .. 1 = {1}
    OBVIOUS
  <2>3. Vals(x) = {0}
    BY <2>1, <2>2 DEF Vals
  <2> QED
    BY <2>1, <2>3 DEF Size, Top, Newest, Seen, Ordered
<1> QED
  BY <1>1, <1>3, <1>4

-------------------------------------------------------------------------------
(* What the properties ask of a statement. *)

\* What the properties ask of the statement thread t stands at.
Good(t) == /\ Now(t).op \in {"get", "put", "item"} => Ordered(Now(t).at, view[t])
           /\ Now(t).op = "get_dependent" => Ordered(Now(t).at, Later(view[t], depends[t]))
           /\ Now(t).op = "expect" =>
                 \A i \in Readable(t, Now(t).at, Now(t).order) : history[Now(t).at][i].val \in Now(t).val

\* There is no race and no failed assertion if every statement that is next is good.
LEMMA GoodAll ==
  ASSUME \A t \in ThreadNames : ~Ended(t) => Good(t)
  PROVE  NoDataRace /\ AssertionsHold
  BY DEF NoDataRace, AssertionsHold, Good, Doing

\* An ordinary store is good if the thread has seen the location.
LEMMA GoodPut ==
  ASSUME NEW t, NEW x, NEW v, Now(t) = Put(x, v), Seen(x, t)
  PROVE  Good(t)
  BY DEF Good, Put, Seen

\* An ordinary load is good if the thread has seen the location.
LEMMA GoodGet ==
  ASSUME NEW t, NEW x, Now(t) = Get(x), Seen(x, t)
  PROVE  Good(t)
  BY DEF Good, Get, Seen

\* The item of p209 is good if the thread has seen the queue.
LEMMA GoodItem ==
  ASSUME NEW t, NEW x, Now(t) = Item(x), Seen(x, t)
  PROVE  Good(t)
  BY DEF Good, Item, Seen

\* A dependent load is good if what came with the consumed pointer has seen the location.
LEMMA GoodGetDependent ==
  ASSUME NEW p, Base(p), NEW t \in ThreadNames, NEW x \in LocationsOf(p),
         Now(t) = GetDependent(x), Ordered(x, depends[t])
  PROVE  Good(t)
<1>1. /\ view[t][x] \in Nat /\ view[t][x] <= Len(history[x]) /\ Len(history[x]) \in Nat
      /\ depends[t][x] = Len(history[x])
  BY Bounds DEF Ordered
<1>2. view[t] \in [LocationsOf(p) -> Nat] /\ depends[t] \in [LocationsOf(p) -> Nat]
  BY DEF Base, MemOK, MemTypes
<1>3. Later(view[t], depends[t])[x] = Len(history[x])
  BY <1>1, <1>2, LaterAt
<1> QED
  BY <1>3 DEF Good, GetDependent, Ordered

\* An assertion is good if all that the thread may read fulfils it.
LEMMA GoodExpect ==
  ASSUME NEW t, NEW x, NEW S, NEW o, Now(t) = Expect(x, S, o),
         \A i \in Readable(t, x, o) : history[x][i].val \in S
  PROVE  Good(t)
  BY DEF Good, Expect

\* It is good if the newest value fulfils it and the thread has seen that.
LEMMA GoodExpectTop ==
  ASSUME NEW p, Base(p), NEW t \in ThreadNames, NEW x \in LocationsOf(p), NEW S, NEW o,
         Now(t) = Expect(x, S, o), Seen(x, t), Top(x) \in S
  PROVE  Good(t)
<1>1. ASSUME NEW i \in Readable(t, x, o) PROVE history[x][i].val \in S
  <2>1. i \in 1 .. Len(history[x]) /\ i >= Len(history[x])
    BY DEF Readable, Seen, Ordered
  <2>2. i = Len(history[x])
    BY <2>1, Bounds
  <2> QED
    BY <2>2 DEF Top, Newest
<1> QED
  BY <1>1, GoodExpect

\* Atomic loads are good.
LEMMA GoodLoadOf ==
  ASSUME NEW t, NEW x, NEW o, Now(t) = LoadOf(x, o)
  PROVE  Good(t)
  BY DEF Good, LoadOf

\* Atomic stores are good.
LEMMA GoodStoreOf ==
  ASSUME NEW t, NEW x, NEW v, NEW o, Now(t) = StoreOf(x, v, o)
  PROVE  Good(t)
  BY DEF Good, StoreOf

\* Waits are good.
LEMMA GoodWaitFor ==
  ASSUME NEW t, NEW x, NEW v, NEW o, Now(t) = WaitFor(x, v, o)
  PROVE  Good(t)
  BY DEF Good, WaitFor

\* Exchanges are good.
LEMMA GoodReplace ==
  ASSUME NEW t, NEW x, NEW w, NEW v, NEW o, Now(t) = Replace(x, w, v, o)
  PROVE  Good(t)
  BY DEF Good, Replace

\* Conditional increments are good.
LEMMA GoodCountIf ==
  ASSUME NEW t, NEW x, Now(t) = CountIf(x)
  PROVE  Good(t)
  BY DEF Good, CountIf

\* Polls of p209 are good.
LEMMA GoodFetchSub ==
  ASSUME NEW t, NEW x, NEW o, Now(t) = FetchSub(x, o)
  PROVE  Good(t)
  BY DEF Good, FetchSub

\* Fences are good.
LEMMA GoodFence ==
  ASSUME NEW t, NEW o, Now(t) = Fence(o)
  PROVE  Good(t)
  BY DEF Good, Fence

\* Joins are good.
LEMMA GoodJoin ==
  ASSUME NEW t, NEW s, Now(t) = [op |-> "join", thread |-> s]
  PROVE  Good(t)
  BY DEF Good

-------------------------------------------------------------------------------
(* Counters. *)

\* x counts from 0; t has seen a first increment of it.
Counts(x) == \A i \in 1 .. Size(x) : history[x][i].val = i - 1
Saw(x, t) == view[t][x] >= 2

\* A step that writes nothing keeps what was seen of the count of p187.
LEMMA QuietSaw ==
  ASSUME NEW p, Base(p), Base(p)', NEW t \in ThreadNames, Quiet(LocationsOf(p), t),
         NEW u \in ThreadNames, NEW x \in LocationsOf(p), Saw(x, u)
  PROVE  Saw(x, u)'
<1>1. view[u][x] <= view'[u][x] /\ view[u][x] \in Nat /\ view'[u][x] \in Nat
  <2>1. view[u][x] \in Nat
    BY Bounds
  <2>2. view'[u][x] \in Nat
    BY NextBounds
  <2>3. CASE u = t
    BY <2>1, <2>2, <2>3 DEF Quiet, Below
  <2>4. CASE u # t
    BY <2>1, <2>2, <2>4 DEF Quiet
  <2> QED
    BY <2>1, <2>2, <2>3, <2>4
<1> QED
  BY <1>1 DEF Saw

\* A step that writes nothing keeps the count a count.
LEMMA QuietCounts ==
  ASSUME NEW L, NEW t, Quiet(L, t), NEW x, Counts(x)
  PROVE  Counts(x)'
  BY DEF Quiet, Counts, Size

\* A write keeps what was seen of the count.
LEMMA WritesSaw ==
  ASSUME NEW p, Base(p), Base(p)', NEW t \in ThreadNames, NEW x \in LocationsOf(p), NEW v,
         Writes(LocationsOf(p), t, x, v), NEW u \in ThreadNames, NEW y \in LocationsOf(p), Saw(y, u)
  PROVE  Saw(y, u)'
<1>1. view[u][y] \in Nat
  BY Bounds
<1>2. view'[u][y] \in Nat
  BY NextBounds
<1>3. CASE u = t
  BY <1>1, <1>2, <1>3 DEF Writes, Below, Saw
<1>4. CASE u # t
  BY <1>1, <1>2, <1>4 DEF Writes, Saw
<1> QED
  BY <1>3, <1>4

\* A write to another location keeps the count a count.
LEMMA WritesCounts ==
  ASSUME NEW p, NEW t \in ThreadNames, NEW x \in LocationsOf(p), NEW v,
         Writes(LocationsOf(p), t, x, v), NEW y \in LocationsOf(p) \ {x}, Counts(y)
  PROVE  Counts(y)'
  BY DEF Writes, Counts, Size

\* A write to another location keeps that of the last seq_cst store.
LEMMA WritesOnes ==
  ASSUME NEW p, NEW t \in ThreadNames, NEW x \in LocationsOf(p), NEW v,
         Writes(LocationsOf(p), t, x, v), NEW y \in LocationsOf(p) \ {x}, Ones(y)
  PROVE  Ones(y)'
<1>1. history'[y] = history[y] /\ scLast'[y] = scLast[y]
  BY DEF Writes
<1> QED
  BY <1>1, OnesKept

\* So does a step that writes nothing.
LEMMA QuietOnes ==
  ASSUME NEW L, NEW t, Quiet(L, t), scLast' = scLast, NEW y, Ones(y)
  PROVE  Ones(y)'
<1>1. history'[y] = history[y] /\ scLast'[y] = scLast[y]
  BY DEF Quiet
<1> QED
  BY <1>1, OnesKept

\* An increment keeps the count a count, whether or not its condition holds.
LEMMA CountCounts ==
  ASSUME NEW p, Base(p), NEW t \in ThreadNames, NEW x \in LocationsOf(p), ThreadStep(t), Now(t) = CountIf(x), Counts(x)
  PROVE  /\ Base(p)' /\ Moves(t) /\ UNCHANGED <<reg, processed>>
         /\ Counts(x)' /\ Size(x) <= Size(x)' /\ Size(x)' <= Size(x) + 1
         /\ reg[t] # 0 => Saw(x, t)'
         /\ \A u \in ThreadNames : Saw(x, u) => Saw(x, u)'
<1>1. /\ Base(p)' /\ Moves(t) /\ UNCHANGED <<reg, processed>>
      /\ \/ reg[t] = 0 /\ UNCHANGED memory
         \/ /\ reg[t] # 0 /\ Writes(LocationsOf(p), t, x, Newest(x).val + 1)
            /\ Newest(x) = history[x][Len(history[x])]
  BY CountStepIs
<1>2. Size(x) \in Nat \ {0} /\ Len(history[x]) = Size(x)
  BY TopIs DEF Size
<1>3. CASE reg[t] = 0 /\ UNCHANGED memory
  <2>1. Quiet(LocationsOf(p), t) /\ scLast' = scLast
    BY <1>3, GetQuiet
  <2>2. Counts(x)' /\ Size(x)' = Size(x)
    BY <2>1, QuietCounts, QuietKeeps
  <2>3. \A u \in ThreadNames : Saw(x, u) => Saw(x, u)'
    BY <1>1, <2>1, QuietSaw
  <2> QED
    BY <1>1, <1>2, <1>3, <2>2, <2>3
<1>4. CASE /\ reg[t] # 0 /\ Writes(LocationsOf(p), t, x, Newest(x).val + 1)
           /\ Newest(x) = history[x][Len(history[x])]
  <2> DEFINE v == Newest(x).val + 1
  <2>1. v = Size(x)
    <3>1. Newest(x).val = Size(x) - 1
      BY <1>2, <1>4 DEF Counts
    <3> QED
      BY <3>1, <1>2
  <2>2. Writes(LocationsOf(p), t, x, v)
    BY <1>4
  <2> HIDE DEF v
  <2>3. /\ Size(x)' = Size(x) + 1 /\ history'[x][Size(x) + 1].val = v
        /\ \A i \in 1 .. Size(x) : history'[x][i] = history[x][i]
        /\ view'[t][x] = Size(x) + 1
    BY <2>2 DEF Writes, Size
  <2>4. Counts(x)'
    <3> SUFFICES ASSUME NEW i \in 1 .. Size(x) + 1 PROVE history'[x][i].val = i - 1
      BY <2>3 DEF Counts
    <3>1. CASE i = Size(x) + 1
      BY <3>1, <2>1, <2>3, <1>2
    <3>2. CASE i \in 1 .. Size(x)
      BY <3>2, <2>3 DEF Counts
    <3> QED
      BY <3>1, <3>2, <1>2
  <2>5. Saw(x, t)'
    BY <2>3, <1>2 DEF Saw
  <2>6. \A u \in ThreadNames : Saw(x, u) => Saw(x, u)'
    BY <1>1, <2>2, WritesSaw
  <2> QED
    BY <1>1, <1>2, <2>3, <2>4, <2>5, <2>6
<1> QED
  BY <1>1, <1>3, <1>4

\* An increment of z changes no other location.
LEMMA CountElse ==
  ASSUME NEW p, Base(p), NEW t \in ThreadNames, NEW x \in LocationsOf(p), ThreadStep(t), Now(t) = CountIf(x),
         NEW y \in LocationsOf(p) \ {x}
  PROVE  history'[y] = history[y] /\ scLast'[y] = scLast[y]
<1>1. \/ UNCHANGED memory
      \/ Writes(LocationsOf(p), t, x, Newest(x).val + 1)
  BY CountStepIs
<1>2. CASE UNCHANGED memory
  BY <1>2 DEF memory
<1>3. CASE Writes(LocationsOf(p), t, x, Newest(x).val + 1)
  BY <1>3 DEF Writes
<1> QED
  BY <1>1, <1>2, <1>3

\* Who joins a thread has seen the increments that thread had seen.
LEMMA JoinSaw ==
  ASSUME NEW p, Base(p), NEW t \in ThreadNames, NEW s \in ThreadNames, ThreadStep(t), Now(t) = [op |-> "join", thread |-> s],
         NEW x \in LocationsOf(p), Saw(x, s)
  PROVE  Saw(x, t)'
<1>1. Base(p)' /\ Sees(LocationsOf(p), t, view[s])
  BY JoinStepIs
<1>2. view[s][x] \in Nat
  BY Bounds
<1>3. view'[t][x] \in Nat
  BY <1>1, NextBounds
<1>4. view[s][x] <= view'[t][x]
  BY <1>1 DEF Sees, Below
<1> QED
  BY <1>2, <1>3, <1>4 DEF Saw

\* Who has seen one of at most two increments reads 1 or 2.
LEMMA GoodExpectSaw ==
  ASSUME NEW p, Base(p), NEW t \in ThreadNames, NEW x \in LocationsOf(p), NEW o,
         Now(t) = Expect(x, {1, 2}, o), Saw(x, t), Counts(x), Size(x) <= 3
  PROVE  Good(t)
<1>0. Size(x) \in Nat /\ view[t][x] \in Nat /\ Size(x) = Len(history[x])
  BY Bounds DEF Size
<1>1. ASSUME NEW i \in Readable(t, x, o) PROVE history[x][i].val \in {1, 2}
  <2>1. i \in 1 .. Size(x) /\ i >= 2
    BY <1>0 DEF Readable, Saw
  <2>2. i - 1 \in {1, 2} /\ history[x][i].val = i - 1
    BY <2>1, <1>0 DEF Counts
  <2> QED
    BY <2>2
<1> QED
  BY <1>1, GoodExpect

-------------------------------------------------------------------------------
(* p180: a flag, sequentially consistent. *)

\* Where a thread of p180 may be, and at which statement.
LEMMA Text180 ==
  ASSUME program = "p180", NEW t \in ThreadNames, place[t] \in Nat \ {0}, ~Ended(t)
  PROVE  \/ t = "a" /\ place[t] = 1 /\ Now(t) = Put("data_container", 42)
         \/ t = "a" /\ place[t] = 2 /\ Now(t) = StoreOf("data_ready", 1, "seq_cst")
         \/ t = "b" /\ place[t] = 1 /\ Now(t) = WaitFor("data_ready", 1, "seq_cst")
         \/ t = "b" /\ place[t] = 2 /\ Now(t) = Get("data_container")
<1>1. Programs["p180"] = p180
  BY DEF Programs
<1>2. /\ p180["a"] = <<Put("data_container", 42), StoreOf("data_ready", 1, "seq_cst")>>
      /\ p180["b"] = <<WaitFor("data_ready", 1, "seq_cst"), Get("data_container")>>
      /\ DOMAIN p180 = {"a", "b"}
  BY DEF p180
<1>3. /\ t \in DOMAIN p180 => Text(program, t) = p180[t]
      /\ t \notin DOMAIN p180 => Text(program, t) = <<>>
  BY <1>1 DEF Text
<1>4. ASSUME t = "a"
      PROVE  \/ place[t] = 1 /\ Now(t) = Put("data_container", 42)
             \/ place[t] = 2 /\ Now(t) = StoreOf("data_ready", 1, "seq_cst")
  BY <1>4, <1>2, <1>3, Place2
<1>5. ASSUME t = "b"
      PROVE  \/ place[t] = 1 /\ Now(t) = WaitFor("data_ready", 1, "seq_cst")
             \/ place[t] = 2 /\ Now(t) = Get("data_container")
  BY <1>5, <1>2, <1>3, Place2
<1>6. ASSUME t \notin DOMAIN p180 PROVE FALSE
  BY <1>6, <1>3, Place0
<1> QED
  BY <1>2, <1>4, <1>5, <1>6

\* The locations of p180.
LEMMA Locations180 == {"data_container", "data_ready"} \subseteq LocationsOf("p180")
<1>1. Programs["p180"] = p180
  BY DEF Programs
<1>2. /\ Text("p180", "a") = <<Put("data_container", 42), StoreOf("data_ready", 1, "seq_cst")>>
      /\ "a" \in ThreadNames
  <2>1. /\ p180["a"] = <<Put("data_container", 42), StoreOf("data_ready", 1, "seq_cst")>>
        /\ {"a"} \subseteq DOMAIN p180
    BY DEF p180
  <2> QED
    BY <1>1, <2>1 DEF Text, ThreadNames
<1>3. "data_container" \in LocationsOf("p180")
  <2>1. 1 \in DOMAIN Text("p180", "a") /\ Text("p180", "a")[1] = Put("data_container", 42)
    BY <1>2
  <2>2. "at" \in DOMAIN Put("data_container", 42) /\ Put("data_container", 42).at = "data_container"
    BY DEF Put
  <2> QED
    BY <1>2, <2>1, <2>2, AtIsLocation
<1>4. "data_ready" \in LocationsOf("p180")
  <2>1. 2 \in DOMAIN Text("p180", "a") /\ Text("p180", "a")[2] = StoreOf("data_ready", 1, "seq_cst")
    BY <1>2
  <2>2. /\ "at" \in DOMAIN StoreOf("data_ready", 1, "seq_cst")
        /\ StoreOf("data_ready", 1, "seq_cst").at = "data_ready"
    BY DEF StoreOf
  <2> QED
    BY <1>2, <2>1, <2>2, AtIsLocation
<1> QED
  BY <1>3, <1>4

\* Once data_ready is stored the data are, and the flag passes them on.
Inv180 == /\ Base("p180")
          /\ Seen("data_container", "a")
          /\ 1 \in Vals("data_ready") => place["a"] >= 3
          /\ Passes("data_ready", 1, "data_container")
          /\ place["b"] >= 2 => place["a"] >= 3 /\ Seen("data_container", "b")

\* The invariant of p180 holds at the start.
LEMMA Init180 ==
  ASSUME OrdersInit, program = "p180"
  PROVE  Inv180
<1>1. /\ {"data_container", "data_ready"} \subseteq LocationsOf("p180")
      /\ {"a", "b"} \subseteq ThreadNames
  BY Locations180 DEF ThreadNames
<1>2. Base("p180") /\ place["a"] = 1 /\ place["b"] = 1
  BY <1>1, InitBase
<1>3. /\ Vals("data_container") = {0} /\ Top("data_container") = 0 /\ Vals("data_ready") = {0}
      /\ Top("data_ready") = 0
  BY <1>1, InitBase
<1>4. Seen("data_container", "a") /\ Seen("data_container", "b")
  BY <1>1, InitBase
<1>5. Passes("data_ready", 1, "data_container")
  BY <1>3, PassesNone
<1> QED
  BY <1>2, <1>3, <1>4, <1>5 DEF Inv180

\* Every step of p180 keeps its invariant.
LEMMA Step180 ==
  ASSUME Inv180, NEW t \in ThreadNames, ThreadStep(t)
  PROVE  Inv180'
<1>1. /\ Base("p180") /\ program = "p180" /\ ThreadStep(t) /\ place[t] \in Nat \ {0}
      /\ place["a"] \in Nat /\ place["b"] \in Nat
  BY DEF Inv180, Base, ThreadNames
<1>2. /\ {"data_container", "data_ready"} \subseteq LocationsOf("p180")
      /\ {"a", "b"} \subseteq ThreadNames
  BY Locations180 DEF ThreadNames
<1>3. CASE t = "a" /\ place[t] = 1 /\ Now(t) = Put("data_container", 42)
  <2>1. Base("p180") /\ ThreadStep("a") /\ Now("a") = Put("data_container", 42) /\ place["a"] = 1
    BY <1>1, <1>3
  <2>2. /\ Base("p180")' /\ Moves("a") /\ Writes(LocationsOf("p180"), "a", "data_container", 42)
        /\ UNCHANGED <<unseen, reg, processed>>
    BY <2>1, <1>2, PutStep
  <2>3. /\ place'["a"] = 2
        /\ place'["b"] = place["b"]
    BY <2>1, <2>2, <1>2 DEF Moves
  <2>4. Seen("data_container", "a")'
    BY <2>1, <2>2, <1>2, WritesOwn
  <2>5. Vals("data_ready")' = Vals("data_ready")
    BY <2>1, <2>2, <1>2, WritesKeeps
  <2>6. Passes("data_ready", 1, "data_container") /\ 1 \notin Vals("data_ready") => Passes("data_ready", 1, "data_container")'
    BY <2>1, <2>2, <1>2, WritesPasses
  <2> QED
    BY <1>1, <2>1, <2>2, <2>3, <2>4, <2>5, <2>6 DEF Inv180
<1>4. CASE t = "a" /\ place[t] = 2 /\ Now(t) = StoreOf("data_ready", 1, "seq_cst")
  <2>1. Base("p180") /\ ThreadStep("a") /\ Now("a") = StoreOf("data_ready", 1, "seq_cst") /\ place["a"] = 2
    BY <1>1, <1>4
  <2>2. "seq_cst" \in Releases
    BY DEF Releases
  <2>3. /\ Base("p180")' /\ Moves("a") /\ Writes(LocationsOf("p180"), "a", "data_ready", 1)
        /\ UNCHANGED <<unseen, reg, processed>>
    BY <2>1, <1>2, StoreWrites
  <2>4. /\ place'["a"] = 3
        /\ place'["b"] = place["b"]
    BY <2>1, <2>3, <1>2 DEF Moves
  <2>5. Passes("data_ready", 1, "data_container") /\ Seen("data_container", "a") => Passes("data_ready", 1, "data_container")'
    BY <2>1, <2>3, <1>2, <2>2, ReleasePasses
  <2>6. Vals("data_ready")' = Vals("data_ready") \cup {1}
    BY <2>1, <2>3, <1>2, WritesOwn
  <2>7. /\ Seen("data_container", "a") => Seen("data_container", "a")'
        /\ Seen("data_container", "b") => Seen("data_container", "b")'
    BY <2>1, <2>3, <1>2, WritesSeen
  <2> QED
    BY <1>1, <2>1, <2>2, <2>3, <2>4, <2>5, <2>6, <2>7 DEF Inv180
<1>5. CASE t = "b" /\ place[t] = 1 /\ Now(t) = WaitFor("data_ready", 1, "seq_cst")
  <2>1. Base("p180") /\ ThreadStep("b") /\ Now("b") = WaitFor("data_ready", 1, "seq_cst") /\ place["b"] = 1
    BY <1>1, <1>5
  <2>2. /\ Base("p180")' /\ Moves("b") /\ Quiet(LocationsOf("p180"), "b")
        /\ UNCHANGED <<fenced, scLast, processed>>
        /\ \A u \in ThreadNames \ {"b"} : reg'[u] = reg[u] /\ unseen'[u] = unseen[u]
    BY <2>1, <1>2, WaitForQuiet
  <2>3. /\ place'["b"] = 2
        /\ place'["a"] = place["a"]
    BY <2>1, <2>2, <1>2 DEF Moves
  <2>4. Vals("data_ready")' = Vals("data_ready")
    BY <2>1, <2>2, <1>2, QuietKeeps
  <2>5. /\ Seen("data_container", "a") => Seen("data_container", "a")'
        /\ Seen("data_container", "b") => Seen("data_container", "b")'
    BY <2>1, <2>2, <1>2, QuietSeen
  <2>6. Passes("data_ready", 1, "data_container") => Passes("data_ready", 1, "data_container")'
    BY <2>1, <2>2, <1>2, QuietPasses
  <2>7. 1 \in Vals("data_ready")
    BY <2>1, <2>2, <1>2, WaitFound
  <2>8. "seq_cst" \in Acquires
    BY DEF Acquires
  <2>9. Passes("data_ready", 1, "data_container") => Seen("data_container", "b")'
    BY <2>1, <2>2, <1>2, <2>8, WaitSees
  <2> QED
    BY <1>1, <2>1, <2>2, <2>3, <2>4, <2>5, <2>6, <2>7, <2>8, <2>9 DEF Inv180
<1>6. CASE t = "b" /\ place[t] = 2 /\ Now(t) = Get("data_container")
  <2>1. Base("p180") /\ ThreadStep("b") /\ Now("b") = Get("data_container") /\ place["b"] = 2
    BY <1>1, <1>6
  <2>2. Base("p180")' /\ Moves("b") /\ UNCHANGED <<memory, processed>>
    BY <2>1, <1>2, GetStep
  <2>3. Quiet(LocationsOf("p180"), "b") /\ UNCHANGED <<fenced, unseen, depends, scLast>>
    BY <2>1, <2>2, <1>2, GetQuiet
  <2>4. /\ place'["b"] = 3
        /\ place'["a"] = place["a"]
    BY <2>1, <2>2, <2>3, <1>2 DEF Moves
  <2>5. Vals("data_ready")' = Vals("data_ready")
    BY <2>1, <2>2, <2>3, <1>2, QuietKeeps
  <2>6. /\ Seen("data_container", "a") => Seen("data_container", "a")'
        /\ Seen("data_container", "b") => Seen("data_container", "b")'
    BY <2>1, <2>2, <2>3, <1>2, QuietSeen
  <2>7. Passes("data_ready", 1, "data_container") => Passes("data_ready", 1, "data_container")'
    BY <2>1, <2>2, <2>3, <1>2, QuietPasses
  <2> QED
    BY <1>1, <2>1, <2>2, <2>3, <2>4, <2>5, <2>6, <2>7 DEF Inv180
<1> QED
  BY <1>1, <1>3, <1>4, <1>5, <1>6, NotEnded, Text180

\* The invariant of p180 makes every statement that is next good.
LEMMA Holds180 ==
  ASSUME Inv180
  PROVE  NoDataRace /\ AssertionsHold
<1>1. Base("p180") /\ program = "p180" /\ place["a"] \in Nat /\ place["b"] \in Nat
  BY DEF Inv180, Base, ThreadNames
<1>2. /\ {"data_container", "data_ready"} \subseteq LocationsOf("p180")
      /\ {"a", "b"} \subseteq ThreadNames
  BY Locations180 DEF ThreadNames
<1>3. ASSUME NEW t \in ThreadNames, ~Ended(t) PROVE Good(t)
  <2>1. place[t] \in Nat \ {0}
    BY <1>1 DEF Base
  <2>2. CASE t = "a" /\ place[t] = 1 /\ Now(t) = Put("data_container", 42)
    BY <2>2, <1>2, <1>1, GoodPut DEF Inv180
  <2>3. CASE t = "a" /\ place[t] = 2 /\ Now(t) = StoreOf("data_ready", 1, "seq_cst")
    BY <2>3, GoodStoreOf
  <2>4. CASE t = "b" /\ place[t] = 1 /\ Now(t) = WaitFor("data_ready", 1, "seq_cst")
    BY <2>4, GoodWaitFor
  <2>5. CASE t = "b" /\ place[t] = 2 /\ Now(t) = Get("data_container")
    BY <2>5, <1>2, <1>1, GoodGet DEF Inv180
  <2> QED
    BY <1>1, <1>3, <2>1, <2>2, <2>3, <2>4, <2>5, Text180
<1> QED
  BY <1>3, GoodAll

-------------------------------------------------------------------------------
(* p187: two flags, sequentially consistent. *)

\* Where a thread of p187 may be, and at which statement.
LEMMA Text187 ==
  ASSUME program = "p187", NEW t \in ThreadNames, place[t] \in Nat \ {0}, ~Ended(t)
  PROVE  \/ t = "a" /\ place[t] = 1 /\ Now(t) = StoreOf("x", 1, "seq_cst")
         \/ t = "b" /\ place[t] = 1 /\ Now(t) = StoreOf("y", 1, "seq_cst")
         \/ t = "c" /\ place[t] = 1 /\ Now(t) = WaitFor("x", 1, "seq_cst")
         \/ t = "c" /\ place[t] = 2 /\ Now(t) = LoadOf("y", "seq_cst")
         \/ t = "c" /\ place[t] = 3 /\ Now(t) = CountIf("z")
         \/ t = "d" /\ place[t] = 1 /\ Now(t) = WaitFor("y", 1, "seq_cst")
         \/ t = "d" /\ place[t] = 2 /\ Now(t) = LoadOf("x", "seq_cst")
         \/ t = "d" /\ place[t] = 3 /\ Now(t) = CountIf("z")
         \/ t = "main" /\ place[t] = 5 /\ Now(t) = Expect("z", {1, 2}, "seq_cst")
         \/ t = "main" /\ place[t] = 1 /\ Now(t) = [op |-> "join", thread |-> "a"]
         \/ t = "main" /\ place[t] = 2 /\ Now(t) = [op |-> "join", thread |-> "b"]
         \/ t = "main" /\ place[t] = 3 /\ Now(t) = [op |-> "join", thread |-> "c"]
         \/ t = "main" /\ place[t] = 4 /\ Now(t) = [op |-> "join", thread |-> "d"]
<1>1. Programs["p187"] = p187
  BY DEF Programs
<1>2. /\ p187["a"] = <<StoreOf("x", 1, "seq_cst")>>
      /\ p187["b"] = <<StoreOf("y", 1, "seq_cst")>>
      /\ p187["c"] = <<WaitFor("x", 1, "seq_cst"), LoadOf("y", "seq_cst"), CountIf("z")>>
      /\ p187["d"] = <<WaitFor("y", 1, "seq_cst"), LoadOf("x", "seq_cst"), CountIf("z")>>
      /\ p187["main"] = JoinAll \o <<Expect("z", {1, 2}, "seq_cst")>>
      /\ DOMAIN p187 = {"a", "b", "c", "d", "main"}
  BY DEF p187
<1>3. /\ t \in DOMAIN p187 => Text(program, t) = p187[t]
      /\ t \notin DOMAIN p187 => Text(program, t) = <<>>
  BY <1>1 DEF Text
<1>4. ASSUME t = "a"
      PROVE  \/ place[t] = 1 /\ Now(t) = StoreOf("x", 1, "seq_cst")
  BY <1>4, <1>2, <1>3, Place1
<1>5. ASSUME t = "b"
      PROVE  \/ place[t] = 1 /\ Now(t) = StoreOf("y", 1, "seq_cst")
  BY <1>5, <1>2, <1>3, Place1
<1>6. ASSUME t = "c"
      PROVE  \/ place[t] = 1 /\ Now(t) = WaitFor("x", 1, "seq_cst")
             \/ place[t] = 2 /\ Now(t) = LoadOf("y", "seq_cst")
             \/ place[t] = 3 /\ Now(t) = CountIf("z")
  BY <1>6, <1>2, <1>3, Place3
<1>7. ASSUME t = "d"
      PROVE  \/ place[t] = 1 /\ Now(t) = WaitFor("y", 1, "seq_cst")
             \/ place[t] = 2 /\ Now(t) = LoadOf("x", "seq_cst")
             \/ place[t] = 3 /\ Now(t) = CountIf("z")
  BY <1>7, <1>2, <1>3, Place3
<1>8. ASSUME t = "main"
      PROVE  \/ place[t] = 5 /\ Now(t) = Expect("z", {1, 2}, "seq_cst")
             \/ place[t] = 1 /\ Now(t) = [op |-> "join", thread |-> "a"]
             \/ place[t] = 2 /\ Now(t) = [op |-> "join", thread |-> "b"]
             \/ place[t] = 3 /\ Now(t) = [op |-> "join", thread |-> "c"]
             \/ place[t] = 4 /\ Now(t) = [op |-> "join", thread |-> "d"]
  BY <1>8, <1>2, <1>3, PlaceJoin
<1>9. ASSUME t \notin DOMAIN p187 PROVE FALSE
  BY <1>9, <1>3, Place0
<1> QED
  BY <1>2, <1>4, <1>5, <1>6, <1>7, <1>8, <1>9

\* The locations of p187.
LEMMA Locations187 == {"x", "y", "z"} \subseteq LocationsOf("p187")
<1>1. Programs["p187"] = p187
  BY DEF Programs
<1>2. /\ Text("p187", "a") = <<StoreOf("x", 1, "seq_cst")>> /\ "a" \in ThreadNames
      /\ Text("p187", "b") = <<StoreOf("y", 1, "seq_cst")>> /\ "b" \in ThreadNames
      /\ Text("p187", "c") = <<WaitFor("x", 1, "seq_cst"), LoadOf("y", "seq_cst"), CountIf("z")>>
      /\ "c" \in ThreadNames
  <2>1. /\ p187["a"] = <<StoreOf("x", 1, "seq_cst")>>
        /\ p187["b"] = <<StoreOf("y", 1, "seq_cst")>>
        /\ p187["c"] = <<WaitFor("x", 1, "seq_cst"), LoadOf("y", "seq_cst"), CountIf("z")>>
        /\ {"a", "b", "c"} \subseteq DOMAIN p187
    BY DEF p187
  <2> QED
    BY <1>1, <2>1 DEF Text, ThreadNames
<1>3. "x" \in LocationsOf("p187")
  <2>1. 1 \in DOMAIN Text("p187", "a") /\ Text("p187", "a")[1] = StoreOf("x", 1, "seq_cst")
    BY <1>2
  <2>2. "at" \in DOMAIN StoreOf("x", 1, "seq_cst") /\ StoreOf("x", 1, "seq_cst").at = "x"
    BY DEF StoreOf
  <2> QED
    BY <1>2, <2>1, <2>2, AtIsLocation
<1>4. "y" \in LocationsOf("p187")
  <2>1. 1 \in DOMAIN Text("p187", "b") /\ Text("p187", "b")[1] = StoreOf("y", 1, "seq_cst")
    BY <1>2
  <2>2. "at" \in DOMAIN StoreOf("y", 1, "seq_cst") /\ StoreOf("y", 1, "seq_cst").at = "y"
    BY DEF StoreOf
  <2> QED
    BY <1>2, <2>1, <2>2, AtIsLocation
<1>5. "z" \in LocationsOf("p187")
  <2>1. 3 \in DOMAIN Text("p187", "c") /\ Text("p187", "c")[3] = CountIf("z")
    BY <1>2
  <2>2. "at" \in DOMAIN CountIf("z") /\ CountIf("z").at = "z"
    BY DEF CountIf
  <2> QED
    BY <1>2, <2>1, <2>2, AtIsLocation
<1> QED
  BY <1>3, <1>4, <1>5

\* What the threads that main of p187 joins have done then.
LEMMA Ends187 ==
  ASSUME program = "p187", NEW t \in ThreadNames, Ended(t), place[t] \in Nat
  PROVE  /\ t = "a" => place[t] >= 2
         /\ t = "b" => place[t] >= 2
         /\ t = "c" => place[t] >= 4
         /\ t = "d" => place[t] >= 4
<1>1. Programs["p187"] = p187
  BY DEF Programs
<1>2. /\ p187["a"] = <<StoreOf("x", 1, "seq_cst")>> /\ "a" \in DOMAIN p187
      /\ p187["b"] = <<StoreOf("y", 1, "seq_cst")>> /\ "b" \in DOMAIN p187
      /\ p187["c"] = <<WaitFor("x", 1, "seq_cst"), LoadOf("y", "seq_cst"), CountIf("z")>>
      /\ "c" \in DOMAIN p187
      /\ p187["d"] = <<WaitFor("y", 1, "seq_cst"), LoadOf("x", "seq_cst"), CountIf("z")>>
      /\ "d" \in DOMAIN p187
  BY DEF p187
<1>3. ASSUME t = "a" PROVE place[t] >= 2
  <2>1. Text(program, t) = p187["a"]
    BY <1>1, <1>2, <1>3 DEF Text
  <2>2. Len(<<StoreOf("x", 1, "seq_cst")>>) = 1
    OBVIOUS
  <2>3. Len(Text(program, t)) = 1
    BY <1>2, <2>1, <2>2
  <2>4. place[t] > 1
    BY <2>3 DEF Ended
  <2> QED
    BY <2>4
<1>4. ASSUME t = "b" PROVE place[t] >= 2
  <2>1. Text(program, t) = p187["b"]
    BY <1>1, <1>2, <1>4 DEF Text
  <2>2. Len(<<StoreOf("y", 1, "seq_cst")>>) = 1
    OBVIOUS
  <2>3. Len(Text(program, t)) = 1
    BY <1>2, <2>1, <2>2
  <2>4. place[t] > 1
    BY <2>3 DEF Ended
  <2> QED
    BY <2>4
<1>5. ASSUME t = "c" PROVE place[t] >= 4
  <2>1. Text(program, t) = p187["c"]
    BY <1>1, <1>2, <1>5 DEF Text
  <2>2. Len(<<WaitFor("x", 1, "seq_cst"), LoadOf("y", "seq_cst"), CountIf("z")>>) = 3
    OBVIOUS
  <2>3. Len(Text(program, t)) = 3
    BY <1>2, <2>1, <2>2
  <2>4. place[t] > 3
    BY <2>3 DEF Ended
  <2> QED
    BY <2>4
<1>6. ASSUME t = "d" PROVE place[t] >= 4
  <2>1. Text(program, t) = p187["d"]
    BY <1>1, <1>2, <1>6 DEF Text
  <2>2. Len(<<WaitFor("y", 1, "seq_cst"), LoadOf("x", "seq_cst"), CountIf("z")>>) = 3
    OBVIOUS
  <2>3. Len(Text(program, t)) = 3
    BY <1>2, <2>1, <2>2
  <2>4. place[t] > 3
    BY <2>3 DEF Ended
  <2> QED
    BY <2>4
<1> QED
  BY <1>3, <1>4, <1>5, <1>6

\* A thread that read 0 after its wait did so before the other store, so that not both
\* did, and who did not has counted z.
Inv187 == /\ Base("p187")
          /\ 1 \in Vals("x") => Ones("x")
          /\ 1 \in Vals("y") => Ones("y")
          /\ place["c"] >= 2 => 1 \in Vals("x")
          /\ place["d"] >= 2 => 1 \in Vals("y")
          /\ place["c"] >= 3 /\ place["d"] >= 3 => reg["c"] # 0 \/ reg["d"] # 0
          /\ Counts("z")
          /\ Size("z") <= 1 + (IF place["c"] >= 4 THEN 1 ELSE 0) + (IF place["d"] >= 4 THEN 1 ELSE 0)
          /\ place["c"] >= 4 /\ reg["c"] # 0 => Saw("z", "c")
          /\ place["d"] >= 4 /\ reg["d"] # 0 => Saw("z", "d")
          /\ place["main"] >= 4 => place["c"] >= 4 /\ (reg["c"] # 0 => Saw("z", "main"))
          /\ place["main"] >= 5 => place["d"] >= 4 /\ (reg["d"] # 0 => Saw("z", "main"))

\* The invariant of p187 holds at the start.
LEMMA Init187 ==
  ASSUME OrdersInit, program = "p187"
  PROVE  Inv187
<1>1. /\ {"x", "y", "z"} \subseteq LocationsOf("p187")
      /\ {"a", "b", "c", "d", "main"} \subseteq ThreadNames
  BY Locations187 DEF ThreadNames
<1>2. /\ Base("p187") /\ place["a"] = 1 /\ place["b"] = 1 /\ place["c"] = 1 /\ place["d"] = 1
      /\ place["main"] = 1
  BY <1>1, InitBase
<1>3. Vals("x") = {0} /\ Top("x") = 0 /\ Vals("y") = {0} /\ Top("y") = 0 /\ Vals("z") = {0} /\ Top("z") = 0
  BY <1>1, InitBase
<1>4. Size("z") = 1 /\ history["z"][1].val = 0
  BY <1>1, InitBase
<1>5. Counts("z")
  BY <1>4 DEF Counts
<1> QED
  BY <1>2, <1>3, <1>4, <1>5 DEF Inv187

\* Every step of p187 keeps its invariant.
LEMMA Step187 ==
  ASSUME Inv187, NEW t \in ThreadNames, ThreadStep(t)
  PROVE  Inv187'
<1>1. /\ Base("p187") /\ program = "p187" /\ ThreadStep(t) /\ place[t] \in Nat \ {0}
      /\ place["a"] \in Nat /\ place["b"] \in Nat /\ place["c"] \in Nat /\ place["d"] \in Nat
      /\ place["main"] \in Nat
  BY DEF Inv187, Base, ThreadNames
<1>2. /\ {"x", "y", "z"} \subseteq LocationsOf("p187")
      /\ {"a", "b", "c", "d", "main"} \subseteq ThreadNames
  BY Locations187 DEF ThreadNames
<1>3. Counts("z")
  BY DEF Inv187
<1>4. CASE t = "a" /\ place[t] = 1 /\ Now(t) = StoreOf("x", 1, "seq_cst")
  <2>1. Base("p187") /\ ThreadStep("a") /\ Now("a") = StoreOf("x", 1, "seq_cst") /\ place["a"] = 1
    BY <1>1, <1>4
  <2>2. /\ Base("p187")' /\ Moves("a") /\ Writes(LocationsOf("p187"), "a", "x", 1)
        /\ UNCHANGED <<unseen, reg, processed>>
    BY <2>1, <1>2, StoreWrites
  <2>3. /\ place'["a"] = 2
        /\ place'["b"] = place["b"]
        /\ place'["c"] = place["c"]
        /\ place'["d"] = place["d"]
        /\ place'["main"] = place["main"]
    BY <2>1, <2>2, <1>2 DEF Moves
  <2>4. Ones("x")'
    BY <2>1, <2>2, <1>2, StoreOnes
  <2>5. Ones("y") => Ones("y")'
    BY <2>1, <2>2, <1>2, WritesOnes
  <2>6. reg'["c"] = reg["c"]
    BY <2>1, <2>2, <1>2
  <2>7. reg'["d"] = reg["d"]
    BY <2>1, <2>2, <1>2
  <2>8. Counts("z") => Counts("z")'
    BY <2>1, <2>2, <1>2, WritesCounts
  <2>9. Size("z")' = Size("z")
    BY <2>1, <2>2, <1>2, WritesKeeps
  <2>10. Saw("z", "c") => Saw("z", "c")'
    BY <2>1, <2>2, <1>2, WritesSaw
  <2>11. Saw("z", "d") => Saw("z", "d")'
    BY <2>1, <2>2, <1>2, WritesSaw
  <2>12. Saw("z", "main") => Saw("z", "main")'
    BY <2>1, <2>2, <1>2, WritesSaw
  <2>13. Vals("x")' = Vals("x") \cup {1}
    BY <2>1, <2>2, <1>2, WritesOwn
  <2>14. Vals("y")' = Vals("y")
    BY <2>1, <2>2, <1>2, WritesKeeps
  <2> QED
    BY <1>1, <2>1, <2>2, <2>3, <2>4, <2>5, <2>6, <2>7, <2>8, <2>9, <2>10, <2>11, <2>12, <2>13,
       <2>14 DEF Inv187
<1>5. CASE t = "b" /\ place[t] = 1 /\ Now(t) = StoreOf("y", 1, "seq_cst")
  <2>1. Base("p187") /\ ThreadStep("b") /\ Now("b") = StoreOf("y", 1, "seq_cst") /\ place["b"] = 1
    BY <1>1, <1>5
  <2>2. /\ Base("p187")' /\ Moves("b") /\ Writes(LocationsOf("p187"), "b", "y", 1)
        /\ UNCHANGED <<unseen, reg, processed>>
    BY <2>1, <1>2, StoreWrites
  <2>3. /\ place'["b"] = 2
        /\ place'["a"] = place["a"]
        /\ place'["c"] = place["c"]
        /\ place'["d"] = place["d"]
        /\ place'["main"] = place["main"]
    BY <2>1, <2>2, <1>2 DEF Moves
  <2>4. Ones("x") => Ones("x")'
    BY <2>1, <2>2, <1>2, WritesOnes
  <2>5. Ones("y")'
    BY <2>1, <2>2, <1>2, StoreOnes
  <2>6. reg'["c"] = reg["c"]
    BY <2>1, <2>2, <1>2
  <2>7. reg'["d"] = reg["d"]
    BY <2>1, <2>2, <1>2
  <2>8. Counts("z") => Counts("z")'
    BY <2>1, <2>2, <1>2, WritesCounts
  <2>9. Size("z")' = Size("z")
    BY <2>1, <2>2, <1>2, WritesKeeps
  <2>10. Saw("z", "c") => Saw("z", "c")'
    BY <2>1, <2>2, <1>2, WritesSaw
  <2>11. Saw("z", "d") => Saw("z", "d")'
    BY <2>1, <2>2, <1>2, WritesSaw
  <2>12. Saw("z", "main") => Saw("z", "main")'
    BY <2>1, <2>2, <1>2, WritesSaw
  <2>13. Vals("y")' = Vals("y") \cup {1}
    BY <2>1, <2>2, <1>2, WritesOwn
  <2>14. Vals("x")' = Vals("x")
    BY <2>1, <2>2, <1>2, WritesKeeps
  <2> QED
    BY <1>1, <2>1, <2>2, <2>3, <2>4, <2>5, <2>6, <2>7, <2>8, <2>9, <2>10, <2>11, <2>12, <2>13,
       <2>14 DEF Inv187
<1>6. CASE t = "c" /\ place[t] = 1 /\ Now(t) = WaitFor("x", 1, "seq_cst")
  <2>1. Base("p187") /\ ThreadStep("c") /\ Now("c") = WaitFor("x", 1, "seq_cst") /\ place["c"] = 1
    BY <1>1, <1>6
  <2>2. /\ Base("p187")' /\ Moves("c") /\ Quiet(LocationsOf("p187"), "c")
        /\ UNCHANGED <<fenced, scLast, processed>>
        /\ \A u \in ThreadNames \ {"c"} : reg'[u] = reg[u] /\ unseen'[u] = unseen[u]
    BY <2>1, <1>2, WaitForQuiet
  <2>3. /\ place'["c"] = 2
        /\ place'["a"] = place["a"]
        /\ place'["b"] = place["b"]
        /\ place'["d"] = place["d"]
        /\ place'["main"] = place["main"]
    BY <2>1, <2>2, <1>2 DEF Moves
  <2>4. Ones("x") => Ones("x")'
    BY <2>1, <2>2, <1>2, QuietOnes
  <2>5. Ones("y") => Ones("y")'
    BY <2>1, <2>2, <1>2, QuietOnes
  <2>6. reg'["d"] = reg["d"]
    BY <2>1, <2>2, <1>2
  <2>7. Counts("z") => Counts("z")'
    BY <2>1, <2>2, <1>2, QuietCounts
  <2>8. Size("z")' = Size("z")
    BY <2>1, <2>2, <1>2, QuietKeeps
  <2>9. Saw("z", "c") => Saw("z", "c")'
    BY <2>1, <2>2, <1>2, QuietSaw
  <2>10. Saw("z", "d") => Saw("z", "d")'
    BY <2>1, <2>2, <1>2, QuietSaw
  <2>11. Saw("z", "main") => Saw("z", "main")'
    BY <2>1, <2>2, <1>2, QuietSaw
  <2>12. /\ Vals("x")' = Vals("x")
         /\ Vals("y")' = Vals("y")
    BY <2>1, <2>2, <1>2, QuietKeeps
  <2>13. 1 \in Vals("x")
    BY <2>1, <2>2, <1>2, WaitFound
  <2> QED
    BY <1>1, <2>1, <2>2, <2>3, <2>4, <2>5, <2>6, <2>7, <2>8, <2>9, <2>10, <2>11, <2>12, <2>13 DEF Inv187
<1>7. CASE t = "c" /\ place[t] = 2 /\ Now(t) = LoadOf("y", "seq_cst")
  <2>1. Base("p187") /\ ThreadStep("c") /\ Now("c") = LoadOf("y", "seq_cst") /\ place["c"] = 2
    BY <1>1, <1>7
  <2>2. /\ Base("p187")' /\ Moves("c") /\ Quiet(LocationsOf("p187"), "c")
        /\ UNCHANGED <<fenced, scLast, processed>>
        /\ \A u \in ThreadNames \ {"c"} : reg'[u] = reg[u] /\ unseen'[u] = unseen[u]
    BY <2>1, <1>2, LoadOfQuiet
  <2>3. /\ place'["c"] = 3
        /\ place'["a"] = place["a"]
        /\ place'["b"] = place["b"]
        /\ place'["d"] = place["d"]
        /\ place'["main"] = place["main"]
    BY <2>1, <2>2, <1>2 DEF Moves
  <2>4. Ones("x") => Ones("x")'
    BY <2>1, <2>2, <1>2, QuietOnes
  <2>5. Ones("y") => Ones("y")'
    BY <2>1, <2>2, <1>2, QuietOnes
  <2>6. LoadOf("y", "seq_cst") \in {LoadOf("y", "seq_cst"), WaitFor("y", 0, "seq_cst"), Expect("y", 0, "seq_cst")}
    OBVIOUS
  <2>7. Ones("y") => reg'["c"] = 1
    BY <2>1, <2>2, <1>2, <2>6, LoadOnes
  <2>8. reg'["d"] = reg["d"]
    BY <2>1, <2>2, <1>2
  <2>9. Counts("z") => Counts("z")'
    BY <2>1, <2>2, <1>2, QuietCounts
  <2>10. Size("z")' = Size("z")
    BY <2>1, <2>2, <1>2, QuietKeeps
  <2>11. Saw("z", "c") => Saw("z", "c")'
    BY <2>1, <2>2, <1>2, QuietSaw
  <2>12. Saw("z", "d") => Saw("z", "d")'
    BY <2>1, <2>2, <1>2, QuietSaw
  <2>13. Saw("z", "main") => Saw("z", "main")'
    BY <2>1, <2>2, <1>2, QuietSaw
  <2>14. /\ Vals("x")' = Vals("x")
         /\ Vals("y")' = Vals("y")
    BY <2>1, <2>2, <1>2, QuietKeeps
  <2> QED
    BY <1>1, <2>1, <2>2, <2>3, <2>4, <2>5, <2>6, <2>7, <2>8, <2>9, <2>10, <2>11, <2>12, <2>13,
       <2>14 DEF Inv187
<1>8. CASE t = "c" /\ place[t] = 3 /\ Now(t) = CountIf("z")
  <2>1. Base("p187") /\ ThreadStep("c") /\ Now("c") = CountIf("z") /\ place["c"] = 3
    BY <1>1, <1>8
  <2>2. /\ Base("p187")' /\ Moves("c") /\ UNCHANGED <<reg, processed>>
        /\ Counts("z")' /\ Size("z") <= Size("z")' /\ Size("z")' <= Size("z") + 1 /\ (reg["c"] # 0 => Saw("z", "c")')
        /\ \A u \in ThreadNames : Saw("z", u) => Saw("z", u)'
    BY <2>1, <1>2, <1>3, CountCounts
  <2>3. Size("z") \in Nat /\ Size("z")' \in Nat
    BY <2>1, <2>2, <1>2, Bounds, NextBounds DEF Size
  <2>4. history'["x"] = history["x"] /\ scLast'["x"] = scLast["x"]
    BY <2>1, <1>2, CountElse
  <2>5. Vals("x")' = Vals("x")
    BY <2>4 DEF Vals
  <2>6. Ones("x") => Ones("x")'
    BY <2>4, OnesKept
  <2>7. history'["y"] = history["y"] /\ scLast'["y"] = scLast["y"]
    BY <2>1, <1>2, CountElse
  <2>8. Vals("y")' = Vals("y")
    BY <2>7 DEF Vals
  <2>9. Ones("y") => Ones("y")'
    BY <2>7, OnesKept
  <2>10. Saw("z", "c") => Saw("z", "c")'
    BY <2>1, <2>2, <2>3, <1>2
  <2>11. Saw("z", "d") => Saw("z", "d")'
    BY <2>1, <2>2, <2>3, <1>2
  <2>12. Saw("z", "main") => Saw("z", "main")'
    BY <2>1, <2>2, <2>3, <1>2
  <2>13. /\ place'["c"] = 4
         /\ place'["a"] = place["a"]
         /\ place'["b"] = place["b"]
         /\ place'["d"] = place["d"]
         /\ place'["main"] = place["main"]
    BY <2>1, <2>2, <2>3, <1>2 DEF Moves
  <2> QED
    BY <1>1, <2>1, <2>2, <2>3, <2>4, <2>5, <2>6, <2>7, <2>8, <2>9, <2>10, <2>11, <2>12, <2>13 DEF Inv187
<1>9. CASE t = "d" /\ place[t] = 1 /\ Now(t) = WaitFor("y", 1, "seq_cst")
  <2>1. Base("p187") /\ ThreadStep("d") /\ Now("d") = WaitFor("y", 1, "seq_cst") /\ place["d"] = 1
    BY <1>1, <1>9
  <2>2. /\ Base("p187")' /\ Moves("d") /\ Quiet(LocationsOf("p187"), "d")
        /\ UNCHANGED <<fenced, scLast, processed>>
        /\ \A u \in ThreadNames \ {"d"} : reg'[u] = reg[u] /\ unseen'[u] = unseen[u]
    BY <2>1, <1>2, WaitForQuiet
  <2>3. /\ place'["d"] = 2
        /\ place'["a"] = place["a"]
        /\ place'["b"] = place["b"]
        /\ place'["c"] = place["c"]
        /\ place'["main"] = place["main"]
    BY <2>1, <2>2, <1>2 DEF Moves
  <2>4. Ones("x") => Ones("x")'
    BY <2>1, <2>2, <1>2, QuietOnes
  <2>5. Ones("y") => Ones("y")'
    BY <2>1, <2>2, <1>2, QuietOnes
  <2>6. reg'["c"] = reg["c"]
    BY <2>1, <2>2, <1>2
  <2>7. Counts("z") => Counts("z")'
    BY <2>1, <2>2, <1>2, QuietCounts
  <2>8. Size("z")' = Size("z")
    BY <2>1, <2>2, <1>2, QuietKeeps
  <2>9. Saw("z", "c") => Saw("z", "c")'
    BY <2>1, <2>2, <1>2, QuietSaw
  <2>10. Saw("z", "d") => Saw("z", "d")'
    BY <2>1, <2>2, <1>2, QuietSaw
  <2>11. Saw("z", "main") => Saw("z", "main")'
    BY <2>1, <2>2, <1>2, QuietSaw
  <2>12. /\ Vals("x")' = Vals("x")
         /\ Vals("y")' = Vals("y")
    BY <2>1, <2>2, <1>2, QuietKeeps
  <2>13. 1 \in Vals("y")
    BY <2>1, <2>2, <1>2, WaitFound
  <2> QED
    BY <1>1, <2>1, <2>2, <2>3, <2>4, <2>5, <2>6, <2>7, <2>8, <2>9, <2>10, <2>11, <2>12, <2>13 DEF Inv187
<1>10. CASE t = "d" /\ place[t] = 2 /\ Now(t) = LoadOf("x", "seq_cst")
  <2>1. Base("p187") /\ ThreadStep("d") /\ Now("d") = LoadOf("x", "seq_cst") /\ place["d"] = 2
    BY <1>1, <1>10
  <2>2. /\ Base("p187")' /\ Moves("d") /\ Quiet(LocationsOf("p187"), "d")
        /\ UNCHANGED <<fenced, scLast, processed>>
        /\ \A u \in ThreadNames \ {"d"} : reg'[u] = reg[u] /\ unseen'[u] = unseen[u]
    BY <2>1, <1>2, LoadOfQuiet
  <2>3. /\ place'["d"] = 3
        /\ place'["a"] = place["a"]
        /\ place'["b"] = place["b"]
        /\ place'["c"] = place["c"]
        /\ place'["main"] = place["main"]
    BY <2>1, <2>2, <1>2 DEF Moves
  <2>4. Ones("x") => Ones("x")'
    BY <2>1, <2>2, <1>2, QuietOnes
  <2>5. Ones("y") => Ones("y")'
    BY <2>1, <2>2, <1>2, QuietOnes
  <2>6. reg'["c"] = reg["c"]
    BY <2>1, <2>2, <1>2
  <2>7. LoadOf("x", "seq_cst") \in {LoadOf("x", "seq_cst"), WaitFor("x", 0, "seq_cst"), Expect("x", 0, "seq_cst")}
    OBVIOUS
  <2>8. Ones("x") => reg'["d"] = 1
    BY <2>1, <2>2, <1>2, <2>7, LoadOnes
  <2>9. Counts("z") => Counts("z")'
    BY <2>1, <2>2, <1>2, QuietCounts
  <2>10. Size("z")' = Size("z")
    BY <2>1, <2>2, <1>2, QuietKeeps
  <2>11. Saw("z", "c") => Saw("z", "c")'
    BY <2>1, <2>2, <1>2, QuietSaw
  <2>12. Saw("z", "d") => Saw("z", "d")'
    BY <2>1, <2>2, <1>2, QuietSaw
  <2>13. Saw("z", "main") => Saw("z", "main")'
    BY <2>1, <2>2, <1>2, QuietSaw
  <2>14. /\ Vals("x")' = Vals("x")
         /\ Vals("y")' = Vals("y")
    BY <2>1, <2>2, <1>2, QuietKeeps
  <2> QED
    BY <1>1, <2>1, <2>2, <2>3, <2>4, <2>5, <2>6, <2>7, <2>8, <2>9, <2>10, <2>11, <2>12, <2>13,
       <2>14 DEF Inv187
<1>11. CASE t = "d" /\ place[t] = 3 /\ Now(t) = CountIf("z")
  <2>1. Base("p187") /\ ThreadStep("d") /\ Now("d") = CountIf("z") /\ place["d"] = 3
    BY <1>1, <1>11
  <2>2. /\ Base("p187")' /\ Moves("d") /\ UNCHANGED <<reg, processed>>
        /\ Counts("z")' /\ Size("z") <= Size("z")' /\ Size("z")' <= Size("z") + 1 /\ (reg["d"] # 0 => Saw("z", "d")')
        /\ \A u \in ThreadNames : Saw("z", u) => Saw("z", u)'
    BY <2>1, <1>2, <1>3, CountCounts
  <2>3. Size("z") \in Nat /\ Size("z")' \in Nat
    BY <2>1, <2>2, <1>2, Bounds, NextBounds DEF Size
  <2>4. history'["x"] = history["x"] /\ scLast'["x"] = scLast["x"]
    BY <2>1, <1>2, CountElse
  <2>5. Vals("x")' = Vals("x")
    BY <2>4 DEF Vals
  <2>6. Ones("x") => Ones("x")'
    BY <2>4, OnesKept
  <2>7. history'["y"] = history["y"] /\ scLast'["y"] = scLast["y"]
    BY <2>1, <1>2, CountElse
  <2>8. Vals("y")' = Vals("y")
    BY <2>7 DEF Vals
  <2>9. Ones("y") => Ones("y")'
    BY <2>7, OnesKept
  <2>10. Saw("z", "c") => Saw("z", "c")'
    BY <2>1, <2>2, <2>3, <1>2
  <2>11. Saw("z", "d") => Saw("z", "d")'
    BY <2>1, <2>2, <2>3, <1>2
  <2>12. Saw("z", "main") => Saw("z", "main")'
    BY <2>1, <2>2, <2>3, <1>2
  <2>13. /\ place'["d"] = 4
         /\ place'["a"] = place["a"]
         /\ place'["b"] = place["b"]
         /\ place'["c"] = place["c"]
         /\ place'["main"] = place["main"]
    BY <2>1, <2>2, <2>3, <1>2 DEF Moves
  <2> QED
    BY <1>1, <2>1, <2>2, <2>3, <2>4, <2>5, <2>6, <2>7, <2>8, <2>9, <2>10, <2>11, <2>12, <2>13 DEF Inv187
<1>12. CASE t = "main" /\ place[t] = 5 /\ Now(t) = Expect("z", {1, 2}, "seq_cst")
  <2>1. /\ Base("p187") /\ ThreadStep("main") /\ Now("main") = Expect("z", {1, 2}, "seq_cst")
        /\ place["main"] = 5
    BY <1>1, <1>12
  <2>2. /\ Base("p187")' /\ Moves("main") /\ Quiet(LocationsOf("p187"), "main")
        /\ UNCHANGED <<fenced, scLast, processed>>
        /\ \A u \in ThreadNames \ {"main"} : reg'[u] = reg[u] /\ unseen'[u] = unseen[u]
    BY <2>1, <1>2, ExpectQuiet
  <2>3. /\ place'["main"] = 6
        /\ place'["a"] = place["a"]
        /\ place'["b"] = place["b"]
        /\ place'["c"] = place["c"]
        /\ place'["d"] = place["d"]
    BY <2>1, <2>2, <1>2 DEF Moves
  <2>4. Ones("x") => Ones("x")'
    BY <2>1, <2>2, <1>2, QuietOnes
  <2>5. Ones("y") => Ones("y")'
    BY <2>1, <2>2, <1>2, QuietOnes
  <2>6. reg'["c"] = reg["c"]
    BY <2>1, <2>2, <1>2
  <2>7. reg'["d"] = reg["d"]
    BY <2>1, <2>2, <1>2
  <2>8. Counts("z") => Counts("z")'
    BY <2>1, <2>2, <1>2, QuietCounts
  <2>9. Size("z")' = Size("z")
    BY <2>1, <2>2, <1>2, QuietKeeps
  <2>10. Saw("z", "c") => Saw("z", "c")'
    BY <2>1, <2>2, <1>2, QuietSaw
  <2>11. Saw("z", "d") => Saw("z", "d")'
    BY <2>1, <2>2, <1>2, QuietSaw
  <2>12. Saw("z", "main") => Saw("z", "main")'
    BY <2>1, <2>2, <1>2, QuietSaw
  <2>13. /\ Vals("x")' = Vals("x")
         /\ Vals("y")' = Vals("y")
    BY <2>1, <2>2, <1>2, QuietKeeps
  <2> QED
    BY <1>1, <2>1, <2>2, <2>3, <2>4, <2>5, <2>6, <2>7, <2>8, <2>9, <2>10, <2>11, <2>12, <2>13 DEF Inv187
<1>13. CASE t = "main" /\ place[t] = 1 /\ Now(t) = [op |-> "join", thread |-> "a"]
  <2>1. /\ Base("p187") /\ ThreadStep("main") /\ Now("main") = [op |-> "join", thread |-> "a"]
        /\ place["main"] = 1
    BY <1>1, <1>13
  <2>2. /\ Base("p187")' /\ Moves("main") /\ Quiet(LocationsOf("p187"), "main") /\ Ended("a")
        /\ UNCHANGED <<reg, processed, unseen, depends, fenced, scLast>>
        /\ \A x \in LocationsOf("p187") : Seen(x, "a") => Seen(x, "main")'
    BY <2>1, <1>2, JoinSees
  <2>3. /\ place'["main"] = 2
        /\ place'["a"] = place["a"]
        /\ place'["b"] = place["b"]
        /\ place'["c"] = place["c"]
        /\ place'["d"] = place["d"]
    BY <2>1, <2>2, <1>2 DEF Moves
  <2>4. Ones("x") => Ones("x")'
    BY <2>1, <2>2, <1>2, QuietOnes
  <2>5. Ones("y") => Ones("y")'
    BY <2>1, <2>2, <1>2, QuietOnes
  <2>6. reg'["c"] = reg["c"]
    BY <2>1, <2>2, <1>2
  <2>7. reg'["d"] = reg["d"]
    BY <2>1, <2>2, <1>2
  <2>8. Counts("z") => Counts("z")'
    BY <2>1, <2>2, <1>2, QuietCounts
  <2>9. Size("z")' = Size("z")
    BY <2>1, <2>2, <1>2, QuietKeeps
  <2>10. Saw("z", "c") => Saw("z", "c")'
    BY <2>1, <2>2, <1>2, QuietSaw
  <2>11. Saw("z", "d") => Saw("z", "d")'
    BY <2>1, <2>2, <1>2, QuietSaw
  <2>12. Saw("z", "main") => Saw("z", "main")'
    BY <2>1, <2>2, <1>2, QuietSaw
  <2>13. /\ Vals("x")' = Vals("x")
         /\ Vals("y")' = Vals("y")
    BY <2>1, <2>2, <1>2, QuietKeeps
  <2>14. place["a"] >= 2
    BY <2>1, <2>2, Ends187, <1>1, <1>2
  <2> QED
    BY <1>1, <1>2, <2>1, <2>2, <2>3, <2>4, <2>5, <2>6, <2>7, <2>8, <2>9, <2>10, <2>11, <2>12, <2>13,
       <2>14 DEF Inv187
<1>14. CASE t = "main" /\ place[t] = 2 /\ Now(t) = [op |-> "join", thread |-> "b"]
  <2>1. /\ Base("p187") /\ ThreadStep("main") /\ Now("main") = [op |-> "join", thread |-> "b"]
        /\ place["main"] = 2
    BY <1>1, <1>14
  <2>2. /\ Base("p187")' /\ Moves("main") /\ Quiet(LocationsOf("p187"), "main") /\ Ended("b")
        /\ UNCHANGED <<reg, processed, unseen, depends, fenced, scLast>>
        /\ \A x \in LocationsOf("p187") : Seen(x, "b") => Seen(x, "main")'
    BY <2>1, <1>2, JoinSees
  <2>3. /\ place'["main"] = 3
        /\ place'["a"] = place["a"]
        /\ place'["b"] = place["b"]
        /\ place'["c"] = place["c"]
        /\ place'["d"] = place["d"]
    BY <2>1, <2>2, <1>2 DEF Moves
  <2>4. Ones("x") => Ones("x")'
    BY <2>1, <2>2, <1>2, QuietOnes
  <2>5. Ones("y") => Ones("y")'
    BY <2>1, <2>2, <1>2, QuietOnes
  <2>6. reg'["c"] = reg["c"]
    BY <2>1, <2>2, <1>2
  <2>7. reg'["d"] = reg["d"]
    BY <2>1, <2>2, <1>2
  <2>8. Counts("z") => Counts("z")'
    BY <2>1, <2>2, <1>2, QuietCounts
  <2>9. Size("z")' = Size("z")
    BY <2>1, <2>2, <1>2, QuietKeeps
  <2>10. Saw("z", "c") => Saw("z", "c")'
    BY <2>1, <2>2, <1>2, QuietSaw
  <2>11. Saw("z", "d") => Saw("z", "d")'
    BY <2>1, <2>2, <1>2, QuietSaw
  <2>12. Saw("z", "main") => Saw("z", "main")'
    BY <2>1, <2>2, <1>2, QuietSaw
  <2>13. /\ Vals("x")' = Vals("x")
         /\ Vals("y")' = Vals("y")
    BY <2>1, <2>2, <1>2, QuietKeeps
  <2>14. place["b"] >= 2
    BY <2>1, <2>2, Ends187, <1>1, <1>2
  <2> QED
    BY <1>1, <1>2, <2>1, <2>2, <2>3, <2>4, <2>5, <2>6, <2>7, <2>8, <2>9, <2>10, <2>11, <2>12, <2>13,
       <2>14 DEF Inv187
<1>15. CASE t = "main" /\ place[t] = 3 /\ Now(t) = [op |-> "join", thread |-> "c"]
  <2>1. /\ Base("p187") /\ ThreadStep("main") /\ Now("main") = [op |-> "join", thread |-> "c"]
        /\ place["main"] = 3
    BY <1>1, <1>15
  <2>2. /\ Base("p187")' /\ Moves("main") /\ Quiet(LocationsOf("p187"), "main") /\ Ended("c")
        /\ UNCHANGED <<reg, processed, unseen, depends, fenced, scLast>>
        /\ \A x \in LocationsOf("p187") : Seen(x, "c") => Seen(x, "main")'
    BY <2>1, <1>2, JoinSees
  <2>3. /\ place'["main"] = 4
        /\ place'["a"] = place["a"]
        /\ place'["b"] = place["b"]
        /\ place'["c"] = place["c"]
        /\ place'["d"] = place["d"]
    BY <2>1, <2>2, <1>2 DEF Moves
  <2>4. Ones("x") => Ones("x")'
    BY <2>1, <2>2, <1>2, QuietOnes
  <2>5. Ones("y") => Ones("y")'
    BY <2>1, <2>2, <1>2, QuietOnes
  <2>6. reg'["c"] = reg["c"]
    BY <2>1, <2>2, <1>2
  <2>7. reg'["d"] = reg["d"]
    BY <2>1, <2>2, <1>2
  <2>8. Counts("z") => Counts("z")'
    BY <2>1, <2>2, <1>2, QuietCounts
  <2>9. Size("z")' = Size("z")
    BY <2>1, <2>2, <1>2, QuietKeeps
  <2>10. Saw("z", "c") => Saw("z", "c")'
    BY <2>1, <2>2, <1>2, QuietSaw
  <2>11. Saw("z", "d") => Saw("z", "d")'
    BY <2>1, <2>2, <1>2, QuietSaw
  <2>12. Saw("z", "main") => Saw("z", "main")'
    BY <2>1, <2>2, <1>2, QuietSaw
  <2>13. /\ Vals("x")' = Vals("x")
         /\ Vals("y")' = Vals("y")
    BY <2>1, <2>2, <1>2, QuietKeeps
  <2>14. place["c"] >= 4
    BY <2>1, <2>2, Ends187, <1>1, <1>2
  <2>15. Saw("z", "c") => Saw("z", "main")'
    BY <2>1, <2>2, <1>2, JoinSaw
  <2> QED
    BY <1>1, <1>2, <2>1, <2>2, <2>3, <2>4, <2>5, <2>6, <2>7, <2>8, <2>9, <2>10, <2>11, <2>12, <2>13,
       <2>14, <2>15 DEF Inv187
<1>16. CASE t = "main" /\ place[t] = 4 /\ Now(t) = [op |-> "join", thread |-> "d"]
  <2>1. /\ Base("p187") /\ ThreadStep("main") /\ Now("main") = [op |-> "join", thread |-> "d"]
        /\ place["main"] = 4
    BY <1>1, <1>16
  <2>2. /\ Base("p187")' /\ Moves("main") /\ Quiet(LocationsOf("p187"), "main") /\ Ended("d")
        /\ UNCHANGED <<reg, processed, unseen, depends, fenced, scLast>>
        /\ \A x \in LocationsOf("p187") : Seen(x, "d") => Seen(x, "main")'
    BY <2>1, <1>2, JoinSees
  <2>3. /\ place'["main"] = 5
        /\ place'["a"] = place["a"]
        /\ place'["b"] = place["b"]
        /\ place'["c"] = place["c"]
        /\ place'["d"] = place["d"]
    BY <2>1, <2>2, <1>2 DEF Moves
  <2>4. Ones("x") => Ones("x")'
    BY <2>1, <2>2, <1>2, QuietOnes
  <2>5. Ones("y") => Ones("y")'
    BY <2>1, <2>2, <1>2, QuietOnes
  <2>6. reg'["c"] = reg["c"]
    BY <2>1, <2>2, <1>2
  <2>7. reg'["d"] = reg["d"]
    BY <2>1, <2>2, <1>2
  <2>8. Counts("z") => Counts("z")'
    BY <2>1, <2>2, <1>2, QuietCounts
  <2>9. Size("z")' = Size("z")
    BY <2>1, <2>2, <1>2, QuietKeeps
  <2>10. Saw("z", "c") => Saw("z", "c")'
    BY <2>1, <2>2, <1>2, QuietSaw
  <2>11. Saw("z", "d") => Saw("z", "d")'
    BY <2>1, <2>2, <1>2, QuietSaw
  <2>12. Saw("z", "main") => Saw("z", "main")'
    BY <2>1, <2>2, <1>2, QuietSaw
  <2>13. /\ Vals("x")' = Vals("x")
         /\ Vals("y")' = Vals("y")
    BY <2>1, <2>2, <1>2, QuietKeeps
  <2>14. place["d"] >= 4
    BY <2>1, <2>2, Ends187, <1>1, <1>2
  <2>15. Saw("z", "d") => Saw("z", "main")'
    BY <2>1, <2>2, <1>2, JoinSaw
  <2> QED
    BY <1>1, <1>2, <2>1, <2>2, <2>3, <2>4, <2>5, <2>6, <2>7, <2>8, <2>9, <2>10, <2>11, <2>12, <2>13,
       <2>14, <2>15 DEF Inv187
<1> QED
  BY <1>1, <1>4, <1>5, <1>6, <1>7, <1>8, <1>9, <1>10, <1>11, <1>12, <1>13, <1>14, <1>15, <1>16,
     NotEnded, Text187

\* The invariant of p187 makes every statement that is next good.
LEMMA Holds187 ==
  ASSUME Inv187
  PROVE  NoDataRace /\ AssertionsHold
<1>1. /\ Base("p187") /\ program = "p187" /\ place["a"] \in Nat /\ place["b"] \in Nat
      /\ place["c"] \in Nat /\ place["d"] \in Nat /\ place["main"] \in Nat
  BY DEF Inv187, Base, ThreadNames
<1>2. /\ {"x", "y", "z"} \subseteq LocationsOf("p187")
      /\ {"a", "b", "c", "d", "main"} \subseteq ThreadNames
  BY Locations187 DEF ThreadNames
<1>3. ASSUME NEW t \in ThreadNames, ~Ended(t) PROVE Good(t)
  <2>1. place[t] \in Nat \ {0}
    BY <1>1 DEF Base
  <2>2. CASE t = "a" /\ place[t] = 1 /\ Now(t) = StoreOf("x", 1, "seq_cst")
    BY <2>2, GoodStoreOf
  <2>3. CASE t = "b" /\ place[t] = 1 /\ Now(t) = StoreOf("y", 1, "seq_cst")
    BY <2>3, GoodStoreOf
  <2>4. CASE t = "c" /\ place[t] = 1 /\ Now(t) = WaitFor("x", 1, "seq_cst")
    BY <2>4, GoodWaitFor
  <2>5. CASE t = "c" /\ place[t] = 2 /\ Now(t) = LoadOf("y", "seq_cst")
    BY <2>5, GoodLoadOf
  <2>6. CASE t = "c" /\ place[t] = 3 /\ Now(t) = CountIf("z")
    BY <2>6, GoodCountIf
  <2>7. CASE t = "d" /\ place[t] = 1 /\ Now(t) = WaitFor("y", 1, "seq_cst")
    BY <2>7, GoodWaitFor
  <2>8. CASE t = "d" /\ place[t] = 2 /\ Now(t) = LoadOf("x", "seq_cst")
    BY <2>8, GoodLoadOf
  <2>9. CASE t = "d" /\ place[t] = 3 /\ Now(t) = CountIf("z")
    BY <2>9, GoodCountIf
  <2>10. CASE t = "main" /\ place[t] = 5 /\ Now(t) = Expect("z", {1, 2}, "seq_cst")
    BY <2>10, <1>2, <1>1, GoodExpectSaw DEF Inv187
  <2>11. CASE t = "main" /\ place[t] = 1 /\ Now(t) = [op |-> "join", thread |-> "a"]
    BY <2>11, GoodJoin
  <2>12. CASE t = "main" /\ place[t] = 2 /\ Now(t) = [op |-> "join", thread |-> "b"]
    BY <2>12, GoodJoin
  <2>13. CASE t = "main" /\ place[t] = 3 /\ Now(t) = [op |-> "join", thread |-> "c"]
    BY <2>13, GoodJoin
  <2>14. CASE t = "main" /\ place[t] = 4 /\ Now(t) = [op |-> "join", thread |-> "d"]
    BY <2>14, GoodJoin
  <2> QED
    BY <1>1, <1>3, <2>1, <2>2, <2>3, <2>4, <2>5, <2>6, <2>7, <2>8, <2>9, <2>10, <2>11, <2>12, <2>13,
       <2>14, Text187
<1> QED
  BY <1>3, GoodAll

-------------------------------------------------------------------------------
(* p191 and p198: no assertion to hold. *)

\* Where a thread of p191 may be, and at which statement.
LEMMA Text191 ==
  ASSUME program = "p191", NEW t \in ThreadNames, place[t] \in Nat \ {0}, ~Ended(t)
  PROVE  \/ t = "a" /\ place[t] = 1 /\ Now(t) = StoreOf("x", 1, "relaxed")
         \/ t = "a" /\ place[t] = 2 /\ Now(t) = StoreOf("y", 1, "relaxed")
         \/ t = "b" /\ place[t] = 1 /\ Now(t) = WaitFor("y", 1, "relaxed")
         \/ t = "b" /\ place[t] = 2 /\ Now(t) = LoadOf("x", "relaxed")
         \/ t = "b" /\ place[t] = 3 /\ Now(t) = CountIf("z")
         \/ t = "main" /\ place[t] = 5 /\ Now(t) = LoadOf("z", "seq_cst")
         \/ t = "main" /\ place[t] = 1 /\ Now(t) = [op |-> "join", thread |-> "a"]
         \/ t = "main" /\ place[t] = 2 /\ Now(t) = [op |-> "join", thread |-> "b"]
         \/ t = "main" /\ place[t] = 3 /\ Now(t) = [op |-> "join", thread |-> "c"]
         \/ t = "main" /\ place[t] = 4 /\ Now(t) = [op |-> "join", thread |-> "d"]
<1>1. Programs["p191"] = p191
  BY DEF Programs
<1>2. /\ p191["a"] = <<StoreOf("x", 1, "relaxed"), StoreOf("y", 1, "relaxed")>>
      /\ p191["b"] = <<WaitFor("y", 1, "relaxed"), LoadOf("x", "relaxed"), CountIf("z")>>
      /\ p191["main"] = JoinAll \o <<LoadOf("z", "seq_cst")>>
      /\ DOMAIN p191 = {"a", "b", "main"}
  BY DEF p191
<1>3. /\ t \in DOMAIN p191 => Text(program, t) = p191[t]
      /\ t \notin DOMAIN p191 => Text(program, t) = <<>>
  BY <1>1 DEF Text
<1>4. ASSUME t = "a"
      PROVE  \/ place[t] = 1 /\ Now(t) = StoreOf("x", 1, "relaxed")
             \/ place[t] = 2 /\ Now(t) = StoreOf("y", 1, "relaxed")
  BY <1>4, <1>2, <1>3, Place2
<1>5. ASSUME t = "b"
      PROVE  \/ place[t] = 1 /\ Now(t) = WaitFor("y", 1, "relaxed")
             \/ place[t] = 2 /\ Now(t) = LoadOf("x", "relaxed")
             \/ place[t] = 3 /\ Now(t) = CountIf("z")
  BY <1>5, <1>2, <1>3, Place3
<1>6. ASSUME t = "main"
      PROVE  \/ place[t] = 5 /\ Now(t) = LoadOf("z", "seq_cst")
             \/ place[t] = 1 /\ Now(t) = [op |-> "join", thread |-> "a"]
             \/ place[t] = 2 /\ Now(t) = [op |-> "join", thread |-> "b"]
             \/ place[t] = 3 /\ Now(t) = [op |-> "join", thread |-> "c"]
             \/ place[t] = 4 /\ Now(t) = [op |-> "join", thread |-> "d"]
  BY <1>6, <1>2, <1>3, PlaceJoin
<1>7. ASSUME t \notin DOMAIN p191 PROVE FALSE
  BY <1>7, <1>3, Place0
<1> QED
  BY <1>2, <1>4, <1>5, <1>6, <1>7

\* Where a thread of p198 may be, and at which statement.
LEMMA Text198 ==
  ASSUME program = "p198", NEW t \in ThreadNames, place[t] \in Nat \ {0}, ~Ended(t)
  PROVE  \/ t = "a" /\ place[t] = 1 /\ Now(t) = StoreOf("x", 1, "release")
         \/ t = "b" /\ place[t] = 1 /\ Now(t) = StoreOf("y", 1, "release")
         \/ t = "c" /\ place[t] = 1 /\ Now(t) = WaitFor("x", 1, "acquire")
         \/ t = "c" /\ place[t] = 2 /\ Now(t) = LoadOf("y", "acquire")
         \/ t = "c" /\ place[t] = 3 /\ Now(t) = CountIf("z")
         \/ t = "d" /\ place[t] = 1 /\ Now(t) = WaitFor("y", 1, "acquire")
         \/ t = "d" /\ place[t] = 2 /\ Now(t) = LoadOf("x", "acquire")
         \/ t = "d" /\ place[t] = 3 /\ Now(t) = CountIf("z")
         \/ t = "main" /\ place[t] = 5 /\ Now(t) = Expect("z", {1, 2}, "seq_cst")
         \/ t = "main" /\ place[t] = 1 /\ Now(t) = [op |-> "join", thread |-> "a"]
         \/ t = "main" /\ place[t] = 2 /\ Now(t) = [op |-> "join", thread |-> "b"]
         \/ t = "main" /\ place[t] = 3 /\ Now(t) = [op |-> "join", thread |-> "c"]
         \/ t = "main" /\ place[t] = 4 /\ Now(t) = [op |-> "join", thread |-> "d"]
<1>1. Programs["p198"] = p198
  BY DEF Programs
<1>2. /\ p198["a"] = <<StoreOf("x", 1, "release")>>
      /\ p198["b"] = <<StoreOf("y", 1, "release")>>
      /\ p198["c"] = <<WaitFor("x", 1, "acquire"), LoadOf("y", "acquire"), CountIf("z")>>
      /\ p198["d"] = <<WaitFor("y", 1, "acquire"), LoadOf("x", "acquire"), CountIf("z")>>
      /\ p198["main"] = JoinAll \o <<Expect("z", {1, 2}, "seq_cst")>>
      /\ DOMAIN p198 = {"a", "b", "c", "d", "main"}
  BY DEF p198
<1>3. /\ t \in DOMAIN p198 => Text(program, t) = p198[t]
      /\ t \notin DOMAIN p198 => Text(program, t) = <<>>
  BY <1>1 DEF Text
<1>4. ASSUME t = "a"
      PROVE  \/ place[t] = 1 /\ Now(t) = StoreOf("x", 1, "release")
  BY <1>4, <1>2, <1>3, Place1
<1>5. ASSUME t = "b"
      PROVE  \/ place[t] = 1 /\ Now(t) = StoreOf("y", 1, "release")
  BY <1>5, <1>2, <1>3, Place1
<1>6. ASSUME t = "c"
      PROVE  \/ place[t] = 1 /\ Now(t) = WaitFor("x", 1, "acquire")
             \/ place[t] = 2 /\ Now(t) = LoadOf("y", "acquire")
             \/ place[t] = 3 /\ Now(t) = CountIf("z")
  BY <1>6, <1>2, <1>3, Place3
<1>7. ASSUME t = "d"
      PROVE  \/ place[t] = 1 /\ Now(t) = WaitFor("y", 1, "acquire")
             \/ place[t] = 2 /\ Now(t) = LoadOf("x", "acquire")
             \/ place[t] = 3 /\ Now(t) = CountIf("z")
  BY <1>7, <1>2, <1>3, Place3
<1>8. ASSUME t = "main"
      PROVE  \/ place[t] = 5 /\ Now(t) = Expect("z", {1, 2}, "seq_cst")
             \/ place[t] = 1 /\ Now(t) = [op |-> "join", thread |-> "a"]
             \/ place[t] = 2 /\ Now(t) = [op |-> "join", thread |-> "b"]
             \/ place[t] = 3 /\ Now(t) = [op |-> "join", thread |-> "c"]
             \/ place[t] = 4 /\ Now(t) = [op |-> "join", thread |-> "d"]
  BY <1>8, <1>2, <1>3, PlaceJoin
<1>9. ASSUME t \notin DOMAIN p198 PROVE FALSE
  BY <1>9, <1>3, Place0
<1> QED
  BY <1>2, <1>4, <1>5, <1>6, <1>7, <1>8, <1>9

\* p191 and p198 read no ordinary memory, and p191 asserts nothing.
Inv191 == program \in {"p191", "p198"} /\ place \in [ThreadNames -> Nat \ {0}]

\* No step changes the program, and the places stay places.
LEMMA StepTypes ==
  ASSUME NEW t \in ThreadNames, ThreadStep(t), place \in [ThreadNames -> Nat \ {0}]
  PROVE  program' = program /\ place' \in [ThreadNames -> Nat \ {0}]
<1>1. /\ program' = program
      /\ place' = [place EXCEPT ![t] = @ + 1] \/ place' = place \/ place' = [place EXCEPT ![t] = 1]
  BY DEF ThreadStep, LoadStep, StoreStep, ReplaceStep, CountStep, PlainStep, FenceStep, JoinStep,
     TakeStep,
         ItemStep, Advance
<1> QED
  BY <1>1

\* Every statement of p191 and p198 is good.
LEMMA Holds191 ==
  ASSUME Inv191
  PROVE  NoDataRace /\ AssertionsHold
<1>1. CASE program = "p191"
  <2>1. ASSUME NEW t \in ThreadNames, ~Ended(t) PROVE Good(t)
    <3>1. place[t] \in Nat \ {0}
      BY DEF Inv191
    <3>2. \/ \E x, o : Now(t) = LoadOf(x, o)
          \/ \E x, v, o : Now(t) = StoreOf(x, v, o)
          \/ \E x, v, o : Now(t) = WaitFor(x, v, o)
          \/ \E x : Now(t) = CountIf(x)
          \/ \E s : Now(t) = [op |-> "join", thread |-> s]
      BY <1>1, <2>1, <3>1, Text191
    <3> QED
      BY <3>2, GoodLoadOf, GoodStoreOf, GoodWaitFor, GoodCountIf, GoodJoin
  <2> QED
    BY <2>1, GoodAll
<1>2. CASE program = "p198"
  <2>1. ASSUME NEW t \in ThreadNames, ~Ended(t)
        PROVE  Now(t).op \notin {"get", "put", "item", "get_dependent"}
    <3>1. place[t] \in Nat \ {0}
      BY DEF Inv191
    <3>2. \/ \E x, o : Now(t) = LoadOf(x, o)
          \/ \E x, v, o : Now(t) = StoreOf(x, v, o)
          \/ \E x, v, o : Now(t) = WaitFor(x, v, o)
          \/ \E x : Now(t) = CountIf(x)
          \/ \E x, v, o : Now(t) = Expect(x, v, o)
          \/ \E s : Now(t) = [op |-> "join", thread |-> s]
      BY <1>2, <2>1, <3>1, Text198
    <3> QED
      BY <3>2 DEF LoadOf, StoreOf, WaitFor, CountIf, Expect
  <2> QED
    BY <1>2, <2>1 DEF NoDataRace, AssertionsHold, Doing
<1> QED
  BY <1>1, <1>2 DEF Inv191

-------------------------------------------------------------------------------
(* p169: the spinlock. *)

\* The text of p169: the three statements of the critical section, over and over.
LEMMA TakesOf ==
  ASSUME NEW t \in {"a", "b", "c"}
  PROVE  /\ Text("p169", t) = [i \in 1 .. Rounds * 3 |-> Critical[((i - 1) % 3) + 1]]
         /\ Len(Text("p169", t)) = Rounds * 3 /\ Rounds * 3 \in Nat /\ Rounds * 3 >= 3
<1>1. Programs["p169"] = p169
  BY DEF Programs
<1>2. t \in DOMAIN p169 /\ p169[t] = Times(Rounds, Critical)
  BY DEF p169
<1>3. Text("p169", t) = Times(Rounds, Critical)
  BY <1>1, <1>2 DEF Text
<1>4. Len(Critical) = 3
  BY DEF Critical
<1>5. Times(Rounds, Critical) = [i \in 1 .. Rounds * 3 |-> Critical[((i - 1) % 3) + 1]]
  BY <1>4 DEF Times
<1>6. Rounds * 3 \in Nat /\ Rounds * 3 >= 3
  BY MemoryOrdersAssumption DEF MemoryOrdersAssumption
<1> DEFINE F == [i \in 1 .. Rounds * 3 |-> Critical[((i - 1) % 3) + 1]]
<1>7. DOMAIN F = 1 .. Rounds * 3
  OBVIOUS
<1>8. Len(F) = Rounds * 3
  BY <1>6, <1>7
<1> QED
  BY <1>3, <1>5, <1>6, <1>8

\* Where a thread is in its critical section: outside, before cout, after it.
Spot(t) == (place[t] - 1) % 3

\* A thread goes through its three spots in a circle.
LEMMA SpotMoves ==
  ASSUME NEW n \in Nat \ {0}
  PROVE  /\ (n - 1) % 3 \in 0 .. 2 /\ ((n + 1) - 1) % 3 = IF (n - 1) % 3 = 2 THEN 0 ELSE ((n - 1) % 3) + 1
  OBVIOUS

\* Where a thread of p169 may be, and at which statement.
LEMMA Text169 ==
  ASSUME program = "p169", NEW t \in ThreadNames, place[t] \in Nat \ {0}, ~Ended(t)
  PROVE  /\ t \in {"a", "b", "c"}
         /\ \/ Spot(t) = 0 /\ Now(t) = Replace("_flag", 0, 1, "acquire")
            \/ Spot(t) = 1 /\ Now(t) = Put("cout", 1)
            \/ Spot(t) = 2 /\ Now(t) = StoreOf("_flag", 0, "release")
<1>1. t \in {"a", "b", "c"}
  <2>1. Programs["p169"] = p169 /\ DOMAIN p169 = {"a", "b", "c"}
    BY DEF Programs, p169
  <2>2. ASSUME t \notin {"a", "b", "c"} PROVE FALSE
    <3>1. Text(program, t) = <<>>
      BY <2>1, <2>2 DEF Text
    <3> QED
      BY <3>1, Place0
  <2> QED
    BY <2>2
<1>2. place[t] \in 1 .. Rounds * 3
  BY <1>1, TakesOf DEF Ended
<1>3. Now(t) = Critical[Spot(t) + 1]
  BY <1>1, <1>2, TakesOf DEF Now, Spot
<1>4. Spot(t) \in 0 .. 2
  BY SpotMoves DEF Spot
<1>5. /\ Critical[1] = Replace("_flag", 0, 1, "acquire")
      /\ Critical[2] = Put("cout", 1)
      /\ Critical[3] = StoreOf("_flag", 0, "release")
  BY DEF Critical
<1>6. Spot(t) = 0 \/ Spot(t) = 1 \/ Spot(t) = 2
  BY <1>4
<1> QED
  BY <1>1, <1>3, <1>5, <1>6

\* The locations of p169.
LEMMA Locations169 == {"_flag", "cout"} \subseteq LocationsOf("p169")
<1> DEFINE T == Text("p169", "a")
<1>1. /\ Critical[1] = Replace("_flag", 0, 1, "acquire")
      /\ Critical[2] = Put("cout", 1)
  BY DEF Critical
<1>2. 1 \in DOMAIN T /\ 2 \in DOMAIN T /\ T[1] = Critical[1] /\ T[2] = Critical[2]
  BY TakesOf
<1>3. /\ "at" \in DOMAIN T[1] /\ T[1].at = "_flag"
      /\ "at" \in DOMAIN T[2] /\ T[2].at = "cout"
  BY <1>1, <1>2 DEF Replace, Put
<1> QED
  BY <1>2, <1>3, AtIsLocation DEF ThreadNames

\* A thread inside its critical section holds the flag, alone, and has seen all of what it
\* guards; a flag that is free passes that on.
Inv169 == /\ Base("p169")
          /\ \A t \in {"a", "b", "c"} : Spot(t) # 0 => Top("_flag") = 1 /\ Seen("cout", t)
          /\ \A t, u \in {"a", "b", "c"} : Spot(t) # 0 /\ Spot(u) # 0 => t = u
          /\ Top("_flag") = 0 => Leads("_flag", "cout")

\* The invariant of p169 holds at the start.
LEMMA Init169 ==
  ASSUME OrdersInit, program = "p169"
  PROVE  Inv169
<1>1. {"_flag", "cout"} \subseteq LocationsOf("p169") /\ {"a", "b", "c"} \subseteq ThreadNames
  BY Locations169 DEF ThreadNames
<1>2. Base("p169") /\ \A t \in {"a", "b", "c"} : place[t] = 1
  BY <1>1, InitBase
<1>3. \A t \in {"a", "b", "c"} : Spot(t) = 0
  BY <1>2 DEF Spot
<1>4. Len(history["_flag"]) = 1 /\ Len(history["cout"]) = 1
  BY <1>1, InitBase DEF Size
<1>5. Leads("_flag", "cout")
  <2>1. history["_flag"] = <<[val |-> 0, view |-> Bottom(LocationsOf("p169"))]>>
    BY <1>1 DEF OrdersInit, MemoryInit
  <2>2. Newest("_flag").view = Bottom(LocationsOf("p169"))
    BY <2>1 DEF Newest
  <2> QED
    BY <1>1, <1>4, <2>2, BottomIs DEF Leads, Ordered
<1> QED
  BY <1>2, <1>3, <1>5 DEF Inv169

\* Every step of p169 keeps its invariant.
LEMMA Step169 ==
  ASSUME Inv169, NEW t \in ThreadNames, ThreadStep(t)
  PROVE  Inv169'
<1>1. Base("p169") /\ program = "p169" /\ place[t] \in Nat \ {0} /\ \A u \in {"a", "b", "c"} : place[u] \in Nat \ {0}
  BY DEF Inv169, Base, ThreadNames
<1>2. {"_flag", "cout"} \subseteq LocationsOf("p169") /\ {"a", "b", "c"} \subseteq ThreadNames
  BY Locations169 DEF ThreadNames
<1>3. /\ t \in {"a", "b", "c"}
      /\ \/ Spot(t) = 0 /\ Now(t) = Replace("_flag", 0, 1, "acquire")
         \/ Spot(t) = 1 /\ Now(t) = Put("cout", 1)
         \/ Spot(t) = 2 /\ Now(t) = StoreOf("_flag", 0, "release")
  BY <1>1, NotEnded, Text169
<1>4. Moves(t) => /\ Spot(t)' = IF Spot(t) = 2 THEN 0 ELSE Spot(t) + 1
                  /\ \A u \in {"a", "b", "c"} \ {t} : Spot(u)' = Spot(u)
  BY <1>1, <1>2, SpotMoves DEF Moves, Spot
<1>5. ASSUME Spot(t) = 0, Now(t) = Replace("_flag", 0, 1, "acquire") PROVE Inv169'
  <2>1. /\ Base("p169")' /\ Moves(t) /\ Writes(LocationsOf("p169"), t, "_flag", 1) /\ Top("_flag") = 0
    BY <1>1, <1>2, <1>5, ReplaceStepIs DEF Top
  <2>2. Top("_flag")' = 1
    BY <1>1, <1>2, <2>1, WritesOwn
  <2>3. Seen("cout", t)'
    <3>1. "acquire" \in Acquires
      BY DEF Acquires
    <3>2. Leads("_flag", "cout")
      BY <2>1 DEF Inv169
    <3> QED
      BY <1>1, <1>2, <1>5, <3>1, <3>2, ReplacePasses
  <2>4. \A u \in {"a", "b", "c"} : Spot(u) = 0
    BY <2>1 DEF Inv169
  <2>5. \A u \in {"a", "b", "c"} : Spot(u)' # 0 => u = t
    BY <1>4, <2>1, <2>4
  <2> QED
    BY <2>1, <2>2, <2>3, <2>5 DEF Inv169
<1>6. ASSUME Spot(t) = 1, Now(t) = Put("cout", 1) PROVE Inv169'
  <2>1. Base("p169")' /\ Moves(t) /\ Writes(LocationsOf("p169"), t, "cout", 1)
    BY <1>1, <1>2, <1>6, PutStep
  <2>2. Seen("cout", t)'
    BY <1>1, <1>2, <2>1, WritesOwn
  <2>3. Top("_flag")' = Top("_flag") /\ Top("_flag") = 1
    BY <1>1, <1>2, <1>3, <1>6, <2>1, WritesKeeps DEF Inv169
  <2>4. \A u \in {"a", "b", "c"} : Spot(u) # 0 => u = t
    BY <1>3, <1>6 DEF Inv169
  <2>5. \A u \in {"a", "b", "c"} : Spot(u)' # 0 => u = t
    BY <1>4, <2>1, <2>4
  <2> QED
    BY <2>1, <2>2, <2>3, <2>5 DEF Inv169
<1>7. ASSUME Spot(t) = 2, Now(t) = StoreOf("_flag", 0, "release") PROVE Inv169'
  <2>1. Base("p169")' /\ Moves(t) /\ Writes(LocationsOf("p169"), t, "_flag", 0)
    BY <1>1, <1>2, <1>7, StoreWrites
  <2>2. Leads("_flag", "cout")'
    <3>1. "release" \in Releases
      BY DEF Releases
    <3>2. Seen("cout", t)
      BY <1>3, <1>7 DEF Inv169
    <3> QED
      BY <1>1, <1>2, <1>7, <3>1, <3>2, ReleasePasses
  <2>3. \A u \in {"a", "b", "c"} : Spot(u) # 0 => u = t
    BY <1>3, <1>7 DEF Inv169
  <2>4. \A u \in {"a", "b", "c"} : Spot(u)' = 0
    BY <1>3, <1>4, <1>7, <2>1, <2>3
  <2> QED
    BY <2>1, <2>2, <2>4 DEF Inv169
<1> QED
  BY <1>3, <1>5, <1>6, <1>7

\* The invariant of p169 makes every statement that is next good.
LEMMA Holds169 ==
  ASSUME Inv169
  PROVE  NoDataRace /\ AssertionsHold
<1>1. ASSUME NEW t \in ThreadNames, ~Ended(t) PROVE Good(t)
  <2>1. place[t] \in Nat \ {0} /\ program = "p169"
    BY DEF Inv169, Base
  <2>2. /\ t \in {"a", "b", "c"}
        /\ \/ Spot(t) = 0 /\ Now(t) = Replace("_flag", 0, 1, "acquire")
           \/ Spot(t) = 1 /\ Now(t) = Put("cout", 1)
           \/ Spot(t) = 2 /\ Now(t) = StoreOf("_flag", 0, "release")
    BY <1>1, <2>1, Text169
  <2>3. CASE Now(t) = Replace("_flag", 0, 1, "acquire")
    BY <2>3, GoodReplace
  <2>4. CASE Spot(t) = 1 /\ Now(t) = Put("cout", 1)
    BY <2>2, <2>4, GoodPut DEF Inv169
  <2>5. CASE Now(t) = StoreOf("_flag", 0, "release")
    BY <2>5, GoodStoreOf
  <2> QED
    BY <2>2, <2>3, <2>4, <2>5
<1> QED
  BY <1>1, GoodAll

-------------------------------------------------------------------------------
(* p193: relaxed counters. *)

Wait193 == WaitFor("go", 1, "seq_cst")
Counting(x, values) == {LoadOf("x", "relaxed"), LoadOf("y", "relaxed")} \cup {Put(values, i) : i \in Nat}
                       \cup {StoreOf(x, i, "relaxed") : i \in Nat}

\* The text of a counting thread, round after round.
LEMMA IncrementIs ==
  ASSUME NEW x, NEW values
  PROVE  /\ Len(Increment(x, values)) \in Nat /\ Len(Increment(x, values)) >= 5
         /\ Increment(x, values)[1] = Wait193
         /\ \A i \in 2 .. Len(Increment(x, values)) : Increment(x, values)[i] \in Counting(x, values)
         /\ Increment(x, values)[2] = LoadOf("x", "relaxed")
         /\ Increment(x, values)[3] = LoadOf("y", "relaxed")
         /\ Increment(x, values)[4] = Put(values, 1) /\ Increment(x, values)[5] = StoreOf(x, 1, "relaxed")
         /\ DOMAIN Increment(x, values) = 1 .. Len(Increment(x, values))
<1> DEFINE R(j) == <<LoadOf("x", "relaxed"), LoadOf("y", "relaxed"), Put(values, j), StoreOf(x, j, "relaxed")>>
           n == Rounds * 4
           F == [k \in 1 .. n |-> R(((k - 1) \div 4) + 1)[((k - 1) % 4) + 1]]
           W == <<Wait193>>
           C == Counting(x, values)
           S == C \cup {Wait193}
<1>1. n \in Nat /\ n >= 4
  BY MemoryOrdersAssumption DEF MemoryOrdersAssumption
<1>2. Increment(x, values) = W \o F
  BY DEF Increment, Wait193
<1>3. ASSUME NEW j \in Nat
      PROVE  /\ R(j)[1] = LoadOf("x", "relaxed") /\ R(j)[2] = LoadOf("y", "relaxed")
             /\ R(j)[3] = Put(values, j) /\ R(j)[4] = StoreOf(x, j, "relaxed")
             /\ R(j)[1] \in C /\ R(j)[2] \in C /\ R(j)[3] \in C /\ R(j)[4] \in C
  BY <1>3 DEF Counting
<1> HIDE DEF C, R, n
<1>4. ASSUME NEW k \in 1 .. n PROVE F[k] \in C
  <2> DEFINE j == ((k - 1) \div 4) + 1
             m == ((k - 1) % 4) + 1
  <2>1. F[k] = R(j)[m]
    OBVIOUS
  <2>2. k \in Nat /\ k >= 1
    BY <1>1
  <2>3. j \in Nat
    BY <2>2
  <2>4. m = 1 \/ m = 2 \/ m = 3 \/ m = 4
    BY <2>2
  <2> HIDE DEF j, m
  <2> QED
    BY <2>1, <2>3, <2>4, <1>3
<1>5. F \in Seq(S) /\ Len(F) = n
  <2>1. DOMAIN F = 1 .. n
    OBVIOUS
  <2>2. F \in [1 .. n -> S]
    BY <1>4
  <2>3. Len(F) = n
    BY <1>1, <2>1
  <2> QED
    BY <1>1, <2>2, <2>3
<1>6. /\ F[1] = LoadOf("x", "relaxed") /\ F[2] = LoadOf("y", "relaxed")
      /\ F[3] = Put(values, 1) /\ F[4] = StoreOf(x, 1, "relaxed")
  <2>1. /\ F[1] = R(((1 - 1) \div 4) + 1)[((1 - 1) % 4) + 1]
        /\ F[2] = R(((2 - 1) \div 4) + 1)[((2 - 1) % 4) + 1]
        /\ F[3] = R(((3 - 1) \div 4) + 1)[((3 - 1) % 4) + 1]
        /\ F[4] = R(((4 - 1) \div 4) + 1)[((4 - 1) % 4) + 1]
    BY <1>1
  <2>2. /\ ((1 - 1) \div 4) + 1 = 1 /\ ((1 - 1) % 4) + 1 = 1
        /\ ((2 - 1) \div 4) + 1 = 1 /\ ((2 - 1) % 4) + 1 = 2
        /\ ((3 - 1) \div 4) + 1 = 1 /\ ((3 - 1) % 4) + 1 = 3
        /\ ((4 - 1) \div 4) + 1 = 1 /\ ((4 - 1) % 4) + 1 = 4
    OBVIOUS
  <2>3. F[1] = R(1)[1] /\ F[2] = R(1)[2] /\ F[3] = R(1)[3] /\ F[4] = R(1)[4]
    BY <2>1, <2>2
  <2> QED
    BY <2>3, <1>3
<1>7. W \in Seq(S) /\ Len(W) = 1 /\ W[1] = Wait193
  OBVIOUS
<1> HIDE DEF W, F, S
<1> DEFINE B == W \o F
<1>a. /\ B \in Seq(S) /\ Len(B) = Len(W) + Len(F)
      /\ \A i \in 1 .. Len(W) + Len(F) : B[i] = IF i <= Len(W) THEN W[i] ELSE F[i - Len(W)]
  BY <1>5, <1>7, ConcatProperties
<1>b. DOMAIN B = 1 .. Len(B)
  BY <1>a
<1>c. Increment(x, values) = B
  BY <1>2
<1> HIDE DEF B
<1>8. /\ Len(B) = 1 + n
      /\ \A i \in 1 .. 1 + n : B[i] = IF i <= 1 THEN W[i] ELSE F[i - 1]
  BY <1>a, <1>5, <1>7
<1>9. B[1] = Wait193 /\ B[2] = F[1] /\ B[3] = F[2] /\ B[4] = F[3] /\ B[5] = F[4]
  BY <1>1, <1>7, <1>8
<1>10. ASSUME NEW i \in 2 .. 1 + n PROVE B[i] \in C
  <2>1. i - 1 \in 1 .. n /\ B[i] = F[i - 1]
    BY <1>1, <1>8
  <2> QED
    BY <2>1, <1>4
<1> QED
  BY <1>1, <1>6, <1>8, <1>9, <1>10, <1>b, <1>c DEF C

\* The text of a thread that only reads the counters.
LEMMA ReadValsIs ==
  ASSUME NEW values
  PROVE  /\ Len(ReadVals(values)) \in Nat /\ Len(ReadVals(values)) >= 4
         /\ ReadVals(values)[1] = Wait193
         /\ \A i \in 2 .. Len(ReadVals(values)) :
               ReadVals(values)[i] \in {LoadOf("x", "relaxed"), LoadOf("y", "relaxed"), Put(values, 1)}
         /\ ReadVals(values)[4] = Put(values, 1)
         /\ DOMAIN ReadVals(values) = 1 .. Len(ReadVals(values))
<1> DEFINE R == <<LoadOf("x", "relaxed"), LoadOf("y", "relaxed"), Put(values, 1)>>
           n == Rounds * 3
           F == [k \in 1 .. n |-> R[((k - 1) % 3) + 1]]
           W == <<Wait193>>
           C == {LoadOf("x", "relaxed"), LoadOf("y", "relaxed"), Put(values, 1)}
           S == C \cup {Wait193}
<1>1. n \in Nat /\ n >= 3
  BY MemoryOrdersAssumption DEF MemoryOrdersAssumption
<1>2. ReadVals(values) = W \o F
  <2>1. Len(R) = 3
    OBVIOUS
  <2> HIDE DEF R
  <2>2. Times(Rounds, R) = F
    BY <2>1 DEF Times
  <2> QED
    BY <2>2 DEF ReadVals, Wait193, R
<1>3. /\ R[1] \in C /\ R[2] \in C /\ R[3] \in C /\ R[3] = Put(values, 1)
  OBVIOUS
<1> HIDE DEF C, R, n
<1>4. ASSUME NEW k \in 1 .. n PROVE F[k] \in C
  <2> DEFINE m == ((k - 1) % 3) + 1
  <2>1. F[k] = R[m]
    OBVIOUS
  <2>2. k \in Nat /\ k >= 1
    BY <1>1
  <2>4. m = 1 \/ m = 2 \/ m = 3
    BY <2>2
  <2> HIDE DEF m
  <2> QED
    BY <2>1, <2>4, <1>3
<1>5. F \in Seq(S) /\ Len(F) = n
  <2>1. DOMAIN F = 1 .. n
    OBVIOUS
  <2>2. F \in [1 .. n -> S]
    BY <1>4
  <2>3. Len(F) = n
    BY <1>1, <2>1
  <2> QED
    BY <1>1, <2>2, <2>3
<1>6. F[3] = Put(values, 1)
  <2>1. F[3] = R[((3 - 1) % 3) + 1]
    BY <1>1
  <2>2. ((3 - 1) % 3) + 1 = 3
    OBVIOUS
  <2> QED
    BY <2>1, <2>2, <1>3
<1>7. W \in Seq(S) /\ Len(W) = 1 /\ W[1] = Wait193
  OBVIOUS
<1> HIDE DEF W, F, S
<1> DEFINE B == W \o F
<1>a. /\ B \in Seq(S) /\ Len(B) = Len(W) + Len(F)
      /\ \A i \in 1 .. Len(W) + Len(F) : B[i] = IF i <= Len(W) THEN W[i] ELSE F[i - Len(W)]
  BY <1>5, <1>7, ConcatProperties
<1>b. DOMAIN B = 1 .. Len(B)
  BY <1>a
<1>c. ReadVals(values) = B
  BY <1>2
<1> HIDE DEF B
<1>8. /\ Len(B) = 1 + n
      /\ \A i \in 1 .. 1 + n : B[i] = IF i <= 1 THEN W[i] ELSE F[i - 1]
  BY <1>a, <1>5, <1>7
<1>9. B[1] = Wait193 /\ B[4] = F[3]
  BY <1>1, <1>7, <1>8
<1>10. ASSUME NEW i \in 2 .. 1 + n PROVE B[i] \in C
  <2>1. i - 1 \in 1 .. n /\ B[i] = F[i - 1]
    BY <1>1, <1>8
  <2> QED
    BY <2>1, <1>4
<1> QED
  BY <1>1, <1>6, <1>8, <1>9, <1>10, <1>b, <1>c DEF C
\* The counters of the threads, and where main joins them.
Mine == [a |-> "values1", b |-> "values2", c |-> "values4"]
JoinPlace == [a |-> 2, b |-> 3, c |-> 4]

\* The texts of p193.
LEMMA Texts193 ==
  /\ Text("p193", "a") = Increment("x", "values1")
  /\ Text("p193", "b") = Increment("y", "values2")
  /\ Text("p193", "c") = ReadVals("values4")
  /\ Text("p193", "d") = <<>>
  /\ Text("p193", "main") = <<StoreOf("go", 1, "seq_cst")>> \o JoinAll
                             \o <<Get("values1"), Get("values2"), Get("values4")>>
<1>1. Programs["p193"] = p193
  BY DEF Programs
<1>2. /\ DOMAIN p193 = {"a", "b", "c", "main"}
      /\ p193["a"] = Increment("x", "values1") /\ p193["b"] = Increment("y", "values2")
      /\ p193["c"] = ReadVals("values4")
      /\ p193["main"] = <<StoreOf("go", 1, "seq_cst")>> \o JoinAll
                         \o <<Get("values1"), Get("values2"), Get("values4")>>
  BY DEF p193
<1> QED
  BY <1>1, <1>2 DEF Text

\* Where main is in its text, which stores, joins and prints.
LEMMA Place193 ==
  ASSUME program = "p193", NEW t, t = "main", place[t] \in Nat \ {0}, ~Ended(t)
  PROVE  \/ place[t] = 1 /\ Now(t) = StoreOf("go", 1, "seq_cst")
         \/ place[t] = 2 /\ Now(t) = [op |-> "join", thread |-> "a"]
         \/ place[t] = 3 /\ Now(t) = [op |-> "join", thread |-> "b"]
         \/ place[t] = 4 /\ Now(t) = [op |-> "join", thread |-> "c"]
         \/ place[t] = 5 /\ Now(t) = [op |-> "join", thread |-> "d"]
         \/ place[t] = 6 /\ Now(t) = Get("values1")
         \/ place[t] = 7 /\ Now(t) = Get("values2")
         \/ place[t] = 8 /\ Now(t) = Get("values4")
<1> DEFINE ja == [op |-> "join", thread |-> "a"]
           jb == [op |-> "join", thread |-> "b"]
           jc == [op |-> "join", thread |-> "c"]
           jd == [op |-> "join", thread |-> "d"]
           s == StoreOf("go", 1, "seq_cst")
           g1 == Get("values1")
           g2 == Get("values2")
           g3 == Get("values4")
<1>0. Text(program, t) = <<s>> \o JoinAll \o <<g1, g2, g3>>
  BY Texts193
<1>1. JoinAll = <<ja, jb, jc, jd>>
  BY DEF JoinAll
<1> HIDE DEF ja, jb, jc, jd, s, g1, g2, g3
<1> DEFINE E == {ja, jb, jc, jd, s, g1, g2, g3}
           H == <<s>>
           J == <<ja, jb, jc, jd>>
           G == <<g1, g2, g3>>
           K == H \o J
<1>2. /\ H \in Seq(E) /\ Len(H) = 1 /\ H[1] = s
      /\ J \in Seq(E) /\ Len(J) = 4 /\ J[1] = ja /\ J[2] = jb /\ J[3] = jc /\ J[4] = jd
      /\ G \in Seq(E) /\ Len(G) = 3 /\ G[1] = g1 /\ G[2] = g2 /\ G[3] = g3
  OBVIOUS
<1>3. Text(program, t) = K \o G
  BY <1>0, <1>1
<1> HIDE DEF H, J, G, E
<1>4. /\ K \in Seq(E) /\ Len(K) = Len(H) + Len(J)
      /\ \A i \in 1 .. Len(H) + Len(J) : K[i] = IF i <= Len(H) THEN H[i] ELSE J[i - Len(H)]
  BY <1>2, ConcatProperties
<1> HIDE DEF K
<1>5. Len(K) = 5 /\ K[1] = s /\ K[2] = ja /\ K[3] = jb /\ K[4] = jc /\ K[5] = jd
  BY <1>2, <1>4
<1>c. K \in Seq(E) /\ G \in Seq(E)
  BY <1>2, <1>4
<1>d. Len(G) = 3
  BY <1>2
<1> DEFINE T == K \o G
<1>6. /\ T \in Seq(E) /\ Len(T) = Len(K) + Len(G)
      /\ \A i \in 1 .. Len(K) + Len(G) : T[i] = IF i <= Len(K) THEN K[i] ELSE G[i - Len(K)]
  BY <1>c, ConcatProperties
<1>b. Text(program, t) = T
  BY <1>3
<1> HIDE DEF T
<1>7. /\ Len(T) = 8 /\ T[1] = s /\ T[2] = ja /\ T[3] = jb /\ T[4] = jc /\ T[5] = jd
      /\ T[6] = g1 /\ T[7] = g2 /\ T[8] = g3
  BY <1>2, <1>5, <1>6
<1>8. place[t] \in 1 .. 8
  <2>1. ~(place[t] > 8)
    BY <1>b, <1>7 DEF Ended
  <2> QED
    BY <2>1
<1>9. Now(t) = T[place[t]]
  BY <1>b DEF Now
<1>10. \/ place[t] = 1 /\ Now(t) = s
       \/ place[t] = 2 /\ Now(t) = ja
       \/ place[t] = 3 /\ Now(t) = jb
       \/ place[t] = 4 /\ Now(t) = jc
       \/ place[t] = 5 /\ Now(t) = jd
       \/ place[t] = 6 /\ Now(t) = g1
       \/ place[t] = 7 /\ Now(t) = g2
       \/ place[t] = 8 /\ Now(t) = g3
  BY <1>7, <1>8, <1>9
<1> QED
  BY <1>10 DEF ja, jb, jc, jd, s, g1, g2, g3

\* Where a thread of p193 may be, and at which statement.
LEMMA Text193 ==
  ASSUME program = "p193", NEW t \in ThreadNames, place[t] \in Nat \ {0}, ~Ended(t)
  PROVE  \/ /\ t \in {"a", "b", "c"}
            /\ Now(t) = Wait193 \/ \E x \in {"x", "y"} : Now(t) \in Counting(x, Mine[t])
         \/ /\ t = "main"
            /\ \/ place[t] = 1 /\ Now(t) = StoreOf("go", 1, "seq_cst")
               \/ place[t] = 2 /\ Now(t) = [op |-> "join", thread |-> "a"]
               \/ place[t] = 3 /\ Now(t) = [op |-> "join", thread |-> "b"]
               \/ place[t] = 4 /\ Now(t) = [op |-> "join", thread |-> "c"]
               \/ place[t] = 5 /\ Now(t) = [op |-> "join", thread |-> "d"]
               \/ place[t] = 6 /\ Now(t) = Get("values1")
               \/ place[t] = 7 /\ Now(t) = Get("values2")
               \/ place[t] = 8 /\ Now(t) = Get("values4")
<1>1. ASSUME t = "main"
      PROVE  \/ place[t] = 1 /\ Now(t) = StoreOf("go", 1, "seq_cst")
             \/ place[t] = 2 /\ Now(t) = [op |-> "join", thread |-> "a"]
             \/ place[t] = 3 /\ Now(t) = [op |-> "join", thread |-> "b"]
             \/ place[t] = 4 /\ Now(t) = [op |-> "join", thread |-> "c"]
             \/ place[t] = 5 /\ Now(t) = [op |-> "join", thread |-> "d"]
             \/ place[t] = 6 /\ Now(t) = Get("values1")
             \/ place[t] = 7 /\ Now(t) = Get("values2")
             \/ place[t] = 8 /\ Now(t) = Get("values4")
  BY <1>1, Place193
<1>2. ASSUME t = "d" PROVE FALSE
  BY <1>2, Texts193, Place0
<1>3. ASSUME t \in {"a", "b", "c"}
      PROVE  Now(t) = Wait193 \/ \E x \in {"x", "y"} : Now(t) \in Counting(x, Mine[t])
  <2> DEFINE T == Text(program, t)
  <2>1. /\ Len(T) \in Nat /\ T[1] = Wait193
        /\ \E x \in {"x", "y"} : \A i \in 2 .. Len(T) : T[i] \in Counting(x, Mine[t])
    <3>1. CASE t = "a"
      BY <3>1, Texts193, IncrementIs DEF Mine
    <3>2. CASE t = "b"
      BY <3>2, Texts193, IncrementIs DEF Mine
    <3>3. CASE t = "c"
      <4>1. T = ReadVals("values4") /\ Mine[t] = "values4"
        BY <3>3, Texts193 DEF Mine
      <4>2. {LoadOf("x", "relaxed"), LoadOf("y", "relaxed"), Put("values4", 1)} \subseteq Counting("x", "values4")
        BY DEF Counting
      <4> HIDE DEF T
      <4> QED
        BY <4>1, <4>2, ReadValsIs
    <3> QED
      BY <1>3, <3>1, <3>2, <3>3
  <2>2. place[t] \in 1 .. Len(T)
    BY <2>1 DEF Ended
  <2>3. Now(t) = T[place[t]]
    BY DEF Now
  <2> HIDE DEF T
  <2>4. place[t] = 1 \/ place[t] \in 2 .. Len(T)
    BY <2>1, <2>2
  <2> QED
    BY <2>1, <2>3, <2>4
<1> QED
  BY <1>1, <1>2, <1>3 DEF ThreadNames

\* The locations of p193.
LEMMA Locations193 == {"go", "x", "y", "values1", "values2", "values4"} \subseteq LocationsOf("p193")
<1> DEFINE A == Text("p193", "a")
           B == Text("p193", "b")
           C == Text("p193", "c")
<1>1. /\ 1 \in DOMAIN A /\ A[1] = Wait193
      /\ 2 \in DOMAIN A /\ A[2] = LoadOf("x", "relaxed")
      /\ 3 \in DOMAIN A /\ A[3] = LoadOf("y", "relaxed")
      /\ 4 \in DOMAIN A /\ A[4] = Put("values1", 1)
  <2>1. A = Increment("x", "values1")
    BY Texts193
  <2> HIDE DEF A
  <2> QED
    BY <2>1, IncrementIs
<1>2. 4 \in DOMAIN B /\ B[4] = Put("values2", 1)
  <2>1. B = Increment("y", "values2")
    BY Texts193
  <2> HIDE DEF B
  <2> QED
    BY <2>1, IncrementIs
<1>3. 4 \in DOMAIN C /\ C[4] = Put("values4", 1)
  <2>1. C = ReadVals("values4")
    BY Texts193
  <2> HIDE DEF C
  <2> QED
    BY <2>1, ReadValsIs
<1>4. /\ "at" \in DOMAIN Wait193 /\ Wait193.at = "go"
      /\ "at" \in DOMAIN LoadOf("x", "relaxed") /\ LoadOf("x", "relaxed").at = "x"
      /\ "at" \in DOMAIN LoadOf("y", "relaxed") /\ LoadOf("y", "relaxed").at = "y"
      /\ \A v : "at" \in DOMAIN Put(v, 1) /\ Put(v, 1).at = v
  BY DEF Wait193, WaitFor, LoadOf, Put
<1>5. {"a", "b", "c"} \subseteq ThreadNames
  BY DEF ThreadNames
<1>6. {"go", "x", "y", "values1"} \subseteq LocationsOf("p193")
  BY <1>1, <1>4, <1>5, AtIsLocation
<1>7. {"values2", "values4"} \subseteq LocationsOf("p193")
  BY <1>2, <1>3, <1>4, <1>5, AtIsLocation
<1> QED
  BY <1>6, <1>7

\* A thread has seen the values it wrote, and main, once it joined that thread, too.
Inv193 == /\ Base("p193")
          /\ \A t \in {"a", "b", "c"} :
                /\ Seen(Mine[t], t)
                /\ place["main"] > JoinPlace[t] => Ended(t) /\ Seen(Mine[t], "main")

\* The invariant of p193 holds at the start.
LEMMA Init193 ==
  ASSUME OrdersInit, program = "p193"
  PROVE  Inv193
<1>1. /\ {"values1", "values2", "values4"} \subseteq LocationsOf("p193")
      /\ {"a", "b", "c", "main"} \subseteq ThreadNames
  BY Locations193 DEF ThreadNames
<1>2. Base("p193") /\ place["main"] = 1
  BY <1>1, InitBase
<1>3. ASSUME NEW t \in {"a", "b", "c"} PROVE Seen(Mine[t], t) /\ ~(place["main"] > JoinPlace[t])
  <2>1. Mine[t] \in LocationsOf("p193") /\ t \in ThreadNames /\ JoinPlace[t] \in {2, 3, 4}
    BY <1>1 DEF Mine, JoinPlace
  <2> QED
    BY <1>2, <2>1, InitBase
<1> QED
  BY <1>2, <1>3 DEF Inv193

\* The invariant of p193 makes every statement that is next good.
LEMMA Holds193 ==
  ASSUME Inv193
  PROVE  NoDataRace /\ AssertionsHold
<1>1. ASSUME NEW t \in ThreadNames, ~Ended(t) PROVE Good(t)
  <2>1. place[t] \in Nat \ {0} /\ program = "p193"
    BY DEF Inv193, Base
  <2>2. CASE Now(t) = Wait193
    BY <2>2, GoodWaitFor DEF Wait193
  <2>3. ASSUME t \in {"a", "b", "c"}, NEW x \in {"x", "y"}, Now(t) \in Counting(x, Mine[t]) PROVE Good(t)
    <3>1. \/ Now(t) = LoadOf("x", "relaxed") \/ Now(t) = LoadOf("y", "relaxed")
          \/ \E i \in Nat : Now(t) = Put(Mine[t], i)
          \/ \E i \in Nat : Now(t) = StoreOf(x, i, "relaxed")
      BY <2>3 DEF Counting
    <3>2. Seen(Mine[t], t)
      BY <2>3 DEF Inv193
    <3> QED
      BY <3>1, <3>2, GoodLoadOf, GoodPut, GoodStoreOf
  <2>4. CASE Now(t) = StoreOf("go", 1, "seq_cst")
    BY <2>4, GoodStoreOf
  <2>5. CASE \E s : Now(t) = [op |-> "join", thread |-> s]
    BY <2>5, GoodJoin
  <2>6. ASSUME t = "main", NEW s \in {"a", "b", "c"}, place[t] > JoinPlace[s], Now(t) = Get(Mine[s]) PROVE Good(t)
    BY <2>6, GoodGet DEF Inv193
  <2>7. /\ Mine["a"] = "values1" /\ Mine["b"] = "values2" /\ Mine["c"] = "values4"
        /\ JoinPlace["a"] = 2 /\ JoinPlace["b"] = 3 /\ JoinPlace["c"] = 4
    BY DEF Mine, JoinPlace
  <2>8. CASE t = "main" /\ place[t] = 6 /\ Now(t) = Get("values1")
    BY <2>6, <2>7, <2>8
  <2>9. CASE t = "main" /\ place[t] = 7 /\ Now(t) = Get("values2")
    BY <2>6, <2>7, <2>9
  <2>10. CASE t = "main" /\ place[t] = 8 /\ Now(t) = Get("values4")
    BY <2>6, <2>7, <2>10
  <2> QED
    BY <1>1, <2>1, <2>2, <2>3, <2>4, <2>5, <2>8, <2>9, <2>10, Text193
<1> QED
  BY <1>1, GoodAll

\* A thread that did not move has ended if it had.
LEMMA SameEnd ==
  ASSUME NEW u, place'[u] = place[u], program' = program
  PROVE  Ended(u)' <=> Ended(u)
  BY DEF Ended

\* What every step of p193 starts from.
LEMMA Basic193 ==
  ASSUME Inv193, NEW t \in ThreadNames, ThreadStep(t)
  PROVE  /\ Base("p193") /\ program = "p193" /\ place[t] \in Nat \ {0} /\ place["main"] \in Nat \ {0} /\ ~Ended(t)
         /\ \A u \in {"a", "b", "c"} : /\ u \in ThreadNames /\ u # "main" /\ JoinPlace[u] \in Nat
                                       /\ Mine[u] \in LocationsOf("p193") /\ Mine[u] \notin {"go", "x", "y"}
         /\ \A u, w \in {"a", "b", "c"} : u # w => Mine[u] # Mine[w]
         /\ "main" \in ThreadNames
<1>1. ~Ended(t)
  BY NotEnded
<1>2. {"a", "b", "c", "main"} \subseteq ThreadNames
  BY DEF ThreadNames
<1>3. /\ Mine["a"] = "values1" /\ Mine["b"] = "values2" /\ Mine["c"] = "values4"
      /\ JoinPlace["a"] = 2 /\ JoinPlace["b"] = 3 /\ JoinPlace["c"] = 4
  BY DEF Mine, JoinPlace
<1>4. {"values1", "values2", "values4"} \subseteq LocationsOf("p193")
  BY Locations193
<1> QED
  BY <1>1, <1>2, <1>3, <1>4 DEF Inv193, Base

\* A step of a counting thread: main has not joined it yet.
LEMMA Carry193 ==
  ASSUME Inv193, NEW t \in {"a", "b", "c"}, ThreadStep(t), Base("p193")', Moves(t),
         \A u \in {"a", "b", "c"} : Seen(Mine[u], u)',
         \A u \in {"a", "b", "c"} : u # t /\ Seen(Mine[u], "main") => Seen(Mine[u], "main")'
  PROVE  Inv193'
<1>1. t \in ThreadNames
  BY DEF ThreadNames
<1>2. /\ ~Ended(t) /\ program = "p193" /\ \A u \in {"a", "b", "c"} : u \in ThreadNames /\ u # "main"
      /\ "main" \in ThreadNames
  BY <1>1, Basic193
<1>3. program' = program
  BY <1>2 DEF Base
<1>4. place'["main"] = place["main"] /\ \A u \in {"a", "b", "c"} \ {t} : place'[u] = place[u]
  BY <1>2 DEF Moves
<1>5. ~(place["main"] > JoinPlace[t])
  BY <1>2 DEF Inv193
<1>6. ASSUME NEW u \in {"a", "b", "c"}, place'["main"] > JoinPlace[u] PROVE Ended(u)' /\ Seen(Mine[u], "main")'
  <2>1. place["main"] > JoinPlace[u] /\ u # t
    BY <1>4, <1>5, <1>6
  <2>2. Ended(u) /\ Seen(Mine[u], "main")
    BY <2>1 DEF Inv193
  <2> QED
    BY <1>3, <1>4, <2>1, <2>2, SameEnd
<1> QED
  BY <1>6 DEF Inv193

\* A step of main: a join passes on the counter of the thread it waited for.
LEMMA CarryMain193 ==
  ASSUME Inv193, ThreadStep("main"), Base("p193")', Moves("main"),
         \A u \in {"a", "b", "c"} : Seen(Mine[u], u)',
         \A u \in {"a", "b", "c"} : Seen(Mine[u], "main") => Seen(Mine[u], "main")',
         \A u \in {"a", "b", "c"} : place["main"] = JoinPlace[u] => Ended(u) /\ Seen(Mine[u], "main")'
  PROVE  Inv193'
<1>1. "main" \in ThreadNames
  BY DEF ThreadNames
<1>2. /\ program = "p193" /\ place["main"] \in Nat
      /\ \A u \in {"a", "b", "c"} : u \in ThreadNames /\ u # "main" /\ JoinPlace[u] \in Nat
  BY <1>1, Basic193
<1>3. program' = program
  BY <1>2 DEF Base
<1>4. place'["main"] = place["main"] + 1 /\ \A u \in {"a", "b", "c"} : place'[u] = place[u]
  BY <1>2 DEF Moves
<1>6. ASSUME NEW u \in {"a", "b", "c"}, place'["main"] > JoinPlace[u] PROVE Ended(u)' /\ Seen(Mine[u], "main")'
  <2>1. place["main"] > JoinPlace[u] \/ place["main"] = JoinPlace[u]
    BY <1>2, <1>4, <1>6
  <2>2. Ended(u) /\ Seen(Mine[u], "main")'
    BY <2>1 DEF Inv193
  <2> QED
    BY <1>3, <1>4, <2>2, SameEnd
<1> QED
  BY <1>6 DEF Inv193

\* Every step of p193 keeps its invariant.
LEMMA Step193 ==
  ASSUME Inv193, NEW t \in ThreadNames, ThreadStep(t)
  PROVE  Inv193'
<1>1. /\ Base("p193") /\ program = "p193" /\ place[t] \in Nat \ {0} /\ ~Ended(t)
      /\ \A u \in {"a", "b", "c"} : /\ u \in ThreadNames /\ u # "main" /\ JoinPlace[u] \in Nat
                                    /\ Mine[u] \in LocationsOf("p193") /\ Mine[u] \notin {"go", "x", "y"}
      /\ \A u, w \in {"a", "b", "c"} : u # w => Mine[u] # Mine[w]
      /\ "main" \in ThreadNames
  BY Basic193
<1>2. "go" \in LocationsOf("p193") /\ "x" \in LocationsOf("p193") /\ "y" \in LocationsOf("p193")
  BY Locations193
<1>3. \A u \in {"a", "b", "c"} : Seen(Mine[u], u)
  BY DEF Inv193
<1>4. ASSUME Base("p193")', Moves(t), Quiet(LocationsOf("p193"), t)
      PROVE  /\ \A u \in {"a", "b", "c"} : Seen(Mine[u], u)'
             /\ \A u \in {"a", "b", "c"} : Seen(Mine[u], "main") => Seen(Mine[u], "main")'
  BY <1>1, <1>3, <1>4, QuietSeen
<1>5. ASSUME Base("p193")', NEW z \in {"go", "x", "y"}, NEW v, Writes(LocationsOf("p193"), t, z, v)
      PROVE  /\ \A u \in {"a", "b", "c"} : Seen(Mine[u], u)'
             /\ \A u \in {"a", "b", "c"} : Seen(Mine[u], "main") => Seen(Mine[u], "main")'
  <2>1. z \in LocationsOf("p193")
    BY <1>2
  <2>2. \A u \in {"a", "b", "c"} : Mine[u] \in LocationsOf("p193") \ {z}
    BY <1>1
  <2> QED
    BY <1>1, <1>3, <1>5, <2>1, <2>2, WritesSeen
<1>6. ASSUME t \in {"a", "b", "c"}, Base("p193")', Moves(t), Quiet(LocationsOf("p193"), t) PROVE Inv193'
  BY <1>4, <1>6, Carry193
<1>7. ASSUME t = "main", Base("p193")', Moves(t), Quiet(LocationsOf("p193"), t),
             \A u \in {"a", "b", "c"} : place["main"] = JoinPlace[u] => Ended(u) /\ Seen(Mine[u], "main")'
      PROVE  Inv193'
  BY <1>4, <1>7, CarryMain193
<1>8. CASE t \in {"a", "b", "c"} /\ Now(t) = Wait193
  <2>1. Base("p193")' /\ Moves(t) /\ Quiet(LocationsOf("p193"), t)
    BY <1>1, <1>2, <1>8, WaitForQuiet DEF Wait193
  <2> QED
    BY <1>6, <1>8, <2>1
<1>9. ASSUME t \in {"a", "b", "c"}, NEW z \in {"x", "y"}, Now(t) \in Counting(z, Mine[t]) PROVE Inv193'
  <2>1. \/ Now(t) = LoadOf("x", "relaxed") \/ Now(t) = LoadOf("y", "relaxed")
        \/ \E i \in Nat : Now(t) = Put(Mine[t], i)
        \/ \E i \in Nat : Now(t) = StoreOf(z, i, "relaxed")
    BY <1>9 DEF Counting
  <2>2. ASSUME NEW w \in {"x", "y"}, Now(t) = LoadOf(w, "relaxed") PROVE Inv193'
    <3>1. w \in LocationsOf("p193")
      BY <1>2
    <3>2. Base("p193")' /\ Moves(t) /\ Quiet(LocationsOf("p193"), t)
      BY <1>1, <2>2, <3>1, LoadOfQuiet
    <3> QED
      BY <1>6, <1>9, <3>2
  <2>3. ASSUME NEW i \in Nat, Now(t) = Put(Mine[t], i) PROVE Inv193'
    <3>1. Mine[t] \in LocationsOf("p193") /\ i \in Int
      BY <1>1, <1>9
    <3>2. Base("p193")' /\ Moves(t) /\ Writes(LocationsOf("p193"), t, Mine[t], i)
      BY <1>1, <2>3, <3>1, PutStep
    <3>3. Seen(Mine[t], t)'
      BY <1>1, <3>1, <3>2, WritesOwn
    <3>4. ASSUME NEW u \in {"a", "b", "c"}, u # t
          PROVE  Seen(Mine[u], u)' /\ (Seen(Mine[u], "main") => Seen(Mine[u], "main")')
      <4>1. Mine[u] \in LocationsOf("p193") \ {Mine[t]} /\ u \in ThreadNames /\ Seen(Mine[u], u)
        BY <1>1, <1>3, <1>9, <3>4
      <4> QED
        BY <1>1, <3>1, <3>2, <4>1, WritesSeen
    <3>5. \A u \in {"a", "b", "c"} : Seen(Mine[u], u)'
      BY <3>3, <3>4
    <3> QED
      BY <1>9, <3>2, <3>4, <3>5, Carry193
  <2>4. ASSUME NEW i \in Nat, Now(t) = StoreOf(z, i, "relaxed") PROVE Inv193'
    <3>1. z \in LocationsOf("p193") /\ i \in Int /\ z \in {"go", "x", "y"}
      BY <1>2
    <3>2. Base("p193")' /\ Moves(t) /\ Writes(LocationsOf("p193"), t, z, i)
      BY <1>1, <2>4, <3>1, StoreWrites
    <3> QED
      BY <1>5, <1>9, <3>1, <3>2, Carry193
  <2> QED
    BY <2>1, <2>2, <2>3, <2>4
<1>10. CASE t = "main" /\ place[t] = 1 /\ Now(t) = StoreOf("go", 1, "seq_cst")
  <2>1. Base("p193")' /\ Moves(t) /\ Writes(LocationsOf("p193"), t, "go", 1)
    BY <1>1, <1>2, <1>10, StoreWrites
  <2>2. \A u \in {"a", "b", "c"} : place["main"] # JoinPlace[u]
    BY <1>10 DEF JoinPlace
  <2> QED
    BY <1>5, <1>10, <2>1, <2>2, CarryMain193
<1>11. ASSUME t = "main", NEW s \in ThreadNames, Now(t) = [op |-> "join", thread |-> s],
              \A u \in {"a", "b", "c"} : place["main"] = JoinPlace[u] => u = s
       PROVE  Inv193'
  <2>1. /\ Base("p193")' /\ Moves(t) /\ Quiet(LocationsOf("p193"), t) /\ Ended(s)
        /\ \A x \in LocationsOf("p193") : Seen(x, s) => Seen(x, t)'
    BY <1>1, <1>11, JoinSees
  <2>2. ASSUME NEW u \in {"a", "b", "c"}, place["main"] = JoinPlace[u] PROVE Ended(u) /\ Seen(Mine[u], "main")'
    <3>1. u = s
      BY <1>11, <2>2
    <3>2. Mine[u] \in LocationsOf("p193") /\ Seen(Mine[u], u)
      BY <1>1, <1>3
    <3>3. Seen(Mine[u], t)'
      BY <2>1, <3>1, <3>2
    <3> QED
      BY <1>11, <2>1, <3>1, <3>3
  <2> QED
    BY <1>7, <1>11, <2>1, <2>2
<1>12. ASSUME t = "main", NEW z \in {"values1", "values2", "values4"}, Now(t) = Get(z), place[t] >= 6 PROVE Inv193'
  <2>0. z \in LocationsOf("p193")
    BY Locations193
  <2>1. Base("p193")' /\ Moves(t) /\ UNCHANGED memory
    BY <1>1, <1>12, <2>0, GetStep
  <2>2. Quiet(LocationsOf("p193"), t)
    BY <1>1, <2>1, GetQuiet
  <2>3. \A u \in {"a", "b", "c"} : place["main"] # JoinPlace[u]
    BY <1>12 DEF JoinPlace
  <2> QED
    BY <1>7, <1>12, <2>1, <2>2, <2>3
<1>13. /\ JoinPlace["a"] = 2 /\ JoinPlace["b"] = 3 /\ JoinPlace["c"] = 4
       /\ "a" \in ThreadNames /\ "b" \in ThreadNames /\ "c" \in ThreadNames /\ "d" \in ThreadNames
  BY DEF JoinPlace, ThreadNames
<1>14. CASE t = "main" /\ place[t] = 2 /\ Now(t) = [op |-> "join", thread |-> "a"]
  BY <1>11, <1>13, <1>14
<1>15. CASE t = "main" /\ place[t] = 3 /\ Now(t) = [op |-> "join", thread |-> "b"]
  BY <1>11, <1>13, <1>15
<1>16. CASE t = "main" /\ place[t] = 4 /\ Now(t) = [op |-> "join", thread |-> "c"]
  BY <1>11, <1>13, <1>16
<1>17. CASE t = "main" /\ place[t] = 5 /\ Now(t) = [op |-> "join", thread |-> "d"]
  BY <1>11, <1>13, <1>17
<1>18. CASE t = "main" /\ place[t] = 6 /\ Now(t) = Get("values1")
  BY <1>12, <1>18
<1>19. CASE t = "main" /\ place[t] = 7 /\ Now(t) = Get("values2")
  BY <1>12, <1>19
<1>20. CASE t = "main" /\ place[t] = 8 /\ Now(t) = Get("values4")
  BY <1>12, <1>20
<1>21. /\ t \in {"a", "b", "c"}
       /\ Now(t) = Wait193 \/ \E z \in {"x", "y"} : Now(t) \in Counting(z, Mine[t])
       => Inv193'
  BY <1>8, <1>9
<1> QED
  BY <1>1, <1>10, <1>14, <1>15, <1>16, <1>17, <1>18, <1>19, <1>20, <1>21, Text193

-------------------------------------------------------------------------------
(* p200: a release and an acquire. *)

\* Where a thread of p200 may be, and at which statement.
LEMMA Text200 ==
  ASSUME program = "p200", NEW t \in ThreadNames, place[t] \in Nat \ {0}, ~Ended(t)
  PROVE  \/ t = "a" /\ place[t] = 1 /\ Now(t) = StoreOf("x", 1, "relaxed")
         \/ t = "a" /\ place[t] = 2 /\ Now(t) = StoreOf("y", 1, "release")
         \/ t = "b" /\ place[t] = 1 /\ Now(t) = WaitFor("y", 1, "acquire")
         \/ t = "b" /\ place[t] = 2 /\ Now(t) = LoadOf("x", "relaxed")
         \/ t = "b" /\ place[t] = 3 /\ Now(t) = CountIf("z")
         \/ t = "main" /\ place[t] = 5 /\ Now(t) = Expect("z", {1}, "seq_cst")
         \/ t = "main" /\ place[t] = 1 /\ Now(t) = [op |-> "join", thread |-> "a"]
         \/ t = "main" /\ place[t] = 2 /\ Now(t) = [op |-> "join", thread |-> "b"]
         \/ t = "main" /\ place[t] = 3 /\ Now(t) = [op |-> "join", thread |-> "c"]
         \/ t = "main" /\ place[t] = 4 /\ Now(t) = [op |-> "join", thread |-> "d"]
<1>1. Programs["p200"] = p200
  BY DEF Programs
<1>2. /\ p200["a"] = <<StoreOf("x", 1, "relaxed"), StoreOf("y", 1, "release")>>
      /\ p200["b"] = <<WaitFor("y", 1, "acquire"), LoadOf("x", "relaxed"), CountIf("z")>>
      /\ p200["main"] = JoinAll \o <<Expect("z", {1}, "seq_cst")>>
      /\ DOMAIN p200 = {"a", "b", "main"}
  BY DEF p200
<1>3. /\ t \in DOMAIN p200 => Text(program, t) = p200[t]
      /\ t \notin DOMAIN p200 => Text(program, t) = <<>>
  BY <1>1 DEF Text
<1>4. ASSUME t = "a"
      PROVE  \/ place[t] = 1 /\ Now(t) = StoreOf("x", 1, "relaxed")
             \/ place[t] = 2 /\ Now(t) = StoreOf("y", 1, "release")
  BY <1>4, <1>2, <1>3, Place2
<1>5. ASSUME t = "b"
      PROVE  \/ place[t] = 1 /\ Now(t) = WaitFor("y", 1, "acquire")
             \/ place[t] = 2 /\ Now(t) = LoadOf("x", "relaxed")
             \/ place[t] = 3 /\ Now(t) = CountIf("z")
  BY <1>5, <1>2, <1>3, Place3
<1>6. ASSUME t = "main"
      PROVE  \/ place[t] = 5 /\ Now(t) = Expect("z", {1}, "seq_cst")
             \/ place[t] = 1 /\ Now(t) = [op |-> "join", thread |-> "a"]
             \/ place[t] = 2 /\ Now(t) = [op |-> "join", thread |-> "b"]
             \/ place[t] = 3 /\ Now(t) = [op |-> "join", thread |-> "c"]
             \/ place[t] = 4 /\ Now(t) = [op |-> "join", thread |-> "d"]
  BY <1>6, <1>2, <1>3, PlaceJoin
<1>7. ASSUME t \notin DOMAIN p200 PROVE FALSE
  BY <1>7, <1>3, Place0
<1> QED
  BY <1>2, <1>4, <1>5, <1>6, <1>7

\* The locations of p200.
LEMMA Locations200 == {"x", "y", "z"} \subseteq LocationsOf("p200")
<1>1. Programs["p200"] = p200
  BY DEF Programs
<1>2. /\ Text("p200", "a") = <<StoreOf("x", 1, "relaxed"), StoreOf("y", 1, "release")>>
      /\ "a" \in ThreadNames
      /\ Text("p200", "b") = <<WaitFor("y", 1, "acquire"), LoadOf("x", "relaxed"), CountIf("z")>>
      /\ "b" \in ThreadNames
  <2>1. /\ p200["a"] = <<StoreOf("x", 1, "relaxed"), StoreOf("y", 1, "release")>>
        /\ p200["b"] = <<WaitFor("y", 1, "acquire"), LoadOf("x", "relaxed"), CountIf("z")>>
        /\ {"a", "b"} \subseteq DOMAIN p200
    BY DEF p200
  <2> QED
    BY <1>1, <2>1 DEF Text, ThreadNames
<1>3. "x" \in LocationsOf("p200")
  <2>1. 1 \in DOMAIN Text("p200", "a") /\ Text("p200", "a")[1] = StoreOf("x", 1, "relaxed")
    BY <1>2
  <2>2. "at" \in DOMAIN StoreOf("x", 1, "relaxed") /\ StoreOf("x", 1, "relaxed").at = "x"
    BY DEF StoreOf
  <2> QED
    BY <1>2, <2>1, <2>2, AtIsLocation
<1>4. "y" \in LocationsOf("p200")
  <2>1. 2 \in DOMAIN Text("p200", "a") /\ Text("p200", "a")[2] = StoreOf("y", 1, "release")
    BY <1>2
  <2>2. "at" \in DOMAIN StoreOf("y", 1, "release") /\ StoreOf("y", 1, "release").at = "y"
    BY DEF StoreOf
  <2> QED
    BY <1>2, <2>1, <2>2, AtIsLocation
<1>5. "z" \in LocationsOf("p200")
  <2>1. 3 \in DOMAIN Text("p200", "b") /\ Text("p200", "b")[3] = CountIf("z")
    BY <1>2
  <2>2. "at" \in DOMAIN CountIf("z") /\ CountIf("z").at = "z"
    BY DEF CountIf
  <2> QED
    BY <1>2, <2>1, <2>2, AtIsLocation
<1> QED
  BY <1>3, <1>4, <1>5

\* What the threads that main of p200 joins have done then.
LEMMA Ends200 ==
  ASSUME program = "p200", NEW t \in ThreadNames, Ended(t), place[t] \in Nat
  PROVE  /\ t = "a" => place[t] >= 3
         /\ t = "b" => place[t] >= 4
<1>1. Programs["p200"] = p200
  BY DEF Programs
<1>2. /\ p200["a"] = <<StoreOf("x", 1, "relaxed"), StoreOf("y", 1, "release")>> /\ "a" \in DOMAIN p200
      /\ p200["b"] = <<WaitFor("y", 1, "acquire"), LoadOf("x", "relaxed"), CountIf("z")>>
      /\ "b" \in DOMAIN p200
  BY DEF p200
<1>3. ASSUME t = "a" PROVE place[t] >= 3
  <2>1. Text(program, t) = p200["a"]
    BY <1>1, <1>2, <1>3 DEF Text
  <2>2. Len(<<StoreOf("x", 1, "relaxed"), StoreOf("y", 1, "release")>>) = 2
    OBVIOUS
  <2>3. Len(Text(program, t)) = 2
    BY <1>2, <2>1, <2>2
  <2>4. place[t] > 2
    BY <2>3 DEF Ended
  <2> QED
    BY <2>4
<1>4. ASSUME t = "b" PROVE place[t] >= 4
  <2>1. Text(program, t) = p200["b"]
    BY <1>1, <1>2, <1>4 DEF Text
  <2>2. Len(<<WaitFor("y", 1, "acquire"), LoadOf("x", "relaxed"), CountIf("z")>>) = 3
    OBVIOUS
  <2>3. Len(Text(program, t)) = 3
    BY <1>2, <2>1, <2>2
  <2>4. place[t] > 3
    BY <2>3 DEF Ended
  <2> QED
    BY <2>4
<1> QED
  BY <1>3, <1>4

\* y passes on x, which holds 1 by then; z is counted once.
Inv200 == /\ Base("p200")
          /\ Seen("x", "a")
          /\ place["a"] >= 2 => Top("x") = 1
          /\ 1 \in Vals("y") => place["a"] >= 3
          /\ Passes("y", 1, "x")
          /\ place["b"] >= 2 => place["a"] >= 3 /\ Seen("x", "b")
          /\ place["b"] = 3 => reg["b"] = 1
          /\ place["b"] <= 3 => Top("z") = 0
          /\ place["b"] >= 4 => Top("z") = 1 /\ Seen("z", "b")
          /\ place["main"] >= 3 => place["b"] >= 4 /\ Seen("z", "main")

\* The invariant of p200 holds at the start.
LEMMA Init200 ==
  ASSUME OrdersInit, program = "p200"
  PROVE  Inv200
<1>1. /\ {"x", "y", "z"} \subseteq LocationsOf("p200")
      /\ {"a", "b", "c", "d", "main"} \subseteq ThreadNames
  BY Locations200 DEF ThreadNames
<1>2. Base("p200") /\ place["a"] = 1 /\ place["b"] = 1 /\ place["main"] = 1
  BY <1>1, InitBase
<1>3. Vals("x") = {0} /\ Top("x") = 0 /\ Vals("y") = {0} /\ Top("y") = 0 /\ Vals("z") = {0} /\ Top("z") = 0
  BY <1>1, InitBase
<1>4. Seen("x", "a") /\ Seen("x", "b") /\ Seen("z", "b") /\ Seen("z", "main")
  BY <1>1, InitBase
<1>5. Passes("y", 1, "x")
  BY <1>3, PassesNone
<1> QED
  BY <1>2, <1>3, <1>4, <1>5 DEF Inv200

\* Every step of p200 keeps its invariant.
LEMMA Step200 ==
  ASSUME Inv200, NEW t \in ThreadNames, ThreadStep(t)
  PROVE  Inv200'
<1>1. /\ Base("p200") /\ program = "p200" /\ ThreadStep(t) /\ place[t] \in Nat \ {0}
      /\ place["a"] \in Nat /\ place["b"] \in Nat /\ place["main"] \in Nat
  BY DEF Inv200, Base, ThreadNames
<1>2. /\ {"x", "y", "z"} \subseteq LocationsOf("p200")
      /\ {"a", "b", "c", "d", "main"} \subseteq ThreadNames
  BY Locations200 DEF ThreadNames
<1>3. CASE t = "a" /\ place[t] = 1 /\ Now(t) = StoreOf("x", 1, "relaxed")
  <2>1. Base("p200") /\ ThreadStep("a") /\ Now("a") = StoreOf("x", 1, "relaxed") /\ place["a"] = 1
    BY <1>1, <1>3
  <2>2. /\ Base("p200")' /\ Moves("a") /\ Writes(LocationsOf("p200"), "a", "x", 1)
        /\ UNCHANGED <<unseen, reg, processed>>
    BY <2>1, <1>2, StoreWrites
  <2>3. /\ place'["a"] = 2
        /\ place'["b"] = place["b"]
        /\ place'["main"] = place["main"]
    BY <2>1, <2>2, <1>2 DEF Moves
  <2>4. reg'["b"] = reg["b"]
    BY <2>1, <2>2, <1>2
  <2>5. Seen("x", "a")' /\ Top("x")' = 1
    BY <2>1, <2>2, <1>2, WritesOwn
  <2>6. /\ Vals("y")' = Vals("y")
        /\ Top("z")' = Top("z")
    BY <2>1, <2>2, <1>2, WritesKeeps
  <2>7. /\ Seen("z", "b") => Seen("z", "b")'
        /\ Seen("z", "main") => Seen("z", "main")'
    BY <2>1, <2>2, <1>2, WritesSeen
  <2>8. Passes("y", 1, "x") /\ 1 \notin Vals("y") => Passes("y", 1, "x")'
    BY <2>1, <2>2, <1>2, WritesPasses
  <2> QED
    BY <1>1, <2>1, <2>2, <2>3, <2>4, <2>5, <2>6, <2>7, <2>8 DEF Inv200
<1>4. CASE t = "a" /\ place[t] = 2 /\ Now(t) = StoreOf("y", 1, "release")
  <2>1. Base("p200") /\ ThreadStep("a") /\ Now("a") = StoreOf("y", 1, "release") /\ place["a"] = 2
    BY <1>1, <1>4
  <2>2. "release" \in Releases
    BY DEF Releases
  <2>3. /\ Base("p200")' /\ Moves("a") /\ Writes(LocationsOf("p200"), "a", "y", 1)
        /\ UNCHANGED <<unseen, reg, processed>>
    BY <2>1, <1>2, StoreWrites
  <2>4. /\ place'["a"] = 3
        /\ place'["b"] = place["b"]
        /\ place'["main"] = place["main"]
    BY <2>1, <2>3, <1>2 DEF Moves
  <2>5. Passes("y", 1, "x") /\ Seen("x", "a") => Passes("y", 1, "x")'
    BY <2>1, <2>3, <1>2, <2>2, ReleasePasses
  <2>6. reg'["b"] = reg["b"]
    BY <2>1, <2>3, <1>2
  <2>7. Vals("y")' = Vals("y") \cup {1}
    BY <2>1, <2>3, <1>2, WritesOwn
  <2>8. /\ Top("x")' = Top("x")
        /\ Top("z")' = Top("z")
    BY <2>1, <2>3, <1>2, WritesKeeps
  <2>9. /\ Seen("x", "a") => Seen("x", "a")'
        /\ Seen("x", "b") => Seen("x", "b")'
        /\ Seen("z", "b") => Seen("z", "b")'
        /\ Seen("z", "main") => Seen("z", "main")'
    BY <2>1, <2>3, <1>2, WritesSeen
  <2> QED
    BY <1>1, <2>1, <2>2, <2>3, <2>4, <2>5, <2>6, <2>7, <2>8, <2>9 DEF Inv200
<1>5. CASE t = "b" /\ place[t] = 1 /\ Now(t) = WaitFor("y", 1, "acquire")
  <2>1. Base("p200") /\ ThreadStep("b") /\ Now("b") = WaitFor("y", 1, "acquire") /\ place["b"] = 1
    BY <1>1, <1>5
  <2>2. /\ Base("p200")' /\ Moves("b") /\ Quiet(LocationsOf("p200"), "b")
        /\ UNCHANGED <<fenced, scLast, processed>>
        /\ \A u \in ThreadNames \ {"b"} : reg'[u] = reg[u] /\ unseen'[u] = unseen[u]
    BY <2>1, <1>2, WaitForQuiet
  <2>3. /\ place'["b"] = 2
        /\ place'["a"] = place["a"]
        /\ place'["main"] = place["main"]
    BY <2>1, <2>2, <1>2 DEF Moves
  <2>4. /\ Vals("y")' = Vals("y")
        /\ Top("x")' = Top("x")
        /\ Top("z")' = Top("z")
    BY <2>1, <2>2, <1>2, QuietKeeps
  <2>5. /\ Seen("x", "a") => Seen("x", "a")'
        /\ Seen("x", "b") => Seen("x", "b")'
        /\ Seen("z", "b") => Seen("z", "b")'
        /\ Seen("z", "main") => Seen("z", "main")'
    BY <2>1, <2>2, <1>2, QuietSeen
  <2>6. Passes("y", 1, "x") => Passes("y", 1, "x")'
    BY <2>1, <2>2, <1>2, QuietPasses
  <2>7. 1 \in Vals("y")
    BY <2>1, <2>2, <1>2, WaitFound
  <2>8. "acquire" \in Acquires
    BY DEF Acquires
  <2>9. Passes("y", 1, "x") => Seen("x", "b")'
    BY <2>1, <2>2, <1>2, <2>8, WaitSees
  <2> QED
    BY <1>1, <2>1, <2>2, <2>3, <2>4, <2>5, <2>6, <2>7, <2>8, <2>9 DEF Inv200
<1>6. CASE t = "b" /\ place[t] = 2 /\ Now(t) = LoadOf("x", "relaxed")
  <2>1. Base("p200") /\ ThreadStep("b") /\ Now("b") = LoadOf("x", "relaxed") /\ place["b"] = 2
    BY <1>1, <1>6
  <2>2. /\ Base("p200")' /\ Moves("b") /\ Quiet(LocationsOf("p200"), "b")
        /\ UNCHANGED <<fenced, scLast, processed>>
        /\ \A u \in ThreadNames \ {"b"} : reg'[u] = reg[u] /\ unseen'[u] = unseen[u]
    BY <2>1, <1>2, LoadOfQuiet
  <2>3. /\ place'["b"] = 3
        /\ place'["a"] = place["a"]
        /\ place'["main"] = place["main"]
    BY <2>1, <2>2, <1>2 DEF Moves
  <2>4. Seen("x", "b") => reg'["b"] = Top("x")
    BY <2>1, <1>2, LoadOfSeen
  <2>5. /\ Vals("y")' = Vals("y")
        /\ Top("x")' = Top("x")
        /\ Top("z")' = Top("z")
    BY <2>1, <2>2, <1>2, QuietKeeps
  <2>6. /\ Seen("x", "a") => Seen("x", "a")'
        /\ Seen("x", "b") => Seen("x", "b")'
        /\ Seen("z", "b") => Seen("z", "b")'
        /\ Seen("z", "main") => Seen("z", "main")'
    BY <2>1, <2>2, <1>2, QuietSeen
  <2>7. Passes("y", 1, "x") => Passes("y", 1, "x")'
    BY <2>1, <2>2, <1>2, QuietPasses
  <2> QED
    BY <1>1, <2>1, <2>2, <2>3, <2>4, <2>5, <2>6, <2>7 DEF Inv200
<1>7. CASE t = "b" /\ place[t] = 3 /\ Now(t) = CountIf("z")
  <2>1. Base("p200") /\ ThreadStep("b") /\ Now("b") = CountIf("z") /\ place["b"] = 3
    BY <1>1, <1>7
  <2>2. /\ Base("p200")' /\ Moves("b") /\ (reg["b"] # 0 => Writes(LocationsOf("p200"), "b", "z", Top("z") + 1))
        /\ UNCHANGED <<reg, processed>>
    BY <2>1, <1>2, CountStepIs DEF Top
  <2>3. Writes(LocationsOf("p200"), "b", "z", Top("z") + 1)
    BY <2>1, <2>2 DEF Inv200
  <2>4. /\ place'["b"] = 4
        /\ place'["a"] = place["a"]
        /\ place'["main"] = place["main"]
    BY <2>1, <2>2, <2>3, <1>2 DEF Moves
  <2>5. reg'["b"] = reg["b"]
    BY <2>1, <2>2, <2>3, <1>2
  <2>6. Seen("z", "b")' /\ Top("z")' = Top("z") + 1
    BY <2>1, <2>2, <2>3, <1>2, WritesOwn
  <2>7. /\ Vals("y")' = Vals("y")
        /\ Top("x")' = Top("x")
    BY <2>1, <2>2, <2>3, <1>2, WritesKeeps
  <2>8. /\ Seen("x", "a") => Seen("x", "a")'
        /\ Seen("x", "b") => Seen("x", "b")'
    BY <2>1, <2>2, <2>3, <1>2, WritesSeen
  <2>9. Passes("y", 1, "x") => Passes("y", 1, "x")'
    BY <2>1, <2>2, <2>3, <1>2, WritesPasses
  <2> QED
    BY <1>1, <2>1, <2>2, <2>3, <2>4, <2>5, <2>6, <2>7, <2>8, <2>9 DEF Inv200
<1>8. CASE t = "main" /\ place[t] = 5 /\ Now(t) = Expect("z", {1}, "seq_cst")
  <2>1. Base("p200") /\ ThreadStep("main") /\ Now("main") = Expect("z", {1}, "seq_cst") /\ place["main"] = 5
    BY <1>1, <1>8
  <2>2. /\ Base("p200")' /\ Moves("main") /\ Quiet(LocationsOf("p200"), "main")
        /\ UNCHANGED <<fenced, scLast, processed>>
        /\ \A u \in ThreadNames \ {"main"} : reg'[u] = reg[u] /\ unseen'[u] = unseen[u]
    BY <2>1, <1>2, ExpectQuiet
  <2>3. /\ place'["main"] = 6
        /\ place'["a"] = place["a"]
        /\ place'["b"] = place["b"]
    BY <2>1, <2>2, <1>2 DEF Moves
  <2>4. reg'["b"] = reg["b"]
    BY <2>1, <2>2, <1>2
  <2>5. /\ Vals("y")' = Vals("y")
        /\ Top("x")' = Top("x")
        /\ Top("z")' = Top("z")
    BY <2>1, <2>2, <1>2, QuietKeeps
  <2>6. /\ Seen("x", "a") => Seen("x", "a")'
        /\ Seen("x", "b") => Seen("x", "b")'
        /\ Seen("z", "b") => Seen("z", "b")'
        /\ Seen("z", "main") => Seen("z", "main")'
    BY <2>1, <2>2, <1>2, QuietSeen
  <2>7. Passes("y", 1, "x") => Passes("y", 1, "x")'
    BY <2>1, <2>2, <1>2, QuietPasses
  <2> QED
    BY <1>1, <2>1, <2>2, <2>3, <2>4, <2>5, <2>6, <2>7 DEF Inv200
<1>9. CASE t = "main" /\ place[t] = 1 /\ Now(t) = [op |-> "join", thread |-> "a"]
  <2>1. /\ Base("p200") /\ ThreadStep("main") /\ Now("main") = [op |-> "join", thread |-> "a"]
        /\ place["main"] = 1
    BY <1>1, <1>9
  <2>2. /\ Base("p200")' /\ Moves("main") /\ Quiet(LocationsOf("p200"), "main") /\ Ended("a")
        /\ UNCHANGED <<reg, processed, unseen, depends, fenced, scLast>>
        /\ \A x \in LocationsOf("p200") : Seen(x, "a") => Seen(x, "main")'
    BY <2>1, <1>2, JoinSees
  <2>3. /\ place'["main"] = 2
        /\ place'["a"] = place["a"]
        /\ place'["b"] = place["b"]
    BY <2>1, <2>2, <1>2 DEF Moves
  <2>4. reg'["b"] = reg["b"]
    BY <2>1, <2>2, <1>2
  <2>5. /\ Vals("y")' = Vals("y")
        /\ Top("x")' = Top("x")
        /\ Top("z")' = Top("z")
    BY <2>1, <2>2, <1>2, QuietKeeps
  <2>6. /\ Seen("x", "a") => Seen("x", "a")'
        /\ Seen("x", "b") => Seen("x", "b")'
        /\ Seen("z", "b") => Seen("z", "b")'
        /\ Seen("z", "main") => Seen("z", "main")'
    BY <2>1, <2>2, <1>2, QuietSeen
  <2>7. Passes("y", 1, "x") => Passes("y", 1, "x")'
    BY <2>1, <2>2, <1>2, QuietPasses
  <2>8. place["a"] >= 3
    BY <2>1, <2>2, Ends200, <1>1, <1>2
  <2>9. Seen("x", "a") => Seen("x", "main")'
    BY <2>1, <2>2, <1>2
  <2> QED
    BY <1>1, <1>2, <2>1, <2>2, <2>3, <2>4, <2>5, <2>6, <2>7, <2>8, <2>9 DEF Inv200
<1>10. CASE t = "main" /\ place[t] = 2 /\ Now(t) = [op |-> "join", thread |-> "b"]
  <2>1. /\ Base("p200") /\ ThreadStep("main") /\ Now("main") = [op |-> "join", thread |-> "b"]
        /\ place["main"] = 2
    BY <1>1, <1>10
  <2>2. /\ Base("p200")' /\ Moves("main") /\ Quiet(LocationsOf("p200"), "main") /\ Ended("b")
        /\ UNCHANGED <<reg, processed, unseen, depends, fenced, scLast>>
        /\ \A x \in LocationsOf("p200") : Seen(x, "b") => Seen(x, "main")'
    BY <2>1, <1>2, JoinSees
  <2>3. /\ place'["main"] = 3
        /\ place'["a"] = place["a"]
        /\ place'["b"] = place["b"]
    BY <2>1, <2>2, <1>2 DEF Moves
  <2>4. reg'["b"] = reg["b"]
    BY <2>1, <2>2, <1>2
  <2>5. /\ Vals("y")' = Vals("y")
        /\ Top("x")' = Top("x")
        /\ Top("z")' = Top("z")
    BY <2>1, <2>2, <1>2, QuietKeeps
  <2>6. /\ Seen("x", "a") => Seen("x", "a")'
        /\ Seen("x", "b") => Seen("x", "b")'
        /\ Seen("z", "b") => Seen("z", "b")'
        /\ Seen("z", "main") => Seen("z", "main")'
    BY <2>1, <2>2, <1>2, QuietSeen
  <2>7. Passes("y", 1, "x") => Passes("y", 1, "x")'
    BY <2>1, <2>2, <1>2, QuietPasses
  <2>8. place["b"] >= 4
    BY <2>1, <2>2, Ends200, <1>1, <1>2
  <2>9. Seen("x", "b") => Seen("x", "main")'
    BY <2>1, <2>2, <1>2
  <2>10. Seen("z", "b") => Seen("z", "main")'
    BY <2>1, <2>2, <1>2
  <2> QED
    BY <1>1, <1>2, <2>1, <2>2, <2>3, <2>4, <2>5, <2>6, <2>7, <2>8, <2>9, <2>10 DEF Inv200
<1>11. CASE t = "main" /\ place[t] = 3 /\ Now(t) = [op |-> "join", thread |-> "c"]
  <2>1. /\ Base("p200") /\ ThreadStep("main") /\ Now("main") = [op |-> "join", thread |-> "c"]
        /\ place["main"] = 3
    BY <1>1, <1>11
  <2>2. /\ Base("p200")' /\ Moves("main") /\ Quiet(LocationsOf("p200"), "main") /\ Ended("c")
        /\ UNCHANGED <<reg, processed, unseen, depends, fenced, scLast>>
        /\ \A x \in LocationsOf("p200") : Seen(x, "c") => Seen(x, "main")'
    BY <2>1, <1>2, JoinSees
  <2>3. /\ place'["main"] = 4
        /\ place'["a"] = place["a"]
        /\ place'["b"] = place["b"]
    BY <2>1, <2>2, <1>2 DEF Moves
  <2>4. reg'["b"] = reg["b"]
    BY <2>1, <2>2, <1>2
  <2>5. /\ Vals("y")' = Vals("y")
        /\ Top("x")' = Top("x")
        /\ Top("z")' = Top("z")
    BY <2>1, <2>2, <1>2, QuietKeeps
  <2>6. /\ Seen("x", "a") => Seen("x", "a")'
        /\ Seen("x", "b") => Seen("x", "b")'
        /\ Seen("z", "b") => Seen("z", "b")'
        /\ Seen("z", "main") => Seen("z", "main")'
    BY <2>1, <2>2, <1>2, QuietSeen
  <2>7. Passes("y", 1, "x") => Passes("y", 1, "x")'
    BY <2>1, <2>2, <1>2, QuietPasses
  <2> QED
    BY <1>1, <1>2, <2>1, <2>2, <2>3, <2>4, <2>5, <2>6, <2>7 DEF Inv200
<1>12. CASE t = "main" /\ place[t] = 4 /\ Now(t) = [op |-> "join", thread |-> "d"]
  <2>1. /\ Base("p200") /\ ThreadStep("main") /\ Now("main") = [op |-> "join", thread |-> "d"]
        /\ place["main"] = 4
    BY <1>1, <1>12
  <2>2. /\ Base("p200")' /\ Moves("main") /\ Quiet(LocationsOf("p200"), "main") /\ Ended("d")
        /\ UNCHANGED <<reg, processed, unseen, depends, fenced, scLast>>
        /\ \A x \in LocationsOf("p200") : Seen(x, "d") => Seen(x, "main")'
    BY <2>1, <1>2, JoinSees
  <2>3. /\ place'["main"] = 5
        /\ place'["a"] = place["a"]
        /\ place'["b"] = place["b"]
    BY <2>1, <2>2, <1>2 DEF Moves
  <2>4. reg'["b"] = reg["b"]
    BY <2>1, <2>2, <1>2
  <2>5. /\ Vals("y")' = Vals("y")
        /\ Top("x")' = Top("x")
        /\ Top("z")' = Top("z")
    BY <2>1, <2>2, <1>2, QuietKeeps
  <2>6. /\ Seen("x", "a") => Seen("x", "a")'
        /\ Seen("x", "b") => Seen("x", "b")'
        /\ Seen("z", "b") => Seen("z", "b")'
        /\ Seen("z", "main") => Seen("z", "main")'
    BY <2>1, <2>2, <1>2, QuietSeen
  <2>7. Passes("y", 1, "x") => Passes("y", 1, "x")'
    BY <2>1, <2>2, <1>2, QuietPasses
  <2> QED
    BY <1>1, <1>2, <2>1, <2>2, <2>3, <2>4, <2>5, <2>6, <2>7 DEF Inv200
<1> QED
  BY <1>1, <1>3, <1>4, <1>5, <1>6, <1>7, <1>8, <1>9, <1>10, <1>11, <1>12, NotEnded, Text200

\* The invariant of p200 makes every statement that is next good.
LEMMA Holds200 ==
  ASSUME Inv200
  PROVE  NoDataRace /\ AssertionsHold
<1>1. Base("p200") /\ program = "p200" /\ place["a"] \in Nat /\ place["b"] \in Nat /\ place["main"] \in Nat
  BY DEF Inv200, Base, ThreadNames
<1>2. /\ {"x", "y", "z"} \subseteq LocationsOf("p200")
      /\ {"a", "b", "main"} \subseteq ThreadNames
  BY Locations200 DEF ThreadNames
<1>3. ASSUME NEW t \in ThreadNames, ~Ended(t) PROVE Good(t)
  <2>1. place[t] \in Nat \ {0}
    BY <1>1 DEF Base
  <2>2. CASE t = "a" /\ place[t] = 1 /\ Now(t) = StoreOf("x", 1, "relaxed")
    BY <2>2, GoodStoreOf
  <2>3. CASE t = "a" /\ place[t] = 2 /\ Now(t) = StoreOf("y", 1, "release")
    BY <2>3, GoodStoreOf
  <2>4. CASE t = "b" /\ place[t] = 1 /\ Now(t) = WaitFor("y", 1, "acquire")
    BY <2>4, GoodWaitFor
  <2>5. CASE t = "b" /\ place[t] = 2 /\ Now(t) = LoadOf("x", "relaxed")
    BY <2>5, GoodLoadOf
  <2>6. CASE t = "b" /\ place[t] = 3 /\ Now(t) = CountIf("z")
    BY <2>6, GoodCountIf
  <2>7. CASE t = "main" /\ place[t] = 5 /\ Now(t) = Expect("z", {1}, "seq_cst")
    BY <2>7, <1>2, <1>1, GoodExpectTop DEF Inv200
  <2>8. CASE t = "main" /\ place[t] = 1 /\ Now(t) = [op |-> "join", thread |-> "a"]
    BY <2>8, GoodJoin
  <2>9. CASE t = "main" /\ place[t] = 2 /\ Now(t) = [op |-> "join", thread |-> "b"]
    BY <2>9, GoodJoin
  <2>10. CASE t = "main" /\ place[t] = 3 /\ Now(t) = [op |-> "join", thread |-> "c"]
    BY <2>10, GoodJoin
  <2>11. CASE t = "main" /\ place[t] = 4 /\ Now(t) = [op |-> "join", thread |-> "d"]
    BY <2>11, GoodJoin
  <2> QED
    BY <1>1, <1>3, <2>1, <2>2, <2>3, <2>4, <2>5, <2>6, <2>7, <2>8, <2>9, <2>10, <2>11, Text200
<1> QED
  BY <1>3, GoodAll

-------------------------------------------------------------------------------
(* p203: two synchronisations in a row. *)

\* Where a thread of p203 may be, and at which statement.
LEMMA Text203 ==
  ASSUME program = "p203", NEW t \in ThreadNames, place[t] \in Nat \ {0}, ~Ended(t)
  PROVE  \/ t = "a" /\ place[t] = 1 /\ Now(t) = StoreOf("sdata0", 42, "relaxed")
         \/ t = "a" /\ place[t] = 2 /\ Now(t) = StoreOf("sdata1", 97, "relaxed")
         \/ t = "a" /\ place[t] = 3 /\ Now(t) = StoreOf("sync1", 1, "release")
         \/ t = "b" /\ place[t] = 1 /\ Now(t) = WaitFor("sync1", 1, "acquire")
         \/ t = "b" /\ place[t] = 2 /\ Now(t) = StoreOf("sync2", 1, "release")
         \/ t = "c" /\ place[t] = 1 /\ Now(t) = WaitFor("sync2", 1, "acquire")
         \/ t = "c" /\ place[t] = 2 /\ Now(t) = Expect("sdata0", {42}, "relaxed")
         \/ t = "c" /\ place[t] = 3 /\ Now(t) = Expect("sdata1", {97}, "relaxed")
<1>1. Programs["p203"] = p203
  BY DEF Programs
<1>2. /\ p203["a"] = <<StoreOf("sdata0", 42, "relaxed"), StoreOf("sdata1", 97, "relaxed"), StoreOf("sync1", 1, "release")>>
      /\ p203["b"] = <<WaitFor("sync1", 1, "acquire"), StoreOf("sync2", 1, "release")>>
      /\ p203["c"] = <<WaitFor("sync2", 1, "acquire"), Expect("sdata0", {42}, "relaxed"), Expect("sdata1", {97}, "relaxed")>>
      /\ DOMAIN p203 = {"a", "b", "c"}
  BY DEF p203
<1>3. /\ t \in DOMAIN p203 => Text(program, t) = p203[t]
      /\ t \notin DOMAIN p203 => Text(program, t) = <<>>
  BY <1>1 DEF Text
<1>4. ASSUME t = "a"
      PROVE  \/ place[t] = 1 /\ Now(t) = StoreOf("sdata0", 42, "relaxed")
             \/ place[t] = 2 /\ Now(t) = StoreOf("sdata1", 97, "relaxed")
             \/ place[t] = 3 /\ Now(t) = StoreOf("sync1", 1, "release")
  BY <1>4, <1>2, <1>3, Place3
<1>5. ASSUME t = "b"
      PROVE  \/ place[t] = 1 /\ Now(t) = WaitFor("sync1", 1, "acquire")
             \/ place[t] = 2 /\ Now(t) = StoreOf("sync2", 1, "release")
  BY <1>5, <1>2, <1>3, Place2
<1>6. ASSUME t = "c"
      PROVE  \/ place[t] = 1 /\ Now(t) = WaitFor("sync2", 1, "acquire")
             \/ place[t] = 2 /\ Now(t) = Expect("sdata0", {42}, "relaxed")
             \/ place[t] = 3 /\ Now(t) = Expect("sdata1", {97}, "relaxed")
  BY <1>6, <1>2, <1>3, Place3
<1>7. ASSUME t \notin DOMAIN p203 PROVE FALSE
  BY <1>7, <1>3, Place0
<1> QED
  BY <1>2, <1>4, <1>5, <1>6, <1>7

\* The locations of p203.
LEMMA Locations203 == {"sdata0", "sdata1", "sync1", "sync2"} \subseteq LocationsOf("p203")
<1>1. Programs["p203"] = p203
  BY DEF Programs
<1>2. /\ Text("p203", "a") = <<StoreOf("sdata0", 42, "relaxed"), StoreOf("sdata1", 97, "relaxed"), StoreOf("sync1", 1, "release")>>
      /\ "a" \in ThreadNames
      /\ Text("p203", "b") = <<WaitFor("sync1", 1, "acquire"), StoreOf("sync2", 1, "release")>>
      /\ "b" \in ThreadNames
  <2>1. /\ p203["a"] = <<StoreOf("sdata0", 42, "relaxed"), StoreOf("sdata1", 97, "relaxed"), StoreOf("sync1", 1, "release")>>
        /\ p203["b"] = <<WaitFor("sync1", 1, "acquire"), StoreOf("sync2", 1, "release")>>
        /\ {"a", "b"} \subseteq DOMAIN p203
    BY DEF p203
  <2> QED
    BY <1>1, <2>1 DEF Text, ThreadNames
<1>3. "sdata0" \in LocationsOf("p203")
  <2>1. 1 \in DOMAIN Text("p203", "a") /\ Text("p203", "a")[1] = StoreOf("sdata0", 42, "relaxed")
    BY <1>2
  <2>2. "at" \in DOMAIN StoreOf("sdata0", 42, "relaxed") /\ StoreOf("sdata0", 42, "relaxed").at = "sdata0"
    BY DEF StoreOf
  <2> QED
    BY <1>2, <2>1, <2>2, AtIsLocation
<1>4. "sdata1" \in LocationsOf("p203")
  <2>1. 2 \in DOMAIN Text("p203", "a") /\ Text("p203", "a")[2] = StoreOf("sdata1", 97, "relaxed")
    BY <1>2
  <2>2. "at" \in DOMAIN StoreOf("sdata1", 97, "relaxed") /\ StoreOf("sdata1", 97, "relaxed").at = "sdata1"
    BY DEF StoreOf
  <2> QED
    BY <1>2, <2>1, <2>2, AtIsLocation
<1>5. "sync1" \in LocationsOf("p203")
  <2>1. 3 \in DOMAIN Text("p203", "a") /\ Text("p203", "a")[3] = StoreOf("sync1", 1, "release")
    BY <1>2
  <2>2. "at" \in DOMAIN StoreOf("sync1", 1, "release") /\ StoreOf("sync1", 1, "release").at = "sync1"
    BY DEF StoreOf
  <2> QED
    BY <1>2, <2>1, <2>2, AtIsLocation
<1>6. "sync2" \in LocationsOf("p203")
  <2>1. 2 \in DOMAIN Text("p203", "b") /\ Text("p203", "b")[2] = StoreOf("sync2", 1, "release")
    BY <1>2
  <2>2. "at" \in DOMAIN StoreOf("sync2", 1, "release") /\ StoreOf("sync2", 1, "release").at = "sync2"
    BY DEF StoreOf
  <2> QED
    BY <1>2, <2>1, <2>2, AtIsLocation
<1> QED
  BY <1>3, <1>4, <1>5, <1>6

\* Both synchronising flags pass on the data.
Inv203 == /\ Base("p203")
          /\ Seen("sdata0", "a") /\ Seen("sdata1", "a")
          /\ place["a"] >= 2 => Top("sdata0") = 42
          /\ place["a"] >= 3 => Top("sdata1") = 97
          /\ 1 \in Vals("sync1") => place["a"] >= 4
          /\ Passes("sync1", 1, "sdata0") /\ Passes("sync1", 1, "sdata1")
          /\ place["b"] >= 2 => place["a"] >= 4 /\ Seen("sdata0", "b") /\ Seen("sdata1", "b")
          /\ 1 \in Vals("sync2") => place["a"] >= 4
          /\ Passes("sync2", 1, "sdata0") /\ Passes("sync2", 1, "sdata1")
          /\ place["c"] >= 2 => place["a"] >= 4 /\ Seen("sdata0", "c") /\ Seen("sdata1", "c")

\* The invariant of p203 holds at the start.
LEMMA Init203 ==
  ASSUME OrdersInit, program = "p203"
  PROVE  Inv203
<1>1. /\ {"sdata0", "sdata1", "sync1", "sync2"} \subseteq LocationsOf("p203")
      /\ {"a", "b", "c"} \subseteq ThreadNames
  BY Locations203 DEF ThreadNames
<1>2. Base("p203") /\ place["a"] = 1 /\ place["b"] = 1 /\ place["c"] = 1
  BY <1>1, InitBase
<1>3. /\ Vals("sdata0") = {0} /\ Top("sdata0") = 0 /\ Vals("sdata1") = {0} /\ Top("sdata1") = 0
      /\ Vals("sync1") = {0} /\ Top("sync1") = 0 /\ Vals("sync2") = {0} /\ Top("sync2") = 0
  BY <1>1, InitBase
<1>4. /\ Seen("sdata0", "a") /\ Seen("sdata0", "b") /\ Seen("sdata0", "c") /\ Seen("sdata1", "a")
      /\ Seen("sdata1", "b") /\ Seen("sdata1", "c")
  BY <1>1, InitBase
<1>5. /\ Passes("sync1", 1, "sdata0") /\ Passes("sync1", 1, "sdata1") /\ Passes("sync2", 1, "sdata0")
      /\ Passes("sync2", 1, "sdata1")
  BY <1>3, PassesNone
<1> QED
  BY <1>2, <1>3, <1>4, <1>5 DEF Inv203

\* Every step of p203 keeps its invariant.
LEMMA Step203 ==
  ASSUME Inv203, NEW t \in ThreadNames, ThreadStep(t)
  PROVE  Inv203'
<1>1. /\ Base("p203") /\ program = "p203" /\ ThreadStep(t) /\ place[t] \in Nat \ {0}
      /\ place["a"] \in Nat /\ place["b"] \in Nat /\ place["c"] \in Nat
  BY DEF Inv203, Base, ThreadNames
<1>2. /\ {"sdata0", "sdata1", "sync1", "sync2"} \subseteq LocationsOf("p203")
      /\ {"a", "b", "c"} \subseteq ThreadNames
  BY Locations203 DEF ThreadNames
<1>3. CASE t = "a" /\ place[t] = 1 /\ Now(t) = StoreOf("sdata0", 42, "relaxed")
  <2>1. Base("p203") /\ ThreadStep("a") /\ Now("a") = StoreOf("sdata0", 42, "relaxed") /\ place["a"] = 1
    BY <1>1, <1>3
  <2>2. /\ Base("p203")' /\ Moves("a") /\ Writes(LocationsOf("p203"), "a", "sdata0", 42)
        /\ UNCHANGED <<unseen, reg, processed>>
    BY <2>1, <1>2, StoreWrites
  <2>3. /\ place'["a"] = 2
        /\ place'["b"] = place["b"]
        /\ place'["c"] = place["c"]
    BY <2>1, <2>2, <1>2 DEF Moves
  <2>4. Seen("sdata0", "a")' /\ Top("sdata0")' = 42
    BY <2>1, <2>2, <1>2, WritesOwn
  <2>5. /\ Vals("sync1")' = Vals("sync1")
        /\ Vals("sync2")' = Vals("sync2")
        /\ Top("sdata1")' = Top("sdata1")
    BY <2>1, <2>2, <1>2, WritesKeeps
  <2>6. /\ Seen("sdata1", "a") => Seen("sdata1", "a")'
        /\ Seen("sdata1", "b") => Seen("sdata1", "b")'
        /\ Seen("sdata1", "c") => Seen("sdata1", "c")'
    BY <2>1, <2>2, <1>2, WritesSeen
  <2>7. /\ Passes("sync1", 1, "sdata0") /\ 1 \notin Vals("sync1") => Passes("sync1", 1, "sdata0")'
        /\ Passes("sync1", 1, "sdata1") => Passes("sync1", 1, "sdata1")'
        /\ Passes("sync2", 1, "sdata0") /\ 1 \notin Vals("sync2") => Passes("sync2", 1, "sdata0")'
        /\ Passes("sync2", 1, "sdata1") => Passes("sync2", 1, "sdata1")'
    BY <2>1, <2>2, <1>2, WritesPasses
  <2> QED
    BY <1>1, <2>1, <2>2, <2>3, <2>4, <2>5, <2>6, <2>7 DEF Inv203
<1>4. CASE t = "a" /\ place[t] = 2 /\ Now(t) = StoreOf("sdata1", 97, "relaxed")
  <2>1. Base("p203") /\ ThreadStep("a") /\ Now("a") = StoreOf("sdata1", 97, "relaxed") /\ place["a"] = 2
    BY <1>1, <1>4
  <2>2. /\ Base("p203")' /\ Moves("a") /\ Writes(LocationsOf("p203"), "a", "sdata1", 97)
        /\ UNCHANGED <<unseen, reg, processed>>
    BY <2>1, <1>2, StoreWrites
  <2>3. /\ place'["a"] = 3
        /\ place'["b"] = place["b"]
        /\ place'["c"] = place["c"]
    BY <2>1, <2>2, <1>2 DEF Moves
  <2>4. Seen("sdata1", "a")' /\ Top("sdata1")' = 97
    BY <2>1, <2>2, <1>2, WritesOwn
  <2>5. /\ Vals("sync1")' = Vals("sync1")
        /\ Vals("sync2")' = Vals("sync2")
        /\ Top("sdata0")' = Top("sdata0")
    BY <2>1, <2>2, <1>2, WritesKeeps
  <2>6. /\ Seen("sdata0", "a") => Seen("sdata0", "a")'
        /\ Seen("sdata0", "b") => Seen("sdata0", "b")'
        /\ Seen("sdata0", "c") => Seen("sdata0", "c")'
    BY <2>1, <2>2, <1>2, WritesSeen
  <2>7. /\ Passes("sync1", 1, "sdata0") => Passes("sync1", 1, "sdata0")'
        /\ Passes("sync1", 1, "sdata1") /\ 1 \notin Vals("sync1") => Passes("sync1", 1, "sdata1")'
        /\ Passes("sync2", 1, "sdata0") => Passes("sync2", 1, "sdata0")'
        /\ Passes("sync2", 1, "sdata1") /\ 1 \notin Vals("sync2") => Passes("sync2", 1, "sdata1")'
    BY <2>1, <2>2, <1>2, WritesPasses
  <2> QED
    BY <1>1, <2>1, <2>2, <2>3, <2>4, <2>5, <2>6, <2>7 DEF Inv203
<1>5. CASE t = "a" /\ place[t] = 3 /\ Now(t) = StoreOf("sync1", 1, "release")
  <2>1. Base("p203") /\ ThreadStep("a") /\ Now("a") = StoreOf("sync1", 1, "release") /\ place["a"] = 3
    BY <1>1, <1>5
  <2>2. "release" \in Releases
    BY DEF Releases
  <2>3. /\ Base("p203")' /\ Moves("a") /\ Writes(LocationsOf("p203"), "a", "sync1", 1)
        /\ UNCHANGED <<unseen, reg, processed>>
    BY <2>1, <1>2, StoreWrites
  <2>4. /\ place'["a"] = 4
        /\ place'["b"] = place["b"]
        /\ place'["c"] = place["c"]
    BY <2>1, <2>3, <1>2 DEF Moves
  <2>5. Passes("sync1", 1, "sdata0") /\ Seen("sdata0", "a") => Passes("sync1", 1, "sdata0")'
    BY <2>1, <2>3, <1>2, <2>2, ReleasePasses
  <2>6. Passes("sync1", 1, "sdata1") /\ Seen("sdata1", "a") => Passes("sync1", 1, "sdata1")'
    BY <2>1, <2>3, <1>2, <2>2, ReleasePasses
  <2>7. Vals("sync1")' = Vals("sync1") \cup {1}
    BY <2>1, <2>3, <1>2, WritesOwn
  <2>8. /\ Vals("sync2")' = Vals("sync2")
        /\ Top("sdata0")' = Top("sdata0")
        /\ Top("sdata1")' = Top("sdata1")
    BY <2>1, <2>3, <1>2, WritesKeeps
  <2>9. /\ Seen("sdata0", "a") => Seen("sdata0", "a")'
        /\ Seen("sdata0", "b") => Seen("sdata0", "b")'
        /\ Seen("sdata0", "c") => Seen("sdata0", "c")'
        /\ Seen("sdata1", "a") => Seen("sdata1", "a")'
        /\ Seen("sdata1", "b") => Seen("sdata1", "b")'
        /\ Seen("sdata1", "c") => Seen("sdata1", "c")'
    BY <2>1, <2>3, <1>2, WritesSeen
  <2>10. /\ Passes("sync2", 1, "sdata0") => Passes("sync2", 1, "sdata0")'
         /\ Passes("sync2", 1, "sdata1") => Passes("sync2", 1, "sdata1")'
    BY <2>1, <2>3, <1>2, WritesPasses
  <2> QED
    BY <1>1, <2>1, <2>2, <2>3, <2>4, <2>5, <2>6, <2>7, <2>8, <2>9, <2>10 DEF Inv203
<1>6. CASE t = "b" /\ place[t] = 1 /\ Now(t) = WaitFor("sync1", 1, "acquire")
  <2>1. Base("p203") /\ ThreadStep("b") /\ Now("b") = WaitFor("sync1", 1, "acquire") /\ place["b"] = 1
    BY <1>1, <1>6
  <2>2. /\ Base("p203")' /\ Moves("b") /\ Quiet(LocationsOf("p203"), "b")
        /\ UNCHANGED <<fenced, scLast, processed>>
        /\ \A u \in ThreadNames \ {"b"} : reg'[u] = reg[u] /\ unseen'[u] = unseen[u]
    BY <2>1, <1>2, WaitForQuiet
  <2>3. /\ place'["b"] = 2
        /\ place'["a"] = place["a"]
        /\ place'["c"] = place["c"]
    BY <2>1, <2>2, <1>2 DEF Moves
  <2>4. /\ Vals("sync1")' = Vals("sync1")
        /\ Vals("sync2")' = Vals("sync2")
        /\ Top("sdata0")' = Top("sdata0")
        /\ Top("sdata1")' = Top("sdata1")
    BY <2>1, <2>2, <1>2, QuietKeeps
  <2>5. /\ Seen("sdata0", "a") => Seen("sdata0", "a")'
        /\ Seen("sdata0", "b") => Seen("sdata0", "b")'
        /\ Seen("sdata0", "c") => Seen("sdata0", "c")'
        /\ Seen("sdata1", "a") => Seen("sdata1", "a")'
        /\ Seen("sdata1", "b") => Seen("sdata1", "b")'
        /\ Seen("sdata1", "c") => Seen("sdata1", "c")'
    BY <2>1, <2>2, <1>2, QuietSeen
  <2>6. /\ Passes("sync1", 1, "sdata0") => Passes("sync1", 1, "sdata0")'
        /\ Passes("sync1", 1, "sdata1") => Passes("sync1", 1, "sdata1")'
        /\ Passes("sync2", 1, "sdata0") => Passes("sync2", 1, "sdata0")'
        /\ Passes("sync2", 1, "sdata1") => Passes("sync2", 1, "sdata1")'
    BY <2>1, <2>2, <1>2, QuietPasses
  <2>7. 1 \in Vals("sync1")
    BY <2>1, <2>2, <1>2, WaitFound
  <2>8. "acquire" \in Acquires
    BY DEF Acquires
  <2>9. Passes("sync1", 1, "sdata0") => Seen("sdata0", "b")'
    BY <2>1, <2>2, <1>2, <2>8, WaitSees
  <2>10. "acquire" \in Acquires
    BY DEF Acquires
  <2>11. Passes("sync1", 1, "sdata1") => Seen("sdata1", "b")'
    BY <2>1, <2>2, <1>2, <2>10, WaitSees
  <2> QED
    BY <1>1, <2>1, <2>2, <2>3, <2>4, <2>5, <2>6, <2>7, <2>8, <2>9, <2>10, <2>11 DEF Inv203
<1>7. CASE t = "b" /\ place[t] = 2 /\ Now(t) = StoreOf("sync2", 1, "release")
  <2>1. Base("p203") /\ ThreadStep("b") /\ Now("b") = StoreOf("sync2", 1, "release") /\ place["b"] = 2
    BY <1>1, <1>7
  <2>2. "release" \in Releases
    BY DEF Releases
  <2>3. /\ Base("p203")' /\ Moves("b") /\ Writes(LocationsOf("p203"), "b", "sync2", 1)
        /\ UNCHANGED <<unseen, reg, processed>>
    BY <2>1, <1>2, StoreWrites
  <2>4. /\ place'["b"] = 3
        /\ place'["a"] = place["a"]
        /\ place'["c"] = place["c"]
    BY <2>1, <2>3, <1>2 DEF Moves
  <2>5. Passes("sync2", 1, "sdata0") /\ Seen("sdata0", "b") => Passes("sync2", 1, "sdata0")'
    BY <2>1, <2>3, <1>2, <2>2, ReleasePasses
  <2>6. Passes("sync2", 1, "sdata1") /\ Seen("sdata1", "b") => Passes("sync2", 1, "sdata1")'
    BY <2>1, <2>3, <1>2, <2>2, ReleasePasses
  <2>7. Vals("sync2")' = Vals("sync2") \cup {1}
    BY <2>1, <2>3, <1>2, WritesOwn
  <2>8. /\ Vals("sync1")' = Vals("sync1")
        /\ Top("sdata0")' = Top("sdata0")
        /\ Top("sdata1")' = Top("sdata1")
    BY <2>1, <2>3, <1>2, WritesKeeps
  <2>9. /\ Seen("sdata0", "a") => Seen("sdata0", "a")'
        /\ Seen("sdata0", "b") => Seen("sdata0", "b")'
        /\ Seen("sdata0", "c") => Seen("sdata0", "c")'
        /\ Seen("sdata1", "a") => Seen("sdata1", "a")'
        /\ Seen("sdata1", "b") => Seen("sdata1", "b")'
        /\ Seen("sdata1", "c") => Seen("sdata1", "c")'
    BY <2>1, <2>3, <1>2, WritesSeen
  <2>10. /\ Passes("sync1", 1, "sdata0") => Passes("sync1", 1, "sdata0")'
         /\ Passes("sync1", 1, "sdata1") => Passes("sync1", 1, "sdata1")'
    BY <2>1, <2>3, <1>2, WritesPasses
  <2> QED
    BY <1>1, <2>1, <2>2, <2>3, <2>4, <2>5, <2>6, <2>7, <2>8, <2>9, <2>10 DEF Inv203
<1>8. CASE t = "c" /\ place[t] = 1 /\ Now(t) = WaitFor("sync2", 1, "acquire")
  <2>1. Base("p203") /\ ThreadStep("c") /\ Now("c") = WaitFor("sync2", 1, "acquire") /\ place["c"] = 1
    BY <1>1, <1>8
  <2>2. /\ Base("p203")' /\ Moves("c") /\ Quiet(LocationsOf("p203"), "c")
        /\ UNCHANGED <<fenced, scLast, processed>>
        /\ \A u \in ThreadNames \ {"c"} : reg'[u] = reg[u] /\ unseen'[u] = unseen[u]
    BY <2>1, <1>2, WaitForQuiet
  <2>3. /\ place'["c"] = 2
        /\ place'["a"] = place["a"]
        /\ place'["b"] = place["b"]
    BY <2>1, <2>2, <1>2 DEF Moves
  <2>4. /\ Vals("sync1")' = Vals("sync1")
        /\ Vals("sync2")' = Vals("sync2")
        /\ Top("sdata0")' = Top("sdata0")
        /\ Top("sdata1")' = Top("sdata1")
    BY <2>1, <2>2, <1>2, QuietKeeps
  <2>5. /\ Seen("sdata0", "a") => Seen("sdata0", "a")'
        /\ Seen("sdata0", "b") => Seen("sdata0", "b")'
        /\ Seen("sdata0", "c") => Seen("sdata0", "c")'
        /\ Seen("sdata1", "a") => Seen("sdata1", "a")'
        /\ Seen("sdata1", "b") => Seen("sdata1", "b")'
        /\ Seen("sdata1", "c") => Seen("sdata1", "c")'
    BY <2>1, <2>2, <1>2, QuietSeen
  <2>6. /\ Passes("sync1", 1, "sdata0") => Passes("sync1", 1, "sdata0")'
        /\ Passes("sync1", 1, "sdata1") => Passes("sync1", 1, "sdata1")'
        /\ Passes("sync2", 1, "sdata0") => Passes("sync2", 1, "sdata0")'
        /\ Passes("sync2", 1, "sdata1") => Passes("sync2", 1, "sdata1")'
    BY <2>1, <2>2, <1>2, QuietPasses
  <2>7. 1 \in Vals("sync2")
    BY <2>1, <2>2, <1>2, WaitFound
  <2>8. "acquire" \in Acquires
    BY DEF Acquires
  <2>9. Passes("sync2", 1, "sdata0") => Seen("sdata0", "c")'
    BY <2>1, <2>2, <1>2, <2>8, WaitSees
  <2>10. "acquire" \in Acquires
    BY DEF Acquires
  <2>11. Passes("sync2", 1, "sdata1") => Seen("sdata1", "c")'
    BY <2>1, <2>2, <1>2, <2>10, WaitSees
  <2> QED
    BY <1>1, <2>1, <2>2, <2>3, <2>4, <2>5, <2>6, <2>7, <2>8, <2>9, <2>10, <2>11 DEF Inv203
<1>9. CASE t = "c" /\ place[t] = 2 /\ Now(t) = Expect("sdata0", {42}, "relaxed")
  <2>1. Base("p203") /\ ThreadStep("c") /\ Now("c") = Expect("sdata0", {42}, "relaxed") /\ place["c"] = 2
    BY <1>1, <1>9
  <2>2. /\ Base("p203")' /\ Moves("c") /\ Quiet(LocationsOf("p203"), "c")
        /\ UNCHANGED <<fenced, scLast, processed>>
        /\ \A u \in ThreadNames \ {"c"} : reg'[u] = reg[u] /\ unseen'[u] = unseen[u]
    BY <2>1, <1>2, ExpectQuiet
  <2>3. /\ place'["c"] = 3
        /\ place'["a"] = place["a"]
        /\ place'["b"] = place["b"]
    BY <2>1, <2>2, <1>2 DEF Moves
  <2>4. /\ Vals("sync1")' = Vals("sync1")
        /\ Vals("sync2")' = Vals("sync2")
        /\ Top("sdata0")' = Top("sdata0")
        /\ Top("sdata1")' = Top("sdata1")
    BY <2>1, <2>2, <1>2, QuietKeeps
  <2>5. /\ Seen("sdata0", "a") => Seen("sdata0", "a")'
        /\ Seen("sdata0", "b") => Seen("sdata0", "b")'
        /\ Seen("sdata0", "c") => Seen("sdata0", "c")'
        /\ Seen("sdata1", "a") => Seen("sdata1", "a")'
        /\ Seen("sdata1", "b") => Seen("sdata1", "b")'
        /\ Seen("sdata1", "c") => Seen("sdata1", "c")'
    BY <2>1, <2>2, <1>2, QuietSeen
  <2>6. /\ Passes("sync1", 1, "sdata0") => Passes("sync1", 1, "sdata0")'
        /\ Passes("sync1", 1, "sdata1") => Passes("sync1", 1, "sdata1")'
        /\ Passes("sync2", 1, "sdata0") => Passes("sync2", 1, "sdata0")'
        /\ Passes("sync2", 1, "sdata1") => Passes("sync2", 1, "sdata1")'
    BY <2>1, <2>2, <1>2, QuietPasses
  <2> QED
    BY <1>1, <2>1, <2>2, <2>3, <2>4, <2>5, <2>6 DEF Inv203
<1>10. CASE t = "c" /\ place[t] = 3 /\ Now(t) = Expect("sdata1", {97}, "relaxed")
  <2>1. Base("p203") /\ ThreadStep("c") /\ Now("c") = Expect("sdata1", {97}, "relaxed") /\ place["c"] = 3
    BY <1>1, <1>10
  <2>2. /\ Base("p203")' /\ Moves("c") /\ Quiet(LocationsOf("p203"), "c")
        /\ UNCHANGED <<fenced, scLast, processed>>
        /\ \A u \in ThreadNames \ {"c"} : reg'[u] = reg[u] /\ unseen'[u] = unseen[u]
    BY <2>1, <1>2, ExpectQuiet
  <2>3. /\ place'["c"] = 4
        /\ place'["a"] = place["a"]
        /\ place'["b"] = place["b"]
    BY <2>1, <2>2, <1>2 DEF Moves
  <2>4. /\ Vals("sync1")' = Vals("sync1")
        /\ Vals("sync2")' = Vals("sync2")
        /\ Top("sdata0")' = Top("sdata0")
        /\ Top("sdata1")' = Top("sdata1")
    BY <2>1, <2>2, <1>2, QuietKeeps
  <2>5. /\ Seen("sdata0", "a") => Seen("sdata0", "a")'
        /\ Seen("sdata0", "b") => Seen("sdata0", "b")'
        /\ Seen("sdata0", "c") => Seen("sdata0", "c")'
        /\ Seen("sdata1", "a") => Seen("sdata1", "a")'
        /\ Seen("sdata1", "b") => Seen("sdata1", "b")'
        /\ Seen("sdata1", "c") => Seen("sdata1", "c")'
    BY <2>1, <2>2, <1>2, QuietSeen
  <2>6. /\ Passes("sync1", 1, "sdata0") => Passes("sync1", 1, "sdata0")'
        /\ Passes("sync1", 1, "sdata1") => Passes("sync1", 1, "sdata1")'
        /\ Passes("sync2", 1, "sdata0") => Passes("sync2", 1, "sdata0")'
        /\ Passes("sync2", 1, "sdata1") => Passes("sync2", 1, "sdata1")'
    BY <2>1, <2>2, <1>2, QuietPasses
  <2> QED
    BY <1>1, <2>1, <2>2, <2>3, <2>4, <2>5, <2>6 DEF Inv203
<1> QED
  BY <1>1, <1>3, <1>4, <1>5, <1>6, <1>7, <1>8, <1>9, <1>10, NotEnded, Text203

\* The invariant of p203 makes every statement that is next good.
LEMMA Holds203 ==
  ASSUME Inv203
  PROVE  NoDataRace /\ AssertionsHold
<1>1. Base("p203") /\ program = "p203" /\ place["a"] \in Nat /\ place["b"] \in Nat /\ place["c"] \in Nat
  BY DEF Inv203, Base, ThreadNames
<1>2. /\ {"sdata0", "sdata1", "sync1", "sync2"} \subseteq LocationsOf("p203")
      /\ {"a", "b", "c"} \subseteq ThreadNames
  BY Locations203 DEF ThreadNames
<1>3. ASSUME NEW t \in ThreadNames, ~Ended(t) PROVE Good(t)
  <2>1. place[t] \in Nat \ {0}
    BY <1>1 DEF Base
  <2>2. CASE t = "a" /\ place[t] = 1 /\ Now(t) = StoreOf("sdata0", 42, "relaxed")
    BY <2>2, GoodStoreOf
  <2>3. CASE t = "a" /\ place[t] = 2 /\ Now(t) = StoreOf("sdata1", 97, "relaxed")
    BY <2>3, GoodStoreOf
  <2>4. CASE t = "a" /\ place[t] = 3 /\ Now(t) = StoreOf("sync1", 1, "release")
    BY <2>4, GoodStoreOf
  <2>5. CASE t = "b" /\ place[t] = 1 /\ Now(t) = WaitFor("sync1", 1, "acquire")
    BY <2>5, GoodWaitFor
  <2>6. CASE t = "b" /\ place[t] = 2 /\ Now(t) = StoreOf("sync2", 1, "release")
    BY <2>6, GoodStoreOf
  <2>7. CASE t = "c" /\ place[t] = 1 /\ Now(t) = WaitFor("sync2", 1, "acquire")
    BY <2>7, GoodWaitFor
  <2>8. CASE t = "c" /\ place[t] = 2 /\ Now(t) = Expect("sdata0", {42}, "relaxed")
    BY <2>8, <1>2, <1>1, GoodExpectTop DEF Inv203
  <2>9. CASE t = "c" /\ place[t] = 3 /\ Now(t) = Expect("sdata1", {97}, "relaxed")
    BY <2>9, <1>2, <1>1, GoodExpectTop DEF Inv203
  <2> QED
    BY <1>1, <1>3, <2>1, <2>2, <2>3, <2>4, <2>5, <2>6, <2>7, <2>8, <2>9, Text203
<1> QED
  BY <1>3, GoodAll

-------------------------------------------------------------------------------
(* p204: an exchange in between. *)

\* Where a thread of p204 may be, and at which statement.
LEMMA Text204 ==
  ASSUME program = "p204", NEW t \in ThreadNames, place[t] \in Nat \ {0}, ~Ended(t)
  PROVE  \/ t = "a" /\ place[t] = 1 /\ Now(t) = StoreOf("sdata0", 42, "relaxed")
         \/ t = "a" /\ place[t] = 2 /\ Now(t) = StoreOf("sdata1", 97, "relaxed")
         \/ t = "a" /\ place[t] = 3 /\ Now(t) = StoreOf("sync", 1, "release")
         \/ t = "b" /\ place[t] = 1 /\ Now(t) = Replace("sync", 1, 2, "acq_rel")
         \/ t = "c" /\ place[t] = 1 /\ Now(t) = WaitFor("sync", 2, "acquire")
         \/ t = "c" /\ place[t] = 2 /\ Now(t) = Expect("sdata0", {42}, "relaxed")
         \/ t = "c" /\ place[t] = 3 /\ Now(t) = Expect("sdata1", {97}, "relaxed")
<1>1. Programs["p204"] = p204
  BY DEF Programs
<1>2. /\ p204["a"] = <<StoreOf("sdata0", 42, "relaxed"), StoreOf("sdata1", 97, "relaxed"), StoreOf("sync", 1, "release")>>
      /\ p204["b"] = <<Replace("sync", 1, 2, "acq_rel")>>
      /\ p204["c"] = <<WaitFor("sync", 2, "acquire"), Expect("sdata0", {42}, "relaxed"), Expect("sdata1", {97}, "relaxed")>>
      /\ DOMAIN p204 = {"a", "b", "c"}
  BY DEF p204
<1>3. /\ t \in DOMAIN p204 => Text(program, t) = p204[t]
      /\ t \notin DOMAIN p204 => Text(program, t) = <<>>
  BY <1>1 DEF Text
<1>4. ASSUME t = "a"
      PROVE  \/ place[t] = 1 /\ Now(t) = StoreOf("sdata0", 42, "relaxed")
             \/ place[t] = 2 /\ Now(t) = StoreOf("sdata1", 97, "relaxed")
             \/ place[t] = 3 /\ Now(t) = StoreOf("sync", 1, "release")
  BY <1>4, <1>2, <1>3, Place3
<1>5. ASSUME t = "b"
      PROVE  \/ place[t] = 1 /\ Now(t) = Replace("sync", 1, 2, "acq_rel")
  BY <1>5, <1>2, <1>3, Place1
<1>6. ASSUME t = "c"
      PROVE  \/ place[t] = 1 /\ Now(t) = WaitFor("sync", 2, "acquire")
             \/ place[t] = 2 /\ Now(t) = Expect("sdata0", {42}, "relaxed")
             \/ place[t] = 3 /\ Now(t) = Expect("sdata1", {97}, "relaxed")
  BY <1>6, <1>2, <1>3, Place3
<1>7. ASSUME t \notin DOMAIN p204 PROVE FALSE
  BY <1>7, <1>3, Place0
<1> QED
  BY <1>2, <1>4, <1>5, <1>6, <1>7

\* The locations of p204.
LEMMA Locations204 == {"sdata0", "sdata1", "sync"} \subseteq LocationsOf("p204")
<1>1. Programs["p204"] = p204
  BY DEF Programs
<1>2. /\ Text("p204", "a") = <<StoreOf("sdata0", 42, "relaxed"), StoreOf("sdata1", 97, "relaxed"), StoreOf("sync", 1, "release")>>
      /\ "a" \in ThreadNames
  <2>1. /\ p204["a"] = <<StoreOf("sdata0", 42, "relaxed"), StoreOf("sdata1", 97, "relaxed"), StoreOf("sync", 1, "release")>>
        /\ {"a"} \subseteq DOMAIN p204
    BY DEF p204
  <2> QED
    BY <1>1, <2>1 DEF Text, ThreadNames
<1>3. "sdata0" \in LocationsOf("p204")
  <2>1. 1 \in DOMAIN Text("p204", "a") /\ Text("p204", "a")[1] = StoreOf("sdata0", 42, "relaxed")
    BY <1>2
  <2>2. "at" \in DOMAIN StoreOf("sdata0", 42, "relaxed") /\ StoreOf("sdata0", 42, "relaxed").at = "sdata0"
    BY DEF StoreOf
  <2> QED
    BY <1>2, <2>1, <2>2, AtIsLocation
<1>4. "sdata1" \in LocationsOf("p204")
  <2>1. 2 \in DOMAIN Text("p204", "a") /\ Text("p204", "a")[2] = StoreOf("sdata1", 97, "relaxed")
    BY <1>2
  <2>2. "at" \in DOMAIN StoreOf("sdata1", 97, "relaxed") /\ StoreOf("sdata1", 97, "relaxed").at = "sdata1"
    BY DEF StoreOf
  <2> QED
    BY <1>2, <2>1, <2>2, AtIsLocation
<1>5. "sync" \in LocationsOf("p204")
  <2>1. 3 \in DOMAIN Text("p204", "a") /\ Text("p204", "a")[3] = StoreOf("sync", 1, "release")
    BY <1>2
  <2>2. "at" \in DOMAIN StoreOf("sync", 1, "release") /\ StoreOf("sync", 1, "release").at = "sync"
    BY DEF StoreOf
  <2> QED
    BY <1>2, <2>1, <2>2, AtIsLocation
<1> QED
  BY <1>3, <1>4, <1>5

\* The flag passes on the data, and so does what the exchange made of it.
Inv204 == /\ Base("p204")
          /\ Seen("sdata0", "a") /\ Seen("sdata1", "a")
          /\ place["a"] >= 2 => Top("sdata0") = 42
          /\ place["a"] >= 3 => Top("sdata1") = 97
          /\ 1 \in Vals("sync") \/ 2 \in Vals("sync") => place["a"] >= 4
          /\ Passes("sync", 1, "sdata0") /\ Passes("sync", 1, "sdata1")
          /\ Passes("sync", 2, "sdata0") /\ Passes("sync", 2, "sdata1")
          /\ place["c"] >= 2 => place["a"] >= 4 /\ Seen("sdata0", "c") /\ Seen("sdata1", "c")

\* The invariant of p204 holds at the start.
LEMMA Init204 ==
  ASSUME OrdersInit, program = "p204"
  PROVE  Inv204
<1>1. /\ {"sdata0", "sdata1", "sync"} \subseteq LocationsOf("p204")
      /\ {"a", "b", "c"} \subseteq ThreadNames
  BY Locations204 DEF ThreadNames
<1>2. Base("p204") /\ place["a"] = 1 /\ place["b"] = 1 /\ place["c"] = 1
  BY <1>1, InitBase
<1>3. /\ Vals("sdata0") = {0} /\ Top("sdata0") = 0 /\ Vals("sdata1") = {0} /\ Top("sdata1") = 0
      /\ Vals("sync") = {0} /\ Top("sync") = 0
  BY <1>1, InitBase
<1>4. Seen("sdata0", "a") /\ Seen("sdata0", "c") /\ Seen("sdata1", "a") /\ Seen("sdata1", "c")
  BY <1>1, InitBase
<1>5. /\ Passes("sync", 1, "sdata0") /\ Passes("sync", 1, "sdata1") /\ Passes("sync", 2, "sdata0")
      /\ Passes("sync", 2, "sdata1")
  BY <1>3, PassesNone
<1> QED
  BY <1>2, <1>3, <1>4, <1>5 DEF Inv204

\* Every step of p204 keeps its invariant.
LEMMA Step204 ==
  ASSUME Inv204, NEW t \in ThreadNames, ThreadStep(t)
  PROVE  Inv204'
<1>1. /\ Base("p204") /\ program = "p204" /\ ThreadStep(t) /\ place[t] \in Nat \ {0}
      /\ place["a"] \in Nat /\ place["b"] \in Nat /\ place["c"] \in Nat
  BY DEF Inv204, Base, ThreadNames
<1>2. /\ {"sdata0", "sdata1", "sync"} \subseteq LocationsOf("p204")
      /\ {"a", "b", "c"} \subseteq ThreadNames
  BY Locations204 DEF ThreadNames
<1>3. CASE t = "a" /\ place[t] = 1 /\ Now(t) = StoreOf("sdata0", 42, "relaxed")
  <2>1. Base("p204") /\ ThreadStep("a") /\ Now("a") = StoreOf("sdata0", 42, "relaxed") /\ place["a"] = 1
    BY <1>1, <1>3
  <2>2. /\ Base("p204")' /\ Moves("a") /\ Writes(LocationsOf("p204"), "a", "sdata0", 42)
        /\ UNCHANGED <<unseen, reg, processed>>
    BY <2>1, <1>2, StoreWrites
  <2>3. /\ place'["a"] = 2
        /\ place'["b"] = place["b"]
        /\ place'["c"] = place["c"]
    BY <2>1, <2>2, <1>2 DEF Moves
  <2>4. Seen("sdata0", "a")' /\ Top("sdata0")' = 42
    BY <2>1, <2>2, <1>2, WritesOwn
  <2>5. /\ Vals("sync")' = Vals("sync")
        /\ Top("sdata1")' = Top("sdata1")
    BY <2>1, <2>2, <1>2, WritesKeeps
  <2>6. /\ Seen("sdata1", "a") => Seen("sdata1", "a")'
        /\ Seen("sdata1", "c") => Seen("sdata1", "c")'
    BY <2>1, <2>2, <1>2, WritesSeen
  <2>7. /\ Passes("sync", 1, "sdata0") /\ 1 \notin Vals("sync") => Passes("sync", 1, "sdata0")'
        /\ Passes("sync", 1, "sdata1") => Passes("sync", 1, "sdata1")'
        /\ Passes("sync", 2, "sdata0") /\ 2 \notin Vals("sync") => Passes("sync", 2, "sdata0")'
        /\ Passes("sync", 2, "sdata1") => Passes("sync", 2, "sdata1")'
    BY <2>1, <2>2, <1>2, WritesPasses
  <2> QED
    BY <1>1, <2>1, <2>2, <2>3, <2>4, <2>5, <2>6, <2>7 DEF Inv204
<1>4. CASE t = "a" /\ place[t] = 2 /\ Now(t) = StoreOf("sdata1", 97, "relaxed")
  <2>1. Base("p204") /\ ThreadStep("a") /\ Now("a") = StoreOf("sdata1", 97, "relaxed") /\ place["a"] = 2
    BY <1>1, <1>4
  <2>2. /\ Base("p204")' /\ Moves("a") /\ Writes(LocationsOf("p204"), "a", "sdata1", 97)
        /\ UNCHANGED <<unseen, reg, processed>>
    BY <2>1, <1>2, StoreWrites
  <2>3. /\ place'["a"] = 3
        /\ place'["b"] = place["b"]
        /\ place'["c"] = place["c"]
    BY <2>1, <2>2, <1>2 DEF Moves
  <2>4. Seen("sdata1", "a")' /\ Top("sdata1")' = 97
    BY <2>1, <2>2, <1>2, WritesOwn
  <2>5. /\ Vals("sync")' = Vals("sync")
        /\ Top("sdata0")' = Top("sdata0")
    BY <2>1, <2>2, <1>2, WritesKeeps
  <2>6. /\ Seen("sdata0", "a") => Seen("sdata0", "a")'
        /\ Seen("sdata0", "c") => Seen("sdata0", "c")'
    BY <2>1, <2>2, <1>2, WritesSeen
  <2>7. /\ Passes("sync", 1, "sdata0") => Passes("sync", 1, "sdata0")'
        /\ Passes("sync", 1, "sdata1") /\ 1 \notin Vals("sync") => Passes("sync", 1, "sdata1")'
        /\ Passes("sync", 2, "sdata0") => Passes("sync", 2, "sdata0")'
        /\ Passes("sync", 2, "sdata1") /\ 2 \notin Vals("sync") => Passes("sync", 2, "sdata1")'
    BY <2>1, <2>2, <1>2, WritesPasses
  <2> QED
    BY <1>1, <2>1, <2>2, <2>3, <2>4, <2>5, <2>6, <2>7 DEF Inv204
<1>5. CASE t = "a" /\ place[t] = 3 /\ Now(t) = StoreOf("sync", 1, "release")
  <2>1. Base("p204") /\ ThreadStep("a") /\ Now("a") = StoreOf("sync", 1, "release") /\ place["a"] = 3
    BY <1>1, <1>5
  <2>2. "release" \in Releases
    BY DEF Releases
  <2>3. /\ Base("p204")' /\ Moves("a") /\ Writes(LocationsOf("p204"), "a", "sync", 1)
        /\ UNCHANGED <<unseen, reg, processed>>
    BY <2>1, <1>2, StoreWrites
  <2>4. /\ place'["a"] = 4
        /\ place'["b"] = place["b"]
        /\ place'["c"] = place["c"]
    BY <2>1, <2>3, <1>2 DEF Moves
  <2>5. Passes("sync", 1, "sdata0") /\ Seen("sdata0", "a") => Passes("sync", 1, "sdata0")'
    BY <2>1, <2>3, <1>2, <2>2, ReleasePasses
  <2>6. Passes("sync", 1, "sdata1") /\ Seen("sdata1", "a") => Passes("sync", 1, "sdata1")'
    BY <2>1, <2>3, <1>2, <2>2, ReleasePasses
  <2>7. Passes("sync", 2, "sdata0") /\ Seen("sdata0", "a") => Passes("sync", 2, "sdata0")'
    BY <2>1, <2>3, <1>2, <2>2, ReleasePasses
  <2>8. Passes("sync", 2, "sdata1") /\ Seen("sdata1", "a") => Passes("sync", 2, "sdata1")'
    BY <2>1, <2>3, <1>2, <2>2, ReleasePasses
  <2>9. Vals("sync")' = Vals("sync") \cup {1}
    BY <2>1, <2>3, <1>2, WritesOwn
  <2>10. /\ Top("sdata0")' = Top("sdata0")
         /\ Top("sdata1")' = Top("sdata1")
    BY <2>1, <2>3, <1>2, WritesKeeps
  <2>11. /\ Seen("sdata0", "a") => Seen("sdata0", "a")'
         /\ Seen("sdata0", "c") => Seen("sdata0", "c")'
         /\ Seen("sdata1", "a") => Seen("sdata1", "a")'
         /\ Seen("sdata1", "c") => Seen("sdata1", "c")'
    BY <2>1, <2>3, <1>2, WritesSeen
  <2> QED
    BY <1>1, <2>1, <2>2, <2>3, <2>4, <2>5, <2>6, <2>7, <2>8, <2>9, <2>10, <2>11 DEF Inv204
<1>6. CASE t = "b" /\ place[t] = 1 /\ Now(t) = Replace("sync", 1, 2, "acq_rel")
  <2>1. Base("p204") /\ ThreadStep("b") /\ Now("b") = Replace("sync", 1, 2, "acq_rel") /\ place["b"] = 1
    BY <1>1, <1>6
  <2>2. /\ Base("p204")' /\ Moves("b") /\ Writes(LocationsOf("p204"), "b", "sync", 2) /\ Top("sync") = 1
        /\ UNCHANGED <<reg, processed>>
    BY <2>1, <1>2, ReplaceStepIs DEF Top
  <2>3. 1 \in Vals("sync")
    BY <2>1, <2>2, <1>2, TopIs
  <2>4. /\ place'["b"] = 2
        /\ place'["a"] = place["a"]
        /\ place'["c"] = place["c"]
    BY <2>1, <2>2, <1>2 DEF Moves
  <2>5. Passes("sync", 1, "sdata0") => Leads("sync", "sdata0")
    BY <2>1, <2>2, <1>2, TopIs
  <2>6. Passes("sync", 1, "sdata0") /\ Leads("sync", "sdata0") => Passes("sync", 1, "sdata0")'
    BY <2>1, <2>2, <1>2, ReplacePasses
  <2>7. Passes("sync", 1, "sdata1") => Leads("sync", "sdata1")
    BY <2>1, <2>2, <1>2, TopIs
  <2>8. Passes("sync", 1, "sdata1") /\ Leads("sync", "sdata1") => Passes("sync", 1, "sdata1")'
    BY <2>1, <2>2, <1>2, ReplacePasses
  <2>9. Passes("sync", 1, "sdata0") => Leads("sync", "sdata0")
    BY <2>1, <2>2, <1>2, TopIs
  <2>10. Passes("sync", 2, "sdata0") /\ Leads("sync", "sdata0") => Passes("sync", 2, "sdata0")'
    BY <2>1, <2>2, <1>2, ReplacePasses
  <2>11. Passes("sync", 1, "sdata1") => Leads("sync", "sdata1")
    BY <2>1, <2>2, <1>2, TopIs
  <2>12. Passes("sync", 2, "sdata1") /\ Leads("sync", "sdata1") => Passes("sync", 2, "sdata1")'
    BY <2>1, <2>2, <1>2, ReplacePasses
  <2>13. Vals("sync")' = Vals("sync") \cup {2}
    BY <2>1, <2>2, <1>2, WritesOwn
  <2>14. /\ Top("sdata0")' = Top("sdata0")
         /\ Top("sdata1")' = Top("sdata1")
    BY <2>1, <2>2, <1>2, WritesKeeps
  <2>15. /\ Seen("sdata0", "a") => Seen("sdata0", "a")'
         /\ Seen("sdata0", "c") => Seen("sdata0", "c")'
         /\ Seen("sdata1", "a") => Seen("sdata1", "a")'
         /\ Seen("sdata1", "c") => Seen("sdata1", "c")'
    BY <2>1, <2>2, <1>2, WritesSeen
  <2> QED
    BY <1>1, <2>1, <2>2, <2>3, <2>4, <2>5, <2>6, <2>7, <2>8, <2>9, <2>10, <2>11, <2>12, <2>13, <2>14,
       <2>15 DEF Inv204
<1>7. CASE t = "c" /\ place[t] = 1 /\ Now(t) = WaitFor("sync", 2, "acquire")
  <2>1. Base("p204") /\ ThreadStep("c") /\ Now("c") = WaitFor("sync", 2, "acquire") /\ place["c"] = 1
    BY <1>1, <1>7
  <2>2. /\ Base("p204")' /\ Moves("c") /\ Quiet(LocationsOf("p204"), "c")
        /\ UNCHANGED <<fenced, scLast, processed>>
        /\ \A u \in ThreadNames \ {"c"} : reg'[u] = reg[u] /\ unseen'[u] = unseen[u]
    BY <2>1, <1>2, WaitForQuiet
  <2>3. /\ place'["c"] = 2
        /\ place'["a"] = place["a"]
        /\ place'["b"] = place["b"]
    BY <2>1, <2>2, <1>2 DEF Moves
  <2>4. /\ Vals("sync")' = Vals("sync")
        /\ Top("sdata0")' = Top("sdata0")
        /\ Top("sdata1")' = Top("sdata1")
    BY <2>1, <2>2, <1>2, QuietKeeps
  <2>5. /\ Seen("sdata0", "a") => Seen("sdata0", "a")'
        /\ Seen("sdata0", "c") => Seen("sdata0", "c")'
        /\ Seen("sdata1", "a") => Seen("sdata1", "a")'
        /\ Seen("sdata1", "c") => Seen("sdata1", "c")'
    BY <2>1, <2>2, <1>2, QuietSeen
  <2>6. /\ Passes("sync", 1, "sdata0") => Passes("sync", 1, "sdata0")'
        /\ Passes("sync", 1, "sdata1") => Passes("sync", 1, "sdata1")'
        /\ Passes("sync", 2, "sdata0") => Passes("sync", 2, "sdata0")'
        /\ Passes("sync", 2, "sdata1") => Passes("sync", 2, "sdata1")'
    BY <2>1, <2>2, <1>2, QuietPasses
  <2>7. 2 \in Vals("sync")
    BY <2>1, <2>2, <1>2, WaitFound
  <2>8. "acquire" \in Acquires
    BY DEF Acquires
  <2>9. Passes("sync", 2, "sdata0") => Seen("sdata0", "c")'
    BY <2>1, <2>2, <1>2, <2>8, WaitSees
  <2>10. "acquire" \in Acquires
    BY DEF Acquires
  <2>11. Passes("sync", 2, "sdata1") => Seen("sdata1", "c")'
    BY <2>1, <2>2, <1>2, <2>10, WaitSees
  <2> QED
    BY <1>1, <2>1, <2>2, <2>3, <2>4, <2>5, <2>6, <2>7, <2>8, <2>9, <2>10, <2>11 DEF Inv204
<1>8. CASE t = "c" /\ place[t] = 2 /\ Now(t) = Expect("sdata0", {42}, "relaxed")
  <2>1. Base("p204") /\ ThreadStep("c") /\ Now("c") = Expect("sdata0", {42}, "relaxed") /\ place["c"] = 2
    BY <1>1, <1>8
  <2>2. /\ Base("p204")' /\ Moves("c") /\ Quiet(LocationsOf("p204"), "c")
        /\ UNCHANGED <<fenced, scLast, processed>>
        /\ \A u \in ThreadNames \ {"c"} : reg'[u] = reg[u] /\ unseen'[u] = unseen[u]
    BY <2>1, <1>2, ExpectQuiet
  <2>3. /\ place'["c"] = 3
        /\ place'["a"] = place["a"]
        /\ place'["b"] = place["b"]
    BY <2>1, <2>2, <1>2 DEF Moves
  <2>4. /\ Vals("sync")' = Vals("sync")
        /\ Top("sdata0")' = Top("sdata0")
        /\ Top("sdata1")' = Top("sdata1")
    BY <2>1, <2>2, <1>2, QuietKeeps
  <2>5. /\ Seen("sdata0", "a") => Seen("sdata0", "a")'
        /\ Seen("sdata0", "c") => Seen("sdata0", "c")'
        /\ Seen("sdata1", "a") => Seen("sdata1", "a")'
        /\ Seen("sdata1", "c") => Seen("sdata1", "c")'
    BY <2>1, <2>2, <1>2, QuietSeen
  <2>6. /\ Passes("sync", 1, "sdata0") => Passes("sync", 1, "sdata0")'
        /\ Passes("sync", 1, "sdata1") => Passes("sync", 1, "sdata1")'
        /\ Passes("sync", 2, "sdata0") => Passes("sync", 2, "sdata0")'
        /\ Passes("sync", 2, "sdata1") => Passes("sync", 2, "sdata1")'
    BY <2>1, <2>2, <1>2, QuietPasses
  <2> QED
    BY <1>1, <2>1, <2>2, <2>3, <2>4, <2>5, <2>6 DEF Inv204
<1>9. CASE t = "c" /\ place[t] = 3 /\ Now(t) = Expect("sdata1", {97}, "relaxed")
  <2>1. Base("p204") /\ ThreadStep("c") /\ Now("c") = Expect("sdata1", {97}, "relaxed") /\ place["c"] = 3
    BY <1>1, <1>9
  <2>2. /\ Base("p204")' /\ Moves("c") /\ Quiet(LocationsOf("p204"), "c")
        /\ UNCHANGED <<fenced, scLast, processed>>
        /\ \A u \in ThreadNames \ {"c"} : reg'[u] = reg[u] /\ unseen'[u] = unseen[u]
    BY <2>1, <1>2, ExpectQuiet
  <2>3. /\ place'["c"] = 4
        /\ place'["a"] = place["a"]
        /\ place'["b"] = place["b"]
    BY <2>1, <2>2, <1>2 DEF Moves
  <2>4. /\ Vals("sync")' = Vals("sync")
        /\ Top("sdata0")' = Top("sdata0")
        /\ Top("sdata1")' = Top("sdata1")
    BY <2>1, <2>2, <1>2, QuietKeeps
  <2>5. /\ Seen("sdata0", "a") => Seen("sdata0", "a")'
        /\ Seen("sdata0", "c") => Seen("sdata0", "c")'
        /\ Seen("sdata1", "a") => Seen("sdata1", "a")'
        /\ Seen("sdata1", "c") => Seen("sdata1", "c")'
    BY <2>1, <2>2, <1>2, QuietSeen
  <2>6. /\ Passes("sync", 1, "sdata0") => Passes("sync", 1, "sdata0")'
        /\ Passes("sync", 1, "sdata1") => Passes("sync", 1, "sdata1")'
        /\ Passes("sync", 2, "sdata0") => Passes("sync", 2, "sdata0")'
        /\ Passes("sync", 2, "sdata1") => Passes("sync", 2, "sdata1")'
    BY <2>1, <2>2, <1>2, QuietPasses
  <2> QED
    BY <1>1, <2>1, <2>2, <2>3, <2>4, <2>5, <2>6 DEF Inv204
<1> QED
  BY <1>1, <1>3, <1>4, <1>5, <1>6, <1>7, <1>8, <1>9, NotEnded, Text204

\* The invariant of p204 makes every statement that is next good.
LEMMA Holds204 ==
  ASSUME Inv204
  PROVE  NoDataRace /\ AssertionsHold
<1>1. Base("p204") /\ program = "p204" /\ place["a"] \in Nat /\ place["b"] \in Nat /\ place["c"] \in Nat
  BY DEF Inv204, Base, ThreadNames
<1>2. /\ {"sdata0", "sdata1", "sync"} \subseteq LocationsOf("p204")
      /\ {"a", "b", "c"} \subseteq ThreadNames
  BY Locations204 DEF ThreadNames
<1>3. ASSUME NEW t \in ThreadNames, ~Ended(t) PROVE Good(t)
  <2>1. place[t] \in Nat \ {0}
    BY <1>1 DEF Base
  <2>2. CASE t = "a" /\ place[t] = 1 /\ Now(t) = StoreOf("sdata0", 42, "relaxed")
    BY <2>2, GoodStoreOf
  <2>3. CASE t = "a" /\ place[t] = 2 /\ Now(t) = StoreOf("sdata1", 97, "relaxed")
    BY <2>3, GoodStoreOf
  <2>4. CASE t = "a" /\ place[t] = 3 /\ Now(t) = StoreOf("sync", 1, "release")
    BY <2>4, GoodStoreOf
  <2>5. CASE t = "b" /\ place[t] = 1 /\ Now(t) = Replace("sync", 1, 2, "acq_rel")
    BY <2>5, GoodReplace
  <2>6. CASE t = "c" /\ place[t] = 1 /\ Now(t) = WaitFor("sync", 2, "acquire")
    BY <2>6, GoodWaitFor
  <2>7. CASE t = "c" /\ place[t] = 2 /\ Now(t) = Expect("sdata0", {42}, "relaxed")
    BY <2>7, <1>2, <1>1, GoodExpectTop DEF Inv204
  <2>8. CASE t = "c" /\ place[t] = 3 /\ Now(t) = Expect("sdata1", {97}, "relaxed")
    BY <2>8, <1>2, <1>1, GoodExpectTop DEF Inv204
  <2> QED
    BY <1>1, <1>3, <2>1, <2>2, <2>3, <2>4, <2>5, <2>6, <2>7, <2>8, Text204
<1> QED
  BY <1>3, GoodAll

-------------------------------------------------------------------------------
(* p207: a pointer consumed. *)

\* Where a thread of p207 may be, and at which statement.
LEMMA Text207 ==
  ASSUME program = "p207", NEW t \in ThreadNames, place[t] \in Nat \ {0}, ~Ended(t)
  PROVE  \/ t = "a" /\ place[t] = 1 /\ Now(t) = Put("x->i", 42)
         \/ t = "a" /\ place[t] = 2 /\ Now(t) = Put("x->s", 1)
         \/ t = "a" /\ place[t] = 3 /\ Now(t) = StoreOf("a", 99, "relaxed")
         \/ t = "a" /\ place[t] = 4 /\ Now(t) = StoreOf("p", 1, "release")
         \/ t = "b" /\ place[t] = 1 /\ Now(t) = WaitFor("p", 1, "consume")
         \/ t = "b" /\ place[t] = 2 /\ Now(t) = GetDependent("x->i")
         \/ t = "b" /\ place[t] = 3 /\ Now(t) = GetDependent("x->s")
         \/ t = "b" /\ place[t] = 4 /\ Now(t) = LoadOf("a", "relaxed")
<1>1. Programs["p207"] = p207
  BY DEF Programs
<1>2. /\ p207["a"] = <<Put("x->i", 42), Put("x->s", 1), StoreOf("a", 99, "relaxed"), StoreOf("p", 1, "release")>>
      /\ p207["b"] = <<WaitFor("p", 1, "consume"), GetDependent("x->i"), GetDependent("x->s"), LoadOf("a", "relaxed")>>
      /\ DOMAIN p207 = {"a", "b"}
  BY DEF p207
<1>3. /\ t \in DOMAIN p207 => Text(program, t) = p207[t]
      /\ t \notin DOMAIN p207 => Text(program, t) = <<>>
  BY <1>1 DEF Text
<1>4. ASSUME t = "a"
      PROVE  \/ place[t] = 1 /\ Now(t) = Put("x->i", 42)
             \/ place[t] = 2 /\ Now(t) = Put("x->s", 1)
             \/ place[t] = 3 /\ Now(t) = StoreOf("a", 99, "relaxed")
             \/ place[t] = 4 /\ Now(t) = StoreOf("p", 1, "release")
  BY <1>4, <1>2, <1>3, Place4
<1>5. ASSUME t = "b"
      PROVE  \/ place[t] = 1 /\ Now(t) = WaitFor("p", 1, "consume")
             \/ place[t] = 2 /\ Now(t) = GetDependent("x->i")
             \/ place[t] = 3 /\ Now(t) = GetDependent("x->s")
             \/ place[t] = 4 /\ Now(t) = LoadOf("a", "relaxed")
  BY <1>5, <1>2, <1>3, Place4
<1>6. ASSUME t \notin DOMAIN p207 PROVE FALSE
  BY <1>6, <1>3, Place0
<1> QED
  BY <1>2, <1>4, <1>5, <1>6

\* The locations of p207.
LEMMA Locations207 == {"x->i", "x->s", "a", "p"} \subseteq LocationsOf("p207")
<1>1. Programs["p207"] = p207
  BY DEF Programs
<1>2. /\ Text("p207", "a") = <<Put("x->i", 42), Put("x->s", 1), StoreOf("a", 99, "relaxed"), StoreOf("p", 1, "release")>>
      /\ "a" \in ThreadNames
  <2>1. /\ p207["a"] = <<Put("x->i", 42), Put("x->s", 1), StoreOf("a", 99, "relaxed"), StoreOf("p", 1, "release")>>
        /\ {"a"} \subseteq DOMAIN p207
    BY DEF p207
  <2> QED
    BY <1>1, <2>1 DEF Text, ThreadNames
<1>3. "x->i" \in LocationsOf("p207")
  <2>1. 1 \in DOMAIN Text("p207", "a") /\ Text("p207", "a")[1] = Put("x->i", 42)
    BY <1>2
  <2>2. "at" \in DOMAIN Put("x->i", 42) /\ Put("x->i", 42).at = "x->i"
    BY DEF Put
  <2> QED
    BY <1>2, <2>1, <2>2, AtIsLocation
<1>4. "x->s" \in LocationsOf("p207")
  <2>1. 2 \in DOMAIN Text("p207", "a") /\ Text("p207", "a")[2] = Put("x->s", 1)
    BY <1>2
  <2>2. "at" \in DOMAIN Put("x->s", 1) /\ Put("x->s", 1).at = "x->s"
    BY DEF Put
  <2> QED
    BY <1>2, <2>1, <2>2, AtIsLocation
<1>5. "a" \in LocationsOf("p207")
  <2>1. 3 \in DOMAIN Text("p207", "a") /\ Text("p207", "a")[3] = StoreOf("a", 99, "relaxed")
    BY <1>2
  <2>2. "at" \in DOMAIN StoreOf("a", 99, "relaxed") /\ StoreOf("a", 99, "relaxed").at = "a"
    BY DEF StoreOf
  <2> QED
    BY <1>2, <2>1, <2>2, AtIsLocation
<1>6. "p" \in LocationsOf("p207")
  <2>1. 4 \in DOMAIN Text("p207", "a") /\ Text("p207", "a")[4] = StoreOf("p", 1, "release")
    BY <1>2
  <2>2. "at" \in DOMAIN StoreOf("p", 1, "release") /\ StoreOf("p", 1, "release").at = "p"
    BY DEF StoreOf
  <2> QED
    BY <1>2, <2>1, <2>2, AtIsLocation
<1> QED
  BY <1>3, <1>4, <1>5, <1>6

\* p passes on the object, and that comes with the consumed pointer.
Inv207 == /\ Base("p207")
          /\ Seen("x->i", "a") /\ Seen("x->s", "a")
          /\ 1 \in Vals("p") => place["a"] >= 5
          /\ Passes("p", 1, "x->i") /\ Passes("p", 1, "x->s")
          /\ place["b"] >= 2 => place["a"] >= 5
          /\ place["b"] \in {2, 3} => Ordered("x->i", depends["b"]) /\ Ordered("x->s", depends["b"])

\* The invariant of p207 holds at the start.
LEMMA Init207 ==
  ASSUME OrdersInit, program = "p207"
  PROVE  Inv207
<1>1. /\ {"x->i", "x->s", "a", "p"} \subseteq LocationsOf("p207")
      /\ {"a", "b"} \subseteq ThreadNames
  BY Locations207 DEF ThreadNames
<1>2. Base("p207") /\ place["a"] = 1 /\ place["b"] = 1
  BY <1>1, InitBase
<1>3. /\ Vals("x->i") = {0} /\ Top("x->i") = 0 /\ Vals("x->s") = {0} /\ Top("x->s") = 0
      /\ Vals("a") = {0} /\ Top("a") = 0 /\ Vals("p") = {0} /\ Top("p") = 0
  BY <1>1, InitBase
<1>4. Seen("x->i", "a") /\ Seen("x->s", "a")
  BY <1>1, InitBase
<1>5. Passes("p", 1, "x->i") /\ Passes("p", 1, "x->s")
  BY <1>3, PassesNone
<1> QED
  BY <1>2, <1>3, <1>4, <1>5 DEF Inv207

\* Every step of p207 keeps its invariant.
LEMMA Step207 ==
  ASSUME Inv207, NEW t \in ThreadNames, ThreadStep(t)
  PROVE  Inv207'
<1>1. /\ Base("p207") /\ program = "p207" /\ ThreadStep(t) /\ place[t] \in Nat \ {0}
      /\ place["a"] \in Nat /\ place["b"] \in Nat
  BY DEF Inv207, Base, ThreadNames
<1>2. /\ {"x->i", "x->s", "a", "p"} \subseteq LocationsOf("p207")
      /\ {"a", "b"} \subseteq ThreadNames
  BY Locations207 DEF ThreadNames
<1>3. CASE t = "a" /\ place[t] = 1 /\ Now(t) = Put("x->i", 42)
  <2>1. Base("p207") /\ ThreadStep("a") /\ Now("a") = Put("x->i", 42) /\ place["a"] = 1
    BY <1>1, <1>3
  <2>2. /\ Base("p207")' /\ Moves("a") /\ Writes(LocationsOf("p207"), "a", "x->i", 42)
        /\ UNCHANGED <<unseen, reg, processed>>
    BY <2>1, <1>2, PutStep
  <2>3. /\ place'["a"] = 2
        /\ place'["b"] = place["b"]
    BY <2>1, <2>2, <1>2 DEF Moves
  <2>4. Seen("x->i", "a")'
    BY <2>1, <2>2, <1>2, WritesOwn
  <2>5. Vals("p")' = Vals("p")
    BY <2>1, <2>2, <1>2, WritesKeeps
  <2>6. Seen("x->s", "a") => Seen("x->s", "a")'
    BY <2>1, <2>2, <1>2, WritesSeen
  <2>7. /\ Passes("p", 1, "x->i") /\ 1 \notin Vals("p") => Passes("p", 1, "x->i")'
        /\ Passes("p", 1, "x->s") => Passes("p", 1, "x->s")'
    BY <2>1, <2>2, <1>2, WritesPasses
  <2>8. Ordered("x->s", depends["b"]) => Ordered("x->s", depends["b"])'
    BY <2>1, <2>2, <1>2 DEF Writes, Ordered
  <2> QED
    BY <1>1, <2>1, <2>2, <2>3, <2>4, <2>5, <2>6, <2>7, <2>8 DEF Inv207
<1>4. CASE t = "a" /\ place[t] = 2 /\ Now(t) = Put("x->s", 1)
  <2>1. Base("p207") /\ ThreadStep("a") /\ Now("a") = Put("x->s", 1) /\ place["a"] = 2
    BY <1>1, <1>4
  <2>2. /\ Base("p207")' /\ Moves("a") /\ Writes(LocationsOf("p207"), "a", "x->s", 1)
        /\ UNCHANGED <<unseen, reg, processed>>
    BY <2>1, <1>2, PutStep
  <2>3. /\ place'["a"] = 3
        /\ place'["b"] = place["b"]
    BY <2>1, <2>2, <1>2 DEF Moves
  <2>4. Seen("x->s", "a")'
    BY <2>1, <2>2, <1>2, WritesOwn
  <2>5. Vals("p")' = Vals("p")
    BY <2>1, <2>2, <1>2, WritesKeeps
  <2>6. Seen("x->i", "a") => Seen("x->i", "a")'
    BY <2>1, <2>2, <1>2, WritesSeen
  <2>7. /\ Passes("p", 1, "x->i") => Passes("p", 1, "x->i")'
        /\ Passes("p", 1, "x->s") /\ 1 \notin Vals("p") => Passes("p", 1, "x->s")'
    BY <2>1, <2>2, <1>2, WritesPasses
  <2>8. Ordered("x->i", depends["b"]) => Ordered("x->i", depends["b"])'
    BY <2>1, <2>2, <1>2 DEF Writes, Ordered
  <2> QED
    BY <1>1, <2>1, <2>2, <2>3, <2>4, <2>5, <2>6, <2>7, <2>8 DEF Inv207
<1>5. CASE t = "a" /\ place[t] = 3 /\ Now(t) = StoreOf("a", 99, "relaxed")
  <2>1. Base("p207") /\ ThreadStep("a") /\ Now("a") = StoreOf("a", 99, "relaxed") /\ place["a"] = 3
    BY <1>1, <1>5
  <2>2. /\ Base("p207")' /\ Moves("a") /\ Writes(LocationsOf("p207"), "a", "a", 99)
        /\ UNCHANGED <<unseen, reg, processed>>
    BY <2>1, <1>2, StoreWrites
  <2>3. /\ place'["a"] = 4
        /\ place'["b"] = place["b"]
    BY <2>1, <2>2, <1>2 DEF Moves
  <2>4. Vals("p")' = Vals("p")
    BY <2>1, <2>2, <1>2, WritesKeeps
  <2>5. /\ Seen("x->i", "a") => Seen("x->i", "a")'
        /\ Seen("x->s", "a") => Seen("x->s", "a")'
    BY <2>1, <2>2, <1>2, WritesSeen
  <2>6. /\ Passes("p", 1, "x->i") => Passes("p", 1, "x->i")'
        /\ Passes("p", 1, "x->s") => Passes("p", 1, "x->s")'
    BY <2>1, <2>2, <1>2, WritesPasses
  <2>7. Ordered("x->i", depends["b"]) => Ordered("x->i", depends["b"])'
    BY <2>1, <2>2, <1>2 DEF Writes, Ordered
  <2>8. Ordered("x->s", depends["b"]) => Ordered("x->s", depends["b"])'
    BY <2>1, <2>2, <1>2 DEF Writes, Ordered
  <2> QED
    BY <1>1, <2>1, <2>2, <2>3, <2>4, <2>5, <2>6, <2>7, <2>8 DEF Inv207
<1>6. CASE t = "a" /\ place[t] = 4 /\ Now(t) = StoreOf("p", 1, "release")
  <2>1. Base("p207") /\ ThreadStep("a") /\ Now("a") = StoreOf("p", 1, "release") /\ place["a"] = 4
    BY <1>1, <1>6
  <2>2. "release" \in Releases
    BY DEF Releases
  <2>3. /\ Base("p207")' /\ Moves("a") /\ Writes(LocationsOf("p207"), "a", "p", 1)
        /\ UNCHANGED <<unseen, reg, processed>>
    BY <2>1, <1>2, StoreWrites
  <2>4. /\ place'["a"] = 5
        /\ place'["b"] = place["b"]
    BY <2>1, <2>3, <1>2 DEF Moves
  <2>5. Passes("p", 1, "x->i") /\ Seen("x->i", "a") => Passes("p", 1, "x->i")'
    BY <2>1, <2>3, <1>2, <2>2, ReleasePasses
  <2>6. Passes("p", 1, "x->s") /\ Seen("x->s", "a") => Passes("p", 1, "x->s")'
    BY <2>1, <2>3, <1>2, <2>2, ReleasePasses
  <2>7. Vals("p")' = Vals("p") \cup {1}
    BY <2>1, <2>3, <1>2, WritesOwn
  <2>8. /\ Seen("x->i", "a") => Seen("x->i", "a")'
        /\ Seen("x->s", "a") => Seen("x->s", "a")'
    BY <2>1, <2>3, <1>2, WritesSeen
  <2>9. Ordered("x->i", depends["b"]) => Ordered("x->i", depends["b"])'
    BY <2>1, <2>3, <1>2 DEF Writes, Ordered
  <2>10. Ordered("x->s", depends["b"]) => Ordered("x->s", depends["b"])'
    BY <2>1, <2>3, <1>2 DEF Writes, Ordered
  <2> QED
    BY <1>1, <2>1, <2>2, <2>3, <2>4, <2>5, <2>6, <2>7, <2>8, <2>9, <2>10 DEF Inv207
<1>7. CASE t = "b" /\ place[t] = 1 /\ Now(t) = WaitFor("p", 1, "consume")
  <2>1. Base("p207") /\ ThreadStep("b") /\ Now("b") = WaitFor("p", 1, "consume") /\ place["b"] = 1
    BY <1>1, <1>7
  <2>2. /\ Base("p207")' /\ Moves("b") /\ Quiet(LocationsOf("p207"), "b")
        /\ UNCHANGED <<fenced, scLast, processed>>
        /\ \A u \in ThreadNames \ {"b"} : reg'[u] = reg[u] /\ unseen'[u] = unseen[u]
    BY <2>1, <1>2, WaitForQuiet
  <2>3. /\ place'["b"] = 2
        /\ place'["a"] = place["a"]
    BY <2>1, <2>2, <1>2 DEF Moves
  <2>4. Vals("p")' = Vals("p")
    BY <2>1, <2>2, <1>2, QuietKeeps
  <2>5. /\ Seen("x->i", "a") => Seen("x->i", "a")'
        /\ Seen("x->s", "a") => Seen("x->s", "a")'
    BY <2>1, <2>2, <1>2, QuietSeen
  <2>6. /\ Passes("p", 1, "x->i") => Passes("p", 1, "x->i")'
        /\ Passes("p", 1, "x->s") => Passes("p", 1, "x->s")'
    BY <2>1, <2>2, <1>2, QuietPasses
  <2>7. 1 \in Vals("p")
    BY <2>1, <2>2, <1>2, WaitFound
  <2>8. Passes("p", 1, "x->i") => Ordered("x->i", depends["b"])'
    BY <2>1, <2>2, <1>2, WaitUnseen
  <2>9. Passes("p", 1, "x->s") => Ordered("x->s", depends["b"])'
    BY <2>1, <2>2, <1>2, WaitUnseen
  <2> QED
    BY <1>1, <2>1, <2>2, <2>3, <2>4, <2>5, <2>6, <2>7, <2>8, <2>9 DEF Inv207
<1>8. CASE t = "b" /\ place[t] = 2 /\ Now(t) = GetDependent("x->i")
  <2>1. Base("p207") /\ ThreadStep("b") /\ Now("b") = GetDependent("x->i") /\ place["b"] = 2
    BY <1>1, <1>8
  <2>2. Base("p207")' /\ Moves("b") /\ UNCHANGED <<memory, processed>>
    BY <2>1, <1>2, GetStep
  <2>3. Quiet(LocationsOf("p207"), "b") /\ UNCHANGED <<fenced, unseen, depends, scLast>>
    BY <2>1, <2>2, <1>2, GetQuiet
  <2>4. /\ place'["b"] = 3
        /\ place'["a"] = place["a"]
    BY <2>1, <2>2, <2>3, <1>2 DEF Moves
  <2>5. Vals("p")' = Vals("p")
    BY <2>1, <2>2, <2>3, <1>2, QuietKeeps
  <2>6. /\ Seen("x->i", "a") => Seen("x->i", "a")'
        /\ Seen("x->s", "a") => Seen("x->s", "a")'
    BY <2>1, <2>2, <2>3, <1>2, QuietSeen
  <2>7. /\ Passes("p", 1, "x->i") => Passes("p", 1, "x->i")'
        /\ Passes("p", 1, "x->s") => Passes("p", 1, "x->s")'
    BY <2>1, <2>2, <2>3, <1>2, QuietPasses
  <2>8. Ordered("x->i", depends["b"]) => Ordered("x->i", depends["b"])'
    BY <2>1, <2>2, <2>3, <1>2 DEF Quiet, Ordered
  <2>9. Ordered("x->s", depends["b"]) => Ordered("x->s", depends["b"])'
    BY <2>1, <2>2, <2>3, <1>2 DEF Quiet, Ordered
  <2> QED
    BY <1>1, <2>1, <2>2, <2>3, <2>4, <2>5, <2>6, <2>7, <2>8, <2>9 DEF Inv207
<1>9. CASE t = "b" /\ place[t] = 3 /\ Now(t) = GetDependent("x->s")
  <2>1. Base("p207") /\ ThreadStep("b") /\ Now("b") = GetDependent("x->s") /\ place["b"] = 3
    BY <1>1, <1>9
  <2>2. Base("p207")' /\ Moves("b") /\ UNCHANGED <<memory, processed>>
    BY <2>1, <1>2, GetStep
  <2>3. Quiet(LocationsOf("p207"), "b") /\ UNCHANGED <<fenced, unseen, depends, scLast>>
    BY <2>1, <2>2, <1>2, GetQuiet
  <2>4. /\ place'["b"] = 4
        /\ place'["a"] = place["a"]
    BY <2>1, <2>2, <2>3, <1>2 DEF Moves
  <2>5. Vals("p")' = Vals("p")
    BY <2>1, <2>2, <2>3, <1>2, QuietKeeps
  <2>6. /\ Seen("x->i", "a") => Seen("x->i", "a")'
        /\ Seen("x->s", "a") => Seen("x->s", "a")'
    BY <2>1, <2>2, <2>3, <1>2, QuietSeen
  <2>7. /\ Passes("p", 1, "x->i") => Passes("p", 1, "x->i")'
        /\ Passes("p", 1, "x->s") => Passes("p", 1, "x->s")'
    BY <2>1, <2>2, <2>3, <1>2, QuietPasses
  <2>8. Ordered("x->i", depends["b"]) => Ordered("x->i", depends["b"])'
    BY <2>1, <2>2, <2>3, <1>2 DEF Quiet, Ordered
  <2>9. Ordered("x->s", depends["b"]) => Ordered("x->s", depends["b"])'
    BY <2>1, <2>2, <2>3, <1>2 DEF Quiet, Ordered
  <2> QED
    BY <1>1, <2>1, <2>2, <2>3, <2>4, <2>5, <2>6, <2>7, <2>8, <2>9 DEF Inv207
<1>10. CASE t = "b" /\ place[t] = 4 /\ Now(t) = LoadOf("a", "relaxed")
  <2>1. Base("p207") /\ ThreadStep("b") /\ Now("b") = LoadOf("a", "relaxed") /\ place["b"] = 4
    BY <1>1, <1>10
  <2>2. /\ Base("p207")' /\ Moves("b") /\ Quiet(LocationsOf("p207"), "b")
        /\ UNCHANGED <<fenced, scLast, processed>>
        /\ \A u \in ThreadNames \ {"b"} : reg'[u] = reg[u] /\ unseen'[u] = unseen[u]
    BY <2>1, <1>2, LoadOfQuiet
  <2>3. /\ place'["b"] = 5
        /\ place'["a"] = place["a"]
    BY <2>1, <2>2, <1>2 DEF Moves
  <2>4. Vals("p")' = Vals("p")
    BY <2>1, <2>2, <1>2, QuietKeeps
  <2>5. /\ Seen("x->i", "a") => Seen("x->i", "a")'
        /\ Seen("x->s", "a") => Seen("x->s", "a")'
    BY <2>1, <2>2, <1>2, QuietSeen
  <2>6. /\ Passes("p", 1, "x->i") => Passes("p", 1, "x->i")'
        /\ Passes("p", 1, "x->s") => Passes("p", 1, "x->s")'
    BY <2>1, <2>2, <1>2, QuietPasses
  <2> QED
    BY <1>1, <2>1, <2>2, <2>3, <2>4, <2>5, <2>6 DEF Inv207
<1> QED
  BY <1>1, <1>3, <1>4, <1>5, <1>6, <1>7, <1>8, <1>9, <1>10, NotEnded, Text207

\* The invariant of p207 makes every statement that is next good.
LEMMA Holds207 ==
  ASSUME Inv207
  PROVE  NoDataRace /\ AssertionsHold
<1>1. Base("p207") /\ program = "p207" /\ place["a"] \in Nat /\ place["b"] \in Nat
  BY DEF Inv207, Base, ThreadNames
<1>2. /\ {"x->i", "x->s", "a", "p"} \subseteq LocationsOf("p207")
      /\ {"a", "b"} \subseteq ThreadNames
  BY Locations207 DEF ThreadNames
<1>3. ASSUME NEW t \in ThreadNames, ~Ended(t) PROVE Good(t)
  <2>1. place[t] \in Nat \ {0}
    BY <1>1 DEF Base
  <2>2. CASE t = "a" /\ place[t] = 1 /\ Now(t) = Put("x->i", 42)
    BY <2>2, <1>2, <1>1, GoodPut DEF Inv207
  <2>3. CASE t = "a" /\ place[t] = 2 /\ Now(t) = Put("x->s", 1)
    BY <2>3, <1>2, <1>1, GoodPut DEF Inv207
  <2>4. CASE t = "a" /\ place[t] = 3 /\ Now(t) = StoreOf("a", 99, "relaxed")
    BY <2>4, GoodStoreOf
  <2>5. CASE t = "a" /\ place[t] = 4 /\ Now(t) = StoreOf("p", 1, "release")
    BY <2>5, GoodStoreOf
  <2>6. CASE t = "b" /\ place[t] = 1 /\ Now(t) = WaitFor("p", 1, "consume")
    BY <2>6, GoodWaitFor
  <2>7. CASE t = "b" /\ place[t] = 2 /\ Now(t) = GetDependent("x->i")
    BY <2>7, <1>2, <1>1, GoodGetDependent DEF Inv207
  <2>8. CASE t = "b" /\ place[t] = 3 /\ Now(t) = GetDependent("x->s")
    BY <2>8, <1>2, <1>1, GoodGetDependent DEF Inv207
  <2>9. CASE t = "b" /\ place[t] = 4 /\ Now(t) = LoadOf("a", "relaxed")
    BY <2>9, GoodLoadOf
  <2> QED
    BY <1>1, <1>3, <2>1, <2>2, <2>3, <2>4, <2>5, <2>6, <2>7, <2>8, <2>9, Text207
<1> QED
  BY <1>3, GoodAll

-------------------------------------------------------------------------------
(* p209: a counter over a filled queue. *)

\* Where a thread of p209 may be, and at which statement.
LEMMA Text209 ==
  ASSUME program = "p209", NEW t \in ThreadNames, place[t] \in Nat \ {0}, ~Ended(t)
  PROVE  \/ t = "a" /\ place[t] = 1 /\ Now(t) = Put("queue_data", NumberOfItems)
         \/ t = "a" /\ place[t] = 2 /\ Now(t) = StoreOf("count", NumberOfItems, "release")
         \/ t = "b" /\ place[t] = 1 /\ Now(t) = FetchSub("count", "acquire")
         \/ t = "b" /\ place[t] = 2 /\ Now(t) = Item("queue_data")
         \/ t = "c" /\ place[t] = 1 /\ Now(t) = FetchSub("count", "acquire")
         \/ t = "c" /\ place[t] = 2 /\ Now(t) = Item("queue_data")
<1>1. Programs["p209"] = p209
  BY DEF Programs
<1>2. /\ p209["a"] = <<Put("queue_data", NumberOfItems), StoreOf("count", NumberOfItems, "release")>>
      /\ p209["b"] = <<FetchSub("count", "acquire"), Item("queue_data")>>
      /\ p209["c"] = <<FetchSub("count", "acquire"), Item("queue_data")>>
      /\ DOMAIN p209 = {"a", "b", "c"}
  BY DEF p209
<1>3. /\ t \in DOMAIN p209 => Text(program, t) = p209[t]
      /\ t \notin DOMAIN p209 => Text(program, t) = <<>>
  BY <1>1 DEF Text
<1>4. ASSUME t = "a"
      PROVE  \/ place[t] = 1 /\ Now(t) = Put("queue_data", NumberOfItems)
             \/ place[t] = 2 /\ Now(t) = StoreOf("count", NumberOfItems, "release")
  BY <1>4, <1>2, <1>3, Place2
<1>5. ASSUME t = "b"
      PROVE  \/ place[t] = 1 /\ Now(t) = FetchSub("count", "acquire")
             \/ place[t] = 2 /\ Now(t) = Item("queue_data")
  BY <1>5, <1>2, <1>3, Place2
<1>6. ASSUME t = "c"
      PROVE  \/ place[t] = 1 /\ Now(t) = FetchSub("count", "acquire")
             \/ place[t] = 2 /\ Now(t) = Item("queue_data")
  BY <1>6, <1>2, <1>3, Place2
<1>7. ASSUME t \notin DOMAIN p209 PROVE FALSE
  BY <1>7, <1>3, Place0
<1> QED
  BY <1>2, <1>4, <1>5, <1>6, <1>7

\* The locations of p209.
LEMMA Locations209 == {"queue_data", "count"} \subseteq LocationsOf("p209")
<1>1. Programs["p209"] = p209
  BY DEF Programs
<1>2. /\ Text("p209", "a") = <<Put("queue_data", NumberOfItems), StoreOf("count", NumberOfItems, "release")>>
      /\ "a" \in ThreadNames
  <2>1. /\ p209["a"] = <<Put("queue_data", NumberOfItems), StoreOf("count", NumberOfItems, "release")>>
        /\ {"a"} \subseteq DOMAIN p209
    BY DEF p209
  <2> QED
    BY <1>1, <2>1 DEF Text, ThreadNames
<1>3. "queue_data" \in LocationsOf("p209")
  <2>1. 1 \in DOMAIN Text("p209", "a") /\ Text("p209", "a")[1] = Put("queue_data", NumberOfItems)
    BY <1>2
  <2>2. /\ "at" \in DOMAIN Put("queue_data", NumberOfItems)
        /\ Put("queue_data", NumberOfItems).at = "queue_data"
    BY DEF Put
  <2> QED
    BY <1>2, <2>1, <2>2, AtIsLocation
<1>4. "count" \in LocationsOf("p209")
  <2>1. 2 \in DOMAIN Text("p209", "a") /\ Text("p209", "a")[2] = StoreOf("count", NumberOfItems, "release")
    BY <1>2
  <2>2. /\ "at" \in DOMAIN StoreOf("count", NumberOfItems, "release")
        /\ StoreOf("count", NumberOfItems, "release").at = "count"
    BY DEF StoreOf
  <2> QED
    BY <1>2, <2>1, <2>2, AtIsLocation
<1> QED
  BY <1>3, <1>4

\* What the threads that main of p209 joins have done then.
LEMMA Ends209 ==
  ASSUME program = "p209", place \in [ThreadNames -> Nat \ {0}]
  PROVE  Ended("a") <=> place["a"] >= 3
<1>1. Programs["p209"] = p209
  BY DEF Programs
<1>2. /\ p209["a"] = <<Put("queue_data", NumberOfItems), StoreOf("count", NumberOfItems, "release")>>
      /\ "a" \in DOMAIN p209
  BY DEF p209
<1>3. Text(program, "a") = p209["a"]
  BY <1>1, <1>2 DEF Text
<1>4. Len(Text(program, "a")) = 2
  BY <1>2, <1>3
<1>5. place["a"] \in Nat
  BY DEF ThreadNames
<1>6. Ended("a") <=> place["a"] > 2
  BY <1>4 DEF Ended
<1> QED
  BY <1>5, <1>6

\* The items in hand, their number, and what is left, by the places of the threads.
Hand209 == {t \in {"b", "c"} : place[t] = 2}
Busy(t) == IF place[t] = 2 THEN 1 ELSE 0
Left209 == IF place["a"] <= 2 THEN NumberOfItems ELSE IF Top("count") > 0 THEN Top("count") ELSE 0
Handled209 == {processed[i] : i \in 1 .. Len(processed)} \cup {reg[t] - 1 : t \in Hand209}

\* The items not left in count are processed or in hand, each once; the count passes the
\* data on, however many polls there were.
Inv209 == /\ Base("p209")
          /\ processed \in Seq(Int)
          /\ place["b"] \in {1, 2} /\ place["c"] \in {1, 2}
          /\ Seen("queue_data", "a")
          /\ place["a"] <= 2 => Top("count") <= 0
          /\ place["a"] >= 3 => Leads("count", "queue_data")
          /\ place["b"] = 2 => place["a"] >= 3 /\ Seen("queue_data", "b")
          /\ place["c"] = 2 => place["a"] >= 3 /\ Seen("queue_data", "c")
          /\ Handled209 = Left209 .. (NumberOfItems - 1)
          /\ Len(processed) + Busy("b") + Busy("c") = NumberOfItems - Left209

\* The items in hand, by the places of the consumers.
LEMMA InHandIs ==
  ASSUME program = "p209", place \in [ThreadNames -> Nat \ {0}], place["b"] \in {1, 2}, place["c"] \in {1, 2}
  PROVE  /\ InHand = Hand209
         /\ Cardinality(Hand209) = Busy("b") + Busy("c")
<1>1. ASSUME NEW t \in ThreadNames PROVE Doing(t, "item") <=> t \in {"b", "c"} /\ place[t] = 2
  <2>1. place[t] \in Nat \ {0} /\ place["b"] \in Nat /\ place["c"] \in Nat
    BY DEF ThreadNames
  <2>2. CASE ~Ended(t)
    <3>1. \/ t = "a" /\ place[t] = 1 /\ Now(t) = Put("queue_data", NumberOfItems)
          \/ t = "a" /\ place[t] = 2 /\ Now(t) = StoreOf("count", NumberOfItems, "release")
          \/ t = "b" /\ place[t] = 1 /\ Now(t) = FetchSub("count", "acquire")
          \/ t = "b" /\ place[t] = 2 /\ Now(t) = Item("queue_data")
          \/ t = "c" /\ place[t] = 1 /\ Now(t) = FetchSub("count", "acquire")
          \/ t = "c" /\ place[t] = 2 /\ Now(t) = Item("queue_data")
      BY <2>1, <2>2, Text209
    <3> QED
      BY <2>2, <3>1 DEF Doing, Put, StoreOf, FetchSub, Item
  <2>3. CASE Ended(t)
    <3>1. Programs["p209"] = p209
      BY DEF Programs
    <3>2. /\ p209["b"] = <<FetchSub("count", "acquire"), Item("queue_data")>>
          /\ p209["c"] = <<FetchSub("count", "acquire"), Item("queue_data")>>
          /\ "b" \in DOMAIN p209 /\ "c" \in DOMAIN p209
      BY DEF p209
    <3>3. ASSUME t \in {"b", "c"} PROVE Len(Text(program, t)) = 2
      <4>1. Text(program, t) = p209[t]
        BY <3>1, <3>2, <3>3 DEF Text
      <4> QED
        BY <3>2, <3>3, <4>1
    <3>4. t \notin {"b", "c"}
      <4> SUFFICES ASSUME t \in {"b", "c"} PROVE FALSE
        OBVIOUS
      <4>1. place[t] > 2
        BY <2>3, <3>3 DEF Ended
      <4>2. place[t] \in {1, 2}
        OBVIOUS
      <4> QED
        BY <4>1, <4>2
    <3> QED
      BY <2>3, <3>4 DEF Doing
  <2> QED
    BY <2>2, <2>3
<1>2. InHand = Hand209
  BY <1>1 DEF InHand, Hand209, ThreadNames
<1>3. Cardinality(Hand209) = Busy("b") + Busy("c")
  <2>1. CASE place["b"] = 2 /\ place["c"] = 2
    <3>1. Hand209 = {"b", "c"} /\ Cardinality({"b", "c"}) = 2
      <4>1. "c" \notin {"b"} /\ {"b"} \cup {"c"} = {"b", "c"}
        OBVIOUS
      <4>2. Hand209 = {"b", "c"}
        BY <2>1 DEF Hand209
      <4>3. Cardinality({"b"}) = 1 /\ IsFiniteSet({"b"})
        BY FS_Singleton
      <4>4. Cardinality({"b"} \cup {"c"}) = Cardinality({"b"}) + 1
        BY <4>1, <4>3, FS_AddElement, Zenon
      <4> QED
        BY <4>1, <4>2, <4>3, <4>4
    <3> QED
      BY <2>1, <3>1 DEF Busy
  <2>2. CASE place["b"] = 2 /\ place["c"] = 1
    <3>1. Hand209 = {"b"}
      BY <2>2 DEF Hand209
    <3>2. Cardinality({"b"}) = 1
      BY FS_Singleton
    <3> QED
      BY <2>2, <3>1, <3>2 DEF Busy
  <2>3. CASE place["b"] = 1 /\ place["c"] = 2
    <3>1. Hand209 = {"c"}
      BY <2>3 DEF Hand209
    <3>2. Cardinality({"c"}) = 1
      BY FS_Singleton
    <3> QED
      BY <2>3, <3>1, <3>2 DEF Busy
  <2>4. CASE place["b"] = 1 /\ place["c"] = 1
    <3>1. Hand209 = {}
      BY <2>4 DEF Hand209
    <3> QED
      BY <2>4, <3>1, FS_EmptySet DEF Busy
  <2> QED
    BY <2>1, <2>2, <2>3, <2>4
<1> QED
  BY <1>2, <1>3

\* The invariant says that every item is handled once.
LEMMA Once209 ==
  ASSUME Inv209
  PROVE  ItemsHandledOnce
<1>1. program = "p209" /\ place \in [ThreadNames -> Nat \ {0}] /\ place["b"] \in {1, 2} /\ place["c"] \in {1, 2}
      /\ processed \in Seq(Int)
  BY DEF Inv209, Base
<1>2. InHand = Hand209 /\ Cardinality(InHand) = Busy("b") + Busy("c")
  BY <1>1, InHandIs
<1>3. DOMAIN processed = 1 .. Len(processed)
  BY <1>1
<1>4. Handled = Handled209
  BY <1>2, <1>3 DEF Handled, Handled209
<1>5. Left = Left209
  <2>1. Ended("a") <=> place["a"] >= 3
    BY <1>1, Ends209
  <2>2. place["a"] \in Nat
    BY <1>1 DEF ThreadNames
  <2> QED
    BY <2>1, <2>2 DEF Left, Left209, Top
<1>6. Len(processed) \in Nat /\ Busy("b") \in Nat /\ Busy("c") \in Nat
  BY <1>1 DEF Busy
<1>7. Len(processed) + Cardinality(InHand) = NumberOfItems - Left
  BY <1>2, <1>5, <1>6 DEF Inv209
<1> QED
  BY <1>4, <1>5, <1>7 DEF ItemsHandledOnce, Inv209

\* The invariant of p209 makes every statement that is next good.
LEMMA Holds209 ==
  ASSUME Inv209
  PROVE  NoDataRace /\ AssertionsHold
<1>1. ASSUME NEW t \in ThreadNames, ~Ended(t) PROVE Good(t)
  <2>1. place[t] \in Nat \ {0} /\ program = "p209"
    BY DEF Inv209, Base
  <2>2. \/ t = "a" /\ place[t] = 1 /\ Now(t) = Put("queue_data", NumberOfItems)
        \/ t = "a" /\ place[t] = 2 /\ Now(t) = StoreOf("count", NumberOfItems, "release")
        \/ t = "b" /\ place[t] = 1 /\ Now(t) = FetchSub("count", "acquire")
        \/ t = "b" /\ place[t] = 2 /\ Now(t) = Item("queue_data")
        \/ t = "c" /\ place[t] = 1 /\ Now(t) = FetchSub("count", "acquire")
        \/ t = "c" /\ place[t] = 2 /\ Now(t) = Item("queue_data")
    BY <1>1, <2>1, Text209
  <2>3. CASE t = "a" /\ Now(t) = Put("queue_data", NumberOfItems)
    BY <2>3, GoodPut DEF Inv209
  <2>4. CASE Now(t) = StoreOf("count", NumberOfItems, "release")
    BY <2>4, GoodStoreOf
  <2>5. CASE Now(t) = FetchSub("count", "acquire")
    BY <2>5, GoodFetchSub
  <2>6. CASE t \in {"b", "c"} /\ place[t] = 2 /\ Now(t) = Item("queue_data")
    BY <2>6, GoodItem DEF Inv209
  <2> QED
    BY <2>2, <2>3, <2>4, <2>5, <2>6
<1> QED
  BY <1>1, GoodAll

\* The invariant of p209 holds at the start.
LEMMA Init209 ==
  ASSUME OrdersInit, program = "p209"
  PROVE  Inv209
<1>1. {"queue_data", "count"} \subseteq LocationsOf("p209") /\ {"a", "b", "c"} \subseteq ThreadNames
  BY Locations209 DEF ThreadNames
<1>2. /\ Base("p209") /\ processed = <<>> /\ place["a"] = 1 /\ place["b"] = 1 /\ place["c"] = 1
      /\ Top("count") = 0 /\ Seen("queue_data", "a")
  BY <1>1, InitBase
<1>3. NumberOfItems \in Nat
  BY MemoryOrdersAssumption DEF MemoryOrdersAssumption
<1>4. Hand209 = {} /\ Left209 = NumberOfItems /\ Busy("b") = 0 /\ Busy("c") = 0
  BY <1>2 DEF Hand209, Left209, Busy
<1>5. Handled209 = {}
  BY <1>2, <1>4 DEF Handled209
<1>6. Left209 .. (NumberOfItems - 1) = {}
  BY <1>3, <1>4
<1>7. Len(processed) = 0 /\ processed \in Seq(Int)
  BY <1>2
<1> QED
  BY <1>2, <1>3, <1>4, <1>5, <1>6, <1>7 DEF Inv209

\* What is handled, while the consumers stay where they are.
LEMMA Frame209 ==
  ASSUME place'["b"] = place["b"], place'["c"] = place["c"], reg' = reg, processed' = processed
  PROVE  Handled209' = Handled209 /\ Busy("b")' = Busy("b") /\ Busy("c")' = Busy("c")
<1>1. Hand209' = Hand209
  BY DEF Hand209
<1> QED
  BY <1>1 DEF Handled209, Busy

\* Every step of p209 keeps its invariant.
LEMMA Step209 ==
  ASSUME Inv209, NEW t \in ThreadNames, ThreadStep(t)
  PROVE  Inv209'
<1>1. /\ Base("p209") /\ program = "p209" /\ ThreadStep(t) /\ place[t] \in Nat \ {0}
      /\ place["a"] \in Nat \ {0}
      /\ place["b"] \in {1, 2} /\ place["c"] \in {1, 2} /\ processed \in Seq(Int)
      /\ reg \in [ThreadNames -> Int]
  BY DEF Inv209, Base, ThreadNames
<1>2. {"queue_data", "count"} \subseteq LocationsOf("p209") /\ {"a", "b", "c"} \subseteq ThreadNames
  BY Locations209 DEF ThreadNames
<1>3. NumberOfItems \in Nat \ {0}
  BY MemoryOrdersAssumption DEF MemoryOrdersAssumption
<1>4. \/ t = "a" /\ place[t] = 1 /\ Now(t) = Put("queue_data", NumberOfItems)
      \/ t = "a" /\ place[t] = 2 /\ Now(t) = StoreOf("count", NumberOfItems, "release")
      \/ t = "b" /\ place[t] = 1 /\ Now(t) = FetchSub("count", "acquire")
      \/ t = "b" /\ place[t] = 2 /\ Now(t) = Item("queue_data")
      \/ t = "c" /\ place[t] = 1 /\ Now(t) = FetchSub("count", "acquire")
      \/ t = "c" /\ place[t] = 2 /\ Now(t) = Item("queue_data")
  BY <1>1, NotEnded, Text209
<1>5. Top("count") \in Int
  BY <1>1, <1>2, TopIs
<1>6. Left209 \in Nat /\ Len(processed) \in Nat
  BY <1>1, <1>3, <1>5 DEF Left209
<1>7. ASSUME t = "a", place[t] = 1, Now(t) = Put("queue_data", NumberOfItems) PROVE Inv209'
  <2>1. Base("p209") /\ ThreadStep("a") /\ Now("a") = Put("queue_data", NumberOfItems) /\ place["a"] = 1
    BY <1>1, <1>7
  <2>2. /\ Base("p209")' /\ Moves("a") /\ Writes(LocationsOf("p209"), "a", "queue_data", NumberOfItems)
        /\ UNCHANGED <<reg, processed>>
    BY <2>1, <1>2, <1>3, PutStep
  <2>3. place'["a"] = 2 /\ place'["b"] = place["b"] /\ place'["c"] = place["c"]
    BY <2>1, <2>2, <1>2 DEF Moves
  <2>4. Seen("queue_data", "a")'
    BY <2>1, <2>2, <1>2, WritesOwn
  <2>5. Top("count")' = Top("count")
    BY <2>1, <2>2, <1>2, WritesKeeps
  <2>6. Handled209' = Handled209 /\ Busy("b")' = Busy("b") /\ Busy("c")' = Busy("c")
    BY <2>2, <2>3, Frame209
  <2>7. Left209' = Left209
    BY <2>1, <2>3 DEF Left209
  <2> QED
    BY <2>1, <2>2, <2>3, <2>4, <2>5, <2>6, <2>7, <1>1 DEF Inv209
<1>8. ASSUME t = "a", place[t] = 2, Now(t) = StoreOf("count", NumberOfItems, "release") PROVE Inv209'
  <2>1. /\ Base("p209") /\ ThreadStep("a") /\ Now("a") = StoreOf("count", NumberOfItems, "release")
        /\ place["a"] = 2
    BY <1>1, <1>8
  <2>2. /\ Base("p209")' /\ Moves("a") /\ Writes(LocationsOf("p209"), "a", "count", NumberOfItems)
        /\ UNCHANGED <<reg, processed>>
    BY <2>1, <1>2, <1>3, StoreWrites
  <2>3. place'["a"] = 3 /\ place'["b"] = place["b"] /\ place'["c"] = place["c"]
    BY <2>1, <2>2, <1>2 DEF Moves
  <2>4. Seen("queue_data", "a") => Seen("queue_data", "a")'
    BY <2>1, <2>2, <1>2, WritesSeen
  <2>5. Top("count")' = NumberOfItems
    BY <2>1, <2>2, <1>2, WritesOwn
  <2>6. Handled209' = Handled209 /\ Busy("b")' = Busy("b") /\ Busy("c")' = Busy("c")
    BY <2>2, <2>3, Frame209
  <2>7. Left209' = Left209
    BY <2>1, <2>3, <2>5, <1>3 DEF Left209
  <2>8. "release" \in Releases
    BY DEF Releases
  <2>9. Seen("queue_data", "a") => Leads("count", "queue_data")'
    BY <2>1, <2>8, <1>2, <1>3, ReleasePasses
  <2>10. /\ Seen("queue_data", "a") /\ place["b"] = 1 /\ place["c"] = 1
         /\ Handled209 = Left209 .. (NumberOfItems - 1)
         /\ Len(processed) + Busy("b") + Busy("c") = NumberOfItems - Left209
    BY <1>1, <2>1 DEF Inv209
  <2> QED
    BY <2>2, <2>3, <2>4, <2>5, <2>6, <2>7, <2>9, <2>10, <1>1 DEF Inv209
<1>9. ASSUME t \in {"b", "c"}, place[t] = 1, Now(t) = FetchSub("count", "acquire") PROVE Inv209'
  <2>1. /\ Base("p209")' /\ Writes(LocationsOf("p209"), t, "count", Top("count") - 1)
        /\ processed' = processed
        /\ reg'[t] = Top("count") /\ \A u \in ThreadNames \ {t} : reg'[u] = reg[u]
        /\ IF Top("count") > 0 THEN Moves(t) ELSE place' = place
    BY <1>1, <1>2, <1>9, TakeStepIs
  <2>2. PICK u \in {"b", "c"} : {t, u} = {"b", "c"} /\ u # t
    BY <1>9
  <2>3. Top("count")' = Top("count") - 1
    BY <1>1, <1>2, <2>1, WritesOwn
  <2>4. \A r \in {"a", "b", "c"} : Seen("queue_data", r) => Seen("queue_data", r)'
    BY <1>1, <1>2, <2>1, WritesSeen
  <2>5. Leads("count", "queue_data") => Leads("count", "queue_data")' /\ Seen("queue_data", t)'
    <3>1. "acquire" \in Acquires
      BY DEF Acquires
    <3> QED
      BY <1>1, <1>2, <1>9, <3>1, TakeLeads
  <2>6. CASE Top("count") > 0
    <3>1. /\ place'[t] = 2 /\ place'[u] = place[u] /\ place'["a"] = place["a"] /\ reg'[t] = Top("count")
          /\ reg'[u] = reg[u]
      BY <1>1, <1>2, <1>9, <2>1, <2>2, <2>6 DEF Moves
    <3>2. /\ place["a"] >= 3 /\ Leads("count", "queue_data") /\ Seen("queue_data", "a")
          /\ place[u] = 2 => Seen("queue_data", u)
      BY <1>1, <1>5, <2>6, <2>2 DEF Inv209
    <3>3. Left209 = Top("count") /\ Left209' = Left209 - 1
      BY <1>1, <1>5, <2>3, <2>6, <3>1, <3>2 DEF Left209
    <3>4. Hand209' = Hand209 \cup {t} /\ t \notin Hand209
      BY <1>9, <2>2, <3>1 DEF Hand209
    <3>5. Handled209' = Handled209 \cup {Left209 - 1}
      <4>1. {reg'[r] - 1 : r \in Hand209 \cup {t}} = {reg[r] - 1 : r \in Hand209} \cup {Left209 - 1}
        <5>1. \A r \in Hand209 : reg'[r] = reg[r]
          BY <3>1, <3>4, <2>2 DEF Hand209
        <5> QED
          BY <5>1, <3>1, <3>3
      <4> QED
        BY <4>1, <3>4, <2>1 DEF Handled209
    <3>6. Busy("b")' + Busy("c")' = Busy("b") + Busy("c") + 1
      <4>1. CASE t = "b"
        <5>1. place["b"] = 1 /\ place'["b"] = 2 /\ place'["c"] = place["c"]
          BY <4>1, <1>9, <2>2, <3>1
        <5> QED
          BY <5>1 DEF Busy
      <4>2. CASE t = "c"
        <5>1. place["c"] = 1 /\ place'["c"] = 2 /\ place'["b"] = place["b"]
          BY <4>2, <1>9, <2>2, <3>1
        <5> QED
          BY <5>1 DEF Busy
      <4> QED
        BY <1>9, <4>1, <4>2
    <3>8. /\ Len(processed) + Busy("b") + Busy("c") = NumberOfItems - Left209 /\ Busy("b") \in Nat
          /\ Busy("c") \in Nat
      BY DEF Inv209, Busy
    <3>9. Left209 <= NumberOfItems
      BY <3>8, <1>3, <1>6
    <3>10. Handled209' = Left209' .. (NumberOfItems - 1)
      BY <3>3, <3>5, <3>9, <1>3, <1>6 DEF Inv209
    <3>11. Len(processed') + Busy("b")' + Busy("c")' = NumberOfItems - Left209'
      <4>1. Busy("b")' \in Nat /\ Busy("c")' \in Nat
        BY DEF Busy
      <4>2. Len(processed') = Len(processed)
        BY <2>1
      <4>3. Left209' \in Int /\ Left209' = Left209 - 1
        BY <3>3, <1>6
      <4>4. Busy("b") + Busy("c") = NumberOfItems - Left209 - Len(processed)
        BY <3>8, <1>3, <1>6
      <4>5. Busy("b")' + Busy("c")' = NumberOfItems - Left209' - Len(processed)
        BY <4>1, <4>3, <4>4, <3>6, <3>8, <1>3, <1>6
      <4> QED
        BY <4>1, <4>2, <4>3, <4>5, <1>3, <1>6
    <3>12. /\ place'["b"] \in {1, 2} /\ place'["c"] \in {1, 2}
           /\ place'["b"] = 2 => place'["a"] >= 3 /\ Seen("queue_data", "b")'
           /\ place'["c"] = 2 => place'["a"] >= 3 /\ Seen("queue_data", "c")'
      BY <1>1, <2>2, <2>4, <2>5, <3>1, <3>2
    <3>13. Seen("queue_data", "a")' /\ Leads("count", "queue_data")'
      BY <2>4, <2>5, <3>2
    <3> QED
      BY <2>1, <3>1, <3>2, <3>10, <3>11, <3>12, <3>13, <1>1 DEF Inv209
  <2>7. CASE ~(Top("count") > 0)
    <3>1. place' = place /\ reg'[u] = reg[u]
      BY <1>2, <2>1, <2>2, <2>7
    <3>2. Hand209' = Hand209 /\ t \notin Hand209
      BY <1>9, <3>1 DEF Hand209
    <3>3. \A r \in Hand209 : reg'[r] = reg[r]
      BY <2>2, <3>1, <3>2 DEF Hand209
    <3>4. Handled209' = Handled209
      <4>1. {reg'[r] - 1 : r \in Hand209} = {reg[r] - 1 : r \in Hand209}
        BY <3>3
      <4> QED
        BY <4>1, <3>2, <2>1 DEF Handled209
    <3>5. Left209' = Left209
      BY <1>5, <2>3, <2>7, <3>1 DEF Left209
    <3>6. Busy("b")' = Busy("b") /\ Busy("c")' = Busy("c")
      BY <3>1 DEF Busy
    <3>7. place'["a"] <= 2 => Top("count")' <= 0
      BY <2>3, <2>7, <1>5
    <3>8. /\ Seen("queue_data", "a") => Seen("queue_data", "a")'
          /\ Seen("queue_data", "b") => Seen("queue_data", "b")'
          /\ Seen("queue_data", "c") => Seen("queue_data", "c")'
      BY <2>4
    <3> QED
      BY <2>1, <2>5, <3>1, <3>4, <3>5, <3>6, <3>7, <3>8 DEF Inv209
  <2> QED
    BY <2>6, <2>7
<1>10. ASSUME t \in {"b", "c"}, place[t] = 2, Now(t) = Item("queue_data") PROVE Inv209'
  <2>1. /\ Base("p209")' /\ UNCHANGED <<memory, reg>> /\ processed' = Append(processed, reg[t] - 1)
        /\ place'[t] = 1 /\ \A u \in ThreadNames \ {t} : place'[u] = place[u]
    BY <1>1, <1>10, ItemStepIs
  <2>2. PICK u \in {"b", "c"} : {t, u} = {"b", "c"} /\ u # t
    BY <1>10
  <2>3. place'[u] = place[u] /\ place'["a"] = place["a"]
    BY <1>2, <1>10, <2>1, <2>2
  <2>4. /\ Top("count")' = Top("count")
        /\ Leads("count", "queue_data") => Leads("count", "queue_data")'
        /\ \A r : Seen("queue_data", r) => Seen("queue_data", r)'
    BY <2>1 DEF memory, Top, Newest, Leads, Seen, Ordered
  <2>5. reg[t] - 1 \in Int /\ processed' \in Seq(Int) /\ Len(processed') = Len(processed) + 1
    BY <1>1, <2>1
  <2>6. {processed'[i] : i \in 1 .. Len(processed')} = {processed[i] : i \in 1 .. Len(processed)} \cup {reg[t] - 1}
    <3>1. /\ processed'[Len(processed) + 1] = reg[t] - 1
          /\ \A i \in 1 .. Len(processed) : processed'[i] = processed[i]
      BY <1>1, <2>1, <2>5, AppendProperties
    <3>2. 1 .. Len(processed') = (1 .. Len(processed)) \cup {Len(processed) + 1}
      BY <2>5, <1>6
    <3> HIDE DEF Handled209
    <3> QED
      BY <3>1, <3>2
  <2>7. Hand209 = Hand209' \cup {t}
    BY <1>10, <2>1, <2>2, <2>3 DEF Hand209
  <2>8. Handled209' = Handled209
    <3>1. {reg[r] - 1 : r \in Hand209} = {reg[r] - 1 : r \in Hand209'} \cup {reg[t] - 1}
      BY <2>7
    <3>2. Handled209' = {processed'[i] : i \in 1 .. Len(processed')} \cup {reg[r] - 1 : r \in Hand209'}
      BY <2>1 DEF Handled209
    <3> QED
      BY <3>1, <3>2, <2>6 DEF Handled209
  <2>9. Left209' = Left209
    BY <2>3, <2>4 DEF Left209
  <2>10. Busy("b")' + Busy("c")' = Busy("b") + Busy("c") - 1
    <3>1. CASE t = "b"
      <4>1. place["b"] = 2 /\ place'["b"] = 1 /\ place'["c"] = place["c"]
        BY <3>1, <1>10, <2>1, <2>2, <2>3
      <4> QED
        BY <4>1 DEF Busy
    <3>2. CASE t = "c"
      <4>1. place["c"] = 2 /\ place'["c"] = 1 /\ place'["b"] = place["b"]
        BY <3>2, <1>10, <2>1, <2>2, <2>3
      <4> QED
        BY <4>1 DEF Busy
    <3> QED
      BY <1>10, <3>1, <3>2
  <2>12. Len(processed') + Busy("b")' + Busy("c")' = NumberOfItems - Left209'
    <3>1. /\ Len(processed) + Busy("b") + Busy("c") = NumberOfItems - Left209 /\ Busy("b") \in Nat
          /\ Busy("c") \in Nat
      BY DEF Inv209, Busy
    <3>2. Busy("b")' \in Nat /\ Busy("c")' \in Nat
      BY DEF Busy
    <3>3. Busy("b")' + Busy("c")' = NumberOfItems - Left209 - Len(processed) - 1
      BY <3>1, <2>10, <1>3, <1>6
    <3> QED
      BY <3>2, <3>3, <2>5, <2>9, <1>3, <1>6
  <2>13. /\ place'["b"] \in {1, 2} /\ place'["c"] \in {1, 2}
         /\ place'["b"] = 2 => place["b"] = 2
         /\ place'["c"] = 2 => place["c"] = 2
    BY <1>1, <2>1, <2>2, <2>3
  <2> QED
    BY <2>1, <2>3, <2>4, <2>5, <2>8, <2>9, <2>12, <2>13 DEF Inv209
<1> QED
  BY <1>4, <1>7, <1>8, <1>9, <1>10

-------------------------------------------------------------------------------
(* p212: fences. *)

\* Where a thread of p212 may be, and at which statement.
LEMMA Text212 ==
  ASSUME program = "p212", NEW t \in ThreadNames, place[t] \in Nat \ {0}, ~Ended(t)
  PROVE  \/ t = "a" /\ place[t] = 1 /\ Now(t) = Put("x", 1)
         \/ t = "a" /\ place[t] = 2 /\ Now(t) = Fence("release")
         \/ t = "a" /\ place[t] = 3 /\ Now(t) = StoreOf("y", 1, "relaxed")
         \/ t = "b" /\ place[t] = 1 /\ Now(t) = WaitFor("y", 1, "relaxed")
         \/ t = "b" /\ place[t] = 2 /\ Now(t) = Fence("acquire")
         \/ t = "b" /\ place[t] = 3 /\ Now(t) = Get("x")
         \/ t = "b" /\ place[t] = 4 /\ Now(t) = CountIf("z")
         \/ t = "main" /\ place[t] = 5 /\ Now(t) = Expect("z", {1}, "seq_cst")
         \/ t = "main" /\ place[t] = 1 /\ Now(t) = [op |-> "join", thread |-> "a"]
         \/ t = "main" /\ place[t] = 2 /\ Now(t) = [op |-> "join", thread |-> "b"]
         \/ t = "main" /\ place[t] = 3 /\ Now(t) = [op |-> "join", thread |-> "c"]
         \/ t = "main" /\ place[t] = 4 /\ Now(t) = [op |-> "join", thread |-> "d"]
<1>1. Programs["p212"] = p212
  BY DEF Programs
<1>2. /\ p212["a"] = <<Put("x", 1), Fence("release"), StoreOf("y", 1, "relaxed")>>
      /\ p212["b"] = <<WaitFor("y", 1, "relaxed"), Fence("acquire"), Get("x"), CountIf("z")>>
      /\ p212["main"] = JoinAll \o <<Expect("z", {1}, "seq_cst")>>
      /\ DOMAIN p212 = {"a", "b", "main"}
  BY DEF p212
<1>3. /\ t \in DOMAIN p212 => Text(program, t) = p212[t]
      /\ t \notin DOMAIN p212 => Text(program, t) = <<>>
  BY <1>1 DEF Text
<1>4. ASSUME t = "a"
      PROVE  \/ place[t] = 1 /\ Now(t) = Put("x", 1)
             \/ place[t] = 2 /\ Now(t) = Fence("release")
             \/ place[t] = 3 /\ Now(t) = StoreOf("y", 1, "relaxed")
  BY <1>4, <1>2, <1>3, Place3
<1>5. ASSUME t = "b"
      PROVE  \/ place[t] = 1 /\ Now(t) = WaitFor("y", 1, "relaxed")
             \/ place[t] = 2 /\ Now(t) = Fence("acquire")
             \/ place[t] = 3 /\ Now(t) = Get("x")
             \/ place[t] = 4 /\ Now(t) = CountIf("z")
  BY <1>5, <1>2, <1>3, Place4
<1>6. ASSUME t = "main"
      PROVE  \/ place[t] = 5 /\ Now(t) = Expect("z", {1}, "seq_cst")
             \/ place[t] = 1 /\ Now(t) = [op |-> "join", thread |-> "a"]
             \/ place[t] = 2 /\ Now(t) = [op |-> "join", thread |-> "b"]
             \/ place[t] = 3 /\ Now(t) = [op |-> "join", thread |-> "c"]
             \/ place[t] = 4 /\ Now(t) = [op |-> "join", thread |-> "d"]
  BY <1>6, <1>2, <1>3, PlaceJoin
<1>7. ASSUME t \notin DOMAIN p212 PROVE FALSE
  BY <1>7, <1>3, Place0
<1> QED
  BY <1>2, <1>4, <1>5, <1>6, <1>7

\* The locations of p212.
LEMMA Locations212 == {"x", "y", "z"} \subseteq LocationsOf("p212")
<1>1. Programs["p212"] = p212
  BY DEF Programs
<1>2. /\ Text("p212", "a") = <<Put("x", 1), Fence("release"), StoreOf("y", 1, "relaxed")>>
      /\ "a" \in ThreadNames
      /\ Text("p212", "b") = <<WaitFor("y", 1, "relaxed"), Fence("acquire"), Get("x"), CountIf("z")>>
      /\ "b" \in ThreadNames
  <2>1. /\ p212["a"] = <<Put("x", 1), Fence("release"), StoreOf("y", 1, "relaxed")>>
        /\ p212["b"] = <<WaitFor("y", 1, "relaxed"), Fence("acquire"), Get("x"), CountIf("z")>>
        /\ {"a", "b"} \subseteq DOMAIN p212
    BY DEF p212
  <2> QED
    BY <1>1, <2>1 DEF Text, ThreadNames
<1>3. "x" \in LocationsOf("p212")
  <2>1. 1 \in DOMAIN Text("p212", "a") /\ Text("p212", "a")[1] = Put("x", 1)
    BY <1>2
  <2>2. "at" \in DOMAIN Put("x", 1) /\ Put("x", 1).at = "x"
    BY DEF Put
  <2> QED
    BY <1>2, <2>1, <2>2, AtIsLocation
<1>4. "y" \in LocationsOf("p212")
  <2>1. 3 \in DOMAIN Text("p212", "a") /\ Text("p212", "a")[3] = StoreOf("y", 1, "relaxed")
    BY <1>2
  <2>2. "at" \in DOMAIN StoreOf("y", 1, "relaxed") /\ StoreOf("y", 1, "relaxed").at = "y"
    BY DEF StoreOf
  <2> QED
    BY <1>2, <2>1, <2>2, AtIsLocation
<1>5. "z" \in LocationsOf("p212")
  <2>1. 4 \in DOMAIN Text("p212", "b") /\ Text("p212", "b")[4] = CountIf("z")
    BY <1>2
  <2>2. "at" \in DOMAIN CountIf("z") /\ CountIf("z").at = "z"
    BY DEF CountIf
  <2> QED
    BY <1>2, <2>1, <2>2, AtIsLocation
<1> QED
  BY <1>3, <1>4, <1>5

\* What the threads that main of p212 joins have done then.
LEMMA Ends212 ==
  ASSUME program = "p212", NEW t \in ThreadNames, Ended(t), place[t] \in Nat
  PROVE  /\ t = "a" => place[t] >= 4
         /\ t = "b" => place[t] >= 5
<1>1. Programs["p212"] = p212
  BY DEF Programs
<1>2. /\ p212["a"] = <<Put("x", 1), Fence("release"), StoreOf("y", 1, "relaxed")>> /\ "a" \in DOMAIN p212
      /\ p212["b"] = <<WaitFor("y", 1, "relaxed"), Fence("acquire"), Get("x"), CountIf("z")>>
      /\ "b" \in DOMAIN p212
  BY DEF p212
<1>3. ASSUME t = "a" PROVE place[t] >= 4
  <2>1. Text(program, t) = p212["a"]
    BY <1>1, <1>2, <1>3 DEF Text
  <2>2. Len(<<Put("x", 1), Fence("release"), StoreOf("y", 1, "relaxed")>>) = 3
    OBVIOUS
  <2>3. Len(Text(program, t)) = 3
    BY <1>2, <2>1, <2>2
  <2>4. place[t] > 3
    BY <2>3 DEF Ended
  <2> QED
    BY <2>4
<1>4. ASSUME t = "b" PROVE place[t] >= 5
  <2>1. Text(program, t) = p212["b"]
    BY <1>1, <1>2, <1>4 DEF Text
  <2>2. Len(<<WaitFor("y", 1, "relaxed"), Fence("acquire"), Get("x"), CountIf("z")>>) = 4
    OBVIOUS
  <2>3. Len(Text(program, t)) = 4
    BY <1>2, <2>1, <2>2
  <2>4. place[t] > 4
    BY <2>3 DEF Ended
  <2> QED
    BY <2>4
<1> QED
  BY <1>3, <1>4

\* What was seen at the release fence is passed on by y, and by then in reserve for the
\* acquire fence.
Inv212 == /\ Base("p212")
          /\ Seen("x", "a")
          /\ place["a"] >= 3 => Ordered("x", fenced["a"])
          /\ 1 \in Vals("y") => place["a"] >= 4
          /\ Passes("y", 1, "x")
          /\ place["a"] >= 2 => Top("x") = 1
          /\ place["b"] >= 2 => place["a"] >= 4
          /\ place["b"] = 2 => Ordered("x", unseen["b"])
          /\ place["b"] >= 3 => Seen("x", "b")
          /\ place["b"] = 4 => reg["b"] = 1
          /\ place["b"] <= 4 => Top("z") = 0
          /\ place["b"] >= 5 => Top("z") = 1 /\ Seen("z", "b")
          /\ place["main"] >= 3 => place["b"] >= 5 /\ Seen("z", "main")

\* The invariant of p212 holds at the start.
LEMMA Init212 ==
  ASSUME OrdersInit, program = "p212"
  PROVE  Inv212
<1>1. /\ {"x", "y", "z"} \subseteq LocationsOf("p212")
      /\ {"a", "b", "c", "d", "main"} \subseteq ThreadNames
  BY Locations212 DEF ThreadNames
<1>2. Base("p212") /\ place["a"] = 1 /\ place["b"] = 1 /\ place["main"] = 1
  BY <1>1, InitBase
<1>3. Vals("x") = {0} /\ Top("x") = 0 /\ Vals("y") = {0} /\ Top("y") = 0 /\ Vals("z") = {0} /\ Top("z") = 0
  BY <1>1, InitBase
<1>4. Seen("x", "a") /\ Seen("x", "b") /\ Seen("z", "b") /\ Seen("z", "main")
  BY <1>1, InitBase
<1>5. Passes("y", 1, "x")
  BY <1>3, PassesNone
<1> QED
  BY <1>2, <1>3, <1>4, <1>5 DEF Inv212

\* Every step of p212 keeps its invariant.
LEMMA Step212 ==
  ASSUME Inv212, NEW t \in ThreadNames, ThreadStep(t)
  PROVE  Inv212'
<1>1. /\ Base("p212") /\ program = "p212" /\ ThreadStep(t) /\ place[t] \in Nat \ {0}
      /\ place["a"] \in Nat /\ place["b"] \in Nat /\ place["main"] \in Nat
  BY DEF Inv212, Base, ThreadNames
<1>2. /\ {"x", "y", "z"} \subseteq LocationsOf("p212")
      /\ {"a", "b", "c", "d", "main"} \subseteq ThreadNames
  BY Locations212 DEF ThreadNames
<1>3. CASE t = "a" /\ place[t] = 1 /\ Now(t) = Put("x", 1)
  <2>1. Base("p212") /\ ThreadStep("a") /\ Now("a") = Put("x", 1) /\ place["a"] = 1
    BY <1>1, <1>3
  <2>2. /\ Base("p212")' /\ Moves("a") /\ Writes(LocationsOf("p212"), "a", "x", 1)
        /\ UNCHANGED <<unseen, reg, processed>>
    BY <2>1, <1>2, PutStep
  <2>3. /\ place'["a"] = 2
        /\ place'["b"] = place["b"]
        /\ place'["main"] = place["main"]
    BY <2>1, <2>2, <1>2 DEF Moves
  <2>4. reg'["b"] = reg["b"]
    BY <2>1, <2>2, <1>2
  <2>5. Seen("x", "a")' /\ Top("x")' = 1
    BY <2>1, <2>2, <1>2, WritesOwn
  <2>6. /\ Vals("y")' = Vals("y")
        /\ Top("z")' = Top("z")
    BY <2>1, <2>2, <1>2, WritesKeeps
  <2>7. /\ Seen("z", "b") => Seen("z", "b")'
        /\ Seen("z", "main") => Seen("z", "main")'
    BY <2>1, <2>2, <1>2, WritesSeen
  <2>8. Passes("y", 1, "x") /\ 1 \notin Vals("y") => Passes("y", 1, "x")'
    BY <2>1, <2>2, <1>2, WritesPasses
  <2> QED
    BY <1>1, <2>1, <2>2, <2>3, <2>4, <2>5, <2>6, <2>7, <2>8 DEF Inv212
<1>4. CASE t = "a" /\ place[t] = 2 /\ Now(t) = Fence("release")
  <2>1. Base("p212") /\ ThreadStep("a") /\ Now("a") = Fence("release") /\ place["a"] = 2
    BY <1>1, <1>4
  <2>2. /\ Base("p212")' /\ Moves("a") /\ Quiet(LocationsOf("p212"), "a")
        /\ UNCHANGED <<reg, processed, unseen, depends, scLast>>
        /\ \A x \in LocationsOf("p212") : Seen(x, "a") => Ordered(x, fenced["a"])'
    BY <2>1, <1>2, FenceQuiet
  <2>3. /\ place'["a"] = 3
        /\ place'["b"] = place["b"]
        /\ place'["main"] = place["main"]
    BY <2>1, <2>2, <1>2 DEF Moves
  <2>4. reg'["b"] = reg["b"]
    BY <2>1, <2>2, <1>2
  <2>5. /\ Vals("y")' = Vals("y")
        /\ Top("x")' = Top("x")
        /\ Top("z")' = Top("z")
    BY <2>1, <2>2, <1>2, QuietKeeps
  <2>6. /\ Seen("x", "a") => Seen("x", "a")'
        /\ Seen("x", "b") => Seen("x", "b")'
        /\ Seen("z", "b") => Seen("z", "b")'
        /\ Seen("z", "main") => Seen("z", "main")'
    BY <2>1, <2>2, <1>2, QuietSeen
  <2>7. Passes("y", 1, "x") => Passes("y", 1, "x")'
    BY <2>1, <2>2, <1>2, QuietPasses
  <2>8. Seen("x", "a") => Ordered("x", fenced["a"])'
    BY <2>1, <1>2, FenceStepIs DEF Seen, Ordered
  <2>9. Ordered("x", unseen["b"]) => Ordered("x", unseen["b"])'
    BY <2>1, <2>2, <1>2 DEF Quiet, Ordered
  <2> QED
    BY <1>1, <1>2, <2>1, <2>2, <2>3, <2>4, <2>5, <2>6, <2>7, <2>8, <2>9 DEF Inv212
<1>5. CASE t = "a" /\ place[t] = 3 /\ Now(t) = StoreOf("y", 1, "relaxed")
  <2>1. Base("p212") /\ ThreadStep("a") /\ Now("a") = StoreOf("y", 1, "relaxed") /\ place["a"] = 3
    BY <1>1, <1>5
  <2>2. "relaxed" \notin Releases
    BY DEF Releases
  <2>3. /\ Base("p212")' /\ Moves("a") /\ Writes(LocationsOf("p212"), "a", "y", 1)
        /\ UNCHANGED <<unseen, reg, processed>>
    BY <2>1, <1>2, StoreWrites
  <2>4. /\ place'["a"] = 4
        /\ place'["b"] = place["b"]
        /\ place'["main"] = place["main"]
    BY <2>1, <2>3, <1>2 DEF Moves
  <2>5. Passes("y", 1, "x") /\ Ordered("x", fenced["a"]) => Passes("y", 1, "x")'
    BY <2>1, <2>3, <1>2, <2>2, FencedPasses
  <2>6. reg'["b"] = reg["b"]
    BY <2>1, <2>3, <1>2
  <2>7. Vals("y")' = Vals("y") \cup {1}
    BY <2>1, <2>3, <1>2, WritesOwn
  <2>8. /\ Top("x")' = Top("x")
        /\ Top("z")' = Top("z")
    BY <2>1, <2>3, <1>2, WritesKeeps
  <2>9. /\ Seen("x", "a") => Seen("x", "a")'
        /\ Seen("x", "b") => Seen("x", "b")'
        /\ Seen("z", "b") => Seen("z", "b")'
        /\ Seen("z", "main") => Seen("z", "main")'
    BY <2>1, <2>3, <1>2, WritesSeen
  <2>10. Ordered("x", fenced["a"]) => Ordered("x", fenced["a"])'
    BY <2>1, <2>3, <1>2 DEF Writes, Ordered
  <2>11. Ordered("x", unseen["b"]) => Ordered("x", unseen["b"])'
    BY <2>1, <2>3, <1>2 DEF Writes, Ordered
  <2> QED
    BY <1>1, <2>1, <2>2, <2>3, <2>4, <2>5, <2>6, <2>7, <2>8, <2>9, <2>10, <2>11 DEF Inv212
<1>6. CASE t = "b" /\ place[t] = 1 /\ Now(t) = WaitFor("y", 1, "relaxed")
  <2>1. Base("p212") /\ ThreadStep("b") /\ Now("b") = WaitFor("y", 1, "relaxed") /\ place["b"] = 1
    BY <1>1, <1>6
  <2>2. /\ Base("p212")' /\ Moves("b") /\ Quiet(LocationsOf("p212"), "b")
        /\ UNCHANGED <<fenced, scLast, processed>>
        /\ \A u \in ThreadNames \ {"b"} : reg'[u] = reg[u] /\ unseen'[u] = unseen[u]
    BY <2>1, <1>2, WaitForQuiet
  <2>3. /\ place'["b"] = 2
        /\ place'["a"] = place["a"]
        /\ place'["main"] = place["main"]
    BY <2>1, <2>2, <1>2 DEF Moves
  <2>4. /\ Vals("y")' = Vals("y")
        /\ Top("x")' = Top("x")
        /\ Top("z")' = Top("z")
    BY <2>1, <2>2, <1>2, QuietKeeps
  <2>5. /\ Seen("x", "a") => Seen("x", "a")'
        /\ Seen("x", "b") => Seen("x", "b")'
        /\ Seen("z", "b") => Seen("z", "b")'
        /\ Seen("z", "main") => Seen("z", "main")'
    BY <2>1, <2>2, <1>2, QuietSeen
  <2>6. Passes("y", 1, "x") => Passes("y", 1, "x")'
    BY <2>1, <2>2, <1>2, QuietPasses
  <2>7. 1 \in Vals("y")
    BY <2>1, <2>2, <1>2, WaitFound
  <2>8. Passes("y", 1, "x") => Ordered("x", unseen["b"])'
    BY <2>1, <2>2, <1>2, WaitUnseen
  <2>9. Ordered("x", fenced["a"]) => Ordered("x", fenced["a"])'
    BY <2>1, <2>2, <1>2 DEF Quiet, Ordered
  <2> QED
    BY <1>1, <2>1, <2>2, <2>3, <2>4, <2>5, <2>6, <2>7, <2>8, <2>9 DEF Inv212
<1>7. CASE t = "b" /\ place[t] = 2 /\ Now(t) = Fence("acquire")
  <2>1. Base("p212") /\ ThreadStep("b") /\ Now("b") = Fence("acquire") /\ place["b"] = 2
    BY <1>1, <1>7
  <2>2. /\ Base("p212")' /\ Moves("b") /\ Quiet(LocationsOf("p212"), "b")
        /\ UNCHANGED <<reg, processed, unseen, depends, scLast>>
        /\ \A x \in LocationsOf("p212") : Ordered(x, unseen["b"]) => Seen(x, "b")'
    BY <2>1, <1>2, FenceQuiet
  <2>3. fenced' = fenced
    BY <2>1, <1>2, FenceStepIs
  <2>4. /\ place'["b"] = 3
        /\ place'["a"] = place["a"]
        /\ place'["main"] = place["main"]
    BY <2>1, <2>2, <2>3, <1>2 DEF Moves
  <2>5. reg'["b"] = reg["b"]
    BY <2>1, <2>2, <2>3, <1>2
  <2>6. /\ Vals("y")' = Vals("y")
        /\ Top("x")' = Top("x")
        /\ Top("z")' = Top("z")
    BY <2>1, <2>2, <2>3, <1>2, QuietKeeps
  <2>7. /\ Seen("x", "a") => Seen("x", "a")'
        /\ Seen("x", "b") => Seen("x", "b")'
        /\ Seen("z", "b") => Seen("z", "b")'
        /\ Seen("z", "main") => Seen("z", "main")'
    BY <2>1, <2>2, <2>3, <1>2, QuietSeen
  <2>8. Passes("y", 1, "x") => Passes("y", 1, "x")'
    BY <2>1, <2>2, <2>3, <1>2, QuietPasses
  <2>9. Ordered("x", fenced["a"]) => Ordered("x", fenced["a"])'
    BY <2>1, <2>2, <2>3, <1>2 DEF Quiet, Ordered
  <2>10. Ordered("x", unseen["b"]) => Ordered("x", unseen["b"])'
    BY <2>1, <2>2, <2>3, <1>2 DEF Quiet, Ordered
  <2> QED
    BY <1>1, <1>2, <2>1, <2>2, <2>3, <2>4, <2>5, <2>6, <2>7, <2>8, <2>9, <2>10 DEF Inv212
<1>8. CASE t = "b" /\ place[t] = 3 /\ Now(t) = Get("x")
  <2>1. Base("p212") /\ ThreadStep("b") /\ Now("b") = Get("x") /\ place["b"] = 3
    BY <1>1, <1>8
  <2>2. Base("p212")' /\ Moves("b") /\ UNCHANGED <<memory, processed>>
    BY <2>1, <1>2, GetStep
  <2>3. Quiet(LocationsOf("p212"), "b") /\ UNCHANGED <<fenced, unseen, depends, scLast>>
    BY <2>1, <2>2, <1>2, GetQuiet
  <2>4. /\ place'["b"] = 4
        /\ place'["a"] = place["a"]
        /\ place'["main"] = place["main"]
    BY <2>1, <2>2, <2>3, <1>2 DEF Moves
  <2>5. reg'["b"] = Top("x")
    BY <2>1, <2>2, <2>3, <1>2, GetRaw DEF Base, Top
  <2>6. /\ Vals("y")' = Vals("y")
        /\ Top("x")' = Top("x")
        /\ Top("z")' = Top("z")
    BY <2>1, <2>2, <2>3, <1>2, QuietKeeps
  <2>7. /\ Seen("x", "a") => Seen("x", "a")'
        /\ Seen("x", "b") => Seen("x", "b")'
        /\ Seen("z", "b") => Seen("z", "b")'
        /\ Seen("z", "main") => Seen("z", "main")'
    BY <2>1, <2>2, <2>3, <1>2, QuietSeen
  <2>8. Passes("y", 1, "x") => Passes("y", 1, "x")'
    BY <2>1, <2>2, <2>3, <1>2, QuietPasses
  <2>9. Ordered("x", fenced["a"]) => Ordered("x", fenced["a"])'
    BY <2>1, <2>2, <2>3, <1>2 DEF Quiet, Ordered
  <2>10. Ordered("x", unseen["b"]) => Ordered("x", unseen["b"])'
    BY <2>1, <2>2, <2>3, <1>2 DEF Quiet, Ordered
  <2> QED
    BY <1>1, <2>1, <2>2, <2>3, <2>4, <2>5, <2>6, <2>7, <2>8, <2>9, <2>10 DEF Inv212
<1>9. CASE t = "b" /\ place[t] = 4 /\ Now(t) = CountIf("z")
  <2>1. Base("p212") /\ ThreadStep("b") /\ Now("b") = CountIf("z") /\ place["b"] = 4
    BY <1>1, <1>9
  <2>2. /\ Base("p212")' /\ Moves("b") /\ (reg["b"] # 0 => Writes(LocationsOf("p212"), "b", "z", Top("z") + 1))
        /\ UNCHANGED <<reg, processed>>
    BY <2>1, <1>2, CountStepIs DEF Top
  <2>3. Writes(LocationsOf("p212"), "b", "z", Top("z") + 1)
    BY <2>1, <2>2 DEF Inv212
  <2>4. /\ place'["b"] = 5
        /\ place'["a"] = place["a"]
        /\ place'["main"] = place["main"]
    BY <2>1, <2>2, <2>3, <1>2 DEF Moves
  <2>5. reg'["b"] = reg["b"]
    BY <2>1, <2>2, <2>3, <1>2
  <2>6. Seen("z", "b")' /\ Top("z")' = Top("z") + 1
    BY <2>1, <2>2, <2>3, <1>2, WritesOwn
  <2>7. /\ Vals("y")' = Vals("y")
        /\ Top("x")' = Top("x")
    BY <2>1, <2>2, <2>3, <1>2, WritesKeeps
  <2>8. /\ Seen("x", "a") => Seen("x", "a")'
        /\ Seen("x", "b") => Seen("x", "b")'
    BY <2>1, <2>2, <2>3, <1>2, WritesSeen
  <2>9. Passes("y", 1, "x") => Passes("y", 1, "x")'
    BY <2>1, <2>2, <2>3, <1>2, WritesPasses
  <2>10. Ordered("x", fenced["a"]) => Ordered("x", fenced["a"])'
    BY <2>1, <2>2, <2>3, <1>2 DEF Writes, Ordered
  <2> QED
    BY <1>1, <2>1, <2>2, <2>3, <2>4, <2>5, <2>6, <2>7, <2>8, <2>9, <2>10 DEF Inv212
<1>10. CASE t = "main" /\ place[t] = 5 /\ Now(t) = Expect("z", {1}, "seq_cst")
  <2>1. Base("p212") /\ ThreadStep("main") /\ Now("main") = Expect("z", {1}, "seq_cst") /\ place["main"] = 5
    BY <1>1, <1>10
  <2>2. /\ Base("p212")' /\ Moves("main") /\ Quiet(LocationsOf("p212"), "main")
        /\ UNCHANGED <<fenced, scLast, processed>>
        /\ \A u \in ThreadNames \ {"main"} : reg'[u] = reg[u] /\ unseen'[u] = unseen[u]
    BY <2>1, <1>2, ExpectQuiet
  <2>3. /\ place'["main"] = 6
        /\ place'["a"] = place["a"]
        /\ place'["b"] = place["b"]
    BY <2>1, <2>2, <1>2 DEF Moves
  <2>4. reg'["b"] = reg["b"]
    BY <2>1, <2>2, <1>2
  <2>5. /\ Vals("y")' = Vals("y")
        /\ Top("x")' = Top("x")
        /\ Top("z")' = Top("z")
    BY <2>1, <2>2, <1>2, QuietKeeps
  <2>6. /\ Seen("x", "a") => Seen("x", "a")'
        /\ Seen("x", "b") => Seen("x", "b")'
        /\ Seen("z", "b") => Seen("z", "b")'
        /\ Seen("z", "main") => Seen("z", "main")'
    BY <2>1, <2>2, <1>2, QuietSeen
  <2>7. Passes("y", 1, "x") => Passes("y", 1, "x")'
    BY <2>1, <2>2, <1>2, QuietPasses
  <2>8. Ordered("x", fenced["a"]) => Ordered("x", fenced["a"])'
    BY <2>1, <2>2, <1>2 DEF Quiet, Ordered
  <2>9. Ordered("x", unseen["b"]) => Ordered("x", unseen["b"])'
    BY <2>1, <2>2, <1>2 DEF Quiet, Ordered
  <2> QED
    BY <1>1, <2>1, <2>2, <2>3, <2>4, <2>5, <2>6, <2>7, <2>8, <2>9 DEF Inv212
<1>11. CASE t = "main" /\ place[t] = 1 /\ Now(t) = [op |-> "join", thread |-> "a"]
  <2>1. /\ Base("p212") /\ ThreadStep("main") /\ Now("main") = [op |-> "join", thread |-> "a"]
        /\ place["main"] = 1
    BY <1>1, <1>11
  <2>2. /\ Base("p212")' /\ Moves("main") /\ Quiet(LocationsOf("p212"), "main") /\ Ended("a")
        /\ UNCHANGED <<reg, processed, unseen, depends, fenced, scLast>>
        /\ \A x \in LocationsOf("p212") : Seen(x, "a") => Seen(x, "main")'
    BY <2>1, <1>2, JoinSees
  <2>3. /\ place'["main"] = 2
        /\ place'["a"] = place["a"]
        /\ place'["b"] = place["b"]
    BY <2>1, <2>2, <1>2 DEF Moves
  <2>4. reg'["b"] = reg["b"]
    BY <2>1, <2>2, <1>2
  <2>5. /\ Vals("y")' = Vals("y")
        /\ Top("x")' = Top("x")
        /\ Top("z")' = Top("z")
    BY <2>1, <2>2, <1>2, QuietKeeps
  <2>6. /\ Seen("x", "a") => Seen("x", "a")'
        /\ Seen("x", "b") => Seen("x", "b")'
        /\ Seen("z", "b") => Seen("z", "b")'
        /\ Seen("z", "main") => Seen("z", "main")'
    BY <2>1, <2>2, <1>2, QuietSeen
  <2>7. Passes("y", 1, "x") => Passes("y", 1, "x")'
    BY <2>1, <2>2, <1>2, QuietPasses
  <2>8. place["a"] >= 4
    BY <2>1, <2>2, Ends212, <1>1, <1>2
  <2>9. Seen("x", "a") => Seen("x", "main")'
    BY <2>1, <2>2, <1>2
  <2>10. Ordered("x", fenced["a"]) => Ordered("x", fenced["a"])'
    BY <2>1, <2>2, <1>2 DEF Quiet, Ordered
  <2>11. Ordered("x", unseen["b"]) => Ordered("x", unseen["b"])'
    BY <2>1, <2>2, <1>2 DEF Quiet, Ordered
  <2> QED
    BY <1>1, <1>2, <2>1, <2>2, <2>3, <2>4, <2>5, <2>6, <2>7, <2>8, <2>9, <2>10, <2>11 DEF Inv212
<1>12. CASE t = "main" /\ place[t] = 2 /\ Now(t) = [op |-> "join", thread |-> "b"]
  <2>1. /\ Base("p212") /\ ThreadStep("main") /\ Now("main") = [op |-> "join", thread |-> "b"]
        /\ place["main"] = 2
    BY <1>1, <1>12
  <2>2. /\ Base("p212")' /\ Moves("main") /\ Quiet(LocationsOf("p212"), "main") /\ Ended("b")
        /\ UNCHANGED <<reg, processed, unseen, depends, fenced, scLast>>
        /\ \A x \in LocationsOf("p212") : Seen(x, "b") => Seen(x, "main")'
    BY <2>1, <1>2, JoinSees
  <2>3. /\ place'["main"] = 3
        /\ place'["a"] = place["a"]
        /\ place'["b"] = place["b"]
    BY <2>1, <2>2, <1>2 DEF Moves
  <2>4. reg'["b"] = reg["b"]
    BY <2>1, <2>2, <1>2
  <2>5. /\ Vals("y")' = Vals("y")
        /\ Top("x")' = Top("x")
        /\ Top("z")' = Top("z")
    BY <2>1, <2>2, <1>2, QuietKeeps
  <2>6. /\ Seen("x", "a") => Seen("x", "a")'
        /\ Seen("x", "b") => Seen("x", "b")'
        /\ Seen("z", "b") => Seen("z", "b")'
        /\ Seen("z", "main") => Seen("z", "main")'
    BY <2>1, <2>2, <1>2, QuietSeen
  <2>7. Passes("y", 1, "x") => Passes("y", 1, "x")'
    BY <2>1, <2>2, <1>2, QuietPasses
  <2>8. place["b"] >= 5
    BY <2>1, <2>2, Ends212, <1>1, <1>2
  <2>9. Seen("x", "b") => Seen("x", "main")'
    BY <2>1, <2>2, <1>2
  <2>10. Seen("z", "b") => Seen("z", "main")'
    BY <2>1, <2>2, <1>2
  <2>11. Ordered("x", fenced["a"]) => Ordered("x", fenced["a"])'
    BY <2>1, <2>2, <1>2 DEF Quiet, Ordered
  <2>12. Ordered("x", unseen["b"]) => Ordered("x", unseen["b"])'
    BY <2>1, <2>2, <1>2 DEF Quiet, Ordered
  <2> QED
    BY <1>1, <1>2, <2>1, <2>2, <2>3, <2>4, <2>5, <2>6, <2>7, <2>8, <2>9, <2>10, <2>11, <2>12 DEF Inv212
<1>13. CASE t = "main" /\ place[t] = 3 /\ Now(t) = [op |-> "join", thread |-> "c"]
  <2>1. /\ Base("p212") /\ ThreadStep("main") /\ Now("main") = [op |-> "join", thread |-> "c"]
        /\ place["main"] = 3
    BY <1>1, <1>13
  <2>2. /\ Base("p212")' /\ Moves("main") /\ Quiet(LocationsOf("p212"), "main") /\ Ended("c")
        /\ UNCHANGED <<reg, processed, unseen, depends, fenced, scLast>>
        /\ \A x \in LocationsOf("p212") : Seen(x, "c") => Seen(x, "main")'
    BY <2>1, <1>2, JoinSees
  <2>3. /\ place'["main"] = 4
        /\ place'["a"] = place["a"]
        /\ place'["b"] = place["b"]
    BY <2>1, <2>2, <1>2 DEF Moves
  <2>4. reg'["b"] = reg["b"]
    BY <2>1, <2>2, <1>2
  <2>5. /\ Vals("y")' = Vals("y")
        /\ Top("x")' = Top("x")
        /\ Top("z")' = Top("z")
    BY <2>1, <2>2, <1>2, QuietKeeps
  <2>6. /\ Seen("x", "a") => Seen("x", "a")'
        /\ Seen("x", "b") => Seen("x", "b")'
        /\ Seen("z", "b") => Seen("z", "b")'
        /\ Seen("z", "main") => Seen("z", "main")'
    BY <2>1, <2>2, <1>2, QuietSeen
  <2>7. Passes("y", 1, "x") => Passes("y", 1, "x")'
    BY <2>1, <2>2, <1>2, QuietPasses
  <2>8. Ordered("x", fenced["a"]) => Ordered("x", fenced["a"])'
    BY <2>1, <2>2, <1>2 DEF Quiet, Ordered
  <2>9. Ordered("x", unseen["b"]) => Ordered("x", unseen["b"])'
    BY <2>1, <2>2, <1>2 DEF Quiet, Ordered
  <2> QED
    BY <1>1, <1>2, <2>1, <2>2, <2>3, <2>4, <2>5, <2>6, <2>7, <2>8, <2>9 DEF Inv212
<1>14. CASE t = "main" /\ place[t] = 4 /\ Now(t) = [op |-> "join", thread |-> "d"]
  <2>1. /\ Base("p212") /\ ThreadStep("main") /\ Now("main") = [op |-> "join", thread |-> "d"]
        /\ place["main"] = 4
    BY <1>1, <1>14
  <2>2. /\ Base("p212")' /\ Moves("main") /\ Quiet(LocationsOf("p212"), "main") /\ Ended("d")
        /\ UNCHANGED <<reg, processed, unseen, depends, fenced, scLast>>
        /\ \A x \in LocationsOf("p212") : Seen(x, "d") => Seen(x, "main")'
    BY <2>1, <1>2, JoinSees
  <2>3. /\ place'["main"] = 5
        /\ place'["a"] = place["a"]
        /\ place'["b"] = place["b"]
    BY <2>1, <2>2, <1>2 DEF Moves
  <2>4. reg'["b"] = reg["b"]
    BY <2>1, <2>2, <1>2
  <2>5. /\ Vals("y")' = Vals("y")
        /\ Top("x")' = Top("x")
        /\ Top("z")' = Top("z")
    BY <2>1, <2>2, <1>2, QuietKeeps
  <2>6. /\ Seen("x", "a") => Seen("x", "a")'
        /\ Seen("x", "b") => Seen("x", "b")'
        /\ Seen("z", "b") => Seen("z", "b")'
        /\ Seen("z", "main") => Seen("z", "main")'
    BY <2>1, <2>2, <1>2, QuietSeen
  <2>7. Passes("y", 1, "x") => Passes("y", 1, "x")'
    BY <2>1, <2>2, <1>2, QuietPasses
  <2>8. Ordered("x", fenced["a"]) => Ordered("x", fenced["a"])'
    BY <2>1, <2>2, <1>2 DEF Quiet, Ordered
  <2>9. Ordered("x", unseen["b"]) => Ordered("x", unseen["b"])'
    BY <2>1, <2>2, <1>2 DEF Quiet, Ordered
  <2> QED
    BY <1>1, <1>2, <2>1, <2>2, <2>3, <2>4, <2>5, <2>6, <2>7, <2>8, <2>9 DEF Inv212
<1> QED
  BY <1>1, <1>3, <1>4, <1>5, <1>6, <1>7, <1>8, <1>9, <1>10, <1>11, <1>12, <1>13, <1>14, NotEnded,
     Text212

\* The invariant of p212 makes every statement that is next good.
LEMMA Holds212 ==
  ASSUME Inv212
  PROVE  NoDataRace /\ AssertionsHold
<1>1. Base("p212") /\ program = "p212" /\ place["a"] \in Nat /\ place["b"] \in Nat /\ place["main"] \in Nat
  BY DEF Inv212, Base, ThreadNames
<1>2. /\ {"x", "y", "z"} \subseteq LocationsOf("p212")
      /\ {"a", "b", "main"} \subseteq ThreadNames
  BY Locations212 DEF ThreadNames
<1>3. ASSUME NEW t \in ThreadNames, ~Ended(t) PROVE Good(t)
  <2>1. place[t] \in Nat \ {0}
    BY <1>1 DEF Base
  <2>2. CASE t = "a" /\ place[t] = 1 /\ Now(t) = Put("x", 1)
    BY <2>2, <1>2, <1>1, GoodPut DEF Inv212
  <2>3. CASE t = "a" /\ place[t] = 2 /\ Now(t) = Fence("release")
    BY <2>3, GoodFence
  <2>4. CASE t = "a" /\ place[t] = 3 /\ Now(t) = StoreOf("y", 1, "relaxed")
    BY <2>4, GoodStoreOf
  <2>5. CASE t = "b" /\ place[t] = 1 /\ Now(t) = WaitFor("y", 1, "relaxed")
    BY <2>5, GoodWaitFor
  <2>6. CASE t = "b" /\ place[t] = 2 /\ Now(t) = Fence("acquire")
    BY <2>6, GoodFence
  <2>7. CASE t = "b" /\ place[t] = 3 /\ Now(t) = Get("x")
    BY <2>7, <1>2, <1>1, GoodGet DEF Inv212
  <2>8. CASE t = "b" /\ place[t] = 4 /\ Now(t) = CountIf("z")
    BY <2>8, GoodCountIf
  <2>9. CASE t = "main" /\ place[t] = 5 /\ Now(t) = Expect("z", {1}, "seq_cst")
    BY <2>9, <1>2, <1>1, GoodExpectTop DEF Inv212
  <2>10. CASE t = "main" /\ place[t] = 1 /\ Now(t) = [op |-> "join", thread |-> "a"]
    BY <2>10, GoodJoin
  <2>11. CASE t = "main" /\ place[t] = 2 /\ Now(t) = [op |-> "join", thread |-> "b"]
    BY <2>11, GoodJoin
  <2>12. CASE t = "main" /\ place[t] = 3 /\ Now(t) = [op |-> "join", thread |-> "c"]
    BY <2>12, GoodJoin
  <2>13. CASE t = "main" /\ place[t] = 4 /\ Now(t) = [op |-> "join", thread |-> "d"]
    BY <2>13, GoodJoin
  <2> QED
    BY <1>1, <1>3, <2>1, <2>2, <2>3, <2>4, <2>5, <2>6, <2>7, <2>8, <2>9, <2>10, <2>11, <2>12, <2>13,
       Text212
<1> QED
  BY <1>3, GoodAll

-------------------------------------------------------------------------------
(* All programs. *)

\* What holds always: the invariant of the program that was chosen.
OrdersInv == \/ Inv169 \/ Inv180 \/ Inv187 \/ Inv191 \/ Inv193 \/ Inv200
             \/ Inv203 \/ Inv204 \/ Inv207 \/ Inv209 \/ Inv212

\* A step that changes no variable keeps the basis of a program.
LEMMA StillBase ==
  ASSUME NEW p, Base(p), UNCHANGED ordersVars
  PROVE  Base(p)'
<1>1. MemOK(LocationsOf(p))'
  BY SameMem DEF Base, ordersVars
<1> QED
  BY <1>1 DEF Base, ordersVars

\* Nor the facts that the invariants are made of.
LEMMA Still ==
  ASSUME UNCHANGED ordersVars
  PROVE  /\ \A x, t : Seen(x, t)' <=> Seen(x, t)
         /\ \A x, t : Saw(x, t)' <=> Saw(x, t)
         /\ \A x : Top(x)' = Top(x) /\ Size(x)' = Size(x) /\ Vals(x)' = Vals(x)
         /\ \A x : Ones(x)' <=> Ones(x)
         /\ \A x : Counts(x)' <=> Counts(x)
         /\ \A f, x : Leads(f, x)' <=> Leads(f, x)
         /\ \A f, v, x : Passes(f, v, x)' <=> Passes(f, v, x)
         /\ \A x, t : /\ Ordered(x, depends[t])' <=> Ordered(x, depends[t])
                      /\ Ordered(x, fenced[t])' <=> Ordered(x, fenced[t])
                      /\ Ordered(x, unseen[t])' <=> Ordered(x, unseen[t])
         /\ \A t : Ended(t)' <=> Ended(t)
         /\ place' = place /\ reg' = reg /\ program' = program /\ processed' = processed
<1>1. history' = history /\ view' = view /\ depends' = depends /\ fenced' = fenced /\ unseen' = unseen
  BY DEF ordersVars, memory
<1>2. scLast' = scLast /\ place' = place /\ reg' = reg /\ program' = program /\ processed' = processed
  BY DEF ordersVars, memory
<1> QED
  BY <1>1, <1>2 DEF Seen, Saw, Top, Size, Vals, Ones, Counts, Leads, Passes, Newest, Ordered, Ended

\* A step that changes no variable keeps the invariant of p169.
LEMMA Same169 ==
  ASSUME Inv169, UNCHANGED ordersVars
  PROVE  Inv169'
  BY Still, StillBase DEF Inv169, Spot

\* A step that changes no variable keeps the invariant of p180.
LEMMA Same180 ==
  ASSUME Inv180, UNCHANGED ordersVars
  PROVE  Inv180'
  BY Still, StillBase DEF Inv180

\* A step that changes no variable keeps the invariant of p187.
LEMMA Same187 ==
  ASSUME Inv187, UNCHANGED ordersVars
  PROVE  Inv187'
  BY Still, StillBase DEF Inv187

\* A step that changes no variable keeps the invariant of p191.
LEMMA Same191 ==
  ASSUME Inv191, UNCHANGED ordersVars
  PROVE  Inv191'
  BY Still, StillBase DEF Inv191

\* A step that changes no variable keeps the invariant of p193.
LEMMA Same193 ==
  ASSUME Inv193, UNCHANGED ordersVars
  PROVE  Inv193'
  BY Still, StillBase DEF Inv193

\* A step that changes no variable keeps the invariant of p200.
LEMMA Same200 ==
  ASSUME Inv200, UNCHANGED ordersVars
  PROVE  Inv200'
  BY Still, StillBase DEF Inv200

\* A step that changes no variable keeps the invariant of p203.
LEMMA Same203 ==
  ASSUME Inv203, UNCHANGED ordersVars
  PROVE  Inv203'
  BY Still, StillBase DEF Inv203

\* A step that changes no variable keeps the invariant of p204.
LEMMA Same204 ==
  ASSUME Inv204, UNCHANGED ordersVars
  PROVE  Inv204'
  BY Still, StillBase DEF Inv204

\* A step that changes no variable keeps the invariant of p207.
LEMMA Same207 ==
  ASSUME Inv207, UNCHANGED ordersVars
  PROVE  Inv207'
  BY Still, StillBase DEF Inv207

\* A step that changes no variable keeps the invariant of p209.
LEMMA Same209 ==
  ASSUME Inv209, UNCHANGED ordersVars
  PROVE  Inv209'
<1>1. Base("p209")'
  BY StillBase DEF Inv209
<1>2. place' = place /\ reg' = reg /\ processed' = processed /\ Top("count")' = Top("count")
  BY Still
<1>3. Handled209' = Handled209 /\ Busy("b")' = Busy("b") /\ Busy("c")' = Busy("c")
  BY <1>2, Frame209
<1>4. Left209' = Left209
  BY <1>2 DEF Left209
<1>5. /\ \A t : Seen("queue_data", t)' <=> Seen("queue_data", t)
      /\ Leads("count", "queue_data")' <=> Leads("count", "queue_data")
  BY Still
<1> QED
  BY <1>1, <1>2, <1>3, <1>4, <1>5 DEF Inv209

\* A step that changes no variable keeps the invariant of p212.
LEMMA Same212 ==
  ASSUME Inv212, UNCHANGED ordersVars
  PROVE  Inv212'
  BY Still, StillBase DEF Inv212

\* The invariant holds at the start, whichever program is chosen.
LEMMA InitInv == OrdersInit => OrdersInv
<1> SUFFICES ASSUME OrdersInit PROVE OrdersInv
  OBVIOUS
<1>1. DOMAIN Programs = {"p169", "p180", "p187", "p191", "p193", "p198", "p200", "p203", "p204", "p207", "p209", "p212"}
  BY DEF Programs
<1>2. program \in DOMAIN Programs
  BY DEF OrdersInit
<1>3. program \in {"p191", "p198"} => Inv191
  BY DEF Inv191, OrdersInit
<1>4. /\ (program = "p169" => Inv169) /\ (program = "p180" => Inv180) /\ (program = "p187" => Inv187)
      /\ (program = "p193" => Inv193) /\ (program = "p200" => Inv200) /\ (program = "p203" => Inv203)
      /\ (program = "p204" => Inv204) /\ (program = "p207" => Inv207) /\ (program = "p209" => Inv209)
      /\ program = "p212" => Inv212
  BY Init169, Init180, Init187, Init193, Init200, Init203, Init204, Init207, Init209, Init212
<1> QED
  BY <1>1, <1>2, <1>3, <1>4 DEF OrdersInv

\* Every step keeps the invariant.
LEMMA NextInv == OrdersInv /\ [OrdersNext]_ordersVars => OrdersInv'
<1> SUFFICES ASSUME OrdersInv, [OrdersNext]_ordersVars PROVE OrdersInv'
  OBVIOUS
<1>1. ASSUME NEW t \in ThreadNames, ThreadStep(t) PROVE OrdersInv'
  <2>1. CASE Inv169
    BY <1>1, <2>1, Step169 DEF OrdersInv
  <2>2. CASE Inv180
    BY <1>1, <2>2, Step180 DEF OrdersInv
  <2>3. CASE Inv187
    BY <1>1, <2>3, Step187 DEF OrdersInv
  <2>4. CASE Inv191
    <3>1. program' = program /\ place' \in [ThreadNames -> Nat \ {0}]
      BY <1>1, <2>4, StepTypes DEF Inv191
    <3> QED
      BY <2>4, <3>1 DEF OrdersInv, Inv191
  <2>5. CASE Inv193
    BY <1>1, <2>5, Step193 DEF OrdersInv
  <2>6. CASE Inv200
    BY <1>1, <2>6, Step200 DEF OrdersInv
  <2>7. CASE Inv203
    BY <1>1, <2>7, Step203 DEF OrdersInv
  <2>8. CASE Inv204
    BY <1>1, <2>8, Step204 DEF OrdersInv
  <2>9. CASE Inv207
    BY <1>1, <2>9, Step207 DEF OrdersInv
  <2>10. CASE Inv209
    BY <1>1, <2>10, Step209 DEF OrdersInv
  <2>11. CASE Inv212
    BY <1>1, <2>11, Step212 DEF OrdersInv
  <2> QED
    BY <2>1, <2>2, <2>3, <2>4, <2>5, <2>6, <2>7, <2>8, <2>9, <2>10, <2>11 DEF OrdersInv
<1>2. CASE UNCHANGED ordersVars
  BY <1>2, Same169, Same180, Same187, Same191, Same193, Same200, Same203, Same204, Same207, Same209,
     Same212 DEF OrdersInv
<1> QED
  BY <1>1, <1>2 DEF OrdersNext

\* The invariant implies the three properties.
LEMMA InvHolds == OrdersInv => NoDataRace /\ AssertionsHold /\ ItemsHandledOnce
<1> SUFFICES ASSUME OrdersInv PROVE NoDataRace /\ AssertionsHold /\ ItemsHandledOnce
  OBVIOUS
<1>1. NoDataRace /\ AssertionsHold
  BY Holds169, Holds180, Holds187, Holds191, Holds193, Holds200, Holds203, Holds204, Holds207, Holds209,
     Holds212 DEF OrdersInv
<1>2. ItemsHandledOnce
  <2>1. CASE Inv209
    BY <2>1, Once209
  <2>2. CASE ~Inv209
    <3>1. program # "p209"
      BY <2>2 DEF OrdersInv, Inv169, Inv180, Inv187, Inv191, Inv193, Inv200, Inv203, Inv204, Inv207,
         Inv212, Base
    <3> QED
      BY <3>1 DEF ItemsHandledOnce
  <2> QED
    BY <2>1, <2>2
<1> QED
  BY <1>1, <1>2

\* The invariant always holds.
LEMMA Always == OrdersSpec => []OrdersInv
<1>1. OrdersInit => OrdersInv
  BY InitInv
<1>2. OrdersInv /\ [OrdersNext]_ordersVars => OrdersInv'
  BY NextInv
<1> QED
  BY <1>1, <1>2, PTL DEF OrdersSpec

\* The atomics of the programs order all that they share: no two threads race on ordinary
\* memory, for any number of items, rounds and polls.
THEOREM OrdersAreEnough == OrdersSpec => []NoDataRace
<1>1. OrdersInv => NoDataRace
  BY InvHolds
<1> QED
  BY <1>1, Always, PTL

\* The assertions that the comments say never fire never do, whatever old values are read.
THEOREM AssertionsNeverFire == OrdersSpec => []AssertionsHold
<1>1. OrdersInv => AssertionsHold
  BY InvHolds
<1> QED
  BY <1>1, Always, PTL

\* The two consumers of p209 share out the items: each is handled once and none is lost.
THEOREM ItemsAreHandledOnce == OrdersSpec => []ItemsHandledOnce
<1>1. OrdersInv => ItemsHandledOnce
  BY InvHolds
<1> QED
  BY <1>1, Always, PTL
===============================================================================
