-------------------------- MODULE MonitorQueueProofs --------------------------
(***************************************************************************)
(* Proofs about the monitor queue, for every set of threads and values and *)
(* for notify_one and notify_all alike: its types, the mutex, the absence  *)
(* of lost wakeups, and that it implements the abstract FIFO channel.      *)
(***************************************************************************)
EXTENDS MonitorQueue, TLAPS, FiniteSetTheorems, SequenceTheorems

\* What a thread carries at each label: the value of a push until it is queued,
\* the front of the queue between front() and pop(), and otherwise nothing.
ValInv == \A t \in Threads :
    /\ pc[t] \in {"push_lock", "push_data"} => val[t] \in Values
    /\ pc[t] \in {"idle", "wait_lock", "try_lock", "relock", "blocked", "wait_check",
                  "try_check", "pop_front", "push_notify"} => val[t] = NoValue
    /\ pc[t] = "pop_remove" => val[t] = Head(queue)

\* The inductive invariant: types, mutual exclusion and the threads' values.
IInv == TypeOK /\ MutexInv /\ ValInv

\* A new queue satisfies the invariant.
LEMMA InitIInv == Init => IInv
  BY MonitorQueueAssumption DEF Init, IInv, TypeOK, MutexInv, ValInv, Locking, Critical

\* Every step of every thread preserves it.
LEMMA NextIInv == IInv /\ [Next]_vars => IInv'
<1> SUFFICES ASSUME IInv, [Next]_vars PROVE IInv'
  OBVIOUS
<1> USE MonitorQueueAssumption DEF IInv, TypeOK, MutexInv, ValInv, Locking, Critical, Goto
<1>1. ASSUME NEW t \in Threads, Lock(t) PROVE IInv'
  BY <1>1 DEF Lock, Locked
<1>2. ASSUME NEW t \in Threads, PushData(t) PROVE IInv'
  BY <1>2 DEF PushData
<1>3. ASSUME NEW t \in Threads, PushNotify(t) PROVE IInv'
  BY <1>3 DEF PushNotify, Wakeable
<1>4. ASSUME NEW t \in Threads, WaitCheck(t) PROVE IInv'
  BY <1>4 DEF WaitCheck
<1>5. ASSUME NEW t \in Threads, TryCheck(t) PROVE IInv'
  BY <1>5 DEF TryCheck
<1>6. ASSUME NEW t \in Threads, PopFront(t) PROVE IInv'
  BY <1>6 DEF PopFront
<1>7. ASSUME NEW t \in Threads, PopRemove(t) PROVE IInv'
  BY <1>7 DEF PopRemove
<1>8. ASSUME NEW t \in Threads, Unlock(t) PROVE IInv'
  BY <1>8 DEF Unlock
<1>9. ASSUME NEW t \in Threads, SpuriousWakeup(t) PROVE IInv'
  BY <1>9 DEF SpuriousWakeup
<1>10. ASSUME NEW t \in Threads, NEW v \in Values, CallPush(t, v) PROVE IInv'
  BY <1>10 DEF CallPush
<1>11. ASSUME NEW t \in Threads, CallWaitAndPop(t) PROVE IInv'
  BY <1>11 DEF CallWaitAndPop
<1>12. ASSUME NEW t \in Threads, CallTryPop(t) PROVE IInv'
  BY <1>12 DEF CallTryPop
<1>13. CASE UNCHANGED vars
  BY <1>13 DEF vars
<1> QED
  BY <1>1, <1>2, <1>3, <1>4, <1>5, <1>6, <1>7, <1>8, <1>9, <1>10, <1>11, <1>12, <1>13
  DEF Next, Step

\* The variables keep their types, for any threads and values (p229, p117 and
\* messaging_queue.h), together with the mutex and the threads' values.
THEOREM Invariance == Spec => []IInv
  BY InitIInv, NextIInv, PTL DEF Spec

\* Types; the condition variable's waiters are the threads inside wait, and nobody
\* calls front() or pop() on an empty queue, however many threads the value woke and
\* however many poll (p117:27-29, p229:33-35, messaging_queue.h:42-44).
THEOREM TypeCorrect == Spec => []TypeOK
  BY Invariance, PTL DEF IInv

\* Two threads are never between lock and unlock of _data_mutex together.
THEOREM MutualExclusion == Spec => []MutexInv
  BY Invariance, PTL DEF IInv
-------------------------------------------------------------------------------
(* No lost wakeup. *)

\* The helpers can be counted, before a step and after it.
LEMMA HelpersFinite == IsFiniteSet(Helpers) /\ Cardinality(Helpers) \in Nat
  BY MonitorQueueAssumption, FS_Subset, FS_CardinalityType DEF Helpers

\* The same of the next state.
LEMMA HelpersFiniteNext == IsFiniteSet(Helpers') /\ Cardinality(Helpers') \in Nat
<1>1. Helpers' \subseteq Threads
  BY DEF Helpers
<1> QED
  BY <1>1, MonitorQueueAssumption, FS_Subset, FS_CardinalityType

\* A step that takes nobody from the helpers, adds no sleeper and no value keeps
\* the count.
LEMMA MoreHelpers ==
  ASSUME NoLostWakeup, queue \in Seq(Values),
         Helpers \subseteq Helpers', waiting' \subseteq waiting, queue' = queue
  PROVE  NoLostWakeup'
<1>1. Cardinality(Helpers) <= Cardinality(Helpers')
  BY HelpersFiniteNext, FS_Subset
<1>2. Len(queue) \in Nat
  BY LenProperties
<1> QED
  BY <1>1, <1>2, HelpersFinite, HelpersFiniteNext DEF NoLostWakeup

\* No step takes a helper away from a value that needs it.
LEMMA WakeupStep == IInv /\ NoLostWakeup /\ [Next]_vars => NoLostWakeup'
<1> SUFFICES ASSUME IInv, NoLostWakeup, [Next]_vars PROVE NoLostWakeup'
  OBVIOUS
<1> USE MonitorQueueAssumption DEF IInv, TypeOK, Goto
<1>0. Len(queue) \in Nat
  BY LenProperties
\* The steps that neither add a value nor put anybody to sleep.
<1>1. ASSUME NEW t \in Threads, Lock(t) PROVE NoLostWakeup'
  <2>1. Helpers \subseteq Helpers' /\ waiting' = waiting /\ queue' = queue
    BY <1>1 DEF Lock, Locked, Locking, Helpers
  <2> QED
    BY <2>1, MoreHelpers
<1>2. ASSUME NEW t \in Threads, TryCheck(t) \/ PopFront(t) \/ Unlock(t) \/ SpuriousWakeup(t)
      PROVE  NoLostWakeup'
  <2>1. Helpers \subseteq Helpers' /\ waiting' \subseteq waiting /\ queue' = queue
    BY <1>2 DEF TryCheck, PopFront, Unlock, SpuriousWakeup, Helpers
  <2> QED
    BY <2>1, MoreHelpers
<1>3. ASSUME NEW t \in Threads,
             CallWaitAndPop(t) \/ CallTryPop(t) \/ \E v \in Values : CallPush(t, v)
      PROVE  NoLostWakeup'
  <2>1. Helpers \subseteq Helpers' /\ waiting' \subseteq waiting /\ queue' = queue
    BY <1>3 DEF CallWaitAndPop, CallTryPop, CallPush, Helpers
  <2> QED
    BY <2>1, MoreHelpers
<1>4. CASE UNCHANGED vars
  <2>1. Helpers \subseteq Helpers' /\ waiting' \subseteq waiting /\ queue' = queue
    BY <1>4 DEF vars, Helpers
  <2> QED
    BY <2>1, MoreHelpers
\* A push adds a value and itself as the helper that will notify.
<1>5. ASSUME NEW t \in Threads, PushData(t) PROVE NoLostWakeup'
  <2>1. /\ Helpers' = Helpers \cup {t}
        /\ t \notin Helpers
        /\ waiting' = waiting
    BY <1>5 DEF PushData, Helpers
  <2>2. Cardinality(Helpers') = Cardinality(Helpers) + 1
    BY <2>1, HelpersFinite, FS_AddElement
  <2>3. Len(queue') = Len(queue) + 1
    BY <1>5 DEF PushData, ValInv
  <2> QED
    BY <2>1, <2>2, <2>3, <1>0, HelpersFinite DEF NoLostWakeup
\* Its notification hands the part of the helper over to the thread it wakes.
<1>6. ASSUME NEW t \in Threads, PushNotify(t) PROVE NoLostWakeup'
  <2>1. PICK woken \in Wakeable :
            /\ waiting' = waiting \ woken
            /\ pc' = [u \in Threads |-> IF u = t THEN "unlock"
                                        ELSE IF u \in woken THEN "relock" ELSE pc[u]]
    BY <1>6 DEF PushNotify
  <2>2. CASE waiting = {} \/ NotifyAll
    BY <2>1, <2>2 DEF Wakeable, NoLostWakeup
  <2>3. CASE waiting # {} /\ ~NotifyAll
    <3>1. PICK u \in waiting : woken = {u}
      BY <2>1, <2>3 DEF Wakeable
    <3>2. /\ Helpers' = (Helpers \ {t}) \cup {u}
          /\ t \in Helpers /\ u \notin Helpers
      BY <2>1, <3>1, <1>6 DEF PushNotify, Helpers
    <3>3. Cardinality(Helpers') = Cardinality(Helpers)
      <4>1. /\ IsFiniteSet(Helpers \ {t})
            /\ Cardinality(Helpers \ {t}) = Cardinality(Helpers) - 1
        BY <3>2, HelpersFinite, FS_RemoveElement
      <4>2. Cardinality((Helpers \ {t}) \cup {u}) = Cardinality(Helpers \ {t}) + 1
        BY <3>2, <4>1, FS_AddElement
      <4> QED
        BY <3>2, <4>1, <4>2, HelpersFinite
    <3>4. queue' = queue /\ waiting # {}
      BY <1>6, <2>3 DEF PushNotify
    <3>5. Len(queue) <= Cardinality(Helpers)
      BY <3>4 DEF NoLostWakeup
    <3> QED
      BY <3>3, <3>4, <3>5 DEF NoLostWakeup
  <2> QED
    BY <2>2, <2>3
\* Nobody goes to sleep unless the queue is empty.
<1>7. ASSUME NEW t \in Threads, WaitCheck(t) PROVE NoLostWakeup'
  <2>1. CASE queue # <<>>
    <3>1. Helpers \subseteq Helpers' /\ waiting' = waiting /\ queue' = queue
      BY <2>1, <1>7 DEF WaitCheck, Helpers
    <3> QED
      BY <3>1, MoreHelpers
  <2>2. CASE queue = <<>>
    <3>1. Len(queue') = 0
      BY <2>2, <1>7 DEF WaitCheck
    <3> QED
      BY <3>1, HelpersFiniteNext DEF NoLostWakeup
  <2> QED
    BY <2>1, <2>2
\* A helper leaves with the value it took.
<1>8. ASSUME NEW t \in Threads, PopRemove(t) PROVE NoLostWakeup'
  <2>1. /\ Helpers' = Helpers \ {t}
        /\ t \in Helpers
        /\ waiting' = waiting
    BY <1>8 DEF PopRemove, Helpers
  <2>2. Cardinality(Helpers') = Cardinality(Helpers) - 1
    BY <2>1, HelpersFinite, FS_RemoveElement
  <2>3. Len(queue') = Len(queue) - 1
    BY <1>8, HeadTailProperties DEF PopRemove, ValInv
  <2> QED
    BY <2>1, <2>2, <2>3, <1>0, HelpersFinite DEF NoLostWakeup
<1> QED
  BY <1>1, <1>2, <1>3, <1>4, <1>5, <1>6, <1>7, <1>8 DEF Next, Step

\* However many threads sleep in wait_and_pop, each value in the queue has a
\* thread that is awake for it: one notify_one per push, sent under the mutex,
\* is enough (p229:28, p117:22), and so is the ATM's notify_all.
THEOREM NoWakeupIsLost == Spec => []NoLostWakeup
<1>1. Init => NoLostWakeup
  BY DEF Init, NoLostWakeup
<1> QED
  BY <1>1, Invariance, WakeupStep, PTL DEF Spec
-------------------------------------------------------------------------------
(* The abstract channel. *)

\* An empty queue is an empty channel.
LEMMA ChannelInit == Init => Channel!Init
  BY DEF Init, Channel!Init

\* PushData, PopRemove and Unlock are steps of the channel, the others stutter.
LEMMA ChannelStep == IInv /\ IInv' /\ [Next]_vars => [Channel!Next]_Channel!vars
<1> SUFFICES ASSUME IInv, IInv', [Next]_vars PROVE [Channel!Next]_Channel!vars
  OBVIOUS
<1> USE MonitorQueueAssumption DEF IInv, TypeOK, ValInv, Goto
<1> DEFINE got == [t \in Threads |-> IF pc[t] = "unlock" THEN val[t] ELSE NoValue]
<1>1. ASSUME NEW t \in Threads, PushData(t) PROVE val[t] \in Values /\ Channel!Push(val[t])
  <2>1. queue' = Append(queue, val[t])
    BY <1>1 DEF PushData
  <2>2. got' = got
    BY <1>1 DEF PushData
  <2>3. val[t] \in Values
    BY <1>1 DEF PushData
  <2> QED
    BY <2>1, <2>2, <2>3 DEF Channel!Push
<1>2. ASSUME NEW t \in Threads, PopRemove(t) PROVE Channel!Pop(t)
  <2>1. queue # <<>> /\ queue' = Tail(queue)
    BY <1>2 DEF PopRemove
  <2>2. got' = [got EXCEPT ![t] = Head(queue)]
    BY <1>2 DEF PopRemove
  <2> QED
    BY <2>1, <2>2 DEF Channel!Pop
<1>3. ASSUME NEW t \in Threads, Unlock(t) PROVE Channel!Return(t)
  <2>1. queue' = queue
    BY <1>3 DEF Unlock
  <2>2. got' = [got EXCEPT ![t] = NoValue]
    BY <1>3 DEF Unlock
  <2> QED
    BY <2>1, <2>2 DEF Channel!Return
<1>4. ASSUME NEW t \in Threads,
             \/ Lock(t) \/ PushNotify(t) \/ WaitCheck(t) \/ TryCheck(t) \/ PopFront(t)
             \/ SpuriousWakeup(t) \/ CallWaitAndPop(t) \/ CallTryPop(t)
             \/ \E v \in Values : CallPush(t, v)
      PROVE  UNCHANGED Channel!vars
  <2>1. queue' = queue
    BY <1>4 DEF Lock, PushNotify, WaitCheck, TryCheck, PopFront, SpuriousWakeup,
                CallWaitAndPop, CallTryPop, CallPush
  <2>2. got' = got
    <3>1. \A u \in Threads : got'[u] = got[u]
      BY <1>4 DEF Lock, Locked, Locking, PushNotify, Wakeable, WaitCheck, TryCheck, PopFront,
                  SpuriousWakeup, CallWaitAndPop, CallTryPop, CallPush
    <3> QED
      BY <3>1
  <2> QED
    BY <2>1, <2>2 DEF Channel!vars
<1>5. CASE UNCHANGED vars
  BY <1>5 DEF vars, Channel!vars
<1> QED
  BY <1>1, <1>2, <1>3, <1>4, <1>5 DEF Next, Step, Channel!Next

\* Every behaviour of the monitor queue is one of the abstract channel: values
\* come out once each and in the order of the pushes.
THEOREM QueueIsAChannel == Spec => ImplementsChannel
  BY ChannelInit, ChannelStep, Invariance, PTL DEF Spec, ImplementsChannel, Channel!Spec
===============================================================================
