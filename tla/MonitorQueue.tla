----------------------------- MODULE MonitorQueue -----------------------------
(***************************************************************************)
(* The queue guarded by one mutex and one condition variable: class        *)
(* ThreadSafeQueue of p117 and of p229 and class Messaging::Queue of the   *)
(* ATM.  The three share their control and differ in the notification:     *)
(* p117 and p229 call notify_one, the ATM's queue calls notify_all, always *)
(* while the mutex is held.                                                *)
(*                                                                         *)
(* A call is a sequence of steps of one thread: acquire the mutex, test,   *)
(* read the front, remove it, notify, release.  condition_variable::wait   *)
(* releases the mutex and joins the waiters in one step, and a woken       *)
(* thread takes the mutex again before it tests its predicate.             *)
(***************************************************************************)
EXTENDS Naturals, Sequences, FiniteSets

CONSTANTS Threads,     \* the threads that share the queue
          Values,      \* the values they push
          NoThread,    \* the owner of a free mutex
          NoValue,     \* the result of a call that returns nothing
          NotifyAll,   \* TRUE for the ATM's queue, FALSE for p117 and p229
          MaxPush,     \* bound: how many pushes are started
          MaxSlack     \* bound: how many polls and spurious wakeups happen

ASSUME MonitorQueueAssumption ==
    /\ IsFiniteSet(Threads)
    /\ NoThread \notin Threads
    /\ NoValue \notin Values
    /\ NotifyAll \in BOOLEAN
    /\ MaxPush \in Nat
    /\ MaxSlack \in Nat

VARIABLES queue,     \* _data_queue
          owner,     \* the holder of _data_mutex, or NoThread
          waiting,   \* the threads inside _data_cond.wait that nobody has woken
          pc,        \* what each thread does next
          val,       \* the value a thread is pushing or has taken from the front
          pushed,    \* pushes started so far, at most MaxPush
          slack      \* polls and spurious wakeups left

vars == <<queue, owner, waiting, pc, val, pushed, slack>>

Locking  == {"push_lock", "wait_lock", "try_lock", "relock"}
Critical == {"push_data", "push_notify", "wait_check", "try_check",
             "pop_front", "pop_remove", "unlock"}

\* Thread t moves on to l.
Goto(t, l) == pc' = [pc EXCEPT ![t] = l]

Init == /\ queue = <<>>
        /\ owner = NoThread
        /\ waiting = {}
        /\ pc = [t \in Threads |-> "idle"]
        /\ val = [t \in Threads |-> NoValue]
        /\ pushed = 0
        /\ slack = MaxSlack
-------------------------------------------------------------------------------
(* Calls. *)

CallPush(t, v) == /\ pc[t] = "idle"
                  /\ pushed < MaxPush
                  /\ pushed' = pushed + 1
                  /\ val' = [val EXCEPT ![t] = v]
                  /\ Goto(t, "push_lock")
                  /\ UNCHANGED <<queue, owner, waiting, slack>>

CallWaitAndPop(t) == /\ pc[t] = "idle"
                     /\ Goto(t, "wait_lock")
                     /\ UNCHANGED <<queue, owner, waiting, val, pushed, slack>>

CallTryPop(t) == /\ pc[t] = "idle"
                 /\ slack > 0
                 /\ slack' = slack - 1
                 /\ Goto(t, "try_lock")
                 /\ UNCHANGED <<queue, owner, waiting, val, pushed>>
-------------------------------------------------------------------------------
(* The mutex. *)

\* Seeded fault: wait_and_pop waits in an if: a woken thread does not test its
\* predicate again.
Locked_IfWait(l) == CASE l = "push_lock" -> "push_data"
                      [] l = "try_lock" -> "try_check"
                      [] l = "relock" -> "pop_front"
                      [] OTHER -> "wait_check"

\* Where a thread that was acquiring the mutex at l continues.
Locked(l) == CASE l = "push_lock" -> "push_data"
               [] l = "try_lock" -> "try_check"
               [] OTHER -> "wait_check"

Lock(t) == /\ pc[t] \in Locking
           /\ owner = NoThread
           /\ owner' = t
           /\ Goto(t, Locked(pc[t]))
           /\ UNCHANGED <<queue, waiting, val, pushed, slack>>

\* The lock object goes out of scope and the call returns.
Unlock(t) == /\ pc[t] = "unlock"
             /\ owner' = NoThread
             /\ val' = [val EXCEPT ![t] = NoValue]
             /\ Goto(t, "idle")
             /\ UNCHANGED <<queue, waiting, pushed, slack>>
-------------------------------------------------------------------------------
(* push. *)

\* Seeded fault: the value goes to the wrong end.
PushData_AtFront(t) == /\ pc[t] = "push_data"
                       /\ queue' = <<val[t]>> \o queue
                       /\ val' = [val EXCEPT ![t] = NoValue]
                       /\ Goto(t, "push_notify")
                       /\ UNCHANGED <<owner, waiting, pushed, slack>>

PushData(t) == /\ pc[t] = "push_data"
               /\ queue' = Append(queue, val[t])
               /\ val' = [val EXCEPT ![t] = NoValue]
               /\ Goto(t, "push_notify")
               /\ UNCHANGED <<owner, waiting, pushed, slack>>

\* The sets of waiters a notification may wake.
Wakeable == IF waiting = {} THEN {{}}
            ELSE IF NotifyAll THEN {waiting}
            ELSE {{u} : u \in waiting}

\* Seeded fault: the push that finds the queue empty does not notify.
PushNotify_NotFirst(t) ==
    /\ pc[t] = "push_notify"
    /\ \E woken \in (IF Len(queue) > 1 THEN Wakeable ELSE {{}}) :
          /\ waiting' = waiting \ woken
          /\ pc' = [u \in Threads |-> IF u = t THEN "unlock"
                                      ELSE IF u \in woken THEN "relock" ELSE pc[u]]
    /\ UNCHANGED <<queue, owner, val, pushed, slack>>

PushNotify(t) ==
    /\ pc[t] = "push_notify"
    /\ \E woken \in Wakeable :
          /\ waiting' = waiting \ woken
          /\ pc' = [u \in Threads |-> IF u = t THEN "unlock"
                                      ELSE IF u \in woken THEN "relock" ELSE pc[u]]
    /\ UNCHANGED <<queue, owner, val, pushed, slack>>
-------------------------------------------------------------------------------
(* wait_and_pop and try_pop. *)

\* Seeded fault: the thread blocks without giving the mutex back.
WaitCheck_KeepsMutex(t) ==
    /\ pc[t] = "wait_check"
    /\ \/ /\ queue # <<>>
          /\ Goto(t, "pop_front")
          /\ UNCHANGED waiting
       \/ /\ queue = <<>>
          /\ Goto(t, "blocked")
          /\ waiting' = waiting \cup {t}
    /\ UNCHANGED <<queue, owner, val, pushed, slack>>

WaitCheck(t) ==
    /\ pc[t] = "wait_check"
    /\ \/ /\ queue # <<>>
          /\ Goto(t, "pop_front")
          /\ UNCHANGED <<owner, waiting>>
       \/ /\ queue = <<>>
          /\ Goto(t, "blocked")
          /\ waiting' = waiting \cup {t}
          /\ owner' = NoThread
    /\ UNCHANGED <<queue, val, pushed, slack>>

\* A condition variable may wake a waiter that nobody notified.
SpuriousWakeup(t) == /\ t \in waiting
                     /\ slack > 0
                     /\ slack' = slack - 1
                     /\ waiting' = waiting \ {t}
                     /\ Goto(t, "relock")
                     /\ UNCHANGED <<queue, owner, val, pushed>>

TryCheck(t) == /\ pc[t] = "try_check"
               /\ Goto(t, IF queue = <<>> THEN "unlock" ELSE "pop_front")
               /\ UNCHANGED <<queue, owner, waiting, val, pushed, slack>>

PopFront(t) == /\ pc[t] = "pop_front"
               /\ val' = [val EXCEPT ![t] = Head(queue)]
               /\ Goto(t, "pop_remove")
               /\ UNCHANGED <<queue, owner, waiting, pushed, slack>>

PopRemove(t) == /\ pc[t] = "pop_remove"
                /\ queue' = Tail(queue)
                /\ Goto(t, "unlock")
                /\ UNCHANGED <<owner, waiting, val, pushed, slack>>
-------------------------------------------------------------------------------
\* The steps of a call in progress.
Step(t) == \/ Lock(t)
           \/ PushData(t)
           \/ PushNotify(t)
           \/ WaitCheck(t)
           \/ TryCheck(t)
           \/ PopFront(t)
           \/ PopRemove(t)
           \/ Unlock(t)

Next == \E t \in Threads : \/ Step(t)
                           \/ SpuriousWakeup(t)
                           \/ \E v \in Values : CallPush(t, v)
                           \/ CallWaitAndPop(t)
                           \/ CallTryPop(t)

Spec == Init /\ [][Next]_vars

\* The scheduler lets a thread that can run finish the call it is in.  Nobody
\* is obliged to make a call, and no wakeup is owed without a notification.
FairSpec == Spec /\ \A t \in Threads : WF_vars(Step(t))
-------------------------------------------------------------------------------
(* Properties. *)

\* Every variable has its type, the condition variable's waiters are exactly the
\* threads blocked inside wait, and front() and pop() are only called on a queue
\* that holds something, whoever took what between the notification and the
\* woken thread's next turn (p117:27-29, p229:33-35, messaging_queue.h:42-44).
TypeOK == /\ queue \in Seq(Values)
          /\ owner \in Threads \cup {NoThread}
          /\ pc \in [Threads -> Locking \cup Critical \cup {"idle", "blocked"}]
          /\ waiting = {t \in Threads : pc[t] = "blocked"}
          /\ \A t \in Threads : pc[t] \in {"pop_front", "pop_remove"} => queue # <<>>
          /\ val \in [Threads -> Values \cup {NoValue}]
          /\ pushed \in 0 .. MaxPush
          /\ slack \in 0 .. MaxSlack

\* The mutex does its work: the thread inside a critical section is its owner,
\* and a thread that waits on the condition variable has given it up.
MutexInv == \A t \in Threads : pc[t] \in Critical <=> owner = t

\* Threads that are on their way to the data or about to wake somebody up.
Helpers == {t \in Threads : pc[t] \in {"push_notify", "relock", "wait_check",
                                       "pop_front", "pop_remove"}}

\* No lost wakeup: while some thread sleeps in wait_and_pop, every value in the
\* queue has a thread of its own that is awake and will take it, or that is
\* about to notify.  One notify_one per push is therefore enough.
NoLostWakeup == waiting # {} => Len(queue) <= Cardinality(Helpers)

\* Values leave the queue once each, in the order of the pushes, whatever the
\* interleaving of push, wait_and_pop and try_pop: the monitor implements the
\* abstract channel.
Channel == INSTANCE FifoChannel WITH
               items <- queue,
               got   <- [t \in Threads |-> IF pc[t] = "unlock" THEN val[t] ELSE NoValue]
ImplementsChannel == Channel!Spec

\* Data and sleepers do not stay together: a value in the queue and a thread
\* asleep in wait_and_pop cannot both last for ever.
SleepersAreServed == []<>(queue = <<>> \/ waiting = {})
===============================================================================
