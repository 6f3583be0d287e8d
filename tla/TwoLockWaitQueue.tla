--------------------------- MODULE TwoLockWaitQueue ---------------------------
(***************************************************************************)
(* The queue of p241: the two-lock list of TwoLockQueue with a condition   *)
(* variable.  wait_and_pop waits on it with the head lock, evaluating the  *)
(* predicate _head.get() != get_tail(); push notifies it after it released *)
(* the tail lock and without ever taking the head lock.                    *)
(***************************************************************************)
EXTENDS TwoLockQueue

VARIABLE waiting   \* the threads inside _data_cond.wait that nobody has woken

vars == <<queueVars, waiting>>

\* p241 is the program with the condition variable.
WaitInit == CondVar /\ Init /\ waiting = {}

\* try_pop(T &), wait_and_pop() and wait_and_pop(T &): one more way each to take
\* a node out.
CallPop(t, op) == /\ pc[t] = "idle"
                  /\ op \in {"try_ref", "wait", "wait_ref"}
                  /\ budget > 0
                  /\ budget' = budget - 1
                  /\ call' = [call EXCEPT ![t] = op]
                  /\ Goto(t, "lock_head")
                  /\ UNCHANGED <<heap, ends, headOwner, tailOwner, val, node, tailSeen, waiting>>

\* The predicate is false: give up the head lock and sleep, in one step.
Block(t) == /\ pc[t] = "test"
            /\ call[t] \in {"wait", "wait_ref"}
            /\ head = tailSeen[t]
            /\ headOwner' = NoThread
            /\ waiting' = waiting \cup {t}
            /\ Goto(t, "blocked")
            /\ UNCHANGED <<heap, ends, tailOwner, locals, budget>>

\* Seeded fault: the node is popped before its value was moved out.
MoveValue_Skipped(t) == /\ pc[t] = "move_value"
                        /\ Goto(t, "detach")
                        /\ UNCHANGED <<heap, ends, headOwner, tailOwner, locals, budget, waiting>>

\* value = move(*_head->_data), under the head lock.
MoveValue(t) == /\ pc[t] = "move_value"
                /\ val' = [val EXCEPT ![t] = data[head]]
                /\ Goto(t, "detach")
                /\ UNCHANGED <<heap, ends, headOwner, tailOwner, call, node, tailSeen, budget, waiting>>

\* notify_one, with no lock held: a sleeper, if there is one, wakes and goes for
\* the head lock.
PushNotify(t) ==
    /\ pc[t] = "push_notify"
    /\ call' = [call EXCEPT ![t] = "none"]
    /\ \/ /\ waiting = {}
          /\ Goto(t, "idle")
          /\ UNCHANGED waiting
       \/ \E u \in waiting :
             /\ waiting' = waiting \ {u}
             /\ pc' = [pc EXCEPT ![t] = "idle", ![u] = "lock_head"]
    /\ UNCHANGED <<heap, ends, headOwner, tailOwner, val, node, tailSeen, budget>>

\* A condition variable may wake a waiter that nobody notified.
SpuriousWakeup(t) == /\ t \in waiting
                     /\ budget > 0
                     /\ budget' = budget - 1
                     /\ waiting' = waiting \ {t}
                     /\ Goto(t, "lock_head")
                     /\ UNCHANGED <<heap, ends, headOwner, tailOwner, locals>>
-------------------------------------------------------------------------------
WaitStep(t) == \/ (PushStep(t) \/ PopStep(t)) /\ UNCHANGED waiting
               \/ Block(t)
               \/ MoveValue(t)
               \/ PushNotify(t)

WaitNext == \E t \in Threads : \/ \E v \in Values : CallPush(t, v) /\ UNCHANGED waiting
                               \/ CallTryPop(t) /\ UNCHANGED waiting
                               \/ \E op \in {"try_ref", "wait", "wait_ref"} : CallPop(t, op)
                               \/ WaitStep(t)
                               \/ SpuriousWakeup(t)

WaitSpec == WaitInit /\ [][WaitNext]_vars

\* A thread that can run finishes the call it is in; nobody owes a call or a
\* wakeup that was not notified.
Fairness == \A t \in Threads : WF_vars(WaitStep(t))
-------------------------------------------------------------------------------
(* Properties. *)

\* Every variable has its type, each lock is held by exactly the thread inside its
\* scope, with the head lock handed on by wait_for_data to the caller that pops
\* (p241:43, 47, 53), and the sleepers are exactly the threads inside the wait of
\* p241:40.
WaitTypeOK == /\ TypeOK
              /\ waiting = {t \in Threads : pc[t] = "blocked"}

\* The value a popping thread holds between taking a node out and returning; the
\* T() that p236's try_pop returns from an empty queue is none.
Result(t) ==
    CASE call[t] \in {"try", "wait"} /\ pc[t] = "read_data" -> data[node[t]]
      [] call[t] \in {"try_ref", "wait_ref"} /\ pc[t] = "detach" -> NoValue
      [] pc[t] \in {"free", "return"} /\ val[t] # DefaultValue -> val[t]
      [] OTHER -> NoValue

\* push and every kind of pop take effect at one instant each and in FIFO order,
\* although the two ends exclude each other only for the moment of get_tail().
Channel == INSTANCE FifoChannel WITH
               items <- Contents,
               got   <- [t \in Threads |-> Result(t)]
ImplementsChannel == Channel!Spec

\* The two locks never leave everyone waiting: while some thread is in a call and
\* not asleep in wait_and_pop, some thread can go on (get_tail takes the tail lock
\* under the head lock, p241:25; push takes the tail lock alone).
NoDeadlock == (\E t \in Threads : pc[t] \notin {"idle", "blocked", "push_alloc"})
                 => \E t \in Threads : ENABLED WaitStep(t)

\* A thread sleeping in wait_and_pop and a value in the queue do not stay
\* together for ever: the notification of p241:121 is for the thread that will
\* wake up and take the value.
SleepersAreServed == []<>(head = tail \/ waiting = {})
===============================================================================
