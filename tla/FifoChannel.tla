------------------------------ MODULE FifoChannel ------------------------------
(***************************************************************************)
(* What every thread-safe queue of the repository promises its callers: a  *)
(* push and a pop each take effect at one instant, and the values come out *)
(* once each, in the order in which they went in.  The queue modules       *)
(* implement this specification; the ATM module builds on it by treating a *)
(* send as one step.                                                       *)
(***************************************************************************)
EXTENDS Sequences

CONSTANTS Threads,   \* the threads that share the queue
          Values,    \* the values a caller may push
          NoValue    \* what a call that returns no value returns

VARIABLES items,     \* the values pushed and not yet popped, oldest first
          got        \* the value a popping thread holds and has not returned yet

vars == <<items, got>>

Init == /\ items = <<>>
        /\ got = [t \in Threads |-> NoValue]

Push(v) == /\ items' = Append(items, v)
           /\ UNCHANGED got

Pop(t) == /\ items # <<>>
          /\ got' = [got EXCEPT ![t] = Head(items)]
          /\ items' = Tail(items)

\* The popping call hands its value over to the caller.
Return(t) == /\ got' = [got EXCEPT ![t] = NoValue]
             /\ UNCHANGED items

Next == \/ \E v \in Values : Push(v)
        \/ \E t \in Threads : Pop(t) \/ Return(t)

Spec == Init /\ [][Next]_vars
===============================================================================
