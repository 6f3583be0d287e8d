------------------------------- MODULE LifoStack -------------------------------
(***************************************************************************)
(* What the stacks of the repository promise their callers: a push and a   *)
(* pop each take effect at one instant, and a pop takes the value pushed   *)
(* last.  The lock-free stacks implement this specification.               *)
(***************************************************************************)
EXTENDS Sequences

CONSTANTS Threads,   \* the threads that share the stack
          Values,    \* the values a caller may push
          NoValue    \* what a call that returns no value returns

VARIABLES items,     \* the values on the stack, top first
          got        \* the value a popping thread holds and has not returned yet

vars == <<items, got>>

Init == /\ items = <<>>
        /\ got = [t \in Threads |-> NoValue]

Push(v) == /\ items' = <<v>> \o items
           /\ UNCHANGED got

Pop(t) == /\ items # <<>>
          /\ got' = [got EXCEPT ![t] = Head(items)]
          /\ items' = Tail(items)

Return(t) == /\ got' = [got EXCEPT ![t] = NoValue]
             /\ UNCHANGED items

Next == \/ \E v \in Values : Push(v)
        \/ \E t \in Threads : Pop(t) \/ Return(t)

Spec == Init /\ [][Next]_vars
===============================================================================
