------------------------------- MODULE AtomicList -------------------------------
(***************************************************************************)
(* What the list with a lock per node promises its callers: every          *)
(* operation works on the whole list at one instant.  A traversal that     *)
(* changes or removes elements does so to all elements there are at that   *)
(* instant, and to no others.                                              *)
(***************************************************************************)
EXTENDS Filters

CONSTANTS Threads,   \* the threads that share the list
          Values,    \* the values in it
          Image      \* what the function given to for_each makes of a value

VARIABLES items,     \* the values in the list, first one first
          found      \* the outcome a searching thread has not returned yet

vars == <<items, found>>

Outcomes == {"none", "yes", "no"}

Init == /\ items = <<>>
        /\ found = [t \in Threads |-> "none"]

PushFront(v) == /\ items' = <<v>> \o items
                /\ UNCHANGED found

ForEach == /\ items' = [i \in DOMAIN items |-> Image[items[i]]]
           /\ UNCHANGED found

RemoveIf(v) == /\ items' = Without(items, v)
               /\ UNCHANGED found

FindFirstIf(t, v) ==
    /\ found' = [found EXCEPT ![t] = IF \E i \in DOMAIN items : items[i] = v THEN "yes" ELSE "no"]
    /\ UNCHANGED items

Return(t) == /\ found' = [found EXCEPT ![t] = "none"]
             /\ UNCHANGED items

Next == \/ ForEach
        \/ \E v \in Values : PushFront(v) \/ RemoveIf(v)
        \/ \E t \in Threads : Return(t) \/ \E v \in Values : FindFirstIf(t, v)

Spec == Init /\ [][Next]_vars
===============================================================================
