------------------------------ MODULE TreiberStack ------------------------------
(***************************************************************************)
(* The lock-free stack of p267 and p270: a list of nodes whose head is     *)
(* replaced with compare_exchange.  p270 never frees a node; p272 and p281 *)
(* keep push as it is and each put a way of reclaiming nodes under pop     *)
(* (CountedStack and HazardStack, which extend this module).               *)
(*                                                                         *)
(* The atomics are sequentially consistent, one access a step; a node's    *)
(* own fields are ordinary memory.  The expression of the compare_exchange *)
(* in pop reads old_head->_next first and compares later: two steps.       *)
(***************************************************************************)
EXTENDS LinkedLists

CONSTANTS Threads,   \* the threads that share the stack
          Values,    \* the values they push
          Nodes,     \* bound: the addresses the allocator may hand out
          Null,      \* the null pointer
          NoValue,   \* an empty shared_ptr
          MaxCalls   \* bound: how many calls are made

ASSUME TreiberStackAssumption ==
    /\ IsFiniteSet(Threads)
    /\ IsFiniteSet(Nodes)
    /\ Null \notin Nodes
    /\ NoValue \notin Values
    /\ MaxCalls \in Nat

VARIABLES allocated,   \* the addresses of live nodes
          data,        \* Node::_data
          next,        \* Node::_next
          head,        \* _head
          pc,          \* what each thread does next
          node,        \* new_node in push, old_head in pop
          seen,        \* the old_head->_next that pop is about to install
          val,         \* the result of pop
          calls        \* calls made so far, at most MaxCalls

heap   == <<allocated, data, next>>
locals == <<pc, node, seen, val>>
vars   == <<heap, head, locals, calls>>

Goto(t, l) == pc' = [pc EXCEPT ![t] = l]

Init == /\ allocated = {}
        /\ data = [n \in Nodes |-> NoValue]
        /\ next = [n \in Nodes |-> Null]
        /\ head = Null
        /\ pc = [t \in Threads |-> "idle"]
        /\ node = [t \in Threads |-> Null]
        /\ seen = [t \in Threads |-> Null]
        /\ val = [t \in Threads |-> NoValue]
        /\ calls = 0
-------------------------------------------------------------------------------
(* push. *)

\* new Node(data).
CallPush(t, v) == /\ pc[t] = "idle"
                  /\ calls < MaxCalls
                  /\ calls' = calls + 1
                  /\ \E n \in Nodes \ allocated :
                        /\ allocated' = allocated \cup {n}
                        /\ data' = [data EXCEPT ![n] = v]
                        /\ node' = [node EXCEPT ![t] = n]
                  /\ Goto(t, "push_load")
                  /\ UNCHANGED <<next, head, seen, val>>

PushLoad(t) == /\ pc[t] = "push_load"
               /\ next' = [next EXCEPT ![node[t]] = head]
               /\ Goto(t, "push_cas")
               /\ UNCHANGED <<allocated, data, head, node, seen, val, calls>>

\* A failed exchange loads the head into new_node->_next and tries again.
PushCas(t) == /\ pc[t] = "push_cas"
              /\ \/ /\ head = next[node[t]]
                    /\ head' = node[t]
                    /\ node' = [node EXCEPT ![t] = Null]
                    /\ Goto(t, "idle")
                    /\ UNCHANGED next
                 \/ /\ head # next[node[t]]
                    /\ next' = [next EXCEPT ![node[t]] = head]
                    /\ UNCHANGED <<head, pc, node>>
              /\ UNCHANGED <<allocated, data, seen, val, calls>>
-------------------------------------------------------------------------------
(* pop. *)

CallPop(t, first) == /\ pc[t] = "idle"
                     /\ calls < MaxCalls
                     /\ calls' = calls + 1
                     /\ Goto(t, first)
                     /\ UNCHANGED <<heap, head, node, seen, val>>

PopLoad(t) == /\ pc[t] = "pop_load"
              /\ node' = [node EXCEPT ![t] = head]
              /\ Goto(t, "pop_next")
              /\ UNCHANGED <<heap, head, seen, val, calls>>

\* The loop ends at an empty stack; otherwise old_head->_next is read.
PopNext(t, empty) == /\ pc[t] = "pop_next"
                     /\ \/ /\ node[t] = Null
                           /\ Goto(t, empty)
                           /\ UNCHANGED seen
                        \/ /\ node[t] # Null
                           /\ seen' = [seen EXCEPT ![t] = next[node[t]]]
                           /\ Goto(t, "pop_cas")
                     /\ UNCHANGED <<heap, head, node, val, calls>>

\* Seeded fault: the exchange compares nothing.
PopCas_Blind(t, popped, again) == /\ pc[t] = "pop_cas"
                                  /\ head' = seen[t]
                                  /\ Goto(t, popped)
                                  /\ UNCHANGED <<heap, node, seen, val, calls>>

\* A failed exchange loads the head into old_head.
PopCas(t, popped, again) == /\ pc[t] = "pop_cas"
                            /\ \/ /\ head = node[t]
                                  /\ head' = seen[t]
                                  /\ Goto(t, popped)
                                  /\ UNCHANGED node
                               \/ /\ head # node[t]
                                  /\ node' = [node EXCEPT ![t] = head]
                                  /\ Goto(t, again)
                                  /\ UNCHANGED head
                            /\ UNCHANGED <<heap, seen, val, calls>>

\* compare_exchange_weak may also fail with the head unchanged.
PopCasSpurious(t) == /\ pc[t] = "pop_cas"
                     /\ head = node[t]
                     /\ Goto(t, "pop_next")
                     /\ UNCHANGED <<heap, head, node, seen, val, calls>>

\* p270 copies the shared_ptr and leaves the node where it is.
PopData(t) == /\ pc[t] = "pop_data"
              /\ val' = [val EXCEPT ![t] = data[node[t]]]
              /\ Goto(t, "return")
              /\ UNCHANGED <<heap, head, node, seen, calls>>

Return(t) == /\ pc[t] = "return"
             /\ val' = [val EXCEPT ![t] = NoValue]
             /\ node' = [node EXCEPT ![t] = Null]
             /\ seen' = [seen EXCEPT ![t] = Null]
             /\ Goto(t, "idle")
             /\ UNCHANGED <<heap, head, calls>>
-------------------------------------------------------------------------------
PushStep(t) == \/ \E v \in Values : CallPush(t, v)
               \/ PushLoad(t)
               \/ PushCas(t)

Next == \E t \in Threads : \/ PushStep(t)
                           \/ CallPop(t, "pop_load")
                           \/ PopLoad(t)
                           \/ PopNext(t, "return")
                           \/ PopCas(t, "pop_data", "pop_next")
                           \/ PopCasSpurious(t)
                           \/ PopData(t)
                           \/ Return(t)

Spec == Init /\ [][Next]_vars
-------------------------------------------------------------------------------
(* Properties. *)

\* The k-th node of the stack from the head, and all of them.
Walk == Path(next, Null, head)
Chain == NodesFrom(next, Null, head)

Contents == ValuesFrom(next, Null, data, head)

\* The value a popping thread holds, from the exchange that took the node.
Result(t) == IF pc[t] = "pop_data" THEN data[node[t]] ELSE val[t]

\* Every variable has its type and the stack ends in a null pointer.
TypeOK == /\ allocated \in SUBSET Nodes
          /\ data \in [Nodes -> Values \cup {NoValue}]
          /\ next \in [Nodes -> Nodes \cup {Null}]
          /\ head \in Nodes \cup {Null}
          /\ pc \in [Threads -> {"idle", "push_load", "push_cas", "pop_load", "pop_next",
                                 "pop_cas", "pop_data", "return"}]
          /\ node \in [Threads -> Nodes \cup {Null}]
          /\ seen \in [Threads -> Nodes \cup {Null}]
          /\ val \in [Threads -> Values \cup {NoValue}]
          /\ calls \in 0 .. MaxCalls
          /\ Walk[Cardinality(Nodes)] = Null

\* push and pop take effect at one instant each and in LIFO order: no value is
\* lost, returned twice or invented, whatever exchanges fail and are tried again.
Stack == INSTANCE LifoStack WITH
             items <- Contents,
             got   <- [t \in Threads |-> Result(t)]
ImplementsStack == Stack!Spec
===============================================================================
