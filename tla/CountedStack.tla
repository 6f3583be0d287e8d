------------------------------ MODULE CountedStack ------------------------------
(***************************************************************************)
(* The lock-free stack of p272: the Treiber stack with a count of the      *)
(* threads inside pop.  A thread that finds itself alone frees the node it *)
(* took and, if nobody came since, the nodes others left behind; a thread  *)
(* that is not alone adds its node to the list _to_be_deleted, which reuses*)
(* the nodes' own _next fields.                                            *)
(***************************************************************************)
EXTENDS TreiberStack

VARIABLES inPop,     \* _threads_in_pop
          pending,   \* _to_be_deleted
          batch,     \* nodes_to_delete of each thread
          last       \* the last node of the list a thread is putting back

reclaimVars == <<inPop, pending, batch, last>>
stackVars   == <<vars, reclaimVars>>

CountedInit == /\ Init
               /\ inPop = 0
               /\ pending = Null
               /\ batch = [t \in Threads |-> Null]
               /\ last = [t \in Threads |-> Null]

\* The nodes of the list that starts at n.
ListFrom(n) == NodesFrom(next, Null, n)
-------------------------------------------------------------------------------
(* pop. *)

EnterPop(t) == /\ CallPop(t, "pop_load")
               /\ inPop' = inPop + 1
               /\ UNCHANGED <<pending, batch, last>>

\* result.swap(old_head->_data)
TakeData(t) == /\ pc[t] = "pop_data"
               /\ val' = [val EXCEPT ![t] = data[node[t]]]
               /\ data' = [data EXCEPT ![node[t]] = NoValue]
               /\ Goto(t, "test")
               /\ UNCHANGED <<allocated, next, head, node, seen, calls, reclaimVars>>
-------------------------------------------------------------------------------
(* try_reclaim. *)

TestAlone(t) == /\ pc[t] = "test"
                /\ Goto(t, IF inPop = 1 THEN "exchange" ELSE "chain_node")
                /\ UNCHANGED <<heap, head, node, seen, val, calls, reclaimVars>>

\* Seeded fault: the list is read and not taken.
TakePending_Copy(t) == /\ pc[t] = "exchange"
                       /\ batch' = [batch EXCEPT ![t] = pending]
                       /\ Goto(t, "leave_alone")
                       /\ UNCHANGED <<heap, head, node, seen, val, calls, inPop, pending, last>>

TakePending(t) == /\ pc[t] = "exchange"
                  /\ batch' = [batch EXCEPT ![t] = pending]
                  /\ pending' = Null
                  /\ Goto(t, "leave_alone")
                  /\ UNCHANGED <<heap, head, node, seen, val, calls, inPop, last>>

\* Seeded fault: a thread that was alone when it looked need not look again.
LeaveAlone_Unchecked(t) ==
    /\ pc[t] = "leave_alone"
    /\ inPop' = inPop - 1
    /\ Goto(t, "delete_nodes")
    /\ UNCHANGED <<heap, head, node, seen, val, calls, pending, batch, last>>

\* --_threads_in_pop: the nodes taken are freed if nobody entered meanwhile,
\* and otherwise put back.
LeaveAlone(t) == /\ pc[t] = "leave_alone"
                 /\ inPop' = inPop - 1
                 /\ Goto(t, IF inPop' = 0 THEN "delete_nodes"
                            ELSE IF batch[t] # Null THEN "chain_batch" ELSE "delete_head")
                 /\ UNCHANGED <<heap, head, node, seen, val, calls, pending, batch, last>>

\* delete_nodes: the list is this thread's alone, so one step frees it.
DeleteNodes(t) == /\ pc[t] = "delete_nodes"
                  /\ allocated' = allocated \ ListFrom(batch[t])
                  /\ batch' = [batch EXCEPT ![t] = Null]
                  /\ Goto(t, "delete_head")
                  /\ UNCHANGED <<data, next, head, node, seen, val, calls, inPop, pending, last>>

\* delete old_head, which may be null.
DeleteHead(t) == /\ pc[t] = "delete_head"
                 /\ allocated' = allocated \ {node[t]}
                 /\ Goto(t, "return")
                 /\ UNCHANGED <<data, next, head, node, seen, val, calls, reclaimVars>>

\* The list that chain_pending_nodes puts before _to_be_deleted: the batch that
\* could not be freed, or the one node that was popped.
First(t) == IF pc[t] \in {"chain_batch", "chain_batch_cas"} THEN batch[t] ELSE node[t]

\* The walk to the end of the list, and last->_next = _to_be_deleted.
ChainLoad(t) ==
    /\ pc[t] \in {"chain_batch", "chain_node"}
    /\ First(t) # Null
    /\ \E n \in ListFrom(First(t)) :
          /\ IF pc[t] = "chain_batch" THEN next[n] = Null ELSE n = node[t]
          /\ last' = [last EXCEPT ![t] = n]
          /\ next' = [next EXCEPT ![n] = pending]
    /\ Goto(t, IF pc[t] = "chain_batch" THEN "chain_batch_cas" ELSE "chain_node_cas")
    /\ UNCHANGED <<allocated, data, head, node, seen, val, calls, inPop, pending, batch>>

\* chain_pending_node(nullptr) has no last node to write to: the program ends.
Crash(t) == /\ pc[t] = "chain_node"
            /\ node[t] = Null
            /\ Goto(t, "crashed")
            /\ UNCHANGED <<heap, head, node, seen, val, calls, reclaimVars>>

\* The compare_exchange on _to_be_deleted; a failed one loads it again.
ChainCas(t) ==
    /\ pc[t] \in {"chain_batch_cas", "chain_node_cas"}
    /\ \/ /\ pending = next[last[t]]
          /\ pending' = First(t)
          /\ batch' = [batch EXCEPT ![t] = Null]
          /\ last' = [last EXCEPT ![t] = Null]
          /\ Goto(t, IF pc[t] = "chain_batch_cas" THEN "delete_head" ELSE "leave")
          /\ UNCHANGED next
       \/ /\ pending # next[last[t]]
          /\ next' = [next EXCEPT ![last[t]] = pending]
          /\ UNCHANGED <<pending, batch, last, pc>>
    /\ UNCHANGED <<allocated, data, head, node, seen, val, calls, inPop>>

\* Seeded fault: a thread that was not alone stays counted.
Leave_Uncounted(t) == /\ pc[t] = "leave"
                      /\ Goto(t, "return")
                      /\ UNCHANGED <<heap, head, node, seen, val, calls, reclaimVars>>

\* --_threads_in_pop of a thread that was not alone.
Leave(t) == /\ pc[t] = "leave"
            /\ inPop' = inPop - 1
            /\ Goto(t, "return")
            /\ UNCHANGED <<heap, head, node, seen, val, calls, pending, batch, last>>
-------------------------------------------------------------------------------
Reclaim(t) == \/ TestAlone(t)
              \/ TakePending(t)
              \/ LeaveAlone(t)
              \/ DeleteNodes(t)
              \/ DeleteHead(t)
              \/ ChainLoad(t)
              \/ Crash(t)
              \/ ChainCas(t)
              \/ Leave(t)

\* The part of a step that p272 has in common with p270.
Common(t) == \/ PushStep(t)
             \/ PopLoad(t)
             \/ PopNext(t, "test")
             \/ PopCas(t, "pop_data", "pop_next")
             \/ PopCasSpurious(t)
             \/ Return(t)

Running == \A t \in Threads : pc[t] # "crashed"

CountedNext == /\ Running
               /\ \E t \in Threads : \/ Common(t) /\ UNCHANGED reclaimVars
                                     \/ EnterPop(t)
                                     \/ TakeData(t)
                                     \/ Reclaim(t)

CountedSpec == CountedInit /\ [][CountedNext]_stackVars
-------------------------------------------------------------------------------
(* Properties. *)

InPop(t) == pc[t] \in {"pop_load", "pop_next", "pop_cas", "pop_data", "test", "exchange",
                       "leave_alone", "chain_node", "chain_node_cas", "leave", "crashed"}

\* Every variable has its type and the counter counts the threads inside pop,
\* so that it never wraps below zero (p272:41, p272:50, p272:91).
CountedTypeOK ==
    /\ allocated \in SUBSET Nodes
    /\ data \in [Nodes -> Values \cup {NoValue}]
    /\ next \in [Nodes -> Nodes \cup {Null}]
    /\ {head, pending} \subseteq Nodes \cup {Null}
    /\ {node, seen, batch, last} \subseteq [Threads -> Nodes \cup {Null}]
    /\ val \in [Threads -> Values \cup {NoValue}]
    /\ calls \in 0 .. MaxCalls
    /\ inPop = Cardinality({t \in Threads : InPop(t)})

\* The fields of nodes the next step of t reads and writes.
Reads(t) ==
    CASE pc[t] = "pop_next" /\ node[t] # Null -> {<<node[t], "next">>}
      [] pc[t] = "pop_data" -> {<<node[t], "data">>}
      [] pc[t] = "chain_batch" -> {<<n, "next">> : n \in ListFrom(batch[t])}
      [] pc[t] = "delete_nodes" -> {<<n, "next">> : n \in ListFrom(batch[t])}
      [] OTHER -> {}
Writes(t) ==
    CASE pc[t] \in {"push_load", "push_cas"} -> {<<node[t], "next">>}
      [] pc[t] = "pop_data" -> {<<node[t], "data">>}
      [] pc[t] = "chain_node" /\ node[t] # Null -> {<<node[t], "next">>}
      [] pc[t] = "chain_batch" -> {<<n, "next">> : n \in {m \in ListFrom(batch[t]) : next[m] = Null}}
      [] pc[t] \in {"chain_batch_cas", "chain_node_cas"} -> {<<last[t], "next">>}
      [] pc[t] = "delete_nodes" -> ListFrom(batch[t]) \X {"next", "data"}
      [] pc[t] = "delete_head" /\ node[t] # Null -> {<<node[t], "next">>, <<node[t], "data">>}
      [] OTHER -> {}

\* A node is never freed while a thread that read the head before may still
\* look into it: that is what the count is for.
NoUseAfterFree == \A t \in Threads : \A n \in Nodes, f \in {"next", "data"} :
                     <<n, f>> \in Reads(t) \cup Writes(t) => n \in allocated

\* The nodes that only thread t can free: new, popped and not yet given to
\* _to_be_deleted, or in the batch it took.
Private(t) == (IF pc[t] \in {"push_load", "push_cas", "pop_data", "exchange", "leave_alone",
                             "delete_nodes", "delete_head", "test", "chain_node",
                             "chain_batch", "chain_batch_cas", "chain_node_cas"}
               THEN {node[t]} \ {Null} ELSE {})

\* A batch ends where it is being put back, although its last link leads on.
Batch(t) == IF pc[t] = "chain_batch_cas"
            THEN NodesFrom([next EXCEPT ![last[t]] = Null], Null, batch[t]) ELSE ListFrom(batch[t])

\* Nothing leaks and nothing is freed twice: every live node is on the stack, on
\* _to_be_deleted, in one thread's batch or in one thread's hands, and in one
\* of them only.
NodesHaveOneOwner ==
    LET places == <<Chain, ListFrom(pending)>>
        owners == [t \in Threads |-> Private(t) \cup Batch(t)]
    IN  /\ allocated = places[1] \cup places[2] \cup UNION {owners[t] : t \in Threads}
        /\ places[1] \cap places[2] = {}
        /\ \A t \in Threads : /\ owners[t] \cap (places[1] \cup places[2]) = {}
                              /\ Private(t) \cap Batch(t) = {}
        /\ \A t, u \in Threads : t # u => owners[t] \cap owners[u] = {}

\* pop copes with an empty stack: "old_head may turn out to be null at once or
\* after an update, this has to be checked" (p272:98-99).
NullIsChecked == Running

\* The threads that link a node into the pending list.
Chaining == {"chain_node", "chain_batch", "chain_node_cas", "chain_batch_cas"}

\* Two threads touch one field at the same time only when one of them chains a
\* node that has left the stack and the other, which loaded the head before,
\* is still reading that node's link (p272:67 against p272:100).  The node is
\* not the head any more, so the exchange that would use the link fails.
LinkRacesOnly ==
    \A t, u \in Threads : t # u =>
        \A x \in Writes(t) \cap (Reads(u) \cup Writes(u)) :
            /\ x[2] = "next" /\ x[1] \notin Chain
            /\ pc[t] \in Chaining /\ pc[u] = "pop_next"
===============================================================================
