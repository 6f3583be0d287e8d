----------------------------- MODULE TwoLockQueue -----------------------------
(***************************************************************************)
(* The queue with a lock for each end (p236): a singly linked list with a  *)
(* dummy node at its tail, _head guarded by _head_mutex, _tail by          *)
(* _tail_mutex.  A push fills the dummy node and links a new one behind    *)
(* it; a pop holds the head lock, compares _head with the tail it reads    *)
(* under the tail lock, and detaches the first node.                       *)
(*                                                                         *)
(* The fields of a node carry no lock of their own.  The two ends are safe *)
(* together only because a thread that pops never stands on the node a     *)
(* thread that pushes is filling; nodes are freed and their addresses used *)
(* again.                                                                  *)
(*                                                                         *)
(* p241 keeps this list and adds blocking pops (TwoLockWaitQueue); CondVar *)
(* says which of the two programs the list belongs to.                     *)
(***************************************************************************)
EXTENDS LinkedLists

CONSTANTS Threads,       \* the threads that share the queue
          Values,        \* the values they push
          Nodes,         \* bound: the addresses the allocator may hand out
          Null,          \* the null pointer
          NoThread,      \* the owner of a free mutex
          NoValue,       \* an empty shared_ptr
          DefaultValue,  \* T(), which nobody pushes
          CondVar,       \* FALSE for p236, TRUE for p241
          MaxCalls       \* bound: pushes, polls and spurious wakeups

ASSUME TwoLockAssumption ==
    /\ NoThread \notin Threads
    /\ Null \notin Nodes
    /\ {NoValue, DefaultValue} \cap Values = {}
    /\ NoValue # DefaultValue
    /\ CondVar \in BOOLEAN
    /\ MaxCalls \in Nat
    /\ Nodes # {}
    /\ IsFiniteSet(Nodes)

VARIABLES allocated,   \* the addresses of live nodes
          data,        \* Node::_data
          next,        \* Node::_next
          head, tail,  \* _head and _tail
          headOwner,   \* the holder of _head_mutex
          tailOwner,   \* the holder of _tail_mutex
          pc,          \* what each thread does next
          call,        \* the operation a thread is in
          val,         \* the value it pushes or returns
          node,        \* the node it is about to link or has detached
          tailSeen,    \* what its get_tail() returned
          budget       \* calls left

heap == <<allocated, data, next>>
ends == <<head, tail>>
locals == <<call, val, node, tailSeen>>
queueVars == <<heap, ends, headOwner, tailOwner, pc, locals, budget>>

Goto(t, l) == pc' = [pc EXCEPT ![t] = l]

Init == \E dummy \in Nodes :
          /\ allocated = {dummy}
          /\ data = [n \in Nodes |-> NoValue]
          /\ next = [n \in Nodes |-> Null]
          /\ head = dummy
          /\ tail = dummy
          /\ headOwner = NoThread
          /\ tailOwner = NoThread
          /\ pc = [t \in Threads |-> "idle"]
          /\ call = [t \in Threads |-> "none"]
          /\ val = [t \in Threads |-> NoValue]
          /\ node = [t \in Threads |-> Null]
          /\ tailSeen = [t \in Threads |-> Null]
          /\ budget = MaxCalls
-------------------------------------------------------------------------------
(* push. *)

CallPush(t, v) == /\ pc[t] = "idle"
                  /\ budget > 0
                  /\ budget' = budget - 1
                  /\ call' = [call EXCEPT ![t] = "push"]
                  /\ val' = [val EXCEPT ![t] = v]
                  /\ Goto(t, "push_alloc")
                  /\ UNCHANGED <<heap, ends, headOwner, tailOwner, node, tailSeen>>

\* new Node, before any lock is taken.
PushAlloc(t) == /\ pc[t] = "push_alloc"
                /\ \E n \in Nodes \ allocated :
                     /\ allocated' = allocated \cup {n}
                     /\ data' = [data EXCEPT ![n] = NoValue]
                     /\ next' = [next EXCEPT ![n] = Null]
                     /\ node' = [node EXCEPT ![t] = n]
                /\ Goto(t, "push_lock")
                /\ UNCHANGED <<ends, headOwner, tailOwner, call, val, tailSeen, budget>>

PushLock(t) == /\ pc[t] = "push_lock"
               /\ tailOwner = NoThread
               /\ tailOwner' = t
               /\ Goto(t, "push_data")
               /\ UNCHANGED <<heap, ends, headOwner, locals, budget>>

\* Seeded fault: the value goes into the new node instead of the dummy node.
PushData_InNewNode(t) ==
    /\ pc[t] = "push_data"
    /\ data' = [data EXCEPT ![node[t]] = val[t]]
    /\ Goto(t, "push_link")
    /\ UNCHANGED <<allocated, next, ends, headOwner, tailOwner, locals, budget>>

PushData(t) == /\ pc[t] = "push_data"
               /\ data' = [data EXCEPT ![tail] = val[t]]
               /\ Goto(t, "push_link")
               /\ UNCHANGED <<allocated, next, ends, headOwner, tailOwner, locals, budget>>

PushLink(t) == /\ pc[t] = "push_link"
               /\ next' = [next EXCEPT ![tail] = node[t]]
               /\ Goto(t, "push_tail")
               /\ UNCHANGED <<allocated, data, ends, headOwner, tailOwner, locals, budget>>

PushTail(t) == /\ pc[t] = "push_tail"
               /\ tail' = node[t]
               /\ Goto(t, "push_unlock")
               /\ UNCHANGED <<heap, head, headOwner, tailOwner, locals, budget>>

\* The end of the scope of tail_lock; p241 has the notification still to do.
PushUnlock(t) == /\ pc[t] = "push_unlock"
                 /\ tailOwner' = NoThread
                 /\ call' = [call EXCEPT ![t] = IF CondVar THEN @ ELSE "none"]
                 /\ val' = [val EXCEPT ![t] = NoValue]
                 /\ node' = [node EXCEPT ![t] = Null]
                 /\ Goto(t, IF CondVar THEN "push_notify" ELSE "idle")
                 /\ UNCHANGED <<heap, ends, headOwner, tailSeen, budget>>
-------------------------------------------------------------------------------
(* try_pop. *)

CallTryPop(t) == /\ pc[t] = "idle"
                 /\ budget > 0
                 /\ budget' = budget - 1
                 /\ call' = [call EXCEPT ![t] = "try"]
                 /\ Goto(t, "lock_head")
                 /\ UNCHANGED <<heap, ends, headOwner, tailOwner, val, node, tailSeen>>

\* Seeded fault: the head lock is not waited for.
LockHead_NoWait(t) == /\ pc[t] = "lock_head"
                      /\ headOwner' = t
                      /\ Goto(t, "lock_tail")
                      /\ UNCHANGED <<heap, ends, tailOwner, locals, budget>>

LockHead(t) == /\ pc[t] = "lock_head"
               /\ headOwner = NoThread
               /\ headOwner' = t
               /\ Goto(t, "lock_tail")
               /\ UNCHANGED <<heap, ends, tailOwner, locals, budget>>

\* get_tail(): acquire the tail lock with the head lock held ...
GetTailLock(t) == /\ pc[t] = "lock_tail"
                  /\ tailOwner = NoThread
                  /\ tailOwner' = t
                  /\ Goto(t, "read_tail")
                  /\ UNCHANGED <<heap, ends, headOwner, locals, budget>>

\* ... and release it with the tail read.
GetTailRead(t) == /\ pc[t] = "read_tail"
                  /\ tailSeen' = [tailSeen EXCEPT ![t] = tail]
                  /\ tailOwner' = NoThread
                  /\ Goto(t, "test")
                  /\ UNCHANGED <<heap, ends, headOwner, call, val, node, budget>>

\* Seeded fault: the early return keeps the head lock.
TryEmpty_KeepsLock(t) ==
    /\ pc[t] = "test"
    /\ call[t] \in {"try", "try_ref"}
    /\ head = tailSeen[t]
    /\ val' = [val EXCEPT ![t] = IF CondVar THEN NoValue ELSE DefaultValue]
    /\ Goto(t, "return")
    /\ UNCHANGED <<heap, ends, headOwner, tailOwner, call, node, tailSeen, budget>>

\* An empty queue makes try_pop return: nothing in p241, T() in p236.
TryEmpty(t) == /\ pc[t] = "test"
               /\ call[t] \in {"try", "try_ref"}
               /\ head = tailSeen[t]
               /\ headOwner' = NoThread
               /\ val' = [val EXCEPT ![t] = IF CondVar THEN NoValue ELSE DefaultValue]
               /\ Goto(t, "return")
               /\ UNCHANGED <<heap, ends, tailOwner, call, node, tailSeen, budget>>

\* Seeded fault: emptiness is decided by the first node's successor, which the
\* push at the other end writes before it has moved the tail.
NotEmpty_ByLink(t) ==
    /\ pc[t] = "test"
    /\ next[head] # Null
    /\ Goto(t, IF call[t] \in {"try", "wait"} THEN "detach" ELSE "move_value")
    /\ UNCHANGED <<heap, ends, headOwner, tailOwner, locals, budget>>

\* Seeded fault: wait_for_data keeps its lock object to itself, and the node is
\* popped without the head lock.
NotEmpty_LockNotReturned(t) ==
    /\ pc[t] = "test"
    /\ head # tailSeen[t]
    /\ headOwner' = IF call[t] \in {"wait", "wait_ref"} THEN NoThread ELSE headOwner
    /\ Goto(t, IF call[t] \in {"try", "wait"} THEN "detach" ELSE "move_value")
    /\ UNCHANGED <<heap, ends, tailOwner, locals, budget>>

\* The overloads with a reference parameter move the value out under the lock.
NotEmpty(t) == /\ pc[t] = "test"
               /\ head # tailSeen[t]
               /\ Goto(t, IF call[t] \in {"try", "wait"} THEN "detach" ELSE "move_value")
               /\ UNCHANGED <<heap, ends, headOwner, tailOwner, locals, budget>>

\* Seeded fault: pop_head destroys the node and returns its address.
Detach_Frees(t) ==
    /\ pc[t] = "detach"
    /\ node' = [node EXCEPT ![t] = head]
    /\ head' = next[head]
    /\ next' = [next EXCEPT ![head] = Null]
    /\ allocated' = allocated \ {head}
    /\ headOwner' = NoThread
    /\ Goto(t, IF call[t] \in {"try", "wait"} THEN "read_data" ELSE "free")
    /\ UNCHANGED <<data, tail, tailOwner, call, val, tailSeen, budget>>

Detach(t) == /\ pc[t] = "detach"
             /\ node' = [node EXCEPT ![t] = head]
             /\ head' = next[head]
             /\ next' = [next EXCEPT ![head] = Null]
             /\ headOwner' = NoThread
             /\ Goto(t, IF call[t] \in {"try", "wait"} THEN "read_data" ELSE "free")
             /\ UNCHANGED <<allocated, data, tail, tailOwner, call, val, tailSeen, budget>>

\* The overloads that return a shared_ptr copy it with no lock held.
ReadData(t) == /\ pc[t] = "read_data"
               /\ val' = [val EXCEPT ![t] = data[node[t]]]
               /\ Goto(t, "free")
               /\ UNCHANGED <<heap, ends, headOwner, tailOwner, call, node, tailSeen, budget>>

\* old_head goes out of scope.
Free(t) == /\ pc[t] = "free"
           /\ allocated' = allocated \ {node[t]}
           /\ node' = [node EXCEPT ![t] = Null]
           /\ Goto(t, "return")
           /\ UNCHANGED <<data, next, ends, headOwner, tailOwner, call, val, tailSeen, budget>>

Return(t) == /\ pc[t] = "return"
             /\ call' = [call EXCEPT ![t] = "none"]
             /\ val' = [val EXCEPT ![t] = NoValue]
             /\ tailSeen' = [tailSeen EXCEPT ![t] = Null]
             /\ Goto(t, "idle")
             /\ UNCHANGED <<heap, ends, headOwner, tailOwner, node, budget>>
-------------------------------------------------------------------------------
PushStep(t) == \/ PushAlloc(t)
               \/ PushLock(t)
               \/ PushData(t)
               \/ PushLink(t)
               \/ PushTail(t)
               \/ PushUnlock(t)

PopStep(t) == \/ LockHead(t)
              \/ GetTailLock(t)
              \/ GetTailRead(t)
              \/ TryEmpty(t)
              \/ NotEmpty(t)
              \/ Detach(t)
              \/ ReadData(t)
              \/ Free(t)
              \/ Return(t)

Next == \E t \in Threads : \/ \E v \in Values : CallPush(t, v)
                           \/ CallTryPop(t)
                           \/ PushStep(t)
                           \/ PopStep(t)

Spec == Init /\ [][Next]_queueVars
-------------------------------------------------------------------------------
(* Properties. *)

PushLabels == {"push_alloc", "push_lock", "push_data", "push_link", "push_tail",
               "push_unlock", "push_notify"}
PopLabels  == {"lock_head", "lock_tail", "read_tail", "test", "move_value", "detach",
               "read_data", "free", "return"}

HoldsTail == {"push_data", "push_link", "push_tail", "push_unlock", "read_tail"}
HoldsHead == {"lock_tail", "read_tail", "test", "move_value", "detach"}

\* Every variable has its type, and each lock is held by exactly the thread
\* that is inside its scope (p236:27, p236:32, p236:57).
TypeOK ==
    /\ allocated \in SUBSET Nodes
    /\ data \in [Nodes -> Values \cup {NoValue}]
    /\ next \in [Nodes -> Nodes \cup {Null}]
    /\ head \in Nodes /\ tail \in Nodes
    /\ pc \in [Threads -> PushLabels \cup PopLabels \cup {"idle", "blocked"}]
    /\ call \in [Threads -> {"none", "push", "try", "try_ref", "wait", "wait_ref"}]
    /\ val \in [Threads -> Values \cup {NoValue, DefaultValue}]
    /\ node \in [Threads -> Nodes \cup {Null}]
    /\ tailSeen \in [Threads -> Nodes \cup {Null}]
    /\ budget \in 0 .. MaxCalls
    /\ headOwner \in Threads \cup {NoThread}
    /\ tailOwner \in Threads \cup {NoThread}
    /\ \A t \in Threads : pc[t] \in HoldsHead <=> headOwner = t
    /\ \A t \in Threads : pc[t] \in HoldsTail <=> tailOwner = t

\* The ordinary memory the next step of t reads and writes: node fields and
\* the two ends.
Reads(t) ==
    CASE pc[t] \in {"push_data", "push_link"} -> {<<"tail">>}
      [] pc[t] = "read_tail" -> {<<"tail">>}
      [] pc[t] = "test" -> {<<"head">>}
      [] pc[t] = "move_value" -> {<<"head">>, <<head, "data">>}
      [] pc[t] = "detach" -> {<<"head">>, <<head, "next">>}
      [] pc[t] = "read_data" -> {<<node[t], "data">>}
      [] OTHER -> {}

Writes(t) ==
    CASE pc[t] = "push_data" -> {<<tail, "data">>}
      [] pc[t] = "push_link" -> {<<tail, "next">>}
      [] pc[t] = "push_tail" -> {<<"tail">>}
      [] pc[t] = "move_value" -> {<<head, "data">>}
      [] pc[t] = "detach" -> {<<"head">>, <<head, "next">>}
      [] pc[t] = "free" -> {<<node[t], "data">>, <<node[t], "next">>}
      [] OTHER -> {}

\* No data race: two threads are never about to touch the same memory with one
\* of them writing, although one holds only the head lock and the other only
\* the tail lock.
NoDataRace == \A t, u \in Threads :
                 t # u => Writes(t) \cap (Reads(u) \cup Writes(u)) = {}

\* No thread is about to touch a node that has been freed.
NoUseAfterFree ==
    \A t \in Threads : \A n \in Nodes, f \in {"data", "next"} :
        <<n, f>> \in Reads(t) \cup Writes(t) => n \in allocated

\* The links as far as the dummy node at the tail: a push sets that node's link
\* before it moves the tail.
Links == [next EXCEPT ![tail] = Null]

\* The k-th node from the head, the nodes from there to the tail, and the values in
\* them; the dummy node has none.
Walk == Path(Links, Null, head)
Chain == NodesFrom(Links, Null, head)
Contents == [k \in 1 .. Cardinality(Chain) - 1 |-> data[Walk[k - 1]]]

\* The nodes that one thread alone can reach: not linked yet, or detached.
Private(t) == IF pc[t] \in {"push_lock", "push_data", "push_link", "push_tail", "read_data", "free"}
              THEN {node[t]} ELSE {}

\* The tail is always reachable from the head, every live node is in the list
\* or in the hands of one thread, and of one only: nothing leaks and nothing is
\* freed twice (the unique_ptr links of p236:15).
ListIsWhole ==
    /\ tail \in Chain
    /\ allocated = Chain \cup UNION {Private(t) : t \in Threads}
    /\ \A t \in Threads : Private(t) \cap Chain = {}
    /\ \A t, u \in Threads : t # u => Private(t) \cap Private(u) = {}
===============================================================================
