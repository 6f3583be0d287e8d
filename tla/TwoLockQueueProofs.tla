-------------------------- MODULE TwoLockQueueProofs --------------------------
(***************************************************************************)
(* Proofs about the queue with a lock for each end, for every set of       *)
(* threads and values and every finite set of nodes: its types and lock    *)
(* scopes, that no thread touches a freed node, that the two ends never    *)
(* touch the same memory, that the list stays whole, and that the queue    *)
(* is a FIFO channel.                                                      *)
(*                                                                         *)
(* The lists of both programs are numbered: Between says that the nodes    *)
(* from the head to the tail are the nodes in nobody's hands, each once.   *)
(*                                                                         *)
(* The lemmas are about single actions, so that they serve the next-state  *)
(* relations of both programs: the theorems about p236 come first, and     *)
(* then those about p241, whose waiting pops leave the list as it is.      *)
(***************************************************************************)
EXTENDS TwoLockWaitQueue, LinkedListProofs

\* A node that is not in one thread's hands.
Public(n) == n \in allocated /\ \A t \in Threads : n \notin Private(t)

\* From new Node to the moment the tail moves on to it.
NewLabels == {"push_lock", "push_data", "push_link", "push_tail"}

\* A thread that pushes has a value.
ArgsOK == \A t \in Threads : pc[t] \in {"push_alloc", "push_lock", "push_data"} => val[t] \in Values

\* Between the two ends every node has a successor and no two have the same one;
\* none leads back to the head, and the tail has a successor only while a push is
\* about to make that the tail.
LinksOK == /\ Public(head) /\ Public(tail)
           /\ \A n \in Nodes : Public(n) /\ n # tail => Public(next[n])
           /\ \A m, n \in Nodes : Public(m) /\ Public(n) /\ next[m] = next[n] /\ next[m] # Null
                                  => m = n
           /\ \A n \in Nodes : Public(n) => next[n] # head
           /\ (\A t \in Threads : pc[t] # "push_tail") => next[tail] = Null

\* A node in one thread's hands is alive and in nobody else's; a new one is the
\* end of the list it is going to be.
PrivateOK == \A t \in Threads :
    /\ \A n \in Private(t) : n \in allocated /\ \A u \in Threads \ {t} : n \notin Private(u)
    /\ pc[t] \in NewLabels => next[node[t]] = Null
    /\ pc[t] = "push_tail" => next[tail] = node[t]

\* A pop that goes on to the first node is not on the one a push is filling: it
\* has seen a tail that was not the head, and the tail only moves away.
PopOK == \A t \in Threads :
    /\ pc[t] = "test" /\ head = tail => tailSeen[t] = head
    /\ pc[t] \in {"move_value", "detach"} => head # tail

\* The inductive invariant.
IInv == TypeOK /\ ArgsOK /\ LinksOK /\ PrivateOK /\ PopOK
-------------------------------------------------------------------------------
\* An empty queue satisfies the invariant.
LEMMA InitIInv == Init => IInv
<1> SUFFICES ASSUME Init PROVE IInv
  OBVIOUS
<1> USE TwoLockAssumption
<1>1. PICK dummy \in Nodes : /\ allocated = {dummy} /\ head = dummy /\ tail = dummy
                             /\ data = [n \in Nodes |-> NoValue]
                             /\ next = [n \in Nodes |-> Null]
  BY DEF Init
<1>2. TypeOK
  BY <1>1 DEF Init, TypeOK, HoldsHead, HoldsTail
<1>3. ArgsOK /\ PrivateOK /\ PopOK
  BY DEF Init, ArgsOK, PrivateOK, PopOK, Private, NewLabels
<1>4. LinksOK
  BY <1>1 DEF Init, LinksOK, Public, Private
<1> QED
  BY <1>2, <1>3, <1>4 DEF IInv
-------------------------------------------------------------------------------
(* Types and locks. *)

\* The types that one step of a push or of try_pop has to keep.
LEMMA PushTypes ==
  ASSUME TypeOK, ArgsOK, PrivateOK, NEW t \in Threads,
         PushStep(t) \/ (\E v \in Values : CallPush(t, v))
  PROVE  TypeOK' /\ ArgsOK'
<1> USE TwoLockAssumption DEF TypeOK, ArgsOK, Goto, heap, ends, locals, PushLabels, PopLabels,
                              HoldsHead, HoldsTail
<1>1. CASE \E v \in Values : CallPush(t, v)
  BY <1>1 DEF CallPush
<1>2. CASE PushAlloc(t)
  BY <1>2 DEF PushAlloc
<1>3. CASE PushLock(t)
  BY <1>3 DEF PushLock
<1>4. CASE PushData(t)
  BY <1>4 DEF PushData
<1>5. CASE PushLink(t)
  BY <1>5 DEF PushLink
<1>6. CASE PushTail(t)
  BY <1>6 DEF PushTail, PrivateOK, Private
<1>7. CASE PushUnlock(t)
  BY <1>7 DEF PushUnlock
<1> QED
  BY <1>1, <1>2, <1>3, <1>4, <1>5, <1>6, <1>7 DEF PushStep

\* The steps of pop keep the types.
LEMMA PopTypes ==
  ASSUME TypeOK, ArgsOK, LinksOK, PrivateOK, PopOK, NEW t \in Threads, PopStep(t) \/ CallTryPop(t)
  PROVE  TypeOK' /\ ArgsOK'
<1> USE TwoLockAssumption DEF TypeOK, ArgsOK, Goto, heap, ends, locals, PushLabels, PopLabels,
                              HoldsHead, HoldsTail
<1>1. CASE CallTryPop(t)
  BY <1>1 DEF CallTryPop
<1>2. CASE LockHead(t)
  BY <1>2 DEF LockHead
<1>3. CASE GetTailLock(t)
  BY <1>3 DEF GetTailLock
<1>4. CASE GetTailRead(t)
  BY <1>4 DEF GetTailRead
<1>5. CASE TryEmpty(t)
  BY <1>5 DEF TryEmpty
<1>6. CASE NotEmpty(t)
  BY <1>6 DEF NotEmpty
<1>7. CASE Detach(t)
  <2>1. next[head] \in Nodes
    BY <1>7 DEF Detach, LinksOK, PopOK, Public
  <2> QED
    BY <1>7, <2>1 DEF Detach
<1>8. CASE ReadData(t)
  BY <1>8 DEF ReadData, PrivateOK, Private
<1>9. CASE Free(t)
  BY <1>9 DEF Free
<1>10. CASE Return(t)
  BY <1>10 DEF Return
<1> QED
  BY <1>1, <1>2, <1>3, <1>4, <1>5, <1>6, <1>7, <1>8, <1>9, <1>10 DEF PopStep
-------------------------------------------------------------------------------
(* The shape of the list. *)

\* A step that leaves the links and the ends alone, and nodes where they are.
LEMMA SameShape ==
  ASSUME LinksOK, PrivateOK, allocated' = allocated, next' = next, head' = head, tail' = tail,
         \A u \in Threads : /\ Private(u)' = Private(u)
                            /\ pc'[u] \in NewLabels => pc[u] \in NewLabels /\ node'[u] = node[u]
                            /\ pc'[u] = "push_tail" <=> pc[u] = "push_tail"
  PROVE  LinksOK' /\ PrivateOK'
<1>1. \A n : Public(n)' <=> Public(n)
  BY DEF Public
<1>2. LinksOK'
  BY <1>1 DEF LinksOK
<1>3. PrivateOK'
  BY DEF PrivateOK, NewLabels
<1> QED
  BY <1>2, <1>3

\* A step that changes neither the ends nor what a pop has found out.
LEMMA SamePop ==
  ASSUME PopOK, head' = head, tail' = tail,
         \A u \in Threads : pc'[u] \in {"test", "move_value", "detach"} =>
                               pc'[u] = pc[u] /\ tailSeen'[u] = tailSeen[u]
  PROVE  PopOK'
  BY DEF PopOK

\* new Node: an address nobody has.
LEMMA AllocShape ==
  ASSUME IInv, NEW t \in Threads, PushAlloc(t) PROVE LinksOK' /\ PrivateOK' /\ PopOK'
<1> USE TwoLockAssumption DEF IInv
<1>1. PICK n \in Nodes \ allocated :
         /\ allocated' = allocated \cup {n} /\ next' = [next EXCEPT ![n] = Null]
         /\ node' = [node EXCEPT ![t] = n]
  BY DEF PushAlloc
<1>2. pc[t] = "push_alloc" /\ pc' = [pc EXCEPT ![t] = "push_lock"] /\ UNCHANGED <<ends, tailSeen>>
  BY DEF PushAlloc, Goto
<1>3. /\ Private(t)' = {n} /\ Private(t) = {}
      /\ \A u \in Threads \ {t} : Private(u)' = Private(u)
  BY <1>1, <1>2 DEF Private, TypeOK
<1>4. \A m \in Nodes : Public(m)' <=> Public(m)
  BY <1>1, <1>3 DEF Public
<1>5. \A m \in Nodes : Public(m) => m # n /\ next'[m] = next[m]
  BY <1>1 DEF Public, TypeOK
<1>6. LinksOK'
  <2>1. Public(head)' /\ Public(tail)'
    BY <1>1, <1>2, <1>3 DEF LinksOK, Public, TypeOK, ends
  <2>2. (\A m \in Nodes : Public(m) /\ m # tail => Public(next[m]))'
    BY <1>2, <1>4, <1>5 DEF LinksOK, TypeOK, ends, Public
  <2> QED
    BY <1>2, <1>4, <1>5, <2>1, <2>2 DEF LinksOK, TypeOK, ends, Public
<1>7. PrivateOK'
  BY <1>1, <1>2, <1>3, <1>5 DEF PrivateOK, Private, NewLabels, TypeOK, LinksOK, ends
<1>8. PopOK'
  BY <1>2, SamePop DEF ends, TypeOK
<1> QED
  BY <1>6, <1>7, <1>8

\* The tail gets its successor: the node of the thread that holds the tail lock.
LEMMA LinkShape ==
  ASSUME IInv, NEW t \in Threads, PushLink(t) PROVE LinksOK' /\ PrivateOK' /\ PopOK'
<1> USE TwoLockAssumption DEF IInv
<1>1. /\ pc[t] = "push_link" /\ pc' = [pc EXCEPT ![t] = "push_tail"]
      /\ next' = [next EXCEPT ![tail] = node[t]]
      /\ UNCHANGED <<allocated, head, tail, node, tailSeen>>
  BY DEF PushLink, Goto, ends, locals
<1>2. \A u \in Threads : Private(u)' = Private(u)
  BY <1>1 DEF Private, TypeOK
<1>3. \A n \in Nodes : Public(n)' <=> Public(n)
  BY <1>1, <1>2 DEF Public
<1>4. /\ node[t] \in Nodes /\ node[t] \in allocated /\ ~Public(node[t])
      /\ next'[tail] = node[t] /\ \A n \in Nodes \ {tail} : next'[n] = next[n]
  BY <1>1 DEF PrivateOK, Private, Public, TypeOK
<1>5. \A u \in Threads \ {t} : pc[u] # "push_tail"
  BY <1>1 DEF TypeOK, HoldsTail
<1>6. LinksOK'
  BY <1>1, <1>3, <1>4 DEF LinksOK, TypeOK, Public
<1>7. PrivateOK'
  <2>1. \A u \in Threads : pc[u] \in NewLabels => node[u] # tail
    BY DEF LinksOK, Public, Private, NewLabels
  <2> QED
    BY <1>1, <1>2, <1>4, <1>5, <2>1 DEF PrivateOK, NewLabels, TypeOK, Private
<1>8. PopOK'
  BY <1>1, SamePop DEF TypeOK
<1> QED
  BY <1>6, <1>7, <1>8

\* The tail moves to its successor, which is in the list from now on.
LEMMA TailShape ==
  ASSUME IInv, NEW t \in Threads, PushTail(t) PROVE LinksOK' /\ PrivateOK' /\ PopOK'
<1> USE TwoLockAssumption DEF IInv
<1>1. /\ pc[t] = "push_tail" /\ pc' = [pc EXCEPT ![t] = "push_unlock"] /\ tail' = node[t]
      /\ UNCHANGED <<allocated, next, head, node, tailSeen>>
  BY DEF PushTail, Goto, heap, locals
<1>2. /\ Private(t) = {node[t]} /\ Private(t)' = {}
      /\ \A u \in Threads \ {t} : Private(u)' = Private(u)
  BY <1>1 DEF Private, TypeOK
<1>3. \A n \in Nodes : Public(n)' <=> Public(n) \/ n = node[t]
  BY <1>1, <1>2 DEF Public, PrivateOK
<1>4. /\ node[t] \in Nodes /\ ~Public(node[t])
      /\ next[node[t]] = Null /\ next[tail] = node[t]
  BY <1>1, <1>2 DEF PrivateOK, Public, TypeOK, NewLabels
<1>5. \A u \in Threads \ {t} : pc[u] \notin {"push_data", "push_link", "push_tail"}
  BY <1>1 DEF TypeOK, HoldsTail
<1>6. LinksOK'
  <2>1. \A n \in Nodes : Public(n) => next[n] # node[t] \/ n = tail
    BY <1>4 DEF LinksOK
  <2>2. Public(head) /\ Public(tail) /\ Null \notin Nodes /\ head \in Nodes /\ tail \in Nodes
    BY DEF LinksOK, TypeOK
  <2> QED
    BY <1>1, <1>3, <1>4, <2>1, <2>2 DEF LinksOK, TypeOK, Public
<1>7. PrivateOK'
  BY <1>1, <1>2, <1>5 DEF PrivateOK, NewLabels, TypeOK
<1>8. PopOK'
  BY <1>1, <1>4 DEF PopOK, LinksOK, TypeOK
<1> QED
  BY <1>6, <1>7, <1>8

\* The first node leaves the list, and its successor is the head.
LEMMA DetachShape ==
  ASSUME IInv, NEW t \in Threads, Detach(t) PROVE LinksOK' /\ PrivateOK' /\ PopOK'
<1> USE TwoLockAssumption DEF IInv
<1>1. /\ pc[t] = "detach" /\ \E l \in {"read_data", "free"} : pc' = [pc EXCEPT ![t] = l]
      /\ node' = [node EXCEPT ![t] = head] /\ head' = next[head]
      /\ next' = [next EXCEPT ![head] = Null]
      /\ UNCHANGED <<allocated, tail, tailSeen>>
  BY DEF Detach, Goto
<1>2. /\ Private(t) = {} /\ Private(t)' = {head}
      /\ \A u \in Threads \ {t} : Private(u)' = Private(u)
  BY <1>1 DEF Private, TypeOK
<1>3. /\ head \in Nodes /\ Public(head) /\ head # tail
      /\ Public(next[head]) /\ next[head] \in Nodes /\ next[head] # head
  BY <1>1 DEF LinksOK, PopOK, TypeOK, Public
<1>4. \A n \in Nodes : Public(n)' <=> Public(n) /\ n # head
  BY <1>1, <1>2 DEF Public
<1>5. \A n \in Nodes \ {head} : next'[n] = next[n]
  BY <1>1 DEF TypeOK
<1>6. LinksOK'
  <2>1. \A n \in Nodes : Public(n) /\ n # head => next[n] # head /\ next[n] # next[head]
    BY <1>3 DEF LinksOK, TypeOK
  <2>2. (\A n \in Nodes : Public(n) /\ n # tail => Public(next[n]))'
    BY <1>1, <1>2, <1>3, <1>4, <1>5, <2>1 DEF LinksOK, Public, TypeOK
  <2>3. (\A u \in Threads : pc'[u] # "push_tail") => \A u \in Threads : pc[u] # "push_tail"
    BY <1>1 DEF TypeOK
  <2> QED
    BY <1>1, <1>3, <1>4, <1>5, <2>1, <2>2, <2>3 DEF LinksOK, TypeOK, Public
<1>7. PrivateOK'
  BY <1>1, <1>2, <1>3, <1>5 DEF PrivateOK, NewLabels, TypeOK, Public, Private
<1>8. PopOK'
  <2>1. \A u \in Threads \ {t} : pc[u] \notin {"test", "move_value", "detach"}
    BY <1>1 DEF TypeOK, HoldsHead
  <2> QED
    BY <1>1, <2>1 DEF PopOK, TypeOK
<1> QED
  BY <1>6, <1>7, <1>8

\* The detached node is destroyed.
LEMMA FreeShape ==
  ASSUME IInv, NEW t \in Threads, Free(t) PROVE LinksOK' /\ PrivateOK' /\ PopOK'
<1> USE TwoLockAssumption DEF IInv
<1>1. /\ pc[t] = "free" /\ pc' = [pc EXCEPT ![t] = "return"]
      /\ allocated' = allocated \ {node[t]} /\ node' = [node EXCEPT ![t] = Null]
      /\ UNCHANGED <<next, head, tail, tailSeen>>
  BY DEF Free, Goto, ends
<1>2. /\ Private(t) = {node[t]} /\ Private(t)' = {}
      /\ \A u \in Threads \ {t} : Private(u)' = Private(u)
  BY <1>1 DEF Private, TypeOK
<1>3. \A n : Public(n)' <=> Public(n)
  BY <1>1, <1>2 DEF Public
<1>4. LinksOK'
  BY <1>1, <1>3 DEF LinksOK, TypeOK
<1>5. PrivateOK'
  BY <1>1, <1>2 DEF PrivateOK, NewLabels, TypeOK
<1>6. PopOK'
  BY <1>1, SamePop DEF TypeOK
<1> QED
  BY <1>4, <1>5, <1>6

\* The steps of a push that only take or release a lock or fill the dummy node.
LEMMA PushQuiet ==
  ASSUME IInv, NEW t \in Threads,
         \/ \E v \in Values : CallPush(t, v)
         \/ PushLock(t) \/ PushData(t) \/ PushUnlock(t)
  PROVE  LinksOK' /\ PrivateOK' /\ PopOK'
<1> USE TwoLockAssumption DEF IInv
<1>1. /\ UNCHANGED <<allocated, next, head, tail, tailSeen>>
      /\ \A u \in Threads \ {t} : pc'[u] = pc[u] /\ node'[u] = node[u]
  BY DEF CallPush, PushLock, PushData, PushUnlock, Goto, heap, ends, locals, TypeOK
<1>2. \/ pc[t] = "push_lock" /\ pc'[t] = "push_data" /\ node'[t] = node[t]
      \/ pc[t] = "push_data" /\ pc'[t] = "push_link" /\ node'[t] = node[t]
      \/ pc[t] \in {"idle", "push_unlock"} /\ pc'[t] \in {"push_alloc", "push_notify", "idle"}
  BY DEF CallPush, PushLock, PushData, PushUnlock, Goto, locals, TypeOK
<1>3. \A u \in Threads : /\ Private(u)' = Private(u)
                         /\ pc'[u] \in NewLabels => pc[u] \in NewLabels /\ node'[u] = node[u]
                         /\ pc'[u] = "push_tail" <=> pc[u] = "push_tail"
  BY <1>1, <1>2 DEF Private, NewLabels
<1>4. LinksOK' /\ PrivateOK'
  BY <1>1, <1>3, SameShape
<1>5. PopOK'
  BY <1>1, <1>2, SamePop
<1> QED
  BY <1>4, <1>5

\* The steps of try_pop that leave the list alone: get_tail makes what the thread
\* has seen the tail of that moment, and the test for an empty queue relies on it.
LEMMA PopQuiet ==
  ASSUME IInv, NEW t \in Threads,
         \/ CallTryPop(t) \/ LockHead(t) \/ GetTailLock(t) \/ GetTailRead(t)
         \/ TryEmpty(t) \/ NotEmpty(t) \/ ReadData(t) \/ Return(t)
  PROVE  LinksOK' /\ PrivateOK' /\ PopOK'
<1> USE TwoLockAssumption DEF IInv
<1>1. /\ UNCHANGED <<allocated, next, head, tail, node>>
      /\ \A u \in Threads \ {t} : pc'[u] = pc[u] /\ tailSeen'[u] = tailSeen[u]
  BY DEF CallTryPop, LockHead, GetTailLock, GetTailRead, TryEmpty, NotEmpty, ReadData, Return,
         Goto, heap, ends, locals, TypeOK
<1>2. \/ pc[t] = "read_data" /\ pc'[t] = "free"
      \/ /\ pc[t] \notin NewLabels \cup {"read_data", "free"}
         /\ pc'[t] \in {"idle", "lock_head", "lock_tail", "read_tail", "test", "return", "detach",
                        "move_value"}
  BY DEF CallTryPop, LockHead, GetTailLock, GetTailRead, TryEmpty, NotEmpty, ReadData, Return,
         Goto, TypeOK, NewLabels
<1>3. \A u \in Threads : /\ Private(u)' = Private(u)
                         /\ pc'[u] \in NewLabels => pc[u] \in NewLabels /\ node'[u] = node[u]
                         /\ pc'[u] = "push_tail" <=> pc[u] = "push_tail"
  BY <1>1, <1>2 DEF Private, NewLabels
<1>4. LinksOK' /\ PrivateOK'
  BY <1>1, <1>3, SameShape
<1>5. PopOK'
  <2>1. CASE GetTailRead(t)
    BY <1>1, <2>1 DEF GetTailRead, Goto, PopOK, TypeOK
  <2>2. CASE NotEmpty(t)
    BY <1>1, <2>2 DEF NotEmpty, Goto, PopOK, TypeOK
  <2>3. CASE ~GetTailRead(t) /\ ~NotEmpty(t)
    <3>1. pc'[t] \notin {"test", "move_value", "detach"}
      BY <2>3 DEF CallTryPop, LockHead, GetTailLock, TryEmpty, ReadData, Return, Goto, TypeOK
    <3> QED
      BY <1>1, <3>1, SamePop
  <2> QED
    BY <2>1, <2>2, <2>3
<1> QED
  BY <1>4, <1>5
-------------------------------------------------------------------------------
(* The invariant. *)

\* Every step of a push, and of a pop that does not wait, keeps the invariant.
LEMMA StepIInv ==
  ASSUME IInv, NEW t \in Threads,
         (\E v \in Values : CallPush(t, v)) \/ CallTryPop(t) \/ PushStep(t) \/ PopStep(t)
  PROVE  IInv'
<1>1. TypeOK' /\ ArgsOK'
  BY PushTypes, PopTypes DEF IInv
<1>2. LinksOK' /\ PrivateOK' /\ PopOK'
  BY PushQuiet, PopQuiet, AllocShape, LinkShape, TailShape, DetachShape, FreeShape
     DEF PushStep, PopStep
<1> QED
  BY <1>1, <1>2 DEF IInv

\* A step that changes nothing keeps the invariant.
LEMMA StutterIInv == ASSUME IInv, UNCHANGED queueVars PROVE IInv'
BY DEF IInv, TypeOK, ArgsOK, LinksOK, PrivateOK, PopOK, Public, Private, queueVars, heap, ends, locals

\* The inductive invariant holds in every state of p236.
THEOREM Invariant == Spec => []IInv
<1>1. Init => IInv
  BY InitIInv
<1>2. IInv /\ [Next]_queueVars => IInv'
  BY StepIInv, StutterIInv DEF Next
<1> QED
  BY <1>1, <1>2, PTL DEF Spec
-------------------------------------------------------------------------------
(* What the invariant is for. *)

TailMem == {<<"tail">>, <<tail, "data">>, <<tail, "next">>}
HeadMem == {<<"head">>, <<head, "data">>, <<head, "next">>}
NodeMem(t) == {<<node[t], "data">>, <<node[t], "next">>}

\* What the next step of a thread touches, by where the thread is.
LEMMA Touched ==
  ASSUME TypeOK, NEW t \in Threads
  PROVE  LET touched == Reads(t) \cup Writes(t) IN
         \/ touched = {}
         \/ pc[t] \in HoldsTail /\ touched \subseteq TailMem
         \/ pc[t] = "test" /\ touched \subseteq {<<"head">>}
         \/ pc[t] \in {"move_value", "detach"} /\ touched \subseteq HeadMem
         \/ pc[t] \in {"read_data", "free"} /\ touched \subseteq NodeMem(t)
<1>1. CASE pc[t] \in {"push_data", "push_link", "push_tail", "read_tail"}
  BY <1>1 DEF Reads, Writes, TailMem, HoldsTail
<1>2. CASE pc[t] = "test"
  BY <1>2 DEF Reads, Writes
<1>3. CASE pc[t] \in {"move_value", "detach"}
  BY <1>3 DEF Reads, Writes, HeadMem
<1>4. CASE pc[t] \in {"read_data", "free"}
  BY <1>4 DEF Reads, Writes, NodeMem
<1>5. CASE pc[t] \notin {"push_data", "push_link", "push_tail", "read_tail", "test", "move_value",
                         "detach", "read_data", "free"}
  BY <1>5 DEF Reads, Writes
<1> QED
  BY <1>1, <1>2, <1>3, <1>4, <1>5

\* Different nodes, or a node and an end, are different memory.
LEMMA Disjoint ==
  /\ {<<"head">>} \cap TailMem = {}
  /\ head # tail => HeadMem \cap TailMem = {}
  /\ \A t : /\ node[t] # tail => NodeMem(t) \cap TailMem = {}
            /\ node[t] # head => NodeMem(t) \cap HeadMem = {}
            /\ NodeMem(t) \cap {<<"head">>} = {}
  /\ \A t, u : node[t] # node[u] => NodeMem(t) \cap NodeMem(u) = {}
BY DEF HeadMem, TailMem, NodeMem

\* A popping thread that holds only the head lock and a pushing one that holds only
\* the tail lock never touch the same memory.
LEMMA IInvNoDataRace == IInv => NoDataRace
<1> SUFFICES ASSUME IInv, NEW t \in Threads, NEW u \in Threads, t # u
             PROVE  (Reads(t) \cup Writes(t)) \cap (Reads(u) \cup Writes(u)) = {}
  BY DEF NoDataRace
<1>1. ~(pc[t] \in HoldsTail /\ pc[u] \in HoldsTail) /\ ~(pc[t] \in HoldsHead /\ pc[u] \in HoldsHead)
  BY TwoLockAssumption DEF IInv, TypeOK
<1>2. \A w \in Threads : pc[w] \in {"move_value", "detach"} => head # tail
  BY DEF IInv, PopOK
<1>3. \A w \in Threads : pc[w] \in {"read_data", "free"} => node[w] # head /\ node[w] # tail
  BY DEF IInv, LinksOK, Public, Private
<1>4. pc[t] \in {"read_data", "free"} /\ pc[u] \in {"read_data", "free"} => node[t] # node[u]
  BY DEF IInv, PrivateOK, Private
<1> QED
  BY <1>1, <1>2, <1>3, <1>4, Touched, Disjoint DEF IInv, HoldsHead, HeadMem

\* A thread touches nodes that are alive only.
LEMMA IInvNoUseAfterFree == IInv => NoUseAfterFree
<1> SUFFICES ASSUME IInv, NEW t \in Threads, NEW n \in Nodes, NEW f \in {"data", "next"},
                    <<n, f>> \in Reads(t) \cup Writes(t)
             PROVE  n \in allocated
  BY DEF NoUseAfterFree
<1>1. head \in allocated /\ tail \in allocated
  BY DEF IInv, LinksOK, Public
<1>2. pc[t] \in {"read_data", "free"} => node[t] \in allocated
  BY DEF IInv, PrivateOK, Private
<1> QED
  BY <1>1, <1>2, Touched DEF IInv, TailMem, HeadMem, NodeMem

\* p236 keeps the types of its state, and each lock is held by exactly the thread
\* that is inside its scope.
THEOREM TypeCorrect == Spec => []TypeOK
BY Invariant, PTL DEF IInv

\* In p236 no two threads are ever about to touch the same memory with one of them
\* writing.
THEOREM DataRaceFree == Spec => []NoDataRace
BY Invariant, IInvNoDataRace, PTL

\* In p236 no thread is ever about to touch a freed node.
THEOREM UseAfterFreeFree == Spec => []NoUseAfterFree
BY Invariant, IInvNoUseAfterFree, PTL
-------------------------------------------------------------------------------
(* p241. *)

\* The inductive invariant: the list's, and who is asleep.
WaitIInv == IInv /\ waiting = {t \in Threads : pc[t] = "blocked"}

\* A step of one thread of the list alone does not put anybody to sleep.
LEMMA ListStep ==
  ASSUME WaitIInv, NEW t \in Threads, UNCHANGED waiting,
         (\E v \in Values : CallPush(t, v)) \/ CallTryPop(t) \/ PushStep(t) \/ PopStep(t)
  PROVE  WaitIInv'
<1>1. IInv'
  BY StepIInv DEF WaitIInv
<1>2. pc[t] # "blocked" /\ pc'[t] # "blocked" /\ \A u \in Threads \ {t} : pc'[u] = pc[u]
  <2>1. CASE (\E v \in Values : CallPush(t, v)) \/ PushStep(t)
    BY <2>1 DEF PushStep, CallPush, PushAlloc, PushLock, PushData, PushLink, PushTail, PushUnlock,
                Goto, WaitIInv, IInv, TypeOK
  <2>2. CASE CallTryPop(t) \/ PopStep(t)
    BY <2>2 DEF PopStep, CallTryPop, LockHead, GetTailLock, GetTailRead, TryEmpty, NotEmpty, Detach,
                ReadData, Free, Return, Goto, WaitIInv, IInv, TypeOK
  <2> QED
    BY <2>1, <2>2
<1> QED
  BY <1>1, <1>2 DEF WaitIInv

\* The waiting pops: a thread that gives up the head lock to sleep, or is woken, has
\* no node in its hands, and one that wakes looks at the ends again.
LEMMA WaitingStep ==
  ASSUME WaitIInv, NEW t \in Threads,
         \/ \E op \in {"try_ref", "wait", "wait_ref"} : CallPop(t, op)
         \/ Block(t) \/ MoveValue(t) \/ PushNotify(t) \/ SpuriousWakeup(t)
  PROVE  WaitIInv'
<1> USE TwoLockAssumption DEF WaitIInv, IInv
<1>1. /\ UNCHANGED <<heap, ends, node, tailSeen>>
      /\ \A u \in Threads : \/ pc'[u] = pc[u]
                            \/ pc[u] = "move_value" /\ pc'[u] = "detach"
                            \/ /\ pc[u] \in {"idle", "test", "push_notify", "blocked"}
                               /\ pc'[u] \in {"idle", "lock_head", "blocked"}
  BY DEF CallPop, Block, MoveValue, PushNotify, SpuriousWakeup, Goto, locals, TypeOK
<1>2. LinksOK' /\ PrivateOK'
  <2>1. \A u \in Threads : /\ Private(u)' = Private(u)
                           /\ pc'[u] \in NewLabels => pc[u] \in NewLabels /\ node'[u] = node[u]
                           /\ pc'[u] = "push_tail" <=> pc[u] = "push_tail"
    BY <1>1 DEF Private, NewLabels
  <2> QED
    BY <1>1, <2>1, SameShape DEF heap, ends
<1>3. PopOK'
  BY <1>1 DEF PopOK, ends
<1>4. TypeOK' /\ ArgsOK' /\ waiting' = {u \in Threads : pc'[u] = "blocked"}
  <2> USE DEF TypeOK, ArgsOK, Goto, heap, ends, locals, PushLabels, PopLabels, HoldsHead, HoldsTail
  <2>1. CASE \E op \in {"try_ref", "wait", "wait_ref"} : CallPop(t, op)
    BY <2>1 DEF CallPop
  <2>2. CASE Block(t)
    BY <2>2 DEF Block
  <2>3. CASE MoveValue(t)
    BY <2>3 DEF MoveValue
  <2>4. CASE PushNotify(t)
    BY <2>4 DEF PushNotify
  <2>5. CASE SpuriousWakeup(t)
    BY <2>5 DEF SpuriousWakeup
  <2> QED
    BY <2>1, <2>2, <2>3, <2>4, <2>5
<1> QED
  BY <1>2, <1>3, <1>4

\* The inductive invariant holds in every state of p241.
THEOREM WaitInvariant == WaitSpec => []WaitIInv
<1>1. WaitInit => WaitIInv
  BY InitIInv DEF WaitInit, WaitIInv, Init
<1>2. WaitIInv /\ [WaitNext]_vars => WaitIInv'
  <2>1. ASSUME WaitIInv, UNCHANGED vars PROVE WaitIInv'
    BY <2>1, StutterIInv DEF WaitIInv, vars, queueVars
  <2>2. ASSUME WaitIInv, WaitNext PROVE WaitIInv'
    BY <2>2, ListStep, WaitingStep DEF WaitNext, WaitStep
  <2> QED
    BY <2>1, <2>2
<1> QED
  BY <1>1, <1>2, PTL DEF WaitSpec

\* p241 keeps the types of its state, each lock is held by exactly the thread inside
\* its scope, and the sleepers are exactly the threads inside the wait of p241:40.
THEOREM WaitTypeCorrect == WaitSpec => []WaitTypeOK
<1>1. WaitIInv => WaitTypeOK
  BY DEF WaitIInv, IInv, WaitTypeOK
<1> QED
  BY WaitInvariant, <1>1, PTL

\* In p241 no two threads are ever about to touch the same memory with one of them
\* writing, the value moved out of the first node included.
THEOREM WaitDataRaceFree == WaitSpec => []NoDataRace
<1>1. WaitIInv => NoDataRace
  BY IInvNoDataRace DEF WaitIInv
<1> QED
  BY WaitInvariant, <1>1, PTL

\* In p241 no thread is ever about to touch a freed node.
THEOREM WaitUseAfterFreeFree == WaitSpec => []NoUseAfterFree
<1>1. WaitIInv => NoUseAfterFree
  BY IInvNoUseAfterFree DEF WaitIInv
<1> QED
  BY WaitInvariant, <1>1, PTL
-------------------------------------------------------------------------------
(* The list between the ends. *)

\* The nodes between the ends, from the head to the one before the tail: they and the
\* tail are the nodes that are in nobody's hands.
Between(L, s) == /\ Segment(next, head, tail, L, s)
                 /\ tail \notin Places(L, s)
                 /\ \A n \in Nodes : Public(n) <=> n \in Places(L, s) \cup {tail}

WholeOK == \E L, s : Between(L, s)

\* What the walk from the head finds.
LEMMA ChainIs ==
  ASSUME TypeOK, NEW L, NEW s, Between(L, s)
  PROVE  /\ Chain = Places(L, s) \cup {tail} /\ Cardinality(Chain) = L + 1 /\ L \in Nat
         /\ \A k \in 1 .. L : Walk[k - 1] = s[k]
<1>1. DOMAIN next = Nodes /\ tail \in Nodes
  BY DEF TypeOK
<1>2. IsFiniteSet(DOMAIN next) /\ Null \notin DOMAIN next
  BY <1>1, TwoLockAssumption
<1>3. Relinked(next, Links, tail, Null)
  BY <1>1 DEF Relinked, Links
<1>4. CutAt(next, Null, head, tail, L, s, Links)
  BY <1>1, <1>2, <1>3 DEF Between, CutAt
<1>5. /\ NodesFrom(Links, Null, head) = Places(L, s) \cup {tail}
      /\ Cardinality(NodesFrom(Links, Null, head)) = L + 1 /\ L \in Nat
      /\ \A k \in 1 .. L : Path(Links, Null, head)[k - 1] = s[k]
  BY <1>4, CutPath
<1>6. Chain = NodesFrom(Links, Null, head) /\ Walk = Path(Links, Null, head)
  BY DEF Chain, Walk
<1> QED
  BY <1>5, <1>6

\* The same in the next state.
LEMMA ChainNext ==
  ASSUME TypeOK', NEW L, NEW s, Between(L, s)'
  PROVE  /\ Chain' = Places(L, s) \cup {tail'} /\ Cardinality(Chain') = L + 1 /\ L \in Nat
         /\ \A k \in 1 .. L : Walk'[k - 1] = s[k]
<1>1. DOMAIN next' = Nodes /\ tail' \in Nodes
  BY DEF TypeOK
<1>2. IsFiniteSet(DOMAIN next') /\ Null \notin DOMAIN next'
  BY <1>1, TwoLockAssumption
<1>3. Relinked(next', Links', tail', Null)
  BY <1>1 DEF Relinked, Links
<1>4. CutAt(next', Null, head', tail', L, s, Links')
  BY <1>1, <1>2, <1>3 DEF Between, CutAt
<1>5. /\ NodesFrom(Links', Null, head') = Places(L, s) \cup {tail'}
      /\ Cardinality(NodesFrom(Links', Null, head')) = L + 1 /\ L \in Nat
      /\ \A k \in 1 .. L : Path(Links', Null, head')[k - 1] = s[k]
  BY <1>4, CutPath
<1>6. Chain' = NodesFrom(Links', Null, head') /\ Walk' = Path(Links', Null, head')
  BY DEF Chain, Walk
<1> QED
  BY <1>5, <1>6

\* The values in the queue are those of these nodes.
LEMMA ContentsAre ==
  ASSUME TypeOK, NEW L, NEW s, Between(L, s)
  PROVE  Contents = Shown(data, L, s)
<1>1. Cardinality(Chain) = L + 1 /\ L \in Nat /\ \A k \in 1 .. L : Walk[k - 1] = s[k]
  BY ChainIs
<1>2. Cardinality(Chain) - 1 = L
  BY <1>1
<1> QED
  BY <1>1, <1>2 DEF Contents, Shown

\* The same in the next state.
LEMMA ContentsNext ==
  ASSUME TypeOK', NEW L, NEW s, Between(L, s)'
  PROVE  Contents' = Shown(data', L, s)
<1>1. Cardinality(Chain') = L + 1 /\ L \in Nat /\ \A k \in 1 .. L : Walk'[k - 1] = s[k]
  BY ChainNext
<1>2. Cardinality(Chain') - 1 = L
  BY <1>1
<1> QED
  BY <1>1, <1>2 DEF Contents, Shown

\* Nothing leaks and nothing has two owners.
LEMMA WholeIs ==
  ASSUME IInv, WholeOK
  PROVE  ListIsWhole
<1>1. PICK L, s : Between(L, s)
  BY DEF WholeOK
<1>2. Chain = Places(L, s) \cup {tail} /\ Places(L, s) \subseteq Nodes /\ tail \in Nodes
  <2>1. Places(L, s) \subseteq DOMAIN next
    BY <1>1 DEF Between, Segment, Places
  <2> QED
    BY <1>1, <2>1, ChainIs DEF IInv, TypeOK
<1>3. \A n : n \in Chain <=> n \in Nodes /\ Public(n)
  BY <1>1, <1>2 DEF Between
<1>4. \A t \in Threads : Private(t) \subseteq allocated /\ allocated \subseteq Nodes
  BY DEF IInv, PrivateOK, TypeOK
<1>5. \A n : n \in allocated <=> n \in Chain \/ \E t \in Threads : n \in Private(t)
  BY <1>3, <1>4 DEF Public, IInv, TypeOK
<1>6. allocated = Chain \cup UNION {Private(t) : t \in Threads}
  BY <1>5
<1>7. \A t \in Threads : Private(t) \cap Chain = {}
  BY <1>3 DEF Public
<1>8. \A t, u \in Threads : t # u => Private(t) \cap Private(u) = {}
  BY DEF IInv, PrivateOK
<1> QED
  BY <1>2, <1>6, <1>7, <1>8 DEF ListIsWhole

\* The operations that take a value out, and those that hand it over in a parameter.
Pops == {"try", "try_ref", "wait", "wait_ref"}
ByReference == {"try_ref", "wait_ref"}

\* A thread that pops knows which operation it is in.
CallOK == \A t \in Threads :
    /\ pc[t] \in {"lock_head", "lock_tail", "read_tail", "test", "detach", "blocked"} => call[t] \in Pops
    /\ pc[t] = "move_value" => call[t] \in ByReference
    /\ pc[t] = "read_data" => call[t] \in Pops \ ByReference

\* The value of a push is in the dummy node before that becomes a node of the list, and
\* a value that was moved out is the first one until the node is detached.
DataOK == \A t \in Threads :
    /\ pc[t] \in {"push_link", "push_tail"} => data[tail] \in Values
    /\ pc[t] = "detach" /\ call[t] \in ByReference => val[t] = data[head]

QueueInv == IInv /\ WholeOK /\ CallOK /\ DataOK
-------------------------------------------------------------------------------
\* A step that leaves the ends alone, and the nodes of the list but the dummy node.
SameList == /\ head' = head /\ tail' = tail /\ DOMAIN next' = DOMAIN next
            /\ \A n \in Nodes : Public(n) /\ n # tail => next'[n] = next[n] /\ data'[n] = data[n]
            /\ \A n \in Nodes : Public(n)' <=> Public(n)

\* They do not change the nodes between the ends ...
LEMMA SameBetween ==
  ASSUME TypeOK, SameList, NEW L, NEW s, Between(L, s)
  PROVE  /\ Between(L, s)' /\ Places(L, s) \subseteq Nodes
         /\ \A i \in 1 .. L : s[i] \in Nodes /\ s[i] # tail /\ Public(s[i])
<1>1. Places(L, s) \subseteq Nodes /\ \A i \in 1 .. L : s[i] \in Places(L, s)
  BY DEF Between, Segment, Places, TypeOK
<1>2. \A i \in 1 .. L : s[i] \in Nodes /\ s[i] # tail /\ Public(s[i])
  BY <1>1 DEF Between
<1>3. DOMAIN next' = DOMAIN next /\ \A i \in 1 .. L : next'[s[i]] = next[s[i]]
  BY <1>2 DEF SameList
<1>4. Segment(next, head, tail, L, s)
  BY DEF Between
<1>5. Segment(next', head, tail, L, s)
  BY <1>3, <1>4, SegmentSame
<1> QED
  BY <1>1, <1>2, <1>5 DEF Between, SameList

\* ... nor the values in them.
LEMMA SameContents ==
  ASSUME TypeOK, TypeOK', SameList, WholeOK
  PROVE  WholeOK' /\ Contents' = Contents
<1>1. PICK L, s : Between(L, s)
  BY DEF WholeOK
<1>2. Between(L, s)' /\ \A i \in 1 .. L : data'[s[i]] = data[s[i]]
  BY <1>1, SameBetween DEF SameList
<1>3. Contents = Shown(data, L, s) /\ Contents' = Shown(data', L, s)
  BY <1>1, <1>2, ContentsAre, ContentsNext
<1> QED
  BY <1>2, <1>3 DEF WholeOK, Shown

\* Who has what in hand decides which nodes are in nobody's.
LEMMA SameOwners ==
  ASSUME allocated' = allocated, \A u \in Threads : Private(u)' = Private(u)
  PROVE  \A n : Public(n)' <=> Public(n)
  BY DEF Public

\* The steps that do not move an end.
LEMMA QuietLists ==
  ASSUME IInv, NEW t \in Threads,
         \/ \E v \in Values : CallPush(t, v)
         \/ PushAlloc(t) \/ PushLock(t) \/ PushData(t) \/ PushLink(t) \/ PushUnlock(t)
         \/ CallTryPop(t) \/ LockHead(t) \/ GetTailLock(t) \/ GetTailRead(t)
         \/ TryEmpty(t) \/ NotEmpty(t) \/ ReadData(t) \/ Free(t) \/ Return(t)
  PROVE  SameList
<1> USE TwoLockAssumption DEF IInv
<1>1. CASE PushAlloc(t)
  <2>1. PICK n \in Nodes \ allocated :
           /\ pc[t] = "push_alloc" /\ pc' = [pc EXCEPT ![t] = "push_lock"]
           /\ allocated' = allocated \cup {n} /\ next' = [next EXCEPT ![n] = Null]
           /\ data' = [data EXCEPT ![n] = NoValue]
           /\ node' = [node EXCEPT ![t] = n] /\ UNCHANGED <<head, tail>>
    BY <1>1 DEF PushAlloc, Goto, ends
  <2>2. /\ Private(t)' = {n} /\ Private(t) = {}
        /\ \A u \in Threads \ {t} : Private(u)' = Private(u)
    BY <2>1 DEF Private, TypeOK
  <2>3. \A m \in Nodes : Public(m)' <=> Public(m)
    BY <2>1, <2>2 DEF Public
  <2>4. \A m \in Nodes : Public(m) => m # n
    BY <2>1 DEF Public
  <2> QED
    BY <2>1, <2>3, <2>4 DEF SameList, TypeOK
<1>2. CASE PushData(t) \/ PushLink(t)
  <2>1. /\ UNCHANGED <<allocated, head, tail, node>>
        /\ \/ pc[t] = "push_data" /\ pc' = [pc EXCEPT ![t] = "push_link"]
           \/ pc[t] = "push_link" /\ pc' = [pc EXCEPT ![t] = "push_tail"]
        /\ DOMAIN next' = DOMAIN next
        /\ \A n \in Nodes \ {tail} : next'[n] = next[n] /\ data'[n] = data[n]
    BY <1>2 DEF PushData, PushLink, Goto, ends, locals, TypeOK
  <2>2. \A u \in Threads : Private(u)' = Private(u)
    BY <2>1 DEF Private, TypeOK
  <2> QED
    BY <2>1, <2>2, SameOwners DEF SameList
<1>3. CASE Free(t)
  <2>1. /\ pc[t] = "free" /\ pc' = [pc EXCEPT ![t] = "return"]
        /\ allocated' = allocated \ {node[t]} /\ node' = [node EXCEPT ![t] = Null]
        /\ UNCHANGED <<next, data, head, tail>>
    BY <1>3 DEF Free, Goto, ends
  <2>2. /\ Private(t) = {node[t]} /\ Private(t)' = {}
        /\ \A u \in Threads \ {t} : Private(u)' = Private(u)
    BY <2>1 DEF Private, TypeOK
  <2>3. \A n : Public(n)' <=> Public(n)
    BY <2>1, <2>2 DEF Public
  <2> QED
    BY <2>1, <2>3 DEF SameList
<1>4. CASE (\E v \in Values : CallPush(t, v)) \/ PushLock(t) \/ PushUnlock(t)
  <2>1. /\ UNCHANGED heap /\ UNCHANGED ends
        /\ \A u \in Threads \ {t} : pc'[u] = pc[u] /\ node'[u] = node[u]
    BY <1>4 DEF CallPush, PushLock, PushUnlock, Goto, locals, TypeOK
  <2>2. \/ pc[t] = "push_lock" /\ pc'[t] = "push_data" /\ node'[t] = node[t]
        \/ pc[t] \in {"idle", "push_unlock"} /\ pc'[t] \in {"push_alloc", "push_notify", "idle"}
    BY <1>4 DEF CallPush, PushLock, PushUnlock, Goto, locals, TypeOK
  <2>3. \A u \in Threads : Private(u)' = Private(u)
    BY <2>1, <2>2 DEF Private
  <2> QED
    BY <2>1, <2>3, SameOwners DEF SameList, heap, ends
<1>5. CASE \/ CallTryPop(t) \/ LockHead(t) \/ GetTailLock(t) \/ GetTailRead(t)
           \/ TryEmpty(t) \/ NotEmpty(t) \/ ReadData(t) \/ Return(t)
  <2>1. /\ UNCHANGED heap /\ UNCHANGED ends /\ node' = node
        /\ \A u \in Threads \ {t} : pc'[u] = pc[u]
    BY <1>5 DEF CallTryPop, LockHead, GetTailLock, GetTailRead, TryEmpty, NotEmpty, ReadData, Return,
                Goto, locals, TypeOK
  <2>2. \/ pc[t] = "read_data" /\ pc'[t] = "free"
        \/ /\ pc[t] \in {"idle", "lock_head", "lock_tail", "read_tail", "test", "return"}
           /\ pc'[t] \in {"idle", "lock_head", "lock_tail", "read_tail", "test", "return", "detach",
                          "move_value"}
    BY <1>5 DEF CallTryPop, LockHead, GetTailLock, GetTailRead, TryEmpty, NotEmpty, ReadData, Return,
                Goto, TypeOK
  <2>3. \A u \in Threads : Private(u)' = Private(u)
    BY <2>1, <2>2 DEF Private
  <2> QED
    BY <2>1, <2>3, SameOwners DEF SameList, heap, ends
<1> QED
  BY <1>1, <1>2, <1>3, <1>4, <1>5

\* The tail moves to its successor: the node that was filled is the last of the list.
LEMMA TailList ==
  ASSUME IInv, IInv', NEW t \in Threads, PushTail(t), WholeOK
  PROVE  WholeOK' /\ Contents' = Append(Contents, data[tail])
<1> USE TwoLockAssumption DEF IInv
<1>1. /\ pc[t] = "push_tail" /\ pc' = [pc EXCEPT ![t] = "push_unlock"] /\ tail' = node[t]
      /\ UNCHANGED <<allocated, next, data, head, node>>
  BY DEF PushTail, Goto, heap, locals
<1>2. /\ Private(t) = {node[t]} /\ Private(t)' = {}
      /\ \A u \in Threads \ {t} : Private(u)' = Private(u)
  BY <1>1 DEF Private, TypeOK
<1>3. \A n \in Nodes : Public(n)' <=> Public(n) \/ n = node[t]
  BY <1>1, <1>2 DEF Public, PrivateOK
<1>4. ~Public(node[t]) /\ next[tail] = node[t] /\ tail \in DOMAIN next /\ tail \in Nodes
  BY <1>1, <1>2 DEF PrivateOK, Public, TypeOK
<1>5. PICK L, s : Between(L, s)
  BY DEF WholeOK
<1>6. Segment(next, head, tail, L, s) /\ tail \notin Places(L, s) /\ L \in Nat
      /\ \A n \in Nodes : Public(n) <=> n \in Places(L, s) \cup {tail}
  BY <1>5 DEF Between, Segment
<1>7. PICK K, r : /\ Segment(next, head, next[tail], K, r)
                  /\ Places(K, r) = Places(L, s) \cup {tail}
                  /\ Shown(data, K, r) = Append(Shown(data, L, s), data[tail])
  <2>1. /\ Segment(next, head, next[tail], L + 1, After(L, s, tail))
        /\ Places(L + 1, After(L, s, tail)) = Places(L, s) \cup {tail}
    BY <1>4, <1>6, SegmentSnoc
  <2>2. Shown(data, L + 1, After(L, s, tail)) = Append(Shown(data, L, s), data[tail])
    BY <1>6, ShownAppend
  <2> QED
    BY <2>1, <2>2
<1>8. node[t] \in Nodes /\ node[t] \notin Places(L, s) \cup {tail}
  BY <1>1, <1>4, <1>6 DEF TypeOK
<1>9. Between(K, r)'
  <2>1. Segment(next', head', tail', K, r)
    BY <1>1, <1>4, <1>7
  <2>2. tail' \notin Places(K, r)
    BY <1>1, <1>7, <1>8
  <2>3. \A n \in Nodes : Public(n)' <=> n \in Places(K, r) \cup {tail'}
    BY <1>1, <1>3, <1>6, <1>7
  <2> QED
    BY <2>1, <2>2, <2>3 DEF Between
<1>10. Contents = Shown(data, L, s) /\ Contents' = Shown(data, K, r)
  BY <1>1, <1>5, <1>9, ContentsAre, ContentsNext
<1> QED
  BY <1>7, <1>9, <1>10 DEF WholeOK

\* The head moves to its successor: the first node leaves the list.
LEMMA HeadList ==
  ASSUME IInv, IInv', NEW t \in Threads, Detach(t), WholeOK
  PROVE  /\ WholeOK' /\ Contents # <<>>
         /\ data[head] = Head(Contents) /\ Contents' = Tail(Contents)
<1> USE TwoLockAssumption DEF IInv
<1>1. /\ pc[t] = "detach" /\ \E l \in {"read_data", "free"} : pc' = [pc EXCEPT ![t] = l]
      /\ node' = [node EXCEPT ![t] = head] /\ head' = next[head]
      /\ next' = [next EXCEPT ![head] = Null]
      /\ UNCHANGED <<allocated, tail, data>>
  BY DEF Detach, Goto
<1>2. /\ Private(t) = {} /\ Private(t)' = {head}
      /\ \A u \in Threads \ {t} : Private(u)' = Private(u)
  BY <1>1 DEF Private, TypeOK
<1>3. head # tail /\ head \in Nodes /\ tail \in Nodes
  BY <1>1 DEF PopOK, TypeOK
<1>4. \A n \in Nodes : Public(n)' <=> Public(n) /\ n # head
  BY <1>1, <1>2 DEF Public
<1>5. PICK L, s : Between(L, s)
  BY DEF WholeOK
<1>6. Segment(next, head, tail, L, s) /\ tail \notin Places(L, s) /\ L \in Nat
      /\ \A n \in Nodes : Public(n) <=> n \in Places(L, s) \cup {tail}
  BY <1>5 DEF Between, Segment
<1>7. L # 0
  BY <1>3, <1>6 DEF Segment
<1> DEFINE K == L - 1
           r == Behind(L, s)
<1>8. /\ Segment(next, next[head], tail, K, r)
      /\ Places(L, s) = {head} \cup Places(K, r)
      /\ head \notin Places(K, r) /\ head = s[1]
  BY <1>6, <1>7, SegmentTail
<1> HIDE DEF K, r
<1>9. DOMAIN next' = DOMAIN next /\ \A i \in 1 .. K : next'[r[i]] = next[r[i]]
  BY <1>1, <1>8 DEF TypeOK, Places, Segment
<1>10. Segment(next', next[head], tail, K, r)
  BY <1>8, <1>9, SegmentSame
<1>11. Between(K, r)'
  <2>1. tail \notin Places(K, r)
    BY <1>6, <1>8
  <2>2. \A n \in Nodes : Public(n)' <=> n \in Places(K, r) \cup {tail}
    BY <1>3, <1>4, <1>6, <1>8
  <2> QED
    BY <1>1, <1>10, <2>1, <2>2 DEF Between
<1>12. Contents = Shown(data, L, s) /\ Contents' = Shown(data, K, r)
  BY <1>1, <1>5, <1>11, ContentsAre, ContentsNext
<1>13. /\ Shown(data, L, s) # <<>> /\ Head(Shown(data, L, s)) = data[s[1]]
       /\ Tail(Shown(data, L, s)) = Shown(data, L - 1, Behind(L, s))
  BY <1>6, <1>7, ShownTail
<1> QED
  BY <1>8, <1>11, <1>12, <1>13 DEF WholeOK, K, r
-------------------------------------------------------------------------------
\* The waiting pops do not move an end, nor take a node in hand.
LEMMA WaitLists ==
  ASSUME WaitIInv, NEW t \in Threads,
         \/ \E op \in {"try_ref", "wait", "wait_ref"} : CallPop(t, op)
         \/ Block(t) \/ MoveValue(t) \/ PushNotify(t) \/ SpuriousWakeup(t)
  PROVE  SameList
<1> USE DEF WaitIInv, IInv
<1>1. /\ UNCHANGED <<heap, ends, node>>
      /\ \A u \in Threads : \/ pc'[u] = pc[u]
                            \/ pc[u] = "move_value" /\ pc'[u] = "detach"
                            \/ /\ pc[u] \in {"idle", "test", "push_notify", "blocked"}
                               /\ pc'[u] \in {"idle", "lock_head", "blocked"}
  BY DEF CallPop, Block, MoveValue, PushNotify, SpuriousWakeup, Goto, locals, TypeOK
<1>2. \A u \in Threads : Private(u)' = Private(u)
  BY <1>1 DEF Private
<1> QED
  BY <1>1, <1>2, SameOwners DEF SameList, heap, ends
-------------------------------------------------------------------------------
(* Operations and values. *)

\* A thread knows which operation it is in, whatever a step of the list does ...
LEMMA StepCalls ==
  ASSUME IInv, CallOK, NEW t \in Threads,
         (\E v \in Values : CallPush(t, v)) \/ CallTryPop(t) \/ PushStep(t) \/ PopStep(t)
  PROVE  CallOK'
<1> USE DEF IInv
<1>1. CASE (\E v \in Values : CallPush(t, v)) \/ PushStep(t)
  <2>1. /\ \A u \in Threads \ {t} : pc'[u] = pc[u] /\ call'[u] = call[u]
        /\ pc'[t] \in {"push_alloc", "push_lock", "push_data", "push_link", "push_tail",
                       "push_unlock", "push_notify", "idle"}
    BY <1>1 DEF PushStep, CallPush, PushAlloc, PushLock, PushData, PushLink, PushTail, PushUnlock,
                Goto, locals, TypeOK
  <2> QED
    BY <2>1 DEF CallOK
<1>2. CASE CallTryPop(t)
  BY <1>2 DEF CallTryPop, Goto, CallOK, TypeOK, Pops, ByReference
<1>3. CASE PopStep(t) /\ ~NotEmpty(t) /\ ~Detach(t)
  <2>1. /\ \A u \in Threads \ {t} : pc'[u] = pc[u] /\ call'[u] = call[u]
        /\ \/ pc'[t] \in {"free", "return", "idle"}
           \/ /\ pc[t] \in {"lock_head", "lock_tail", "read_tail"} /\ call'[t] = call[t]
              /\ pc'[t] \in {"lock_tail", "read_tail", "test"}
    BY <1>3 DEF PopStep, LockHead, GetTailLock, GetTailRead, TryEmpty, ReadData, Free, Return,
                Goto, locals, TypeOK
  <2> QED
    BY <2>1 DEF CallOK
<1>4. CASE NotEmpty(t) \/ Detach(t)
  <2>1. /\ call' = call /\ \A u \in Threads \ {t} : pc'[u] = pc[u]
        /\ pc[t] \in {"test", "detach"}
        /\ \/ pc'[t] \in {"detach", "read_data"} /\ call[t] \in {"try", "wait"}
           \/ pc'[t] \in {"move_value", "free"} /\ call[t] \notin {"try", "wait"}
    BY <1>4 DEF NotEmpty, Detach, Goto, locals, TypeOK
  <2> QED
    BY <2>1 DEF CallOK, Pops, ByReference
<1> QED
  BY <1>1, <1>2, <1>3, <1>4

\* ... or one of the waiting pops.
LEMMA WaitCalls ==
  ASSUME WaitIInv, CallOK, NEW t \in Threads,
         \/ \E op \in {"try_ref", "wait", "wait_ref"} : CallPop(t, op)
         \/ Block(t) \/ MoveValue(t) \/ PushNotify(t) \/ SpuriousWakeup(t)
  PROVE  CallOK'
<1> USE DEF WaitIInv, IInv, CallOK, TypeOK, Pops, ByReference, Goto, locals
<1>1. CASE \E op \in {"try_ref", "wait", "wait_ref"} : CallPop(t, op)
  BY <1>1 DEF CallPop
<1>2. CASE Block(t) \/ MoveValue(t)
  BY <1>2 DEF Block, MoveValue
<1>3. CASE PushNotify(t)
  BY <1>3 DEF PushNotify
<1>4. CASE SpuriousWakeup(t)
  BY <1>4 DEF SpuriousWakeup
<1> QED
  BY <1>1, <1>2, <1>3, <1>4

\* The threads but t stay where they are, with what they have.
OthersKeep(t) == \A u \in Threads \ {t} :
    /\ pc'[u] = pc[u] /\ call'[u] = call[u] /\ val'[u] = val[u] /\ node'[u] = node[u]
    /\ pc[u] = "read_data" => data'[node[u]] = data[node[u]]

\* The nodes of the list but the dummy node keep their values when the ends do not
\* move, and so do those in somebody's hands.
LEMMA StepValues ==
  ASSUME QueueInv, NEW t \in Threads,
         (\E v \in Values : CallPush(t, v)) \/ CallTryPop(t) \/ PushStep(t) \/ PopStep(t)
  PROVE  /\ DataOK'
         /\ OthersKeep(t)
<1> USE TwoLockAssumption DEF QueueInv, IInv, OthersKeep
<1>1. head \in allocated /\ tail \in allocated /\ Public(tail) /\ Public(head)
  BY DEF LinksOK, Public
<1>2. \A u \in Threads : pc[u] = "read_data" => node[u] \in allocated /\ node[u] # tail
  BY <1>1 DEF PrivateOK, Private, Public
<1>3. \A u \in Threads : pc[u] = "detach" => head # tail
  BY DEF PopOK
<1>4. CASE PushAlloc(t)
  <2>1. PICK n \in Nodes \ allocated :
           /\ pc[t] = "push_alloc" /\ pc' = [pc EXCEPT ![t] = "push_lock"]
           /\ data' = [data EXCEPT ![n] = NoValue] /\ node' = [node EXCEPT ![t] = n]
           /\ UNCHANGED <<head, tail, call, val>>
    BY <1>4 DEF PushAlloc, Goto, ends
  <2>2. \A m \in allocated : data'[m] = data[m]
    BY <2>1 DEF TypeOK
  <2>3. \A u \in Threads \ {t} : pc'[u] = pc[u] /\ node'[u] = node[u]
    BY <2>1 DEF TypeOK
  <2>4. pc'[t] = "push_lock"
    BY <2>1 DEF TypeOK
  <2>5. DataOK'
    BY <1>1, <2>1, <2>2, <2>3, <2>4 DEF DataOK
  <2> QED
    BY <1>2, <2>1, <2>2, <2>3, <2>5
<1>5. CASE PushData(t)
  <2>1. /\ pc[t] = "push_data" /\ pc' = [pc EXCEPT ![t] = "push_link"]
        /\ data' = [data EXCEPT ![tail] = val[t]] /\ val[t] \in Values
        /\ UNCHANGED <<head, tail, call, val, node>>
    BY <1>5 DEF PushData, Goto, ends, locals, ArgsOK
  <2>2. data'[tail] \in Values /\ \A n \in Nodes \ {tail} : data'[n] = data[n]
    BY <2>1 DEF TypeOK
  <2>3. \A u \in Threads \ {t} : pc'[u] = pc[u]
    BY <2>1 DEF TypeOK
  <2>4. head \in Nodes /\ \A u \in Threads : pc[u] = "read_data" => node[u] \in Nodes
    BY <1>2 DEF TypeOK
  <2>5. DataOK'
    BY <1>3, <2>1, <2>2, <2>3, <2>4 DEF DataOK, TypeOK
  <2> QED
    BY <1>2, <2>1, <2>2, <2>3, <2>4, <2>5
<1>6. CASE \/ \E v \in Values : CallPush(t, v)
           \/ PushLock(t) \/ PushLink(t) \/ PushTail(t) \/ PushUnlock(t)
  <2>1. /\ data' = data /\ head' = head
        /\ \A u \in Threads \ {t} : /\ pc'[u] = pc[u] /\ call'[u] = call[u] /\ val'[u] = val[u]
                                    /\ node'[u] = node[u]
        /\ \/ pc[t] = "push_link" /\ pc'[t] = "push_tail" /\ tail' = tail
           \/ pc[t] \in {"idle", "push_lock", "push_unlock"} /\ tail' = tail
              /\ pc'[t] \in {"push_alloc", "push_data", "push_notify", "idle"}
           \/ pc[t] = "push_tail" /\ pc'[t] = "push_unlock"
    BY <1>6 DEF CallPush, PushLock, PushLink, PushTail, PushUnlock, Goto, heap, ends, locals, TypeOK
  <2>2. pc[t] = "push_tail" => \A u \in Threads \ {t} : pc[u] \notin {"push_link", "push_tail"}
    BY DEF TypeOK, HoldsTail
  <2> QED
    BY <2>1, <2>2 DEF DataOK
<1>7. CASE Detach(t)
  <2>1. /\ pc[t] = "detach" /\ data' = data /\ tail' = tail
        /\ \A u \in Threads \ {t} : /\ pc'[u] = pc[u] /\ call'[u] = call[u] /\ val'[u] = val[u]
                                    /\ node'[u] = node[u]
        /\ pc'[t] \in {"read_data", "free"}
    BY <1>7 DEF Detach, Goto, TypeOK
  <2>2. \A u \in Threads \ {t} : pc[u] # "detach"
    BY <2>1 DEF TypeOK, HoldsHead
  <2> QED
    BY <2>1, <2>2 DEF DataOK
<1>8. CASE CallTryPop(t) \/ (PopStep(t) /\ ~Detach(t))
  <2>1. /\ data' = data /\ head' = head /\ tail' = tail
        /\ \A u \in Threads \ {t} : /\ pc'[u] = pc[u] /\ call'[u] = call[u] /\ val'[u] = val[u]
                                    /\ node'[u] = node[u]
        /\ pc'[t] \in {"lock_head", "lock_tail", "read_tail", "test", "move_value", "detach", "free",
                       "return", "idle"}
        /\ pc'[t] = "detach" => call'[t] \in {"try", "wait"}
    BY <1>8 DEF CallTryPop, PopStep, LockHead, GetTailLock, GetTailRead, TryEmpty, NotEmpty, ReadData,
                Free, Return, Goto, heap, ends, locals, TypeOK
  <2> QED
    BY <2>1 DEF DataOK, ByReference
<1>9. \/ PushAlloc(t) \/ PushData(t) \/ Detach(t) \/ CallTryPop(t) \/ (PopStep(t) /\ ~Detach(t))
      \/ (\E v \in Values : CallPush(t, v))
      \/ PushLock(t) \/ PushLink(t) \/ PushTail(t) \/ PushUnlock(t)
  BY DEF PushStep
<1> QED
  BY <1>4, <1>5, <1>6, <1>7, <1>8, <1>9

\* A waiting pop moves the value of the first node out before it detaches the node.
LEMMA WaitValues ==
  ASSUME WaitIInv, QueueInv, NEW t \in Threads,
         \/ \E op \in {"try_ref", "wait", "wait_ref"} : CallPop(t, op)
         \/ Block(t) \/ MoveValue(t) \/ PushNotify(t) \/ SpuriousWakeup(t)
  PROVE  DataOK'
<1> USE DEF WaitIInv, QueueInv, IInv, DataOK, TypeOK, ByReference, Goto, locals, heap, ends
<1>1. CASE \E op \in {"try_ref", "wait", "wait_ref"} : CallPop(t, op)
  BY <1>1 DEF CallPop
<1>2. CASE Block(t)
  BY <1>2 DEF Block
<1>3. CASE MoveValue(t)
  BY <1>3 DEF MoveValue
<1>4. CASE PushNotify(t)
  BY <1>4 DEF PushNotify
<1>5. CASE SpuriousWakeup(t)
  BY <1>5 DEF SpuriousWakeup
<1> QED
  BY <1>1, <1>2, <1>3, <1>4, <1>5
-------------------------------------------------------------------------------
(* What the queue promises. *)

GotBut(S) == \A u \in Threads \ S : Result(u)' = Result(u)

\* A step of the abstract queue: nothing, a push, a pop by t, or its return.
FifoPop(t) == /\ Contents # <<>> /\ Result(t)' = Head(Contents)
              /\ Contents' = Tail(Contents) /\ GotBut({t})
FifoReturn(t) == Result(t)' = NoValue /\ Contents' = Contents /\ GotBut({t})
FifoStep == \/ Contents' = Contents /\ GotBut({})
            \/ \E v \in Values : Contents' = Append(Contents, v) /\ GotBut({})
            \/ \E t \in Threads : FifoPop(t) \/ FifoReturn(t)

\* What the other threads are about to return stays what it is.
LEMMA OthersResult ==
  ASSUME NEW t \in Threads, OthersKeep(t)
  PROVE  GotBut({t})
<1> SUFFICES ASSUME NEW u \in Threads \ {t} PROVE Result(u)' = Result(u)
  BY DEF GotBut
<1>1. /\ pc'[u] = pc[u] /\ call'[u] = call[u] /\ val'[u] = val[u] /\ node'[u] = node[u]
      /\ pc[u] = "read_data" => data'[node[u]] = data[node[u]]
  BY DEF OthersKeep
<1> QED
  BY <1>1 DEF Result

\* The steps that do not take a node out of the list, in the thread's own eyes.
LEMMA OwnResult ==
  ASSUME QueueInv, NEW t \in Threads,
         (\E v \in Values : CallPush(t, v)) \/ CallTryPop(t) \/ PushStep(t) \/ PopStep(t),
         ~Detach(t)
  PROVE  Result(t)' = Result(t) \/ (Return(t) /\ Result(t)' = NoValue)
<1> USE TwoLockAssumption DEF QueueInv, IInv
<1>1. CASE (\E v \in Values : CallPush(t, v)) \/ PushStep(t)
  <2>1. pc[t] \notin {"read_data", "detach", "free", "return"} /\ pc'[t] \notin {"read_data", "detach", "free", "return"}
    BY <1>1 DEF PushStep, CallPush, PushAlloc, PushLock, PushData, PushLink, PushTail, PushUnlock,
                Goto, TypeOK
  <2> QED
    BY <2>1 DEF Result
<1>2. CASE CallTryPop(t) \/ LockHead(t) \/ GetTailLock(t) \/ GetTailRead(t)
  <2>1. pc[t] \notin {"read_data", "detach", "free", "return"} /\ pc'[t] \notin {"read_data", "detach", "free", "return"}
    BY <1>2 DEF CallTryPop, LockHead, GetTailLock, GetTailRead, Goto, TypeOK
  <2> QED
    BY <2>1 DEF Result
<1>3. CASE TryEmpty(t)
  <2>1. pc[t] = "test" /\ pc'[t] = "return" /\ val'[t] \in {NoValue, DefaultValue}
    BY <1>3 DEF TryEmpty, Goto, TypeOK
  <2> QED
    BY <2>1 DEF Result
<1>4. CASE NotEmpty(t)
  <2>1. pc[t] = "test" /\ pc'[t] \in {"detach", "move_value"}
    BY <1>4 DEF NotEmpty, Goto, TypeOK
  <2> QED
    BY <2>1 DEF Result
<1>5. CASE ReadData(t)
  <2>1. /\ pc[t] = "read_data" /\ pc'[t] = "free" /\ val'[t] = data[node[t]]
        /\ node[t] \in Nodes /\ call[t] \in {"try", "wait"}
    BY <1>5 DEF ReadData, Goto, TypeOK, CallOK, Pops, ByReference, PrivateOK, Private
  <2>2. data[node[t]] # DefaultValue
    BY <2>1 DEF TypeOK
  <2> QED
    BY <2>1, <2>2 DEF Result
<1>6. CASE Free(t)
  <2>1. pc[t] = "free" /\ pc'[t] = "return" /\ val'[t] = val[t]
    BY <1>6 DEF Free, Goto, TypeOK
  <2> QED
    BY <2>1 DEF Result
<1>7. CASE Return(t)
  <2>1. pc'[t] = "idle"
    BY <1>7 DEF Return, Goto, TypeOK
  <2> QED
    BY <1>7, <2>1 DEF Result
<1> QED
  BY <1>1, <1>2, <1>3, <1>4, <1>5, <1>6, <1>7 DEF PopStep

\* Every step of the list keeps it whole, and is a step of the abstract queue.
LEMMA FifoList ==
  ASSUME QueueInv, IInv', NEW t \in Threads,
         (\E v \in Values : CallPush(t, v)) \/ CallTryPop(t) \/ PushStep(t) \/ PopStep(t)
  PROVE  WholeOK' /\ FifoStep
<1> USE DEF QueueInv
<1>1. DataOK' /\ OthersKeep(t) /\ GotBut({t})
  BY StepValues, OthersResult
<1>2. \A u \in Threads : GotBut({u}) /\ Result(u)' = Result(u) => GotBut({})
  BY DEF GotBut
<1>3. CASE PushTail(t)
  <2>1. WholeOK' /\ Contents' = Append(Contents, data[tail])
    BY <1>3, TailList
  <2>2. data[tail] \in Values
    BY <1>3 DEF PushTail, DataOK
  <2>3. Result(t)' = Result(t)
    BY <1>3 DEF PushTail, Goto, Result, IInv, TypeOK
  <2> QED
    BY <1>1, <1>2, <2>1, <2>2, <2>3 DEF FifoStep
<1>4. CASE Detach(t)
  <2>1. WholeOK' /\ Contents # <<>> /\ data[head] = Head(Contents) /\ Contents' = Tail(Contents)
    BY <1>4, HeadList
  <2>2. Result(t)' = data[head]
    <3>1. /\ pc[t] = "detach" /\ node'[t] = head /\ data' = data /\ call' = call /\ val' = val
          /\ \/ call[t] \in {"try", "wait"} /\ pc'[t] = "read_data"
             \/ call[t] \in ByReference /\ pc'[t] = "free" /\ val[t] = data[head]
      BY <1>4 DEF Detach, Goto, IInv, TypeOK, CallOK, DataOK, Pops, ByReference
    <3>2. data[head] # DefaultValue
      BY TwoLockAssumption DEF IInv, TypeOK
    <3> QED
      BY <3>1, <3>2 DEF Result, ByReference
  <2> QED
    BY <1>1, <2>1, <2>2 DEF FifoStep, FifoPop
<1>5. CASE ~PushTail(t) /\ ~Detach(t)
  <2>1. SameList
    BY <1>5, QuietLists DEF PushStep, PopStep
  <2>2. WholeOK' /\ Contents' = Contents
    BY <2>1, SameContents DEF IInv
  <2>3. Result(t)' = Result(t) \/ Result(t)' = NoValue
    BY <1>5, OwnResult
  <2> QED
    BY <1>1, <1>2, <2>2, <2>3 DEF FifoStep, FifoReturn
<1> QED
  BY <1>3, <1>4, <1>5

\* So do the waiting pops.
LEMMA FifoWait ==
  ASSUME WaitIInv, QueueInv, WaitIInv', NEW t \in Threads,
         \/ \E op \in {"try_ref", "wait", "wait_ref"} : CallPop(t, op)
         \/ Block(t) \/ MoveValue(t) \/ PushNotify(t) \/ SpuriousWakeup(t)
  PROVE  WholeOK' /\ FifoStep
<1>1. WholeOK' /\ Contents' = Contents
  BY WaitLists, SameContents DEF QueueInv, IInv, WaitIInv
<1>2. ASSUME NEW u \in Threads PROVE Result(u)' = Result(u)
  <2>1. CASE \E op \in {"try_ref", "wait", "wait_ref"} : CallPop(t, op)
    <3>1. /\ data' = data /\ val' = val /\ node' = node /\ pc[t] = "idle" /\ pc'[t] = "lock_head"
          /\ u # t => pc'[u] = pc[u] /\ call'[u] = call[u]
      BY <2>1 DEF CallPop, Goto, heap, WaitIInv, IInv, TypeOK
    <3> QED
      BY <3>1 DEF Result
  <2>2. CASE Block(t) \/ SpuriousWakeup(t)
    <3>1. /\ data' = data /\ val' = val /\ node' = node /\ call' = call
          /\ u # t => pc'[u] = pc[u]
          /\ pc[t] \in {"test", "blocked"} /\ pc'[t] \in {"blocked", "lock_head"}
      BY <2>2 DEF Block, SpuriousWakeup, Goto, heap, locals, WaitIInv, IInv, TypeOK
    <3> QED
      BY <3>1 DEF Result
  <2>3. CASE MoveValue(t)
    <3>1. /\ data' = data /\ node' = node /\ call' = call
          /\ u # t => pc'[u] = pc[u] /\ val'[u] = val[u]
          /\ pc[t] = "move_value" /\ pc'[t] = "detach" /\ call[t] \in ByReference
      BY <2>3 DEF MoveValue, Goto, heap, WaitIInv, IInv, TypeOK, QueueInv, CallOK
    <3> QED
      BY <3>1 DEF Result, ByReference
  <2>4. CASE PushNotify(t)
    <3>1. /\ data' = data /\ val' = val /\ node' = node
          /\ u # t => call'[u] = call[u]
          /\ \/ u # t /\ pc'[u] = pc[u]
             \/ pc[u] \in {"push_notify", "blocked"} /\ pc'[u] \in {"idle", "lock_head"}
      BY <2>4 DEF PushNotify, Goto, heap, WaitIInv, IInv, TypeOK
    <3> QED
      BY <3>1 DEF Result
  <2> QED
    BY <2>1, <2>2, <2>3, <2>4
<1> QED
  BY <1>1, <1>2 DEF FifoStep, GotBut

\* A step of neither keeps what both are about.
LEMMA QueueStutter ==
  ASSUME QueueInv, UNCHANGED queueVars
  PROVE  QueueInv' /\ FifoStep
<1>1. IInv' /\ SameList
  BY StutterIInv DEF QueueInv, SameList, Public, Private, queueVars, heap, ends, locals
<1>2. WholeOK' /\ Contents' = Contents
  BY <1>1, SameContents DEF QueueInv, IInv
<1>3. CallOK' /\ DataOK' /\ \A u \in Threads : Result(u)' = Result(u)
  BY DEF QueueInv, CallOK, DataOK, Result, queueVars, heap, ends, locals
<1> QED
  BY <1>1, <1>2, <1>3 DEF QueueInv, FifoStep, GotBut

\* An empty queue satisfies the invariant, and is an empty channel.
LEMMA QueueStart ==
  ASSUME Init
  PROVE  QueueInv /\ Channel!Init
<1>1. IInv
  BY InitIInv
<1>2. PICK dummy \in Nodes : head = dummy /\ tail = dummy /\ allocated = {dummy}
                             /\ next = [n \in Nodes |-> Null]
  BY DEF Init
<1>3. PICK s : Segment(next, dummy, dummy, 0, s)
  BY SegmentNone
<1>4. Places(0, s) = {}
  <2>1. 1 .. 0 = {}
    OBVIOUS
  <2> QED
    BY <2>1 DEF Places
<1>5. Between(0, s)
  <2>1. \A t \in Threads : Private(t) = {}
    BY DEF Init, Private
  <2>2. \A n \in Nodes : Public(n) <=> n = dummy
    BY <1>2, <2>1 DEF Public
  <2> QED
    BY <1>2, <1>3, <1>4, <2>2 DEF Between
<1>6. Contents = <<>>
  <2>1. Contents = Shown(data, 0, s)
    BY <1>1, <1>5, ContentsAre DEF IInv
  <2> QED
    BY <2>1, ShownNone
<1>7. CallOK /\ DataOK
  BY DEF Init, CallOK, DataOK
<1>8. \A t \in Threads : Result(t) = NoValue
  BY DEF Init, Result
<1>9. WholeOK
  BY <1>5 DEF WholeOK
<1> QED
  BY <1>1, <1>6, <1>7, <1>8, <1>9 DEF QueueInv, Channel!Init

\* A step of the abstract queue, in the words of FifoChannel.
LEMMA FifoMap ==
  ASSUME FifoStep
  PROVE  [Channel!Next]_Channel!vars
<1> DEFINE got == [u \in Threads |-> Result(u)]
<1>1. CASE Contents' = Contents /\ GotBut({})
  <2>1. got' = got
    BY <1>1 DEF GotBut
  <2> QED
    BY <1>1, <2>1 DEF Channel!vars
<1>2. ASSUME NEW v \in Values, Contents' = Append(Contents, v), GotBut({}) PROVE Channel!Next
  <2>1. got' = got
    BY <1>2 DEF GotBut
  <2> QED
    BY <1>2, <2>1 DEF Channel!Next, Channel!Push
<1>3. ASSUME NEW t \in Threads, FifoPop(t) PROVE Channel!Next
  <2>1. got' = [got EXCEPT ![t] = Head(Contents)]
    BY <1>3 DEF FifoPop, GotBut
  <2> QED
    BY <1>3, <2>1 DEF FifoPop, Channel!Next, Channel!Pop
<1>4. ASSUME NEW t \in Threads, FifoReturn(t) PROVE Channel!Next
  <2>1. got' = [got EXCEPT ![t] = NoValue]
    BY <1>4 DEF FifoReturn, GotBut
  <2> QED
    BY <1>4, <2>1 DEF FifoReturn, Channel!Next, Channel!Return
<1> QED
  BY <1>1, <1>2, <1>3, <1>4 DEF FifoStep

\* Every step of p236 ...
LEMMA QueueStep ==
  ASSUME QueueInv, [Next]_queueVars
  PROVE  QueueInv' /\ FifoStep
<1>1. ASSUME NEW t \in Threads,
             (\E v \in Values : CallPush(t, v)) \/ CallTryPop(t) \/ PushStep(t) \/ PopStep(t)
      PROVE  QueueInv' /\ FifoStep
  <2>1. IInv' /\ CallOK' /\ DataOK'
    BY <1>1, StepIInv, StepCalls, StepValues DEF QueueInv
  <2> QED
    BY <1>1, <2>1, FifoList DEF QueueInv
<1> QED
  BY <1>1, QueueStutter DEF Next

\* ... and of p241 is one.
LEMMA WaitQueueStep ==
  ASSUME WaitIInv, QueueInv, WaitIInv', [WaitNext]_vars
  PROVE  QueueInv' /\ FifoStep
<1>1. ASSUME NEW t \in Threads,
             \/ \E op \in {"try_ref", "wait", "wait_ref"} : CallPop(t, op)
             \/ Block(t) \/ MoveValue(t) \/ PushNotify(t) \/ SpuriousWakeup(t)
      PROVE  QueueInv' /\ FifoStep
  <2>1. IInv' /\ CallOK' /\ DataOK'
    BY <1>1, WaitCalls, WaitValues DEF QueueInv, WaitIInv
  <2> QED
    BY <1>1, <2>1, FifoWait DEF QueueInv
<1>2. ASSUME Next \/ UNCHANGED queueVars PROVE QueueInv' /\ FifoStep
  BY <1>2, QueueStep
<1>3. WaitNext \/ UNCHANGED vars
  OBVIOUS
<1> QED
  BY <1>1, <1>2, <1>3 DEF WaitNext, WaitStep, Next, vars, queueVars

\* The list of p236 stays whole: the tail can be reached, every live node is in the
\* list or in the hands of one thread, and of one only (p236:15).
THEOREM ListStaysWhole == Spec => []ListIsWhole
<1>1. Init => QueueInv
  BY QueueStart
<1>2. QueueInv /\ [Next]_queueVars => QueueInv'
  BY QueueStep
<1>3. QueueInv => ListIsWhole
  BY WholeIs DEF QueueInv
<1> QED
  BY <1>1, <1>2, <1>3, PTL DEF Spec

\* So does that of p241.
THEOREM WaitListStaysWhole == WaitSpec => []ListIsWhole
<1>1. WaitInit => QueueInv
  BY QueueStart DEF WaitInit
<1>2. WaitIInv /\ QueueInv /\ WaitIInv' /\ [WaitNext]_vars => QueueInv'
  BY WaitQueueStep
<1>3. QueueInv => ListIsWhole
  BY WholeIs DEF QueueInv
<1> QED
  BY <1>1, <1>2, <1>3, WaitInvariant, PTL DEF WaitSpec

\* The queue of p236 is a FIFO channel: every push and every try_pop takes effect at one
\* instant, although the two ends exclude each other only while get_tail() runs.
THEOREM QueueIsAChannel == Spec => ImplementsChannel
<1>1. Init => QueueInv /\ Channel!Init
  BY QueueStart
<1>2. QueueInv /\ [Next]_queueVars => QueueInv' /\ FifoStep
  BY QueueStep
<1>3. FifoStep => [Channel!Next]_Channel!vars
  BY FifoMap
<1> QED
  BY <1>1, <1>2, <1>3, PTL DEF Spec, ImplementsChannel, Channel!Spec

\* So is that of p241, with pops that wait and pops that move the value out under the
\* head lock.
THEOREM WaitQueueIsAChannel == WaitSpec => ImplementsChannel
<1>1. WaitInit => QueueInv /\ Channel!Init
  BY QueueStart DEF WaitInit
<1>2. WaitIInv /\ QueueInv /\ WaitIInv' /\ [WaitNext]_vars => QueueInv' /\ FifoStep
  BY WaitQueueStep
<1>3. FifoStep => [Channel!Next]_Channel!vars
  BY FifoMap
<1> QED
  BY <1>1, <1>2, <1>3, WaitInvariant, PTL DEF WaitSpec, ImplementsChannel, Channel!Spec
===============================================================================
