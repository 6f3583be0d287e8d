------------------------------- MODULE LockedList -------------------------------
(***************************************************************************)
(* The list of p254: singly linked nodes with a mutex each, behind a head  *)
(* node that holds no data.  A traversal locks the next node before it     *)
(* lets go of the one it stands on, so that no other traversal overtakes   *)
(* it; remove_if keeps both locks while it unlinks a node, and destroys    *)
(* the node, its mutex included, right after it has released it.           *)
(*                                                                         *)
(* Fields of nodes are ordinary memory; addresses are used again.          *)
(***************************************************************************)
EXTENDS LinkedLists, Filters

CONSTANTS Threads,    \* the threads that share the list
          Values,     \* the values in it
          Image,      \* what the function given to for_each makes of a value
          Nodes,      \* bound: the addresses the allocator may hand out
          HeadNode,   \* the address of _head
          Null,       \* the null pointer
          NoThread,   \* the owner of a free mutex
          NoValue,    \* the argument of for_each, the data of _head
          MaxCalls    \* bound: how many calls are made

ASSUME LockedListAssumption ==
    /\ HeadNode \notin Nodes
    /\ Null \notin Nodes \cup {HeadNode}
    /\ NoThread \notin Threads
    /\ NoValue \notin Values
    /\ Image \in [Values -> Values]
    /\ MaxCalls \in Nat
    /\ IsFiniteSet(Nodes)

VARIABLES allocated,   \* the addresses of live nodes
          data,        \* *Node::_data
          next,        \* Node::_next
          owner,       \* the holder of Node::_mutex
          pc,          \* what each thread does next
          call, arg,   \* the operation a thread is in and the value it is about
          current,     \* the node it stands on; new_node in push_front
          ahead,       \* next, and old_next in remove_if
          answer,      \* what find_first_if is going to return
          budget       \* calls left

heap == <<allocated, data, next>>
request == <<call, arg>>
place == <<current, ahead>>
vars == <<heap, owner, pc, request, place, answer, budget>>

Goto(t, l) == pc' = [pc EXCEPT ![t] = l]

Init == /\ allocated = {HeadNode}
        /\ data = [n \in Nodes \cup {HeadNode} |-> NoValue]
        /\ next = [n \in Nodes \cup {HeadNode} |-> Null]
        /\ owner = [n \in Nodes \cup {HeadNode} |-> NoThread]
        /\ pc = [t \in Threads |-> "idle"]
        /\ call = [t \in Threads |-> "none"]
        /\ arg = [t \in Threads |-> NoValue]
        /\ current = [t \in Threads |-> Null]
        /\ ahead = [t \in Threads |-> Null]
        /\ answer = [t \in Threads |-> "none"]
        /\ budget = MaxCalls
-------------------------------------------------------------------------------
(* Calls and locks. *)

Call(t, op, v) == /\ pc[t] = "idle"
                  /\ budget > 0
                  /\ budget' = budget - 1
                  /\ call' = [call EXCEPT ![t] = op]
                  /\ arg' = [arg EXCEPT ![t] = v]

\* push_front makes its node before it takes a lock.
CallPushFront(t) == \E v \in Values, n \in Nodes \ allocated :
                       /\ Call(t, "push_front", v)
                       /\ allocated' = allocated \cup {n}
                       /\ data' = [data EXCEPT ![n] = v]
                       /\ next' = [next EXCEPT ![n] = Null]
                       /\ current' = [current EXCEPT ![t] = n]
                       /\ Goto(t, "lock_head")
                       /\ UNCHANGED <<owner, ahead, answer>>

CallTraversal(t) == /\ \/ Call(t, "for_each", NoValue)
                       \/ \E v \in Values : Call(t, "find_first_if", v)
                       \/ \E v \in Values : Call(t, "remove_if", v)
                    /\ current' = [current EXCEPT ![t] = HeadNode]
                    /\ Goto(t, "lock_head")
                    /\ UNCHANGED <<heap, owner, ahead, answer>>

LockHead(t) == /\ pc[t] = "lock_head"
               /\ owner[HeadNode] = NoThread
               /\ owner' = [owner EXCEPT ![HeadNode] = t]
               /\ Goto(t, IF call[t] = "push_front" THEN "link" ELSE "look")
               /\ UNCHANGED <<heap, request, place, answer, budget>>

\* new_node->_next = move(_head._next) and _head._next = move(new_node).
Link(t) == /\ pc[t] = "link"
           /\ next' = [next EXCEPT ![current[t]] = next[HeadNode], ![HeadNode] = current[t]]
           /\ current' = [current EXCEPT ![t] = HeadNode]
           /\ Goto(t, "unlock")
           /\ UNCHANGED <<allocated, data, owner, request, ahead, answer, budget>>

\* The last lock goes out of scope and the operation returns.
Unlock(t) == /\ pc[t] = "unlock"
             /\ owner' = [owner EXCEPT ![current[t]] = NoThread]
             /\ call' = [call EXCEPT ![t] = "none"]
             /\ arg' = [arg EXCEPT ![t] = NoValue]
             /\ current' = [current EXCEPT ![t] = Null]
             /\ ahead' = [ahead EXCEPT ![t] = Null]
             /\ Goto(t, IF call[t] = "find_first_if" THEN "return" ELSE "idle")
             /\ UNCHANGED <<heap, answer, budget>>

Return(t) == /\ pc[t] = "return"
             /\ answer' = [answer EXCEPT ![t] = "none"]
             /\ Goto(t, "idle")
             /\ UNCHANGED <<heap, owner, request, place, budget>>
-------------------------------------------------------------------------------
(* Traversals. *)

\* Seeded fault: the node is let go before the next one is locked.
Look_LetsGo(t) ==
    /\ pc[t] = "look"
    /\ \/ /\ next[current[t]] # Null
          /\ ahead' = [ahead EXCEPT ![t] = next[current[t]]]
          /\ owner' = [owner EXCEPT ![current[t]] = NoThread]
          /\ Goto(t, "lock_next")
          /\ UNCHANGED answer
       \/ /\ next[current[t]] = Null
          /\ answer' = [answer EXCEPT ![t] = IF call[t] = "find_first_if" THEN "no" ELSE @]
          /\ Goto(t, "unlock")
          /\ UNCHANGED <<ahead, owner>>
    /\ UNCHANGED <<heap, request, current, budget>>

\* The condition of the loop.
Look(t) ==
    /\ pc[t] = "look"
    /\ \/ /\ next[current[t]] # Null
          /\ ahead' = [ahead EXCEPT ![t] = next[current[t]]]
          /\ Goto(t, "lock_next")
          /\ UNCHANGED answer
       \/ /\ next[current[t]] = Null
          /\ answer' = [answer EXCEPT ![t] = IF call[t] = "find_first_if" THEN "no" ELSE @]
          /\ Goto(t, "unlock")
          /\ UNCHANGED ahead
    /\ UNCHANGED <<heap, owner, request, current, budget>>

\* Seeded fault: the next node's lock is not waited for.
LockNext_Blind(t) ==
    /\ pc[t] = "lock_next"
    /\ owner' = [owner EXCEPT ![ahead[t]] = t]
    /\ Goto(t, IF call[t] = "remove_if" THEN "test" ELSE "release")
    /\ UNCHANGED <<heap, request, place, answer, budget>>

LockNext(t) ==
    /\ pc[t] = "lock_next"
    /\ owner[ahead[t]] = NoThread
    /\ owner' = [owner EXCEPT ![ahead[t]] = t]
    /\ Goto(t, IF call[t] = "remove_if" THEN "test" ELSE "release")
    /\ UNCHANGED <<heap, request, place, answer, budget>>

StepAhead(t) == current' = [current EXCEPT ![t] = ahead[t]]

\* cur_lock.unlock(), before the data is looked at in for_each and find_first_if
\* and after that in remove_if.
Release(t) ==
    /\ pc[t] = "release"
    /\ owner' = [owner EXCEPT ![current[t]] = NoThread]
    /\ \/ call[t] = "remove_if" /\ StepAhead(t) /\ Goto(t, "look")
       \/ call[t] # "remove_if" /\ UNCHANGED current /\ Goto(t, "visit")
    /\ UNCHANGED <<heap, request, ahead, answer, budget>>

\* f(*next->_data)
Visit(t) == /\ pc[t] = "visit"
            /\ call[t] = "for_each"
            /\ data' = [data EXCEPT ![ahead[t]] = Image[@]]
            /\ StepAhead(t)
            /\ Goto(t, "look")
            /\ UNCHANGED <<allocated, next, owner, request, ahead, answer, budget>>

\* p(*next->_data) in find_first_if.
Try(t) == /\ pc[t] = "visit"
          /\ call[t] = "find_first_if"
          /\ StepAhead(t)
          /\ \/ /\ data[ahead[t]] = arg[t]
                /\ answer' = [answer EXCEPT ![t] = "yes"]
                /\ Goto(t, "unlock")
             \/ /\ data[ahead[t]] # arg[t]
                /\ Goto(t, "look")
                /\ UNCHANGED answer
          /\ UNCHANGED <<heap, owner, request, ahead, budget>>

\* p(*next->_data) in remove_if.
Test(t) == /\ pc[t] = "test"
           /\ Goto(t, IF data[ahead[t]] = arg[t] THEN "unlink" ELSE "release")
           /\ UNCHANGED <<heap, owner, request, place, answer, budget>>

Unlink(t) == /\ pc[t] = "unlink"
             /\ next' = [next EXCEPT ![current[t]] = next[ahead[t]], ![ahead[t]] = Null]
             /\ Goto(t, "unlock_next")
             /\ UNCHANGED <<allocated, data, owner, request, place, answer, budget>>

\* Seeded fault: the node is destroyed with its mutex locked.
UnlockNext_Skipped(t) == /\ pc[t] = "unlock_next"
                         /\ Goto(t, "free")
                         /\ UNCHANGED <<heap, owner, request, place, answer, budget>>

UnlockNext(t) == /\ pc[t] = "unlock_next"
                 /\ owner' = [owner EXCEPT ![ahead[t]] = NoThread]
                 /\ Goto(t, "free")
                 /\ UNCHANGED <<heap, request, place, answer, budget>>

\* Seeded fault: after a removal the loop goes on from the next node.
Free_StepsAhead(t) == /\ pc[t] = "free"
                      /\ allocated' = allocated \ {ahead[t]}
                      /\ next[current[t]] # Null
                      /\ owner[next[current[t]]] = NoThread
                      /\ owner' = [owner EXCEPT ![current[t]] = NoThread,
                                                ![next[current[t]]] = t]
                      /\ current' = [current EXCEPT ![t] = next[current[t]]]
                      /\ Goto(t, "look")
                      /\ UNCHANGED <<data, next, request, ahead, answer, budget>>

\* old_next goes out of scope: the node, its data and its mutex are destroyed.
Free(t) == /\ pc[t] = "free"
           /\ allocated' = allocated \ {ahead[t]}
           /\ Goto(t, "look")
           /\ UNCHANGED <<data, next, owner, request, place, answer, budget>>
-------------------------------------------------------------------------------
Step(t) == \/ LockHead(t)
           \/ Link(t)
           \/ Unlock(t)
           \/ Return(t)
           \/ Look(t)
           \/ LockNext(t)
           \/ Release(t)
           \/ Visit(t)
           \/ Try(t)
           \/ Test(t)
           \/ Unlink(t)
           \/ UnlockNext(t)
           \/ Free(t)

Next == \E t \in Threads : CallPushFront(t) \/ CallTraversal(t) \/ Step(t)

Spec == Init /\ [][Next]_vars
-------------------------------------------------------------------------------
(* Properties. *)

\* The labels at which a thread holds the lock of the node it stands on, and at
\* which it holds the lock of the next one.
HoldsCurrent == {"look", "lock_next", "release", "test", "unlink", "unlock_next", "free",
                 "unlock"}
HoldsAhead   == {"release", "visit", "test", "unlink", "unlock_next"}

Held(t) == (IF pc[t] \in HoldsCurrent THEN {current[t]} ELSE {})
           \cup (IF pc[t] \in HoldsAhead THEN {ahead[t]} ELSE {})
           \cup (IF pc[t] = "link" THEN {HeadNode} ELSE {})

\* The k-th node of the list; the 0th is _head.
Walk == Path(next, Null, HeadNode)
Chain == NodesFrom(next, Null, HeadNode)
Position(n) == CHOOSE k \in DOMAIN Walk : Walk[k] = n

\* The node that only thread t can reach: not linked yet, or unlinked.
Private(t) == IF call[t] = "push_front" /\ pc[t] \in {"lock_head", "link"} THEN {current[t]}
              ELSE IF pc[t] \in {"unlock_next", "free"} THEN {ahead[t]} ELSE {}

\* Every variable has its type, a thread holds the locks it should and no others,
\* so that at most two at a time (p254:48, p254:79), and every live node is in the
\* list or in one thread's hands (the unique_ptr links of p254:15).
TypeOK ==
    /\ allocated \subseteq Nodes \cup {HeadNode}
    /\ data \in [Nodes \cup {HeadNode} -> Values \cup {NoValue}]
    /\ next \in [Nodes \cup {HeadNode} -> Nodes \cup {Null}]
    /\ owner \in [Nodes \cup {HeadNode} -> Threads \cup {NoThread}]
    /\ answer \in [Threads -> {"none", "yes", "no"}]
    /\ budget \in 0 .. MaxCalls
    /\ \A n \in Nodes \cup {HeadNode}, t \in Threads : owner[n] = t <=> n \in Held(t)
    /\ allocated = Chain \cup UNION {Private(t) : t \in Threads}
    /\ \A t, u \in Threads : /\ Private(t) \cap Chain = {}
                             /\ t # u => Private(t) \cap Private(u) = {}

\* The parts of nodes that the next step of t reads and writes; "mutex" stands
\* for an operation on the lock, which only the end of the node's life disturbs.
Reads(t) ==
    CASE pc[t] = "look" -> {<<current[t], "next">>}
      [] pc[t] = "link" -> {<<HeadNode, "next">>}
      [] pc[t] \in {"lock_next", "unlock_next"} -> {<<ahead[t], "mutex">>}
      [] pc[t] \in {"release", "unlock"} -> {<<current[t], "mutex">>}
      [] pc[t] \in {"visit", "test"} -> {<<ahead[t], "data">>}
      [] pc[t] = "unlink" -> {<<current[t], "next">>, <<ahead[t], "next">>}
      [] OTHER -> {}
Writes(t) ==
    CASE pc[t] = "link" -> {<<HeadNode, "next">>, <<current[t], "next">>}
      [] pc[t] = "visit" /\ call[t] = "for_each" -> {<<ahead[t], "data">>}
      [] pc[t] = "unlink" -> {<<current[t], "next">>, <<ahead[t], "next">>}
      [] pc[t] = "free" -> {ahead[t]} \X {"next", "data", "mutex"}
      [] OTHER -> {}

\* No thread is about to touch a node, or to lock or unlock its mutex, after the
\* node was destroyed, although remove_if destroys it unlocked (p254:84).
NoUseAfterFree == \A t \in Threads : \A x \in Reads(t) \cup Writes(t) : x[1] \in allocated

\* No two threads are about to touch the same part of a node with one of them
\* changing or destroying it, although between two locks of a traversal other
\* threads change the list before and behind it.
NoDataRace == \A t, u \in Threads : t # u => Writes(t) \cap (Reads(u) \cup Writes(u)) = {}

\* How far a traversal has come: twice the position of the node it stands on,
\* and one more once it has let go of that node without having looked at the next.
Traversing(t) == call[t] \in {"for_each", "find_first_if", "remove_if"}
                 /\ pc[t] \notin {"lock_head", "unlock"}
Reached(t) == IF pc[t] = "visit" THEN 2 * Position(ahead[t]) - 1 ELSE 2 * Position(current[t])

\* What a traversal makes of a value; NoValue for one that is removed.
Effect(t, v) == IF v = NoValue THEN NoValue
                ELSE CASE call[t] = "for_each" -> Image[v]
                       [] call[t] = "remove_if" /\ v = arg[t] -> NoValue
                       [] OTHER -> v

\* What the value at position i will be once the traversals that have come at
\* least as far as q have passed it, the foremost first.
Later(i) == LET V[q \in 0 .. 2 * i] ==
                  IF q = 2 * i THEN data[Walk[i]]
                  ELSE IF \E t \in Threads : Traversing(t) /\ Reached(t) = q
                  THEN Effect(CHOOSE t \in Threads : Traversing(t) /\ Reached(t) = q, V[q + 1])
                  ELSE V[q + 1]
            IN  V

Positions == 1 .. Cardinality(Chain) - 1

Items == Without([i \in Positions |-> Later(i)[0]], NoValue)

\* What a search is going to find.
Outcome(t) ==
    IF call[t] = "find_first_if" /\ Traversing(t)
    THEN IF \E i \in Positions : 2 * i > Reached(t) /\ Later(i)[Reached(t) + 1] = arg[t]
         THEN "yes" ELSE "no"
    ELSE answer[t]

\* Every operation takes effect at the instant it locks _head: no traversal ever
\* overtakes another, so for_each, find_first_if and remove_if work on the list
\* as it was when they started, whatever is pushed and removed meanwhile.
Whole == INSTANCE AtomicList WITH
             items <- Items,
             found <- [t \in Threads |-> Outcome(t)]
ListIsAtomic == Whole!Spec
===============================================================================
