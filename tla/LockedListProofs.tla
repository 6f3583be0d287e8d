---------------------------- MODULE LockedListProofs ----------------------------
(***************************************************************************)
(* Proofs about the list with a lock per node, for every set of threads    *)
(* and values and every finite set of nodes: no thread touches a node, or  *)
(* its mutex, after the node was destroyed, no two threads touch the same  *)
(* field, every live node is in the list or in one thread's hands, and the *)
(* list implements the abstract one, whose operations are atomic.          *)
(*                                                                         *)
(* The argument is local.  A node has one predecessor, and to come to a    *)
(* node a traversal needs the lock of that predecessor: who holds the      *)
(* locks of a node and of its predecessor is alone with it.                *)
(*                                                                         *)
(* Atomicity is about all traversals at once: the values of the abstract   *)
(* list are what is left of the real ones when every traversal under way   *)
(* has passed them, the foremost first.  A value comes down to it from its *)
(* place, through what is done at the traversals; a step of one traversal  *)
(* changes this at places where no other traversal is.                     *)
(***************************************************************************)
EXTENDS LockedList, LinkedListProofs

Cells == Nodes \cup {HeadNode}

Labels == {"idle", "lock_head", "link", "unlock", "return", "look", "lock_next", "release",
           "visit", "test", "unlink", "unlock_next", "free"}

\* The types the argument needs.
Types == /\ allocated \subseteq Cells
         /\ next \in [Cells -> Nodes \cup {Null}]
         /\ owner \in [Cells -> Threads \cup {NoThread}]
         /\ pc \in [Threads -> Labels]
         /\ DOMAIN call = Threads
         /\ current \in [Threads -> Cells \cup {Null}]
         /\ ahead \in [Threads -> Cells \cup {Null}]

\* Links lead to live nodes, and no two of them to the same.
LinksOK == /\ HeadNode \in allocated
           /\ \A m \in allocated : next[m] # Null => next[m] \in allocated
           /\ \A m, n \in allocated : next[m] = next[n] /\ next[m] # Null => m = n

\* No link leads to a node that is in one thread's hands.
PrivateOK == \A t \in Threads : \A n \in Private(t) :
    /\ n \in allocated \cap Nodes
    /\ \A m \in allocated : next[m] # n
    /\ \A u \in Threads \ {t} : n \notin Private(u)

\* A node that is not in one thread's hands.
Public(n) == n \in allocated /\ \A t \in Threads : n \notin Private(t)

\* The locks a thread has and where it stands.
LocksOK == \A t \in Threads :
    /\ pc[t] \in HoldsCurrent => owner[current[t]] = t /\ Public(current[t])
    /\ pc[t] \in HoldsAhead => owner[ahead[t]] = t /\ ahead[t] \in allocated \cap Nodes
    /\ pc[t] \in HoldsAhead \ {"unlock_next"} => Public(ahead[t])
    /\ pc[t] \in {"lock_next", "release", "test", "unlink"} =>
          ahead[t] = next[current[t]] /\ ahead[t] # Null
    /\ pc[t] \in HoldsAhead \ {"visit"} => current[t] # ahead[t]
    /\ pc[t] = "link" => owner[HeadNode] = t /\ call[t] = "push_front"
    /\ pc[t] = "lock_head" /\ call[t] # "push_front" => current[t] = HeadNode

\* The inductive invariant.
IInv == Types /\ LinksOK /\ PrivateOK /\ LocksOK
-------------------------------------------------------------------------------
\* An empty list satisfies the invariant.
LEMMA InitIInv == Init => IInv
<1> SUFFICES ASSUME Init PROVE IInv
  OBVIOUS
<1> USE LockedListAssumption
<1>1. Types
  BY DEF Init, Types, Cells, Labels
<1>2. LinksOK
  BY DEF Init, LinksOK
<1>3. PrivateOK
  BY DEF Init, PrivateOK, Private
<1>4. LocksOK
  BY DEF Init, LocksOK, HoldsCurrent, HoldsAhead
<1> QED
  BY <1>1, <1>2, <1>3, <1>4 DEF IInv

\* A step of t that leaves the nodes alone, and the locks of other threads, and
\* puts no node in its hands, leaves the invariant with its own part to show.
LEMMA FrameIInv ==
  ASSUME IInv, Types', NEW t \in Threads, allocated' = allocated, next' = next,
         Private(t)' \subseteq Private(t),
         \A u \in Threads \ {t} : /\ pc'[u] = pc[u] /\ call'[u] = call[u]
                                  /\ current'[u] = current[u] /\ ahead'[u] = ahead[u],
         \A u \in Threads \ {t} : \A n \in Cells : owner[n] = u => owner'[n] = u,
         \* LocksOK for t:
         pc'[t] \in HoldsCurrent => owner'[current'[t]] = t /\ Public(current'[t]),
         pc'[t] \in HoldsAhead => owner'[ahead'[t]] = t /\ ahead'[t] \in allocated \cap Nodes,
         pc'[t] \in HoldsAhead \ {"unlock_next"} => Public(ahead'[t]),
         pc'[t] \in {"lock_next", "release", "test", "unlink"} =>
            ahead'[t] = next[current'[t]] /\ ahead'[t] # Null,
         pc'[t] \in HoldsAhead \ {"visit"} => current'[t] # ahead'[t],
         pc'[t] = "link" => owner'[HeadNode] = t /\ call'[t] = "push_front",
         pc'[t] = "lock_head" /\ call'[t] # "push_front" => current'[t] = HeadNode
  PROVE  IInv'
<1>1. \A u \in Threads : Private(u)' \subseteq Private(u)
  BY DEF Private
<1>2. LinksOK'
  BY DEF IInv, LinksOK
<1>3. PrivateOK'
  BY <1>1 DEF IInv, PrivateOK
<1>4. \A n : Public(n) => Public(n)'
  BY <1>1 DEF Public
<1>5. \A u \in Threads \ {t} :
         /\ pc[u] \in HoldsCurrent => current[u] \in Cells
         /\ pc[u] \in HoldsAhead => ahead[u] \in Cells
         /\ HeadNode \in Cells
  BY DEF IInv, Types, LocksOK, HoldsAhead, Public, Cells
<1>6. LocksOK'
  BY <1>4, <1>5 DEF IInv, LocksOK
<1> QED
  BY <1>2, <1>3, <1>6 DEF IInv

\* The node a thread is about to lock is in nobody's hands, and not the head.
LEMMA NextIsPublic ==
  ASSUME IInv, NEW t \in Threads, pc[t] = "lock_next"
  PROVE  Public(ahead[t]) /\ ahead[t] \in Nodes
<1>1. owner[current[t]] = t /\ Public(current[t]) /\ ahead[t] = next[current[t]] /\ ahead[t] # Null
  BY DEF IInv, LocksOK, HoldsCurrent, HoldsAhead
<1>2. ahead[t] \in allocated /\ ahead[t] \in Nodes
  BY <1>1 DEF IInv, Types, LinksOK, Public
<1>3. \A u \in Threads : ahead[t] \notin Private(u)
  BY <1>1 DEF IInv, PrivateOK, Public
<1> QED
  BY <1>2, <1>3 DEF Public

\* The steps that only take and release locks, look at nodes and change data.
LEMMA QuietIInv ==
  ASSUME IInv, NEW t \in Threads,
         \/ CallTraversal(t) \/ LockHead(t) \/ Unlock(t) \/ Return(t) \/ Look(t) \/ LockNext(t)
         \/ Release(t) \/ Visit(t) \/ Try(t) \/ Test(t) \/ UnlockNext(t)
  PROVE  IInv'
<1> USE LockedListAssumption DEF Goto, heap, request, place
<1>1. CASE CallTraversal(t)
  <2>1. PICK op \in {"for_each", "find_first_if", "remove_if"}, v \in Values \cup {NoValue} :
            Call(t, op, v)
    BY <1>1 DEF CallTraversal
  <2>2. /\ current' = [current EXCEPT ![t] = HeadNode] /\ pc' = [pc EXCEPT ![t] = "lock_head"]
        /\ call' = [call EXCEPT ![t] = op] /\ pc[t] = "idle"
        /\ UNCHANGED <<heap, owner, ahead>>
    BY <1>1, <2>1 DEF CallTraversal, Call
  <2>3. Types'
    BY <2>2 DEF IInv, Types, Labels, Cells
  <2>4. Private(t)' \subseteq Private(t)
    BY <2>2 DEF IInv, Types, Private
  <2> QED
    BY <2>2, <2>3, <2>4, FrameIInv DEF IInv, Types, HoldsCurrent, HoldsAhead
<1>2. CASE LockHead(t)
  <2>1. Types' /\ Private(t)' \subseteq Private(t)
    BY <1>2 DEF LockHead, IInv, Types, Labels, Cells, Private
  <2>2. Public(HeadNode)
    BY DEF IInv, LinksOK, PrivateOK, Public
  <2> QED
    BY <1>2, <2>1, <2>2, FrameIInv DEF LockHead, IInv, Types, LocksOK, HoldsCurrent, HoldsAhead, Cells
<1>3. CASE Unlock(t)
  <2>1. Types' /\ Private(t)' \subseteq Private(t)
    BY <1>3 DEF Unlock, IInv, Types, Labels, Cells, Private
  <2>2. \A u \in Threads \ {t} : \A n \in Cells : owner[n] = u => owner'[n] = u
    BY <1>3 DEF Unlock, IInv, Types, LocksOK, HoldsCurrent, HoldsAhead
  <2> QED
    BY <1>3, <2>1, <2>2, FrameIInv DEF Unlock, IInv, Types, HoldsCurrent, HoldsAhead
<1>4. CASE Return(t)
  <2>1. Types' /\ Private(t)' \subseteq Private(t)
    BY <1>4 DEF Return, IInv, Types, Labels, Cells, Private
  <2> QED
    BY <1>4, <2>1, FrameIInv DEF Return, IInv, Types, HoldsCurrent, HoldsAhead
<1>5. CASE Look(t)
  <2>1. Public(current[t]) /\ owner[current[t]] = t /\ current[t] \in Cells
    BY <1>5 DEF Look, IInv, Types, LocksOK, HoldsCurrent, HoldsAhead, Public
  <2>2. Types' /\ Private(t)' \subseteq Private(t)
    BY <1>5, <2>1 DEF Look, IInv, Types, Labels, Cells, Private
  <2> QED
    BY <1>5, <2>1, <2>2, FrameIInv DEF Look, IInv, Types, HoldsCurrent, HoldsAhead
<1>6. CASE LockNext(t)
  <2>1. Public(ahead[t]) /\ ahead[t] \in Nodes /\ ahead[t] # HeadNode
    BY <1>6, NextIsPublic DEF LockNext
  <2>2. Types' /\ Private(t)' \subseteq Private(t)
    BY <1>6, <2>1 DEF LockNext, IInv, Types, Labels, Cells, Private
  <2>3. /\ Public(current[t]) /\ owner[current[t]] = t /\ current[t] \in Cells
        /\ ahead[t] = next[current[t]] /\ ahead[t] # Null
    BY <1>6 DEF LockNext, IInv, Types, LocksOK, HoldsCurrent, HoldsAhead, Public
  <2>4. /\ owner' = [owner EXCEPT ![ahead[t]] = t] /\ owner[ahead[t]] = NoThread
        /\ current[t] # ahead[t]
    BY <1>6, <2>3 DEF LockNext
  <2>5. owner'[ahead[t]] = t /\ owner'[current[t]] = t
    BY <2>1, <2>3, <2>4 DEF IInv, Types, Cells
  <2>6. \A u \in Threads \ {t} : \A n \in Cells : owner[n] = u => owner'[n] = u
    BY <2>4 DEF IInv, Types
  <2>7. /\ pc'[t] \in {"test", "release"}
        /\ \A u \in Threads \ {t} : pc'[u] = pc[u]
        /\ UNCHANGED <<heap, request, place>>
        /\ ahead[t] \in allocated
    BY <1>6, <2>1 DEF LockNext, IInv, Types, Public
  <2> QED
    BY <2>1, <2>2, <2>3, <2>4, <2>5, <2>6, <2>7, FrameIInv DEF HoldsCurrent, HoldsAhead
<1>7. CASE Release(t)
  <2>1. /\ Public(current[t]) /\ owner[current[t]] = t /\ current[t] \in Cells
        /\ owner[ahead[t]] = t /\ Public(ahead[t]) /\ ahead[t] \in Nodes /\ ahead[t] # HeadNode
        /\ current[t] # ahead[t]
    BY <1>7 DEF Release, IInv, Types, LocksOK, HoldsCurrent, HoldsAhead, Public, Cells
  <2>2. Types' /\ Private(t)' \subseteq Private(t)
    BY <1>7, <2>1 DEF Release, StepAhead, IInv, Types, Labels, Cells, Private
  <2>3. owner'[ahead[t]] = t /\ \A u \in Threads \ {t} : \A n \in Cells : owner[n] = u => owner'[n] = u
    BY <1>7, <2>1 DEF Release, IInv, Types, Cells
  <2>4. /\ \/ pc'[t] = "look" /\ current'[t] = ahead[t]
           \/ pc'[t] = "visit" /\ current'[t] = current[t]
        /\ \A u \in Threads \ {t} : pc'[u] = pc[u] /\ current'[u] = current[u]
        /\ UNCHANGED <<heap, request, ahead>> /\ ahead[t] \in allocated
    BY <1>7, <2>1 DEF Release, StepAhead, IInv, Types, Public
  <2> QED
    BY <2>1, <2>2, <2>3, <2>4, FrameIInv DEF HoldsCurrent, HoldsAhead
<1>8. CASE Visit(t) \/ Try(t)
  <2>1. /\ owner[ahead[t]] = t /\ Public(ahead[t]) /\ ahead[t] \in Nodes
    BY <1>8 DEF Visit, Try, IInv, Types, LocksOK, HoldsAhead, Public, Cells
  <2>2. /\ pc[t] = "visit" /\ \E l \in {"look", "unlock"} : pc' = [pc EXCEPT ![t] = l]
        /\ current' = [current EXCEPT ![t] = ahead[t]]
        /\ UNCHANGED <<allocated, next, owner, request, ahead>>
    BY <1>8 DEF Visit, Try, StepAhead
  <2>3. Types' /\ Private(t)' \subseteq Private(t)
    BY <2>1, <2>2 DEF IInv, Types, Labels, Cells, Private
  <2> QED
    BY <2>1, <2>2, <2>3, FrameIInv DEF IInv, Types, HoldsCurrent, HoldsAhead
<1>9. CASE Test(t)
  <2>1. /\ pc[t] = "test" /\ \E l \in {"unlink", "release"} : pc' = [pc EXCEPT ![t] = l]
        /\ UNCHANGED <<heap, owner, request, place>>
    BY <1>9 DEF Test
  <2>2. Types' /\ Private(t)' \subseteq Private(t)
    BY <2>1 DEF IInv, Types, Labels, Private
  <2> QED
    BY <2>1, <2>2, FrameIInv DEF IInv, Types, LocksOK, HoldsCurrent, HoldsAhead
<1>10. CASE UnlockNext(t)
  <2>1. /\ pc[t] = "unlock_next" /\ pc' = [pc EXCEPT ![t] = "free"]
        /\ owner' = [owner EXCEPT ![ahead[t]] = NoThread]
        /\ UNCHANGED <<heap, request, place>>
    BY <1>10 DEF UnlockNext
  <2>2. Types' /\ Private(t)' \subseteq Private(t)
    BY <2>1 DEF IInv, Types, Labels, Private
  <2>3. owner'[current[t]] = t /\ \A u \in Threads \ {t} : \A n \in Cells : owner[n] = u => owner'[n] = u
    BY <2>1 DEF IInv, Types, LocksOK, HoldsCurrent, HoldsAhead, Public, Cells
  <2>4. Public(current[t])
    BY <2>1 DEF IInv, LocksOK, HoldsCurrent
  <2> QED
    BY <2>1, <2>2, <2>3, <2>4, FrameIInv DEF IInv, Types, HoldsCurrent, HoldsAhead
<1> QED
  BY <1>1, <1>2, <1>3, <1>4, <1>5, <1>6, <1>7, <1>8, <1>9, <1>10
\* push_front takes a node nobody knows of.
LEMMA CallPushFrontIInv ==
  ASSUME IInv, NEW t \in Threads, CallPushFront(t) PROVE IInv'
<1> USE LockedListAssumption
<1>1. PICK n \in Nodes \ allocated :
        /\ pc[t] = "idle" /\ pc' = [pc EXCEPT ![t] = "lock_head"]
        /\ call' = [call EXCEPT ![t] = "push_front"]
        /\ allocated' = allocated \cup {n}
        /\ next' = [next EXCEPT ![n] = Null]
        /\ current' = [current EXCEPT ![t] = n]
        /\ UNCHANGED <<owner, ahead>>
  BY DEF CallPushFront, Call, Goto
<1>2. Types'
  BY <1>1 DEF IInv, Types, Labels, Cells
<1>3. /\ Private(t)' = {n}
      /\ \A u \in Threads \ {t} : Private(u)' = Private(u)
      /\ \A u \in Threads : n \notin Private(u)
      /\ Private(t) = {}
  BY <1>1 DEF IInv, Types, PrivateOK, Private
<1>4. \A m \in allocated : m \in Cells /\ m # n /\ next'[m] = next[m] /\ next[m] # n
  BY <1>1 DEF IInv, Types, LinksOK, Cells
<1>5. next'[n] = Null
  BY <1>1 DEF IInv, Types, Cells
<1>6. LinksOK'
  BY <1>1, <1>4, <1>5 DEF IInv, LinksOK
<1>7. PrivateOK'
  BY <1>1, <1>3, <1>4, <1>5 DEF IInv, PrivateOK
<1>8. \A m : Public(m) => Public(m)'
  BY <1>1, <1>3 DEF Public
<1>9. \A u \in Threads : pc'[u] \in HoldsCurrent => pc[u] \in HoldsCurrent /\ current[u] \in allocated
  BY <1>1 DEF IInv, Types, LocksOK, Public, HoldsCurrent
<1>10. \A u \in Threads \ {t} : /\ pc'[u] = pc[u] /\ call'[u] = call[u]
                                /\ current'[u] = current[u] /\ ahead'[u] = ahead[u]
  BY <1>1 DEF IInv, Types
<1>11. pc'[t] = "lock_head" /\ call'[t] = "push_front"
  BY <1>1 DEF IInv, Types
<1>12. \A u \in Threads : pc[u] \in {"lock_next", "release", "test", "unlink"} => pc[u] \in HoldsCurrent
  BY DEF HoldsCurrent
<1>13. LocksOK'
  <2> SUFFICES ASSUME NEW u \in Threads \ {t} PROVE LocksOK!(u)'
    BY <1>11 DEF LocksOK, HoldsCurrent, HoldsAhead
  <2> QED
    BY <1>1, <1>4, <1>8, <1>9, <1>10, <1>12 DEF IInv, LocksOK
<1> QED
  BY <1>2, <1>6, <1>7, <1>13 DEF IInv

\* A thread that holds the head lock puts its node behind the head.
LEMMA LinkIInv ==
  ASSUME IInv, NEW t \in Threads, Link(t) PROVE IInv'
<1> USE LockedListAssumption
<1>0. PICK n : n = current[t]
  OBVIOUS
<1>1. /\ pc[t] = "link" /\ pc' = [pc EXCEPT ![t] = "unlock"]
      /\ next' = [next EXCEPT ![n] = next[HeadNode], ![HeadNode] = n]
      /\ current' = [current EXCEPT ![t] = HeadNode]
      /\ UNCHANGED <<allocated, owner, call, ahead>>
  BY <1>0 DEF Link, Goto, request
<1>2. /\ Private(t) = {n} /\ owner[HeadNode] = t
      /\ n \in allocated \cap Nodes /\ n # HeadNode
      /\ \A m \in allocated : next[m] # n
      /\ \A u \in Threads \ {t} : n \notin Private(u)
  BY <1>0, <1>1 DEF IInv, Types, PrivateOK, LocksOK, Private
<1>3. Types'
  BY <1>1, <1>2 DEF IInv, Types, Labels, Cells
<1>4. Private(t)' = {} /\ \A u \in Threads \ {t} : Private(u)' = Private(u)
  BY <1>1 DEF IInv, Types, Private
<1>5. \A m \in allocated : next'[m] = IF m = HeadNode THEN n
                                      ELSE IF m = n THEN next[HeadNode] ELSE next[m]
  BY <1>1, <1>2 DEF IInv, Types, Cells
<1>6. HeadNode \in allocated
  BY DEF IInv, LinksOK
<1>7. LinksOK'
  <2>1. \A m \in allocated : next[m] # Null => next[m] \in allocated
    BY DEF IInv, LinksOK
  <2>2. \A l, m \in allocated : next[l] = next[m] /\ next[l] # Null => l = m
    BY DEF IInv, LinksOK
  <2>3. \A m \in allocated : next'[m] # Null => next'[m] \in allocated
    BY <2>1, <1>2, <1>5, <1>6
  <2>4. \A l, m \in allocated : next'[l] = next'[m] /\ next'[l] # Null => l = m
    BY <2>2, <1>2, <1>5, <1>6
  <2> QED
    BY <2>3, <2>4, <1>1, <1>6 DEF LinksOK
<1>8. PrivateOK'
  <2> SUFFICES ASSUME NEW u \in Threads \ {t}, NEW x \in Private(u) PROVE PrivateOK!(u)!(x)'
    BY <1>4 DEF PrivateOK
  <2>1. /\ x \in allocated \cap Nodes /\ x # n
        /\ \A m \in allocated : next[m] # x
        /\ \A v \in Threads \ {u} : x \notin Private(v)
    BY <1>2 DEF IInv, PrivateOK
  <2>2. \A m \in allocated : next'[m] # x
    BY <2>1, <1>5, <1>6
  <2>3. \A v \in Threads \ {u} : x \notin Private(v)'
    BY <2>1, <1>4
  <2> QED
    BY <2>1, <2>2, <2>3, <1>1
<1>9. \A m : Public(m) => Public(m)' /\ m # n
  BY <1>1, <1>2, <1>4 DEF Public
<1>10. \A u \in Threads \ {t} : /\ pc'[u] = pc[u] /\ call'[u] = call[u]
                                /\ current'[u] = current[u] /\ ahead'[u] = ahead[u]
                                /\ pc[u] \in HoldsCurrent =>
                                      current[u] \in allocated /\ next'[current[u]] = next[current[u]]
  BY <1>1, <1>2, <1>5, <1>9 DEF IInv, Types, LocksOK, Public
<1>11. pc'[t] = "unlock" /\ current'[t] = HeadNode /\ owner'[HeadNode] = t
  BY <1>1, <1>2 DEF IInv, Types
<1>12. Public(HeadNode)'
  BY <1>1, <1>4, <1>6 DEF Public, IInv, PrivateOK, LinksOK
<1>13. LocksOK'
  <2>1. LocksOK!(t)'
    BY <1>11, <1>12 DEF HoldsAhead
  <2>2. ASSUME NEW u \in Threads \ {t} PROVE LocksOK!(u)'
    <3>1. pc[u] \in {"lock_next", "release", "test", "unlink"} => pc[u] \in HoldsCurrent
      BY DEF HoldsCurrent
    <3>2. LocksOK!(u)
      BY DEF IInv, LocksOK
    <3> QED
      BY <3>1, <3>2, <1>1, <1>9, <1>10
  <2> QED
    BY <2>1, <2>2 DEF LocksOK
<1> QED
  BY <1>3, <1>7, <1>8, <1>13 DEF IInv

\* A thread that holds the locks of a node and of its predecessor takes the node
\* out of the list, into its own hands.
LEMMA UnlinkIInv ==
  ASSUME IInv, NEW t \in Threads, Unlink(t) PROVE IInv'
<1> USE LockedListAssumption
<1>0. PICK c \in Cells \cup {Null}, n \in Cells \cup {Null} : c = current[t] /\ n = ahead[t]
  BY DEF IInv, Types, Cells
<1>1. /\ pc[t] = "unlink" /\ pc' = [pc EXCEPT ![t] = "unlock_next"]
      /\ next' = [next EXCEPT ![c] = next[n], ![n] = Null]
      /\ UNCHANGED <<allocated, owner, call, current, ahead>>
  BY <1>0 DEF Unlink, Goto, request, place
<1>2. /\ owner[c] = t /\ Public(c)
      /\ owner[n] = t /\ Public(n) /\ n \in Nodes
      /\ n = next[c] /\ n # Null /\ c # n
  BY <1>0, <1>1 DEF IInv, LocksOK, HoldsCurrent, HoldsAhead
<1>3. c \in Cells /\ n \in Cells /\ c \in allocated /\ n \in allocated
  BY <1>2 DEF IInv, Types, Public
<1>4. Types'
  BY <1>1, <1>2, <1>3 DEF IInv, Types, Labels, Cells
<1>5. \A m \in allocated : next'[m] = IF m = n THEN Null ELSE IF m = c THEN next[n] ELSE next[m]
  BY <1>1, <1>2, <1>3 DEF IInv, Types
<1>6. Private(t)' = {n} /\ \A u \in Threads \ {t} : Private(u)' = Private(u)
  BY <1>0, <1>1 DEF IInv, Types, Private
<1>7. /\ \A m \in allocated : next[m] # Null => next[m] \in allocated
      /\ \A l, m \in allocated : next[l] = next[m] /\ next[l] # Null => l = m
      /\ HeadNode \in allocated
  BY DEF IInv, LinksOK
<1>8. \A m \in allocated : next'[m] # n
  BY <1>2, <1>3, <1>5, <1>7
<1>9. LinksOK'
  <2>1. \A m \in allocated : next'[m] # Null => next'[m] \in allocated
    BY <1>3, <1>5, <1>7
  <2>2. \A l, m \in allocated : next'[l] = next'[m] /\ next'[l] # Null => l = m
    BY <1>3, <1>5, <1>7
  <2>3. allocated' = allocated
    BY <1>1
  <2> QED
    BY <2>1, <2>2, <2>3, <1>7 DEF LinksOK
<1>10. PrivateOK'
  <2>1. ASSUME NEW u \in Threads \ {t}, NEW x \in Private(u) PROVE PrivateOK!(u)!(x)'
    <3>1. /\ x \in allocated \cap Nodes /\ x # n
          /\ \A m \in allocated : next[m] # x
          /\ \A v \in Threads \ {u} : x \notin Private(v)
      BY <1>2 DEF IInv, PrivateOK, Public
    <3>2. \A m \in allocated : next'[m] # x
      <4>1. x # Null
        BY <3>1
      <4> QED
        BY <3>1, <4>1, <1>3, <1>5
    <3>3. \A v \in Threads \ {u} : x \notin Private(v)'
      BY <3>1, <1>6
    <3> QED
      BY <3>1, <3>2, <3>3, <1>1
  <2>2. n \in allocated \cap Nodes /\ \A u \in Threads \ {t} : n \notin Private(u)'
    BY <1>2, <1>3, <1>6 DEF Public
  <2>3. allocated' = allocated
    BY <1>1
  <2>4. PrivateOK!(t)'
    BY <2>2, <2>3, <1>6, <1>8
  <2>5. ASSUME NEW u \in Threads \ {t} PROVE PrivateOK!(u)'
    BY <2>1, <1>6
  <2> QED
    BY <2>4, <2>5 DEF PrivateOK
<1>11. \A m : Public(m) /\ m # n => Public(m)'
  BY <1>1, <1>6 DEF Public
<1>12. LocksOK'
  <2>1. LocksOK!(t)'
    <3>1. /\ pc'[t] = "unlock_next" /\ current'[t] = c /\ ahead'[t] = n
          /\ owner'[c] = t /\ owner'[n] = t /\ n \in allocated' \cap Nodes
      BY <1>0, <1>1, <1>2, <1>3 DEF IInv, Types
    <3>2. Public(c)'
      BY <1>2, <1>11
    <3> QED
      BY <3>1, <3>2, <1>2
  <2>2. ASSUME NEW u \in Threads \ {t} PROVE LocksOK!(u)'
    <3>1. /\ pc'[u] = pc[u] /\ call'[u] = call[u]
          /\ current'[u] = current[u] /\ ahead'[u] = ahead[u]
      BY <1>1 DEF IInv, Types
    <3>2. LocksOK!(u)
      BY DEF IInv, LocksOK
    <3>3. pc[u] \in HoldsCurrent => /\ Public(current[u])'
                                    /\ next'[current[u]] = next[current[u]]
      BY <3>1, <3>2, <1>2, <1>5, <1>11 DEF Public
    <3>4. pc[u] \in HoldsAhead \ {"unlock_next"} => Public(ahead[u])'
      BY <3>1, <3>2, <1>2, <1>11
    <3>5. pc[u] \in {"lock_next", "release", "test", "unlink"} => pc[u] \in HoldsCurrent
      BY DEF HoldsCurrent
    <3> QED
      BY <3>1, <3>2, <3>3, <3>4, <3>5, <1>1
  <2> QED
    BY <2>1, <2>2 DEF LocksOK
<1> QED
  BY <1>4, <1>9, <1>10, <1>12 DEF IInv

\* A node nobody else can come to is destroyed.
LEMMA FreeIInv ==
  ASSUME IInv, NEW t \in Threads, Free(t) PROVE IInv'
<1> USE LockedListAssumption
<1>0. PICK n : n = ahead[t]
  OBVIOUS
<1>1. /\ pc[t] = "free" /\ pc' = [pc EXCEPT ![t] = "look"]
      /\ allocated' = allocated \ {n}
      /\ UNCHANGED <<next, owner, call, current, ahead>>
  BY <1>0 DEF Free, Goto, request, place
<1>2. Private(t) = (IF call[t] = "push_front" /\ pc[t] \in {"lock_head", "link"}
                    THEN {current[t]} ELSE {n})
  BY <1>0, <1>1 DEF Private
<1>3. /\ n \in Private(t) /\ n \in Nodes /\ n # HeadNode
      /\ \A m \in allocated : next[m] # n
      /\ \A u \in Threads \ {t} : n \notin Private(u)
  BY <1>1, <1>2 DEF IInv, PrivateOK
<1>4. Types'
  BY <1>1 DEF IInv, Types, Labels
<1>5. Private(t)' = {} /\ \A u \in Threads \ {t} : Private(u)' = Private(u)
  BY <1>1 DEF IInv, Types, Private
<1>6. LinksOK'
  BY <1>1, <1>3 DEF IInv, LinksOK
<1>7. PrivateOK'
  BY <1>1, <1>3, <1>5 DEF IInv, PrivateOK
<1>8. \A m : Public(m) => Public(m)'
  BY <1>1, <1>3, <1>5 DEF Public
<1>9. \A u \in Threads \ {t} : pc[u] \in HoldsAhead => ahead[u] # n
  <2> SUFFICES ASSUME NEW u \in Threads \ {t}, pc[u] \in HoldsAhead PROVE ahead[u] # n
    OBVIOUS
  <2>1. CASE pc[u] = "unlock_next"
    BY <2>1, <1>3 DEF Private
  <2>2. CASE pc[u] # "unlock_next"
    BY <2>2, <1>3 DEF IInv, LocksOK, Public
  <2> QED
    BY <2>1, <2>2
<1>10. LocksOK'
  <2>1. LocksOK!(t)'
    BY <1>1, <1>8 DEF IInv, Types, LocksOK, HoldsCurrent, HoldsAhead
  <2>2. ASSUME NEW u \in Threads \ {t} PROVE LocksOK!(u)'
    BY <1>1, <1>8, <1>9 DEF IInv, Types, LocksOK
  <2> QED
    BY <2>1, <2>2 DEF LocksOK
<1> QED
  BY <1>4, <1>6, <1>7, <1>10 DEF IInv

\* Every step preserves the invariant.
LEMMA NextIInv == IInv /\ [Next]_vars => IInv'
<1> SUFFICES ASSUME IInv, [Next]_vars PROVE IInv'
  OBVIOUS
<1>1. ASSUME NEW t \in Threads, CallPushFront(t) \/ CallTraversal(t) \/ Step(t) PROVE IInv'
  BY <1>1, CallPushFrontIInv, QuietIInv, LinkIInv, UnlinkIInv, FreeIInv DEF Step
<1>2. CASE UNCHANGED vars
  BY <1>2 DEF vars, heap, request, place, IInv, Types, LinksOK, PrivateOK, LocksOK, Public, Private
<1> QED
  BY <1>1, <1>2 DEF Next

\* The nodes are linked, locked and handed on as the argument needs it.
THEOREM Invariance == Spec => []IInv
  BY InitIInv, NextIInv, PTL DEF Spec
-------------------------------------------------------------------------------
\* The node that remove_if destroys unlocked (p254:84) is one that no other thread
\* stands on, is about to lock, or can come to: for any number of threads.
THEOREM NoNodeIsUsedAfterItsEnd == Spec => []NoUseAfterFree
<1>1. IInv => NoUseAfterFree
  <2> SUFFICES ASSUME IInv, NEW t \in Threads, NEW x \in Reads(t) \cup Writes(t)
               PROVE  x[1] \in allocated
    BY DEF NoUseAfterFree
  <2>1. CASE pc[t] = "link"
    <3>1. current[t] \in allocated /\ HeadNode \in allocated
      BY <2>1 DEF IInv, LinksOK, PrivateOK, LocksOK, Private
    <3> QED
      BY <2>1, <3>1 DEF Reads, Writes
  <2>2. CASE pc[t] \in {"look", "release", "unlock", "unlink"}
    <3>1. current[t] \in allocated
      BY <2>2 DEF IInv, LocksOK, HoldsCurrent, Public
    <3>2. pc[t] \in {"release", "unlink"} => ahead[t] \in allocated
      BY DEF IInv, LocksOK, HoldsAhead
    <3> QED
      BY <2>2, <3>1, <3>2 DEF Reads, Writes
  <2>3. CASE pc[t] = "lock_next"
    BY <2>3, NextIsPublic DEF Reads, Writes, Public
  <2>4. CASE pc[t] \in {"visit", "test", "unlock_next"}
    <3>1. ahead[t] \in allocated
      BY <2>4 DEF IInv, LocksOK, HoldsAhead
    <3> QED
      BY <2>4, <3>1 DEF Reads, Writes
  <2>5. CASE pc[t] = "free"
    <3>1. ahead[t] \in allocated
      BY <2>5 DEF IInv, PrivateOK, Private
    <3> QED
      BY <2>5, <3>1 DEF Reads, Writes
  <2>6. CASE pc[t] \notin {"link", "look", "release", "unlock", "unlink", "lock_next", "visit",
                           "test", "unlock_next", "free"}
    BY <2>6 DEF Reads, Writes
  <2> QED
    BY <2>1, <2>2, <2>3, <2>4, <2>5, <2>6
<1> QED
  BY <1>1, Invariance, PTL
\* A thread touches the nodes in its hands and those it has the lock of; of the
\* one it is about to lock it touches the mutex.
LEMMA Touched ==
  ASSUME IInv, NEW t \in Threads, NEW x \in Reads(t) \cup Writes(t)
  PROVE  \/ x[1] \in Private(t)
         \/ owner[x[1]] = t /\ Public(x[1])
         \/ x[2] = "mutex" /\ x \notin Writes(t) /\ Public(x[1])
<1>1. CASE pc[t] = "link"
  <2>1. current[t] \in Private(t) /\ owner[HeadNode] = t
    BY <1>1 DEF IInv, LocksOK, Private
  <2>2. Public(HeadNode)
    BY LockedListAssumption DEF IInv, LinksOK, PrivateOK, Public
  <2> QED
    BY <1>1, <2>1, <2>2 DEF Reads, Writes
<1>2. CASE pc[t] \in {"look", "release", "unlock"}
  <2>1. owner[current[t]] = t /\ Public(current[t])
    BY <1>2 DEF IInv, LocksOK, HoldsCurrent
  <2> QED
    BY <1>2, <2>1 DEF Reads, Writes
<1>3. CASE pc[t] = "unlink"
  <2>1. /\ owner[current[t]] = t /\ Public(current[t])
        /\ owner[ahead[t]] = t /\ Public(ahead[t])
    BY <1>3 DEF IInv, LocksOK, HoldsCurrent, HoldsAhead
  <2> QED
    BY <1>3, <2>1 DEF Reads, Writes
<1>4. CASE pc[t] \in {"visit", "test"}
  <2>1. owner[ahead[t]] = t /\ Public(ahead[t])
    BY <1>4 DEF IInv, LocksOK, HoldsAhead
  <2> QED
    BY <1>4, <2>1 DEF Reads, Writes
<1>5. CASE pc[t] = "lock_next"
  BY <1>5, NextIsPublic DEF Reads, Writes
<1>6. CASE pc[t] \in {"unlock_next", "free"}
  BY <1>6 DEF Reads, Writes, Private
<1>7. CASE pc[t] \notin {"link", "look", "release", "unlock", "unlink", "visit", "test",
                         "lock_next", "unlock_next", "free"}
  BY <1>7 DEF Reads, Writes
<1> QED
  BY <1>1, <1>2, <1>3, <1>4, <1>5, <1>6, <1>7

\* Only the end of a node changes its mutex.
LEMMA MutexEnds ==
  ASSUME NEW t \in Threads, NEW x \in Writes(t), x[2] = "mutex"
  PROVE  x[1] \in Private(t)
  BY DEF Writes, Private

\* Lock coupling keeps every field of every node to one thread, whatever is pushed,
\* removed and visited elsewhere (p254:48, p254:67, p254:79).
THEOREM FieldsAreNotShared == Spec => []NoDataRace
<1>1. IInv => NoDataRace
  <2> SUFFICES ASSUME IInv, NEW t \in Threads, NEW u \in Threads, t # u,
                      NEW x \in Writes(t), x \in Reads(u) \cup Writes(u)
               PROVE  FALSE
    BY DEF NoDataRace
  <2>1. x[1] \in Private(t) \/ (owner[x[1]] = t /\ Public(x[1]) /\ x[2] # "mutex")
    BY Touched, MutexEnds
  <2>2. \/ x[1] \in Private(u)
        \/ owner[x[1]] = u /\ Public(x[1])
        \/ x[2] = "mutex" /\ Public(x[1])
    BY Touched
  <2>3. x[1] \in Private(t) => x[1] \notin Private(u) /\ ~Public(x[1])
    BY DEF IInv, PrivateOK, Public
  <2>4. x[1] \in Private(u) => ~Public(x[1])
    BY DEF Public
  <2> QED
    BY <2>1, <2>2, <2>3, <2>4
<1> QED
  BY <1>1, Invariance, PTL
-------------------------------------------------------------------------------
(* The list as a whole. *)

\* The nodes that can be reached from the head are those in nobody's hands.
Reaches(L, s) == /\ Segment(next, HeadNode, Null, L, s)
                 /\ \A n \in Cells : Public(n) <=> n \in Places(L, s)

WholeOK == \E L, s : Reaches(L, s)

\* Values, answers and the budget.
ValuesOK == /\ data \in [Cells -> Values \cup {NoValue}]
            /\ \A n \in allocated \cap Nodes : data[n] \in Values
            /\ answer \in [Threads -> {"none", "yes", "no"}]
            /\ budget \in 0 .. MaxCalls

\* A thread has no lock that its place does not give it.
OwnersOK == \A n \in Cells, t \in Threads : owner[n] = t => n \in Held(t)

\* The inductive invariant.
ListInv == IInv /\ WholeOK /\ ValuesOK /\ OwnersOK

\* The chain of TypeOK is that list.
LEMMA ChainIs ==
  ASSUME IInv, NEW L, NEW s, Reaches(L, s)
  PROVE  Chain = Places(L, s) /\ Places(L, s) \subseteq Cells
<1>1. DOMAIN next = Cells
  BY DEF IInv, Types
<1>2. IsFiniteSet(DOMAIN next) /\ Null \notin DOMAIN next
  BY <1>1, LockedListAssumption, FS_AddElement DEF Cells
<1>3. NodesFrom(next, Null, HeadNode) = Places(L, s)
  BY <1>2, ListOf DEF Reaches
<1> QED
  BY <1>1, <1>3 DEF Chain, Reaches, Segment, Places

\* The inductive invariant is enough for the types, the locks and the owners.
LEMMA TypeOKIs ==
  ASSUME ListInv
  PROVE  TypeOK
<1> USE LockedListAssumption DEF ListInv, IInv
<1>1. PICK L, s : Reaches(L, s)
  BY DEF WholeOK
<1>2. Chain = Places(L, s) /\ Places(L, s) \subseteq Cells
  BY <1>1, ChainIs
<1>3. \A n : n \in Chain <=> n \in allocated /\ \A t \in Threads : n \notin Private(t)
  BY <1>1, <1>2 DEF Reaches, Public, Types
<1>4. \A t \in Threads : Private(t) \subseteq allocated
  BY DEF PrivateOK
<1>5. allocated = Chain \cup UNION {Private(t) : t \in Threads}
  BY <1>3, <1>4
<1>6. \A t, u \in Threads : /\ Private(t) \cap Chain = {}
                            /\ t # u => Private(t) \cap Private(u) = {}
  BY <1>3 DEF PrivateOK
<1>7. \A n \in Nodes \cup {HeadNode}, t \in Threads : owner[n] = t <=> n \in Held(t)
  <2> SUFFICES ASSUME NEW n \in Cells, NEW t \in Threads, n \in Held(t) PROVE owner[n] = t
    BY DEF OwnersOK, Cells
  <2> QED
    BY DEF LocksOK, Held
<1>8. /\ allocated \subseteq Nodes \cup {HeadNode}
      /\ next \in [Nodes \cup {HeadNode} -> Nodes \cup {Null}]
      /\ owner \in [Nodes \cup {HeadNode} -> Threads \cup {NoThread}]
      /\ data \in [Nodes \cup {HeadNode} -> Values \cup {NoValue}]
      /\ answer \in [Threads -> {"none", "yes", "no"}] /\ budget \in 0 .. MaxCalls
  BY DEF Types, ValuesOK, Cells
<1> QED
  BY <1>5, <1>6, <1>7, <1>8 DEF TypeOK

\* An empty list is whole.
LEMMA InitList ==
  ASSUME Init
  PROVE  ListInv
<1> USE LockedListAssumption
<1>1. IInv
  BY InitIInv
<1>2. PICK L, s : L \in Nat /\ L = 0 /\ Segment(next, Null, Null, L, s)
  BY SegmentNone
<1>3. next[HeadNode] = Null /\ HeadNode \in DOMAIN next
  BY DEF Init
<1>4. Places(L, s) = {}
  <2>1. 1 .. L = {}
    BY <1>2
  <2> QED
    BY <2>1 DEF Places
<1>5. Segment(next, HeadNode, Null, L + 1, Before(HeadNode, L, s))
  BY <1>2, <1>3, <1>4, SegmentCons
<1>6. Places(L + 1, Before(HeadNode, L, s)) = {HeadNode}
  <2>1. Places(L + 1, Before(HeadNode, L, s)) = {HeadNode} \cup Places(L, s)
    BY <1>2, PlacesBefore
  <2> QED
    BY <1>4, <2>1
<1>7. \A n \in Cells : Public(n) <=> n = HeadNode
  BY DEF Init, Public, Private
<1>8. WholeOK
  BY <1>5, <1>6, <1>7 DEF WholeOK, Reaches
<1>9. ValuesOK /\ OwnersOK
  BY DEF Init, ValuesOK, OwnersOK, Cells
<1> QED
  BY <1>1, <1>8, <1>9 DEF ListInv
-------------------------------------------------------------------------------
\* A step that leaves the links of the nodes in the list alone, and them in it.
LEMMA SameWhole ==
  ASSUME WholeOK, Types, DOMAIN next' = DOMAIN next,
         \A n \in Cells : /\ Public(n) => next'[n] = next[n]
                          /\ Public(n)' <=> Public(n)
  PROVE  WholeOK' /\ \A L, s : Reaches(L, s) => Reaches(L, s)'
<1> SUFFICES ASSUME NEW L, NEW s, Reaches(L, s) PROVE Reaches(L, s)'
  BY DEF WholeOK
<1>1. Reaches(L, s)
  OBVIOUS
<1>2. \A i \in 1 .. L : s[i] \in Places(L, s) /\ s[i] \in Cells
  BY <1>1 DEF Reaches, Segment, Places, Types
<1>3. Segment(next, HeadNode, Null, L, s) /\ \A i \in 1 .. L : next'[s[i]] = next[s[i]]
  BY <1>1, <1>2 DEF Reaches
<1>4. Segment(next', HeadNode, Null, L, s)
  BY <1>3, SegmentSame
<1> QED
  BY <1>1, <1>4 DEF Reaches

\* A list with n behind its first node.
Second(L, s, n) == Before(s[1], L, Before(n, L - 1, Behind(L, s)))

\* push_front puts its node into the list behind the head ...
LEMMA LinkWhole ==
  ASSUME IInv, WholeOK, NEW t \in Threads, Link(t)
  PROVE  WholeOK' /\ \A L, s, n : Reaches(L, s) /\ n = current[t] => Reaches(L + 1, Second(L, s, n))'
<1> USE LockedListAssumption DEF IInv
<1>0. PICK n : n = current[t]
  OBVIOUS
<1>1. /\ pc[t] = "link" /\ pc' = [pc EXCEPT ![t] = "unlock"]
      /\ next' = [next EXCEPT ![n] = next[HeadNode], ![HeadNode] = n]
      /\ UNCHANGED <<allocated, call>>
      /\ current' = [current EXCEPT ![t] = HeadNode] /\ ahead' = ahead
  BY <1>0 DEF Link, Goto, request
<1>2. /\ Private(t) = {n} /\ n \in allocated \cap Nodes /\ n # HeadNode
      /\ \A u \in Threads \ {t} : n \notin Private(u)
  BY <1>0, <1>1 DEF PrivateOK, LocksOK, Private
<1>3. Private(t)' = {} /\ \A u \in Threads \ {t} : Private(u)' = Private(u)
  BY <1>1 DEF Types, Private
<1>4. \A m \in Cells : Public(m)' <=> Public(m) \/ m = n
  BY <1>1, <1>2, <1>3 DEF Public
<1>5. /\ DOMAIN next = Cells /\ DOMAIN next' = Cells /\ HeadNode \in Cells /\ n \in Cells
      /\ next'[n] = next[HeadNode] /\ next'[HeadNode] = n
      /\ \A m \in Cells \ {n, HeadNode} : next'[m] = next[m]
  BY <1>1, <1>2 DEF Types, Cells
<1> SUFFICES ASSUME NEW L, NEW s, Reaches(L, s) PROVE Reaches(L + 1, Second(L, s, n))'
  BY <1>0 DEF WholeOK
<1>6. Reaches(L, s)
  OBVIOUS
<1>7. Segment(next, HeadNode, Null, L, s) /\ \A m \in Cells : Public(m) <=> m \in Places(L, s)
  BY <1>6 DEF Reaches
<1>8. L # 0
  BY <1>7 DEF Segment
<1> DEFINE K == L - 1
           r == Behind(L, s)
<1>9. /\ Segment(next, next[HeadNode], Null, K, r) /\ K \in Nat
      /\ Places(L, s) = {HeadNode} \cup Places(K, r)
      /\ HeadNode \notin Places(K, r)
      /\ s[1] = HeadNode /\ L = K + 1
  <2>1. /\ Segment(next, next[HeadNode], Null, L - 1, Behind(L, s))
        /\ Places(L, s) = {HeadNode} \cup Places(L - 1, Behind(L, s))
        /\ HeadNode \notin Places(L - 1, Behind(L, s))
        /\ s[1] = HeadNode
    BY <1>7, <1>8, SegmentTail
  <2>2. L \in Nat
    BY <1>7 DEF Segment
  <2>3. K \in Nat /\ L = K + 1
    BY <2>2, <1>8
  <2> QED
    BY <2>1, <2>3
<1> HIDE DEF K, r
<1>10. n \notin Places(K, r) /\ Places(K, r) \subseteq Cells
  <2>1. ~Public(n)
    BY <1>2 DEF Public
  <2>2. Places(K, r) \subseteq Cells
    BY <1>5, <1>9 DEF Segment, Places
  <2> QED
    BY <2>1, <2>2, <1>5, <1>7, <1>9
<1>11. \A i \in 1 .. K : next'[r[i]] = next[r[i]]
  BY <1>5, <1>9, <1>10 DEF Places
<1>12. Segment(next', next'[n], Null, K, r)
  BY <1>5, <1>9, <1>11, SegmentSame
<1>13. Segment(next', n, Null, K + 1, Before(n, K, r)) /\ Places(K + 1, Before(n, K, r)) = {n} \cup Places(K, r)
  BY <1>5, <1>9, <1>10, <1>12, SegmentCons, PlacesBefore
<1> DEFINE M == K + 1
           q == Before(n, K, r)
<1>14. /\ Segment(next', next'[HeadNode], Null, M, q) /\ M \in Nat
       /\ Places(M, q) = {n} \cup Places(K, r)
  BY <1>5, <1>9, <1>13
<1> HIDE DEF M, q
<1>15. /\ Segment(next', HeadNode, Null, M + 1, Before(HeadNode, M, q))
       /\ Places(M + 1, Before(HeadNode, M, q)) = {HeadNode} \cup Places(M, q)
  BY <1>2, <1>5, <1>9, <1>14, SegmentCons, PlacesBefore
<1> DEFINE N == M + 1
           p == Before(HeadNode, M, q)
<1>16. Segment(next', HeadNode, Null, N, p) /\ Places(N, p) = Places(L, s) \cup {n}
  BY <1>9, <1>14, <1>15
<1> HIDE DEF N, p
<1>17. Reaches(N, p)'
  BY <1>4, <1>5, <1>7, <1>16 DEF Reaches
<1>18. N = L + 1 /\ p = Second(L, s, n)
  BY <1>9 DEF N, p, M, q, K, r, Second
<1> QED
  BY <1>17, <1>18

\* ... and remove_if takes the one behind the node it stands on out.
LEMMA UnlinkWhole ==
  ASSUME IInv, WholeOK, NEW t \in Threads, Unlink(t)
  PROVE  WholeOK' /\ \A L, s : Reaches(L, s) =>
            \E p \in 1 .. L - 1 : /\ s[p] = current[t] /\ s[p + 1] = ahead[t]
                                  /\ Reaches(L - 1, Passing(L, s, p))'
<1> USE LockedListAssumption DEF IInv
<1>0. PICK c, n : c = current[t] /\ n = ahead[t]
  OBVIOUS
<1>1. /\ pc[t] = "unlink" /\ pc' = [pc EXCEPT ![t] = "unlock_next"]
      /\ next' = [next EXCEPT ![c] = next[n], ![n] = Null]
      /\ UNCHANGED <<allocated, owner, call, current, ahead>>
  BY <1>0 DEF Unlink, Goto, request, place
<1>2. /\ Public(c) /\ Public(n) /\ n \in Nodes /\ n = next[c] /\ n # Null /\ c # n
  BY <1>0, <1>1 DEF LocksOK, HoldsCurrent, HoldsAhead
<1>3. Private(t)' = {n} /\ Private(t) = {} /\ \A u \in Threads \ {t} : Private(u)' = Private(u)
  BY <1>0, <1>1 DEF Types, Private
<1>4. \A m \in Cells : Public(m)' <=> Public(m) /\ m # n
  BY <1>1, <1>2, <1>3 DEF Public
<1>5. /\ DOMAIN next = Cells /\ DOMAIN next' = Cells /\ c \in Cells /\ n \in Cells
      /\ next'[c] = next[n] /\ \A m \in Cells \ {c, n} : next'[m] = next[m]
  BY <1>1, <1>2 DEF Types, Cells, Public
<1> SUFFICES ASSUME NEW L, NEW s, Reaches(L, s)
             PROVE  \E p \in 1 .. L - 1 : s[p] = c /\ s[p + 1] = n /\ Reaches(L - 1, Passing(L, s, p))'
  BY <1>0 DEF WholeOK
<1>6. Reaches(L, s)
  OBVIOUS
<1>7. Segment(next, HeadNode, Null, L, s) /\ \A m \in Cells : Public(m) <=> m \in Places(L, s)
  BY <1>6 DEF Reaches
<1>8. Places(L, s) \subseteq Cells /\ Null \notin Cells
  BY <1>5, <1>7 DEF Segment, Places, Cells
<1>9. Skipping(next, HeadNode, Null, L, s, c, n, next')
  BY <1>2, <1>5, <1>7, <1>8 DEF Skipping
<1>10. PICK p \in 1 .. L - 1 : /\ s[p] = c /\ s[p + 1] = n
                               /\ Segment(next', HeadNode, Null, L - 1, Passing(L, s, p))
                               /\ Places(L - 1, Passing(L, s, p)) = Places(L, s) \ {n}
  BY <1>9, SegmentSkip
<1>11. Reaches(L - 1, Passing(L, s, p))'
  BY <1>4, <1>5, <1>7, <1>8, <1>10 DEF Reaches
<1> QED
  BY <1>10, <1>11

\* The steps that change no link of the list.
LEMMA QuietWhole ==
  ASSUME IInv, WholeOK, NEW t \in Threads,
         \/ CallTraversal(t) \/ LockHead(t) \/ Unlock(t) \/ Return(t) \/ Look(t) \/ LockNext(t)
         \/ Release(t) \/ Visit(t) \/ Try(t) \/ Test(t) \/ UnlockNext(t)
         \/ CallPushFront(t) \/ Free(t)
  PROVE  WholeOK' /\ \A L, s : Reaches(L, s) => Reaches(L, s)'
<1> USE LockedListAssumption DEF IInv
<1>1. CASE CallPushFront(t)
  <2>1. PICK n \in Nodes \ allocated :
          /\ pc[t] = "idle" /\ pc' = [pc EXCEPT ![t] = "lock_head"]
          /\ call' = [call EXCEPT ![t] = "push_front"]
          /\ allocated' = allocated \cup {n}
          /\ next' = [next EXCEPT ![n] = Null]
          /\ current' = [current EXCEPT ![t] = n]
          /\ UNCHANGED <<owner, ahead>>
    BY <1>1 DEF CallPushFront, Call, Goto
  <2>2. /\ Private(t)' = {n} /\ Private(t) = {}
        /\ \A u \in Threads \ {t} : Private(u)' = Private(u)
    BY <2>1 DEF Types, Private
  <2>3. \A m : Public(m)' <=> Public(m)
    <3>1. ASSUME NEW m, Public(m) PROVE m # n /\ Public(m)'
      BY <2>1, <2>2, <3>1 DEF Public
    <3>2. ASSUME NEW m, Public(m)' PROVE Public(m)
      <4>1. m # n /\ m \in allocated
        BY <2>1, <2>2, <3>2 DEF Public
      <4> QED
        BY <2>2, <3>2, <4>1 DEF Public
    <3> QED
      BY <3>1, <3>2
  <2>4. DOMAIN next' = DOMAIN next /\ \A m : Public(m) => next'[m] = next[m]
    BY <2>1 DEF Public, Types, Cells
  <2> QED
    BY <2>3, <2>4, SameWhole
<1>2. CASE Free(t)
  <2>1. /\ pc[t] = "free" /\ pc' = [pc EXCEPT ![t] = "look"]
        /\ allocated' = allocated \ {ahead[t]}
        /\ UNCHANGED <<next, owner, call, current, ahead>>
    BY <1>2 DEF Free, Goto, request, place
  <2>2. /\ Private(t)' = {} /\ Private(t) = {ahead[t]}
        /\ \A u \in Threads \ {t} : Private(u)' = Private(u)
    BY <2>1 DEF Types, Private
  <2>3. \A m : Public(m)' <=> Public(m)
    BY <2>1, <2>2 DEF Public
  <2> QED
    BY <2>1, <2>3, SameWhole
<1>3. CASE ~CallPushFront(t) /\ ~Free(t)
  <2>1. /\ UNCHANGED <<allocated, next>>
        /\ \A u \in Threads \ {t} : /\ pc'[u] = pc[u] /\ call'[u] = call[u]
                                    /\ current'[u] = current[u] /\ ahead'[u] = ahead[u]
    BY <1>3 DEF CallTraversal, Call, LockHead, Unlock, Return, Look, LockNext, Release, Visit, Try, Test,
                UnlockNext, Goto, StepAhead, heap, request, place, Types
  <2>2. Private(t)' = Private(t)
    <3>1. CASE CallTraversal(t) \/ Unlock(t) \/ Return(t) \/ Look(t) \/ LockNext(t) \/ Release(t)
               \/ Visit(t) \/ Try(t) \/ Test(t)
      <4>1. pc[t] \in {"idle", "unlock", "return", "look", "lock_next", "release", "visit", "test"}
        BY <3>1 DEF CallTraversal, Call, Unlock, Return, Look, LockNext, Release, Visit, Try, Test
      <4>2. \/ pc'[t] \in {"idle", "unlock", "return", "look", "lock_next", "release", "visit",
                           "test", "unlink"}
            \/ pc'[t] = "lock_head" /\ call'[t] # "push_front"
        BY <3>1 DEF CallTraversal, Call, Unlock, Return, Look, LockNext, Release, Visit, Try, Test,
                    Goto, Types
      <4> QED
        BY <4>1, <4>2 DEF Private
    <3>2. CASE LockHead(t)
      BY <3>2 DEF LockHead, Goto, request, place, Types, Private
    <3>3. CASE UnlockNext(t)
      BY <3>3 DEF UnlockNext, Goto, request, place, Types, Private
    <3> QED
      BY <1>3, <3>1, <3>2, <3>3
  <2>3. \A u \in Threads : Private(u)' = Private(u)
    BY <2>1, <2>2 DEF Private
  <2>4. \A m : Public(m)' <=> Public(m)
    BY <2>1, <2>3 DEF Public
  <2> QED
    BY <2>1, <2>4, SameWhole
<1> QED
  BY <1>1, <1>2, <1>3
-------------------------------------------------------------------------------
(* Locks and values. *)

\* The threads but t keep their locks and stand where they stood; a lock that is taken
\* is t's.
OthersStand(t) ==
    /\ \A u \in Threads \ {t} : pc'[u] = pc[u] /\ current'[u] = current[u] /\ ahead'[u] = ahead[u]
    /\ \A n \in Cells : owner'[n] = owner[n] \/ owner'[n] \in {t, NoThread}

\* Every step is one of these.
LEMMA StepStands ==
  ASSUME IInv, NEW t \in Threads, CallPushFront(t) \/ CallTraversal(t) \/ Step(t)
  PROVE  OthersStand(t)
<1> USE LockedListAssumption DEF IInv
<1>1. CASE CallPushFront(t) \/ CallTraversal(t)
  BY <1>1 DEF CallPushFront, CallTraversal, Call, Goto, heap, OthersStand, Types
<1>2. CASE LockHead(t) \/ Link(t) \/ Unlock(t) \/ Return(t) \/ Look(t)
  BY <1>2 DEF LockHead, Link, Unlock, Return, Look, Goto, heap, request, place, OthersStand, Types, Cells
<1>3. CASE LockNext(t) \/ Release(t) \/ UnlockNext(t)
  BY <1>3 DEF LockNext, Release, UnlockNext, StepAhead, Goto, heap, request, place, OthersStand, Types
<1>4. CASE Visit(t) \/ Try(t) \/ Test(t) \/ Unlink(t) \/ Free(t)
  BY <1>4 DEF Visit, Try, Test, Unlink, Free, StepAhead, Goto, heap, request, place, OthersStand, Types
<1> QED
  BY <1>1, <1>2, <1>3, <1>4 DEF Step

\* Then what t has decides.
LEMMA OwnersFrame ==
  ASSUME OwnersOK, NEW t \in Threads, OthersStand(t),
         \A n \in Cells : owner'[n] = t => n \in Held(t)'
  PROVE  OwnersOK'
<1> USE LockedListAssumption
<1>1. \A u \in Threads \ {t} : Held(u)' = Held(u)
  BY DEF OthersStand, Held
<1>2. ASSUME NEW n \in Cells, NEW u \in Threads, owner'[n] = u PROVE n \in Held(u)'
  BY <1>1, <1>2 DEF OthersStand, OwnersOK
<1> QED
  BY <1>2 DEF OwnersOK

\* No thread has a lock that its place does not give it.
LEMMA StepOwners ==
  ASSUME IInv, OwnersOK, NEW t \in Threads, CallPushFront(t) \/ CallTraversal(t) \/ Step(t)
  PROVE  OwnersOK'
<1> USE LockedListAssumption DEF IInv
<1>1. OthersStand(t)
  BY StepStands DEF IInv
<1>2. \A n \in Cells : owner[n] = t => n \in Held(t)
  BY DEF OwnersOK
<1>3. \A n \in Cells : owner'[n] = t => n \in Held(t)'
  <2>1. CASE CallPushFront(t) \/ CallTraversal(t) \/ Return(t)
    <3>1. owner' = owner /\ pc[t] \in {"idle", "return"}
      BY <2>1 DEF CallPushFront, CallTraversal, Call, Return, heap
    <3>2. Held(t) = {}
      BY <3>1 DEF Held, HoldsCurrent, HoldsAhead
    <3> QED
      BY <1>2, <3>1, <3>2
  <2>2. CASE LockHead(t)
    <3>1. /\ pc[t] = "lock_head" /\ owner' = [owner EXCEPT ![HeadNode] = t]
          /\ \/ pc'[t] = "link"
             \/ pc'[t] = "look" /\ current'[t] = HeadNode
      BY <2>2 DEF LockHead, Goto, place, Types, LocksOK
    <3>2. Held(t) = {} /\ HeadNode \in Held(t)'
      BY <3>1 DEF Held, HoldsCurrent, HoldsAhead
    <3>3. \A n \in Cells \ {HeadNode} : owner'[n] = owner[n]
      BY <3>1 DEF Types
    <3> QED
      BY <1>2, <3>2, <3>3
  <2>3. CASE Link(t)
    <3>1. owner' = owner /\ pc[t] = "link" /\ pc'[t] = "unlock" /\ current'[t] = HeadNode
      BY <2>3 DEF Link, Goto, Types
    <3>2. Held(t) = {HeadNode} /\ Held(t)' = {HeadNode}
      BY <3>1 DEF Held, HoldsCurrent, HoldsAhead
    <3> QED
      BY <1>2, <3>1, <3>2
  <2>4. CASE Unlock(t)
    <3>1. pc[t] = "unlock" /\ owner' = [owner EXCEPT ![current[t]] = NoThread]
      BY <2>4 DEF Unlock
    <3>2. Held(t) = {current[t]}
      BY <3>1 DEF Held, HoldsCurrent, HoldsAhead
    <3>3. \A n \in Cells : owner'[n] = IF n = current[t] THEN NoThread ELSE owner[n]
      BY <3>1 DEF Types
    <3> QED
      BY <1>2, <3>2, <3>3
  <2>5. CASE Look(t) \/ Test(t) \/ Unlink(t) \/ Free(t)
    <3>1. /\ UNCHANGED <<owner, current>>
          /\ \/ pc[t] = "look" /\ pc'[t] \in {"lock_next", "unlock"}
             \/ pc[t] = "test" /\ pc'[t] \in {"unlink", "release"} /\ ahead' = ahead
             \/ pc[t] = "unlink" /\ pc'[t] = "unlock_next" /\ ahead' = ahead
             \/ pc[t] = "free" /\ pc'[t] = "look"
      BY <2>5 DEF Look, Test, Unlink, Free, Goto, place, Types
    <3>2. Held(t)' = Held(t)
      BY <3>1 DEF Held, HoldsCurrent, HoldsAhead
    <3> QED
      BY <1>2, <3>1, <3>2
  <2>6. CASE LockNext(t)
    <3>1. /\ pc[t] = "lock_next" /\ pc'[t] \in {"test", "release"}
          /\ owner' = [owner EXCEPT ![ahead[t]] = t] /\ UNCHANGED place
      BY <2>6 DEF LockNext, Goto, Types
    <3>2. Held(t) = {current[t]} /\ Held(t)' = {current[t], ahead[t]}
      BY <3>1 DEF Held, HoldsCurrent, HoldsAhead, place
    <3>3. \A n \in Cells : n # ahead[t] => owner'[n] = owner[n]
      BY <3>1 DEF Types
    <3> QED
      BY <1>2, <3>2, <3>3
  <2>7. CASE Release(t)
    <3>1. /\ pc[t] = "release" /\ owner' = [owner EXCEPT ![current[t]] = NoThread] /\ ahead' = ahead
          /\ \/ pc'[t] = "look" /\ current'[t] = ahead[t]
             \/ pc'[t] = "visit"
      BY <2>7 DEF Release, StepAhead, Goto, Types
    <3>2. Held(t) = {current[t], ahead[t]} /\ ahead[t] \in Held(t)'
      BY <3>1 DEF Held, HoldsCurrent, HoldsAhead
    <3>3. \A n \in Cells : owner'[n] = IF n = current[t] THEN NoThread ELSE owner[n]
      BY <3>1 DEF Types
    <3> QED
      BY <1>2, <3>2, <3>3
  <2>8. CASE Visit(t) \/ Try(t)
    <3>1. owner' = owner /\ pc[t] = "visit" /\ pc'[t] \in {"look", "unlock"} /\ current'[t] = ahead[t]
      BY <2>8 DEF Visit, Try, StepAhead, Goto, Types
    <3>2. Held(t) = {ahead[t]} /\ ahead[t] \in Held(t)'
      BY <3>1 DEF Held, HoldsCurrent, HoldsAhead
    <3> QED
      BY <1>2, <3>1, <3>2
  <2>9. CASE UnlockNext(t)
    <3>1. /\ pc[t] = "unlock_next" /\ owner' = [owner EXCEPT ![ahead[t]] = NoThread]
          /\ UNCHANGED place /\ pc'[t] = "free"
      BY <2>9 DEF UnlockNext, Goto, Types
    <3>2. Held(t) = {current[t], ahead[t]} /\ current[t] \in Held(t)'
      BY <3>1 DEF Held, HoldsCurrent, HoldsAhead, place
    <3>3. \A n \in Cells : owner'[n] = IF n = ahead[t] THEN NoThread ELSE owner[n]
      BY <3>1 DEF Types
    <3> QED
      BY <1>2, <3>2, <3>3
  <2> QED
    BY <2>1, <2>2, <2>3, <2>4, <2>5, <2>6, <2>7, <2>8, <2>9 DEF Step
<1> QED
  BY <1>1, <1>3, OwnersFrame

\* Values keep their types: for_each finds a value wherever it comes.
LEMMA StepValues ==
  ASSUME IInv, ValuesOK, NEW t \in Threads, CallPushFront(t) \/ CallTraversal(t) \/ Step(t)
  PROVE  ValuesOK'
<1> USE LockedListAssumption DEF IInv
<1>1. CASE CallPushFront(t)
  <2>1. PICK v \in Values, n \in Nodes \ allocated :
          /\ budget > 0 /\ budget' = budget - 1 /\ answer' = answer
          /\ allocated' = allocated \cup {n} /\ data' = [data EXCEPT ![n] = v]
    BY <1>1 DEF CallPushFront, Call
  <2>2. data' \in [Cells -> Values \cup {NoValue}]
    BY <2>1 DEF ValuesOK
  <2>3. \A m \in allocated' \cap Nodes : data'[m] \in Values
    BY <2>1 DEF ValuesOK, Cells
  <2>4. budget' \in 0 .. MaxCalls
    BY <2>1 DEF ValuesOK
  <2> QED
    BY <2>1, <2>2, <2>3, <2>4 DEF ValuesOK
<1>2. CASE CallTraversal(t)
  <2>1. budget > 0 /\ budget' = budget - 1 /\ UNCHANGED <<allocated, data, answer>>
    BY <1>2 DEF CallTraversal, Call, heap
  <2>2. budget' \in 0 .. MaxCalls
    BY <2>1 DEF ValuesOK
  <2> QED
    BY <2>1, <2>2 DEF ValuesOK
<1>3. CASE Visit(t)
  <2>1. /\ pc[t] = "visit" /\ data' = [data EXCEPT ![ahead[t]] = Image[data[ahead[t]]]]
        /\ UNCHANGED <<allocated, answer, budget>>
    BY <1>3 DEF Visit
  <2>2. ahead[t] \in allocated \cap Nodes
    BY <2>1 DEF LocksOK, HoldsAhead
  <2>3. Image[data[ahead[t]]] \in Values
    BY <2>2 DEF ValuesOK
  <2>4. data' \in [Cells -> Values \cup {NoValue}] /\ \A m \in allocated \cap Nodes : data'[m] \in Values
    BY <2>1, <2>3 DEF ValuesOK, Cells
  <2> QED
    BY <2>1, <2>4 DEF ValuesOK
<1>4. CASE Step(t) /\ ~Visit(t)
  <2>1. /\ UNCHANGED <<data, budget>> /\ allocated' \subseteq allocated
        /\ \/ answer' = answer \/ \E a \in {"none", "yes", "no", answer[t]} : answer' = [answer EXCEPT ![t] = a]
    BY <1>4 DEF Step, LockHead, Link, Unlock, Return, Look, LockNext, Release, Try, Test, Unlink,
                UnlockNext, Free, heap
  <2>2. answer' \in [Threads -> {"none", "yes", "no"}]
    BY <2>1 DEF ValuesOK
  <2> QED
    BY <2>1, <2>2 DEF ValuesOK
<1> QED
  BY <1>1, <1>2, <1>3, <1>4

\* Every step keeps the list whole.
LEMMA NextList ==
  ASSUME ListInv, [Next]_vars
  PROVE  ListInv'
<1>1. IInv'
  BY NextIInv DEF ListInv
<1>2. ASSUME NEW t \in Threads, CallPushFront(t) \/ CallTraversal(t) \/ Step(t)
      PROVE  WholeOK' /\ ValuesOK' /\ OwnersOK'
  <2>1. WholeOK'
    BY <1>2, QuietWhole, LinkWhole, UnlinkWhole DEF Step, ListInv
  <2> QED
    BY <1>2, <2>1, StepValues, StepOwners DEF ListInv
<1>3. CASE UNCHANGED vars
  <2>1. DOMAIN next' = DOMAIN next
        /\ \A n \in Cells : (Public(n) => next'[n] = next[n]) /\ (Public(n)' <=> Public(n))
    BY <1>3 DEF Public, Private, vars, heap, request, place
  <2>2. WholeOK'
    BY <2>1, SameWhole DEF ListInv, IInv
  <2>3. ValuesOK' /\ OwnersOK'
    BY <1>3 DEF ListInv, ValuesOK, OwnersOK, Held, vars, heap, request, place
  <2> QED
    BY <1>1, <2>2, <2>3 DEF ListInv
<1> QED
  BY <1>1, <1>2, <1>3 DEF Next, ListInv

\* Every variable keeps its type, a thread has the locks it should have and no others,
\* and every live node is in the list or in one thread's hands (p254:15, p254:48,
\* p254:79).
THEOREM TypesAndOwners == Spec => []TypeOK
<1>1. Init => ListInv
  BY InitList
<1>2. ListInv /\ [Next]_vars => ListInv'
  BY NextList
<1>3. ListInv => TypeOK
  BY TypeOKIs
<1> QED
  BY <1>1, <1>2, <1>3, PTL DEF Spec
-------------------------------------------------------------------------------
(* Functions one after another. *)

\* G is the start of length k of the iteration of E from x.
Begins(U, x, E, G, k) == /\ G \in [0 .. k -> U]
                         /\ G[0] = x
                         /\ \A i \in 1 .. k : G[i] = E[i][G[i - 1]]

\* F is that iteration.
Iterates(U, x, E, F) == /\ F \in [Nat -> U]
                        /\ F[0] = x
                        /\ \A i \in Nat \ {0} : F[i] = E[i][F[i - 1]]

\* Functions can be iterated.
LEMMA Iteration ==
  ASSUME NEW U, NEW x \in U, NEW E, \A i \in Nat \ {0} : E[i] \in [U -> U]
  PROVE  \E F : Iterates(U, x, E, F)
<1> DEFINE S == {k \in Nat : \E G : Begins(U, x, E, G, k)}
<1>1. 0 \in S
  <2> DEFINE G == [i \in 0 .. 0 |-> x]
  <2>1. Begins(U, x, E, G, 0)
    BY DEF Begins
  <2> QED
    BY <2>1
<1>2. ASSUME NEW k \in Nat, k \in S PROVE k + 1 \in S
  <2>1. PICK G : Begins(U, x, E, G, k)
    BY <1>2
  <2> DEFINE H == [i \in 0 .. k + 1 |-> IF i = k + 1 THEN E[k + 1][G[k]] ELSE G[i]]
  <2>2. G[k] \in U /\ E[k + 1] \in [U -> U] /\ E[k + 1][G[k]] \in U
    <3>1. k + 1 \in Nat \ {0} /\ k \in 0 .. k
      OBVIOUS
    <3> QED
      BY <2>1, <3>1 DEF Begins
  <2>3. H \in [0 .. k + 1 -> U] /\ H[0] = x
    BY <2>1, <2>2 DEF Begins
  <2>4. ASSUME NEW i \in 1 .. k + 1 PROVE H[i] = E[i][H[i - 1]]
    <3>1. i - 1 \in 0 .. k /\ i - 1 # k + 1 /\ H[i - 1] = G[i - 1]
      OBVIOUS
    <3>2. CASE i = k + 1
      BY <3>1, <3>2
    <3>3. CASE i # k + 1
      <4>1. i \in 1 .. k
        BY <3>3
      <4> QED
        BY <2>1, <3>1, <3>3, <4>1 DEF Begins
    <3> QED
      BY <3>2, <3>3
  <2> HIDE DEF H
  <2>5. Begins(U, x, E, H, k + 1)
    BY <2>3, <2>4 DEF Begins
  <2> QED
    BY <2>5
<1> HIDE DEF S
<1>3. \A k \in Nat : k \in S
  BY <1>1, <1>2, SetInduction
<1> DEFINE F == [k \in Nat |-> (CHOOSE G : Begins(U, x, E, G, k))[k]]
<1>4. ASSUME NEW k \in Nat PROVE Begins(U, x, E, CHOOSE G : Begins(U, x, E, G, k), k)
  BY <1>3 DEF S
<1>5. ASSUME NEW k \in Nat, NEW G, Begins(U, x, E, G, k), NEW H, Begins(U, x, E, H, k + 1)
      PROVE  G[k] = H[k]
  <2> DEFINE R == {i \in Nat : i <= k => G[i] = H[i]}
  <2>1. 0 \in R
    BY <1>5 DEF Begins
  <2>2. ASSUME NEW i \in Nat, i \in R PROVE i + 1 \in R
    <3> SUFFICES ASSUME i + 1 <= k PROVE G[i + 1] = H[i + 1]
      OBVIOUS
    <3>1. i + 1 \in 1 .. k /\ i + 1 \in 1 .. k + 1 /\ (i + 1) - 1 = i /\ G[i] = H[i]
      BY <2>2
    <3> QED
      BY <1>5, <3>1 DEF Begins
  <2> HIDE DEF R
  <2>3. k \in R
    BY <2>1, <2>2, SetInduction
  <2> QED
    BY <2>3 DEF R
<1>6. \A k \in Nat : F[k] \in U
  <2> TAKE k \in Nat
  <2>1. k \in 0 .. k
    OBVIOUS
  <2> QED
    BY <1>4, <2>1 DEF Begins
<1>7. F[0] = x
  BY <1>4 DEF Begins
<1>8. ASSUME NEW i \in Nat \ {0} PROVE F[i] = E[i][F[i - 1]]
  <2> DEFINE P == CHOOSE G : Begins(U, x, E, G, i - 1)
             H == CHOOSE G : Begins(U, x, E, G, i)
  <2>1. i - 1 \in Nat /\ (i - 1) + 1 = i /\ i \in 1 .. i
    OBVIOUS
  <2>2. F[i] = H[i] /\ F[i - 1] = P[i - 1]
    BY <2>1
  <2>3. Begins(U, x, E, P, i - 1) /\ Begins(U, x, E, H, i)
    BY <1>4, <2>1
  <2> HIDE DEF P, H, F
  <2>4. P[i - 1] = H[i - 1]
    BY <1>5, <2>1, <2>3
  <2> QED
    BY <2>1, <2>2, <2>3, <2>4 DEF Begins
<1> HIDE DEF F
<1>9. F \in [Nat -> U]
  BY <1>6 DEF F
<1> QED
  BY <1>7, <1>8, <1>9 DEF Iterates
-------------------------------------------------------------------------------
(* Sequences without one of their values. *)

\* The equation of the recursive function in Without.
SieveOf(s, v, W) ==
    [i \in Nat |-> IF i = 0 THEN <<>> ELSE IF s[i] = v THEN W[i - 1] ELSE Append(W[i - 1], s[i])]

\* Without meets its equation, if that can be met ...
LEMMA WithoutEquation ==
  ASSUME NEW s, NEW v, NEW w, w = SieveOf(s, v, w)
  PROVE  \E W : W = SieveOf(s, v, W) /\ Without(s, v) = W[Len(s)]
  BY Zenon DEF Without, SieveOf

\* ... and it can.
LEMMA WithoutIs ==
  ASSUME NEW s, NEW v
  PROVE  \E W : W = SieveOf(s, v, W) /\ Without(s, v) = W[Len(s)]
<1> DEFINE V == {s[i] : i \in Nat}
           U == Seq(V)
           E == [i \in Nat |-> [T \in U |-> IF s[i] = v THEN T ELSE Append(T, s[i])]]
<1>1. \A i \in Nat \ {0} : E[i] \in [U -> U]
  <2>1. \A i \in Nat, T \in U : (IF s[i] = v THEN T ELSE Append(T, s[i])) \in U
    BY AppendProperties
  <2> QED
    BY <2>1
<1> DEFINE e == <<>>
<1>2. e \in U
  OBVIOUS
<1>3. \A i \in Nat \ {0}, T \in U : E[i][T] = IF s[i] = v THEN T ELSE Append(T, s[i])
  OBVIOUS
<1> HIDE DEF E, U, V, e
<1>4. PICK W \in [Nat -> U] : W[0] = e /\ \A i \in Nat \ {0} : W[i] = E[i][W[i - 1]]
  BY <1>1, <1>2, Iteration DEF Iterates
<1>5. \A i \in Nat : W[i] = IF i = 0 THEN <<>>
                            ELSE IF s[i] = v THEN W[i - 1] ELSE Append(W[i - 1], s[i])
  <2> TAKE i \in Nat
  <2>1. i # 0 => i \in Nat \ {0} /\ W[i - 1] \in U
    OBVIOUS
  <2> QED
    BY <1>3, <1>4, <2>1 DEF e
<1>6. W = SieveOf(s, v, W)
  <2>1. SieveOf(s, v, W) \in [Nat -> U] /\ \A i \in Nat : SieveOf(s, v, W)[i] = W[i]
    BY <1>5 DEF SieveOf
  <2> QED
    BY <2>1
<1> QED
  BY <1>6, WithoutEquation

\* Without on the empty sequence and on one member more.
LEMMA WithoutEmpty ==
  ASSUME NEW v
  PROVE  Without(<<>>, v) = <<>>
<1>1. PICK W : W = SieveOf(<<>>, v, W) /\ Without(<<>>, v) = W[Len(<<>>)]
  BY WithoutIs
<1>2. Len(<<>>) = 0
  OBVIOUS
<1>3. W[0] = <<>>
  <2>1. W[0] = SieveOf(<<>>, v, W)[0]
    BY <1>1
  <2> QED
    BY <2>1 DEF SieveOf
<1> QED
  BY <1>1, <1>2, <1>3

\* ... and with one more.
LEMMA WithoutAppend ==
  ASSUME NEW V, NEW s \in Seq(V), NEW x \in V, NEW v
  PROVE  Without(Append(s, x), v) = IF x = v THEN Without(s, v) ELSE Append(Without(s, v), x)
<1> DEFINE r == Append(s, x)
           n == Len(s)
<1>1. /\ n \in Nat /\ Len(r) = n + 1 /\ r[n + 1] = x
      /\ \A i \in 1 .. n : r[i] = s[i]
  BY AppendProperties
<1>2. PICK W : W = SieveOf(s, v, W) /\ Without(s, v) = W[n]
  BY WithoutIs
<1>3. PICK Y : Y = SieveOf(r, v, Y) /\ Without(r, v) = Y[Len(r)]
  BY WithoutIs
<1>4. \A i \in Nat : W[i] = IF i = 0 THEN <<>>
                            ELSE IF s[i] = v THEN W[i - 1] ELSE Append(W[i - 1], s[i])
  <2> HIDE DEF n
  <2> TAKE i \in Nat
  <2>1. W[i] = SieveOf(s, v, W)[i]
    BY <1>2
  <2> QED
    BY <2>1 DEF SieveOf
<1> HIDE DEF r, n
<1>5. \A i \in Nat : Y[i] = IF i = 0 THEN <<>>
                            ELSE IF r[i] = v THEN Y[i - 1] ELSE Append(Y[i - 1], r[i])
  <2> TAKE i \in Nat
  <2>1. Y[i] = SieveOf(r, v, Y)[i]
    BY <1>3
  <2> QED
    BY <2>1 DEF SieveOf
<1> DEFINE R == {i \in Nat : i <= n => Y[i] = W[i]}
<1>6. 0 \in R
  BY <1>4, <1>5
<1>7. ASSUME NEW i \in Nat, i \in R PROVE i + 1 \in R
  <2> SUFFICES ASSUME i + 1 <= n PROVE Y[i + 1] = W[i + 1]
    OBVIOUS
  <2>1. i + 1 \in 1 .. n /\ i + 1 \in Nat /\ i + 1 # 0 /\ (i + 1) - 1 = i /\ Y[i] = W[i]
    BY <1>1, <1>7
  <2>2. r[i + 1] = s[i + 1]
    BY <1>1, <2>1
  <2>3. Y[i + 1] = IF r[i + 1] = v THEN Y[i] ELSE Append(Y[i], r[i + 1])
    BY <1>5, <2>1
  <2>4. W[i + 1] = IF s[i + 1] = v THEN W[i] ELSE Append(W[i], s[i + 1])
    BY <1>4, <2>1
  <2> QED
    BY <2>1, <2>2, <2>3, <2>4
<1> HIDE DEF R
<1>8. n \in R
  BY <1>1, <1>6, <1>7, SetInduction
<1>9. Y[n] = W[n]
  BY <1>1, <1>8 DEF R
<1>10. Y[n + 1] = IF x = v THEN Y[n] ELSE Append(Y[n], x)
  <2>1. n + 1 \in Nat /\ n + 1 # 0 /\ (n + 1) - 1 = n
    BY <1>1
  <2> QED
    BY <1>1, <1>5, <2>1
<1>11. Without(s, v) = W[n] /\ Without(r, v) = Y[n + 1]
  BY <1>1, <1>2, <1>3
<1> QED
  BY <1>9, <1>10, <1>11 DEF r

\* What is left of the first k members of x.
Kept(x, v, k) == Without([i \in 1 .. k |-> x[i]], v)

\* It grows with k to what is left of x.
Grows(V, n, x, v) ==
    /\ Kept(x, v, 0) = <<>>
    /\ Kept(x, v, n) = Without(x, v)
    /\ \A k \in 1 .. n : Kept(x, v, k) = IF x[k] = v THEN Kept(x, v, k - 1)
                                          ELSE Append(Kept(x, v, k - 1), x[k])
    /\ \A k \in 0 .. n : Kept(x, v, k) \in Seq(V \ {v})

\* A member more is kept or left out.
LEMMA KeptGrows ==
  ASSUME NEW V, NEW n \in Nat, NEW x \in [1 .. n -> V], NEW v
  PROVE  Grows(V, n, x, v)
<1>1. Kept(x, v, 0) = <<>>
  <2>1. 1 .. 0 = {}
    OBVIOUS
  <2>2. [i \in 1 .. 0 |-> x[i]] = <<>>
    BY <2>1
  <2> QED
    BY <2>2, WithoutEmpty DEF Kept
<1>2. Kept(x, v, n) = Without(x, v)
  <2>1. [i \in 1 .. n |-> x[i]] = x
    OBVIOUS
  <2> QED
    BY <2>1 DEF Kept
<1>3. ASSUME NEW k \in 1 .. n
      PROVE  Kept(x, v, k) = IF x[k] = v THEN Kept(x, v, k - 1) ELSE Append(Kept(x, v, k - 1), x[k])
  <2> DEFINE f == [i \in 1 .. k - 1 |-> x[i]]
             g == [i \in 1 .. k |-> x[i]]
  <2>1. k - 1 \in Nat /\ (k - 1) + 1 = k /\ \A i \in 1 .. k : i \in 1 .. n
    OBVIOUS
  <2>2. f \in [1 .. k - 1 -> V] /\ \A i \in 1 .. k - 1 : i \in 1 .. k
    BY <2>1
  <2>3. f \in Seq(V) /\ Len(f) = k - 1
    <3>1. f \in Seq(V)
      BY <2>1, <2>2
    <3>2. DOMAIN f = 1 .. k - 1
      OBVIOUS
    <3> QED
      BY <2>1, <3>1, <3>2, LenProperties
  <2>4. x[k] \in V
    OBVIOUS
  <2>5. /\ Append(f, x[k]) \in Seq(V) /\ Len(Append(f, x[k])) = k
        /\ \A i \in 1 .. k - 1 : Append(f, x[k])[i] = f[i]
        /\ Append(f, x[k])[k] = x[k]
    <3> HIDE DEF f, g
    <3> QED
      BY <2>1, <2>3, <2>4, AppendProperties
  <2>6. Append(f, x[k]) = [i \in 1 .. k |-> Append(f, x[k])[i]]
    <3> HIDE DEF f, g
    <3> QED
      BY <2>5, LenProperties
  <2>7. \A i \in 1 .. k : Append(f, x[k])[i] = x[i]
    <3>1. \A i \in 1 .. k : i # k => i \in 1 .. k - 1
      BY <2>1
    <3>2. \A i \in 1 .. k - 1 : f[i] = x[i]
      OBVIOUS
    <3> HIDE DEF f, g
    <3> QED
      BY <2>5, <3>1, <3>2
  <2>8. g = Append(f, x[k])
    <3>1. g = [i \in 1 .. k |-> x[i]]
      OBVIOUS
    <3> HIDE DEF f, g
    <3> QED
      BY <2>6, <2>7, <3>1
  <2> HIDE DEF f, g
  <2>9. Without(g, v) = IF x[k] = v THEN Without(f, v) ELSE Append(Without(f, v), x[k])
    BY <2>3, <2>4, <2>8, WithoutAppend
  <2> QED
    BY <2>9 DEF Kept, f, g
<1> DEFINE S == {k \in Nat : k <= n => Kept(x, v, k) \in Seq(V \ {v})}
<1>4. 0 \in S
  <2>1. <<>> \in Seq(V \ {v})
    OBVIOUS
  <2>2. Kept(x, v, 0) \in Seq(V \ {v})
    BY <1>1, <2>1
  <2> QED
    BY <2>2
<1>5. ASSUME NEW k \in Nat, k \in S PROVE k + 1 \in S
  <2> SUFFICES ASSUME k + 1 <= n PROVE Kept(x, v, k + 1) \in Seq(V \ {v})
    OBVIOUS
  <2>1. k + 1 \in 1 .. n /\ (k + 1) - 1 = k /\ Kept(x, v, k) \in Seq(V \ {v}) /\ x[k + 1] \in V
    BY <1>5
  <2> HIDE DEF S
  <2>2. x[k + 1] # v => Append(Kept(x, v, k), x[k + 1]) \in Seq(V \ {v})
    BY <2>1, AppendProperties
  <2> QED
    BY <1>3, <2>1, <2>2
<1> HIDE DEF S
<1>6. \A k \in Nat : k \in S
  BY <1>4, <1>5, SetInduction
<1>7. \A k \in 0 .. n : Kept(x, v, k) \in Seq(V \ {v})
  BY <1>6 DEF S
<1> QED
  BY <1>1, <1>2, <1>3, <1>7 DEF Grows

\* x is a sequence of n members of V.
Members(V, n, x) == n \in Nat /\ x \in [1 .. n -> V]

\* r has the members of x but v.
Leaves(n, x, v, r) == \A y : (\E i \in DOMAIN r : r[i] = y) <=> y # v /\ \E i \in 1 .. n : x[i] = y

\* The members of what is left.
LEMMA WithoutMembers ==
  ASSUME NEW V, NEW n, NEW x, Members(V, n, x), NEW v
  PROVE  Without(x, v) \in Seq(V \ {v}) /\ Leaves(n, x, v, Without(x, v))
<1> USE DEF Members
<1>0. Grows(V, n, x, v)
  BY KeptGrows
<1>9. /\ Kept(x, v, 0) = <<>>
      /\ Kept(x, v, n) = Without(x, v)
      /\ \A k \in 1 .. n : Kept(x, v, k) = IF x[k] = v THEN Kept(x, v, k - 1)
                                            ELSE Append(Kept(x, v, k - 1), x[k])
  BY <1>0 DEF Grows
<1> DEFINE K(k) == Kept(x, v, k)
           Good(k) == /\ K(k) \in Seq(V \ {v})
                      /\ \A y : (\E i \in 1 .. Len(K(k)) : K(k)[i] = y)
                                   <=> y # v /\ \E i \in 1 .. k : x[i] = y
           S == {k \in Nat : k <= n => Good(k)}
<1>1. 0 \in S
  <2>1. K(0) = <<>>
    BY <1>9
  <2>2. <<>> \in Seq(V \ {v}) /\ Len(<<>>) = 0 /\ 1 .. 0 = {}
    OBVIOUS
  <2> HIDE DEF K
  <2>3. Good(0)
    BY <2>1, <2>2
  <2> QED
    BY <2>3
<1>2. ASSUME NEW k \in Nat, k \in S PROVE k + 1 \in S
  <2> SUFFICES ASSUME k + 1 <= n PROVE Good(k + 1)
    OBVIOUS
  <2>1. /\ k + 1 \in 1 .. n /\ (k + 1) - 1 = k /\ Good(k) /\ x[k + 1] \in V
        /\ \A i : i \in 1 .. k + 1 <=> i = k + 1 \/ i \in 1 .. k
    <3> HIDE DEF Good
    <3> QED
      BY <1>2
  <2> HIDE DEF S
  <2>2. K(k + 1) = IF x[k + 1] = v THEN K(k) ELSE Append(K(k), x[k + 1])
    BY <1>9, <2>1
  <2> HIDE DEF K
  <2>3. CASE x[k + 1] = v
    <3>1. K(k + 1) = K(k)
      BY <2>2, <2>3
    <3>2. \A y : (\E i \in 1 .. k + 1 : x[i] = y) <=> y = v \/ \E i \in 1 .. k : x[i] = y
      BY <2>1, <2>3
    <3> QED
      BY <2>1, <3>1, <3>2
  <2>4. CASE x[k + 1] # v
    <3> DEFINE m == Len(K(k))
    <3>1. /\ K(k + 1) \in Seq(V \ {v}) /\ Len(K(k + 1)) = m + 1 /\ m \in Nat
          /\ \A i \in 1 .. m : K(k + 1)[i] = K(k)[i]
          /\ K(k + 1)[m + 1] = x[k + 1]
      <4>1. K(k + 1) = Append(K(k), x[k + 1]) /\ K(k) \in Seq(V \ {v}) /\ x[k + 1] \in V \ {v}
        BY <2>1, <2>2, <2>4
      <4> QED
        BY <4>1, AppendProperties
    <3>2. \A i : i \in 1 .. m + 1 <=> i = m + 1 \/ i \in 1 .. m
      BY <3>1
    <3>3. \A y : (\E i \in 1 .. Len(K(k)) : K(k)[i] = y) <=> y # v /\ \E i \in 1 .. k : x[i] = y
      BY <2>1
    <3> HIDE DEF m
    <3>4. \A y : (\E i \in 1 .. m + 1 : K(k + 1)[i] = y) <=> y = x[k + 1] \/ \E i \in 1 .. m : K(k)[i] = y
      BY <3>1, <3>2
    <3>5. \A y : (\E i \in 1 .. k + 1 : x[i] = y) <=> y = x[k + 1] \/ \E i \in 1 .. k : x[i] = y
      BY <2>1
    <3>6. \A y : (\E i \in 1 .. Len(K(k + 1)) : K(k + 1)[i] = y)
                    <=> y # v /\ \E i \in 1 .. k + 1 : x[i] = y
      BY <2>4, <3>1, <3>3, <3>4, <3>5 DEF m
    <3> QED
      BY <3>1, <3>6
  <2> QED
    BY <2>3, <2>4
<1> HIDE DEF S
<1>3. n \in S
  BY <1>1, <1>2, SetInduction
<1>4. Good(n)
  BY <1>3 DEF S
<1>5. K(n) = Without(x, v)
  BY <1>9
<1>6. DOMAIN K(n) = 1 .. Len(K(n))
  BY <1>4, LenProperties
<1> QED
  BY <1>4, <1>5, <1>6 DEF Leaves

\* f of every member of s.
Mapped(f, s) == [i \in DOMAIN s |-> f[s[i]]]

\* A member more is mapped, too ...
LEMMA MappedAppend ==
  ASSUME NEW A, NEW f, NEW s \in Seq(A), NEW a \in A
  PROVE  Mapped(f, Append(s, a)) = Append(Mapped(f, s), f[a])
<1> DEFINE B == {f[b] : b \in A}
           n == Len(s)
           r == Append(s, a)
           g == Mapped(f, s)
           h == Mapped(f, r)
<1>1. /\ n \in Nat /\ DOMAIN s = 1 .. n /\ DOMAIN r = 1 .. n + 1
      /\ \A i \in 1 .. n : r[i] = s[i] /\ s[i] \in A
      /\ r[n + 1] = a
  <2>1. /\ n \in Nat /\ r \in Seq(A) /\ Len(r) = n + 1
        /\ \A i \in 1 .. n : r[i] = s[i]
        /\ r[n + 1] = a
    BY AppendProperties
  <2> HIDE DEF r
  <2> QED
    BY <2>1, LenProperties, ElementOfSeq
<1> HIDE DEF r, n
<1>2. g \in [1 .. n -> B] /\ \A i \in 1 .. n : g[i] = f[s[i]]
  BY <1>1 DEF Mapped
<1>3. g \in Seq(B) /\ Len(g) = n
  <2> HIDE DEF g
  <2>1. g \in Seq(B) /\ DOMAIN g = 1 .. n
    BY <1>1, <1>2
  <2> QED
    BY <1>1, <2>1, LenProperties
<1>4. h = [i \in 1 .. n + 1 |-> f[r[i]]]
  BY <1>1 DEF Mapped
<1> HIDE DEF g, h
<1>5. f[a] \in B
  OBVIOUS
<1> HIDE DEF B
<1>6. /\ Append(g, f[a]) \in Seq(B) /\ Len(Append(g, f[a])) = n + 1
      /\ \A i \in 1 .. n : Append(g, f[a])[i] = g[i]
      /\ Append(g, f[a])[n + 1] = f[a]
  BY <1>3, <1>5, AppendProperties
<1>7. Append(g, f[a]) = [i \in 1 .. n + 1 |-> Append(g, f[a])[i]]
  BY <1>6, LenProperties
<1>8. \A i \in 1 .. n + 1 : Append(g, f[a])[i] = f[r[i]]
  <2>1. \A i \in 1 .. n + 1 : i = n + 1 \/ i \in 1 .. n
    BY <1>1
  <2> QED
    BY <1>1, <1>2, <1>6, <2>1
<1>9. h = Append(g, f[a])
  BY <1>4, <1>7, <1>8
<1> QED
  BY <1>9 DEF g, h, r

\* ... and of none there are none.
LEMMA MappedEmpty ==
  ASSUME NEW f
  PROVE  Mapped(f, <<>>) = <<>>
<1>1. DOMAIN <<>> = {}
  OBVIOUS
<1>2. Mapped(f, <<>>) = [i \in {} |-> f[<<>>[i]]]
  BY <1>1 DEF Mapped
<1> QED
  BY <1>2

\* To change all members but v is to change what is left without v.
LEMMA WithoutMapped ==
  ASSUME NEW V, NEW n, NEW x, NEW y, Members(V, n, x), Members(V, n, y), NEW v,
         NEW f \in [V \ {v} -> V \ {v}],
         \A i \in 1 .. n : y[i] = IF x[i] = v THEN v ELSE f[x[i]]
  PROVE  Without(y, v) = Mapped(f, Without(x, v))
<1> USE DEF Members
<1>1. Grows(V, n, x, v) /\ Grows(V, n, y, v)
  BY KeptGrows
<1> DEFINE S == {k \in Nat : k <= n => Kept(y, v, k) = Mapped(f, Kept(x, v, k))}
<1>2. 0 \in S
  <2>1. Kept(x, v, 0) = <<>> /\ Kept(y, v, 0) = <<>>
    BY <1>1 DEF Grows
  <2>2. Kept(y, v, 0) = Mapped(f, Kept(x, v, 0))
    BY <2>1, MappedEmpty
  <2> QED
    BY <2>2
<1>3. ASSUME NEW k \in Nat, k \in S PROVE k + 1 \in S
  <2> SUFFICES ASSUME k + 1 <= n PROVE Kept(y, v, k + 1) = Mapped(f, Kept(x, v, k + 1))
    OBVIOUS
  <2>1. /\ k + 1 \in 1 .. n /\ (k + 1) - 1 = k /\ Kept(y, v, k) = Mapped(f, Kept(x, v, k))
        /\ x[k + 1] \in V /\ k \in 0 .. n
    BY <1>3
  <2> HIDE DEF S
  <2>2. /\ Kept(x, v, k + 1) = IF x[k + 1] = v THEN Kept(x, v, k) ELSE Append(Kept(x, v, k), x[k + 1])
        /\ Kept(y, v, k + 1) = IF y[k + 1] = v THEN Kept(y, v, k) ELSE Append(Kept(y, v, k), y[k + 1])
        /\ Kept(x, v, k) \in Seq(V \ {v})
    BY <1>1, <2>1 DEF Grows
  <2>3. CASE x[k + 1] = v
    BY <2>1, <2>2, <2>3
  <2>4. CASE x[k + 1] # v
    <3>1. x[k + 1] \in V \ {v} /\ y[k + 1] = f[x[k + 1]] /\ f[x[k + 1]] # v
      BY <2>1, <2>4
    <3>2. Mapped(f, Append(Kept(x, v, k), x[k + 1])) = Append(Mapped(f, Kept(x, v, k)), f[x[k + 1]])
      <4> DEFINE A == V \ {v}
      <4>1. Kept(x, v, k) \in Seq(A) /\ x[k + 1] \in A
        BY <2>2, <3>1
      <4> HIDE DEF A
      <4> QED
        BY <4>1, MappedAppend
    <3> QED
      BY <2>1, <2>2, <2>4, <3>1, <3>2
  <2> QED
    BY <2>3, <2>4
<1> HIDE DEF S
<1>4. n \in S
  BY <1>2, <1>3, SetInduction
<1>5. Kept(y, v, n) = Mapped(f, Kept(x, v, n))
  BY <1>4 DEF S
<1> QED
  BY <1>1, <1>5 DEF Grows

\* To turn the members w into v is to leave them out, too.
LEMMA WithoutBoth ==
  ASSUME NEW V, NEW n, NEW x, NEW y, Members(V, n, x), Members(V, n, y), NEW v, NEW w,
         \A i \in 1 .. n : y[i] = IF x[i] = w THEN v ELSE x[i]
  PROVE  Without(y, v) = Without(Without(x, v), w)
<1> USE DEF Members
<1>1. Grows(V, n, x, v) /\ Grows(V, n, y, v)
  BY KeptGrows
<1> DEFINE S == {k \in Nat : k <= n => Kept(y, v, k) = Without(Kept(x, v, k), w)}
<1>2. 0 \in S
  <2>1. Kept(x, v, 0) = <<>> /\ Kept(y, v, 0) = <<>>
    BY <1>1 DEF Grows
  <2>2. Kept(y, v, 0) = Without(Kept(x, v, 0), w)
    BY <2>1, WithoutEmpty
  <2> QED
    BY <2>2
<1>3. ASSUME NEW k \in Nat, k \in S PROVE k + 1 \in S
  <2> SUFFICES ASSUME k + 1 <= n PROVE Kept(y, v, k + 1) = Without(Kept(x, v, k + 1), w)
    OBVIOUS
  <2>1. /\ k + 1 \in 1 .. n /\ (k + 1) - 1 = k /\ Kept(y, v, k) = Without(Kept(x, v, k), w)
        /\ x[k + 1] \in V /\ k \in 0 .. n
    BY <1>3
  <2> HIDE DEF S
  <2>2. /\ Kept(x, v, k + 1) = IF x[k + 1] = v THEN Kept(x, v, k) ELSE Append(Kept(x, v, k), x[k + 1])
        /\ Kept(y, v, k + 1) = IF y[k + 1] = v THEN Kept(y, v, k) ELSE Append(Kept(y, v, k), y[k + 1])
        /\ Kept(x, v, k) \in Seq(V \ {v})
    BY <1>1, <2>1 DEF Grows
  <2>3. CASE x[k + 1] = v
    BY <2>1, <2>2, <2>3
  <2>4. CASE x[k + 1] # v
    <3>1. x[k + 1] \in V \ {v} /\ y[k + 1] = IF x[k + 1] = w THEN v ELSE x[k + 1]
      BY <2>1, <2>4
    <3>2. Without(Append(Kept(x, v, k), x[k + 1]), w)
             = IF x[k + 1] = w THEN Without(Kept(x, v, k), w)
               ELSE Append(Without(Kept(x, v, k), w), x[k + 1])
      <4> DEFINE A == V \ {v}
      <4>1. Kept(x, v, k) \in Seq(A) /\ x[k + 1] \in A
        BY <2>2, <3>1
      <4> HIDE DEF A
      <4> QED
        BY <4>1, WithoutAppend
    <3> QED
      BY <2>1, <2>2, <2>4, <3>1, <3>2
  <2> QED
    BY <2>3, <2>4
<1> HIDE DEF S
<1>4. n \in S
  BY <1>2, <1>3, SetInduction
<1>5. Kept(y, v, n) = Without(Kept(x, v, n), w)
  BY <1>4 DEF S
<1> QED
  BY <1>1, <1>5 DEF Grows

\* y is x with z put in behind the first p members.
PutIn(n, x, p, z, y) ==
    /\ p \in 0 .. n
    /\ DOMAIN y = 1 .. n + 1
    /\ \A i \in 1 .. p : y[i] = x[i]
    /\ y[p + 1] = z
    /\ \A i \in p + 1 .. n : y[i + 1] = x[i]

\* That does not matter when z is left out ...
LEMMA WithoutPutIn ==
  ASSUME NEW V, NEW n, NEW x, NEW y, Members(V, n, x), Members(V, n + 1, y), NEW v,
         NEW p, PutIn(n, x, p, v, y)
  PROVE  Without(y, v) = Without(x, v)
<1> USE DEF Members
<1>1. Grows(V, n, x, v) /\ Grows(V, n + 1, y, v)
  <2>1. n + 1 \in Nat
    OBVIOUS
  <2> QED
    BY <2>1, KeptGrows
<1>2. p \in 0 .. n
  BY DEF PutIn
<1> DEFINE S == {k \in Nat : /\ k <= p => Kept(y, v, k) = Kept(x, v, k)
                             /\ p <= k /\ k <= n => Kept(y, v, k + 1) = Kept(x, v, k)}
<1>3. ASSUME NEW k \in Nat, k <= p, Kept(y, v, k) = Kept(x, v, k) PROVE k \in S
  <2> SUFFICES ASSUME k = p PROVE Kept(y, v, k + 1) = Kept(x, v, k)
    BY <1>2, <1>3
  <2>1. k + 1 \in 1 .. n + 1 /\ (k + 1) - 1 = k /\ y[k + 1] = v
    BY <1>2 DEF PutIn
  <2>2. Kept(y, v, k + 1) = Kept(y, v, k)
    BY <1>1, <2>1 DEF Grows
  <2> QED
    BY <1>3, <2>2
<1>4. 0 \in S
  <2>1. Kept(x, v, 0) = <<>> /\ Kept(y, v, 0) = <<>>
    BY <1>1 DEF Grows
  <2> HIDE DEF S
  <2> QED
    BY <1>2, <1>3, <2>1
<1>5. ASSUME NEW k \in Nat, k \in S PROVE k + 1 \in S
  <2>1. CASE k + 1 <= p
    <3>1. /\ k + 1 \in 1 .. n /\ k + 1 \in 1 .. n + 1 /\ (k + 1) - 1 = k /\ k + 1 \in 1 .. p
          /\ Kept(y, v, k) = Kept(x, v, k)
      BY <1>2, <1>5, <2>1
    <3> HIDE DEF S
    <3>2. y[k + 1] = x[k + 1]
      BY <3>1 DEF PutIn
    <3>3. Kept(y, v, k + 1) = Kept(x, v, k + 1)
      BY <1>1, <3>1, <3>2 DEF Grows
    <3> QED
      BY <1>3, <2>1, <3>3
  <2>2. CASE p <= k
    <3> SUFFICES ASSUME k + 1 <= n PROVE Kept(y, v, (k + 1) + 1) = Kept(x, v, k + 1)
      BY <1>2, <2>2
    <3>1. /\ k + 1 \in 1 .. n /\ (k + 1) + 1 \in 1 .. n + 1 /\ ((k + 1) + 1) - 1 = k + 1 /\ (k + 1) - 1 = k
          /\ k + 1 \in p + 1 .. n
          /\ Kept(y, v, k + 1) = Kept(x, v, k)
      BY <1>2, <1>5, <2>2
    <3> HIDE DEF S
    <3>2. y[(k + 1) + 1] = x[k + 1]
      BY <3>1 DEF PutIn
    <3>3. Kept(x, v, k + 1) = IF x[k + 1] = v THEN Kept(x, v, k) ELSE Append(Kept(x, v, k), x[k + 1])
      BY <1>1, <3>1 DEF Grows
    <3>4. Kept(y, v, (k + 1) + 1) = IF x[k + 1] = v THEN Kept(y, v, k + 1)
                                    ELSE Append(Kept(y, v, k + 1), x[k + 1])
      BY <1>1, <3>1, <3>2 DEF Grows
    <3> QED
      BY <3>1, <3>3, <3>4
  <2> QED
    BY <1>2, <2>1, <2>2
<1> HIDE DEF S
<1>6. n \in S
  BY <1>4, <1>5, SetInduction
<1>7. Kept(y, v, n + 1) = Kept(x, v, n)
  BY <1>2, <1>6 DEF S
<1> QED
  BY <1>1, <1>7 DEF Grows

\* ... and otherwise, in front of all, it comes first.
LEMMA WithoutPutFirst ==
  ASSUME NEW V, NEW n, NEW x, NEW y, Members(V, n, x), Members(V, n + 1, y), NEW v,
         NEW z \in V \ {v}, PutIn(n, x, 0, z, y)
  PROVE  Without(y, v) = <<z>> \o Without(x, v)
<1> USE DEF Members
<1>1. Grows(V, n, x, v) /\ Grows(V, n + 1, y, v)
  <2>1. n + 1 \in Nat
    OBVIOUS
  <2> QED
    BY <2>1, KeptGrows
<1>2. y[1] = z /\ \A i \in 1 .. n : y[i + 1] = x[i]
  BY DEF PutIn
<1> DEFINE S == {k \in Nat : k <= n => Kept(y, v, k + 1) = <<z>> \o Kept(x, v, k)}
<1>3. 0 \in S
  <2>1. Kept(x, v, 0) = <<>> /\ Kept(y, v, 0) = <<>>
    BY <1>1 DEF Grows
  <2>2. 1 \in 1 .. n + 1 /\ 1 - 1 = 0 /\ 0 + 1 = 1
    OBVIOUS
  <2>3. Kept(y, v, 1) = Append(Kept(y, v, 0), y[1])
    BY <1>1, <1>2, <2>2 DEF Grows
  <2>4. Kept(y, v, 0 + 1) = <<z>> \o Kept(x, v, 0)
    <3>1. Append(<<>>, z) = <<z>> /\ <<z>> \o <<>> = <<z>>
      OBVIOUS
    <3> QED
      BY <1>2, <2>1, <2>2, <2>3, <3>1
  <2> QED
    BY <2>4
<1>4. ASSUME NEW k \in Nat, k \in S PROVE k + 1 \in S
  <2> SUFFICES ASSUME k + 1 <= n PROVE Kept(y, v, (k + 1) + 1) = <<z>> \o Kept(x, v, k + 1)
    OBVIOUS
  <2>1. /\ k + 1 \in 1 .. n /\ (k + 1) + 1 \in 1 .. n + 1 /\ ((k + 1) + 1) - 1 = k + 1 /\ (k + 1) - 1 = k
        /\ Kept(y, v, k + 1) = <<z>> \o Kept(x, v, k) /\ k \in 0 .. n /\ x[k + 1] \in V
    BY <1>4
  <2> HIDE DEF S
  <2>2. /\ Kept(x, v, k + 1) = IF x[k + 1] = v THEN Kept(x, v, k) ELSE Append(Kept(x, v, k), x[k + 1])
        /\ Kept(y, v, (k + 1) + 1) = IF x[k + 1] = v THEN Kept(y, v, k + 1)
                                     ELSE Append(Kept(y, v, k + 1), x[k + 1])
        /\ Kept(x, v, k) \in Seq(V \ {v})
    BY <1>1, <1>2, <2>1 DEF Grows
  <2>3. \A s \in Seq(V), a \in V : <<z>> \o Append(s, a) = Append(<<z>> \o s, a)
    OBVIOUS
  <2>4. Kept(x, v, k) \in Seq(V)
    BY <2>2
  <2> QED
    BY <2>1, <2>2, <2>3, <2>4
<1> HIDE DEF S
<1>5. n \in S
  BY <1>3, <1>4, SetInduction
<1>6. Kept(y, v, n + 1) = <<z>> \o Kept(x, v, n)
  BY <1>5 DEF S
<1> QED
  BY <1>1, <1>6 DEF Grows

-------------------------------------------------------------------------------
(* Values on their way down. *)

\* What becomes of y on its way down from N to 0, when E[q] is done to it at q.
Comes(U, V, N, y, E) == /\ V \in [0 .. N -> U]
                        /\ V[N] = y
                        /\ \A q \in 0 .. N - 1 : V[q] = E[q][V[q + 1]]

\* Two ways down meet at b and do the same from there to a; the second is d higher.
Meet(U, V, N, y, E, Z, M, z, F, a, b, d) ==
    /\ N \in Nat /\ Comes(U, V, N, y, E)
    /\ M \in Nat /\ Comes(U, Z, M, z, F)
    /\ a \in Nat /\ b \in Nat /\ d \in Int
    /\ a <= b /\ b <= N /\ 0 <= a + d /\ b + d <= M
    /\ Z[b + d] = V[b]
    /\ \A q \in a .. b - 1 : F[q + d] = E[q]

\* Then they agree from b to a.
LEMMA ComesAlike ==
  ASSUME NEW U, NEW V, NEW N, NEW y, NEW E, NEW Z, NEW M, NEW z, NEW F, NEW a, NEW b, NEW d,
         Meet(U, V, N, y, E, Z, M, z, F, a, b, d)
  PROVE  \A q \in a .. b : Z[q + d] = V[q]
<1> USE DEF Meet
<1> DEFINE S == {k \in Nat : a <= b - k => Z[(b - k) + d] = V[b - k]}
<1>1. 0 \in S
  OBVIOUS
<1>2. ASSUME NEW k \in Nat, k \in S PROVE k + 1 \in S
  <2> SUFFICES ASSUME a <= b - (k + 1) PROVE Z[(b - (k + 1)) + d] = V[b - (k + 1)]
    OBVIOUS
  <2> DEFINE q == b - (k + 1)
  <2>1. /\ q \in a .. b - 1 /\ q \in 0 .. N - 1 /\ q + d \in 0 .. M - 1
        /\ q + 1 = b - k /\ (q + d) + 1 = (b - k) + d
        /\ Z[(b - k) + d] = V[b - k]
    BY <1>2
  <2> HIDE DEF S, q
  <2>2. V[q] = E[q][V[q + 1]]
    BY <2>1 DEF Comes
  <2>3. Z[q + d] = F[q + d][Z[(q + d) + 1]]
    BY <2>1 DEF Comes
  <2>4. Z[q + d] = V[q]
    BY <2>1, <2>2, <2>3
  <2> QED
    BY <2>4 DEF q
<1> HIDE DEF S
<1>3. ASSUME NEW q \in a .. b PROVE Z[q + d] = V[q]
  <2>1. b - q \in Nat /\ b - (b - q) = q /\ a <= q
    OBVIOUS
  <2>2. b - q \in S
    BY <1>1, <1>2, <2>1, SetInduction
  <2> QED
    BY <2>1, <2>2 DEF S
<1> QED
  BY <1>3

\* Nothing is done from b to a to the value that comes to b.
Calm(U, V, N, y, E, a, b) == /\ N \in Nat /\ Comes(U, V, N, y, E)
                             /\ a \in Nat /\ b \in Nat /\ a <= b /\ b <= N
                             /\ \A q \in a .. b - 1 : E[q][V[b]] = V[b]

\* Then it stays the same.
LEMMA ComesQuiet ==
  ASSUME NEW U, NEW V, NEW N, NEW y, NEW E, NEW a, NEW b, Calm(U, V, N, y, E, a, b)
  PROVE  \A q \in a .. b : V[q] = V[b]
<1> USE DEF Calm
<1> DEFINE S == {k \in Nat : a <= b - k => V[b - k] = V[b]}
<1>1. 0 \in S
  OBVIOUS
<1>2. ASSUME NEW k \in Nat, k \in S PROVE k + 1 \in S
  <2> SUFFICES ASSUME a <= b - (k + 1) PROVE V[b - (k + 1)] = V[b]
    OBVIOUS
  <2> DEFINE q == b - (k + 1)
  <2>1. q \in a .. b - 1 /\ q \in 0 .. N - 1 /\ q + 1 = b - k /\ V[b - k] = V[b]
    BY <1>2
  <2> HIDE DEF S, q
  <2>2. V[q] = E[q][V[q + 1]]
    BY <2>1 DEF Comes
  <2>3. V[q] = V[b]
    BY <2>1, <2>2
  <2> QED
    BY <2>3 DEF q
<1> HIDE DEF S
<1>3. ASSUME NEW q \in a .. b PROVE V[q] = V[b]
  <2>1. b - q \in Nat /\ b - (b - q) = q /\ a <= q
    OBVIOUS
  <2>2. b - q \in S
    BY <1>1, <1>2, <2>1, SetInduction
  <2> QED
    BY <2>1, <2>2 DEF S
<1> QED
  BY <1>3
-------------------------------------------------------------------------------
(* All of them, the one at place i from 2 * i. *)

Flow(U, M, x, E, W) == /\ M \in Nat
                       /\ \A q \in Nat : E[q] \in [U -> U]
                       /\ \A i \in 1 .. M : Comes(U, W[i], 2 * i, x[i], E)

\* Nothing is done at q.
Idle(U, E, q) == \A u \in U : E[q][u] = u

\* They come down alike when the same is done to the same values.
LEMMA FlowSame ==
  ASSUME NEW U, NEW M, NEW x, NEW E, NEW W, Flow(U, M, x, E, W),
         NEW y, NEW F, NEW Z, Flow(U, M, y, F, Z),
         \A i \in 1 .. M : y[i] = x[i], \A q \in 0 .. 2 * M - 1 : F[q] = E[q]
  PROVE  \A i \in 1 .. M : \A q \in 0 .. 2 * i : Z[i][q] = W[i][q]
<1> TAKE i \in 1 .. M
<1>1. /\ Comes(U, W[i], 2 * i, x[i], E) /\ Comes(U, Z[i], 2 * i, y[i], F)
      /\ 2 * i \in Nat /\ 2 * i <= 2 * i /\ 0 <= 2 * i /\ M \in Nat /\ i <= M
  BY DEF Flow
<1>2. Z[i][2 * i + 0] = W[i][2 * i]
  <2>1. 2 * i + 0 = 2 * i
    BY <1>1
  <2>2. Z[i][2 * i] = y[i] /\ W[i][2 * i] = x[i]
    BY <1>1 DEF Comes
  <2> QED
    BY <2>1, <2>2
<1>3. \A q \in 0 .. 2 * i - 1 : F[q + 0] = E[q]
  BY <1>1
<1> DEFINE n == 2 * i
<1>4. n \in Nat /\ 0 \in Nat /\ 0 \in Int /\ 0 <= n /\ n <= n /\ 0 <= 0 + 0 /\ n + 0 <= n
  BY <1>1
<1> HIDE DEF n
<1>7. Meet(U, W[i], n, x[i], E, Z[i], n, y[i], F, 0, n, 0)
  BY <1>1, <1>2, <1>3, <1>4 DEF Meet, n
<1>5. \A q \in 0 .. n : Z[i][q + 0] = W[i][q]
  BY <1>7, ComesAlike
<1>6. \A q \in 0 .. n : q + 0 = q
  BY <1>4
<1> QED
  BY <1>5, <1>6 DEF n

\* What begins at the bottom is done last to all.
LEMMA FlowStart ==
  ASSUME NEW U, NEW M, NEW x, NEW E, NEW W, Flow(U, M, x, E, W),
         NEW F, NEW Z, Flow(U, M, x, F, Z),
         \A q \in 1 .. 2 * M - 1 : F[q] = E[q], Idle(U, E, 0)
  PROVE  \A i \in 1 .. M : /\ \A q \in 1 .. 2 * i : Z[i][q] = W[i][q]
                           /\ Z[i][0] = F[0][W[i][0]]
                           /\ W[i][1] = W[i][0] /\ W[i][0] \in U
<1> TAKE i \in 1 .. M
<1> DEFINE n == 2 * i
<1>1. Comes(U, W[i], n, x[i], E) /\ Comes(U, Z[i], n, x[i], F)
  BY DEF Flow
<1>2. /\ n \in Nat /\ 1 \in Nat /\ 0 \in Int /\ 1 <= n /\ n <= n /\ 0 <= 1 + 0 /\ n + 0 <= n /\ n + 0 = n
      /\ n <= 2 * M /\ M \in Nat
  BY DEF Flow
<1> HIDE DEF n
<1>3. Z[i][n + 0] = W[i][n]
  BY <1>1, <1>2 DEF Comes
<1>4. \A q \in 1 .. n - 1 : F[q + 0] = E[q]
  BY <1>2
<1>10. Meet(U, W[i], n, x[i], E, Z[i], n, x[i], F, 1, n, 0)
  BY <1>1, <1>2, <1>3, <1>4 DEF Meet
<1>5. \A q \in 1 .. n : Z[i][q + 0] = W[i][q]
  BY <1>10, ComesAlike
<1>6. \A q \in 1 .. n : Z[i][q] = W[i][q]
  <2>1. \A q \in 1 .. n : q + 0 = q
    BY <1>2
  <2> QED
    BY <1>5, <2>1
<1>7. /\ Z[i][0] = F[0][Z[i][1]] /\ W[i][0] = E[0][W[i][1]] /\ W[i][1] \in U /\ W[i][0] \in U
  <2>1. 0 \in 0 .. n - 1 /\ 0 + 1 = 1 /\ 1 \in 0 .. n /\ 0 \in 0 .. n
    BY <1>2
  <2> QED
    BY <1>1, <2>1 DEF Comes
<1>8. W[i][0] = W[i][1]
  BY <1>7 DEF Idle
<1>9. Z[i][1] = W[i][1]
  BY <1>2, <1>6
<1> QED
  BY <1>6, <1>7, <1>8, <1>9 DEF n

\* Where nothing is done from b to a, the values there are the same.
LEMMA FlowQuiet ==
  ASSUME NEW U, NEW M, NEW x, NEW E, NEW W, Flow(U, M, x, E, W), NEW i \in 1 .. M,
         NEW a \in Nat, NEW b \in Nat, a <= b, b <= 2 * i, \A q \in a .. b - 1 : Idle(U, E, q)
  PROVE  \A q \in a .. b : W[i][q] = W[i][b]
<1> DEFINE n == 2 * i
           V == W[i]
<1>1. Comes(U, V, n, x[i], E) /\ n \in Nat
  BY DEF Flow
<1>2. b <= n
  OBVIOUS
<1> HIDE DEF n, V
<1>3. V[b] \in U
  BY <1>1, <1>2 DEF Comes
<1>4. \A q \in a .. b - 1 : E[q][V[b]] = V[b]
  BY <1>3 DEF Idle
<1>5. Calm(U, V, n, x[i], E, a, b)
  BY <1>1, <1>2, <1>4 DEF Calm
<1>6. \A q \in a .. b : V[q] = V[b]
  BY <1>5, ComesQuiet
<1> QED
  BY <1>6 DEF V

\* What is done at a in E is done at b in F, and nothing else near there; the values whose
\* places are in between have had it done to them.
Moved(U, M, x, E, y, F, a, b) ==
    /\ a \in Nat /\ b \in Nat /\ a < b
    /\ \A q \in a + 1 .. b : Idle(U, E, q)
    /\ \A q \in a .. b - 1 : Idle(U, F, q)
    /\ F[b] = E[a]
    /\ \A q \in Nat : q < a \/ q > b => F[q] = E[q]
    /\ \A i \in 1 .. M : y[i] = IF a < 2 * i /\ 2 * i <= b THEN E[a][x[i]] ELSE x[i]

\* Then the values come down alike to a, and from above to where b is next.
LEMMA FlowMoved ==
  ASSUME NEW U, NEW M, NEW x, NEW E, NEW W, Flow(U, M, x, E, W),
         NEW y, NEW F, NEW Z, Flow(U, M, y, F, Z),
         NEW a, NEW b, Moved(U, M, x, E, y, F, a, b)
  PROVE  \A i \in 1 .. M : \A q \in 0 .. 2 * i : q <= a \/ q > b => Z[i][q] = W[i][q]
<1> TAKE i \in 1 .. M
<1> DEFINE n == 2 * i
           V == W[i]
           T == Z[i]
<1>1. Comes(U, V, n, x[i], E) /\ Comes(U, T, n, y[i], F) /\ n \in Nat
  BY DEF Flow
<1>2. /\ a \in Nat /\ b \in Nat /\ a < b
      /\ F[b] = E[a] /\ \A q \in Nat : q < a \/ q > b => F[q] = E[q]
      /\ y[i] = IF a < n /\ n <= b THEN E[a][x[i]] ELSE x[i]
  BY DEF Moved
<1>3. \A c \in Nat : a + 1 <= c /\ c <= b + 1 /\ c <= n => \A q \in a + 1 .. c : V[q] = V[c]
  <2> TAKE c \in Nat
  <2> HAVE a + 1 <= c /\ c <= b + 1 /\ c <= n
  <2>1. \A q \in a + 1 .. c - 1 : Idle(U, E, q)
    BY <1>2 DEF Moved
  <2>2. a + 1 \in Nat /\ c <= 2 * i
    BY <1>2
  <2> QED
    BY <2>1, <2>2, FlowQuiet
<1>4. \A c \in Nat : a <= c /\ c <= b /\ c <= n => \A q \in a .. c : T[q] = T[c]
  <2> TAKE c \in Nat
  <2> HAVE a <= c /\ c <= b /\ c <= n
  <2>1. \A q \in a .. c - 1 : Idle(U, F, q)
    BY <1>2 DEF Moved
  <2>2. a \in Nat /\ c <= 2 * i
    BY <1>2
  <2> QED
    BY <2>1, <2>2, FlowQuiet
<1> HIDE DEF n, V, T
<1>5. ASSUME NEW c \in Nat, c <= n, c <= a, T[c] = V[c] PROVE \A q \in 0 .. c : T[q] = V[q]
  <2>1. Meet(U, V, n, x[i], E, T, n, y[i], F, 0, c, 0)
    <3>1. \A q \in 0 .. c - 1 : F[q + 0] = E[q]
      BY <1>2, <1>5
    <3>2. c + 0 = c /\ 0 + 0 = 0
      OBVIOUS
    <3> QED
      BY <1>1, <1>5, <3>1, <3>2 DEF Meet
  <2>2. \A q \in 0 .. c : T[q + 0] = V[q]
    BY <2>1, ComesAlike
  <2>3. \A q \in 0 .. c : q + 0 = q
    OBVIOUS
  <2> QED
    BY <2>2, <2>3
<1>6. T[n] = y[i] /\ V[n] = x[i]
  BY <1>1 DEF Comes
<1>7. CASE n <= a
  <2>1. T[n] = V[n]
    BY <1>1, <1>2, <1>6, <1>7
  <2>2. \A q \in 0 .. n : T[q] = V[q]
    BY <1>1, <1>5, <1>7, <2>1
  <2> QED
    BY <2>2 DEF n, T, V
<1>8. ASSUME a < n, T[a] = E[a][V[a + 1]] PROVE \A q \in 0 .. n : q <= a => T[q] = V[q]
  <2>1. a \in 0 .. n - 1
    BY <1>1, <1>2, <1>8
  <2>2. V[a] = E[a][V[a + 1]]
    BY <1>1, <2>1 DEF Comes
  <2>3. \A q \in 0 .. a : T[q] = V[q]
    BY <1>1, <1>2, <1>5, <1>8, <2>2
  <2> QED
    BY <1>1, <1>2, <2>3
<1>9. CASE a < n /\ n <= b
  <2>1. V[a + 1] = V[n]
    BY <1>1, <1>2, <1>3, <1>9
  <2>2. T[a] = T[n]
    BY <1>1, <1>2, <1>4, <1>9
  <2>3. T[a] = E[a][V[a + 1]]
    BY <1>2, <1>6, <1>9, <2>1, <2>2
  <2>4. \A q \in 0 .. n : q <= a => T[q] = V[q]
    BY <1>8, <1>9, <2>3
  <2>5. \A q \in 0 .. n : ~(q > b)
    BY <1>1, <1>2, <1>9
  <2> QED
    BY <2>4, <2>5 DEF n, T, V
<1>10. CASE b < n
  <2>1. y[i] = x[i]
    BY <1>1, <1>2, <1>10
  <2>2. Meet(U, V, n, x[i], E, T, n, y[i], F, b + 1, n, 0)
    <3>1. \A q \in b + 1 .. n - 1 : F[q + 0] = E[q]
      BY <1>1, <1>2
    <3>2. n + 0 = n /\ b + 1 \in Nat /\ b + 1 <= n /\ 0 <= (b + 1) + 0 /\ 0 \in Int
      BY <1>1, <1>2, <1>10
    <3> QED
      BY <1>1, <1>6, <2>1, <3>1, <3>2 DEF Meet
  <2>3. \A q \in b + 1 .. n : T[q + 0] = V[q]
    BY <2>2, ComesAlike
  <2>4. \A q \in b + 1 .. n : T[q] = V[q]
    <3>1. \A q \in b + 1 .. n : q + 0 = q
      BY <1>1, <1>2
    <3> QED
      BY <2>3, <3>1
  <2>5. V[a + 1] = V[b + 1]
    <3>1. b + 1 \in Nat /\ a + 1 <= b + 1 /\ b + 1 <= n /\ a + 1 \in a + 1 .. b + 1
      BY <1>1, <1>2, <1>10
    <3> QED
      BY <1>3, <3>1
  <2>6. T[a] = T[b]
    BY <1>1, <1>2, <1>4, <1>10
  <2>7. T[b] = F[b][T[b + 1]]
    <3>1. b \in 0 .. n - 1
      BY <1>1, <1>2, <1>10
    <3> QED
      BY <1>1, <3>1 DEF Comes
  <2>8. T[b + 1] = V[b + 1]
    BY <1>1, <1>2, <1>10, <2>4
  <2>9. T[a] = E[a][V[a + 1]]
    BY <1>2, <2>5, <2>6, <2>7, <2>8
  <2>10. \A q \in 0 .. n : q <= a => T[q] = V[q]
    BY <1>1, <1>2, <1>8, <1>10, <2>9
  <2>11. \A q \in 0 .. n : q > b => T[q] = V[q]
    <3>1. \A q \in 0 .. n : q > b => q \in b + 1 .. n
      BY <1>1, <1>2
    <3> QED
      BY <2>4, <3>1
  <2> QED
    BY <2>10, <2>11 DEF n, T, V
<1> QED
  BY <1>1, <1>2, <1>7, <1>9, <1>10

\* One place more: what was done above place p is done two higher, and nothing at the
\* place itself.
Raised(U, E, F, p) == /\ p \in Nat
                      /\ \A q \in 0 .. 2 * p : F[q] = E[q]
                      /\ Idle(U, F, 2 * p + 1) /\ Idle(U, F, 2 * p + 2)
                      /\ \A q \in Nat : q > 2 * p => F[q + 2] = E[q]

\* Then the values come down alike, those from above to two higher.
LEMMA FlowPutIn ==
  ASSUME NEW U, NEW M, NEW x, NEW E, NEW W, Flow(U, M, x, E, W),
         NEW y, NEW F, NEW Z, Flow(U, M + 1, y, F, Z),
         NEW p, NEW z, PutIn(M, x, p, z, y), Raised(U, E, F, p)
  PROVE  /\ \A i \in 1 .. p : \A q \in 0 .. 2 * i : Z[i][q] = W[i][q]
         /\ \A i \in p + 1 .. M : /\ \A q \in 0 .. 2 * p + 1 : Z[i + 1][q] = W[i][q]
                                  /\ \A q \in 2 * p + 1 .. 2 * i : Z[i + 1][q + 2] = W[i][q]
         /\ Z[p + 1][2 * p + 1] = z
<1>1. /\ M \in Nat /\ p \in Nat /\ p <= M /\ M + 1 \in Nat
      /\ \A q \in 0 .. 2 * p : F[q] = E[q]
      /\ \A q \in Nat : q > 2 * p => F[q + 2] = E[q]
      /\ \A i \in 1 .. p : y[i] = x[i]
      /\ y[p + 1] = z
      /\ \A i \in p + 1 .. M : y[i + 1] = x[i]
  <2>1. M \in Nat
    BY DEF Flow
  <2>2. p \in Nat /\ (\A q \in 0 .. 2 * p : F[q] = E[q]) /\ \A q \in Nat : q > 2 * p => F[q + 2] = E[q]
    BY DEF Raised
  <2>3. /\ p \in 0 .. M /\ \A i \in 1 .. p : y[i] = x[i]
        /\ y[p + 1] = z /\ \A i \in p + 1 .. M : y[i + 1] = x[i]
    BY DEF PutIn
  <2> QED
    BY <2>1, <2>2, <2>3
<1>2. /\ \A i \in 1 .. M : Comes(U, W[i], 2 * i, x[i], E)
      /\ \A i \in 1 .. M + 1 : Comes(U, Z[i], 2 * i, y[i], F)
  BY DEF Flow
<1>3. ASSUME NEW i \in 1 .. p PROVE \A q \in 0 .. 2 * i : Z[i][q] = W[i][q]
  <2> DEFINE n == 2 * i
  <2>1. i \in 1 .. M /\ i \in 1 .. M + 1
    BY <1>1
  <2>2. Comes(U, W[i], n, x[i], E) /\ Comes(U, Z[i], n, y[i], F) /\ y[i] = x[i]
    BY <1>1, <1>2, <2>1
  <2>3. n \in Nat /\ n <= 2 * p /\ 0 <= n /\ n + 0 = n
    BY <1>1
  <2> HIDE DEF n
  <2>4. Meet(U, W[i], n, x[i], E, Z[i], n, y[i], F, 0, n, 0)
    <3>1. \A q \in 0 .. n - 1 : F[q + 0] = E[q]
      BY <1>1, <2>3
    <3>2. W[i][n] = x[i] /\ Z[i][n] = y[i]
      BY <2>2 DEF Comes
    <3> QED
      BY <2>2, <2>3, <3>1, <3>2 DEF Meet
  <2>5. \A q \in 0 .. n : Z[i][q + 0] = W[i][q]
    BY <2>4, ComesAlike
  <2>6. \A q \in 0 .. n : q + 0 = q
    BY <2>3
  <2> QED
    BY <2>5, <2>6 DEF n
<1>4. ASSUME NEW i \in p + 1 .. M
      PROVE  /\ \A q \in 0 .. 2 * p + 1 : Z[i + 1][q] = W[i][q]
             /\ \A q \in 2 * p + 1 .. 2 * i : Z[i + 1][q + 2] = W[i][q]
  <2> DEFINE n == 2 * i
             m == 2 * (i + 1)
             a == 2 * p + 1
             V == W[i]
             T == Z[i + 1]
  <2>1. i \in 1 .. M /\ i + 1 \in 1 .. M + 1
    BY <1>1
  <2>2. Comes(U, V, n, x[i], E) /\ Comes(U, T, m, y[i + 1], F) /\ y[i + 1] = x[i]
    BY <1>1, <1>2, <2>1
  <2>3. n \in Nat /\ m = n + 2 /\ m \in Nat /\ a \in Nat /\ a <= n /\ 2 \in Int /\ 0 <= a + 2 /\ 2 * p = a - 1
        /\ a + 2 <= m
    BY <1>1
  <2>4. T[a + 2] = T[a]
    <3>1. \A q \in a .. (a + 2) - 1 : Idle(U, F, q)
      <4>1. \A q \in a .. (a + 2) - 1 : q = 2 * p + 1 \/ q = 2 * p + 2
        BY <1>1
      <4> QED
        BY <4>1 DEF Raised
    <3>2. a + 2 \in Nat /\ a <= a + 2 /\ a + 2 <= 2 * (i + 1) /\ a \in a .. a + 2
      BY <2>3
    <3> HIDE DEF a
    <3>3. \A q \in a .. a + 2 : Z[i + 1][q] = Z[i + 1][a + 2]
      BY <2>1, <2>3, <3>1, <3>2, FlowQuiet
    <3> QED
      BY <3>2, <3>3
  <2>5. \A q \in Nat : q >= a => F[q + 2] = E[q]
    BY <1>1
  <2>6. \A q \in 0 .. a - 1 : F[q + 0] = E[q]
    BY <1>1
  <2> HIDE DEF n, m, a, V, T
  <2>7. Meet(U, V, n, x[i], E, T, m, y[i + 1], F, a, n, 2)
    <3>1. \A q \in a .. n - 1 : F[q + 2] = E[q]
      BY <2>3, <2>5
    <3>2. V[n] = x[i] /\ T[m] = y[i + 1] /\ n <= n /\ n + 2 <= m
      BY <2>2, <2>3 DEF Comes
    <3> QED
      BY <2>2, <2>3, <3>1, <3>2 DEF Meet
  <2>8. \A q \in a .. n : T[q + 2] = V[q]
    BY <2>7, ComesAlike
  <2>9. T[a] = V[a]
    BY <2>3, <2>4, <2>8
  <2>10. Meet(U, V, n, x[i], E, T, m, y[i + 1], F, 0, a, 0)
    <3>1. 0 <= a /\ a + 0 = a /\ a <= m /\ 0 + 0 = 0
      BY <2>3
    <3> QED
      BY <2>2, <2>3, <2>6, <2>9, <3>1 DEF Meet
  <2>11. \A q \in 0 .. a : T[q + 0] = V[q]
    BY <2>10, ComesAlike
  <2>12. \A q \in 0 .. a : T[q] = V[q]
    <3>1. \A q \in 0 .. a : q + 0 = q
      BY <2>3
    <3> QED
      BY <2>11, <3>1
  <2> QED
    BY <2>8, <2>12 DEF a, n, T, V
<1>5. Z[p + 1][2 * p + 1] = z
  <2> DEFINE a == 2 * p + 1
             b == 2 * (p + 1)
  <2>1. p + 1 \in 1 .. M + 1 /\ a \in Nat /\ b \in Nat /\ b = a + 1 /\ a <= b /\ b <= 2 * (p + 1)
    BY <1>1
  <2>2. \A q \in a .. b - 1 : Idle(U, F, q)
    <3>1. \A q \in a .. b - 1 : q = 2 * p + 1
      BY <1>1
    <3> QED
      BY <3>1 DEF Raised
  <2>3. Z[p + 1][b] = z
    BY <1>1, <1>2, <2>1 DEF Comes
  <2>5. Comes(U, Z[p + 1], b, y[p + 1], F)
    BY <1>2, <2>1
  <2> DEFINE V == Z[p + 1]
  <2> HIDE DEF a, b, V
  <2>6. V[b] \in U
    BY <2>1, <2>5 DEF Comes, V
  <2>7. Calm(U, V, b, y[p + 1], F, a, b)
    BY <2>1, <2>2, <2>5, <2>6 DEF Calm, Idle, V
  <2>4. \A q \in a .. b : V[q] = V[b]
    BY <2>7, ComesQuiet
  <2> QED
    BY <2>1, <2>3, <2>4 DEF a, V
<1> QED
  BY <1>3, <1>4, <1>5
-------------------------------------------------------------------------------
(* What the threads are about. *)

Traversals == {"for_each", "find_first_if", "remove_if"}

\* A thread is in the part of its operation that its place belongs to, and has
\* a value if it needs one; remove_if has looked at the node it is going to unlink or to
\* step over.
CallsOK ==
    /\ arg \in [Threads -> Values \cup {NoValue}]
    /\ call \in [Threads -> Traversals \cup {"push_front", "none"}]
    /\ \A t \in Threads :
        /\ pc[t] \in {"idle", "return"} => call[t] = "none"
        /\ pc[t] \notin {"idle", "return"} => call[t] # "none"
        /\ pc[t] \in {"look", "lock_next", "release", "visit"} => call[t] # "push_front"
        /\ pc[t] = "visit" => call[t] # "remove_if"
        /\ pc[t] \in {"test", "unlink", "unlock_next", "free"} => call[t] = "remove_if"
        /\ call[t] \in {"find_first_if", "remove_if"} => arg[t] \in Values
        /\ pc[t] = "release" /\ call[t] = "remove_if" => data[ahead[t]] # arg[t]
        /\ pc[t] = "unlink" => data[ahead[t]] = arg[t]

\* Nothing is asked before the first call.
LEMMA InitCalls == Init => CallsOK
  BY LockedListAssumption DEF Init, CallsOK, Traversals

\* The threads but t are where they were, and so is what they looked at.
OthersWait(t) ==
    /\ \A u \in Threads \ {t} : pc'[u] = pc[u] /\ call'[u] = call[u] /\ arg'[u] = arg[u]
    /\ \A u \in Threads \ {t} : pc[u] \in {"release", "unlink"} => data'[ahead'[u]] = data[ahead[u]]

\* Every step leaves them alone.
LEMMA StepWaits ==
  ASSUME IInv, ValuesOK, CallsOK, NEW t \in Threads, CallPushFront(t) \/ CallTraversal(t) \/ Step(t)
  PROVE  OthersWait(t)
<1> USE LockedListAssumption DEF IInv
<1>1. \A u \in Threads \ {t} : /\ pc'[u] = pc[u] /\ call'[u] = call[u]
                              /\ arg'[u] = arg[u] /\ ahead'[u] = ahead[u]
  <2>1. CASE CallPushFront(t) \/ CallTraversal(t)
    BY <2>1 DEF CallPushFront, CallTraversal, Call, Goto, heap, Types, CallsOK
  <2>2. CASE LockHead(t) \/ Link(t) \/ Unlock(t) \/ Return(t) \/ Look(t)
    BY <2>2 DEF LockHead, Link, Unlock, Return, Look, Goto, heap, request, place, Types, CallsOK
  <2>3. CASE LockNext(t) \/ Release(t) \/ UnlockNext(t)
    BY <2>3 DEF LockNext, Release, UnlockNext, StepAhead, Goto, heap, request, place, Types, CallsOK
  <2>4. CASE Visit(t) \/ Try(t) \/ Test(t) \/ Unlink(t) \/ Free(t)
    BY <2>4 DEF Visit, Try, Test, Unlink, Free, StepAhead, Goto, heap, request, place, Types, CallsOK
  <2> QED
    BY <2>1, <2>2, <2>3, <2>4 DEF Step
<1>2. ASSUME NEW u \in Threads \ {t}, pc[u] \in {"release", "unlink"} PROVE data'[ahead[u]] = data[ahead[u]]
  <2>1. owner[ahead[u]] = u /\ ahead[u] \in allocated /\ ahead[u] \in Cells
    BY <1>2 DEF LocksOK, HoldsAhead, Cells
  <2>2. CASE CallPushFront(t)
    BY <2>1, <2>2 DEF CallPushFront, ValuesOK
  <2>3. CASE Visit(t)
    <3>1. owner[ahead[t]] = t /\ data' = [data EXCEPT ![ahead[t]] = Image[data[ahead[t]]]]
      BY <2>3 DEF Visit, LocksOK, HoldsAhead
    <3> QED
      BY <2>1, <3>1 DEF ValuesOK
  <2>4. CASE ~CallPushFront(t) /\ ~Visit(t)
    <3>1. data' = data
      BY <2>4 DEF Step, CallTraversal, LockHead, Link, Unlock, Return, Look, LockNext,
                  Release, Try, Test, Unlink, UnlockNext, Free, heap
    <3> QED
      BY <3>1
  <2> QED
    BY <2>2, <2>3, <2>4
<1> QED
  BY <1>1, <1>2 DEF OthersWait

\* Every step keeps the threads in their operations.
LEMMA StepCalls ==
  ASSUME IInv, ValuesOK, CallsOK, NEW t \in Threads, CallPushFront(t) \/ CallTraversal(t) \/ Step(t)
  PROVE  CallsOK'
<1> USE LockedListAssumption
<1>1. \A u \in Threads \ {t} : CallsOK!3!(u)'
  BY StepWaits DEF CallsOK, OthersWait
<1>2. /\ arg' \in [Threads -> Values \cup {NoValue}]
      /\ call' \in [Threads -> Traversals \cup {"push_front", "none"}]
      /\ CallsOK!3!(t)'
  <2>1. CASE CallPushFront(t) \/ CallTraversal(t)
    BY <2>1 DEF CallPushFront, CallTraversal, Call, Goto, heap, IInv, Types, CallsOK, Traversals
  <2>2. CASE LockHead(t) \/ Link(t) \/ Unlock(t) \/ Return(t) \/ Look(t)
    BY <2>2 DEF LockHead, Link, Unlock, Return, Look, Goto, heap, request, place, IInv, Types,
                LocksOK, CallsOK, Traversals
  <2>3. CASE LockNext(t) \/ Release(t) \/ UnlockNext(t)
    BY <2>3 DEF LockNext, Release, UnlockNext, StepAhead, Goto, heap, request, place,
                IInv, Types, CallsOK, Traversals
  <2>4. CASE Visit(t) \/ Try(t) \/ Test(t) \/ Unlink(t) \/ Free(t)
    BY <2>4 DEF Visit, Try, Test, Unlink, Free, StepAhead, Goto, heap, request, place,
                IInv, Types, CallsOK, Traversals
  <2> QED
    BY <2>1, <2>2, <2>3, <2>4 DEF Step
<1> QED
  BY <1>1, <1>2 DEF CallsOK
-------------------------------------------------------------------------------
(* Where the traversals are. *)

\* Everything a place in the list can have in it.
Seen == Values \cup {NoValue}

\* What is done to a value where a traversal is.
Eff == [q \in Nat |-> [v \in Seen |->
          IF \E t \in Threads : Traversing(t) /\ Reached(t) = q
          THEN Effect(CHOOSE t \in Threads : Traversing(t) /\ Reached(t) = q, v)
          ELSE v]]

\* Traversal t is at the k-th node, or on its way to it.
Spot(s, t, k) == /\ owner[s[k]] = t
                 /\ IF pc[t] = "visit"
                    THEN k # 1 /\ ahead[t] = s[k] /\ Reached(t) = 2 * k - 3
                    ELSE current[t] = s[k] /\ Reached(t) = 2 * k - 2

\* The nodes of the list and their places.
Placed(L, s) == /\ L \in Nat /\ L # 0
                /\ s \in [1 .. L -> Cells] /\ s[1] = HeadNode
                /\ \A i, j \in 1 .. L : s[i] = s[j] => i = j
                /\ \A i \in 1 .. L - 1 : next[s[i]] = s[i + 1]
                /\ next[s[L]] = Null
                /\ \A j \in 1 .. L : Position(s[j]) = j - 1 /\ Walk[j - 1] = s[j]
                /\ Positions = 1 .. L - 1
                /\ \A n \in Cells : Public(n) <=> \E j \in 1 .. L : s[j] = n

\* The nodes reached from the head are placed so.
LEMMA PlacedIs ==
  ASSUME IInv, NEW L, NEW s, Reaches(L, s)
  PROVE  Placed(L, s)
<1>1. /\ L \in Nat /\ s \in [1 .. L -> DOMAIN next]
      /\ \A i, j \in 1 .. L : s[i] = s[j] => i = j
      /\ HeadNode = IF L = 0 THEN Null ELSE s[1]
      /\ \A i \in 1 .. L : next[s[i]] = IF i = L THEN Null ELSE s[i + 1]
  BY DEF Reaches, Segment
<1>2. DOMAIN next = Cells /\ IsFiniteSet(DOMAIN next) /\ Null \notin DOMAIN next
  <2>1. DOMAIN next = Cells
    BY DEF IInv, Types
  <2> QED
    BY <2>1, LockedListAssumption, FS_AddElement DEF Cells
<1>3. L # 0 /\ s[1] = HeadNode
  BY <1>1, LockedListAssumption
<1> DEFINE N == Cardinality(DOMAIN next)
<1>4. Segment(next, HeadNode, Null, L, s)
  BY DEF Reaches
<1>5. /\ L <= N /\ N \in Nat
      /\ Walk = [k \in 0 .. N |-> Walk[k]]
      /\ \A k \in 0 .. N : Walk[k] = IF k < L THEN s[k + 1] ELSE Null
      /\ Cardinality(Chain) = L
  BY <1>2, <1>4, SegmentIs DEF Walk, Chain
<1> HIDE DEF N
<1>6. ASSUME NEW j \in 1 .. L PROVE Position(s[j]) = j - 1 /\ Walk[j - 1] = s[j]
  <2>1. j - 1 \in 0 .. N /\ j - 1 < L /\ (j - 1) + 1 = j
    BY <1>1, <1>5
  <2>2. Walk[j - 1] = s[j] /\ s[j] # Null
    BY <1>1, <1>2, <1>5, <2>1
  <2>3. DOMAIN Walk = 0 .. N
    BY <1>5
  <2>4. \A k \in 0 .. N : Walk[k] = s[j] => k = j - 1
    <3> SUFFICES ASSUME NEW k \in 0 .. N, Walk[k] = s[j] PROVE k = j - 1
      OBVIOUS
    <3>1. k < L /\ s[k + 1] = s[j]
      BY <1>5, <2>2
    <3>2. k + 1 \in 1 .. L
      BY <1>1, <3>1
    <3>3. k + 1 = j
      BY <1>1, <3>1, <3>2
    <3> QED
      BY <3>3
  <2> QED
    BY <2>1, <2>2, <2>3, <2>4 DEF Position
<1>7. \A n \in Cells : Public(n) <=> \E j \in 1 .. L : s[j] = n
  BY DEF Reaches, Places
<1>8. \A i \in 1 .. L - 1 : next[s[i]] = s[i + 1]
  BY <1>1
<1>9. next[s[L]] = Null
  BY <1>1, <1>3
<1> QED
  BY <1>1, <1>2, <1>3, <1>5, <1>6, <1>7, <1>8, <1>9 DEF Placed, Positions

\* A traversal is at a node of the list, whose lock it has.
LEMMA SpotIs ==
  ASSUME IInv, CallsOK, NEW L, NEW s, Placed(L, s), NEW t \in Threads, Traversing(t)
  PROVE  \E k \in 1 .. L : Spot(s, t, k)
<1>1. /\ pc[t] \in HoldsCurrent \/ pc[t] = "visit"
      /\ pc[t] \in Labels
  BY DEF IInv, Types, Traversing, CallsOK, LocksOK, Labels, HoldsCurrent
<1>2. CASE pc[t] = "visit"
  <2>1. owner[ahead[t]] = t /\ Public(ahead[t]) /\ ahead[t] \in Nodes /\ ahead[t] \in Cells
    BY <1>2 DEF IInv, LocksOK, HoldsAhead, Cells
  <2>2. PICK k \in 1 .. L : s[k] = ahead[t]
    BY <2>1 DEF Placed
  <2>3. k # 1 /\ Position(ahead[t]) = k - 1
    BY <2>1, <2>2, LockedListAssumption DEF Placed
  <2> QED
    BY <1>2, <2>1, <2>2, <2>3 DEF Spot, Reached
<1>3. CASE pc[t] # "visit"
  <2>1. owner[current[t]] = t /\ Public(current[t]) /\ current[t] \in Cells
    BY <1>1, <1>3 DEF IInv, Types, LocksOK, Public
  <2>2. PICK k \in 1 .. L : s[k] = current[t]
    BY <2>1 DEF Placed
  <2>3. Position(current[t]) = k - 1
    BY <2>2 DEF Placed
  <2> QED
    BY <1>3, <2>1, <2>2, <2>3 DEF Spot, Reached
<1> QED
  BY <1>2, <1>3

\* No two traversals are at the same place.
Apart == \A t, u \in Threads : Traversing(t) /\ Traversing(u) /\ Reached(t) = Reached(u) => t = u

\* Each has the lock of its node.
LEMMA TraversalsApart ==
  ASSUME IInv, CallsOK, NEW L, NEW s, Placed(L, s)
  PROVE  Apart
<1> SUFFICES ASSUME NEW t \in Threads, NEW u \in Threads, Traversing(t), Traversing(u), Reached(t) = Reached(u)
             PROVE  t = u
  BY DEF Apart
<1>1. PICK k \in 1 .. L : Spot(s, t, k)
  BY SpotIs
<1>2. PICK j \in 1 .. L : Spot(s, u, j)
  BY SpotIs
<1>3. L \in Nat
  BY DEF Placed
<1>4. k = j
  BY <1>1, <1>2, <1>3 DEF Spot
<1> QED
  BY <1>1, <1>2, <1>4 DEF Spot

\* What is done where.
EffectsOK ==
    /\ \A q \in Nat : Eff[q] \in [Seen -> Seen]
    /\ \A t \in Threads : Traversing(t) => /\ Reached(t) \in Nat
                                           /\ \A v \in Seen : Eff[Reached(t)][v] = Effect(t, v)
    /\ \A q \in Nat : (\A t \in Threads : Traversing(t) => Reached(t) # q) => Idle(Seen, Eff, q)

\* That is so in every state of the program.
LEMMA EffectsAre ==
  ASSUME IInv, CallsOK, NEW L, NEW s, Placed(L, s)
  PROVE  EffectsOK
<1> USE LockedListAssumption
<1>1. \A t \in Threads : Traversing(t) => \A v \in Seen : Effect(t, v) \in Seen
  BY DEF Effect, Seen
<1>2. \A q \in Nat : Eff[q] \in [Seen -> Seen]
  <2> SUFFICES ASSUME NEW q \in Nat, NEW v \in Seen PROVE Eff[q][v] \in Seen
    BY DEF Eff
  <2>1. CASE \E t \in Threads : Traversing(t) /\ Reached(t) = q
    <3>1. Eff[q][v] = Effect(CHOOSE t \in Threads : Traversing(t) /\ Reached(t) = q, v)
      BY <2>1 DEF Eff
    <3> QED
      BY <1>1, <2>1, <3>1
  <2>2. CASE ~\E t \in Threads : Traversing(t) /\ Reached(t) = q
    BY <2>2 DEF Eff
  <2> QED
    BY <2>1, <2>2
<1>3. ASSUME NEW t \in Threads, Traversing(t)
      PROVE  Reached(t) \in Nat /\ \A v \in Seen : Eff[Reached(t)][v] = Effect(t, v)
  <2>1. PICK k \in 1 .. L : Spot(s, t, k)
    BY <1>3, SpotIs
  <2>2. Reached(t) \in Nat
    BY <2>1 DEF Spot, Placed
  <2>3. Apart
    BY TraversalsApart
  <2> DEFINE q == Reached(t)
             c == CHOOSE u \in Threads : Traversing(u) /\ Reached(u) = q
  <2>4. c = t
    <3>1. c \in Threads /\ Traversing(c) /\ Reached(c) = q
      BY <1>3
    <3> HIDE DEF c
    <3> QED
      BY <1>3, <2>3, <3>1 DEF Apart
  <2>5. \A v \in Seen : Eff[q][v] = Effect(c, v)
    BY <1>3, <2>2 DEF Eff
  <2> QED
    BY <2>2, <2>4, <2>5
<1>4. \A q \in Nat : (\A t \in Threads : Traversing(t) => Reached(t) # q) => Idle(Seen, Eff, q)
  BY DEF Eff, Idle
<1> QED
  BY <1>2, <1>3, <1>4 DEF EffectsOK

\* The equation of the recursive function in Later.
LaterOf(i, V) ==
    [q \in 0 .. 2 * i |->
        IF q = 2 * i THEN data[Walk[i]]
        ELSE IF \E t \in Threads : Traversing(t) /\ Reached(t) = q
        THEN Effect(CHOOSE t \in Threads : Traversing(t) /\ Reached(t) = q, V[q + 1])
        ELSE V[q + 1]]

\* Later meets that equation, if it can be met.
LEMMA LaterEquation ==
  ASSUME NEW i, NEW w, w = LaterOf(i, w)
  PROVE  Later(i) = LaterOf(i, Later(i))
  BY Zenon DEF Later, LaterOf

\* In short.
LEMMA LaterShort ==
  ASSUME NEW i \in Nat, NEW V
  PROVE  /\ LaterOf(i, V) = [q \in 0 .. 2 * i |-> LaterOf(i, V)[q]]
         /\ LaterOf(i, V)[2 * i] = data[Walk[i]]
         /\ \A q \in 0 .. 2 * i - 1 : V[q + 1] \in Seen => LaterOf(i, V)[q] = Eff[q][V[q + 1]]
<1>1. 2 * i \in 0 .. 2 * i /\ \A q \in 0 .. 2 * i - 1 : q \in 0 .. 2 * i /\ q # 2 * i /\ q \in Nat
  OBVIOUS
<1>2. LaterOf(i, V)[2 * i] = data[Walk[i]]
  BY <1>1 DEF LaterOf
<1>3. ASSUME NEW q \in 0 .. 2 * i - 1, V[q + 1] \in Seen PROVE LaterOf(i, V)[q] = Eff[q][V[q + 1]]
  <2>1. LaterOf(i, V)[q] = IF \E t \in Threads : Traversing(t) /\ Reached(t) = q
                           THEN Effect(CHOOSE t \in Threads : Traversing(t) /\ Reached(t) = q, V[q + 1])
                           ELSE V[q + 1]
    BY <1>1 DEF LaterOf
  <2> DEFINE u == V[q + 1]
  <2>2. u \in Seen /\ q \in Nat
    BY <1>1, <1>3
  <2> HIDE DEF u
  <2>3. Eff[q][u] = IF \E t \in Threads : Traversing(t) /\ Reached(t) = q
                    THEN Effect(CHOOSE t \in Threads : Traversing(t) /\ Reached(t) = q, u)
                    ELSE u
    BY <2>2 DEF Eff
  <2> QED
    BY <2>1, <2>3 DEF u
<1>4. LaterOf(i, V) = [q \in 0 .. 2 * i |-> LaterOf(i, V)[q]]
  BY DEF LaterOf
<1> QED
  BY <1>2, <1>3, <1>4

\* A value comes down from its place, and what is done to it is done at the traversals.
LEMMA LaterIs ==
  ASSUME IInv, ValuesOK, CallsOK, NEW L, NEW s, Placed(L, s), NEW i \in 1 .. L - 1
  PROVE  Comes(Seen, Later(i), 2 * i, data[s[i + 1]], Eff)
<1> DEFINE n == 2 * i
           x == data[Walk[i]]
           E == [k \in Nat |-> IF k <= n THEN Eff[n - k] ELSE Eff[0]]
<1>1. n \in Nat /\ i \in Nat
  BY DEF Placed
<1>2. x = data[s[i + 1]] /\ x \in Seen
  <2>1. i + 1 \in 1 .. L /\ (i + 1) - 1 = i
    BY DEF Placed
  <2>2. Walk[i] = s[i + 1] /\ s[i + 1] \in Cells
    BY <2>1 DEF Placed
  <2> QED
    BY <2>2 DEF ValuesOK, Seen
<1>3. \A q \in Nat : Eff[q] \in [Seen -> Seen]
  BY EffectsAre DEF EffectsOK
<1> HIDE DEF x, n
<1>4. \A k \in Nat \ {0} : E[k] \in [Seen -> Seen]
  <2> TAKE k \in Nat \ {0}
  <2>1. k <= n => n - k \in Nat
    BY <1>1
  <2> QED
    BY <1>3, <2>1
<1> HIDE DEF E
<1>5. PICK F \in [Nat -> Seen] : F[0] = x /\ \A k \in Nat \ {0} : F[k] = E[k][F[k - 1]]
  <2> DEFINE U == Seen
  <2> HIDE DEF U
  <2>1. x \in U /\ \A k \in Nat \ {0} : E[k] \in [U -> U]
    BY <1>2, <1>4 DEF U
  <2>2. \E F : Iterates(U, x, E, F)
    BY <2>1, Iteration
  <2> QED
    BY <2>2 DEF Iterates, U
<1> DEFINE w == [q \in 0 .. n |-> F[n - q]]
<1> HIDE DEF w
<1>6. w = LaterOf(i, w)
  <2>1. /\ LaterOf(i, w) = [q \in 0 .. n |-> LaterOf(i, w)[q]]
        /\ LaterOf(i, w)[n] = x
        /\ \A q \in 0 .. n - 1 : w[q + 1] \in Seen => LaterOf(i, w)[q] = Eff[q][w[q + 1]]
    BY <1>1, LaterShort DEF n, x
  <2>2. ASSUME NEW q \in 0 .. n - 1 PROVE w[q] = LaterOf(i, w)[q]
    <3>1. /\ q \in 0 .. n /\ q + 1 \in 0 .. n /\ n - q \in Nat \ {0} /\ (n - q) - 1 = n - (q + 1)
          /\ n - (q + 1) \in Nat /\ n - q <= n /\ n - (n - q) = q
      BY <1>1
    <3>2. w[q] = F[n - q] /\ w[q + 1] = F[n - (q + 1)] /\ w[q + 1] \in Seen
      BY <1>5, <3>1 DEF w
    <3>3. E[n - q] = Eff[q]
      BY <3>1 DEF E
    <3>4. F[n - q] = Eff[q][w[q + 1]]
      BY <1>5, <3>1, <3>2, <3>3
    <3> QED
      BY <2>1, <3>2, <3>4
  <2>3. w[n] = LaterOf(i, w)[n]
    <3>1. n \in 0 .. n /\ n - n = 0
      BY <1>1
    <3> QED
      BY <1>5, <2>1, <3>1 DEF w
  <2>4. \A q \in 0 .. n : q \in 0 .. n - 1 \/ q = n
    BY <1>1
  <2>5. w = [q \in 0 .. n |-> w[q]]
    BY DEF w
  <2>6. \A q \in 0 .. n : w[q] = LaterOf(i, w)[q]
    BY <2>2, <2>3, <2>4
  <2> QED
    BY <2>1, <2>5, <2>6
<1> DEFINE V == Later(i)
<1>7. V = LaterOf(i, V)
  BY <1>6, LaterEquation
<1> HIDE DEF V
<1>8. /\ V = [q \in 0 .. n |-> V[q]]
      /\ V[n] = x
      /\ \A q \in 0 .. n - 1 : V[q + 1] \in Seen => V[q] = Eff[q][V[q + 1]]
  BY <1>1, <1>7, LaterShort DEF n, x
<1>9. \A k \in Nat : k <= n => V[n - k] \in Seen
  <2> DEFINE S == {k \in Nat : k <= n => V[n - k] \in Seen}
  <2>1. 0 \in S
    <3>1. n - 0 = n
      BY <1>1
    <3> QED
      BY <1>2, <1>8, <3>1
  <2>2. ASSUME NEW k \in Nat, k \in S PROVE k + 1 \in S
    <3> SUFFICES ASSUME k + 1 <= n PROVE V[n - (k + 1)] \in Seen
      OBVIOUS
    <3>1. /\ V[n - k] \in Seen /\ n - (k + 1) \in 0 .. n - 1 /\ (n - (k + 1)) + 1 = n - k
          /\ n - (k + 1) \in Nat
      BY <1>1, <2>2
    <3> DEFINE q == n - (k + 1)
    <3> HIDE DEF q, S
    <3>2. V[q] = Eff[q][V[q + 1]] /\ V[q + 1] \in Seen /\ q \in Nat
      BY <1>8, <3>1 DEF q
    <3>3. V[q] \in Seen
      BY <1>3, <3>2
    <3> QED
      BY <3>3 DEF q
  <2> HIDE DEF S
  <2>3. \A k \in Nat : k \in S
    BY <2>1, <2>2, SetInduction
  <2> QED
    BY <2>3 DEF S
<1>10. \A q \in 0 .. n : V[q] \in Seen
  <2> TAKE q \in 0 .. n
  <2>1. n - q \in Nat /\ n - q <= n /\ n - (n - q) = q
    BY <1>1
  <2> QED
    BY <1>9, <2>1
<1>11. \A q \in 0 .. n - 1 : V[q] = Eff[q][V[q + 1]]
  <2>1. \A q \in 0 .. n - 1 : q + 1 \in 0 .. n
    BY <1>1
  <2> QED
    BY <1>8, <1>10, <2>1
<1>12. Comes(Seen, V, n, x, Eff)
  BY <1>8, <1>10, <1>11 DEF Comes
<1> QED
  BY <1>2, <1>12 DEF V, n
-------------------------------------------------------------------------------
(* What the abstract list shows. *)

\* The values of the list.
Vals(L, s) == [i \in 1 .. L - 1 |-> data[s[i + 1]]]

Laters == [i \in Nat |-> Later(i)]

\* What is left of the values at the bottom.
Bottom(M, W) == Without([i \in 1 .. M |-> W[i][0]], NoValue)

\* What a search that is at q is going to find.
Hit(M, W, q, v) == \E i \in 1 .. M : 2 * i > q /\ W[i][q + 1] = v

\* All of it, for a list that goes through s.
View(L, s) ==
    /\ Placed(L, s) /\ EffectsOK /\ Apart
    /\ \A t \in Threads : Traversing(t) => \E k \in 1 .. L : Spot(s, t, k)
    /\ Vals(L, s) \in [1 .. L - 1 -> Values]
    /\ Flow(Seen, L - 1, Vals(L, s), Eff, Laters)
    /\ Items = Bottom(L - 1, Laters)
    /\ \A t \in Threads :
          Outcome(t) = IF call[t] = "find_first_if" /\ Traversing(t)
                       THEN IF Hit(L - 1, Laters, Reached(t), arg[t]) THEN "yes" ELSE "no"
                       ELSE answer[t]

\* The inductive invariant.
SimInv == ListInv /\ CallsOK

\* It can be seen of every list reached from the head.
LEMMA ViewIs ==
  ASSUME SimInv, NEW L, NEW s, Reaches(L, s)
  PROVE  View(L, s)
<1> USE DEF SimInv, ListInv
<1>1. Placed(L, s)
  BY PlacedIs
<1>2. EffectsOK /\ Apart
  BY <1>1, EffectsAre, TraversalsApart
<1>3. \A t \in Threads : Traversing(t) => \E k \in 1 .. L : Spot(s, t, k)
  BY <1>1, SpotIs
<1>4. L \in Nat /\ L # 0 /\ L - 1 \in Nat /\ Positions = 1 .. L - 1
      /\ \A i \in 1 .. L - 1 : i \in Nat /\ i + 1 \in 1 .. L /\ i + 1 # 1
  BY <1>1 DEF Placed
<1>5. Vals(L, s) \in [1 .. L - 1 -> Values]
  <2> SUFFICES ASSUME NEW i \in 1 .. L - 1 PROVE data[s[i + 1]] \in Values
    BY DEF Vals
  <2>1. i + 1 \in 1 .. L /\ 1 \in 1 .. L /\ i + 1 # 1
    BY <1>4
  <2>2. s[i + 1] \in Cells /\ s[i + 1] # HeadNode /\ Public(s[i + 1])
    BY <1>1, <2>1 DEF Placed
  <2> QED
    BY <2>2 DEF ValuesOK, Public, Cells
<1>6. Flow(Seen, L - 1, Vals(L, s), Eff, Laters)
  <2>1. ASSUME NEW i \in 1 .. L - 1 PROVE Comes(Seen, Laters[i], 2 * i, Vals(L, s)[i], Eff)
    <3>1. Laters[i] = Later(i) /\ Vals(L, s)[i] = data[s[i + 1]]
      BY <1>4 DEF Laters, Vals
    <3> QED
      BY <1>1, <3>1, LaterIs
  <2> QED
    BY <1>2, <1>4, <2>1 DEF Flow, EffectsOK
<1>7. \A i \in 1 .. L - 1 : Laters[i] = Later(i)
  BY <1>4 DEF Laters
<1>8. Items = Bottom(L - 1, Laters)
  <2>1. [i \in Positions |-> Later(i)[0]] = [i \in 1 .. L - 1 |-> Laters[i][0]]
    BY <1>4, <1>7
  <2> QED
    BY <2>1 DEF Items, Bottom
<1>9. \A t \in Threads :
         Outcome(t) = IF call[t] = "find_first_if" /\ Traversing(t)
                      THEN IF Hit(L - 1, Laters, Reached(t), arg[t]) THEN "yes" ELSE "no"
                      ELSE answer[t]
  BY <1>4, <1>7 DEF Outcome, Hit
<1> QED
  BY <1>1, <1>2, <1>3, <1>5, <1>6, <1>8, <1>9 DEF View

\* In every state.
LEMMA Views == \A L, s : SimInv /\ Reaches(L, s) => View(L, s)
  BY ViewIs
-------------------------------------------------------------------------------
(* Steps. *)

\* What becomes of a traversal's place.
At(t, q) == t \in Threads /\ Traversing(t) /\ Reached(t) = q

\* The traversals but t stay where they are, and do what they do.
OthersStay(t) ==
    \A u \in Threads \ {t} :
        /\ Traversing(u)' <=> Traversing(u)
        /\ Traversing(u) => Reached(u)' = Reached(u)
        /\ \A v \in Seen : Effect(u, v)' = Effect(u, v)
        /\ call'[u] = call[u] /\ arg'[u] = arg[u] /\ answer'[u] = answer[u]

\* Only where t was or is something else is done.
LEMMA EffFrame ==
  ASSUME NEW t, EffectsOK, EffectsOK', Apart, Apart', OthersStay(t)
  PROVE  /\ \A q \in Nat : ~At(t, q) /\ ~At(t, q)' => Eff'[q] = Eff[q]
         /\ \A q \in Nat : At(t, q) /\ ~At(t, q)' => Idle(Seen, Eff', q)
         /\ \A q \in Nat : ~At(t, q) /\ At(t, q)' => Idle(Seen, Eff, q)
<1>1. ASSUME NEW q \in Nat, ~At(t, q), ~At(t, q)' PROVE Eff'[q] = Eff[q]
  <2>1. Eff[q] \in [Seen -> Seen] /\ Eff'[q] \in [Seen -> Seen]
    BY DEF EffectsOK
  <2>2. CASE \E u \in Threads : Traversing(u) /\ Reached(u) = q
    <3>1. PICK u \in Threads : Traversing(u) /\ Reached(u) = q
      BY <2>2
    <3>2. u \in Threads \ {t}
      BY <1>1, <3>1 DEF At
    <3>3. Traversing(u)' /\ Reached(u)' = q /\ \A v \in Seen : Effect(u, v)' = Effect(u, v)
      BY <3>1, <3>2 DEF OthersStay
    <3>4. \A v \in Seen : Eff[q][v] = Effect(u, v) /\ Eff'[q][v] = Effect(u, v)'
      BY <3>1, <3>3 DEF EffectsOK
    <3>5. \A v \in Seen : Eff[q][v] = Eff'[q][v]
      BY <3>3, <3>4
    <3> QED
      BY <2>1, <3>5
  <2>3. CASE ~\E u \in Threads : Traversing(u) /\ Reached(u) = q
    <3>1. \A u \in Threads : Traversing(u)' => Reached(u)' # q
      <4> SUFFICES ASSUME NEW u \in Threads, Traversing(u)', Reached(u)' = q PROVE FALSE
        OBVIOUS
      <4>1. u # t
        BY <1>1 DEF At
      <4> QED
        BY <2>3, <4>1 DEF OthersStay
    <3>2. Idle(Seen, Eff, q) /\ Idle(Seen, Eff', q)
      BY <2>3, <3>1 DEF EffectsOK
    <3> QED
      BY <2>1, <3>2 DEF Idle
  <2> QED
    BY <2>2, <2>3
<1>2. ASSUME NEW q \in Nat, At(t, q), ~At(t, q)' PROVE Idle(Seen, Eff', q)
  <2>1. ASSUME NEW u \in Threads, Traversing(u)', Reached(u)' = q PROVE FALSE
    <3>1. u \in Threads \ {t}
      BY <1>2, <2>1 DEF At
    <3>2. Traversing(u) /\ Reached(u) = q
      BY <2>1, <3>1 DEF OthersStay
    <3> QED
      BY <1>2, <3>1, <3>2 DEF At, Apart
  <2> QED
    BY <2>1 DEF EffectsOK
<1>3. ASSUME NEW q \in Nat, ~At(t, q), At(t, q)' PROVE Idle(Seen, Eff, q)
  <2>1. ASSUME NEW u \in Threads, Traversing(u), Reached(u) = q PROVE FALSE
    <3>1. u \in Threads \ {t}
      BY <1>3, <2>1 DEF At
    <3>2. Traversing(u)' /\ Reached(u)' = q
      BY <2>1, <3>1 DEF OthersStay
    <3> QED
      BY <1>3, <3>1, <3>2 DEF At, Apart
  <2> QED
    BY <2>1 DEF EffectsOK
<1> QED
  BY <1>1, <1>2, <1>3

\* The same at the bottom shows the same ...
LEMMA BottomSame ==
  ASSUME NEW M, NEW W, NEW Z, \A i \in 1 .. M : Z[i][0] = W[i][0]
  PROVE  Bottom(M, Z) = Bottom(M, W)
<1>1. [i \in 1 .. M |-> Z[i][0]] = [i \in 1 .. M |-> W[i][0]]
  OBVIOUS
<1> QED
  BY <1>1 DEF Bottom

\* ... and the same above q is found from q.
LEMMA HitSame ==
  ASSUME NEW M, NEW W, NEW Z, NEW q, NEW v, \A i \in 1 .. M : 2 * i > q => Z[i][q + 1] = W[i][q + 1]
  PROVE  Hit(M, Z, q, v) <=> Hit(M, W, q, v)
  BY DEF Hit

\* Thread u goes on with its operation where it is.
Stands(u) == /\ Traversing(u)' <=> Traversing(u)
             /\ pc'[u] = "visit" <=> pc[u] = "visit"
             /\ call'[u] = call[u] /\ arg'[u] = arg[u] /\ answer'[u] = answer[u]
             /\ IF pc[u] = "visit" THEN ahead'[u] = ahead[u] ELSE current'[u] = current[u]

\* Then it has come as far in the same list.
LEMMA StayHere ==
  ASSUME NEW L, NEW s, View(L, s), View(L, s)', NEW t, \A u \in Threads \ {t} : Stands(u)
  PROVE  OthersStay(t)
<1> SUFFICES ASSUME NEW u \in Threads \ {t}
             PROVE  /\ Traversing(u)' <=> Traversing(u)
                    /\ Traversing(u) => Reached(u)' = Reached(u)
                    /\ \A v \in Seen : Effect(u, v)' = Effect(u, v)
  BY DEF OthersStay, Stands
<1>0. Stands(u)
  OBVIOUS
<1>1. Traversing(u)' <=> Traversing(u)
  BY <1>0 DEF Stands
<1>2. ASSUME Traversing(u) PROVE Reached(u)' = Reached(u)
  <2>1. PICK k \in 1 .. L : Spot(s, u, k)
    BY <1>2 DEF View
  <2>2. PICK j \in 1 .. L : Spot(s, u, j)'
    BY <1>1, <1>2 DEF View
  <2>3. s[j] = s[k]
    BY <1>0, <2>1, <2>2 DEF Spot, Stands
  <2>4. j = k
    BY <2>3 DEF View, Placed
  <2> QED
    BY <1>0, <2>1, <2>2, <2>4 DEF Spot, Stands
<1>3. \A v \in Seen : Effect(u, v)' = Effect(u, v)
  BY <1>0 DEF Effect, Stands
<1> QED
  BY <1>1, <1>2, <1>3

\* When nothing else is done on the way, the same comes out.
LEMMA SameList ==
  ASSUME NEW L, NEW s, View(L, s), View(L, s)', NEW t, OthersStay(t),
         Vals(L, s)' = Vals(L, s), \A q \in 0 .. 2 * (L - 1) - 1 : Eff'[q] = Eff[q]
  PROVE  /\ Items' = Items
         /\ \A u \in Threads \ {t} : Outcome(u)' = Outcome(u)
         /\ \A i \in 1 .. L - 1 : \A q \in 0 .. 2 * i : Laters'[i][q] = Laters[i][q]
<1>1. L \in Nat /\ L - 1 \in Nat
  BY DEF View, Placed
<1> DEFINE M == L - 1
           x == Vals(L, s)
           W == Laters
           E == Eff
           Z == Laters'
           F == Eff'
<1>2. Flow(Seen, M, x, E, W) /\ Flow(Seen, M, x, F, Z)
  BY DEF View
<1>3. Items = Bottom(M, W) /\ Items' = Bottom(M, Z) /\ M \in Nat
  BY <1>1 DEF View
<1>4. \A q \in 0 .. 2 * M - 1 : F[q] = E[q]
  OBVIOUS
<1>5. \A u \in Threads :
        /\ Outcome(u) = IF call[u] = "find_first_if" /\ Traversing(u)
                        THEN IF Hit(M, W, Reached(u), arg[u]) THEN "yes" ELSE "no"
                        ELSE answer[u]
        /\ Outcome(u)' = IF call'[u] = "find_first_if" /\ Traversing(u)'
                         THEN IF Hit(M, Z, Reached(u)', arg'[u]) THEN "yes" ELSE "no"
                         ELSE answer'[u]
        /\ Traversing(u) => Reached(u) \in Nat
  BY DEF View, EffectsOK
<1>6. \A i \in 1 .. M : \A q \in 0 .. 2 * i : Laters'[i][q] = Laters[i][q]
  <2> HIDE DEF M, x, W, E, Z, F
  <2>1. \A i \in 1 .. M : \A q \in 0 .. 2 * i : Z[i][q] = W[i][q]
    BY <1>2, <1>4, FlowSame
  <2> QED
    BY <2>1 DEF Z, W
<1> HIDE DEF M, x, W, E, Z, F
<1>7. \A i \in 1 .. M : \A q \in 0 .. 2 * i : Z[i][q] = W[i][q]
  BY <1>6 DEF Z, W
<1>8. Items' = Items
  <2>1. \A i \in 1 .. M : 0 \in 0 .. 2 * i
    BY <1>3
  <2>2. Bottom(M, Z) = Bottom(M, W)
    BY <1>7, <2>1, BottomSame
  <2> QED
    BY <1>3, <2>2
<1>9. ASSUME NEW u \in Threads \ {t} PROVE Outcome(u)' = Outcome(u)
  <2>1. CASE call[u] = "find_first_if" /\ Traversing(u)
    <3>1. PICK q \in Nat : q = Reached(u)
      BY <1>5, <2>1
    <3>2. \A i \in 1 .. M : 2 * i > q => q + 1 \in 0 .. 2 * i
      BY <1>3, <3>1
    <3>3. Hit(M, Z, q, arg[u]) <=> Hit(M, W, q, arg[u])
      BY <1>7, <3>2, HitSame
    <3> QED
      BY <1>5, <2>1, <3>1, <3>3 DEF OthersStay
  <2>2. CASE ~(call[u] = "find_first_if" /\ Traversing(u))
    BY <1>5, <2>2 DEF OthersStay
  <2> QED
    BY <2>1, <2>2
<1> QED
  BY <1>6, <1>8, <1>9 DEF M

\* After every step.
LEMMA ViewsNext == (\A L, s : SimInv /\ Reaches(L, s) => View(L, s))'
  BY Views, PTL

\* The values of a list that no one writes to.
LEMMA ValsKept ==
  ASSUME NEW L, NEW s, View(L, s), \A n \in allocated : data'[n] = data[n]
  PROVE  Vals(L, s)' = Vals(L, s)
<1>1. \A i \in 1 .. L - 1 : i + 1 \in 1 .. L
  BY DEF View, Placed
<1>2. \A i \in 1 .. L - 1 : s[i + 1] \in allocated
  BY <1>1 DEF View, Placed, Public
<1> QED
  BY <1>2 DEF Vals

\* A step of t that changes nothing in the list and at which t is not in it.
LEMMA OutsideSim ==
  ASSUME NEW L, NEW s, View(L, s), View(L, s)', Vals(L, s)' = Vals(L, s),
         NEW t \in Threads, \A u \in Threads \ {t} : Stands(u), ~Traversing(t), ~Traversing(t)'
  PROVE  /\ Items' = Items
         /\ \A u \in Threads \ {t} : Outcome(u)' = Outcome(u)
         /\ Outcome(t) = answer[t] /\ Outcome(t)' = answer'[t]
<1>1. OthersStay(t)
  BY StayHere
<1>2. \A q \in Nat : Eff'[q] = Eff[q]
  BY <1>1, EffFrame DEF View, At
<1>3. \A q \in 0 .. 2 * (L - 1) - 1 : Eff'[q] = Eff[q]
  BY <1>2
<1>4. Items' = Items /\ \A u \in Threads \ {t} : Outcome(u)' = Outcome(u)
  BY <1>1, <1>3, SameList
<1>5. Outcome(t) = answer[t] /\ Outcome(t)' = answer'[t]
  BY DEF View
<1> QED
  BY <1>4, <1>5

\* A step at which every traversal stays where it is.
LEMMA StandingSim ==
  ASSUME NEW L, NEW s, View(L, s), View(L, s)', Vals(L, s)' = Vals(L, s),
         \A u \in Threads : Stands(u)
  PROVE  Items' = Items /\ \A u \in Threads : Outcome(u)' = Outcome(u)
<1> USE LockedListAssumption
<1>1. OthersStay(NoThread)
  BY StayHere
<1>2. \A q \in Nat : Eff'[q] = Eff[q]
  BY <1>1, EffFrame DEF View, At
<1>3. \A q \in 0 .. 2 * (L - 1) - 1 : Eff'[q] = Eff[q]
  BY <1>2
<1> QED
  BY <1>1, <1>3, SameList

\* A search does nothing to the values.
LEMMA SearchEff ==
  ASSUME EffectsOK, EffectsOK', Apart, Apart', NEW t \in Threads, OthersStay(t),
         call[t] = "find_first_if", call'[t] = "find_first_if"
  PROVE  \A q \in Nat : Eff'[q] = Eff[q] /\ (At(t, q) \/ At(t, q)' => Idle(Seen, Eff, q))
<1> SUFFICES ASSUME NEW q \in Nat
             PROVE  Eff'[q] = Eff[q] /\ (At(t, q) \/ At(t, q)' => Idle(Seen, Eff, q))
  OBVIOUS
<1>1. \A v \in Seen : Effect(t, v) = v /\ Effect(t, v)' = v
  BY DEF Effect
<1>2. At(t, q) => Idle(Seen, Eff, q)
  BY <1>1 DEF At, EffectsOK, Idle
<1>3. At(t, q)' => Idle(Seen, Eff', q)
  BY <1>1 DEF At, EffectsOK, Idle
<1>4. Eff[q] \in [Seen -> Seen] /\ Eff'[q] \in [Seen -> Seen]
  BY DEF EffectsOK
<1>5. Idle(Seen, Eff, q) /\ Idle(Seen, Eff', q) => Eff'[q] = Eff[q]
  BY <1>4 DEF Idle
<1> QED
  BY <1>2, <1>3, <1>5, EffFrame

\* The threads but t stand where they are while t takes a step.
LEMMA OthersStandStill ==
  ASSUME IInv, ValuesOK, CallsOK, NEW t \in Threads, CallPushFront(t) \/ CallTraversal(t) \/ Step(t)
  PROVE  \A u \in Threads \ {t} : Stands(u)
<1>1. OthersStand(t) /\ OthersWait(t)
  BY StepWaits, StepStands
<1>2. \A u \in Threads \ {t} : answer'[u] = answer[u]
  <2>1. CASE CallPushFront(t) \/ CallTraversal(t)
    BY <2>1 DEF CallPushFront, CallTraversal
  <2>2. CASE Step(t)
    BY <2>2 DEF Step, LockHead, Link, Unlock, Return, Look, LockNext, Release, Visit, Try, Test, Unlink,
                UnlockNext, Free, ValuesOK
  <2> QED
    BY <2>1, <2>2
<1> QED
  BY <1>1, <1>2 DEF OthersStand, OthersWait, Stands, Traversing

-------------------------------------------------------------------------------
(* The bottom. *)

\* The values at the bottom.
Lowest(M, W) == [i \in 1 .. M |-> W[i][0]]

\* They are known.
Down(M, W) == M \in Nat /\ \A i \in 1 .. M : W[i][0] \in Seen

\* They are values or were removed.
LEMMA LowestIs ==
  ASSUME NEW M, NEW W, Down(M, W)
  PROVE  /\ Members(Seen, M, Lowest(M, W)) /\ Bottom(M, W) = Without(Lowest(M, W), NoValue)
         /\ Seen \ {NoValue} = Values
  BY LockedListAssumption DEF Down, Lowest, Members, Bottom, Seen

\* for_each changes what is at the bottom ...
LEMMA BottomMapped ==
  ASSUME NEW M, NEW W, NEW Z, Down(M, W), Down(M, Z),
         \A i \in 1 .. M : Z[i][0] = IF W[i][0] = NoValue THEN NoValue ELSE Image[W[i][0]]
  PROVE  Bottom(M, Z) = Mapped(Image, Bottom(M, W))
<1> DEFINE x == Lowest(M, W)
           y == Lowest(M, Z)
<1>1. \A i \in 1 .. M : y[i] = IF x[i] = NoValue THEN NoValue ELSE Image[x[i]]
  BY DEF Lowest
<1>2. Members(Seen, M, x) /\ Members(Seen, M, y) /\ Seen \ {NoValue} = Values
      /\ Bottom(M, W) = Without(x, NoValue) /\ Bottom(M, Z) = Without(y, NoValue)
  BY LowestIs
<1>3. Image \in [Seen \ {NoValue} -> Seen \ {NoValue}]
  BY <1>2, LockedListAssumption
<1> HIDE DEF x, y
<1>4. Without(y, NoValue) = Mapped(Image, Without(x, NoValue))
  BY <1>1, <1>2, <1>3, WithoutMapped
<1> QED
  BY <1>2, <1>4

\* ... remove_if takes a value out ...
LEMMA BottomWithout ==
  ASSUME NEW M, NEW W, NEW Z, Down(M, W), Down(M, Z), NEW w,
         \A i \in 1 .. M : Z[i][0] = IF W[i][0] = w THEN NoValue ELSE W[i][0]
  PROVE  Bottom(M, Z) = Without(Bottom(M, W), w)
<1> DEFINE x == Lowest(M, W)
           y == Lowest(M, Z)
<1>1. \A i \in 1 .. M : y[i] = IF x[i] = w THEN NoValue ELSE x[i]
  BY DEF Lowest
<1>2. Members(Seen, M, x) /\ Members(Seen, M, y)
      /\ Bottom(M, W) = Without(x, NoValue) /\ Bottom(M, Z) = Without(y, NoValue)
  BY LowestIs
<1> HIDE DEF x, y
<1>3. Without(y, NoValue) = Without(Without(x, NoValue), w)
  BY <1>1, <1>2, WithoutBoth
<1> QED
  BY <1>2, <1>3

\* ... and find_first_if looks for one.
LEMMA BottomMembers ==
  ASSUME NEW M, NEW W, Down(M, W), NEW y
  PROVE  (\E i \in DOMAIN Bottom(M, W) : Bottom(M, W)[i] = y) <=> y # NoValue /\ \E i \in 1 .. M : W[i][0] = y
<1> DEFINE x == Lowest(M, W)
<1>1. Members(Seen, M, x) /\ Bottom(M, W) = Without(x, NoValue)
  BY LowestIs
<1>2. (\E i \in 1 .. M : W[i][0] = y) <=> (\E i \in 1 .. M : x[i] = y)
  BY DEF Lowest
<1> HIDE DEF x
<1>3. (\E i \in DOMAIN Without(x, NoValue) : Without(x, NoValue)[i] = y)
      <=> y # NoValue /\ \E i \in 1 .. M : x[i] = y
  <2>1. Leaves(M, x, NoValue, Without(x, NoValue))
    BY <1>1, WithoutMembers
  <2> QED
    BY <2>1 DEF Leaves
<1> QED
  BY <1>1, <1>2, <1>3

\* One value more, at place p + 1.
Wider(M, W, Z, p, z) == /\ Down(M, W) /\ Down(M + 1, Z) /\ p \in 0 .. M
                        /\ \A i \in 1 .. p : Z[i][0] = W[i][0]
                        /\ Z[p + 1][0] = z
                        /\ \A i \in p + 1 .. M : Z[i + 1][0] = W[i][0]

\* Then one more is at the bottom.
LEMMA WiderIs ==
  ASSUME NEW M, NEW W, NEW Z, NEW p, NEW z, Wider(M, W, Z, p, z)
  PROVE  PutIn(M, Lowest(M, W), p, z, Lowest(M + 1, Z))
<1>1. /\ M \in Nat /\ p \in 0 .. M
      /\ \A i \in 1 .. p : i \in 1 .. M /\ i \in 1 .. M + 1
      /\ p + 1 \in 1 .. M + 1
      /\ \A i \in p + 1 .. M : i \in 1 .. M /\ i + 1 \in 1 .. M + 1
  BY DEF Wider, Down
<1> QED
  BY <1>1 DEF Wider, PutIn, Lowest

\* One in front of the others comes first ...
LEMMA BottomPutFirst ==
  ASSUME NEW M, NEW W, NEW Z, NEW z \in Values, Wider(M, W, Z, 0, z)
  PROVE  Bottom(M + 1, Z) = <<z>> \o Bottom(M, W)
<1> DEFINE x == Lowest(M, W)
           y == Lowest(M + 1, Z)
<1>1. /\ Members(Seen, M, x) /\ Members(Seen, M + 1, y) /\ Seen \ {NoValue} = Values
      /\ Bottom(M, W) = Without(x, NoValue) /\ Bottom(M + 1, Z) = Without(y, NoValue)
  BY LowestIs DEF Wider
<1>2. PutIn(M, x, 0, z, y) /\ z \in Seen \ {NoValue}
  BY <1>1, WiderIs
<1> HIDE DEF x, y
<1>3. Without(y, NoValue) = <<z>> \o Without(x, NoValue)
  BY <1>1, <1>2, WithoutPutFirst
<1> QED
  BY <1>1, <1>3

\* ... and one that is going to be removed does not count.
LEMMA BottomPutIn ==
  ASSUME NEW M, NEW W, NEW Z, NEW p, Wider(M, W, Z, p, NoValue)
  PROVE  Bottom(M + 1, Z) = Bottom(M, W)
<1> DEFINE x == Lowest(M, W)
           y == Lowest(M + 1, Z)
<1>1. /\ Members(Seen, M, x) /\ Members(Seen, M + 1, y)
      /\ Bottom(M, W) = Without(x, NoValue) /\ Bottom(M + 1, Z) = Without(y, NoValue)
  BY LowestIs DEF Wider
<1>2. PutIn(M, x, p, NoValue, y)
  BY WiderIs
<1> HIDE DEF x, y
<1>3. Without(y, NoValue) = Without(x, NoValue)
  BY <1>1, <1>2, WithoutPutIn
<1> QED
  BY <1>1, <1>3

\* The values come down to the bottom.
LEMMA FlowDown ==
  ASSUME NEW M, NEW x, NEW E, NEW W, Flow(Seen, M, x, E, W)
  PROVE  Down(M, W)
<1>1. M \in Nat /\ \A i \in 1 .. M : 0 \in 0 .. 2 * i
  BY DEF Flow
<1>2. \A i \in 1 .. M : Comes(Seen, W[i], 2 * i, x[i], E)
  BY DEF Flow
<1> QED
  BY <1>1, <1>2 DEF Down, Comes

\* A search that goes one step on finds what it found before or what it steps over.
LEMMA HitStep ==
  ASSUME NEW M, NEW x, NEW E, NEW W, Flow(Seen, M, x, E, W), NEW q \in Nat, Idle(Seen, E, q + 1), NEW v
  PROVE  Hit(M, W, q, v) <=> Hit(M, W, q + 1, v) \/ \E i \in 1 .. M : 2 * i = q + 1 /\ x[i] = v
<1>1. ASSUME NEW i \in 1 .. M PROVE /\ 2 * i > q + 1 => W[i][q + 1] = W[i][(q + 1) + 1]
                                    /\ 2 * i = q + 1 => W[i][q + 1] = x[i]
  <2>1. Comes(Seen, W[i], 2 * i, x[i], E) /\ M \in Nat
    BY DEF Flow
  <2>2. 2 * i > q + 1 => q + 1 \in 0 .. 2 * i - 1 /\ (q + 1) + 1 \in 0 .. 2 * i
    BY <2>1
  <2> DEFINE V == W[i]
             n == 2 * i
             r == q + 1
  <2>3. Comes(Seen, V, n, x[i], E) /\ (n > r => r \in 0 .. n - 1 /\ r + 1 \in 0 .. n) /\ Idle(Seen, E, r)
    BY <2>1, <2>2
  <2> HIDE DEF V, n, r
  <2>4. n > r => V[r] = V[r + 1]
    BY <2>3 DEF Comes, Idle
  <2>5. n = r => V[r] = x[i]
    BY <2>3 DEF Comes
  <2> QED
    BY <2>4, <2>5 DEF V, n, r
<1>2. \A i \in 1 .. M : 2 * i > q <=> 2 * i > q + 1 \/ 2 * i = q + 1
  BY DEF Flow
<1> QED
  BY <1>1, <1>2 DEF Hit

\* The list stays where it is while t takes a step.
Here(L, s, t) == /\ View(L, s) /\ View(L, s)'
                 /\ t \in Threads /\ \A u \in Threads \ {t} : Stands(u)

\* What a view shows: the values on their way down and what comes of them.
Shows(L, s) ==
    /\ L - 1 \in Nat
    /\ Flow(Seen, L - 1, Vals(L, s), Eff, Laters)
    /\ Items = Bottom(L - 1, Laters)
    /\ \A t \in Threads :
          /\ Outcome(t) = IF call[t] = "find_first_if" /\ Traversing(t)
                          THEN IF Hit(L - 1, Laters, Reached(t), arg[t]) THEN "yes" ELSE "no"
                          ELSE answer[t]
          /\ Traversing(t) => Reached(t) \in Nat
    /\ Vals(L, s) \in [1 .. L - 1 -> Values]

\* It does so before a step ...
LEMMA ViewShows ==
  ASSUME NEW L, NEW s, View(L, s) PROVE Shows(L, s)
<1>1. L - 1 \in Nat
  BY DEF View, Placed
<1> QED
  BY <1>1 DEF View, Shows, EffectsOK

\* ... and after it.
LEMMA ViewShowsNext ==
  ASSUME NEW L, NEW s, View(L, s)' PROVE Shows(L, s)'
<1>1. L - 1 \in Nat
  BY DEF View, Placed
<1> QED
  BY <1>1 DEF View, Shows, EffectsOK

\* t goes on from a to b, and changes the values on the way.
Moves(L, s, t, a, b) ==
    /\ a \in Nat /\ b \in Nat /\ a < b
    /\ At(t, a) /\ At(t, b)'
    /\ call[t] # "find_first_if" /\ call'[t] = call[t] /\ arg'[t] = arg[t] /\ answer'[t] = answer[t]
    /\ \A u \in Threads \ {t} : Traversing(u) => Reached(u) \notin a .. b
    /\ \A i \in 1 .. L - 1 : Vals(L, s)'[i] = IF a < 2 * i /\ 2 * i <= b THEN Effect(t, Vals(L, s)[i])
                                              ELSE Vals(L, s)[i]

\* Nothing of that is seen.
LEMMA MoveSim ==
  ASSUME NEW L, NEW s, NEW t, Here(L, s, t), NEW a, NEW b, Moves(L, s, t, a, b)
  PROVE  Items' = Items /\ \A u \in Threads : Outcome(u)' = Outcome(u)
<1>1. /\ EffectsOK /\ EffectsOK' /\ Apart /\ Apart' /\ t \in Threads
      /\ a \in Nat /\ b \in Nat /\ a < b /\ At(t, a) /\ At(t, b)'
  BY DEF Here, View, Moves
<1>2. OthersStay(t)
  BY StayHere DEF Here
<1>3. \A q : (At(t, q) => q = a) /\ (At(t, q)' => q = b)
  BY <1>1 DEF At
<1>4. \A q \in Nat : q # a /\ q # b => Eff'[q] = Eff[q]
  BY <1>1, <1>2, <1>3, EffFrame
<1>5. \A q \in a + 1 .. b : Idle(Seen, Eff, q)
  <2> SUFFICES ASSUME NEW q \in a + 1 .. b PROVE Idle(Seen, Eff, q)
    OBVIOUS
  <2>1. q \in Nat /\ q \in a .. b /\ q # a
    BY <1>1
  <2>2. \A u \in Threads : Traversing(u) => Reached(u) # q
    BY <1>3, <2>1 DEF Moves, At
  <2> QED
    BY <1>1, <2>1, <2>2 DEF EffectsOK
<1>6. \A q \in a .. b - 1 : Idle(Seen, Eff', q)
  <2> SUFFICES ASSUME NEW q \in a .. b - 1 PROVE Idle(Seen, Eff', q)
    OBVIOUS
  <2>1. q \in Nat /\ q \in a .. b /\ q # b
    BY <1>1
  <2>2. \A u \in Threads : Traversing(u)' => Reached(u)' # q
    BY <1>1, <1>2, <1>3, <2>1 DEF Moves, At, OthersStay
  <2> QED
    BY <1>1, <2>1, <2>2 DEF EffectsOK
<1>7. \A v \in Seen : Effect(t, v)' = Effect(t, v)
  BY DEF Moves, Effect
<1>8. \A v \in Seen : Eff[a][v] = Effect(t, v)
  BY <1>1 DEF At, EffectsOK
<1>9. Eff'[b] = Eff[a]
  <2>1. \A v \in Seen : Eff'[b][v] = Effect(t, v)'
    BY <1>1 DEF At, EffectsOK
  <2>2. Eff[a] \in [Seen -> Seen] /\ Eff'[b] \in [Seen -> Seen]
    BY <1>1 DEF EffectsOK
  <2> QED
    BY <1>7, <1>8, <2>1, <2>2
<1> DEFINE M == L - 1
           x == Vals(L, s)
           y == Vals(L, s)'
           E == Eff
           F == Eff'
           W == Laters
           Z == Laters'
<1>10. /\ Flow(Seen, M, x, E, W) /\ Flow(Seen, M, y, F, Z) /\ M \in Nat
       /\ x \in [1 .. M -> Values]
       /\ Items = Bottom(M, W) /\ Items' = Bottom(M, Z)
       /\ \A u \in Threads :
            /\ Outcome(u) = IF call[u] = "find_first_if" /\ Traversing(u)
                            THEN IF Hit(M, W, Reached(u), arg[u]) THEN "yes" ELSE "no"
                            ELSE answer[u]
            /\ Outcome(u)' = IF call'[u] = "find_first_if" /\ Traversing(u)'
                             THEN IF Hit(M, Z, Reached(u)', arg'[u]) THEN "yes" ELSE "no"
                             ELSE answer'[u]
            /\ Traversing(u) => Reached(u) \in Nat
  BY ViewShows, ViewShowsNext DEF Here, Shows
<1>11. \A i \in 1 .. M : x[i] \in Seen /\ y[i] = IF a < 2 * i /\ 2 * i <= b THEN E[a][x[i]] ELSE x[i]
  <2>1. \A i \in 1 .. M : x[i] \in Seen
    BY <1>10 DEF Seen
  <2> QED
    BY <1>8, <2>1 DEF Moves
<1> HIDE DEF M, x, y, E, F, W, Z
<1>12. Moved(Seen, M, x, E, y, F, a, b)
  <2>1. \A q \in Nat : q < a \/ q > b => F[q] = E[q]
    BY <1>1, <1>4 DEF E, F
  <2> QED
    BY <1>1, <1>5, <1>6, <1>9, <1>11, <2>1 DEF Moved, E, F
<1>13. \A i \in 1 .. M : \A q \in 0 .. 2 * i : q <= a \/ q > b => Z[i][q] = W[i][q]
  BY <1>10, <1>12, FlowMoved
<1>14. Items' = Items
  <2>1. \A i \in 1 .. M : 0 \in 0 .. 2 * i /\ 0 <= a
    BY <1>1, <1>10
  <2>2. Bottom(M, Z) = Bottom(M, W)
    BY <1>13, <2>1, BottomSame
  <2> QED
    BY <1>10, <2>2
<1>15. ASSUME NEW u \in Threads \ {t} PROVE Outcome(u)' = Outcome(u)
  <2>1. CASE call[u] = "find_first_if" /\ Traversing(u)
    <3>1. PICK q \in Nat : q = Reached(u)
      BY <1>10, <2>1
    <3>2. q \notin a .. b
      BY <2>1, <3>1 DEF Moves
    <3>3. \A i \in 1 .. M : 2 * i > q => q + 1 \in 0 .. 2 * i /\ (q + 1 <= a \/ q + 1 > b)
      BY <1>1, <1>10, <3>1, <3>2
    <3>4. Hit(M, Z, q, arg[u]) <=> Hit(M, W, q, arg[u])
      BY <1>13, <3>3, HitSame
    <3> QED
      BY <1>2, <1>10, <2>1, <3>1, <3>4 DEF OthersStay
  <2>2. CASE ~(call[u] = "find_first_if" /\ Traversing(u))
    BY <1>2, <1>10, <2>2 DEF OthersStay
  <2> QED
    BY <2>1, <2>2
<1>16. Outcome(t)' = Outcome(t)
  BY <1>1, <1>10 DEF Moves
<1> QED
  BY <1>14, <1>15, <1>16

\* t comes to the head, where no one is.
Starts(L, s, t) ==
    /\ Here(L, s, t)
    /\ ~Traversing(t) /\ At(t, 0)'
    /\ call'[t] = call[t] /\ arg'[t] = arg[t] /\ answer'[t] = answer[t]
    /\ owner[HeadNode] = NoThread
    /\ Vals(L, s)' = Vals(L, s)

\* Then t does something to all the values at the bottom, and no one else is disturbed.
LEMMA StartFlow ==
  ASSUME NEW L, NEW s, NEW t, Starts(L, s, t)
  PROVE  /\ Down(L - 1, Laters) /\ Down(L - 1, Laters')
         /\ \A v \in Seen : Eff'[0][v] = Effect(t, v)'
         /\ \A i \in 1 .. L - 1 : /\ Laters'[i][1] = Laters[i][0]
                                  /\ Laters'[i][0] = Eff'[0][Laters[i][0]]
         /\ \A u \in Threads \ {t} : Outcome(u)' = Outcome(u)
<1> USE LockedListAssumption
<1>1. /\ EffectsOK /\ EffectsOK' /\ Apart /\ Apart' /\ t \in Threads /\ L - 1 \in Nat
  BY ViewShows DEF Starts, Here, View, Shows
<1>2. OthersStay(t)
  BY StayHere DEF Starts, Here
<1>3. \A q \in Nat : q # 0 => Eff'[q] = Eff[q]
  BY <1>1, <1>2, EffFrame DEF At, Starts
<1>4. Idle(Seen, Eff, 0)
  <2>1. ASSUME NEW u \in Threads, Traversing(u), Reached(u) = 0 PROVE FALSE
    <3>1. PICK k \in 1 .. L : Spot(s, u, k)
      BY <2>1 DEF Starts, Here, View
    <3>2. k = 1
      BY <1>1, <2>1, <3>1 DEF Spot
    <3>3. s[1] = HeadNode
      BY DEF Starts, Here, View, Placed
    <3> QED
      BY <3>1, <3>2, <3>3 DEF Spot, Starts
  <2> QED
    BY <1>1, <2>1 DEF EffectsOK
<1>5. \A v \in Seen : Eff'[0][v] = Effect(t, v)'
  BY <1>1 DEF Starts, At, EffectsOK
<1> DEFINE M == L - 1
           x == Vals(L, s)
           E == Eff
           F == Eff'
           W == Laters
           Z == Laters'
<1>10. /\ Flow(Seen, M, x, E, W) /\ Flow(Seen, M, x, F, Z) /\ M \in Nat
       /\ \A u \in Threads :
            /\ Outcome(u) = IF call[u] = "find_first_if" /\ Traversing(u)
                            THEN IF Hit(M, W, Reached(u), arg[u]) THEN "yes" ELSE "no"
                            ELSE answer[u]
            /\ Outcome(u)' = IF call'[u] = "find_first_if" /\ Traversing(u)'
                             THEN IF Hit(M, Z, Reached(u)', arg'[u]) THEN "yes" ELSE "no"
                             ELSE answer'[u]
            /\ Traversing(u) => Reached(u) \in Nat
  BY ViewShows, ViewShowsNext DEF Starts, Here, Shows
<1> HIDE DEF M, x, E, F, W, Z
<1>11. \A q \in 1 .. 2 * M - 1 : F[q] = E[q]
  BY <1>3, <1>10 DEF E, F
<1>12. \A i \in 1 .. M : /\ \A q \in 1 .. 2 * i : Z[i][q] = W[i][q]
                         /\ Z[i][0] = F[0][W[i][0]]
                         /\ W[i][1] = W[i][0] /\ W[i][0] \in Seen
  BY <1>4, <1>10, <1>11, FlowStart DEF E
<1>13. Down(M, W) /\ Down(M, Z)
  BY <1>10, FlowDown
<1>14. \A i \in 1 .. M : Z[i][1] = W[i][0] /\ Z[i][0] = F[0][W[i][0]]
  <2>1. \A i \in 1 .. M : 1 \in 1 .. 2 * i
    BY <1>10
  <2> QED
    BY <1>12, <2>1
<1>15. ASSUME NEW u \in Threads \ {t} PROVE Outcome(u)' = Outcome(u)
  <2>1. CASE call[u] = "find_first_if" /\ Traversing(u)
    <3>1. PICK q \in Nat : q = Reached(u)
      BY <1>10, <2>1
    <3>2. \A i \in 1 .. M : 2 * i > q => q + 1 \in 1 .. 2 * i
      BY <1>10, <3>1
    <3>3. \A i \in 1 .. M : 2 * i > q => Z[i][q + 1] = W[i][q + 1]
      BY <1>12, <3>2
    <3>4. Hit(M, Z, q, arg[u]) <=> Hit(M, W, q, arg[u])
      BY <3>3, HitSame
    <3> QED
      BY <1>2, <1>10, <2>1, <3>1, <3>4 DEF OthersStay
  <2>2. CASE ~(call[u] = "find_first_if" /\ Traversing(u))
    BY <1>2, <1>10, <2>2 DEF OthersStay
  <2> QED
    BY <2>1, <2>2
<1> QED
  BY <1>5, <1>13, <1>14, <1>15 DEF M, W, Z, F

\* A traversal does all it is going to do when it locks the head.
LEMMA StartSim ==
  ASSUME NEW L, NEW s, NEW t, Starts(L, s, t),
         call[t] \in Traversals, call[t] \in {"find_first_if", "remove_if"} => arg[t] \in Values
  PROVE  /\ call[t] = "for_each" => Items' = Mapped(Image, Items)
         /\ call[t] = "remove_if" => Items' = Without(Items, arg[t])
         /\ call[t] = "find_first_if" =>
               /\ Items' = Items
               /\ Outcome(t)' = IF \E i \in DOMAIN Items : Items[i] = arg[t] THEN "yes" ELSE "no"
         /\ call[t] # "find_first_if" => Outcome(t)' = Outcome(t)
         /\ \A u \in Threads \ {t} : Outcome(u)' = Outcome(u)
<1> USE LockedListAssumption
<1> DEFINE M == L - 1
           W == Laters
           Z == Laters'
           F == Eff'
           v == arg[t]
<1>1. /\ Down(M, W) /\ Down(M, Z)
      /\ \A u \in Seen : F[0][u] = Effect(t, u)'
      /\ \A i \in 1 .. M : Z[i][1] = W[i][0] /\ Z[i][0] = F[0][W[i][0]]
      /\ \A u \in Threads \ {t} : Outcome(u)' = Outcome(u)
  BY StartFlow
<1>2. /\ t \in Threads /\ Items = Bottom(M, W) /\ Items' = Bottom(M, Z) /\ M \in Nat
      /\ Outcome(t) = IF call[t] = "find_first_if" /\ Traversing(t)
                      THEN IF Hit(M, W, Reached(t), arg[t]) THEN "yes" ELSE "no"
                      ELSE answer[t]
      /\ Outcome(t)' = IF call'[t] = "find_first_if" /\ Traversing(t)'
                       THEN IF Hit(M, Z, Reached(t)', arg'[t]) THEN "yes" ELSE "no"
                       ELSE answer'[t]
  BY ViewShows, ViewShowsNext DEF Starts, Here, Shows
<1>3. \A w : Effect(t, w)' = IF w = NoValue THEN NoValue
                             ELSE CASE call[t] = "for_each" -> Image[w]
                                    [] call[t] = "remove_if" /\ w = v -> NoValue
                                    [] OTHER -> w
  BY DEF Effect, Starts
<1>4. call'[t] = call[t] /\ arg'[t] = v /\ ~Traversing(t) /\ answer'[t] = answer[t]
      /\ Traversing(t)' /\ Reached(t)' = 0
  BY DEF Starts, At
<1> HIDE DEF M, W, Z, F, v
<1>8. ASSUME NEW i \in 1 .. M
      PROVE  /\ W[i][0] \in Seen
             /\ Z[i][0] = IF W[i][0] = NoValue THEN NoValue
                          ELSE CASE call[t] = "for_each" -> Image[W[i][0]]
                                 [] call[t] = "remove_if" /\ W[i][0] = v -> NoValue
                                 [] OTHER -> W[i][0]
  <2>1. W[i][0] \in Seen /\ Z[i][0] = F[0][W[i][0]]
    BY <1>1 DEF Down
  <2>2. \A w \in Seen : F[0][w] = IF w = NoValue THEN NoValue
                                   ELSE CASE call[t] = "for_each" -> Image[w]
                                          [] call[t] = "remove_if" /\ w = v -> NoValue
                                          [] OTHER -> w
    BY <1>1, <1>3, Zenon
  <2> DEFINE w == W[i][0]
  <2> HIDE DEF w
  <2>3. w \in Seen /\ Z[i][0] = F[0][w]
    BY <2>1 DEF w
  <2>4. Z[i][0] = IF w = NoValue THEN NoValue
                  ELSE CASE call[t] = "for_each" -> Image[w]
                         [] call[t] = "remove_if" /\ w = v -> NoValue
                         [] OTHER -> w
    BY <2>2, <2>3, Zenon
  <2> QED
    BY <2>3, <2>4 DEF w
<1>9. v # NoValue \/ call[t] = "for_each"
  BY LockedListAssumption DEF v, Traversals
<1>5. CASE call[t] = "for_each"
  <2>1. \A i \in 1 .. M : Z[i][0] = IF W[i][0] = NoValue THEN NoValue ELSE Image[W[i][0]]
    BY <1>5, <1>8
  <2>2. Items' = Mapped(Image, Items)
    BY <1>1, <1>2, <2>1, BottomMapped
  <2> QED
    BY <1>1, <1>2, <1>4, <1>5, <2>2
<1>6. CASE call[t] = "remove_if"
  <2>1. \A i \in 1 .. M : Z[i][0] = IF W[i][0] = v THEN NoValue ELSE W[i][0]
    BY <1>6, <1>8, <1>9
  <2>2. Items' = Without(Items, v)
    BY <1>1, <1>2, <2>1, BottomWithout
  <2> QED
    BY <1>1, <1>2, <1>4, <1>6, <2>2 DEF v
<1>7. CASE call[t] = "find_first_if"
  <2>1. \A i \in 1 .. M : Z[i][0] = W[i][0]
    BY <1>7, <1>8
  <2>2. Items' = Items
    BY <1>2, <2>1, BottomSame
  <2>3. v # NoValue
    BY <1>7, <1>9
  <2>4. (\E i \in DOMAIN Items : Items[i] = v) <=> \E i \in 1 .. M : W[i][0] = v
    <3> DEFINE B == Bottom(M, W)
    <3>1. (\E i \in DOMAIN B : B[i] = v) <=> \E i \in 1 .. M : W[i][0] = v
      BY <1>1, <2>3, BottomMembers
    <3> QED
      BY <1>2, <3>1
  <2>5. Hit(M, Z, 0, v) <=> \E i \in 1 .. M : W[i][0] = v
    <3>1. \A i \in 1 .. M : 2 * i > 0 /\ 0 + 1 = 1
      BY <1>2
    <3> QED
      BY <1>1, <3>1 DEF Hit
  <2>6. Outcome(t)' = IF \E i \in DOMAIN Items : Items[i] = v THEN "yes" ELSE "no"
    BY <1>2, <1>4, <1>7, <2>4, <2>5
  <2> QED
    BY <1>1, <1>7, <2>2, <2>6 DEF v
<1> QED
  BY <1>5, <1>6, <1>7 DEF Traversals
-------------------------------------------------------------------------------
(* The steps that leave the links as they are. *)

\* A step of t that changes nothing in the abstract list.
Unseen == Items' = Items /\ \A u \in Threads : Outcome(u)' = Outcome(u)

\* The values but those of nodes that t has for itself.
Untouched == \A n \in allocated : data'[n] = data[n]

Quiet(t) == \/ CallTraversal(t) \/ LockHead(t) \/ Unlock(t) \/ Return(t) \/ Look(t) \/ LockNext(t)
            \/ Release(t) \/ Visit(t) \/ Try(t) \/ Test(t) \/ UnlockNext(t)
            \/ CallPushFront(t) \/ Free(t)

\* The list is seen before and after.
LEMMA QuietHere ==
  ASSUME SimInv, SimInv', NEW t \in Threads, Quiet(t)
  PROVE  \E L, s : Here(L, s, t) /\ (Untouched => Vals(L, s)' = Vals(L, s))
<1>1. PICK L, s : Reaches(L, s)
  BY DEF SimInv, ListInv, WholeOK
<1>2. Reaches(L, s)'
  BY <1>1, QuietWhole DEF SimInv, ListInv, Quiet
<1>3. View(L, s)
  BY <1>1, Views
<1>4. View(L, s)'
  BY <1>2, ViewsNext
<1>5. \A u \in Threads \ {t} : Stands(u)
  BY OthersStandStill DEF SimInv, ListInv, Quiet, Step
<1>6. Untouched => Vals(L, s)' = Vals(L, s)
  BY <1>3, ValsKept DEF Untouched
<1> QED
  BY <1>3, <1>4, <1>5, <1>6 DEF Here

\* Nobody else is where t has a lock.
LEMMA OthersAway ==
  ASSUME NEW L, NEW s, View(L, s), NEW t, NEW k \in 1 .. L, owner[s[k]] = t
  PROVE  \A u \in Threads \ {t} : Traversing(u) => Reached(u) # 2 * k - 3 /\ Reached(u) # 2 * k - 2
<1> SUFFICES ASSUME NEW u \in Threads \ {t}, Traversing(u)
             PROVE  Reached(u) # 2 * k - 3 /\ Reached(u) # 2 * k - 2
  OBVIOUS
<1>1. PICK j \in 1 .. L : Spot(s, u, j)
  BY DEF View
<1>2. j # k /\ L \in Nat
  BY <1>1 DEF Spot, View, Placed
<1> QED
  BY <1>1, <1>2 DEF Spot

\* The steps at which t does not come farther.
LEMMA StandSteps ==
  ASSUME SimInv, SimInv', NEW t \in Threads,
         LockNext(t) \/ Test(t) \/ UnlockNext(t) \/ Free(t) \/ (Look(t) /\ next[current[t]] # Null)
  PROVE  Unseen
<1>1. Quiet(t) /\ data' = data
  BY DEF Quiet, LockNext, Test, UnlockNext, Free, Look, heap
<1>2. PICK L, s : Here(L, s, t) /\ Vals(L, s)' = Vals(L, s)
  BY <1>1, QuietHere DEF Untouched
<1>3. Stands(t)
  <2>1. /\ call'[t] = call[t] /\ arg'[t] = arg[t] /\ answer'[t] = answer[t] /\ current'[t] = current[t]
        /\ pc[t] \in {"lock_next", "test", "unlock_next", "free", "look"}
        /\ pc'[t] \in {"lock_next", "test", "unlink", "free", "look", "release"}
    BY DEF LockNext, Test, UnlockNext, Free, Look, heap, request, place, Goto, SimInv, ListInv, IInv, Types
  <2> QED
    BY <2>1 DEF Stands, Traversing
<1>4. \A u \in Threads : Stands(u)
  BY <1>2, <1>3 DEF Here
<1> QED
  BY <1>2, <1>4, StandingSim DEF Here, Unseen

\* The steps at which t is not in the list.
LEMMA OutsideSteps ==
  ASSUME SimInv, SimInv', NEW t \in Threads,
         CallPushFront(t) \/ CallTraversal(t) \/ (LockHead(t) /\ call[t] = "push_front") \/ Unlock(t)
  PROVE  Unseen
<1>1. Quiet(t) /\ Untouched
  <2>1. CASE CallPushFront(t)
    <3>1. PICK v \in Values, n \in Nodes \ allocated : data' = [data EXCEPT ![n] = v]
      BY <2>1 DEF CallPushFront
    <3>2. data \in [Cells -> Values \cup {NoValue}] /\ allocated \subseteq Cells
      BY DEF SimInv, ListInv, IInv, Types, ValuesOK
    <3>3. Untouched
      BY <3>1, <3>2 DEF Untouched
    <3> QED
      BY <2>1, <3>3 DEF Quiet
  <2>2. CASE CallTraversal(t) \/ LockHead(t) \/ Unlock(t)
    BY <2>2 DEF Quiet, CallTraversal, LockHead, Unlock, heap, Untouched
  <2> QED
    BY <2>1, <2>2
<1>2. PICK L, s : Here(L, s, t) /\ Vals(L, s)' = Vals(L, s)
  BY <1>1, QuietHere
<1>3. answer'[t] = answer[t] /\ ~Traversing(t) /\ ~Traversing(t)'
  <2>1. CASE CallPushFront(t) \/ CallTraversal(t)
    <3>1. pc[t] = "idle" /\ pc'[t] = "lock_head" /\ answer' = answer
      BY <2>1 DEF CallPushFront, CallTraversal, Call, Goto, SimInv, ListInv, IInv, Types
    <3> QED
      BY <3>1 DEF Traversing, SimInv, CallsOK
  <2>2. CASE LockHead(t) /\ call[t] = "push_front"
    BY <2>2 DEF LockHead, request, Traversing
  <2>3. CASE Unlock(t)
    BY <2>3 DEF Unlock, Traversing, SimInv, CallsOK
  <2> QED
    BY <2>1, <2>2, <2>3
<1>4. /\ Items' = Items
      /\ \A u \in Threads \ {t} : Outcome(u)' = Outcome(u)
      /\ Outcome(t) = answer[t] /\ Outcome(t)' = answer'[t]
  BY <1>2, <1>3, OutsideSim DEF Here
<1> QED
  BY <1>3, <1>4 DEF Unseen

\* A search returns.
LEMMA ReturnStep ==
  ASSUME SimInv, SimInv', NEW t \in Threads, Return(t)
  PROVE  /\ Items' = Items /\ Outcome(t)' = "none"
         /\ \A u \in Threads \ {t} : Outcome(u)' = Outcome(u)
<1>1. Quiet(t) /\ Untouched
  BY DEF Quiet, Return, heap, Untouched
<1>2. PICK L, s : Here(L, s, t) /\ Vals(L, s)' = Vals(L, s)
  BY <1>1, QuietHere
<1>3. answer'[t] = "none" /\ ~Traversing(t) /\ ~Traversing(t)'
  BY DEF Return, request, Traversing, SimInv, ListInv, ValuesOK, CallsOK
<1> QED
  BY <1>2, <1>3, OutsideSim DEF Here

\* A traversal locks the head.
LEMMA LockHeadStarts ==
  ASSUME SimInv, SimInv', NEW t \in Threads, LockHead(t), call[t] # "push_front"
  PROVE  /\ call[t] \in Traversals /\ (call[t] \in {"find_first_if", "remove_if"} => arg[t] \in Values)
         /\ \E L, s : Starts(L, s, t)
<1>1. Quiet(t) /\ Untouched
  BY DEF Quiet, LockHead, heap, Untouched
<1>2. PICK L, s : Here(L, s, t) /\ Vals(L, s)' = Vals(L, s)
  BY <1>1, QuietHere
<1>3. /\ pc[t] = "lock_head" /\ pc'[t] = "look" /\ owner[HeadNode] = NoThread
      /\ call'[t] = call[t] /\ arg'[t] = arg[t] /\ answer'[t] = answer[t]
      /\ current'[t] = HeadNode
  BY DEF LockHead, request, place, Goto, SimInv, ListInv, IInv, Types, LocksOK
<1>4. call[t] \in Traversals /\ (call[t] \in {"find_first_if", "remove_if"} => arg[t] \in Values)
  BY <1>3 DEF SimInv, CallsOK
<1>5. At(t, 0)'
  <2>1. Traversing(t)'
    BY <1>3, <1>4 DEF Traversing, Traversals
  <2>2. PICK k \in 1 .. L : Spot(s, t, k)'
    BY <1>2, <2>1 DEF Here, View
  <2>3. s[k] = s[1] /\ 1 \in 1 .. L
    BY <1>2, <1>3, <2>2 DEF Spot, Here, View, Placed
  <2>4. k = 1
    BY <1>2, <2>3 DEF Here, View, Placed
  <2> QED
    BY <1>3, <2>1, <2>2, <2>4 DEF Spot, At
<1>6. ~Traversing(t)
  BY <1>3 DEF Traversing
<1> QED
  BY <1>2, <1>3, <1>4, <1>5, <1>6 DEF Starts

\* Where t is, with the values and what is done to them on the way.
Walks(L, s, t) == /\ Here(L, s, t)
                  /\ Apart /\ Apart' /\ EffectsOK /\ EffectsOK' /\ OthersStay(t)
                  /\ L \in Nat /\ L # 0 /\ t \in Threads

\* That is so of every list that stays where it is.
LEMMA WalksIs ==
  ASSUME NEW L, NEW s, NEW t, Here(L, s, t)
  PROVE  Walks(L, s, t)
<1>1. OthersStay(t)
  BY StayHere DEF Here
<1> QED
  BY <1>1 DEF Walks, Here, View, Placed

\* A search comes to the end.
LEMMA LookEnd ==
  ASSUME SimInv, SimInv', NEW t \in Threads, Look(t), next[current[t]] = Null
  PROVE  Unseen
<1>1. Quiet(t) /\ Untouched
  BY DEF Quiet, Look, heap, Untouched
<1>2. PICK L, s : Here(L, s, t) /\ Vals(L, s)' = Vals(L, s)
  BY <1>1, QuietHere
<1>3. Walks(L, s, t)
  BY <1>2, WalksIs
<1>4. /\ pc[t] = "look" /\ pc'[t] = "unlock" /\ call[t] \in Traversals
      /\ call'[t] = call[t] /\ arg'[t] = arg[t]
      /\ answer'[t] = IF call[t] = "find_first_if" THEN "no" ELSE answer[t]
  BY DEF Look, request, Goto, Traversals, SimInv, ListInv, IInv, Types, ValuesOK, CallsOK
<1>5. Traversing(t) /\ ~Traversing(t)'
  BY <1>4 DEF Traversing, Traversals
<1>6. PICK k \in 1 .. L : Spot(s, t, k)
  BY <1>2, <1>5 DEF Here, View
<1>7. k = L
  <2>1. next[s[k]] = Null
    BY <1>4, <1>6 DEF Spot
  <2>2. k \in 1 .. L - 1 => next[s[k]] = s[k + 1] /\ k + 1 \in 1 .. L /\ s[k + 1] \in Cells
    BY <1>2, <1>3 DEF Here, View, Placed, Walks
  <2>3. Null \notin Cells
    BY LockedListAssumption DEF Cells
  <2> QED
    BY <1>3, <2>1, <2>2, <2>3 DEF Walks
<1>8. Reached(t) = 2 * (L - 1)
  BY <1>3, <1>4, <1>6, <1>7 DEF Spot, Walks
<1>9. \A q \in 0 .. 2 * (L - 1) - 1 : Eff'[q] = Eff[q]
  <2> TAKE q \in 0 .. 2 * (L - 1) - 1
  <2>1. q \in Nat /\ q # 2 * (L - 1)
    BY <1>3 DEF Walks
  <2>2. ~At(t, q) /\ ~At(t, q)'
    BY <1>5, <1>8, <2>1 DEF At
  <2> QED
    BY <1>3, <2>1, <2>2, EffFrame DEF Walks
<1>10. Items' = Items /\ \A u \in Threads \ {t} : Outcome(u)' = Outcome(u)
  BY <1>2, <1>3, <1>9, SameList DEF Here, Walks
<1>11. Outcome(t)' = Outcome(t)
  <2>1. ~Hit(L - 1, Laters, Reached(t), arg[t])
    BY <1>3, <1>8 DEF Hit, Walks
  <2>2. /\ Outcome(t) = IF call[t] = "find_first_if" THEN "no" ELSE answer[t]
        /\ Outcome(t)' = answer'[t]
    BY <1>2, <1>5, <2>1 DEF Here, View
  <2> QED
    BY <1>4, <2>2
<1> QED
  BY <1>10, <1>11 DEF Unseen

\* A search at q comes to q + 1 in the same list, or has found its value there.
Searches(L, s, t, q) ==
    /\ Walks(L, s, t) /\ Vals(L, s)' = Vals(L, s) /\ q \in Nat
    /\ call[t] = "find_first_if" /\ call'[t] = "find_first_if" /\ arg'[t] = arg[t]
    /\ At(t, q) /\ Idle(Seen, Eff, q + 1)
    /\ \/ /\ At(t, q + 1)' /\ answer'[t] = answer[t]
          /\ ~\E i \in 1 .. L - 1 : 2 * i = q + 1 /\ Vals(L, s)[i] = arg[t]
       \/ /\ ~Traversing(t)' /\ answer'[t] = "yes"
          /\ \E i \in 1 .. L - 1 : 2 * i = q + 1 /\ Vals(L, s)[i] = arg[t]

\* It is not seen: the search finds what it was going to find.
LEMMA SearchSim ==
  ASSUME NEW L, NEW s, NEW t, NEW q, Searches(L, s, t, q)
  PROVE  Unseen
<1>1. \A p \in Nat : Eff'[p] = Eff[p]
  BY SearchEff DEF Searches, Walks
<1>2. \A p \in 0 .. 2 * (L - 1) - 1 : Eff'[p] = Eff[p]
  BY <1>1
<1>3. /\ Items' = Items /\ \A u \in Threads \ {t} : Outcome(u)' = Outcome(u)
      /\ \A i \in 1 .. L - 1 : \A p \in 0 .. 2 * i : Laters'[i][p] = Laters[i][p]
  BY <1>2, SameList DEF Searches, Walks, Here
<1> DEFINE M == L - 1
           x == Vals(L, s)
           W == Laters
           Z == Laters'
           v == arg[t]
<1>4. /\ Flow(Seen, M, x, Eff, W) /\ M \in Nat /\ q \in Nat /\ t \in Threads
      /\ Idle(Seen, Eff, q + 1)
      /\ Outcome(t) = IF Hit(M, W, q, v) THEN "yes" ELSE "no"
      /\ Outcome(t)' = IF Traversing(t)'
                       THEN IF Hit(M, Z, Reached(t)', v) THEN "yes" ELSE "no"
                       ELSE answer'[t]
  BY ViewShows, ViewShowsNext DEF Searches, Walks, Here, Shows, At
<1>5. \A i \in 1 .. M : \A p \in 0 .. 2 * i : Z[i][p] = W[i][p]
  BY <1>3
<1>6. \/ At(t, q + 1)' /\ ~\E i \in 1 .. M : 2 * i = q + 1 /\ x[i] = v
      \/ ~Traversing(t)' /\ answer'[t] = "yes" /\ \E i \in 1 .. M : 2 * i = q + 1 /\ x[i] = v
  BY DEF Searches
<1> HIDE DEF M, x, W, Z, v
<1>7. Hit(M, W, q, v) <=> Hit(M, W, q + 1, v) \/ \E i \in 1 .. M : 2 * i = q + 1 /\ x[i] = v
  BY <1>4, HitStep
<1>8. Hit(M, Z, q + 1, v) <=> Hit(M, W, q + 1, v)
  <2>1. q + 1 \in Nat
    BY <1>4
  <2>2. \A i \in 1 .. M : 2 * i > q + 1 => Z[i][(q + 1) + 1] = W[i][(q + 1) + 1]
    <3>1. \A i \in 1 .. M : 2 * i > q + 1 => (q + 1) + 1 \in 0 .. 2 * i
      BY <1>4
    <3> QED
      BY <1>5, <3>1
  <2> QED
    BY <2>2, HitSame
<1>9. Outcome(t)' = Outcome(t)
  <2>1. CASE At(t, q + 1)' /\ ~\E i \in 1 .. M : 2 * i = q + 1 /\ x[i] = v
    <3>1. Traversing(t)' /\ Reached(t)' = q + 1
      BY <2>1 DEF At
    <3> QED
      BY <1>4, <1>7, <1>8, <2>1, <3>1
  <2>2. CASE ~Traversing(t)' /\ answer'[t] = "yes" /\ \E i \in 1 .. M : 2 * i = q + 1 /\ x[i] = v
    BY <1>4, <1>7, <2>2
  <2> QED
    BY <1>6, <2>1, <2>2
<1> QED
  BY <1>3, <1>9 DEF Unseen

\* t is at the k-th node and has the locks of that and the next one.
Releases(L, s, t, k) ==
    /\ Walks(L, s, t) /\ Vals(L, s)' = Vals(L, s)
    /\ k \in 1 .. L - 1 /\ s[k + 1] = ahead[t]
    /\ At(t, 2 * k - 2) /\ At(t, IF call[t] = "remove_if" THEN 2 * k ELSE 2 * k - 1)'
    /\ \A u \in Threads \ {t} : Traversing(u) => Reached(u) \notin 2 * k - 2 .. 2 * k
    /\ call[t] \in Traversals
    /\ call'[t] = call[t] /\ arg'[t] = arg[t] /\ answer'[t] = answer[t]
    /\ call[t] = "remove_if" => data[ahead[t]] # arg[t]

\* So it is when t lets go of a node.
LEMMA ReleaseWalks ==
  ASSUME SimInv, SimInv', NEW t \in Threads, Release(t)
  PROVE  \E L, s : \E k \in 1 .. L - 1 : Releases(L, s, t, k)
<1>1. Quiet(t) /\ Untouched
  BY DEF Quiet, Release, heap, Untouched
<1>2. PICK L, s : Here(L, s, t) /\ Vals(L, s)' = Vals(L, s)
  BY <1>1, QuietHere
<1>3. Walks(L, s, t)
  BY <1>2, WalksIs
<1>4. /\ pc[t] = "release" /\ call[t] \in Traversals
      /\ call'[t] = call[t] /\ arg'[t] = arg[t] /\ answer'[t] = answer[t]
      /\ call[t] = "remove_if" => data[ahead[t]] # arg[t]
  BY DEF Release, request, Traversals, SimInv, CallsOK
<1>5. /\ owner[ahead[t]] = t /\ ahead[t] = next[current[t]] /\ ahead[t] # Null
      /\ ahead'[t] = ahead[t]
      /\ IF call[t] = "remove_if" THEN pc'[t] = "look" /\ current'[t] = ahead[t]
         ELSE pc'[t] = "visit"
  BY DEF Release, StepAhead, Goto, SimInv, ListInv, IInv, Types, LocksOK, HoldsAhead
<1>6. Traversing(t) /\ Traversing(t)'
  BY <1>4, <1>5 DEF Traversing, Traversals
<1>7. PICK k \in 1 .. L : Spot(s, t, k)
  BY <1>2, <1>6 DEF Here, View
<1>8. current[t] = s[k] /\ Reached(t) = 2 * k - 2
  BY <1>4, <1>7 DEF Spot
<1>9. k \in 1 .. L - 1 /\ s[k + 1] = ahead[t] /\ k + 1 \in 1 .. L
  BY <1>2, <1>5, <1>8 DEF Here, View, Placed
<1>10. PICK j \in 1 .. L : Spot(s, t, j)'
  BY <1>2, <1>6 DEF Here, View
<1>11. j = k + 1
  <2>1. s[j] = ahead[t]
    BY <1>5, <1>10 DEF Spot
  <2> QED
    BY <1>2, <1>9, <2>1 DEF Here, View, Placed
<1>12. Reached(t)' = IF call[t] = "remove_if" THEN 2 * k ELSE 2 * k - 1
  <2>1. Reached(t)' = IF call[t] = "remove_if" THEN 2 * j - 2 ELSE 2 * j - 3
    BY <1>5, <1>10 DEF Spot
  <2> QED
    BY <1>9, <1>11, <2>1
<1>13. At(t, 2 * k - 2) /\ At(t, IF call[t] = "remove_if" THEN 2 * k ELSE 2 * k - 1)'
  BY <1>4, <1>6, <1>8, <1>12 DEF At
<1>14. \A u \in Threads \ {t} : Traversing(u) => Reached(u) \notin 2 * k - 2 .. 2 * k
  <2>1. owner[s[k]] = t /\ owner[s[k + 1]] = t /\ View(L, s)
    BY <1>2, <1>5, <1>7, <1>9 DEF Spot, Here
  <2>2. \A u \in Threads \ {t} : Traversing(u) => Reached(u) # 2 * k - 2
    BY <2>1, OthersAway
  <2>3. \A u \in Threads \ {t} : Traversing(u) => Reached(u) # 2 * (k + 1) - 3 /\ Reached(u) # 2 * (k + 1) - 2
    BY <1>9, <2>1, OthersAway
  <2>4. \A q \in 2 * k - 2 .. 2 * k : q = 2 * k - 2 \/ q = 2 * (k + 1) - 3 \/ q = 2 * (k + 1) - 2
    BY <1>9
  <2> QED
    BY <2>2, <2>3, <2>4
<1> QED
  BY <1>2, <1>3, <1>4, <1>9, <1>13, <1>14 DEF Releases

\* To let go of a node is not seen.
LEMMA ReleaseStep ==
  ASSUME SimInv, SimInv', NEW t \in Threads, Release(t)
  PROVE  Unseen
<1>1. PICK L, s : \E k \in 1 .. L - 1 : Releases(L, s, t, k)
  BY ReleaseWalks
<1>2. PICK k \in 1 .. L - 1 : Releases(L, s, t, k)
  BY <1>1
<1>3. /\ Walks(L, s, t) /\ Vals(L, s)' = Vals(L, s) /\ L \in Nat
      /\ At(t, 2 * k - 2) /\ At(t, IF call[t] = "remove_if" THEN 2 * k ELSE 2 * k - 1)'
      /\ \A u \in Threads \ {t} : Traversing(u) => Reached(u) \notin 2 * k - 2 .. 2 * k
      /\ call'[t] = call[t] /\ arg'[t] = arg[t] /\ answer'[t] = answer[t]
      /\ call[t] \in Traversals
  BY <1>2 DEF Releases, Walks
<1>4. CASE call[t] = "find_first_if"
  <2> DEFINE q == 2 * k - 2
  <2>1. q \in Nat /\ q + 1 = 2 * k - 1
    BY <1>3
  <2>2. At(t, q + 1)'
    BY <1>3, <1>4, <2>1
  <2>3. Idle(Seen, Eff, q + 1)
    BY <1>3, <1>4, <2>1, <2>2, SearchEff DEF Walks
  <2>4. ~\E i \in 1 .. L - 1 : 2 * i = q + 1 /\ Vals(L, s)[i] = arg[t]
    BY <1>3
  <2>5. Searches(L, s, t, q)
    BY <1>3, <1>4, <2>1, <2>2, <2>3, <2>4 DEF Searches
  <2> QED
    BY <2>5, SearchSim
<1>5. CASE call[t] = "for_each"
  <2> DEFINE a == 2 * k - 2
             b == 2 * k - 1
  <2>1. a \in Nat /\ b \in Nat /\ a < b /\ \A q \in a .. b : q \in 2 * k - 2 .. 2 * k
    BY <1>3
  <2>2. At(t, a) /\ At(t, b)'
    BY <1>3, <1>5
  <2>3. \A i \in 1 .. L - 1 : ~(a < 2 * i /\ 2 * i <= b)
    BY <1>3
  <2>4. Moves(L, s, t, a, b)
    BY <1>3, <1>5, <2>1, <2>2, <2>3 DEF Moves
  <2> QED
    BY <1>3, <2>4, MoveSim DEF Walks, Unseen
<1>6. CASE call[t] = "remove_if"
  <2> DEFINE a == 2 * k - 2
             b == 2 * k
  <2>1. a \in Nat /\ b \in Nat /\ a < b
    BY <1>3
  <2>2. At(t, a) /\ At(t, b)'
    BY <1>3, <1>6
  <2>3. ASSUME NEW i \in 1 .. L - 1, a < 2 * i /\ 2 * i <= b
        PROVE  Vals(L, s)[i] = Effect(t, Vals(L, s)[i])
    <3>1. i = k
      BY <1>3, <2>3
    <3>2. Vals(L, s)[i] # arg[t]
      BY <1>2, <1>6, <3>1 DEF Releases, Vals
    <3> QED
      BY <1>6, <3>2 DEF Effect
  <2>4. \A i \in 1 .. L - 1 : Vals(L, s)'[i] = IF a < 2 * i /\ 2 * i <= b THEN Effect(t, Vals(L, s)[i])
                                               ELSE Vals(L, s)[i]
    BY <1>3, <2>3
  <2>5. Moves(L, s, t, a, b)
    BY <1>3, <1>6, <2>1, <2>2, <2>4 DEF Moves
  <2> QED
    BY <1>3, <2>5, MoveSim DEF Walks, Unseen
<1> QED
  BY <1>3, <1>4, <1>5, <1>6 DEF Traversals

\* t is on its way to the k-th node and has the lock of that one.
Comings(L, s, t, k) ==
    /\ Walks(L, s, t)
    /\ k \in 2 .. L /\ s[k] = ahead[t]
    /\ At(t, 2 * k - 3)
    /\ \A u \in Threads \ {t} : Traversing(u) => Reached(u) \notin 2 * k - 3 .. 2 * k - 2
    /\ call'[t] = call[t] /\ arg'[t] = arg[t]
    /\ Traversing(t)' => At(t, 2 * k - 2)'

\* So it is when t looks at the data.
LEMMA VisitComes ==
  ASSUME SimInv, SimInv', NEW t \in Threads, Visit(t) \/ Try(t)
  PROVE  \E L, s : \E k \in 2 .. L : Comings(L, s, t, k) /\ (Untouched => Vals(L, s)' = Vals(L, s))
<1>1. Quiet(t)
  BY DEF Quiet
<1>2. PICK L, s : Here(L, s, t) /\ (Untouched => Vals(L, s)' = Vals(L, s))
  BY <1>1, QuietHere
<1>3. Walks(L, s, t)
  BY <1>2, WalksIs
<1>4. /\ pc[t] = "visit" /\ call[t] \in Traversals
      /\ call'[t] = call[t] /\ arg'[t] = arg[t] /\ current'[t] = ahead[t]
      /\ pc'[t] \in {"look", "unlock"}
  BY DEF Visit, Try, StepAhead, Goto, request, Traversals, SimInv, ListInv, IInv, Types
<1>5. Traversing(t)
  BY <1>4 DEF Traversing, Traversals
<1>6. PICK k \in 1 .. L : Spot(s, t, k)
  BY <1>2, <1>5 DEF Here, View
<1>7. ahead[t] = s[k] /\ Reached(t) = 2 * k - 3 /\ k \in 2 .. L /\ owner[s[k]] = t
  BY <1>3, <1>4, <1>6 DEF Spot, Walks
<1>8. ASSUME Traversing(t)' PROVE At(t, 2 * k - 2)'
  <2>1. PICK j \in 1 .. L : Spot(s, t, j)'
    BY <1>2, <1>8 DEF Here, View
  <2>2. s[j] = s[k] /\ Reached(t)' = 2 * j - 2
    BY <1>4, <1>7, <2>1 DEF Spot
  <2>3. j = k
    BY <1>2, <2>2 DEF Here, View, Placed
  <2> QED
    BY <1>8, <2>2, <2>3 DEF At
<1>9. \A u \in Threads \ {t} : Traversing(u) => Reached(u) \notin 2 * k - 3 .. 2 * k - 2
  <2>1. \A u \in Threads \ {t} : Traversing(u) => Reached(u) # 2 * k - 3 /\ Reached(u) # 2 * k - 2
    BY <1>2, <1>7, OthersAway DEF Here
  <2> QED
    BY <1>3, <2>1 DEF Walks
<1> QED
  BY <1>2, <1>3, <1>4, <1>5, <1>7, <1>8, <1>9 DEF Comings, At

\* for_each does its work ...
LEMMA VisitStep ==
  ASSUME SimInv, SimInv', NEW t \in Threads, Visit(t)
  PROVE  Unseen
<1>1. PICK L, s : \E k \in 2 .. L : Comings(L, s, t, k)
  BY VisitComes
<1>2. PICK k \in 2 .. L : Comings(L, s, t, k)
  BY <1>1
<1>3. /\ pc'[t] = "look" /\ call[t] = "for_each" /\ answer'[t] = answer[t] /\ call'[t] = call[t]
      /\ data' = [data EXCEPT ![ahead[t]] = Image[data[ahead[t]]]]
      /\ data \in [Cells -> Values \cup {NoValue}]
  BY DEF Visit, Goto, request, SimInv, ListInv, IInv, Types, ValuesOK
<1>4. Traversing(t)'
  BY <1>3 DEF Traversing
<1>5. /\ L \in Nat /\ s[k] = ahead[t] /\ Here(L, s, t)
      /\ \A i, j \in 1 .. L : s[i] = s[j] => i = j
      /\ s \in [1 .. L -> Cells]
      /\ Vals(L, s) \in [1 .. L - 1 -> Values]
  BY <1>2 DEF Comings, Walks, Here, View, Placed
<1> DEFINE a == 2 * k - 3
           b == 2 * k - 2
<1>6. a \in Nat /\ b \in Nat /\ a < b
  BY <1>5
<1>7. ASSUME NEW i \in 1 .. L - 1
      PROVE  Vals(L, s)'[i] = IF a < 2 * i /\ 2 * i <= b THEN Effect(t, Vals(L, s)[i]) ELSE Vals(L, s)[i]
  <2>1. i + 1 \in 1 .. L /\ k \in 1 .. L /\ ((a < 2 * i /\ 2 * i <= b) <=> i + 1 = k)
    BY <1>5
  <2>2. Vals(L, s)[i] = data[s[i + 1]] /\ Vals(L, s)'[i] = data'[s[i + 1]] /\ Vals(L, s)[i] \in Values
    BY <1>5 DEF Vals
  <2>3. CASE i + 1 = k
    <3>1. data'[s[i + 1]] = Image[data[s[i + 1]]]
      BY <1>3, <1>5, <2>1, <2>3
    <3> QED
      BY <1>3, <2>1, <2>2, <2>3, <3>1, LockedListAssumption DEF Effect
  <2>4. CASE i + 1 # k
    <3>1. s[i + 1] # ahead[t] /\ s[i + 1] \in Cells
      BY <1>5, <2>1, <2>4
    <3> QED
      BY <1>3, <2>1, <2>2, <2>4, <3>1
  <2> QED
    BY <2>3, <2>4
<1>8. Moves(L, s, t, a, b)
  BY <1>2, <1>3, <1>4, <1>6, <1>7 DEF Moves, Comings
<1> QED
  BY <1>5, <1>8, MoveSim DEF Unseen

\* ... and find_first_if looks.
LEMMA TryStep ==
  ASSUME SimInv, SimInv', NEW t \in Threads, Try(t)
  PROVE  Unseen
<1>1. Untouched
  BY DEF Try, heap, Untouched
<1>2. PICK L, s : \E k \in 2 .. L : Comings(L, s, t, k) /\ Vals(L, s)' = Vals(L, s)
  BY <1>1, VisitComes
<1>3. PICK k \in 2 .. L : Comings(L, s, t, k) /\ Vals(L, s)' = Vals(L, s)
  BY <1>2
<1>4. /\ call[t] = "find_first_if" /\ call'[t] = call[t] /\ arg'[t] = arg[t]
      /\ \/ data[ahead[t]] = arg[t] /\ answer'[t] = "yes" /\ pc'[t] = "unlock"
         \/ data[ahead[t]] # arg[t] /\ answer'[t] = answer[t] /\ pc'[t] = "look"
  BY DEF Try, Goto, request, SimInv, ListInv, IInv, Types, ValuesOK
<1>5. /\ L \in Nat /\ s[k] = ahead[t] /\ Walks(L, s, t) /\ At(t, 2 * k - 3)
      /\ \A u \in Threads \ {t} : Traversing(u) => Reached(u) \notin 2 * k - 3 .. 2 * k - 2
      /\ Traversing(t)' => At(t, 2 * k - 2)'
  BY <1>3 DEF Comings, Walks
<1> DEFINE q == 2 * k - 3
<1>6. q \in Nat /\ q + 1 = 2 * k - 2 /\ q + 1 \in 2 * k - 3 .. 2 * k - 2 /\ q + 1 # q
  BY <1>5
<1>7. Idle(Seen, Eff, q + 1)
  <2>1. \A u \in Threads : Traversing(u) => Reached(u) # q + 1
    BY <1>5, <1>6 DEF At
  <2> QED
    BY <1>5, <1>6, <2>1 DEF Walks, EffectsOK
<1>8. (\E i \in 1 .. L - 1 : 2 * i = q + 1 /\ Vals(L, s)[i] = arg[t]) <=> data[ahead[t]] = arg[t]
  <2>1. k - 1 \in 1 .. L - 1 /\ 2 * (k - 1) = q + 1 /\ \A i \in 1 .. L - 1 : 2 * i = q + 1 => i = k - 1
    BY <1>5
  <2>2. Vals(L, s)[k - 1] = data[ahead[t]]
    BY <1>5, <2>1 DEF Vals
  <2> QED
    BY <2>1, <2>2
<1>9. CASE data[ahead[t]] = arg[t] /\ answer'[t] = "yes" /\ pc'[t] = "unlock"
  <2>1. ~Traversing(t)'
    BY <1>9 DEF Traversing
  <2>2. Searches(L, s, t, q)
    BY <1>3, <1>4, <1>5, <1>6, <1>7, <1>8, <1>9, <2>1 DEF Searches
  <2> QED
    BY <2>2, SearchSim
<1>10. CASE data[ahead[t]] # arg[t] /\ answer'[t] = answer[t] /\ pc'[t] = "look"
  <2>1. Traversing(t)'
    BY <1>4, <1>10 DEF Traversing
  <2>2. Searches(L, s, t, q)
    BY <1>3, <1>4, <1>5, <1>6, <1>7, <1>8, <1>10, <2>1 DEF Searches
  <2> QED
    BY <2>2, SearchSim
<1> QED
  BY <1>4, <1>9, <1>10
-------------------------------------------------------------------------------
(* A node more or less. *)

\* E is what the threads of T do, each u of them G[u] and at R[u].
Doing(E, T, R, G) ==
    /\ \A q \in Nat : E[q] \in [Seen -> Seen]
    /\ \A u \in T : R[u] \in Nat /\ \A v \in Seen : E[R[u]][v] = G[u][v]
    /\ \A q \in Nat : (\A u \in T : R[u] # q) => Idle(Seen, E, q)

\* The threads behind place p are two higher in Q.
Higher(T, R, Q, p) == /\ p \in Nat
                      /\ \A u \in T : R[u] \in Nat /\ Q[u] = IF R[u] <= 2 * p THEN R[u] ELSE R[u] + 2

\* They do the same where they come from and where they come to.
LEMMA HigherRaises ==
  ASSUME NEW E, NEW F, NEW T, NEW R, NEW Q, NEW G, NEW p,
         Doing(E, T, R, G) /\ Doing(F, T, Q, G) /\ Higher(T, R, Q, p)
  PROVE  Raised(Seen, E, F, p)
<1>1. /\ Doing(E, T, R, G) /\ Doing(F, T, Q, G) /\ p \in Nat
      /\ \A u \in T : R[u] \in Nat /\ Q[u] = IF R[u] <= 2 * p THEN R[u] ELSE R[u] + 2
  BY DEF Higher
<1>2. ASSUME NEW q \in Nat, NEW r \in Nat, \A u \in T : Q[u] = r <=> R[u] = q
      PROVE  F[r] = E[q]
  <2>1. E[q] \in [Seen -> Seen] /\ F[r] \in [Seen -> Seen]
    BY <1>1 DEF Doing
  <2>2. CASE \E u \in T : R[u] = q
    <3>1. PICK u \in T : R[u] = q
      BY <2>2
    <3>2. Q[u] = r
      BY <1>2, <3>1
    <3>3. \A v \in Seen : E[q][v] = G[u][v] /\ F[r][v] = G[u][v]
      BY <1>1, <3>1, <3>2 DEF Doing
    <3>4. \A v \in Seen : F[r][v] = E[q][v]
      BY <3>3
    <3> QED
      BY <2>1, <3>4
  <2>3. CASE ~\E u \in T : R[u] = q
    <3>1. Idle(Seen, E, q) /\ Idle(Seen, F, r)
      BY <1>1, <1>2, <2>3 DEF Doing
    <3>2. \A v \in Seen : F[r][v] = E[q][v]
      BY <3>1 DEF Idle
    <3> QED
      BY <2>1, <3>2
  <2> QED
    BY <2>2, <2>3
<1>3. \A q \in 0 .. 2 * p : F[q] = E[q]
  <2> TAKE q \in 0 .. 2 * p
  <2>1. q \in Nat /\ q <= 2 * p
    BY <1>1
  <2>2. \A u \in T : Q[u] = q <=> R[u] = q
    BY <1>1, <2>1
  <2> QED
    BY <1>2, <2>1, <2>2
<1>4. \A q \in Nat : q > 2 * p => F[q + 2] = E[q]
  <2> SUFFICES ASSUME NEW q \in Nat, q > 2 * p PROVE F[q + 2] = E[q]
    OBVIOUS
  <2>1. \A u \in T : Q[u] = q + 2 <=> R[u] = q
    BY <1>1
  <2> QED
    BY <1>2, <2>1
<1>5. Idle(Seen, F, 2 * p + 1) /\ Idle(Seen, F, 2 * p + 2)
  <2>1. \A u \in T : Q[u] # 2 * p + 1 /\ Q[u] # 2 * p + 2
    BY <1>1
  <2> QED
    BY <1>1, <2>1 DEF Doing
<1> QED
  BY <1>1, <1>3, <1>4, <1>5 DEF Raised

\* The values come down alike, with a place more at p + 1.
Spread(M, W, Z, p) ==
    /\ M \in Nat /\ p \in 0 .. M
    /\ \A i \in 1 .. p : \A q \in 0 .. 2 * i : Z[i][q] = W[i][q]
    /\ \A i \in p + 1 .. M : /\ \A q \in 0 .. 2 * p + 1 : Z[i + 1][q] = W[i][q]
                             /\ \A q \in 2 * p + 1 .. 2 * i : Z[i + 1][q + 2] = W[i][q]

\* Then a search finds in the longer list what it finds in the shorter one, if that is not
\* at the new place.
LEMMA HitSpread ==
  ASSUME NEW M, NEW W, NEW Z, NEW p, Spread(M, W, Z, p), NEW q \in Nat, NEW v
  PROVE  /\ q <= 2 * p /\ Z[p + 1][q + 1] # v => (Hit(M + 1, Z, q, v) <=> Hit(M, W, q, v))
         /\ q > 2 * p => (Hit(M + 1, Z, q + 2, v) <=> Hit(M, W, q, v))
<1>1. /\ M \in Nat /\ p \in 0 .. M
      /\ \A i \in 1 .. p : \A r \in 0 .. 2 * i : Z[i][r] = W[i][r]
      /\ \A i \in p + 1 .. M : /\ \A r \in 0 .. 2 * p + 1 : Z[i + 1][r] = W[i][r]
                               /\ \A r \in 2 * p + 1 .. 2 * i : Z[i + 1][r + 2] = W[i][r]
  BY DEF Spread
<1>2. ASSUME q <= 2 * p, Z[p + 1][q + 1] # v PROVE Hit(M + 1, Z, q, v) <=> Hit(M, W, q, v)
  <2>1. \A i \in 1 .. p : 2 * i > q => Z[i][q + 1] = W[i][q + 1]
    <3>1. \A i \in 1 .. p : 2 * i > q => q + 1 \in 0 .. 2 * i
      BY <1>1
    <3> QED
      BY <1>1, <3>1
  <2>2. \A i \in p + 1 .. M : Z[i + 1][q + 1] = W[i][q + 1] /\ 2 * i > q /\ 2 * (i + 1) > q
    <3>1. q + 1 \in 0 .. 2 * p + 1
      BY <1>1, <1>2
    <3>2. \A i \in p + 1 .. M : 2 * i > q /\ 2 * (i + 1) > q
      BY <1>1, <1>2
    <3> QED
      BY <1>1, <3>1, <3>2
  <2>3. ASSUME NEW i \in 1 .. M, 2 * i > q, W[i][q + 1] = v PROVE Hit(M + 1, Z, q, v)
    <3>1. CASE i \in 1 .. p
      <4>1. i \in 1 .. M + 1 /\ Z[i][q + 1] = v
        BY <1>1, <2>1, <2>3, <3>1
      <4> QED
        BY <2>3, <4>1 DEF Hit
    <3>2. CASE i \in p + 1 .. M
      <4>1. i + 1 \in 1 .. M + 1 /\ Z[i + 1][q + 1] = v /\ 2 * (i + 1) > q
        BY <1>1, <2>2, <2>3, <3>2
      <4> QED
        BY <4>1 DEF Hit
    <3>3. i \in 1 .. p \/ i \in p + 1 .. M
      BY <1>1
    <3> QED
      BY <3>1, <3>2, <3>3
  <2>4. ASSUME NEW j \in 1 .. M + 1, 2 * j > q, Z[j][q + 1] = v PROVE Hit(M, W, q, v)
    <3>1. CASE j \in 1 .. p
      <4>1. j \in 1 .. M /\ W[j][q + 1] = v
        BY <1>1, <2>1, <2>4, <3>1
      <4> QED
        BY <2>4, <4>1 DEF Hit
    <3>2. CASE j # p + 1 /\ j \notin 1 .. p
      <4>1. j - 1 \in p + 1 .. M /\ (j - 1) + 1 = j /\ j - 1 \in 1 .. M
        BY <1>1, <3>2
      <4>2. W[j - 1][q + 1] = v /\ 2 * (j - 1) > q
        BY <2>2, <2>4, <4>1
      <4> QED
        BY <4>1, <4>2 DEF Hit
    <3> QED
      BY <1>2, <2>4, <3>1, <3>2
  <2> QED
    BY <2>3, <2>4 DEF Hit
<1>3. ASSUME q > 2 * p PROVE Hit(M + 1, Z, q + 2, v) <=> Hit(M, W, q, v)
  <2>1. \A i \in p + 1 .. M : 2 * i > q => Z[i + 1][(q + 2) + 1] = W[i][q + 1]
    <3> SUFFICES ASSUME NEW i \in p + 1 .. M, 2 * i > q PROVE Z[i + 1][(q + 2) + 1] = W[i][q + 1]
      OBVIOUS
    <3>1. q + 1 \in 2 * p + 1 .. 2 * i /\ (q + 1) + 2 = (q + 2) + 1
      BY <1>1, <1>3
    <3>2. Z[i + 1][(q + 1) + 2] = W[i][q + 1]
      BY <1>1, <3>1
    <3> QED
      BY <3>1, <3>2
  <2>2. ASSUME NEW i \in 1 .. M, 2 * i > q, W[i][q + 1] = v PROVE Hit(M + 1, Z, q + 2, v)
    <3>1. i \in p + 1 .. M /\ i + 1 \in 1 .. M + 1 /\ 2 * (i + 1) > q + 2
      BY <1>1, <1>3, <2>2
    <3>2. Z[i + 1][(q + 2) + 1] = v
      BY <2>1, <2>2, <3>1
    <3> QED
      BY <3>1, <3>2 DEF Hit
  <2>3. ASSUME NEW j \in 1 .. M + 1, 2 * j > q + 2, Z[j][(q + 2) + 1] = v PROVE Hit(M, W, q, v)
    <3>1. j - 1 \in p + 1 .. M /\ (j - 1) + 1 = j /\ j - 1 \in 1 .. M /\ 2 * (j - 1) > q
      BY <1>1, <1>3, <2>3
    <3>2. W[j - 1][q + 1] = v
      BY <2>1, <2>3, <3>1
    <3> QED
      BY <3>1, <3>2 DEF Hit
  <2> QED
    BY <2>2, <2>3 DEF Hit
<1> QED
  BY <1>2, <1>3

\* So it is at the bottom.
LEMMA SpreadWider ==
  ASSUME NEW M, NEW W, NEW Z, NEW p, Spread(M, W, Z, p), Down(M, W), Down(M + 1, Z)
  PROVE  Wider(M, W, Z, p, Z[p + 1][0])
<1>1. M \in Nat /\ p \in 0 .. M /\ 0 \in 0 .. 2 * p + 1 /\ \A i \in 1 .. p : 0 \in 0 .. 2 * i
  BY DEF Spread
<1> QED
  BY <1>1 DEF Spread, Wider

\* One list and one with z at place p + 1 besides, and the same done in both.
Widens(M, x, E, W, y, F, Z, p, z) ==
    /\ Flow(Seen, M, x, E, W) /\ Flow(Seen, M + 1, y, F, Z)
    /\ PutIn(M, x, p, z, y) /\ Raised(Seen, E, F, p)

\* Then the values come down alike.
LEMMA WidensSpread ==
  ASSUME NEW M, NEW x, NEW E, NEW W, NEW y, NEW F, NEW Z, NEW p, NEW z, Widens(M, x, E, W, y, F, Z, p, z)
  PROVE  /\ Spread(M, W, Z, p) /\ Z[p + 1][2 * p + 1] = z
         /\ Wider(M, W, Z, p, Z[p + 1][0])
<1>1. /\ Flow(Seen, M, x, E, W) /\ Flow(Seen, M + 1, y, F, Z)
      /\ PutIn(M, x, p, z, y) /\ Raised(Seen, E, F, p)
  BY DEF Widens
<1>2. M \in Nat /\ p \in 0 .. M
  BY <1>1 DEF Flow, PutIn
<1>3. Spread(M, W, Z, p) /\ Z[p + 1][2 * p + 1] = z
  BY <1>1, <1>2, FlowPutIn DEF Spread
<1>4. Down(M, W) /\ Down(M + 1, Z)
  BY <1>1, FlowDown
<1> QED
  BY <1>3, <1>4, SpreadWider

\* The traversals, where they are and what they do.
Travs == {u \in Threads : Traversing(u)}
Froms == [u \in Threads |-> Reached(u)]
Does == [u \in Threads |-> [v \in Seen |-> Effect(u, v)]]

\* They do it before a step ...
LEMMA DoingIs == EffectsOK => Doing(Eff, Travs, Froms, Does)
  BY DEF EffectsOK, Doing, Travs, Froms, Does

\* ... and after it.
LEMMA DoingNext == (EffectsOK => Doing(Eff, Travs, Froms, Does))'
  BY DoingIs, PTL

\* Every thread goes on with what it does.
AllGoOn == \A u \in Threads : /\ Traversing(u)' <=> Traversing(u)
                              /\ call'[u] = call[u] /\ arg'[u] = arg[u] /\ answer'[u] = answer[u]

\* Then the same is done.
LEMMA GoOnDoing ==
  ASSUME AllGoOn
  PROVE  Travs' = Travs /\ Does' = Does
<1>1. Travs' = Travs
  BY DEF AllGoOn, Travs
<1>2. \A u \in Threads : \A v \in Seen : Effect(u, v)' = Effect(u, v)
  BY DEF AllGoOn, Effect
<1> QED
  BY <1>1, <1>2 DEF Does

\* push_front puts its value in front, where no one is.
Links(L, s, r, z, t) ==
    /\ View(L, s) /\ View(L + 1, r)'
    /\ AllGoOn
    /\ \A u \in Threads : Traversing(u) => Reached(u) # 0 /\ Reached(u)' = Reached(u) + 2
    /\ z \in Values
    /\ PutIn(L - 1, Vals(L, s), 0, z, Vals(L + 1, r)')

\* That is what Link does.
LEMMA LinkLinks ==
  ASSUME SimInv, SimInv', NEW t \in Threads, Link(t)
  PROVE  \E L, s, r, z : Links(L, s, r, z, t)
<1> USE LockedListAssumption
<1>1. PICK L, s : Reaches(L, s)
  BY DEF SimInv, ListInv, WholeOK
<1>2. PICK n : n = current[t]
  OBVIOUS
<1> DEFINE r == Second(L, s, n)
<1>3. Reaches(L + 1, r)'
  BY <1>1, <1>2, LinkWhole DEF SimInv, ListInv
<1>4. View(L, s)
  BY <1>1, Views
<1>5. L \in Nat /\ L # 0 /\ s[1] = HeadNode
  BY <1>4 DEF View, Placed
<1>6. r[1] = s[1] /\ r[2] = n /\ \A k \in 2 .. L : r[k + 1] = s[k]
  <2>1. 1 \in 1 .. L + 1 /\ 2 \in 1 .. L + 1 /\ 1 \in 1 .. (L - 1) + 1 /\ 2 - 1 = 1
    BY <1>5
  <2>2. r[1] = s[1] /\ r[2] = n
    BY <2>1, <1>5 DEF Second, Before
  <2>3. ASSUME NEW k \in 2 .. L PROVE r[k + 1] = s[k]
    <3>1. k + 1 \in 1 .. L + 1 /\ (k + 1) - 1 = k /\ k \in 1 .. (L - 1) + 1 /\ k - 1 \in 1 .. L - 1
          /\ (k - 1) + 1 = k /\ k + 1 # 1 /\ k # 1
      BY <1>5
    <3> QED
      BY <3>1 DEF Second, Before, Behind
  <2> QED
    BY <2>2, <2>3
<1> HIDE DEF r
<1>7. View(L + 1, r)'
  BY <1>3, ViewsNext
<1>8. /\ pc[t] = "link" /\ pc'[t] = "unlock" /\ UNCHANGED <<data, call, arg, answer>>
      /\ owner[HeadNode] = t /\ n \in allocated \cap Nodes
  BY <1>2 DEF Link, Goto, request, SimInv, ListInv, IInv, Types, LocksOK, PrivateOK, Private
<1>9. ~Traversing(t) /\ ~Traversing(t)'
  BY <1>8 DEF Traversing, SimInv, CallsOK, ListInv, IInv, LocksOK
<1>10. \A u \in Threads \ {t} : Stands(u)
  BY OthersStandStill DEF SimInv, ListInv, Step
<1>11. AllGoOn
  BY <1>8, <1>9, <1>10 DEF AllGoOn, Stands
<1>12. ASSUME NEW u \in Threads, Traversing(u) PROVE Reached(u) # 0 /\ Reached(u)' = Reached(u) + 2
  <2>1. u \in Threads \ {t} /\ Traversing(u)'
    BY <1>9, <1>11, <1>12 DEF AllGoOn
  <2>2. PICK k \in 1 .. L : Spot(s, u, k)
    BY <1>4, <1>12 DEF View
  <2>3. PICK j \in 1 .. L + 1 : Spot(r, u, j)'
    BY <1>7, <2>1 DEF View
  <2>4. k # 1
    BY <1>5, <1>8, <2>1, <2>2 DEF Spot
  <2>5. k \in 2 .. L /\ k + 1 \in 1 .. L + 1
    BY <1>5, <2>4
  <2>6. r[j] = r[k + 1]
    <3>1. Stands(u)
      BY <1>10, <2>1
    <3> QED
      BY <1>6, <2>2, <2>3, <2>5, <3>1 DEF Spot, Stands
  <2>7. j = k + 1
    BY <1>7, <2>5, <2>6 DEF View, Placed
  <2> QED
    BY <1>5, <1>10, <2>1, <2>2, <2>3, <2>5, <2>7 DEF Spot, Stands
<1> DEFINE x == Vals(L, s)
           y == Vals(L + 1, r)'
           z == data[n]
<1>13. z \in Values
  BY <1>8 DEF SimInv, ListInv, ValuesOK
<1>14. PutIn(L - 1, x, 0, z, y)
  <2>1. y = [i \in 1 .. L |-> data'[r[i + 1]]]
    BY <1>5 DEF Vals
  <2>2. DOMAIN y = 1 .. (L - 1) + 1
    BY <1>5, <2>1
  <2>3. y[0 + 1] = z
    <3>1. 0 + 1 \in 1 .. L /\ (0 + 1) + 1 = 2
      BY <1>5
    <3>2. y[0 + 1] = data'[r[2]]
      BY <2>1, <3>1
    <3> QED
      BY <1>6, <1>8, <3>2
  <2>4. ASSUME NEW i \in 0 + 1 .. L - 1 PROVE y[i + 1] = x[i]
    <3>1. i + 1 \in 1 .. L /\ i \in 1 .. L - 1 /\ i + 1 \in 2 .. L
      BY <1>5
    <3>2. y[i + 1] = data'[r[(i + 1) + 1]] /\ r[(i + 1) + 1] = s[i + 1] /\ x[i] = data[s[i + 1]]
      BY <1>6, <2>1, <3>1 DEF Vals
    <3> QED
      BY <1>8, <3>2
  <2> HIDE DEF x, y, z
  <2>5. 0 \in 0 .. L - 1
    BY <1>5
  <2> QED
    BY <2>2, <2>3, <2>4, <2>5 DEF PutIn
<1> QED
  BY <1>4, <1>7, <1>11, <1>12, <1>13, <1>14 DEF Links

\* Its value is then the first one, and nothing else is seen.
LEMMA LinkStep ==
  ASSUME SimInv, SimInv', NEW t \in Threads, Link(t)
  PROVE  /\ \E z \in Values : Items' = <<z>> \o Items
         /\ \A u \in Threads : Outcome(u)' = Outcome(u)
<1> USE LockedListAssumption
<1>1. PICK L, s, r, z : Links(L, s, r, z, t)
  BY LinkLinks
<1>2. /\ View(L, s) /\ View(L + 1, r)' /\ AllGoOn /\ z \in Values
      /\ \A u \in Threads : Traversing(u) => Reached(u) # 0 /\ Reached(u)' = Reached(u) + 2
  BY <1>1 DEF Links
<1>3. L \in Nat /\ L # 0 /\ (L + 1) - 1 = (L - 1) + 1 /\ L - 1 \in Nat
  BY <1>2 DEF View, Placed
<1>4. EffectsOK /\ EffectsOK'
  BY <1>2 DEF View
<1>5. \A u \in Threads : Traversing(u) => Reached(u) \in Nat
  BY <1>4 DEF EffectsOK
<1>6. Raised(Seen, Eff, Eff', 0)
  <2>1. Doing(Eff, Travs, Froms, Does) /\ Doing(Eff', Travs, Froms', Does)
    BY <1>2, <1>4, DoingIs, DoingNext, GoOnDoing
  <2>2. Higher(Travs, Froms, Froms', 0)
    BY <1>2, <1>5 DEF Higher, Travs, Froms
  <2> QED
    BY <2>1, <2>2, HigherRaises
<1> DEFINE M == L - 1
           x == Vals(L, s)
           y == Vals(L + 1, r)'
           W == Laters
           Z == Laters'
           E == Eff
           F == Eff'
<1>7. /\ Flow(Seen, M, x, E, W) /\ Flow(Seen, M + 1, y, F, Z) /\ M \in Nat
      /\ Items = Bottom(M, W) /\ Items' = Bottom(M + 1, Z)
      /\ PutIn(M, x, 0, z, y) /\ Raised(Seen, E, F, 0)
  BY <1>1, <1>2, <1>3, <1>6 DEF Links, View
<1>8. \A u \in Threads :
        /\ Outcome(u) = IF call[u] = "find_first_if" /\ Traversing(u)
                        THEN IF Hit(M, W, Reached(u), arg[u]) THEN "yes" ELSE "no"
                        ELSE answer[u]
        /\ Outcome(u)' = IF call'[u] = "find_first_if" /\ Traversing(u)'
                         THEN IF Hit(M + 1, Z, Reached(u)', arg'[u]) THEN "yes" ELSE "no"
                         ELSE answer'[u]
  BY <1>2, <1>3 DEF View
<1>9. Idle(Seen, F, 0)
  <2>1. \A u \in Threads : Traversing(u)' => Reached(u)' # 0
    BY <1>2, <1>5 DEF AllGoOn
  <2> QED
    BY <1>4, <2>1 DEF EffectsOK
<1> HIDE DEF M, x, y, W, Z, E, F
<1>10. Spread(M, W, Z, 0) /\ Z[1][1] = z /\ Wider(M, W, Z, 0, Z[1][0])
  <2>1. Widens(M, x, E, W, y, F, Z, 0, z)
    BY <1>7 DEF Widens
  <2>2. Spread(M, W, Z, 0) /\ Z[0 + 1][2 * 0 + 1] = z /\ Wider(M, W, Z, 0, Z[0 + 1][0])
    BY <2>1, WidensSpread
  <2> QED
    BY <2>2
<1>11. Z[1][0] = z
  <2>1. 1 \in 1 .. M + 1
    BY <1>7
  <2>2. Comes(Seen, Z[1], 2 * 1, y[1], F)
    BY <1>7, <2>1 DEF Flow
  <2>3. Z[1][0] = F[0][Z[1][0 + 1]]
    BY <2>2 DEF Comes
  <2>4. z \in Seen
    BY <1>2 DEF Seen
  <2> QED
    BY <1>9, <1>10, <2>3, <2>4 DEF Idle
<1>12. Items' = <<z>> \o Items
  BY <1>2, <1>7, <1>10, <1>11, BottomPutFirst
<1>13. ASSUME NEW u \in Threads PROVE Outcome(u)' = Outcome(u)
  <2>1. CASE call[u] = "find_first_if" /\ Traversing(u)
    <3>1. PICK q \in Nat : q = Reached(u)
      BY <1>5, <2>1
    <3>2. q > 0 /\ Reached(u)' = q + 2 /\ Traversing(u)' /\ call'[u] = call[u] /\ arg'[u] = arg[u]
      BY <1>2, <2>1, <3>1 DEF AllGoOn
    <3>3. Hit(M + 1, Z, q + 2, arg[u]) <=> Hit(M, W, q, arg[u])
      BY <1>10, <3>1, <3>2, HitSpread
    <3> QED
      BY <1>8, <2>1, <3>1, <3>2, <3>3
  <2>2. CASE ~(call[u] = "find_first_if" /\ Traversing(u))
    BY <1>2, <1>8, <2>2 DEF AllGoOn
  <2> QED
    BY <2>1, <2>2
<1> QED
  BY <1>2, <1>12, <1>13

\* remove_if takes the node behind the p-th one out, where no one else is.
Unlinks(L, s, r, p, z, t) ==
    /\ View(L, s) /\ View(L - 1, r)'
    /\ AllGoOn /\ p \in 1 .. L - 1
    /\ call[t] = "remove_if" /\ arg[t] = z /\ z \in Values
    /\ At(t, 2 * p - 2)
    /\ \A u \in Threads : Traversing(u) =>
          /\ Reached(u)' \in Nat
          /\ Reached(u) = IF Reached(u)' <= 2 * (p - 1) THEN Reached(u)' ELSE Reached(u)' + 2
          /\ u # t => Reached(u)' # 2 * (p - 1)
          /\ call[u] = "find_first_if" => arg[u] \in Values
    /\ PutIn(L - 2, Vals(L - 1, r)', p - 1, z, Vals(L, s))

\* That is what Unlink does.
LEMMA UnlinkUnlinks ==
  ASSUME SimInv, SimInv', NEW t \in Threads, Unlink(t)
  PROVE  \E L, s, r, p, z : Unlinks(L, s, r, p, z, t)
<1> USE LockedListAssumption
<1>1. PICK L, s : Reaches(L, s)
  BY DEF SimInv, ListInv, WholeOK
<1>2. PICK p \in 1 .. L - 1 : /\ s[p] = current[t] /\ s[p + 1] = ahead[t]
                              /\ Reaches(L - 1, Passing(L, s, p))'
  BY <1>1, UnlinkWhole DEF SimInv, ListInv
<1> DEFINE r == Passing(L, s, p)
<1>3. View(L, s) /\ View(L - 1, r)'
  BY <1>1, <1>2, Views, ViewsNext
<1>4. L \in Nat /\ L # 0 /\ L - 1 \in Nat /\ L - 1 # 0 /\ p \in Nat /\ p # 0
  BY <1>2, <1>3 DEF View, Placed
<1>5. (\A k \in 1 .. p : r[k] = s[k]) /\ \A k \in p + 1 .. L - 1 : r[k] = s[k + 1]
  <2>1. \A k \in 1 .. p : k \in 1 .. L - 1 /\ k <= p
    BY <1>4
  <2>2. \A k \in p + 1 .. L - 1 : k \in 1 .. L - 1 /\ ~(k <= p)
    BY <1>4
  <2> QED
    BY <2>1, <2>2 DEF Passing
<1> HIDE DEF r
<1>6. /\ pc[t] = "unlink" /\ pc'[t] = "unlock_next" /\ UNCHANGED <<data, call, arg, answer, current>>
      /\ owner[current[t]] = t /\ owner[ahead[t]] = t
  BY DEF Unlink, Goto, heap, request, place, SimInv, ListInv, IInv, Types, LocksOK, HoldsAhead, HoldsCurrent
<1>7. call[t] = "remove_if" /\ arg[t] \in Values /\ data[ahead[t]] = arg[t]
  BY <1>6 DEF SimInv, CallsOK
<1>8. Traversing(t) /\ Traversing(t)'
  BY <1>6, <1>7 DEF Traversing
<1>9. \A u \in Threads \ {t} : Stands(u)
  BY OthersStandStill DEF SimInv, ListInv, Step
<1>10. AllGoOn
  BY <1>6, <1>8, <1>9 DEF AllGoOn, Stands
<1>11. Reached(t) = 2 * p - 2 /\ Reached(t)' = 2 * p - 2
  <2>1. PICK k \in 1 .. L : Spot(s, t, k)
    BY <1>3, <1>8 DEF View
  <2>2. k = p /\ Reached(t) = 2 * k - 2
    <3>1. s[k] = s[p] /\ p \in 1 .. L /\ Reached(t) = 2 * k - 2
      BY <1>2, <1>4, <1>6, <2>1 DEF Spot
    <3> QED
      BY <1>3, <3>1 DEF View, Placed
  <2>3. PICK j \in 1 .. L - 1 : Spot(r, t, j)'
    BY <1>3, <1>8 DEF View
  <2>4. j = p /\ Reached(t)' = 2 * j - 2
    <3>1. r[j] = r[p] /\ Reached(t)' = 2 * j - 2
      BY <1>2, <1>4, <1>5, <1>6, <2>3 DEF Spot
    <3> QED
      BY <1>2, <1>3, <3>1 DEF View, Placed
  <2> QED
    BY <2>2, <2>4
<1>12. ASSUME NEW u \in Threads \ {t}, Traversing(u)
       PROVE  /\ Reached(u)' \in Nat /\ Reached(u)' # 2 * (p - 1)
              /\ Reached(u) = IF Reached(u)' <= 2 * (p - 1) THEN Reached(u)' ELSE Reached(u)' + 2
  <2>1. Stands(u) /\ Traversing(u)'
    BY <1>9, <1>10, <1>12 DEF AllGoOn
  <2>2. PICK k \in 1 .. L : Spot(s, u, k)
    BY <1>3, <1>12 DEF View
  <2>3. PICK j \in 1 .. L - 1 : Spot(r, u, j)'
    BY <1>3, <2>1 DEF View
  <2>4. k # p /\ k # p + 1
    BY <1>2, <1>6, <2>2 DEF Spot
  <2>5. r[j] = s[k]
    BY <2>1, <2>2, <2>3 DEF Spot, Stands
  <2>6. CASE k < p
    <3>1. k \in 1 .. L - 1 /\ r[j] = r[k]
      BY <1>4, <1>5, <2>5, <2>6
    <3>2. j = k
      BY <1>3, <3>1 DEF View, Placed
    <3>3. Reached(u)' = Reached(u) /\ Reached(u) \in Nat /\ Reached(u) < 2 * (p - 1)
      BY <1>4, <2>1, <2>2, <2>3, <2>6, <3>2 DEF Spot, Stands
    <3> QED
      BY <1>4, <3>3
  <2>7. CASE k > p + 1
    <3>1. k - 1 \in p + 1 .. L - 1 /\ (k - 1) + 1 = k /\ k - 1 \in 1 .. L - 1
      BY <1>4, <2>7
    <3>2. r[j] = r[k - 1]
      BY <1>5, <2>5, <3>1
    <3>3. j = k - 1
      BY <1>3, <3>1, <3>2 DEF View, Placed
    <3>4. Reached(u) = Reached(u)' + 2 /\ Reached(u)' \in Nat /\ Reached(u)' > 2 * (p - 1)
      BY <1>4, <2>1, <2>2, <2>3, <2>7, <3>3 DEF Spot, Stands
    <3> QED
      BY <1>4, <3>4
  <2> QED
    BY <1>4, <2>4, <2>6, <2>7
<1>13. \A u \in Threads : call[u] = "find_first_if" => arg[u] \in Values
  BY DEF SimInv, CallsOK
<1> DEFINE x == Vals(L, s)
           y == Vals(L - 1, r)'
           z == arg[t]
           M == L - 2
<1>14. PutIn(M, y, p - 1, z, x)
  <2>1. y = [i \in 1 .. M |-> data'[r[i + 1]]]
    <3>1. (L - 1) - 1 = M
      BY <1>4
    <3> QED
      BY <3>1 DEF Vals
  <2>2. DOMAIN x = 1 .. M + 1 /\ p - 1 \in 0 .. M
    BY <1>4 DEF Vals
  <2>3. x[(p - 1) + 1] = z
    <3>1. (p - 1) + 1 = p /\ x[p] = data[s[p + 1]]
      BY <1>4 DEF Vals
    <3> QED
      BY <1>2, <1>7, <3>1
  <2>4. ASSUME NEW i \in 1 .. p - 1 PROVE x[i] = y[i]
    <3>1. i \in 1 .. L - 1 /\ i \in 1 .. M /\ i + 1 \in 1 .. p
      BY <1>4
    <3>2. x[i] = data[s[i + 1]] /\ y[i] = data'[r[i + 1]]
      BY <2>1, <3>1 DEF Vals
    <3> QED
      BY <1>5, <1>6, <3>1, <3>2
  <2>5. ASSUME NEW i \in (p - 1) + 1 .. M PROVE x[i + 1] = y[i]
    <3>1. i + 1 \in 1 .. L - 1 /\ i \in 1 .. M /\ i + 1 \in p + 1 .. L - 1
      BY <1>4
    <3>2. x[i + 1] = data[s[(i + 1) + 1]] /\ y[i] = data'[r[i + 1]]
      BY <2>1, <3>1 DEF Vals
    <3> QED
      BY <1>5, <1>6, <3>1, <3>2
  <2> HIDE DEF x, y, z, M
  <2> QED
    BY <2>2, <2>3, <2>4, <2>5 DEF PutIn
<1>15. \A u \in Threads : Traversing(u) =>
          /\ Reached(u)' \in Nat
          /\ Reached(u) = IF Reached(u)' <= 2 * (p - 1) THEN Reached(u)' ELSE Reached(u)' + 2
          /\ u # t => Reached(u)' # 2 * (p - 1)
  <2>1. Reached(t)' \in Nat /\ Reached(t) = Reached(t)' /\ Reached(t)' <= 2 * (p - 1)
    BY <1>4, <1>11
  <2> QED
    BY <1>12, <2>1
<1>16. At(t, 2 * p - 2)
  BY <1>8, <1>11 DEF At
<1> QED
  BY <1>3, <1>7, <1>10, <1>13, <1>14, <1>15, <1>16 DEF Unlinks

\* It is not seen: the value was removed when t started.
LEMMA UnlinkStep ==
  ASSUME SimInv, SimInv', NEW t \in Threads, Unlink(t)
  PROVE  Unseen
<1> USE LockedListAssumption
<1>1. PICK L, s, r, p, z : Unlinks(L, s, r, p, z, t)
  BY UnlinkUnlinks
<1>2. /\ View(L, s) /\ View(L - 1, r)' /\ AllGoOn /\ p \in 1 .. L - 1 /\ z \in Values
      /\ call[t] = "remove_if" /\ arg[t] = z /\ At(t, 2 * p - 2)
      /\ \A u \in Threads : Traversing(u) =>
          /\ Reached(u)' \in Nat
          /\ Reached(u) = IF Reached(u)' <= 2 * (p - 1) THEN Reached(u)' ELSE Reached(u)' + 2
          /\ u # t => Reached(u)' # 2 * (p - 1)
          /\ call[u] = "find_first_if" => arg[u] \in Values
  BY <1>1 DEF Unlinks
<1>3. L \in Nat /\ L - 1 \in Nat /\ L - 2 \in Nat /\ p - 1 \in Nat /\ L - 1 = (L - 2) + 1
      /\ (L - 1) - 1 = L - 2 /\ 2 * p - 2 = 2 * (p - 1) /\ (p - 1) + 1 = p
  BY <1>2 DEF View, Placed
<1>4. EffectsOK /\ EffectsOK'
  BY <1>2 DEF View
<1> DEFINE k == p - 1
           M == L - 2
           x == Vals(L, s)
           y == Vals(L - 1, r)'
           W == Laters'
           Z == Laters
           E == Eff'
           F == Eff
<1>5. Raised(Seen, E, F, k)
  <2>1. Doing(Eff, Travs, Froms, Does) /\ Doing(Eff', Travs, Froms', Does)
    BY <1>2, <1>4, DoingIs, DoingNext, GoOnDoing
  <2>2. Higher(Travs, Froms', Froms, k)
    BY <1>2, <1>3 DEF Higher, Travs, Froms
  <2> QED
    BY <2>1, <2>2, HigherRaises
<1>6. /\ Flow(Seen, M, y, E, W) /\ Flow(Seen, M + 1, x, F, Z) /\ M \in Nat /\ k \in Nat
      /\ Items = Bottom(M + 1, Z) /\ Items' = Bottom(M, W)
      /\ PutIn(M, y, k, z, x)
  BY <1>1, <1>2, <1>3 DEF Unlinks, View
<1>7. \A u \in Threads :
        /\ Outcome(u) = IF call[u] = "find_first_if" /\ Traversing(u)
                        THEN IF Hit(M + 1, Z, Reached(u), arg[u]) THEN "yes" ELSE "no"
                        ELSE answer[u]
        /\ Outcome(u)' = IF call'[u] = "find_first_if" /\ Traversing(u)'
                         THEN IF Hit(M, W, Reached(u)', arg'[u]) THEN "yes" ELSE "no"
                         ELSE answer'[u]
  BY <1>2, <1>3 DEF View
<1>8. At(t, 2 * k)
  BY <1>2, <1>3
<1>9. /\ F[2 * k][z] = NoValue
      /\ \A q \in Nat : F[q][NoValue] = NoValue
  <2>1. NoValue \in Seen /\ z \in Seen
    BY <1>2 DEF Seen
  <2>2. F[2 * k][z] = NoValue
    BY <1>2, <1>4, <1>8, <2>1 DEF At, EffectsOK, Effect
  <2>3. ASSUME NEW q \in Nat PROVE F[q][NoValue] = NoValue
    <3>1. CASE \E u \in Threads : Traversing(u) /\ Reached(u) = q
      BY <1>4, <2>1, <3>1 DEF EffectsOK, Effect
    <3>2. CASE ~\E u \in Threads : Traversing(u) /\ Reached(u) = q
      BY <1>4, <2>1, <3>2 DEF EffectsOK, Idle
    <3> QED
      BY <3>1, <3>2
  <2> QED
    BY <2>2, <2>3
<1>10. k + 1 = p
  BY <1>3
<1> HIDE DEF M, x, y, W, Z, E, F, k
<1>11. Spread(M, W, Z, k) /\ Z[k + 1][2 * k + 1] = z /\ Wider(M, W, Z, k, Z[k + 1][0])
  <2>1. Widens(M, y, E, W, x, F, Z, k, z)
    BY <1>5, <1>6 DEF Widens
  <2> QED
    BY <2>1, WidensSpread
<1>12. \A q \in 0 .. 2 * k : Z[k + 1][q] = NoValue
  <2> DEFINE V == Z[k + 1]
             N == 2 * (k + 1)
  <2>1. k + 1 \in 1 .. M + 1
    BY <1>6 DEF PutIn
  <2>2. Comes(Seen, V, N, x[k + 1], F)
    BY <1>6, <2>1 DEF Flow
  <2>3. V[2 * k] = NoValue
    <3>1. 2 * k \in 0 .. N - 1
      BY <1>6
    <3>2. V[2 * k] = F[2 * k][V[2 * k + 1]]
      BY <2>2, <3>1 DEF Comes
    <3> QED
      BY <1>9, <1>11, <3>2
  <2>4. Calm(Seen, V, N, x[k + 1], F, 0, 2 * k)
    <3>1. N \in Nat /\ 0 \in Nat /\ 2 * k \in Nat /\ 0 <= 2 * k /\ 2 * k <= N
          /\ \A q \in 0 .. 2 * k - 1 : q \in Nat
      BY <1>6
    <3>2. \A q \in 0 .. 2 * k - 1 : F[q][V[2 * k]] = V[2 * k]
      BY <1>9, <2>3, <3>1
    <3> HIDE DEF V, N
    <3> QED
      BY <2>2, <3>1, <3>2 DEF Calm
  <2> HIDE DEF V, N
  <2>5. \A q \in 0 .. 2 * k : V[q] = NoValue
    BY <2>3, <2>4, ComesQuiet
  <2> QED
    BY <2>5 DEF V
<1>13. Items' = Items
  <2>1. Z[k + 1][0] = NoValue
    BY <1>6, <1>12
  <2>2. Wider(M, W, Z, k, NoValue)
    BY <1>11, <2>1
  <2> QED
    BY <1>6, <2>2, BottomPutIn
<1>14. ASSUME NEW u \in Threads PROVE Outcome(u)' = Outcome(u)
  <2>1. CASE call[u] = "find_first_if" /\ Traversing(u)
    <3>1. /\ u # t /\ Traversing(u)' /\ call'[u] = call[u] /\ arg'[u] = arg[u] /\ arg[u] # NoValue
          /\ Reached(u)' \in Nat /\ Reached(u)' # 2 * k
          /\ Reached(u) = IF Reached(u)' <= 2 * k THEN Reached(u)' ELSE Reached(u)' + 2
      BY <1>2, <2>1 DEF AllGoOn, k
    <3>2. PICK q \in Nat : q = Reached(u)'
      BY <3>1
    <3>3. CASE q <= 2 * k
      <4>1. q + 1 \in 0 .. 2 * k /\ Reached(u) = q
        BY <1>6, <3>1, <3>2, <3>3
      <4>2. Z[k + 1][q + 1] # arg[u]
        BY <1>12, <3>1, <4>1
      <4>3. Hit(M + 1, Z, q, arg[u]) <=> Hit(M, W, q, arg[u])
        BY <1>11, <3>3, <4>2, HitSpread
      <4> QED
        BY <1>7, <2>1, <3>1, <3>2, <4>1, <4>3
    <3>4. CASE q > 2 * k
      <4>1. Reached(u) = q + 2
        BY <1>6, <3>1, <3>2, <3>4
      <4>2. Hit(M + 1, Z, q + 2, arg[u]) <=> Hit(M, W, q, arg[u])
        BY <1>11, <3>4, HitSpread
      <4> QED
        BY <1>7, <2>1, <3>1, <3>2, <4>1, <4>2
    <3> QED
      BY <1>6, <3>3, <3>4
  <2>2. CASE ~(call[u] = "find_first_if" /\ Traversing(u))
    BY <1>2, <1>7, <2>2 DEF AllGoOn
  <2> QED
    BY <2>1, <2>2
<1> QED
  BY <1>13, <1>14 DEF Unseen

-------------------------------------------------------------------------------
(* The refinement. *)

\* A traversal starts: that is the instant at which it takes effect.
LEMMA StartStep ==
  ASSUME SimInv, SimInv', NEW t \in Threads, LockHead(t), call[t] # "push_front"
  PROVE  /\ call[t] \in Traversals /\ (call[t] \in {"find_first_if", "remove_if"} => arg[t] \in Values)
         /\ call[t] = "for_each" => Items' = Mapped(Image, Items)
         /\ call[t] = "remove_if" => Items' = Without(Items, arg[t])
         /\ call[t] = "find_first_if" =>
               /\ Items' = Items
               /\ Outcome(t)' = IF \E i \in DOMAIN Items : Items[i] = arg[t] THEN "yes" ELSE "no"
         /\ call[t] # "find_first_if" => Outcome(t)' = Outcome(t)
         /\ \A u \in Threads \ {t} : Outcome(u)' = Outcome(u)
<1>1. /\ call[t] \in Traversals /\ (call[t] \in {"find_first_if", "remove_if"} => arg[t] \in Values)
      /\ \E L, s : Starts(L, s, t)
  BY LockHeadStarts
<1>2. PICK L, s : Starts(L, s, t)
  BY <1>1
<1> QED
  BY <1>1, <1>2, StartSim

\* Nothing happens, and nothing is seen.
LEMMA StutterStep ==
  ASSUME SimInv, SimInv', UNCHANGED vars
  PROVE  Unseen
<1>1. PICK L, s : Reaches(L, s)
  BY DEF SimInv, ListInv, WholeOK
<1>2. DOMAIN next' = DOMAIN next
      /\ \A n \in Cells : (Public(n) => next'[n] = next[n]) /\ (Public(n)' <=> Public(n))
  BY DEF Public, Private, vars, heap, request, place
<1>3. Reaches(L, s)'
  BY <1>1, <1>2, SameWhole DEF SimInv, ListInv, IInv
<1>4. View(L, s) /\ View(L, s)'
  BY <1>1, <1>3, Views, ViewsNext
<1>5. Vals(L, s)' = Vals(L, s)
  BY DEF Vals, vars, heap
<1>6. \A u \in Threads : Stands(u)
  BY DEF Stands, Traversing, vars, request, place
<1> QED
  BY <1>4, <1>5, <1>6, StandingSim DEF Unseen

\* The invariant is one.
LEMMA InitSim == Init => SimInv
  BY InitList, InitCalls DEF SimInv

\* Every step keeps it.
LEMMA NextSim ==
  ASSUME SimInv, [Next]_vars
  PROVE  SimInv'
<1>1. ListInv'
  BY NextList DEF SimInv
<1>2. CASE Next
  <2>1. PICK t \in Threads : CallPushFront(t) \/ CallTraversal(t) \/ Step(t)
    BY <1>2 DEF Next
  <2>2. CallsOK'
    BY <2>1, StepCalls DEF SimInv, ListInv
  <2> QED
    BY <1>1, <2>2 DEF SimInv
<1>3. CASE UNCHANGED vars
  <2>1. CallsOK'
    BY <1>3 DEF SimInv, CallsOK, vars, heap, request, place
  <2> QED
    BY <1>1, <2>1 DEF SimInv
<1> QED
  BY <1>2, <1>3

\* The empty list is the abstract empty list ...
LEMMA InitWhole == Init => Whole!Init
<1> SUFFICES ASSUME Init PROVE Whole!Init
  OBVIOUS
<1>1. SimInv
  BY InitSim
<1>2. PICK L, s : Reaches(L, s)
  BY <1>1 DEF SimInv, ListInv, WholeOK
<1>3. View(L, s)
  BY <1>1, <1>2, Views
<1>4. L = 1
  <2>1. L \in Nat /\ L # 0 /\ s[1] = HeadNode /\ (1 \in 1 .. L - 1 => next[s[1]] = s[1 + 1] /\ s[1 + 1] \in Cells)
    BY <1>3 DEF View, Placed
  <2>2. next[HeadNode] = Null /\ Null \notin Cells
    BY LockedListAssumption DEF Init, Cells
  <2> QED
    BY <2>1, <2>2
<1>5. Items = <<>>
  <2>1. Items = Bottom(0, Laters)
    BY <1>3, <1>4 DEF View
  <2>2. [i \in 1 .. 0 |-> Laters[i][0]] = <<>>
    OBVIOUS
  <2> QED
    BY <2>1, <2>2, WithoutEmpty DEF Bottom
<1>6. \A t \in Threads : Outcome(t) = "none"
  BY DEF Init, Outcome
<1> QED
  BY <1>5, <1>6 DEF Whole!Init

\* The two are the same.
LEMMA WholeWithout == \A x, v : Whole!Without(x, v) = Without(x, v)
  BY Zenon DEF Without, Whole!Without

\* ... and every step is one of the abstract list's or none.
LEMMA NextWhole ==
  ASSUME SimInv, SimInv', [Next]_vars
  PROVE  [Whole!Next]_Whole!vars
<1> DEFINE found == [t \in Threads |-> Outcome(t)]
<1>1. CASE Unseen
  <2>1. Items' = Items /\ found' = found
    BY <1>1 DEF Unseen
  <2> QED
    BY <2>1 DEF Whole!vars
<1>2. ASSUME NEW t \in Threads, Return(t) PROVE Whole!Next
  <2>1. /\ Items' = Items /\ Outcome(t)' = "none"
        /\ \A u \in Threads \ {t} : Outcome(u)' = Outcome(u)
    BY <1>2, ReturnStep
  <2>2. found' = [found EXCEPT ![t] = "none"]
    BY <2>1
  <2> QED
    BY <2>1, <2>2 DEF Whole!Next, Whole!Return
<1>3. ASSUME NEW t \in Threads, Link(t) PROVE Whole!Next
  <2>1. /\ \E z \in Values : Items' = <<z>> \o Items
        /\ \A u \in Threads : Outcome(u)' = Outcome(u)
    BY <1>3, LinkStep
  <2>2. found' = found
    BY <2>1
  <2> QED
    BY <2>1, <2>2 DEF Whole!Next, Whole!PushFront
<1>4. ASSUME NEW t \in Threads, LockHead(t), call[t] # "push_front" PROVE Whole!Next
  <2>1. /\ call[t] \in Traversals /\ (call[t] \in {"find_first_if", "remove_if"} => arg[t] \in Values)
        /\ call[t] = "for_each" => Items' = Mapped(Image, Items)
        /\ call[t] = "remove_if" => Items' = Without(Items, arg[t])
        /\ call[t] = "find_first_if" =>
              /\ Items' = Items
              /\ Outcome(t)' = IF \E i \in DOMAIN Items : Items[i] = arg[t] THEN "yes" ELSE "no"
        /\ call[t] # "find_first_if" => Outcome(t)' = Outcome(t)
        /\ \A u \in Threads \ {t} : Outcome(u)' = Outcome(u)
    BY <1>4, StartStep
  <2>2. CASE call[t] = "for_each"
    <3>1. found' = found /\ Items' = Mapped(Image, Items)
      BY <2>1, <2>2
    <3> QED
      BY <3>1 DEF Whole!Next, Whole!ForEach, Mapped
  <2>3. CASE call[t] = "remove_if"
    <3>1. found' = found /\ Items' = Whole!Without(Items, arg[t]) /\ arg[t] \in Values
      BY <2>1, <2>3, WholeWithout
    <3> QED
      BY <3>1 DEF Whole!Next, Whole!RemoveIf
  <2>4. CASE call[t] = "find_first_if"
    <3>1. /\ Items' = Items /\ arg[t] \in Values
          /\ found' = [found EXCEPT ![t] = IF \E i \in DOMAIN Items : Items[i] = arg[t] THEN "yes" ELSE "no"]
      BY <2>1, <2>4
    <3> QED
      BY <3>1 DEF Whole!Next, Whole!FindFirstIf
  <2> QED
    BY <2>1, <2>2, <2>3, <2>4 DEF Traversals
<1>5. ASSUME NEW t \in Threads, CallPushFront(t) \/ CallTraversal(t) \/ Step(t),
             ~Return(t), ~Link(t), ~(LockHead(t) /\ call[t] # "push_front")
      PROVE  Unseen
  <2>1. CASE CallPushFront(t) \/ CallTraversal(t) \/ (LockHead(t) /\ call[t] = "push_front") \/ Unlock(t)
    BY <2>1, OutsideSteps
  <2>2. CASE LockNext(t) \/ Test(t) \/ UnlockNext(t) \/ Free(t) \/ (Look(t) /\ next[current[t]] # Null)
    BY <2>2, StandSteps
  <2>3. CASE Look(t) /\ next[current[t]] = Null
    BY <2>3, LookEnd
  <2>4. CASE Release(t)
    BY <2>4, ReleaseStep
  <2>5. CASE Visit(t)
    BY <2>5, VisitStep
  <2>6. CASE Try(t)
    BY <2>6, TryStep
  <2>7. CASE Unlink(t)
    BY <2>7, UnlinkStep
  <2> QED
    BY <1>5, <2>1, <2>2, <2>3, <2>4, <2>5, <2>6, <2>7 DEF Step
<1>6. CASE Next
  <2>1. PICK t \in Threads : CallPushFront(t) \/ CallTraversal(t) \/ Step(t)
    BY <1>6 DEF Next
  <2> QED
    BY <1>1, <1>2, <1>3, <1>4, <1>5, <2>1
<1>7. CASE UNCHANGED vars
  BY <1>1, <1>7, StutterStep
<1> QED
  BY <1>6, <1>7

\* Every operation takes effect at the instant it locks the head: no traversal overtakes
\* another, so each works on the list as it was when it started (p254:38, p254:53, p254:70).
THEOREM ListImplementsAtomic == Spec => ListIsAtomic
<1>1. Init => SimInv
  BY InitSim
<1>2. SimInv /\ [Next]_vars => SimInv'
  BY NextSim
<1>3. Init => Whole!Init
  BY InitWhole
<1>4. SimInv /\ SimInv' /\ [Next]_vars => [Whole!Next]_Whole!vars
  BY NextWhole
<1> QED
  BY <1>1, <1>2, <1>3, <1>4, PTL DEF Spec, ListIsAtomic, Whole!Spec
===============================================================================
