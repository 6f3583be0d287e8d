------------------------------ MODULE StackProofs ------------------------------
(***************************************************************************)
(* Proofs about the three lock-free stacks, for any number of threads,     *)
(* values, nodes and slots: their types and counters, that no thread       *)
(* touches a freed node, that every live node has one owner, where the     *)
(* only race is, and that each of them implements the abstract stack.      *)
(*                                                                         *)
(* What the three have in common comes first, up to the invariant of p270; *)
(* then the counted reclamation of p272, the hazard pointers of p281, the  *)
(* refinement, and the theorems.                                           *)
(***************************************************************************)
EXTENDS MCStacks, LinkedListProofs

\* A thread that pushes has a node of its own, and so has one that took a node
\* off the stack and has not looked into it yet.
Pushing == {"push_load", "push_cas"}
Holding == Pushing \cup {"clear_hazard", "pop_data"}
Holds(t, n) == pc[t] \in Holding /\ node[t] = n /\ n # Null

\* A thread that pops looks into a node that others may take meanwhile.
Looking == {"pop_next", "pop_cas"}

\* The types of what the three programs have in common.
HeapTypes == /\ allocated \in SUBSET Nodes
             /\ data \in [Nodes -> Values \cup {NoValue}]
             /\ next \in [Nodes -> Nodes \cup {Null}]
             /\ head \in Nodes \cup {Null}
             /\ DOMAIN pc = Threads
             /\ node \in [Threads -> Nodes \cup {Null}]
             /\ seen \in [Threads -> Nodes \cup {Null}]
             /\ val \in [Threads -> Values \cup {NoValue}]

\* The stack is a list of live nodes.
ListOK == IsList(next, Null, head) /\ Chain \subseteq allocated

\* What a thread holds is a live node, off the stack and in no other hands.
HoldsOK == \A t \in Threads :
    /\ pc[t] \in Pushing \cup {"pop_data"} => node[t] # Null
    /\ pc[t] \in Pushing => data[node[t]] \in Values
    /\ \A n \in Nodes : Holds(t, n) => /\ n \in allocated /\ n \notin Chain
                                       /\ \A u \in Threads \ {t} : ~Holds(u, n)

\* The node a popping thread looks into is alive and nobody is pushing it, so
\* that it is not the head again once it has left the stack.
LooksOK == \A t \in Threads :
    pc[t] \in Looking /\ node[t] # Null =>
        node[t] \in allocated /\ \A u \in Threads : pc[u] \in Pushing => node[u] # node[t]

\* The exchange in pop is not deceived: while the node is on the stack its link
\* is the one that was read.
LinkOK == \A t \in Threads :
    pc[t] = "pop_cas" => node[t] # Null /\ (node[t] \in Chain => seen[t] = next[node[t]])

StackInv == HeapTypes /\ ListOK /\ HoldsOK /\ LooksOK /\ LinkOK
-------------------------------------------------------------------------------
(* The list of the stack. *)

\* Links lead from nodes, finitely many, and null is none.
LEMMA Heap ==
  ASSUME HeapTypes
  PROVE  DOMAIN next = Nodes /\ IsFiniteSet(DOMAIN next) /\ Null \notin DOMAIN next
  BY TreiberStackAssumption DEF HeapTypes

\* The stack depends on the links of its own nodes only.
LEMMA SameStack ==
  ASSUME HeapTypes, ListOK, DOMAIN next' = Nodes, head' = head, \A n \in Chain : next'[n] = next[n]
  PROVE  IsList(next', Null, head') /\ Chain' = Chain /\ Walk' = Walk
<1>1. DOMAIN next' = DOMAIN next
  BY Heap
<1>2. IsList(next, Null, head) /\ \A n \in NodesFrom(next, Null, head) : next'[n] = next[n]
  BY DEF ListOK, Chain
<1>3. /\ IsList(next', Null, head)
      /\ NodesFrom(next', Null, head) = NodesFrom(next, Null, head)
      /\ Path(next', Null, head) = Path(next, Null, head)
  BY <1>1, <1>2, ListSame
<1> QED
  BY <1>3 DEF Chain, Walk

\* The head is on the stack unless that is empty.
LEMMA HeadOnStack ==
  ASSUME HeapTypes, ListOK
  PROVE  /\ head # Null => head \in Chain
         /\ Null \notin Chain /\ Chain \subseteq Nodes
<1>1. IsList(next, Null, head) /\ DOMAIN next = Nodes
  BY Heap DEF ListOK
<1>2. head # Null => head \in Chain
  BY <1>1, ListHead DEF Chain
<1>3. Null \notin Chain /\ Chain \subseteq Nodes
  BY <1>1, ListNodes DEF Chain
<1> QED
  BY <1>2, <1>3

\* The value at the head.
LEMMA HeadValue ==
  ASSUME ListOK, head # Null
  PROVE  /\ Contents # <<>> /\ Head(Contents) = data[head]
         /\ Tail(Contents) = ValuesFrom(next, Null, data, next[head])
<1>1. IsList(next, Null, head)
  BY DEF ListOK
<1> QED
  BY <1>1, ListValues DEF Contents

\* What a thread holds or looks into is alive.
LEMMA HoldsLive ==
  ASSUME StackInv, NEW u \in Threads, node[u] # Null, pc[u] \in Holding \cup Looking
  PROVE  node[u] \in allocated
<1>1. node[u] \in Nodes
  BY DEF StackInv, HeapTypes
<1>2. CASE pc[u] \in Holding
  BY <1>1, <1>2 DEF StackInv, HoldsOK, Holds
<1>3. CASE pc[u] \in Looking
  BY <1>3 DEF StackInv, LooksOK
<1> QED
  BY <1>2, <1>3

\* A step that neither puts a node on the stack nor takes one off leaves its links
\* alone and frees none of its nodes ...
StackKept == head' = head /\ \A n \in Chain : next'[n] = next[n] /\ n \in allocated'

\* ... and every thread keeps what it holds and sees; a thread that begins to look
\* into a node takes the head.
Kept(u) ==
    /\ pc'[u] \in Holding /\ node'[u] # Null =>
          pc[u] \in Holding /\ node'[u] = node[u] /\ node[u] \in allocated'
    /\ pc'[u] = "pop_data" => node'[u] # Null
    /\ pc'[u] \in Pushing => /\ pc[u] \in Pushing /\ node'[u] = node[u]
                             /\ data'[node[u]] = data[node[u]]
    /\ pc'[u] \in Looking =>
          \/ /\ pc[u] \in Looking /\ node'[u] = node[u]
             /\ node[u] # Null => node[u] \in allocated'
          \/ node'[u] = head
    /\ pc'[u] = "pop_cas" =>
          /\ node'[u] = node[u] /\ node[u] # Null
          /\ \/ pc[u] = "pop_cas" /\ seen'[u] = seen[u]
             \/ seen'[u] = next[node[u]]

\* Such a step keeps the invariant.
LEMMA QuietStep ==
  ASSUME StackInv, HeapTypes', StackKept, \A u \in Threads : Kept(u)
  PROVE  StackInv' /\ Chain' = Chain /\ Walk' = Walk
<1>1. IsList(next', Null, head') /\ Chain' = Chain /\ Walk' = Walk
  BY SameStack DEF StackInv, HeapTypes, StackKept
<1>2. ListOK'
  BY <1>1 DEF ListOK, StackKept
<1>3. \A u \in Threads, n \in Nodes : Holds(u, n)' => Holds(u, n) /\ n \in allocated'
  BY DEF Holds, Kept
<1>4. HoldsOK'
  BY <1>1, <1>3 DEF StackInv, HoldsOK, Pushing, Holding, Kept
<1>5. LooksOK'
  <2> SUFFICES ASSUME NEW u \in Threads, pc'[u] \in Looking, node'[u] # Null
               PROVE  /\ node'[u] \in allocated'
                      /\ \A w \in Threads : pc'[w] \in Pushing => node'[w] # node'[u]
    BY DEF LooksOK
  <2>1. ASSUME NEW w \in Threads, pc'[w] \in Pushing
        PROVE  pc[w] \in Pushing /\ node'[w] = node[w] /\ node[w] \notin Chain
    <3>1. pc[w] \in Pushing /\ node'[w] = node[w]
      BY <2>1 DEF Holding, Kept
    <3>2. Holds(w, node[w]) /\ node[w] \in Nodes
      BY <3>1 DEF StackInv, HoldsOK, HeapTypes, Holds, Holding
    <3> QED
      BY <3>1, <3>2 DEF StackInv, HoldsOK
  <2>2. CASE pc[u] \in Looking /\ node'[u] = node[u] /\ node[u] \in allocated'
    BY <2>1, <2>2 DEF StackInv, LooksOK
  <2>3. CASE node'[u] = head
    <3>1. head \in Chain
      BY <2>3, HeadOnStack DEF StackInv
    <3> QED
      BY <2>1, <2>3, <3>1 DEF StackKept
  <2> QED
    BY <2>2, <2>3 DEF Kept
<1>6. LinkOK'
  BY <1>1 DEF StackInv, LinkOK, Kept, StackKept
<1> QED
  BY <1>1, <1>2, <1>4, <1>5, <1>6 DEF StackInv
-------------------------------------------------------------------------------
(* push. *)

\* A new node is in one thread's hands.
LEMMA CallPushInv ==
  ASSUME StackInv, NEW t \in Threads, NEW v \in Values, CallPush(t, v)
  PROVE  StackInv' /\ Chain' = Chain /\ Walk' = Walk
<1>1. PICK n \in Nodes \ allocated : /\ allocated' = allocated \cup {n}
                                     /\ data' = [data EXCEPT ![n] = v]
                                     /\ node' = [node EXCEPT ![t] = n]
  BY DEF CallPush
<1>2. /\ pc[t] = "idle" /\ pc' = [pc EXCEPT ![t] = "push_load"]
      /\ next' = next /\ head' = head /\ seen' = seen /\ val' = val
  BY DEF CallPush, Goto
<1>3. HeapTypes'
  BY <1>1, <1>2 DEF StackInv, HeapTypes
<1>4. IsList(next', Null, head') /\ Chain' = Chain /\ Walk' = Walk
  BY <1>2, <1>3, SameStack DEF StackInv, HeapTypes
<1>5. ListOK'
  BY <1>1, <1>4 DEF StackInv, ListOK
<1>6. n \notin Chain /\ n # Null
  BY <1>1, TreiberStackAssumption DEF StackInv, ListOK
<1>7. \A u \in Threads \ {t} : pc'[u] = pc[u] /\ node'[u] = node[u]
  BY <1>1, <1>2 DEF StackInv, HeapTypes
<1>8. node'[t] = n /\ pc'[t] = "push_load" /\ data'[n] = v
  BY <1>1, <1>2 DEF StackInv, HeapTypes
<1>9. \A m \in Nodes : Holds(t, m)' <=> m = n
  BY <1>6, <1>8 DEF Holds, Holding, Pushing
<1>10. \A u \in Threads \ {t}, m \in Nodes : (Holds(u, m)' <=> Holds(u, m)) /\ (Holds(u, m) => m # n)
  BY <1>1, <1>7 DEF Holds, StackInv, HoldsOK
<1>11. HoldsOK'
  <2>1. ASSUME NEW u \in Threads
        PROVE  /\ pc'[u] \in Pushing \cup {"pop_data"} => node'[u] # Null
               /\ pc'[u] \in Pushing => data'[node'[u]] \in Values
    <3>1. CASE u = t
      BY <1>6, <1>8, <3>1
    <3>2. CASE u # t
      <4>1. pc'[u] \in Pushing => node[u] \in Nodes /\ Holds(u, node[u])
        BY <1>7, <3>2 DEF StackInv, HoldsOK, HeapTypes, Holds, Holding
      <4>2. pc'[u] \in Pushing => node[u] # n
        BY <1>10, <3>2, <4>1
      <4> QED
        BY <1>1, <1>7, <3>2, <4>1, <4>2 DEF StackInv, HoldsOK, HeapTypes
    <3> QED
      BY <3>1, <3>2
  <2>2. ASSUME NEW u \in Threads, NEW m \in Nodes, Holds(u, m)'
        PROVE  m \in allocated' /\ m \notin Chain' /\ \A w \in Threads \ {u} : ~Holds(w, m)'
    <3>1. CASE u = t
      BY <1>1, <1>4, <1>6, <1>9, <1>10, <2>2, <3>1
    <3>2. CASE u # t
      <4>1. Holds(u, m) /\ m # n
        BY <1>10, <2>2, <3>2
      <4>2. m \in allocated /\ m \notin Chain /\ \A w \in Threads \ {u} : ~Holds(w, m)
        BY <4>1 DEF StackInv, HoldsOK
      <4> QED
        BY <1>1, <1>4, <1>9, <1>10, <4>1, <4>2
    <3> QED
      BY <3>1, <3>2
  <2> QED
    BY <2>1, <2>2 DEF HoldsOK
<1>12. LooksOK'
  <2> SUFFICES ASSUME NEW u \in Threads, pc'[u] \in Looking, node'[u] # Null
               PROVE  /\ node'[u] \in allocated'
                      /\ \A w \in Threads : pc'[w] \in Pushing => node'[w] # node'[u]
    BY DEF LooksOK
  <2>1. u # t
    BY <1>8 DEF Looking
  <2>2. /\ node'[u] = node[u] /\ node[u] \in allocated
        /\ \A w \in Threads : pc[w] \in Pushing => node[w] # node[u]
    BY <1>7, <2>1 DEF StackInv, LooksOK
  <2> QED
    BY <1>1, <1>7, <1>8, <2>2
<1>13. LinkOK'
  BY <1>2, <1>4, <1>7, <1>8 DEF StackInv, LinkOK
<1> QED
  BY <1>3, <1>4, <1>5, <1>11, <1>12, <1>13 DEF StackInv

\* Writing the link of a node that a pushing thread holds.
LEMMA PushLoadInv ==
  ASSUME StackInv, NEW t \in Threads, PushLoad(t)
  PROVE  StackInv' /\ Chain' = Chain /\ Walk' = Walk
<1>1. /\ pc[t] = "push_load" /\ pc' = [pc EXCEPT ![t] = "push_cas"]
      /\ next' = [next EXCEPT ![node[t]] = head]
      /\ UNCHANGED <<allocated, data, head, node, seen, val>>
  BY DEF PushLoad, Goto
<1>2. node[t] \in Nodes /\ Holds(t, node[t])
  BY <1>1 DEF StackInv, HoldsOK, HeapTypes, Holds, Holding, Pushing
<1>3. node[t] \notin Chain
  BY <1>2 DEF StackInv, HoldsOK
<1>4. HeapTypes'
  BY <1>1 DEF StackInv, HeapTypes
<1>5. StackKept
  BY <1>1, <1>3 DEF StackInv, ListOK, HeapTypes, StackKept
<1>6. ASSUME NEW u \in Threads PROVE Kept(u)
  <2>1. /\ pc'[u] \in Holding => pc[u] \in Holding
        /\ pc'[u] = "pop_data" => node[u] # Null
        /\ pc'[u] \in Pushing => pc[u] \in Pushing
        /\ pc'[u] \in Looking => pc[u] \in Looking
        /\ pc'[u] = "pop_cas" => pc[u] = "pop_cas" /\ node[u] # Null
    BY <1>1 DEF StackInv, HoldsOK, HeapTypes, LinkOK, Holding, Pushing, Looking
  <2> QED
    BY <1>1, <2>1, HoldsLive DEF Kept
<1> QED
  BY <1>4, <1>5, <1>6, QuietStep

\* A failed exchange in push.
LEMMA PushRetryInv ==
  ASSUME StackInv, NEW t \in Threads, PushCas(t), head # next[node[t]]
  PROVE  StackInv' /\ StackKept
<1>1. /\ pc[t] = "push_cas" /\ next' = [next EXCEPT ![node[t]] = head]
      /\ UNCHANGED <<allocated, data, head, pc, node, seen, val>>
  BY DEF PushCas
<1>2. node[t] \in Nodes /\ Holds(t, node[t])
  BY <1>1 DEF StackInv, HoldsOK, HeapTypes, Holds, Holding, Pushing
<1>3. node[t] \notin Chain
  BY <1>2 DEF StackInv, HoldsOK
<1>4. HeapTypes'
  BY <1>1 DEF StackInv, HeapTypes
<1>5. StackKept
  BY <1>1, <1>3 DEF StackInv, ListOK, HeapTypes, StackKept
<1>6. ASSUME NEW u \in Threads PROVE Kept(u)
  <2>1. /\ pc'[u] = "pop_data" => node[u] # Null
        /\ pc'[u] = "pop_cas" => node[u] # Null
    BY <1>1 DEF StackInv, HoldsOK, LinkOK
  <2> QED
    BY <1>1, <2>1, HoldsLive DEF Kept
<1> QED
  BY <1>4, <1>5, <1>6, QuietStep

\* The exchange that puts a node on the stack.
LEMMA PushedInv ==
  ASSUME StackInv, NEW t \in Threads, PushCas(t), head = next[node[t]]
  PROVE  /\ StackInv' /\ Chain' = Chain \cup {node[t]}
         /\ data[node[t]] \in Values /\ Contents' = <<data[node[t]]>> \o Contents
<1> DEFINE n == node[t]
<1>1. /\ pc[t] = "push_cas" /\ pc' = [pc EXCEPT ![t] = "idle"] /\ head' = n
      /\ node' = [node EXCEPT ![t] = Null]
      /\ UNCHANGED <<allocated, data, next, seen, val>>
  BY DEF PushCas, Goto
<1>2. n \in Nodes /\ n # Null /\ Holds(t, n) /\ data[n] \in Values
  BY <1>1 DEF StackInv, HoldsOK, HeapTypes, Holds, Holding, Pushing
<1>3. n \in allocated /\ n \notin Chain
  BY <1>2 DEF StackInv, HoldsOK
<1>4. HeapTypes'
  BY <1>1 DEF StackInv, HeapTypes
<1>5. n \in DOMAIN next /\ IsList(next, Null, next[n]) /\ n \notin NodesFrom(next, Null, next[n])
  BY <1>2, <1>3, Heap DEF StackInv, ListOK, Chain
<1>6. IsList(next, Null, n) /\ NodesFrom(next, Null, n) = {n} \cup Chain
  BY <1>5, ListCons DEF Chain
<1>7. Chain' = Chain \cup {n} /\ IsList(next', Null, head')
  BY <1>1, <1>6 DEF Chain
<1>8. ListOK'
  BY <1>1, <1>3, <1>7 DEF StackInv, ListOK
<1>9. \A u \in Threads \ {t} : pc'[u] = pc[u] /\ node'[u] = node[u]
  BY <1>1 DEF StackInv, HeapTypes
<1>10. node'[t] = Null /\ pc'[t] = "idle"
  BY <1>1 DEF StackInv, HeapTypes
<1> HIDE DEF n
<1>11. \A m \in Nodes : /\ ~Holds(t, m)'
                        /\ \A u \in Threads \ {t} : (Holds(u, m)' <=> Holds(u, m)) /\ (Holds(u, m) => m # n)
  BY <1>2, <1>9, <1>10 DEF Holds, StackInv, HoldsOK
<1>12. HoldsOK'
  <2>1. ASSUME NEW u \in Threads
        PROVE  /\ pc'[u] \in Pushing \cup {"pop_data"} => node'[u] # Null
               /\ pc'[u] \in Pushing => data'[node'[u]] \in Values
    BY <1>1, <1>9, <1>10 DEF StackInv, HoldsOK, Pushing
  <2>2. ASSUME NEW u \in Threads, NEW m \in Nodes, Holds(u, m)'
        PROVE  m \in allocated' /\ m \notin Chain' /\ \A w \in Threads \ {u} : ~Holds(w, m)'
    <3>1. u # t /\ Holds(u, m) /\ m # n
      BY <1>11, <2>2
    <3>2. m \in allocated /\ m \notin Chain /\ \A w \in Threads \ {u} : ~Holds(w, m)
      BY <3>1 DEF StackInv, HoldsOK
    <3> QED
      BY <1>1, <1>7, <1>11, <3>1, <3>2 DEF n
  <2> QED
    BY <2>1, <2>2 DEF HoldsOK
<1>13. LooksOK'
  BY <1>1, <1>9, <1>10 DEF StackInv, LooksOK, Pushing, Looking
<1>14. LinkOK'
  <2> SUFFICES ASSUME NEW u \in Threads, pc'[u] = "pop_cas"
               PROVE  node'[u] # Null /\ (node'[u] \in Chain' => seen'[u] = next'[node'[u]])
    BY DEF LinkOK
  <2>1. u # t /\ pc[u] = "pop_cas" /\ node'[u] = node[u]
    BY <1>9, <1>10
  <2>2. node[u] # Null /\ (node[u] \in Chain => seen[u] = next[node[u]])
    BY <2>1 DEF StackInv, LinkOK
  <2>3. node[u] # n
    BY <1>1, <2>1, <2>2 DEF StackInv, LooksOK, Looking, Pushing, n
  <2> QED
    BY <1>1, <1>7, <2>1, <2>2, <2>3 DEF n
<1>15. Contents' = <<data[n]>> \o Contents
  <2>1. ValuesFrom(next, Null, data, n) = <<data[n]>> \o ValuesFrom(next, Null, data, next[n])
    BY <1>2, <1>6, ListValuesCons
  <2> QED
    BY <1>1, <2>1 DEF Contents, n
<1> QED
  BY <1>2, <1>4, <1>7, <1>8, <1>12, <1>13, <1>14, <1>15 DEF StackInv, n
-------------------------------------------------------------------------------
(* pop. *)

\* The exchange that takes the head off the stack.
LEMMA PoppedInv ==
  ASSUME StackInv, HeapTypes', NEW t \in Threads, pc[t] = "pop_cas", head = node[t], head' = seen[t],
         pc' = [pc EXCEPT ![t] = "pop_data"] \/ pc' = [pc EXCEPT ![t] = "clear_hazard"],
         UNCHANGED <<allocated, data, next, node, seen>>
  PROVE  /\ StackInv' /\ Chain' = Chain \ {node[t]} /\ node[t] \in Chain
         /\ Contents # <<>> /\ Head(Contents) = data[node[t]] /\ Contents' = Tail(Contents)
<1> DEFINE n == node[t]
<1>1. n \in Chain /\ n # Null /\ head' = next[n] /\ n \in Nodes
  BY HeadOnStack DEF StackInv, LinkOK
<1>2. IsList(next, Null, n)
  BY DEF StackInv, ListOK
<1>3. /\ IsList(next, Null, next[n])
      /\ NodesFrom(next, Null, n) = {n} \cup NodesFrom(next, Null, next[n])
      /\ n \notin NodesFrom(next, Null, next[n])
  BY <1>1, <1>2, ListHead
<1>4. Chain' = Chain \ {n} /\ IsList(next', Null, head')
  BY <1>1, <1>3 DEF Chain
<1>5. ListOK'
  BY <1>4 DEF StackInv, ListOK
<1>6. \A u \in Threads \ {t} : pc'[u] = pc[u]
  BY DEF StackInv, HeapTypes
<1>7. pc'[t] \in {"pop_data", "clear_hazard"}
  BY DEF StackInv, HeapTypes
<1>8. n \in allocated /\ \A u \in Threads : pc[u] \in Pushing => node[u] # n
  BY <1>1 DEF StackInv, LooksOK, Looking
<1>9. \A u \in Threads : ~Holds(u, n)
  BY <1>1 DEF StackInv, HoldsOK
<1> HIDE DEF n
<1>10. \A m \in Nodes : /\ Holds(t, m)' => m = n
                        /\ \A u \in Threads \ {t} : Holds(u, m)' <=> Holds(u, m)
  BY <1>6 DEF Holds, n
<1>11. HoldsOK'
  <2>1. ASSUME NEW u \in Threads
        PROVE  /\ pc'[u] \in Pushing \cup {"pop_data"} => node'[u] # Null
               /\ pc'[u] \in Pushing => data'[node'[u]] \in Values
    BY <1>1, <1>6, <1>7 DEF StackInv, HoldsOK, Pushing, n
  <2>2. ASSUME NEW u \in Threads, NEW m \in Nodes, Holds(u, m)'
        PROVE  m \in allocated' /\ m \notin Chain' /\ \A w \in Threads \ {u} : ~Holds(w, m)'
    <3>1. CASE u = t
      BY <1>4, <1>8, <1>9, <1>10, <2>2, <3>1
    <3>2. CASE u # t
      <4>1. Holds(u, m) /\ m # n
        BY <1>9, <1>10, <2>2, <3>2
      <4>2. m \in allocated /\ m \notin Chain /\ \A w \in Threads \ {u} : ~Holds(w, m)
        BY <4>1 DEF StackInv, HoldsOK
      <4> QED
        BY <1>4, <1>10, <4>1, <4>2
    <3> QED
      BY <3>1, <3>2
  <2> QED
    BY <2>1, <2>2 DEF HoldsOK
<1>12. LooksOK'
  BY <1>6, <1>7 DEF StackInv, LooksOK, Pushing, Looking
<1>13. LinkOK'
  BY <1>4, <1>6, <1>7 DEF StackInv, LinkOK
<1>14. Contents # <<>> /\ Head(Contents) = data[n] /\ Contents' = Tail(Contents)
  <2>1. /\ Contents # <<>> /\ Head(Contents) = data[head]
        /\ Tail(Contents) = ValuesFrom(next, Null, data, next[head])
    BY <1>1, HeadValue DEF StackInv, n
  <2> QED
    BY <1>1, <2>1 DEF Contents, n
<1> QED
  BY <1>1, <1>4, <1>5, <1>11, <1>12, <1>13, <1>14 DEF StackInv, n
-------------------------------------------------------------------------------
(* The steps that change neither the stack nor anybody's node. *)

\* The heap is left alone, the others too, and t does not get hold of a node.
Bystander(t) == /\ UNCHANGED <<allocated, data, next, head>>
                /\ HeapTypes'
                /\ \A u \in Threads \ {t} : pc'[u] = pc[u] /\ node'[u] = node[u] /\ seen'[u] = seen[u]

\* Every other thread keeps what it has, whatever t does with nodes that are not
\* in its hands.
LEMMA OthersKept ==
  ASSUME StackInv, NEW u \in Threads, pc'[u] = pc[u], node'[u] = node[u], seen'[u] = seen[u],
         pc[u] \in Holding \cup Looking /\ node[u] # Null => node[u] \in allocated',
         pc[u] \in Pushing => data'[node[u]] = data[node[u]]
  PROVE  Kept(u)
<1>1. /\ pc[u] = "pop_data" => node[u] # Null
      /\ pc[u] = "pop_cas" => node[u] # Null
  BY DEF StackInv, HoldsOK, LinkOK
<1> QED
  BY <1>1 DEF Kept

\* Such a step keeps the invariant.
LEMMA BystanderInv ==
  ASSUME StackInv, NEW t \in Threads, Bystander(t), Kept(t)
  PROVE  StackInv' /\ StackKept
<1>1. StackKept
  BY DEF Bystander, StackKept, StackInv, ListOK
<1>2. ASSUME NEW u \in Threads PROVE Kept(u)
  BY HoldsLive, OthersKept DEF Bystander
<1> QED
  BY <1>1, <1>2, QuietStep DEF Bystander

\* The places where a thread neither holds a node nor looks into one.
Elsewhere(l) == l \notin Holding \cup Looking

\* pop begins without a node.
LEMMA CallPopInv ==
  ASSUME StackInv, NEW t \in Threads, NEW l, Elsewhere(l), CallPop(t, l)
  PROVE  StackInv' /\ StackKept
<1>1. Bystander(t) /\ pc'[t] = l
  BY DEF CallPop, Goto, heap, Bystander, StackInv, HeapTypes
<1>2. Kept(t)
  BY <1>1 DEF Kept, Elsewhere, Holding, Looking
<1> QED
  BY <1>1, <1>2, BystanderInv

\* Taking the head for the node to look into, from wherever.
LEMMA LookInv ==
  ASSUME StackInv, NEW t \in Threads, NEW l, l = "pop_next" \/ Elsewhere(l),
         pc' = [pc EXCEPT ![t] = l], node' = [node EXCEPT ![t] = head],
         UNCHANGED <<allocated, data, next, head, seen, val>>
  PROVE  StackInv' /\ StackKept
<1>1. Bystander(t) /\ pc'[t] = l /\ node'[t] = head
  BY DEF Bystander, StackInv, HeapTypes
<1>2. Kept(t)
  BY <1>1 DEF Kept, Elsewhere, Holding, Looking, Pushing
<1> QED
  BY <1>1, <1>2, BystanderInv

\* Reading the link of the node, or finding the stack empty.
LEMMA PopNextInv ==
  ASSUME StackInv, NEW t \in Threads, NEW l, Elsewhere(l) \/ l = "clear_hazard", PopNext(t, l)
  PROVE  StackInv' /\ StackKept
<1>1. Bystander(t) /\ node'[t] = node[t]
  BY DEF PopNext, Goto, heap, Bystander, StackInv, HeapTypes
<1>2. \/ pc'[t] = l /\ node[t] = Null
      \/ pc'[t] = "pop_cas" /\ node[t] # Null /\ seen'[t] = next[node[t]] /\ pc[t] \in Looking
  BY DEF PopNext, Goto, Looking, StackInv, HeapTypes
<1>3. Kept(t)
  <2>1. CASE pc'[t] = l /\ node[t] = Null
    BY <1>1, <2>1 DEF Kept, Elsewhere, Holding, Looking, Pushing
  <2>2. CASE pc'[t] = "pop_cas" /\ node[t] # Null /\ seen'[t] = next[node[t]] /\ pc[t] \in Looking
    BY <1>1, <2>2, HoldsLive DEF Kept, Holding, Pushing, Bystander
  <2> QED
    BY <1>2, <2>1, <2>2
<1> QED
  BY <1>1, <1>3, BystanderInv

\* An exchange that fails for no reason.
LEMMA PopCasSpuriousInv ==
  ASSUME StackInv, NEW t \in Threads, PopCasSpurious(t)
  PROVE  StackInv' /\ StackKept
<1>1. Bystander(t) /\ node'[t] = node[t] /\ pc'[t] = "pop_next" /\ pc[t] \in Looking
  BY DEF PopCasSpurious, Goto, heap, Bystander, StackInv, HeapTypes, Looking
<1>2. Kept(t)
  BY <1>1, HoldsLive DEF Kept, Holding, Pushing, Bystander
<1> QED
  BY <1>1, <1>2, BystanderInv

\* The exchange in pop.
LEMMA PopCasInv ==
  ASSUME StackInv, NEW t \in Threads, NEW p \in {"pop_data", "clear_hazard"}, NEW l,
         l = "pop_next" \/ Elsewhere(l), PopCas(t, p, l)
  PROVE  StackInv'
<1>1. CASE head = node[t] /\ head' = seen[t]
  <2>1. /\ pc[t] = "pop_cas" /\ pc' = [pc EXCEPT ![t] = p]
        /\ UNCHANGED <<allocated, data, next, node, seen, val>>
    BY <1>1 DEF PopCas, Goto, heap
  <2>2. HeapTypes'
    BY <1>1, <2>1 DEF StackInv, HeapTypes
  <2> QED
    BY <1>1, <2>1, <2>2, PoppedInv
<1>2. CASE head # node[t]
  <2>1. /\ pc' = [pc EXCEPT ![t] = l] /\ node' = [node EXCEPT ![t] = head]
        /\ UNCHANGED <<allocated, data, next, head, seen, val>>
    BY <1>2 DEF PopCas, Goto, heap
  <2> QED
    BY <2>1, LookInv
<1> QED
  BY <1>1, <1>2 DEF PopCas

\* Leaving for a place without a node, whatever happens to the thread's variables.
LEMMA ElsewhereInv ==
  ASSUME StackInv, NEW t \in Threads, Bystander(t), Elsewhere(pc'[t])
  PROVE  StackInv' /\ StackKept
<1>1. Kept(t)
  BY DEF Kept, Elsewhere, Holding, Looking
<1> QED
  BY <1>1, BystanderInv

\* The end of a call.
LEMMA ReturnInv ==
  ASSUME StackInv, NEW t \in Threads, Return(t)
  PROVE  StackInv' /\ StackKept
<1>1. Bystander(t) /\ pc'[t] = "idle"
  BY DEF Return, Goto, heap, Bystander, StackInv, HeapTypes
<1>2. Elsewhere(pc'[t])
  BY <1>1 DEF Elsewhere, Holding, Looking, Pushing
<1> QED
  BY <1>1, <1>2, ElsewhereInv

\* A push.
LEMMA PushStepInv ==
  ASSUME StackInv, NEW t \in Threads, PushStep(t)
  PROVE  StackInv'
<1>1. CASE \E v \in Values : CallPush(t, v)
  BY <1>1, CallPushInv
<1>2. CASE PushLoad(t)
  BY <1>2, PushLoadInv
<1>3. CASE PushCas(t)
  BY <1>3, PushRetryInv, PushedInv DEF PushCas
<1> QED
  BY <1>1, <1>2, <1>3 DEF PushStep
-------------------------------------------------------------------------------
(* p270. *)

SimpleLabels == {"idle", "push_load", "push_cas", "pop_load", "pop_next", "pop_cas", "pop_data",
                 "return"}

\* p270 has no use for the variables of p272.
SimpleInv == /\ StackInv
             /\ pc \in [Threads -> SimpleLabels]
             /\ calls \in 0 .. MaxCalls
             /\ batch = [t \in Threads |-> Null]

\* p270 copies the value and forgets the node.
LEMMA PopDataInv ==
  ASSUME StackInv, NEW t \in Threads, PopData(t)
  PROVE  StackInv' /\ StackKept
<1>1. node[t] \in Nodes /\ data[node[t]] \in Values \cup {NoValue}
  BY DEF PopData, StackInv, HoldsOK, HeapTypes
<1>2. Bystander(t) /\ pc'[t] = "return"
  BY <1>1 DEF PopData, Goto, heap, Bystander, StackInv, HeapTypes
<1>3. Elsewhere(pc'[t])
  BY <1>2 DEF Elsewhere, Holding, Looking, Pushing
<1> QED
  BY <1>2, <1>3, ElsewhereInv

\* At the start the stack is empty and nobody holds a node.
LEMMA SimpleInit ==
  ASSUME Init
  PROVE  StackInv
<1> USE TreiberStackAssumption
<1>1. HeapTypes
  BY DEF Init, HeapTypes
<1>2. IsList(next, Null, Null) /\ NodesFrom(next, Null, Null) = {}
  BY <1>1, Heap, ListNull
<1>3. ListOK
  BY <1>2 DEF Init, ListOK, Chain
<1>4. \A t \in Threads : pc[t] = "idle"
  BY DEF Init
<1>5. HoldsOK /\ LooksOK /\ LinkOK
  BY <1>4 DEF HoldsOK, LooksOK, LinkOK, Pushing, Looking, Holds, Holding
<1> QED
  BY <1>1, <1>3, <1>5 DEF StackInv

\* Every step of p270 keeps its invariant.
LEMMA SimpleStep ==
  ASSUME SimpleInv, Next, UNCHANGED batch
  PROVE  SimpleInv'
<1> USE DEF SimpleInv
<1>1. PICK t \in Threads : \/ PushStep(t)
                           \/ CallPop(t, "pop_load")
                           \/ PopLoad(t)
                           \/ PopNext(t, "return")
                           \/ PopCas(t, "pop_data", "pop_next")
                           \/ PopCasSpurious(t)
                           \/ PopData(t)
                           \/ Return(t)
  BY DEF Next
<1>2. Elsewhere("pop_load") /\ Elsewhere("return")
  BY DEF Elsewhere, Holding, Looking, Pushing
<1>3. StackInv'
  <2>1. CASE PushStep(t)
    BY <2>1, PushStepInv
  <2>2. CASE CallPop(t, "pop_load")
    BY <1>2, <2>2, CallPopInv
  <2>3. CASE PopLoad(t)
    BY <2>3, LookInv DEF PopLoad, Goto, heap
  <2>4. CASE PopNext(t, "return")
    BY <1>2, <2>4, PopNextInv
  <2>5. CASE PopCas(t, "pop_data", "pop_next")
    BY <2>5, PopCasInv
  <2>6. CASE PopCasSpurious(t)
    BY <2>6, PopCasSpuriousInv
  <2>7. CASE PopData(t)
    BY <2>7, PopDataInv
  <2>8. CASE Return(t)
    BY <2>8, ReturnInv
  <2> QED
    BY <1>1, <2>1, <2>2, <2>3, <2>4, <2>5, <2>6, <2>7, <2>8
<1>4. pc' \in [Threads -> SimpleLabels]
  BY <1>1 DEF PushStep, CallPush, PushLoad, PushCas, CallPop, PopLoad, PopNext, PopCas, PopCasSpurious,
              PopData, Return, Goto, SimpleLabels
<1>5. calls' \in 0 .. MaxCalls
  <2>1. calls' = calls \/ (calls < MaxCalls /\ calls' = calls + 1)
    BY <1>1 DEF PushStep, CallPush, PushLoad, PushCas, CallPop, PopLoad, PopNext, PopCas,
                PopCasSpurious, PopData, Return
  <2> QED
    BY <2>1, TreiberStackAssumption
<1> QED
  BY <1>3, <1>4, <1>5

\* The invariant gives the types.
LEMMA SimpleTypes ==
  ASSUME SimpleInv
  PROVE  TypeOK
<1>1. IsList(next, Null, head) /\ DOMAIN next = Nodes
  BY Heap DEF SimpleInv, StackInv, ListOK
<1>2. Walk[Cardinality(Nodes)] = Null
  BY <1>1, ListNodes DEF Walk
<1> QED
  BY <1>2 DEF SimpleInv, StackInv, HeapTypes, SimpleLabels, TypeOK
-------------------------------------------------------------------------------
(* p272: the invariant. *)

CountedLabels == {"idle", "push_load", "push_cas", "pop_load", "pop_next", "pop_cas", "pop_data",
                  "test", "exchange", "leave_alone", "delete_nodes", "delete_head", "chain_node",
                  "chain_node_cas", "chain_batch", "chain_batch_cas", "leave", "return", "crashed"}

\* The types of what p272 adds.
ReclaimTypes == /\ pc \in [Threads -> CountedLabels]
                /\ pending \in Nodes \cup {Null}
                /\ batch \in [Threads -> Nodes \cup {Null}]
                /\ last \in [Threads -> Nodes \cup {Null}]
                /\ calls \in 0 .. MaxCalls

\* The links that t's batch follows: it ends where it is being put back.
Cut(t) == IF pc[t] = "chain_batch_cas" THEN [next EXCEPT ![last[t]] = Null] ELSE next

Batched == {"leave_alone", "delete_nodes", "chain_batch", "chain_batch_cas"}

\* The batch of a thread is a list, empty outside try_reclaim and never empty when
\* it is put back.
BatchOK(t) == /\ IsList(Cut(t), Null, batch[t])
              /\ pc[t] \notin Batched => batch[t] = Null
              /\ pc[t] \in {"chain_batch", "chain_batch_cas"} => batch[t] # Null
              /\ pc[t] = "chain_batch_cas" => last[t] \in Batch(t)
              /\ pc[t] = "chain_node_cas" => last[t] = node[t] /\ node[t] # Null

\* A thread that has been alone in pop since it took its node.
Alone == {"exchange", "leave_alone", "delete_nodes", "delete_head", "chain_batch",
          "chain_batch_cas"}

\* Nobody looks into the node of such a thread, nor into the nodes that are freed:
\* who entered later found another head.
Unseen == \A u, v \in Threads :
    pc[v] \in Looking /\ node[v] # Null =>
        /\ pc[u] \in Alone => node[u] # node[v]
        /\ pc[u] = "delete_nodes" => node[v] \notin Batch(u)

\* Who owns a node: the stack, the pending list or one thread.
Waiting == ListFrom(pending)
Mine(t) == Private(t) \cup Batch(t)

OwnersOK == /\ \A n : n \in allocated <=> \/ n \in Chain \/ n \in Waiting
                                          \/ \E t \in Threads : n \in Mine(t)
            /\ Chain \cap Waiting = {}
            /\ \A t \in Threads : Mine(t) \cap (Chain \cup Waiting) = {} /\ Private(t) \cap Batch(t) = {}
            /\ \A t, u \in Threads : t # u => Mine(t) \cap Mine(u) = {}

CountedInv == /\ StackInv
              /\ ReclaimTypes
              /\ IsList(next, Null, pending)
              /\ \A t \in Threads : BatchOK(t)
              /\ OwnersOK
              /\ Unseen

\* The count of the threads inside pop.
CountOK == inPop = Cardinality({t \in Threads : InPop(t)})

\* The owners of the invariant are those of the property.
LEMMA OwnersAre ==
  ASSUME OwnersOK
  PROVE  NodesHaveOneOwner
<1> DEFINE o == [t \in Threads |-> Private(t) \cup Batch(t)]
<1>1. \A t \in Threads : o[t] = Mine(t)
  BY DEF Mine
<1>2. \A n : n \in UNION {o[t] : t \in Threads} <=> \E t \in Threads : n \in Mine(t)
  BY <1>1
<1> HIDE DEF o
<1>3. allocated = Chain \cup ListFrom(pending) \cup UNION {o[t] : t \in Threads}
  BY <1>2 DEF OwnersOK, Waiting
<1>4. /\ Chain \cap ListFrom(pending) = {}
      /\ \A t \in Threads : /\ o[t] \cap (Chain \cup ListFrom(pending)) = {}
                            /\ Private(t) \cap Batch(t) = {}
      /\ \A t, u \in Threads : t # u => o[t] \cap o[u] = {}
  BY <1>1 DEF OwnersOK, Waiting
<1> QED
  BY <1>3, <1>4 DEF NodesHaveOneOwner, o

\* What one thread's step can move: its own nodes, and those on the two lists.
Around(t) == Chain \cup Waiting \cup Mine(t)
Apart(t) == /\ Chain \cap Waiting = {}
            /\ Mine(t) \cap (Chain \cup Waiting) = {}
            /\ Private(t) \cap Batch(t) = {}

\* When a thread takes nodes from one of its places to another, allocates free ones
\* or frees its own, every node has one owner still.
LEMMA OwnersMove ==
  ASSUME OwnersOK, NEW t \in Threads,
         \A u \in Threads \ {t} : Private(u)' = Private(u) /\ Batch(u)' = Batch(u),
         Apart(t)',
         \A n : n \in Around(t)' => n \in Around(t) \/ n \notin allocated,
         \A n : n \in allocated' <=> n \in Around(t)' \/ (n \in allocated /\ n \notin Around(t))
  PROVE  OwnersOK'
<1>1. \A u \in Threads \ {t} : Mine(u)' = Mine(u)
  BY DEF Mine
<1>2. \A u \in Threads \ {t} : \A n : n \in Mine(u) => n \in allocated /\ n \notin Around(t)
  BY DEF OwnersOK, Around
<1>3. \A u \in Threads \ {t} : \A n : n \in Mine(u)' => n \notin Around(t)'
  BY <1>1, <1>2
<1>4. \A n : n \in allocated' <=> n \in Chain' \/ n \in Waiting' \/ \E u \in Threads : n \in Mine(u)'
  <2> TAKE n
  <2>1. n \in Around(t)' <=> n \in Chain' \/ n \in Waiting' \/ n \in Mine(t)'
    BY DEF Around
  <2>2. (\E u \in Threads : n \in Mine(u)') <=> n \in Mine(t)' \/ \E u \in Threads \ {t} : n \in Mine(u)
    BY <1>1
  <2>3. n \in allocated /\ n \notin Around(t) <=> \E u \in Threads \ {t} : n \in Mine(u)
    <3>1. ASSUME n \in allocated, n \notin Around(t) PROVE \E u \in Threads \ {t} : n \in Mine(u)
      BY <3>1 DEF OwnersOK, Around
    <3> QED
      BY <3>1, <1>2
  <2> QED
    BY <2>1, <2>2, <2>3
<1>5. /\ Chain' \cap Waiting' = {} /\ Private(t)' \cap Batch(t)' = {}
      /\ Mine(t)' \cap (Chain' \cup Waiting') = {}
  BY DEF Apart
<1>6. \A u \in Threads : /\ Mine(u)' \cap (Chain' \cup Waiting') = {}
                         /\ Private(u)' \cap Batch(u)' = {}
  <2> TAKE u \in Threads
  <2>1. CASE u = t
    BY <1>5, <2>1
  <2>2. CASE u # t
    <3>1. \A n : n \in Mine(u)' => n \notin Chain' /\ n \notin Waiting'
      BY <1>3, <2>2 DEF Around
    <3>2. Private(u)' \cap Batch(u)' = {}
      BY <2>2 DEF OwnersOK
    <3> QED
      BY <3>1, <3>2
  <2> QED
    BY <2>1, <2>2
<1>7. \A u, w \in Threads : u # w => Mine(u)' \cap Mine(w)' = {}
  <2>1. \A u \in Threads \ {t} : Mine(u)' \cap Mine(t)' = {}
    BY <1>3 DEF Around
  <2>2. \A u, w \in Threads \ {t} : u # w => Mine(u)' \cap Mine(w)' = {}
    BY <1>1 DEF OwnersOK
  <2> QED
    BY <2>1, <2>2
<1> QED
  BY <1>4, <1>5, <1>6, <1>7 DEF OwnersOK

\* A step that takes, gives and frees nothing.
LEMMA OwnersStay ==
  ASSUME OwnersOK, allocated' = allocated, Chain' = Chain, Waiting' = Waiting,
         \A u \in Threads : Private(u)' = Private(u) /\ Batch(u)' = Batch(u)
  PROVE  OwnersOK'
<1>1. \A u \in Threads : Mine(u)' = Mine(u)
  BY DEF Mine
<1> QED
  BY <1>1 DEF OwnersOK
-------------------------------------------------------------------------------
\* A step of t changes the variables of t and the links of t's nodes.
StepOf(t) == /\ HeapTypes' /\ ReclaimTypes'
             /\ \A u \in Threads \ {t} : /\ pc'[u] = pc[u] /\ node'[u] = node[u] /\ seen'[u] = seen[u]
                                         /\ batch'[u] = batch[u] /\ last'[u] = last[u]
             /\ \A n \in Nodes : n \notin Mine(t) => next'[n] = next[n]

\* The links that a batch follows, and the nodes they lead through.
LEMMA CutIs ==
  ASSUME HeapTypes, ReclaimTypes, NEW t \in Threads
  PROVE  /\ DOMAIN Cut(t) = Nodes
         /\ Batch(t) = NodesFrom(Cut(t), Null, batch[t])
         /\ \A n \in Nodes : Cut(t)[n] = IF pc[t] = "chain_batch_cas" /\ n = last[t] THEN Null ELSE next[n]
  BY DEF HeapTypes, ReclaimTypes, Cut, Batch, ListFrom

\* A batch consists of nodes, and there is none at a null pointer.
LEMMA BatchNodes ==
  ASSUME HeapTypes, ReclaimTypes, NEW t \in Threads, BatchOK(t)
  PROVE  /\ Batch(t) \subseteq Nodes /\ Null \notin Batch(t)
         /\ batch[t] = Null => Batch(t) = {}
<1>1. IsList(Cut(t), Null, batch[t])
  BY DEF BatchOK
<1>2. /\ NodesFrom(Cut(t), Null, batch[t]) \subseteq DOMAIN Cut(t)
      /\ Null \notin NodesFrom(Cut(t), Null, batch[t])
  BY <1>1, ListNodes
<1>3. IsFiniteSet(DOMAIN Cut(t)) /\ Null \notin DOMAIN Cut(t)
  BY CutIs, TreiberStackAssumption
<1>4. NodesFrom(Cut(t), Null, Null) = {}
  BY <1>3, ListNull
<1> QED
  BY <1>2, <1>4, CutIs

\* The other threads keep their nodes and batches.
LEMMA OthersOwn ==
  ASSUME CountedInv, NEW t \in Threads, StepOf(t), NEW u \in Threads \ {t}
  PROVE  Private(u)' = Private(u) /\ Batch(u)' = Batch(u) /\ BatchOK(u)'
<1>1. /\ pc'[u] = pc[u] /\ node'[u] = node[u] /\ batch'[u] = batch[u] /\ last'[u] = last[u]
      /\ u \in Threads
  BY DEF StepOf
<1>2. BatchOK(u) /\ HeapTypes /\ ReclaimTypes /\ HeapTypes' /\ ReclaimTypes'
  BY DEF CountedInv, StackInv, StepOf
<1>3. /\ DOMAIN Cut(u) = Nodes /\ Batch(u) = NodesFrom(Cut(u), Null, batch[u])
      /\ \A n \in Nodes : Cut(u)[n] = IF pc[u] = "chain_batch_cas" /\ n = last[u] THEN Null ELSE next[n]
  BY <1>2, CutIs
<1>4. /\ DOMAIN Cut(u)' = Nodes /\ Batch(u)' = NodesFrom(Cut(u)', Null, batch[u]')
      /\ \A n \in Nodes : Cut(u)'[n] = IF pc'[u] = "chain_batch_cas" /\ n = last'[u] THEN Null ELSE next'[n]
  BY <1>2 DEF HeapTypes, ReclaimTypes, Cut, Batch, ListFrom
<1>5. \A n \in Batch(u) : n \in Nodes /\ n \notin Mine(t)
  BY <1>2, BatchNodes DEF CountedInv, OwnersOK, Mine
<1>6. \A n \in Batch(u) : next'[n] = next[n]
  BY <1>5 DEF StepOf
<1>7. \A n \in NodesFrom(Cut(u), Null, batch[u]) : Cut(u)'[n] = Cut(u)[n]
  BY <1>1, <1>3, <1>4, <1>5, <1>6
<1>8. IsList(Cut(u), Null, batch[u])
  BY <1>2 DEF BatchOK
<1>9. /\ IsList(Cut(u)', Null, batch[u])
      /\ NodesFrom(Cut(u)', Null, batch[u]) = NodesFrom(Cut(u), Null, batch[u])
  BY <1>3, <1>4, <1>7, <1>8, ListSame
<1>10. Batch(u)' = Batch(u) /\ IsList(Cut(u), Null, batch[u])'
  BY <1>1, <1>3, <1>4, <1>9
<1>11. BatchOK(u)'
  BY <1>1, <1>2, <1>10 DEF BatchOK
<1>12. Private(u)' = Private(u)
  BY <1>1 DEF Private
<1> QED
  BY <1>10, <1>11, <1>12

\* The pending list is as it was unless its head is exchanged.
LEMMA WaitingKept ==
  ASSUME CountedInv, NEW t \in Threads, StepOf(t), pending' = pending
  PROVE  IsList(next, Null, pending)' /\ Waiting' = Waiting
<1>1. DOMAIN next = Nodes /\ DOMAIN next' = Nodes /\ IsList(next, Null, pending)
  BY DEF StepOf, HeapTypes, CountedInv, StackInv
<1>2. NodesFrom(next, Null, pending) \subseteq DOMAIN next
  BY <1>1, ListNodes
<1>3. \A n \in NodesFrom(next, Null, pending) : next'[n] = next[n]
  BY <1>1, <1>2 DEF StepOf, CountedInv, OwnersOK, Waiting, ListFrom
<1>4. /\ IsList(next', Null, pending)
      /\ NodesFrom(next', Null, pending) = NodesFrom(next, Null, pending)
  BY <1>1, <1>3, ListSame
<1> QED
  BY <1>4 DEF Waiting, ListFrom

\* So is a batch whose links and ends are.
LEMMA BatchKept ==
  ASSUME CountedInv, HeapTypes', ReclaimTypes', NEW t \in Threads, next' = next, batch'[t] = batch[t],
         pc[t] # "chain_batch_cas", pc'[t] # "chain_batch_cas"
  PROVE  Batch(t)' = Batch(t) /\ IsList(Cut(t), Null, batch[t])'
<1>1. BatchOK(t) /\ HeapTypes /\ ReclaimTypes
  BY DEF CountedInv, StackInv
<1>2. Cut(t) = next /\ Cut(t)' = next'
  BY DEF Cut
<1>3. Batch(t) = NodesFrom(Cut(t), Null, batch[t]) /\ IsList(Cut(t), Null, batch[t])
  BY <1>1, CutIs DEF BatchOK
<1>4. Batch(t)' = NodesFrom(Cut(t)', Null, batch'[t])
  BY DEF Cut, Batch, ListFrom
<1> QED
  BY <1>2, <1>3, <1>4

\* The batch of a thread that has none.
LEMMA NoBatch ==
  ASSUME CountedInv, NEW t \in Threads, batch[t] = Null
  PROVE  Batch(t) = {}
  BY BatchNodes DEF CountedInv, StackInv

\* A thread that ends a step without a batch owns no node through it.
LEMMA NoBatchNext ==
  ASSUME HeapTypes', ReclaimTypes', NEW t \in Threads, batch'[t] = Null, pc'[t] # "chain_batch_cas"
  PROVE  Batch(t)' = {} /\ IsList(Cut(t), Null, batch[t])'
<1>1. IsFiniteSet(DOMAIN next') /\ Null \notin DOMAIN next'
  BY TreiberStackAssumption DEF HeapTypes
<1>2. IsList(next', Null, Null) /\ NodesFrom(next', Null, Null) = {}
  BY <1>1, ListNull
<1> QED
  BY <1>2 DEF Cut, Batch, ListFrom

\* A thread that begins to look into a node takes the head.
LooksFrom(t) == pc'[t] \in Looking /\ node'[t] # Null =>
                   (pc[t] \in Looking /\ node'[t] = node[t]) \/ node'[t] = head

\* A thread is alone from a moment when nobody else looks into a node.
StaysAlone(t) == pc'[t] \in Alone =>
                    \/ pc[t] \in Alone /\ node'[t] = node[t] /\ pc'[t] # "delete_nodes"
                    \/ \A u \in Threads \ {t} : pc[u] \notin Looking

\* A step after which a thread is alone still, or alone from now on, keeps Unseen.
LEMMA UnseenStep ==
  ASSUME CountedInv, NEW t \in Threads, StepOf(t), LooksFrom(t), StaysAlone(t)
  PROVE  Unseen'
<1> SUFFICES ASSUME NEW u \in Threads, NEW v \in Threads, pc'[v] \in Looking, node'[v] # Null
             PROVE  /\ pc'[u] \in Alone => node'[u] # node'[v]
                    /\ pc'[u] = "delete_nodes" => node'[v] \notin Batch(u)'
  BY DEF Unseen
<1>1. CASE u = v
  BY <1>1 DEF Alone, Looking
<1>2. CASE u = t /\ v # t
  <2>1. pc'[v] = pc[v] /\ node'[v] = node[v] /\ v \in Threads \ {t}
    BY <1>2 DEF StepOf
  <2>2. pc'[t] \in Alone => pc[t] \in Alone /\ node'[t] = node[t] /\ pc'[t] # "delete_nodes"
    BY <2>1 DEF StaysAlone
  <2>3. pc'[t] = "delete_nodes" => pc'[t] \in Alone
    BY DEF Alone
  <2>4. pc[t] \in Alone => node[t] # node[v]
    BY <2>1 DEF CountedInv, Unseen
  <2> QED
    BY <1>2, <2>1, <2>2, <2>3, <2>4
<1>3. CASE u # t
  <2>1. pc'[u] = pc[u] /\ node'[u] = node[u] /\ u \in Threads \ {t}
    BY <1>3 DEF StepOf
  <2>2. Batch(u)' = Batch(u)
    BY <2>1, OthersOwn
  <2>3. CASE pc[v] \in Looking /\ node'[v] = node[v]
    BY <2>1, <2>2, <2>3 DEF CountedInv, Unseen
  <2>4. CASE node'[v] = head
    <3>1. head \in Chain
      BY <2>4, HeadOnStack DEF CountedInv, StackInv
    <3>2. head \notin Private(u) /\ head \notin Batch(u)
      BY <3>1 DEF CountedInv, OwnersOK, Mine
    <3>3. pc[u] \in Alone => node[u] # head
      BY <2>4, <3>2 DEF Private, Alone
    <3> QED
      BY <2>1, <2>2, <2>4, <3>2, <3>3
  <2>5. v # t => pc[v] \in Looking /\ node'[v] = node[v]
    BY DEF StepOf
  <2> QED
    BY <2>3, <2>4, <2>5 DEF LooksFrom
<1> QED
  BY <1>1, <1>2, <1>3

\* What is left to show of a step.
LEMMA CountedParts ==
  ASSUME CountedInv, NEW t \in Threads, StepOf(t), StackInv', IsList(next, Null, pending)',
         BatchOK(t)', OwnersOK', LooksFrom(t), StaysAlone(t)
  PROVE  CountedInv'
<1>1. \A u \in Threads : BatchOK(u)'
  BY OthersOwn
<1>2. Unseen'
  BY UnseenStep
<1> QED
  BY <1>1, <1>2 DEF CountedInv, StepOf

\* The steps that touch neither the links nor a list.
LinksKept == UNCHANGED <<allocated, next, head, pending, batch, last>>

\* The steps that write to no link and move no node keep the invariant.
LEMMA LinksKeptInv ==
  ASSUME CountedInv, NEW t \in Threads, StepOf(t), LinksKept, StackInv', Private(t)' = Private(t),
         pc[t] # "chain_batch_cas", pc'[t] \notin {"chain_batch_cas", "chain_node_cas"},
         pc'[t] \notin Batched => batch[t] = Null, pc'[t] = "chain_batch" => batch[t] # Null,
         LooksFrom(t), StaysAlone(t)
  PROVE  CountedInv'
<1>1. HeapTypes' /\ ReclaimTypes'
  BY DEF StepOf
<1>2. Batch(t)' = Batch(t) /\ IsList(Cut(t), Null, batch[t])'
  BY <1>1, BatchKept DEF LinksKept
<1>3. BatchOK(t)'
  BY <1>2 DEF BatchOK, LinksKept
<1>4. IsList(next, Null, pending)' /\ Waiting' = Waiting
  BY WaitingKept DEF LinksKept
<1>5. \A u \in Threads : Private(u)' = Private(u) /\ Batch(u)' = Batch(u)
  BY <1>2, OthersOwn
<1>6. Chain' = Chain
  BY DEF LinksKept, Chain
<1>7. OwnersOK'
  BY <1>4, <1>5, <1>6, OwnersStay DEF CountedInv, LinksKept
<1> QED
  BY <1>3, <1>4, <1>7, CountedParts

\* A step of a thread that neither holds a node nor looks into one afterwards.
LEMMA OwnStep ==
  ASSUME CountedInv, NEW t \in Threads, StepOf(t), head' = head, Elsewhere(pc'[t]),
         \A n \in allocated : n \notin Mine(t) => n \in allocated' /\ data'[n] = data[n],
         \A u \in Threads \ {t} : pc[u] \in Looking /\ node[u] # Null => node[u] \in allocated'
  PROVE  StackInv' /\ Chain' = Chain
<1>1. \A n \in Chain : n \in Nodes /\ n \in allocated /\ n \notin Mine(t)
  BY DEF CountedInv, OwnersOK, StackInv, ListOK, HeapTypes
<1>2. StackKept
  BY <1>1 DEF StackKept, StepOf
<1>3. Kept(t)
  BY DEF Kept, Elsewhere, Holding, Looking
<1>4. ASSUME NEW u \in Threads \ {t} PROVE Kept(u)
  <2>1. pc'[u] = pc[u] /\ node'[u] = node[u] /\ seen'[u] = seen[u]
    BY DEF StepOf
  <2>2. pc[u] \in Holding /\ node[u] # Null => node[u] \in allocated' /\ data'[node[u]] = data[node[u]]
    <3>1. pc[u] \in Holding => pc[u] # "clear_hazard"
      BY DEF CountedInv, ReclaimTypes, CountedLabels
    <3>2. pc[u] \in Holding /\ node[u] # Null => node[u] \in Private(u)
      BY <3>1 DEF Private, Holding, Pushing
    <3>3. node[u] \in Private(u) => node[u] \in allocated /\ node[u] \notin Mine(t)
      BY DEF CountedInv, OwnersOK, Mine
    <3> QED
      BY <3>2, <3>3
  <2>3. pc[u] \in Holding \cup Looking /\ node[u] # Null => node[u] \in allocated'
    BY <2>2
  <2>4. pc[u] \in Pushing => data'[node[u]] = data[node[u]]
    BY <2>2 DEF CountedInv, StackInv, HoldsOK, Holding
  <2> QED
    BY <2>1, <2>3, <2>4, OthersKept DEF CountedInv
<1> QED
  BY <1>2, <1>3, <1>4, QuietStep DEF CountedInv, StepOf
-------------------------------------------------------------------------------
(* p272: the count. *)

\* A step that brings a thread into pop or out of it, and counts.
LEMMA CountSame ==
  ASSUME CountOK, \A u \in Threads : InPop(u)' <=> InPop(u), inPop' = inPop
  PROVE  CountOK'
  BY DEF CountOK

\* One thread more.
LEMMA CountUp ==
  ASSUME CountOK, NEW t \in Threads, \A u \in Threads \ {t} : InPop(u)' <=> InPop(u),
         ~InPop(t), InPop(t)', inPop' = inPop + 1
  PROVE  CountOK'
<1> DEFINE S == {u \in Threads : InPop(u)}
<1>1. S' = S \cup {t} /\ t \notin S
  OBVIOUS
<1>2. IsFiniteSet(S)
  BY FS_Subset, TreiberStackAssumption
<1>3. Cardinality(S \cup {t}) = Cardinality(S) + 1
  BY <1>1, <1>2, FS_AddElement
<1> QED
  BY <1>1, <1>3 DEF CountOK

\* One thread less.
LEMMA CountDown ==
  ASSUME CountOK, NEW t \in Threads, \A u \in Threads \ {t} : InPop(u)' <=> InPop(u),
         InPop(t), ~InPop(t)', inPop' = inPop - 1
  PROVE  CountOK'
<1> DEFINE S == {u \in Threads : InPop(u)}
<1>1. S' = S \ {t} /\ t \in S
  OBVIOUS
<1>2. IsFiniteSet(S)
  BY FS_Subset, TreiberStackAssumption
<1>3. Cardinality(S \ {t}) = Cardinality(S) - 1
  BY <1>1, <1>2, FS_RemoveElement
<1> QED
  BY <1>1, <1>3 DEF CountOK

\* A thread in pop that counts one thread is the only one.
LEMMA CountOne ==
  ASSUME CountOK, NEW t \in Threads, InPop(t), inPop = 1
  PROVE  \A u \in Threads \ {t} : ~InPop(u)
<1> DEFINE S == {u \in Threads : InPop(u)}
<1>1. IsFiniteSet(S) /\ Cardinality(S) = 1 /\ t \in S
  BY FS_Subset, TreiberStackAssumption DEF CountOK
<1>2. \E x : S = {x}
  BY <1>1, FS_Singleton
<1> QED
  BY <1>1, <1>2
-------------------------------------------------------------------------------
(* p272: push, and the exchange in pop. *)

\* Every step of t leaves the other threads' variables and the types alone.
LEMMA CallPushCounted ==
  ASSUME CountedInv, NEW t \in Threads, NEW v \in Values, CallPush(t, v), UNCHANGED reclaimVars
  PROVE  CountedInv'
<1>1. PICK n \in Nodes \ allocated : /\ allocated' = allocated \cup {n}
                                     /\ data' = [data EXCEPT ![n] = v]
                                     /\ node' = [node EXCEPT ![t] = n]
  BY DEF CallPush
<1>2. /\ pc[t] = "idle" /\ pc' = [pc EXCEPT ![t] = "push_load"] /\ calls < MaxCalls /\ calls' = calls + 1
      /\ UNCHANGED <<next, head, seen, val, pending, batch, last>>
  BY DEF CallPush, Goto, reclaimVars
<1>3. StackInv' /\ Chain' = Chain
  BY CallPushInv DEF CountedInv
<1>4. StepOf(t) /\ pc'[t] = "push_load" /\ node'[t] = n
  <2>1. calls' \in 0 .. MaxCalls
    BY <1>2, TreiberStackAssumption DEF CountedInv, ReclaimTypes
  <2>2. ReclaimTypes' /\ HeapTypes'
    BY <1>2, <1>3, <2>1 DEF CountedInv, ReclaimTypes, CountedLabels, StackInv
  <2> QED
    BY <1>1, <1>2, <2>2 DEF StepOf, CountedInv, StackInv, HeapTypes, ReclaimTypes
<1>5. batch[t] = Null
  BY <1>2 DEF CountedInv, BatchOK, Batched
<1>6. Batch(t) = {} /\ Private(t) = {}
  BY <1>2, <1>5, NoBatch DEF Private
<1>7. Batch(t)' = {} /\ IsList(Cut(t), Null, batch[t])'
  BY <1>2, <1>4, <1>5, NoBatchNext DEF StepOf
<1>8. Private(t)' = {n}
  BY <1>1, <1>4, TreiberStackAssumption DEF Private
<1>9. IsList(next, Null, pending)' /\ Waiting' = Waiting
  BY <1>2, <1>4, WaitingKept
<1>10. BatchOK(t)'
  BY <1>2, <1>4, <1>5, <1>7 DEF BatchOK
<1>11. OwnersOK'
  <2>1. \A m : m \in Around(t)' <=> m \in Around(t) \/ m = n
    BY <1>3, <1>6, <1>7, <1>8, <1>9 DEF Around, Mine
  <2>2. n \notin Chain /\ n \notin Waiting
    BY <1>1 DEF CountedInv, OwnersOK
  <2>3. Apart(t)'
    BY <1>3, <1>7, <1>8, <1>9, <2>2 DEF Apart, Mine, CountedInv, OwnersOK
  <2>4. \A m : m \in Around(t) => m \in allocated
    BY DEF CountedInv, OwnersOK, Around
  <2> QED
    BY <1>1, <1>4, <2>1, <2>3, <2>4, OthersOwn, OwnersMove DEF CountedInv
<1>12. LooksFrom(t) /\ StaysAlone(t)
  BY <1>4 DEF LooksFrom, StaysAlone, Looking, Alone
<1> QED
  BY <1>3, <1>4, <1>9, <1>10, <1>11, <1>12, CountedParts

\* Writing the link of the node that is pushed.
LEMMA PushLinkCounted ==
  ASSUME CountedInv, NEW t \in Threads, StackInv', Chain' = Chain, pc[t] \in Pushing,
         next' = [next EXCEPT ![node[t]] = head], pc' = [pc EXCEPT ![t] = "push_cas"],
         UNCHANGED <<allocated, data, head, node, seen, val, calls, pending, batch, last>>
  PROVE  CountedInv'
<1>1. Private(t) = {node[t]} /\ node[t] # Null
  BY DEF Private, Pushing, CountedInv, StackInv, HoldsOK
<1>2. StepOf(t) /\ pc'[t] = "push_cas"
  <2>1. ReclaimTypes' /\ HeapTypes'
    BY DEF CountedInv, ReclaimTypes, CountedLabels, StackInv
  <2>2. node[t] \in Mine(t)
    BY <1>1 DEF Mine
  <2> QED
    BY <2>1, <2>2 DEF StepOf, CountedInv, StackInv, HeapTypes
<1>3. batch[t] = Null
  BY DEF CountedInv, BatchOK, Batched, Pushing
<1>4. Batch(t) = {} /\ Batch(t)' = {} /\ IsList(Cut(t), Null, batch[t])'
  BY <1>2, <1>3, NoBatch, NoBatchNext DEF StepOf
<1>5. Private(t)' = Private(t)
  BY <1>1, <1>2 DEF Private
<1>6. IsList(next, Null, pending)' /\ Waiting' = Waiting
  BY <1>2, WaitingKept
<1>7. BatchOK(t)'
  BY <1>2, <1>3, <1>4 DEF BatchOK
<1>8. \A u \in Threads : Private(u)' = Private(u) /\ Batch(u)' = Batch(u)
  BY <1>2, <1>4, <1>5, OthersOwn
<1>9. OwnersOK'
  BY <1>6, <1>8, OwnersStay DEF CountedInv
<1>10. LooksFrom(t) /\ StaysAlone(t)
  BY <1>2 DEF LooksFrom, StaysAlone, Looking, Alone
<1> QED
  BY <1>2, <1>6, <1>7, <1>9, <1>10, CountedParts

\* The exchanges that put a node on the stack and take one off.
LEMMA ExchangeCounted ==
  ASSUME CountedInv, NEW t \in Threads, StackInv', NEW l \in {"idle", "pop_data"},
         pc' = [pc EXCEPT ![t] = l],
         \/ /\ l = "idle" /\ pc[t] = "push_cas" /\ node' = [node EXCEPT ![t] = Null]
            /\ Chain' = Chain \cup {node[t]}
         \/ /\ l = "pop_data" /\ pc[t] = "pop_cas" /\ node' = node
            /\ node[t] \in Chain /\ Chain' = Chain \ {node[t]},
         UNCHANGED <<allocated, data, next, seen, val, calls, pending, batch, last>>
  PROVE  CountedInv'
<1>1. pc'[t] = l /\ pc[t] \in {"push_cas", "pop_cas"}
  BY DEF CountedInv, StackInv, HeapTypes
<1>2. node[t] # Null /\ node'[t] = IF l = "idle" THEN Null ELSE node[t]
  BY DEF CountedInv, StackInv, HeapTypes, HoldsOK, LinkOK, Pushing
<1>3. StepOf(t)
  <2>1. ReclaimTypes' /\ HeapTypes'
    BY DEF CountedInv, ReclaimTypes, CountedLabels, StackInv
  <2> QED
    BY <2>1 DEF StepOf, CountedInv, StackInv, HeapTypes
<1>4. batch[t] = Null
  BY <1>1 DEF CountedInv, BatchOK, Batched
<1>5. Batch(t) = {} /\ Batch(t)' = {} /\ IsList(Cut(t), Null, batch[t])'
  BY <1>1, <1>3, <1>4, NoBatch, NoBatchNext DEF StepOf
<1>6. IsList(next, Null, pending)' /\ Waiting' = Waiting
  BY <1>3, WaitingKept
<1>7. BatchOK(t)'
  BY <1>1, <1>4, <1>5 DEF BatchOK
<1>8. \/ Private(t) = {node[t]} /\ Private(t)' = {} /\ Chain' = Chain \cup {node[t]}
      \/ /\ Private(t) = {} /\ Private(t)' = {node[t]}
         /\ Chain' = Chain \ {node[t]} /\ node[t] \in Chain
  BY <1>1, <1>2 DEF Private
<1>9. OwnersOK'
  <2>1. \A m : m \in Around(t)' <=> m \in Around(t)
    BY <1>5, <1>6, <1>8 DEF Around, Mine
  <2>2. Apart(t)'
    <3>1. Chain \cap Waiting = {} /\ Private(t) \cap (Chain \cup Waiting) = {}
      BY DEF CountedInv, OwnersOK, Mine
    <3> QED
      BY <1>5, <1>6, <1>8, <3>1 DEF Apart, Mine
  <2>3. \A m : m \in Around(t) => m \in allocated
    BY DEF CountedInv, OwnersOK, Around
  <2> QED
    BY <1>3, <2>1, <2>2, <2>3, OthersOwn, OwnersMove DEF CountedInv
<1>10. LooksFrom(t) /\ StaysAlone(t)
  BY <1>1 DEF LooksFrom, StaysAlone, Looking, Alone
<1> QED
  BY <1>3, <1>6, <1>7, <1>9, <1>10, CountedParts

\* The steps of push.
LEMMA PushCounted ==
  ASSUME CountedInv, NEW t \in Threads, PushStep(t), UNCHANGED reclaimVars
  PROVE  CountedInv'
<1>0. UNCHANGED <<pending, batch, last>> /\ StackInv
  BY DEF reclaimVars, CountedInv
<1>1. CASE \E v \in Values : CallPush(t, v)
  BY <1>1, CallPushCounted
<1>2. CASE PushLoad(t)
  <2>1. StackInv' /\ Chain' = Chain
    BY <1>0, <1>2, PushLoadInv
  <2> QED
    BY <1>0, <1>2, <2>1, PushLinkCounted DEF PushLoad, Goto, Pushing
<1>3. CASE PushCas(t) /\ head # next[node[t]]
  <2>1. StackInv' /\ StackKept
    BY <1>0, <1>3, PushRetryInv
  <2>2. /\ pc[t] = "push_cas" /\ next' = [next EXCEPT ![node[t]] = head]
        /\ UNCHANGED <<allocated, data, head, pc, node, seen, val, calls>>
    BY <1>3 DEF PushCas
  <2>3. pc' = [pc EXCEPT ![t] = "push_cas"]
    BY <2>2 DEF CountedInv, ReclaimTypes
  <2>4. Chain' = Chain
    BY <2>1, SameStack DEF StackInv, HeapTypes, StackKept, CountedInv
  <2> QED
    BY <1>0, <2>1, <2>2, <2>3, <2>4, PushLinkCounted DEF Pushing
<1>4. CASE PushCas(t) /\ head = next[node[t]]
  <2>1. StackInv' /\ Chain' = Chain \cup {node[t]}
    BY <1>0, <1>4, PushedInv
  <2>2. /\ pc[t] = "push_cas" /\ pc' = [pc EXCEPT ![t] = "idle"] /\ node' = [node EXCEPT ![t] = Null]
        /\ UNCHANGED <<allocated, data, next, seen, val, calls>>
    BY <1>4 DEF PushCas, Goto
  <2> QED
    BY <1>0, <2>1, <2>2, ExchangeCounted
<1> QED
  BY <1>1, <1>2, <1>3, <1>4 DEF PushStep
-------------------------------------------------------------------------------
(* p272: the other steps of pop. *)

\* The steps of pop it shares with p270.
LEMMA PopCounted ==
  ASSUME CountedInv, NEW t \in Threads, UNCHANGED reclaimVars,
         \/ PopLoad(t) \/ PopNext(t, "test") \/ PopCas(t, "pop_data", "pop_next")
         \/ PopCasSpurious(t) \/ Return(t)
  PROVE  CountedInv'
<1>0. UNCHANGED <<pending, batch, last>> /\ StackInv
  BY DEF reclaimVars, CountedInv
<1> DEFINE Taken == PopCas(t, "pop_data", "pop_next") /\ head = node[t] /\ head' = seen[t]
<1>1. CASE Taken
  <2>1. /\ pc[t] = "pop_cas" /\ pc' = [pc EXCEPT ![t] = "pop_data"]
        /\ UNCHANGED <<allocated, data, next, node, seen, val, calls>>
    BY <1>1 DEF PopCas, Goto, heap
  <2>2. HeapTypes'
    BY <1>0, <1>1, <2>1 DEF StackInv, HeapTypes
  <2>3. StackInv' /\ Chain' = Chain \ {node[t]} /\ node[t] \in Chain
    BY <1>0, <1>1, <2>1, <2>2, PoppedInv
  <2> QED
    BY <1>0, <2>1, <2>3, ExchangeCounted
<1>2. CASE ~Taken
  <2>1. StackInv'
    <3>1. Elsewhere("test")
      BY DEF Elsewhere, Holding, Looking, Pushing
    <3>2. CASE PopLoad(t)
      BY <1>0, <3>2, LookInv DEF PopLoad, Goto, heap
    <3>3. CASE PopNext(t, "test")
      BY <1>0, <3>1, <3>3, PopNextInv
    <3>4. CASE PopCas(t, "pop_data", "pop_next")
      BY <1>0, <3>4, PopCasInv
    <3>5. CASE PopCasSpurious(t)
      BY <1>0, <3>5, PopCasSpuriousInv
    <3>6. CASE Return(t)
      BY <1>0, <3>6, ReturnInv
    <3> QED
      BY <3>2, <3>3, <3>4, <3>5, <3>6
  <2>2. /\ LinksKept /\ calls' = calls
        /\ \/ pc[t] = "pop_load" /\ pc' = [pc EXCEPT ![t] = "pop_next"]
              /\ node' = [node EXCEPT ![t] = head] /\ seen' = seen
           \/ pc[t] = "pop_next" /\ node[t] = Null /\ pc' = [pc EXCEPT ![t] = "test"]
              /\ node' = node /\ seen' = seen
           \/ pc[t] = "pop_next" /\ pc' = [pc EXCEPT ![t] = "pop_cas"]
              /\ node' = node /\ seen' = [seen EXCEPT ![t] = next[node[t]]]
           \/ pc[t] = "pop_cas" /\ pc' = [pc EXCEPT ![t] = "pop_next"]
              /\ node' = [node EXCEPT ![t] = head] /\ seen' = seen
           \/ pc[t] = "pop_cas" /\ pc' = [pc EXCEPT ![t] = "pop_next"]
              /\ node' = node /\ seen' = seen
           \/ pc[t] = "return" /\ pc' = [pc EXCEPT ![t] = "idle"]
              /\ node' = [node EXCEPT ![t] = Null] /\ seen' = [seen EXCEPT ![t] = Null]
    BY <1>0, <1>2 DEF PopLoad, PopNext, PopCas, PopCasSpurious, Return, Goto, heap, LinksKept
  <2>3. StepOf(t)
    <3>1. ReclaimTypes' /\ HeapTypes'
      BY <1>0, <2>1, <2>2 DEF CountedInv, ReclaimTypes, CountedLabels, StackInv
    <3>2. DOMAIN pc = Threads /\ DOMAIN node = Threads /\ DOMAIN seen = Threads
      BY <1>0 DEF StackInv, HeapTypes
    <3>3. \A u \in Threads \ {t} : pc'[u] = pc[u] /\ node'[u] = node[u] /\ seen'[u] = seen[u]
      BY <2>2, <3>2
    <3> QED
      BY <1>0, <2>2, <3>1, <3>3 DEF StepOf, LinksKept
  <2>4. /\ \/ pc[t] = "pop_load" /\ pc'[t] = "pop_next" /\ node'[t] = head
           \/ pc[t] = "pop_next" /\ node[t] = Null /\ pc'[t] = "test" /\ node'[t] = Null
           \/ pc[t] = "pop_next" /\ pc'[t] = "pop_cas" /\ node'[t] = node[t]
           \/ pc[t] = "pop_cas" /\ pc'[t] = "pop_next" /\ node'[t] = head
           \/ pc[t] = "pop_cas" /\ pc'[t] = "pop_next" /\ node'[t] = node[t]
           \/ pc[t] = "return" /\ pc'[t] = "idle"
    BY <1>0, <2>2 DEF StackInv, HeapTypes
  <2>5. Private(t)' = Private(t)
    BY <2>4 DEF Private
  <2>6. batch[t] = Null
    BY <2>4 DEF CountedInv, BatchOK, Batched
  <2>7. LooksFrom(t) /\ StaysAlone(t)
    BY <2>4 DEF LooksFrom, StaysAlone, Looking, Alone
  <2> QED
    BY <2>1, <2>2, <2>3, <2>4, <2>5, <2>6, <2>7, LinksKeptInv
<1> QED
  BY <1>1, <1>2

\* pop begins, and the thread is counted.
LEMMA EnterCounted ==
  ASSUME CountedInv, NEW t \in Threads, EnterPop(t)
  PROVE  CountedInv'
<1>0. StackInv
  BY DEF CountedInv
<1>1. Elsewhere("pop_load")
  BY DEF Elsewhere, Holding, Looking, Pushing
<1>2. StackInv'
  BY <1>0, <1>1, CallPopInv DEF EnterPop
<1>3. /\ LinksKept /\ pc[t] = "idle" /\ pc' = [pc EXCEPT ![t] = "pop_load"]
      /\ calls < MaxCalls /\ calls' = calls + 1 /\ UNCHANGED <<node, seen>>
  BY DEF EnterPop, CallPop, Goto, heap, LinksKept
<1>4. calls' \in 0 .. MaxCalls
  BY <1>3, TreiberStackAssumption DEF CountedInv, ReclaimTypes
<1>5. ReclaimTypes' /\ HeapTypes' /\ pc'[t] = "pop_load"
  BY <1>2, <1>3, <1>4 DEF CountedInv, ReclaimTypes, CountedLabels, StackInv, LinksKept
<1>6. StepOf(t)
  BY <1>0, <1>3, <1>5 DEF StepOf, LinksKept, StackInv, HeapTypes
<1>7. Private(t)' = Private(t)
  BY <1>3, <1>5 DEF Private
<1>8. batch[t] = Null
  BY <1>3 DEF CountedInv, BatchOK, Batched
<1>9. LooksFrom(t) /\ StaysAlone(t)
  BY <1>5 DEF LooksFrom, StaysAlone, Looking, Alone
<1> QED
  BY <1>2, <1>3, <1>5, <1>6, <1>7, <1>8, <1>9, LinksKeptInv

\* The value leaves the node.
LEMMA TakeDataCounted ==
  ASSUME CountedInv, NEW t \in Threads, TakeData(t)
  PROVE  CountedInv'
<1>0. StackInv /\ HeapTypes /\ ReclaimTypes
  BY DEF CountedInv, StackInv
<1>1. /\ LinksKept /\ pc[t] = "pop_data" /\ pc' = [pc EXCEPT ![t] = "test"]
      /\ data' = [data EXCEPT ![node[t]] = NoValue] /\ val' = [val EXCEPT ![t] = data[node[t]]]
      /\ UNCHANGED <<allocated, next, head, node, seen, calls>>
  BY DEF TakeData, Goto, heap, LinksKept, reclaimVars
<1>2. node[t] \in Nodes /\ node[t] \in Private(t)
  BY <1>0, <1>1 DEF StackInv, HoldsOK, HeapTypes, Private
<1>3. HeapTypes' /\ ReclaimTypes' /\ pc'[t] = "test"
  BY <1>0, <1>1, <1>2 DEF HeapTypes, ReclaimTypes, CountedLabels, LinksKept
<1>4. StepOf(t)
  BY <1>0, <1>1, <1>3 DEF StepOf, LinksKept, HeapTypes
<1>5. StackInv'
  <2>1. Elsewhere(pc'[t])
    BY <1>3 DEF Elsewhere, Holding, Looking, Pushing
  <2>2. \A n \in allocated : n \notin Mine(t) => n \in allocated' /\ data'[n] = data[n]
    BY <1>0, <1>1, <1>2 DEF Mine, HeapTypes
  <2>3. \A u \in Threads \ {t} : pc[u] \in Looking /\ node[u] # Null => node[u] \in allocated'
    BY <1>0, <1>1 DEF StackInv, LooksOK
  <2> QED
    BY <1>1, <1>4, <2>1, <2>2, <2>3, OwnStep
<1>6. Private(t)' = Private(t)
  BY <1>1, <1>3 DEF Private
<1>7. batch[t] = Null
  BY <1>1 DEF CountedInv, BatchOK, Batched
<1>8. LooksFrom(t) /\ StaysAlone(t)
  BY <1>3 DEF LooksFrom, StaysAlone, Looking, Alone
<1> QED
  BY <1>1, <1>3, <1>4, <1>5, <1>6, <1>7, <1>8, LinksKeptInv
-------------------------------------------------------------------------------
(* p272: try_reclaim. *)

\* Testing and counting: only pc and the count change.
LEMMA TestCounted ==
  ASSUME CountedInv, CountOK, NEW t \in Threads,
         TestAlone(t) \/ LeaveAlone(t) \/ Leave(t) \/ Crash(t)
  PROVE  CountedInv'
<1>0. StackInv /\ HeapTypes /\ ReclaimTypes
  BY DEF CountedInv, StackInv
<1>1. /\ LinksKept /\ UNCHANGED <<data, node, seen, val, calls>>
      /\ \/ pc[t] = "test" /\ inPop = 1 /\ pc' = [pc EXCEPT ![t] = "exchange"]
         \/ pc[t] = "test" /\ pc' = [pc EXCEPT ![t] = "chain_node"]
         \/ pc[t] = "leave_alone" /\ inPop - 1 = 0 /\ pc' = [pc EXCEPT ![t] = "delete_nodes"]
         \/ pc[t] = "leave_alone" /\ batch[t] # Null /\ pc' = [pc EXCEPT ![t] = "chain_batch"]
         \/ pc[t] = "leave_alone" /\ batch[t] = Null /\ pc' = [pc EXCEPT ![t] = "delete_head"]
         \/ pc[t] = "leave" /\ pc' = [pc EXCEPT ![t] = "return"]
         \/ pc[t] = "chain_node" /\ node[t] = Null /\ pc' = [pc EXCEPT ![t] = "crashed"]
  BY DEF TestAlone, LeaveAlone, Leave, Crash, Goto, heap, LinksKept, reclaimVars
<1>2. /\ \/ pc[t] = "test" /\ inPop = 1 /\ pc'[t] = "exchange"
         \/ pc[t] = "test" /\ pc'[t] = "chain_node"
         \/ pc[t] = "leave_alone" /\ inPop - 1 = 0 /\ pc'[t] = "delete_nodes"
         \/ pc[t] = "leave_alone" /\ batch[t] # Null /\ pc'[t] = "chain_batch"
         \/ pc[t] = "leave_alone" /\ batch[t] = Null /\ pc'[t] = "delete_head"
         \/ pc[t] = "leave" /\ pc'[t] = "return"
         \/ pc[t] = "chain_node" /\ node[t] = Null /\ pc'[t] = "crashed"
      /\ node'[t] = node[t]
  BY <1>0, <1>1 DEF HeapTypes
<1>3. HeapTypes' /\ ReclaimTypes'
  BY <1>0, <1>1 DEF HeapTypes, ReclaimTypes, CountedLabels, LinksKept
<1>4. StepOf(t)
  BY <1>0, <1>1, <1>3 DEF StepOf, LinksKept, HeapTypes
<1>5. StackInv'
  <2>1. Elsewhere(pc'[t])
    BY <1>2 DEF Elsewhere, Holding, Looking, Pushing
  <2>2. \A n \in allocated : n \notin Mine(t) => n \in allocated' /\ data'[n] = data[n]
    BY <1>1 DEF LinksKept
  <2>3. \A u \in Threads \ {t} : pc[u] \in Looking /\ node[u] # Null => node[u] \in allocated'
    BY <1>0, <1>1 DEF StackInv, LooksOK, LinksKept
  <2> QED
    BY <1>1, <1>4, <2>1, <2>2, <2>3, OwnStep DEF LinksKept
<1>6. Private(t)' = Private(t)
  BY <1>2 DEF Private
<1>7. pc[t] \in {"test", "leave", "chain_node"} => batch[t] = Null
  BY DEF CountedInv, BatchOK, Batched
<1>8. LooksFrom(t)
  BY <1>2 DEF LooksFrom, Looking
<1>9. StaysAlone(t)
  <2>1. inPop \in Nat
    BY FS_Subset, FS_CardinalityType, TreiberStackAssumption DEF CountOK
  <2>2. CASE inPop = 1 /\ pc[t] \in {"test", "leave_alone"}
    <3>1. \A u \in Threads \ {t} : ~InPop(u)
      BY <2>2, CountOne DEF InPop
    <3> QED
      BY <3>1 DEF InPop, Looking, StaysAlone
  <2>3. CASE ~(inPop = 1 /\ pc[t] \in {"test", "leave_alone"})
    BY <1>2, <2>1, <2>3 DEF StaysAlone, Alone
  <2> QED
    BY <2>2, <2>3
<1> QED
  BY <1>1, <1>2, <1>3, <1>4, <1>5, <1>6, <1>7, <1>8, <1>9, LinksKeptInv DEF Batched
-------------------------------------------------------------------------------
(* p272: the lists of waiting nodes. *)

\* What t's step leaves to the others: t changes only its own nodes' fields, frees
\* only its own nodes, and ends where it neither holds a node nor looks into one.
LEMMA ReclaimStack ==
  ASSUME CountedInv, NEW t \in Threads, StepOf(t), data' = data, head' = head, Elsewhere(pc'[t]),
         \A n \in allocated : n \notin Mine(t) => n \in allocated',
         \A u \in Threads \ {t} : pc[u] \in Looking /\ node[u] # Null /\ node[u] \in allocated
                                     => node[u] \in allocated'
  PROVE  StackInv' /\ Chain' = Chain
  BY OwnStep DEF CountedInv, StackInv, LooksOK

\* The pending list becomes a batch: the thread has been alone since it took its node.
LEMMA TakePendingCounted ==
  ASSUME CountedInv, NEW t \in Threads, TakePending(t)
  PROVE  CountedInv'
<1>0. StackInv /\ HeapTypes /\ ReclaimTypes
  BY DEF CountedInv, StackInv
<1>1. /\ pc[t] = "exchange" /\ pc' = [pc EXCEPT ![t] = "leave_alone"]
      /\ batch' = [batch EXCEPT ![t] = pending] /\ pending' = Null
      /\ UNCHANGED <<allocated, data, next, head, node, seen, val, calls, last>>
  BY DEF TakePending, Goto, heap
<1>2. /\ HeapTypes' /\ ReclaimTypes' /\ pc'[t] = "leave_alone" /\ batch'[t] = pending
      /\ node'[t] = node[t]
  BY <1>0, <1>1 DEF HeapTypes, ReclaimTypes, CountedLabels
<1>3. StepOf(t)
  BY <1>0, <1>1, <1>2 DEF StepOf, HeapTypes, ReclaimTypes
<1>4. StackInv' /\ Chain' = Chain
  <2>1. Elsewhere(pc'[t])
    BY <1>2 DEF Elsewhere, Holding, Looking, Pushing
  <2> QED
    BY <1>1, <1>3, <2>1, ReclaimStack
<1>5. Private(t)' = Private(t)
  BY <1>1, <1>2 DEF Private
<1>6. batch[t] = Null /\ Batch(t) = {}
  BY <1>1, NoBatch DEF CountedInv, BatchOK, Batched
<1>7. Batch(t)' = Waiting /\ IsList(Cut(t), Null, batch[t])'
  BY <1>1, <1>2 DEF Batch, ListFrom, Waiting, Cut, CountedInv
<1>8. Waiting' = {} /\ IsList(next, Null, pending)'
  <2>1. IsFiniteSet(DOMAIN next) /\ Null \notin DOMAIN next
    BY <1>0, Heap
  <2> QED
    BY <1>1, <2>1, ListNull DEF Waiting, ListFrom
<1>9. BatchOK(t)'
  BY <1>2, <1>7 DEF BatchOK, Batched
<1>10. OwnersOK'
  <2>1. \A m : m \in Around(t)' <=> m \in Around(t)
    BY <1>4, <1>5, <1>6, <1>7, <1>8 DEF Around, Mine
  <2>2. Apart(t)'
    BY <1>4, <1>5, <1>6, <1>7, <1>8 DEF Apart, Mine, CountedInv, OwnersOK
  <2>3. \A m : m \in Around(t) => m \in allocated
    BY DEF CountedInv, OwnersOK, Around
  <2> QED
    BY <1>1, <1>3, <2>1, <2>2, <2>3, OthersOwn, OwnersMove DEF CountedInv
<1>11. LooksFrom(t) /\ StaysAlone(t)
  BY <1>1, <1>2 DEF LooksFrom, StaysAlone, Looking, Alone
<1> QED
  BY <1>3, <1>4, <1>8, <1>9, <1>10, <1>11, CountedParts

\* Freeing the batch and freeing the node that was taken.
LEMMA DeleteCounted ==
  ASSUME CountedInv, NEW t \in Threads, DeleteNodes(t) \/ DeleteHead(t)
  PROVE  CountedInv'
<1>0. StackInv /\ HeapTypes /\ ReclaimTypes
  BY DEF CountedInv, StackInv
<1>1. /\ UNCHANGED <<data, next, head, node, seen, val, calls, pending, last>>
      /\ \/ /\ pc[t] = "delete_nodes" /\ pc' = [pc EXCEPT ![t] = "delete_head"]
            /\ batch' = [batch EXCEPT ![t] = Null] /\ allocated' = allocated \ Batch(t)
         \/ /\ pc[t] = "delete_head" /\ pc' = [pc EXCEPT ![t] = "return"]
            /\ batch' = batch /\ allocated' = allocated \ {node[t]}
  BY DEF DeleteNodes, DeleteHead, Goto, Batch, reclaimVars
<1>2. batch'[t] = Null /\ node'[t] = node[t]
  BY <1>0, <1>1 DEF ReclaimTypes, CountedInv, BatchOK, Batched
<1>3. /\ HeapTypes' /\ ReclaimTypes'
      /\ \/ pc[t] = "delete_nodes" /\ pc'[t] = "delete_head"
         \/ pc[t] = "delete_head" /\ pc'[t] = "return"
  BY <1>0, <1>1 DEF HeapTypes, ReclaimTypes, CountedLabels
<1>4. StepOf(t)
  BY <1>0, <1>1, <1>3 DEF StepOf, HeapTypes, ReclaimTypes
<1>5. pc[t] = "delete_head" => batch[t] = Null /\ Batch(t) = {}
  BY NoBatch DEF CountedInv, BatchOK, Batched
<1>6. Null \notin allocated
  BY <1>0, TreiberStackAssumption DEF HeapTypes
<1>7. StackInv' /\ Chain' = Chain
  <2>1. Elsewhere(pc'[t])
    BY <1>3 DEF Elsewhere, Holding, Looking, Pushing
  <2>2. \A n \in allocated : n \notin Mine(t) => n \in allocated'
    BY <1>1, <1>6 DEF Mine, Private
  <2>3. \A u \in Threads \ {t} : pc[u] \in Looking /\ node[u] # Null /\ node[u] \in allocated
                                   => node[u] \in allocated'
    BY <1>1 DEF CountedInv, Unseen, Alone
  <2> QED
    BY <1>1, <1>4, <2>1, <2>2, <2>3, ReclaimStack
<1>8. Batch(t)' = {} /\ IsList(Cut(t), Null, batch[t])'
  BY <1>2, <1>3, NoBatchNext
<1>9. IsList(next, Null, pending)' /\ Waiting' = Waiting
  BY <1>1, <1>4, WaitingKept
<1>10. BatchOK(t)'
  BY <1>2, <1>3, <1>8 DEF BatchOK
<1>11. OwnersOK'
  <2>1. \/ Private(t)' = Private(t) /\ allocated' = allocated \ Batch(t)
        \/ /\ Private(t)' = {} /\ Batch(t) = {} /\ Private(t) = {node[t]} \ {Null}
           /\ allocated' = allocated \ {node[t]}
    BY <1>1, <1>2, <1>3, <1>5 DEF Private
  <2>2. \A m : m \in Around(t) => m \in allocated
    BY DEF CountedInv, OwnersOK, Around
  <2>3. Chain \cap Waiting = {} /\ Mine(t) \cap (Chain \cup Waiting) = {} /\ Private(t) \cap Batch(t) = {}
    BY DEF CountedInv, OwnersOK
  <2>4. Apart(t)'
    BY <1>7, <1>8, <1>9, <2>1, <2>3 DEF Apart, Mine
  <2>5. \A m : m \in Around(t)' => m \in Around(t)
    BY <1>7, <1>8, <1>9, <2>1 DEF Around, Mine
  <2>6. \A m : m \in allocated' <=> m \in Around(t)' \/ (m \in allocated /\ m \notin Around(t))
    <3>1. CASE Private(t)' = Private(t) /\ allocated' = allocated \ Batch(t)
      BY <1>7, <1>8, <1>9, <2>2, <2>3, <3>1 DEF Around, Mine
    <3>2. CASE /\ Private(t)' = {} /\ Batch(t) = {} /\ Private(t) = {node[t]} \ {Null}
               /\ allocated' = allocated \ {node[t]}
      BY <1>6, <1>7, <1>8, <1>9, <2>2, <2>3, <3>2 DEF Around, Mine
    <3> QED
      BY <2>1, <3>1, <3>2
  <2> QED
    BY <1>4, <2>4, <2>5, <2>6, OthersOwn, OwnersMove DEF CountedInv
<1>12. LooksFrom(t) /\ StaysAlone(t)
  BY <1>1, <1>2, <1>3 DEF LooksFrom, StaysAlone, Looking, Alone
<1> QED
  BY <1>4, <1>7, <1>9, <1>10, <1>11, <1>12, CountedParts

\* Writing a link of one's own node changes no list.
LEMMA RelinkCounted ==
  ASSUME CountedInv, NEW t \in Threads, StepOf(t), Elsewhere(pc'[t]), node'[t] = node[t],
         UNCHANGED <<allocated, data, head, pending>>,
         Private(t)' = Private(t), Batch(t)' = Batch(t), BatchOK(t)',
         pc'[t] \in Alone => pc[t] \in Alone, pc'[t] # "delete_nodes"
  PROVE  CountedInv'
<1>1. StackInv' /\ Chain' = Chain
  BY ReclaimStack
<1>2. IsList(next, Null, pending)' /\ Waiting' = Waiting
  BY WaitingKept
<1>3. \A u \in Threads : Private(u)' = Private(u) /\ Batch(u)' = Batch(u)
  BY OthersOwn
<1>4. OwnersOK'
  BY <1>1, <1>2, <1>3, OwnersStay DEF CountedInv
<1>5. LooksFrom(t) /\ StaysAlone(t)
  BY DEF LooksFrom, StaysAlone, Elsewhere
<1> QED
  BY <1>1, <1>2, <1>4, <1>5, CountedParts

\* The last link of what is put back leads to the pending list.
LEMMA ChainLoadCounted ==
  ASSUME CountedInv, NEW t \in Threads, ChainLoad(t)
  PROVE  CountedInv'
<1>0. StackInv /\ HeapTypes /\ ReclaimTypes /\ BatchOK(t)
  BY DEF CountedInv, StackInv
<1>1. UNCHANGED <<allocated, data, head, node, seen, val, calls, pending, batch>>
  BY DEF ChainLoad
<1>2. CASE pc[t] = "chain_batch"
  <2>1. PICK n \in Batch(t) : /\ next[n] = Null /\ last' = [last EXCEPT ![t] = n]
                              /\ next' = [next EXCEPT ![n] = pending]
                              /\ pc' = [pc EXCEPT ![t] = "chain_batch_cas"]
    BY <1>2 DEF ChainLoad, First, Goto, Batch
  <2>2. Batch(t) \subseteq Nodes
    BY <1>0, BatchNodes
  <2>3. HeapTypes' /\ ReclaimTypes' /\ pc'[t] = "chain_batch_cas" /\ last'[t] = n
    BY <1>0, <1>1, <2>1, <2>2 DEF HeapTypes, ReclaimTypes, CountedLabels
  <2>4. StepOf(t)
    BY <1>0, <1>1, <2>1, <2>3 DEF StepOf, HeapTypes, ReclaimTypes, Mine
  <2>5. Private(t)' = Private(t)
    BY <1>1, <1>2, <2>3 DEF Private
  <2>6. /\ DOMAIN Cut(t) = Nodes /\ Cut(t) = next
        /\ Batch(t) = NodesFrom(Cut(t), Null, batch[t]) /\ IsList(Cut(t), Null, batch[t])
    BY <1>0, <1>2 DEF HeapTypes, Cut, Batch, ListFrom, BatchOK
  <2>7. Cut(t)' = [next' EXCEPT ![n] = Null] /\ Batch(t)' = NodesFrom(Cut(t)', Null, batch[t])
    BY <1>1, <2>3 DEF Cut, Batch
  <2>8. DOMAIN Cut(t)' = Nodes /\ \A m \in Nodes : Cut(t)'[m] = Cut(t)[m]
    BY <1>0, <2>1, <2>2, <2>6, <2>7 DEF HeapTypes
  <2>9. /\ IsList(Cut(t)', Null, batch[t])
        /\ NodesFrom(Cut(t)', Null, batch[t]) = NodesFrom(Cut(t), Null, batch[t])
    BY <2>2, <2>6, <2>8, ListSame
  <2>10. Batch(t)' = Batch(t) /\ IsList(Cut(t), Null, batch[t])'
    BY <1>1, <2>6, <2>7, <2>9
  <2>11. BatchOK(t)'
    BY <1>0, <1>1, <1>2, <2>1, <2>3, <2>10 DEF BatchOK, Batched
  <2>12. Elsewhere(pc'[t]) /\ (pc'[t] \in Alone => pc[t] \in Alone) /\ pc'[t] # "delete_nodes"
    BY <1>2, <2>3 DEF Elsewhere, Holding, Looking, Pushing, Alone
  <2> QED
    BY <1>1, <2>4, <2>5, <2>10, <2>11, <2>12, RelinkCounted
<1>3. CASE pc[t] = "chain_node"
  <2>1. /\ node[t] # Null /\ last' = [last EXCEPT ![t] = node[t]]
        /\ next' = [next EXCEPT ![node[t]] = pending]
        /\ pc' = [pc EXCEPT ![t] = "chain_node_cas"]
    BY <1>3 DEF ChainLoad, First, Goto
  <2>2. node[t] \in Nodes /\ node[t] \in Mine(t)
    BY <1>0, <1>3, <2>1 DEF HeapTypes, Mine, Private
  <2>3. /\ HeapTypes' /\ ReclaimTypes' /\ pc'[t] = "chain_node_cas" /\ last'[t] = node[t]
        /\ node'[t] = node[t]
    BY <1>0, <1>1, <2>1, <2>2 DEF HeapTypes, ReclaimTypes, CountedLabels
  <2>4. StepOf(t)
    BY <1>0, <1>1, <2>1, <2>2, <2>3 DEF StepOf, HeapTypes, ReclaimTypes
  <2>5. Private(t)' = Private(t)
    BY <1>1, <1>3, <2>3 DEF Private
  <2>6. batch[t] = Null /\ batch'[t] = Null
    BY <1>0, <1>1, <1>3 DEF BatchOK, Batched
  <2>7. Batch(t) = {} /\ Batch(t)' = {} /\ IsList(Cut(t), Null, batch[t])'
    BY <2>3, <2>6, NoBatch, NoBatchNext
  <2>8. BatchOK(t)'
    BY <2>1, <2>3, <2>6, <2>7 DEF BatchOK
  <2>9. Elsewhere(pc'[t]) /\ pc'[t] \notin Alone /\ pc'[t] # "delete_nodes"
    BY <2>3 DEF Elsewhere, Holding, Looking, Pushing, Alone
  <2> QED
    BY <1>1, <2>3, <2>4, <2>5, <2>7, <2>8, <2>9, RelinkCounted
<1> QED
  BY <1>2, <1>3 DEF ChainLoad

\* A failed exchange on the pending list writes that link again.
LEMMA ChainRetryCounted ==
  ASSUME CountedInv, NEW t \in Threads, ChainCas(t), pending # next[last[t]]
  PROVE  CountedInv'
<1>0. StackInv /\ HeapTypes /\ ReclaimTypes /\ BatchOK(t)
  BY DEF CountedInv, StackInv
<1>1. /\ pc[t] \in {"chain_batch_cas", "chain_node_cas"}
      /\ next' = [next EXCEPT ![last[t]] = pending]
      /\ UNCHANGED <<allocated, data, head, node, seen, val, calls, pending, batch, last, pc>>
  BY DEF ChainCas
<1>2. last[t] \in Mine(t) /\ last[t] \in Nodes
  <2>1. CASE pc[t] = "chain_batch_cas"
    BY <1>0, <2>1, BatchNodes DEF BatchOK, Mine
  <2>2. CASE pc[t] = "chain_node_cas"
    BY <1>0, <2>2 DEF BatchOK, Mine, Private, HeapTypes
  <2> QED
    BY <1>1, <2>1, <2>2
<1>3. HeapTypes' /\ ReclaimTypes'
  BY <1>0, <1>1, <1>2 DEF HeapTypes, ReclaimTypes
<1>4. StepOf(t)
  BY <1>0, <1>1, <1>2, <1>3 DEF StepOf, HeapTypes
<1>5. Private(t)' = Private(t)
  BY <1>1 DEF Private
<1>6. Batch(t)' = Batch(t) /\ IsList(Cut(t), Null, batch[t])'
  <2>1. CASE pc[t] = "chain_batch_cas"
    <3>1. /\ Cut(t) = [next EXCEPT ![last[t]] = Null] /\ Cut(t)' = [next' EXCEPT ![last[t]] = Null]
          /\ Batch(t) = NodesFrom(Cut(t), Null, batch[t])
          /\ Batch(t)' = NodesFrom(Cut(t)', Null, batch[t])
      BY <1>1, <2>1 DEF Cut, Batch
    <3>2. DOMAIN Cut(t) = Nodes /\ DOMAIN Cut(t)' = Nodes /\ \A m \in Nodes : Cut(t)'[m] = Cut(t)[m]
      BY <1>0, <1>1, <3>1 DEF HeapTypes
    <3>3. IsList(Cut(t), Null, batch[t]) /\ Batch(t) \subseteq Nodes
      BY <1>0, BatchNodes DEF BatchOK
    <3>4. /\ IsList(Cut(t)', Null, batch[t])
          /\ NodesFrom(Cut(t)', Null, batch[t]) = NodesFrom(Cut(t), Null, batch[t])
      BY <3>1, <3>2, <3>3, ListSame
    <3> QED
      BY <1>1, <3>1, <3>4
  <2>2. CASE pc[t] = "chain_node_cas"
    <3>1. batch[t] = Null /\ batch'[t] = Null /\ pc'[t] # "chain_batch_cas"
      BY <1>0, <1>1, <2>2 DEF BatchOK, Batched
    <3> QED
      BY <1>3, <3>1, NoBatch, NoBatchNext
  <2> QED
    BY <1>1, <2>1, <2>2
<1>7. BatchOK(t)'
  BY <1>0, <1>1, <1>6 DEF BatchOK
<1>8. /\ Elsewhere(pc'[t]) /\ (pc'[t] \in Alone => pc[t] \in Alone) /\ pc'[t] # "delete_nodes"
      /\ node'[t] = node[t]
  BY <1>1 DEF Elsewhere, Holding, Looking, Pushing, Alone
<1> QED
  BY <1>1, <1>4, <1>5, <1>6, <1>7, <1>8, RelinkCounted

\* The exchange that puts a list before the pending list.
LEMMA ChainedCounted ==
  ASSUME CountedInv, NEW t \in Threads, ChainCas(t), pending = next[last[t]]
  PROVE  CountedInv'
<1>0. StackInv /\ HeapTypes /\ ReclaimTypes /\ BatchOK(t)
  BY DEF CountedInv, StackInv
<1>1. /\ UNCHANGED <<allocated, data, next, head, node, seen, val, calls>>
      /\ batch' = [batch EXCEPT ![t] = Null] /\ last' = [last EXCEPT ![t] = Null]
      /\ \/ /\ pc[t] = "chain_batch_cas" /\ pending' = batch[t]
            /\ pc' = [pc EXCEPT ![t] = "delete_head"]
         \/ /\ pc[t] = "chain_node_cas" /\ pending' = node[t]
            /\ pc' = [pc EXCEPT ![t] = "leave"]
  BY DEF ChainCas, First, Goto
<1>2. /\ HeapTypes' /\ ReclaimTypes' /\ batch'[t] = Null /\ node'[t] = node[t]
      /\ \/ pc[t] = "chain_batch_cas" /\ pending' = batch[t] /\ pc'[t] = "delete_head"
         \/ pc[t] = "chain_node_cas" /\ pending' = node[t] /\ pc'[t] = "leave"
  BY <1>0, <1>1 DEF HeapTypes, ReclaimTypes, CountedLabels
<1>3. StepOf(t)
  BY <1>0, <1>1, <1>2 DEF StepOf, HeapTypes, ReclaimTypes
<1>4. StackInv' /\ Chain' = Chain
  <2>1. Elsewhere(pc'[t])
    BY <1>2 DEF Elsewhere, Holding, Looking, Pushing
  <2> QED
    BY <1>1, <1>3, <2>1, ReclaimStack
<1>5. Batch(t)' = {} /\ IsList(Cut(t), Null, batch[t])'
  BY <1>2, NoBatchNext
<1>6. BatchOK(t)'
  BY <1>2, <1>5 DEF BatchOK
<1>7. /\ IsList(next, Null, pending) /\ NodesFrom(next, Null, pending) = Waiting
      /\ Waiting \subseteq Nodes
      /\ Waiting \cap Mine(t) = {} /\ Private(t) \cap Batch(t) = {} /\ Chain \cap Waiting = {}
      /\ Chain \cap Mine(t) = {}
  <2>1. IsList(next, Null, pending) /\ NodesFrom(next, Null, pending) = Waiting
    BY DEF CountedInv, Waiting, ListFrom
  <2>2. Waiting \subseteq Nodes
    BY <1>0, <2>1, ListNodes, Heap
  <2> QED
    BY <2>1, <2>2 DEF CountedInv, OwnersOK
<1>8. /\ IsList(next, Null, pending)'
      /\ \/ Waiting' = Waiting \cup Batch(t) /\ Private(t)' = Private(t)
         \/ Waiting' = Waiting \cup Private(t) /\ Private(t)' = {} /\ Batch(t) = {}
  <2>1. CASE pc[t] = "chain_batch_cas"
    <3>1. /\ Cut(t) = [next EXCEPT ![last[t]] = Null]
          /\ Batch(t) = NodesFrom(Cut(t), Null, batch[t]) /\ IsList(Cut(t), Null, batch[t])
          /\ last[t] \in Batch(t) /\ last[t] \in Nodes
      BY <1>0, <2>1, BatchNodes DEF Cut, Batch, BatchOK
    <3>2. DOMAIN Cut(t) = Nodes /\ DOMAIN next = Nodes /\ Cut(t)[last[t]] = Null
      BY <1>0, <3>1 DEF HeapTypes
    <3>3. \A m \in NodesFrom(next, Null, pending) : Cut(t)[m] = next[m]
      BY <1>0, <1>7, <3>1 DEF HeapTypes, Mine
    <3>4. IsList(Cut(t), Null, pending) /\ NodesFrom(Cut(t), Null, pending) = Waiting
      BY <1>7, <3>2, <3>3, ListSame
    <3>5. Relinked(Cut(t), next, last[t], pending)
      BY <1>0, <3>1, <3>2 DEF Relinked, HeapTypes
    <3>6. NodesFrom(Cut(t), Null, batch[t]) \cap NodesFrom(Cut(t), Null, pending) = {}
      BY <1>7, <3>1, <3>4 DEF Mine
    <3>7. last[t] \in NodesFrom(Cut(t), Null, batch[t])
      BY <3>1
    <3>8. Linked(Cut(t), Null, batch[t], last[t], pending, next)
      BY <3>1, <3>2, <3>4, <3>5, <3>6, <3>7 DEF Linked
    <3>9. /\ IsList(next, Null, batch[t])
          /\ NodesFrom(next, Null, batch[t]) =
                NodesFrom(Cut(t), Null, batch[t]) \cup NodesFrom(Cut(t), Null, pending)
      BY <3>8, ListJoin
    <3>10. next' = next /\ pending' = batch[t]
      BY <1>1, <1>2, <2>1
    <3>11. IsList(next, Null, pending)' /\ Waiting' = Waiting \cup Batch(t)
      BY <3>1, <3>4, <3>9, <3>10 DEF Waiting, ListFrom
    <3>12. Private(t)' = Private(t)
      BY <1>2, <2>1 DEF Private
    <3> QED
      BY <3>11, <3>12
  <2>2. CASE pc[t] = "chain_node_cas"
    <3>1. last[t] = node[t] /\ node[t] # Null /\ Private(t) = {node[t]} /\ node[t] \in Nodes
      BY <1>0, <2>2 DEF BatchOK, Private, HeapTypes
    <3>2. /\ node[t] \in DOMAIN next /\ IsList(next, Null, next[node[t]])
          /\ node[t] \notin NodesFrom(next, Null, next[node[t]])
      BY <1>0, <1>7, <3>1, Heap DEF Mine
    <3>3. /\ IsList(next, Null, node[t])
          /\ NodesFrom(next, Null, node[t]) = {node[t]} \cup NodesFrom(next, Null, next[node[t]])
      BY <3>2, ListCons
    <3>4. next' = next /\ pending' = node[t]
      BY <1>1, <1>2, <2>2
    <3>5. IsList(next, Null, pending)' /\ Waiting' = Waiting \cup Private(t)
      BY <1>7, <3>1, <3>3, <3>4 DEF Waiting, ListFrom
    <3>6. Private(t)' = {}
      BY <1>2, <2>2 DEF Private
    <3>7. Batch(t) = {}
      BY <1>0, <2>2, NoBatch DEF BatchOK, Batched
    <3> QED
      BY <3>5, <3>6, <3>7
  <2> QED
    BY <1>2, <2>1, <2>2
<1>9. OwnersOK'
  <2>1. \A m : m \in Around(t)' <=> m \in Around(t)
    BY <1>4, <1>5, <1>8 DEF Around, Mine
  <2>2. Apart(t)'
    BY <1>4, <1>5, <1>7, <1>8 DEF Apart, Mine
  <2>3. \A m : m \in Around(t) => m \in allocated
    BY DEF CountedInv, OwnersOK, Around
  <2> QED
    BY <1>1, <1>3, <2>1, <2>2, <2>3, OthersOwn, OwnersMove DEF CountedInv
<1>10. LooksFrom(t) /\ StaysAlone(t)
  BY <1>2 DEF LooksFrom, StaysAlone, Looking, Alone
<1> QED
  BY <1>3, <1>4, <1>6, <1>8, <1>9, <1>10, CountedParts
-------------------------------------------------------------------------------
(* p272: every step, and what follows. *)

\* The invariant holds at the start.
LEMMA CountedStart ==
  ASSUME CountedInit
  PROVE  CountedInv /\ CountOK
<1>1. StackInv
  BY SimpleInit DEF CountedInit
<1>2. /\ allocated = {} /\ next = [n \in Nodes |-> Null] /\ head = Null /\ pending = Null
      /\ calls = 0 /\ inPop = 0
      /\ \A t \in Threads : /\ pc[t] = "idle" /\ node[t] = Null /\ seen[t] = Null
                            /\ batch[t] = Null /\ last[t] = Null
  BY DEF CountedInit, Init
<1>3. ReclaimTypes
  BY TreiberStackAssumption DEF CountedInit, Init, ReclaimTypes, CountedLabels
<1>4. IsFiniteSet(DOMAIN next) /\ Null \notin DOMAIN next
  BY <1>1, Heap DEF StackInv
<1>5. IsList(next, Null, Null) /\ NodesFrom(next, Null, Null) = {}
  BY <1>4, ListNull
<1>6. \A t \in Threads : BatchOK(t) /\ Private(t) = {} /\ Batch(t) = {}
  BY <1>2, <1>5 DEF BatchOK, Batched, Cut, Private, Batch, ListFrom
<1>7. OwnersOK
  BY <1>2, <1>5, <1>6 DEF OwnersOK, Chain, Waiting, ListFrom, Mine
<1>8. Unseen
  BY <1>2 DEF Unseen
<1>9. CountOK
  <2>1. {t \in Threads : InPop(t)} = {}
    BY <1>2 DEF InPop
  <2> QED
    BY <1>2, <2>1, FS_EmptySet DEF CountOK
<1> QED
  BY <1>1, <1>2, <1>3, <1>5, <1>6, <1>7, <1>8, <1>9 DEF CountedInv

\* A step of p272 enters pop, leaves it or neither, and counts accordingly.
LEMMA CountStep ==
  ASSUME CountOK, pc \in [Threads -> CountedLabels], NEW t \in Threads,
         \/ Common(t) /\ UNCHANGED reclaimVars
         \/ EnterPop(t) \/ TakeData(t) \/ Reclaim(t)
  PROVE  CountOK'
<1>1. \A u \in Threads \ {t} : InPop(u)' <=> InPop(u)
  <2>1. \A u \in Threads \ {t} : pc'[u] = pc[u]
    BY DEF Common, PushStep, CallPush, PushLoad, PushCas, CallPop, PopLoad, PopNext, PopCas,
           PopCasSpurious, Return, EnterPop, TakeData, Reclaim, TestAlone, TakePending, LeaveAlone,
           DeleteNodes, DeleteHead, ChainLoad, Crash, ChainCas, Leave, Goto
  <2> QED
    BY <2>1 DEF InPop
<1>2. CASE Common(t) /\ UNCHANGED reclaimVars
  <2>1. (InPop(t)' <=> InPop(t)) /\ inPop' = inPop
    BY <1>2 DEF Common, PushStep, CallPush, PushLoad, PushCas, PopLoad, PopNext, PopCas,
                PopCasSpurious, Return, Goto, InPop, reclaimVars
  <2> QED
    BY <1>1, <2>1, CountSame
<1>3. CASE EnterPop(t)
  <2>1. ~InPop(t) /\ InPop(t)' /\ inPop' = inPop + 1
    BY <1>3 DEF EnterPop, CallPop, Goto, InPop
  <2> QED
    BY <1>1, <2>1, CountUp
<1>4. CASE TakeData(t)
  <2>1. (InPop(t)' <=> InPop(t)) /\ inPop' = inPop
    BY <1>4 DEF TakeData, Goto, InPop, reclaimVars
  <2> QED
    BY <1>1, <2>1, CountSame
<1>5. CASE LeaveAlone(t) \/ Leave(t)
  <2>1. InPop(t) /\ ~InPop(t)' /\ inPop' = inPop - 1
    BY <1>5 DEF LeaveAlone, Leave, Goto, InPop
  <2> QED
    BY <1>1, <2>1, CountDown
<1>6. CASE TestAlone(t) \/ TakePending(t) \/ DeleteNodes(t) \/ DeleteHead(t) \/ ChainLoad(t)
           \/ Crash(t) \/ ChainCas(t)
  <2>1. (InPop(t)' <=> InPop(t)) /\ inPop' = inPop
    BY <1>6 DEF TestAlone, TakePending, DeleteNodes, DeleteHead, ChainLoad, Crash, ChainCas, Goto,
                InPop, reclaimVars
  <2> QED
    BY <1>1, <2>1, CountSame
<1> QED
  BY <1>2, <1>3, <1>4, <1>5, <1>6 DEF Reclaim

\* Every step of p272 keeps its invariant.
LEMMA CountedStep ==
  ASSUME CountedInv, CountOK, CountedNext
  PROVE  CountedInv' /\ CountOK'
<1>1. PICK t \in Threads : \/ Common(t) /\ UNCHANGED reclaimVars
                           \/ EnterPop(t)
                           \/ TakeData(t)
                           \/ Reclaim(t)
  BY DEF CountedNext
<1>2. CountOK'
  BY <1>1, CountStep DEF CountedInv, ReclaimTypes
<1>3. CASE Common(t) /\ UNCHANGED reclaimVars
  BY <1>2, <1>3, PushCounted, PopCounted DEF Common
<1>4. CASE EnterPop(t)
  BY <1>2, <1>4, EnterCounted
<1>5. CASE TakeData(t)
  BY <1>2, <1>5, TakeDataCounted
<1>6. CASE Reclaim(t)
  <2>1. CASE TestAlone(t) \/ LeaveAlone(t) \/ Leave(t) \/ Crash(t)
    BY <1>2, <2>1, TestCounted
  <2>2. CASE TakePending(t)
    BY <1>2, <2>2, TakePendingCounted
  <2>3. CASE DeleteNodes(t) \/ DeleteHead(t)
    BY <1>2, <2>3, DeleteCounted
  <2>4. CASE ChainLoad(t)
    BY <1>2, <2>4, ChainLoadCounted
  <2>5. CASE ChainCas(t)
    BY <1>2, <2>5, ChainRetryCounted, ChainedCounted
  <2> QED
    BY <1>6, <2>1, <2>2, <2>3, <2>4, <2>5 DEF Reclaim
<1> QED
  BY <1>1, <1>3, <1>4, <1>5, <1>6

\* The invariant gives the types.
LEMMA CountedTypes ==
  ASSUME CountedInv, CountOK
  PROVE  CountedTypeOK
  BY DEF CountedInv, StackInv, HeapTypes, ReclaimTypes, CountOK, CountedTypeOK

\* What a thread writes to is its own, and what it reads too, but for the head that
\* it is about to take.
LEMMA WritesOwn ==
  ASSUME CountedInv, NEW t \in Threads, NEW x \in Writes(t)
  PROVE  /\ x[1] \in Mine(t)
         /\ x[2] = "next" \/ pc[t] \in {"pop_data", "delete_head", "delete_nodes"}
         /\ \/ pc[t] \in Pushing /\ x[1] = node[t]
            \/ pc[t] = "pop_data" /\ x[2] = "data"
            \/ pc[t] \in Chaining
            \/ pc[t] = "delete_head" /\ x[1] = node[t]
            \/ pc[t] = "delete_nodes" /\ x[1] \in Batch(t)
<1>0. BatchOK(t) /\ StackInv
  BY DEF CountedInv
<1>1. CASE pc[t] \in Pushing
  <2>1. x = <<node[t], "next">> /\ node[t] # Null
    BY <1>0, <1>1 DEF Writes, Pushing, StackInv, HoldsOK
  <2> QED
    BY <1>1, <2>1 DEF Mine, Private, Pushing
<1>2. CASE pc[t] = "pop_data"
  <2>1. x = <<node[t], "data">> /\ node[t] # Null
    BY <1>0, <1>2 DEF Writes, StackInv, HoldsOK
  <2> QED
    BY <1>2, <2>1 DEF Mine, Private
<1>3. CASE pc[t] = "chain_node"
  <2>1. x = <<node[t], "next">> /\ node[t] # Null
    BY <1>3 DEF Writes
  <2> QED
    BY <1>3, <2>1 DEF Mine, Private, Chaining
<1>4. CASE pc[t] = "chain_batch"
  <2>1. x[1] \in ListFrom(batch[t]) /\ x[2] = "next"
    BY <1>4 DEF Writes
  <2> QED
    BY <1>4, <2>1 DEF Mine, Batch, Chaining
<1>5. CASE pc[t] \in {"chain_batch_cas", "chain_node_cas"}
  <2>1. x = <<last[t], "next">>
    BY <1>5 DEF Writes
  <2>2. last[t] \in Mine(t)
    BY <1>0, <1>5 DEF BatchOK, Mine, Private
  <2> QED
    BY <1>5, <2>1, <2>2 DEF Chaining
<1>6. CASE pc[t] = "delete_nodes"
  <2>1. x[1] \in ListFrom(batch[t])
    BY <1>6 DEF Writes
  <2> QED
    BY <1>6, <2>1 DEF Mine, Batch
<1>7. CASE pc[t] = "delete_head"
  <2>1. x[1] = node[t] /\ node[t] # Null
    BY <1>7 DEF Writes
  <2> QED
    BY <1>7, <2>1 DEF Mine, Private
<1>8. pc[t] \in Pushing \cup {"pop_data", "chain_node", "chain_batch", "chain_batch_cas",
                              "chain_node_cas", "delete_nodes", "delete_head"}
  BY DEF Writes, Pushing
<1> QED
  BY <1>1, <1>2, <1>3, <1>4, <1>5, <1>6, <1>7, <1>8

\* What a thread reads is its own, or the node it loaded the head for.
LEMMA ReadsOwn ==
  ASSUME CountedInv, NEW t \in Threads, NEW x \in Reads(t)
  PROVE  \/ x[1] \in Mine(t)
         \/ pc[t] = "pop_next" /\ node[t] # Null /\ x[1] = node[t] /\ x[2] = "next"
<1>1. \/ pc[t] = "pop_next" /\ node[t] # Null /\ x[1] = node[t] /\ x[2] = "next"
      \/ pc[t] = "pop_data" /\ x[1] = node[t]
      \/ pc[t] \in {"chain_batch", "delete_nodes"} /\ x[1] \in ListFrom(batch[t])
  BY DEF Reads
<1>2. pc[t] = "pop_data" => node[t] # Null
  BY DEF CountedInv, StackInv, HoldsOK
<1> QED
  BY <1>1, <1>2 DEF Mine, Private, Batch

\* p272 uses no node that was freed.
LEMMA CountedUse ==
  ASSUME CountedInv
  PROVE  NoUseAfterFree
<1> SUFFICES ASSUME NEW t \in Threads, NEW x \in Reads(t) \cup Writes(t)
             PROVE  x[1] \in allocated
  BY DEF NoUseAfterFree
<1>1. x[1] \in Mine(t) => x[1] \in allocated
  BY DEF CountedInv, OwnersOK
<1>2. pc[t] = "pop_next" /\ node[t] # Null => node[t] \in allocated
  BY DEF CountedInv, StackInv, LooksOK, Looking
<1> QED
  BY <1>1, <1>2, WritesOwn, ReadsOwn

\* p272 races only on links of nodes that have left the stack.
LEMMA CountedRaces ==
  ASSUME CountedInv
  PROVE  LinkRacesOnly
<1> SUFFICES ASSUME NEW t \in Threads, NEW u \in Threads, t # u,
                    NEW x \in Writes(t) \cap (Reads(u) \cup Writes(u))
             PROVE  /\ x[2] = "next" /\ x[1] \notin Chain
                    /\ pc[t] \in Chaining /\ pc[u] = "pop_next"
  BY DEF LinkRacesOnly
<1>1. x[1] \in Mine(t) /\ x[1] \notin Chain /\ x[1] \notin Mine(u)
  BY WritesOwn DEF CountedInv, OwnersOK
<1>2. pc[u] = "pop_next" /\ node[u] # Null /\ x[1] = node[u] /\ x[2] = "next"
  BY <1>1, WritesOwn, ReadsOwn
<1>3. ~(pc[t] \in Pushing /\ x[1] = node[t])
  BY <1>2 DEF CountedInv, StackInv, LooksOK, Looking
<1>4. /\ ~(pc[t] = "delete_head" /\ x[1] = node[t])
      /\ ~(pc[t] = "delete_nodes" /\ x[1] \in Batch(t))
  BY <1>2 DEF CountedInv, Unseen, Alone, Looking
<1> QED
  BY <1>1, <1>2, <1>3, <1>4, WritesOwn

\* p270 has no such race: it never writes to a node that has left the stack.
LEMMA SimpleRaces ==
  ASSUME SimpleInv
  PROVE  LinkRacesOnly
<1> SUFFICES ASSUME NEW t \in Threads, NEW u \in Threads, t # u,
                    NEW x \in Writes(t) \cap (Reads(u) \cup Writes(u))
             PROVE  FALSE
  BY DEF LinkRacesOnly
<1>1. /\ \/ pc[t] \in Pushing /\ x = <<node[t], "next">>
         \/ pc[t] = "pop_data" /\ x = <<node[t], "data">>
      /\ \/ pc[u] \in Pushing /\ x = <<node[u], "next">>
         \/ pc[u] = "pop_data" /\ x = <<node[u], "data">>
         \/ pc[u] = "pop_next" /\ node[u] # Null /\ x = <<node[u], "next">>
  BY DEF SimpleInv, SimpleLabels, Reads, Writes, Pushing
<1>2. node[t] = node[u] /\ node[t] \in Nodes /\ node[t] # Null
  BY <1>1 DEF SimpleInv, StackInv, HoldsOK, HeapTypes
<1>3. Holds(t, node[t])
  BY <1>1, <1>2 DEF Holds, Holding
<1>4. CASE pc[u] \in Holding
  BY <1>2, <1>3, <1>4 DEF SimpleInv, StackInv, HoldsOK, Holds
<1>5. CASE pc[u] = "pop_next"
  BY <1>1, <1>2, <1>5 DEF SimpleInv, StackInv, LooksOK, Looking, Pushing
<1> QED
  BY <1>1, <1>4, <1>5 DEF Holding
-------------------------------------------------------------------------------
(* p281: the invariant. *)

HazardLabels == {"idle", "push_load", "push_cas", "acquire", "pop_load", "set_hazard", "reload",
                 "pop_next", "pop_cas", "clear_hazard", "pop_data", "scan_own", "defer_own",
                 "delete_own", "take_list", "scan_taken", "defer_taken", "delete_taken", "return"}

\* Where a thread uses its slot of the table, where it goes through the list it took,
\* where it holds the node it popped, and where it looks through the table for a node.
SlotUsers == {"pop_load", "set_hazard", "reload", "pop_next", "pop_cas", "clear_hazard"}
Sweeping  == {"scan_taken", "defer_taken", "delete_taken"}
OwnScan   == {"scan_own", "delete_own"}
Scanning  == OwnScan \cup {"scan_taken", "delete_taken"}

HazardTypes == /\ pc \in [Threads -> HazardLabels]
               /\ calls \in 0 .. (MaxCalls - 1)
               /\ hazard \in [1 .. Slots -> Nodes \cup {Null}]
               /\ index \in [Threads -> 1 .. (Slots + 1)]
               /\ slot \in [Threads -> 0 .. Slots]
               /\ DOMAIN slotOwner = 1 .. Slots
               /\ reclaim \in Seq(Nodes)
               /\ taken \in [Threads -> Seq(Nodes)]

\* A slot has the owner that keeps it, and names the node that owner looks into.
TableOK == /\ \A t \in Threads, i \in 1 .. Slots : slotOwner[i] = t <=> slot[t] = i
           /\ \A t \in Threads : /\ pc[t] = "acquire" => slot[t] = 0
                                 /\ pc[t] \in SlotUsers => slot[t] # 0
                                 /\ pc[t] \in Looking => hazard[slot[t]] = node[t]

Distinct(s) == \A i, j \in DOMAIN s : i # j => s[i] # s[j]

\* The lists of waiting nodes name none twice.
ListsOK == /\ Distinct(reclaim)
           /\ \A t \in Threads : /\ Distinct(taken[t])
                                 /\ taken[t] # <<>> <=> pc[t] \in Sweeping
                                 /\ pc[t] \in OwnScan \cup {"defer_own"} => node[t] # Null

\* Who owns a node: the stack, the list of nodes to reclaim or one thread.
Reclaimable == H!SeqRange(reclaim)
Swept(t) == H!SeqRange(taken[t])
Kin(t) == H!Private(t) \cup Swept(t)

HazardOwners == /\ \A n : n \in allocated <=> \/ n \in Chain \/ n \in Reclaimable
                                              \/ \E t \in Threads : n \in Kin(t)
                /\ Chain \cap Reclaimable = {}
                /\ \A t \in Threads : Kin(t) \cap (Chain \cup Reclaimable) = {}
                /\ \A t, u \in Threads : t # u => Kin(t) \cap Kin(u) = {}

\* A thread that looks into the node another one wants to free has a slot that is
\* still to be looked at.
Target(t) == IF pc[t] \in OwnScan THEN node[t] ELSE Head(taken[t])
ScanOK == \A t, u \in Threads :
    pc[t] \in Scanning /\ pc[u] \in Looking /\ node[u] = Target(t) =>
        pc[t] \in {"scan_own", "scan_taken"} /\ index[t] <= slot[u]

HazardInv == StackInv /\ HazardTypes /\ TableOK /\ ListsOK /\ HazardOwners /\ ScanOK
-------------------------------------------------------------------------------
(* The lists of p281 are sequences. *)

\* The empty list names no node.
LEMMA NilNodes == Distinct(<<>>) /\ H!SeqRange(<<>>) = {}
  BY DEF Distinct, H!SeqRange

\* A node put in front of a list that does not name it.
LEMMA ConsNodes ==
  ASSUME NEW S, NEW s \in Seq(S), NEW x \in S
  PROVE  /\ <<x>> \o s \in Seq(S)
         /\ H!SeqRange(<<x>> \o s) = {x} \cup H!SeqRange(s)
         /\ Distinct(s) /\ x \notin H!SeqRange(s) => Distinct(<<x>> \o s)
<1> DEFINE r == <<x>> \o s
<1>1. r \in Seq(S) /\ Len(r) = Len(s) + 1 /\ DOMAIN r = 1 .. Len(s) + 1 /\ DOMAIN s = 1 .. Len(s)
  OBVIOUS
<1>2. r[1] = x /\ \A i \in 1 .. Len(s) : r[i + 1] = s[i]
  OBVIOUS
<1>3. \A i \in DOMAIN r : i = 1 \/ (i - 1 \in DOMAIN s /\ r[i] = s[i - 1])
  BY <1>1, <1>2
<1> HIDE DEF r
<1>4. H!SeqRange(r) = {x} \cup H!SeqRange(s)
  <2>1. \A n \in H!SeqRange(r) : n = x \/ n \in H!SeqRange(s)
    BY <1>2, <1>3 DEF H!SeqRange
  <2>2. 1 \in DOMAIN r /\ \A i \in DOMAIN s : i + 1 \in DOMAIN r /\ r[i + 1] = s[i]
    BY <1>1, <1>2
  <2>3. \A n : n = x \/ n \in H!SeqRange(s) => n \in H!SeqRange(r)
    BY <1>2, <2>2 DEF H!SeqRange
  <2> QED
    BY <2>1, <2>3
<1>5. ASSUME Distinct(s), x \notin H!SeqRange(s) PROVE Distinct(r)
  <2> SUFFICES ASSUME NEW i \in DOMAIN r, NEW j \in DOMAIN r, i # j PROVE r[i] # r[j]
    BY DEF Distinct
  <2>1. \A k \in DOMAIN s : s[k] # x
    BY <1>5 DEF H!SeqRange
  <2>2. CASE i = 1 \/ j = 1
    BY <1>2, <1>3, <2>1, <2>2
  <2>3. CASE i # 1 /\ j # 1
    <3>1. i - 1 \in DOMAIN s /\ j - 1 \in DOMAIN s /\ r[i] = s[i - 1] /\ r[j] = s[j - 1]
      BY <1>3, <2>3
    <3>2. i - 1 # j - 1
      BY <1>1
    <3> QED
      BY <1>5, <3>1, <3>2 DEF Distinct
  <2> QED
    BY <2>2, <2>3
<1> QED
  BY <1>1, <1>4, <1>5 DEF r

\* The rest of a list.
LEMMA RestNodes ==
  ASSUME NEW S, NEW s \in Seq(S), s # <<>>
  PROVE  /\ Head(s) \in S /\ Head(s) \in H!SeqRange(s) /\ Tail(s) \in Seq(S)
         /\ Tail(s) = <<>> <=> Len(s) = 1
         /\ H!SeqRange(s) = {Head(s)} \cup H!SeqRange(Tail(s))
         /\ Distinct(s) => Distinct(Tail(s)) /\ Head(s) \notin H!SeqRange(Tail(s))
<1> DEFINE r == Tail(s)
<1>1. /\ r \in Seq(S) /\ Len(r) = Len(s) - 1 /\ Len(s) \in Nat /\ Len(s) # 0
      /\ DOMAIN s = 1 .. Len(s) /\ DOMAIN r = 1 .. Len(s) - 1
  OBVIOUS
<1>2. Head(s) = s[1] /\ \A i \in DOMAIN r : r[i] = s[i + 1]
  OBVIOUS
<1>3. 1 \in DOMAIN s /\ \A i \in DOMAIN r : i + 1 \in DOMAIN s /\ i + 1 # 1
  BY <1>1
<1>4. \A i \in DOMAIN s : i = 1 \/ (i - 1 \in DOMAIN r /\ r[i - 1] = s[i])
  BY <1>1, <1>2
<1>5. Head(s) \in S
  BY <1>2, <1>3
<1> HIDE DEF r
<1>6. r = <<>> <=> Len(s) = 1
  <2>1. r = <<>> <=> Len(r) = 0
    BY <1>1
  <2> QED
    BY <1>1, <2>1
<1>7. H!SeqRange(s) = {s[1]} \cup H!SeqRange(r)
  <2>1. \A n \in H!SeqRange(s) : n = s[1] \/ n \in H!SeqRange(r)
    BY <1>4 DEF H!SeqRange
  <2>2. \A n : n = s[1] \/ n \in H!SeqRange(r) => n \in H!SeqRange(s)
    BY <1>2, <1>3 DEF H!SeqRange
  <2> QED
    BY <2>1, <2>2
<1>8. ASSUME Distinct(s) PROVE Distinct(r) /\ s[1] \notin H!SeqRange(r)
  <2>1. \A i, j \in DOMAIN r : i # j => i + 1 # j + 1
    BY <1>1
  <2>2. Distinct(r)
    BY <1>2, <1>3, <1>8, <2>1 DEF Distinct
  <2>3. \A i \in DOMAIN r : r[i] # s[1]
    BY <1>2, <1>3, <1>8 DEF Distinct
  <2> QED
    BY <2>2, <2>3 DEF H!SeqRange
<1> QED
  BY <1>1, <1>2, <1>5, <1>6, <1>7, <1>8 DEF r
-------------------------------------------------------------------------------
(* p281: what a step of one thread leaves to the others. *)

\* The stack of the instance is the stack of this module.
LEMMA SameCardinality == ASSUME NEW S PROVE H!Cardinality(S) = Cardinality(S)
  BY DEF H!Cardinality, Cardinality

\* Paths, nodes and so the stack are the same in the instance.
LEMMA SamePath == ASSUME NEW nx, NEW nl, NEW n PROVE H!Path(nx, nl, n) = Path(nx, nl, n)
  BY SameCardinality DEF H!Path, Path

\* The nodes of a list in the instance.
LEMMA SameNodes == ASSUME NEW nx, NEW nl, NEW n PROVE H!NodesFrom(nx, nl, n) = NodesFrom(nx, nl, n)
  BY SamePath DEF H!NodesFrom, NodesFrom

\* The stack of the instance.
LEMMA SameChain == H!Chain = Chain
  BY SameNodes DEF H!Chain, Chain

\* The owners of the invariant are those of the property.
LEMMA HazardOwnersAre ==
  ASSUME HazardOwners
  PROVE  H!NodesHaveOneOwner
<1> DEFINE o == [t \in Threads |-> H!Private(t) \cup H!SeqRange(taken[t])]
<1>1. \A t \in Threads : o[t] = Kin(t)
  BY DEF Kin, Swept
<1>2. \A n : n \in UNION {o[t] : t \in Threads} <=> \E t \in Threads : n \in Kin(t)
  BY <1>1
<1> HIDE DEF o
<1>3. allocated = Chain \cup H!SeqRange(reclaim) \cup UNION {o[t] : t \in Threads}
  BY <1>2 DEF HazardOwners, Reclaimable
<1>4. /\ Chain \cap H!SeqRange(reclaim) = {}
      /\ \A t \in Threads : o[t] \cap (Chain \cup H!SeqRange(reclaim)) = {}
      /\ \A t, u \in Threads : t # u => o[t] \cap o[u] = {}
  BY <1>1 DEF HazardOwners, Reclaimable
<1> QED
  BY <1>3, <1>4, SameChain DEF H!NodesHaveOneOwner, o

Reach(t) == Chain \cup Reclaimable \cup Kin(t)
Sorted(t) == Chain \cap Reclaimable = {} /\ Kin(t) \cap (Chain \cup Reclaimable) = {}

\* When a thread takes nodes from one of its places to another, allocates free ones
\* or frees its own, every node has one owner still.
LEMMA HazardMove ==
  ASSUME HazardOwners, NEW t \in Threads, \A u \in Threads \ {t} : Kin(u)' = Kin(u), Sorted(t)',
         \A n : n \in Reach(t)' => n \in Reach(t) \/ n \notin allocated,
         \A n : n \in allocated' <=> n \in Reach(t)' \/ (n \in allocated /\ n \notin Reach(t))
  PROVE  HazardOwners'
<1>1. \A u \in Threads \ {t} : \A n : n \in Kin(u) => n \in allocated /\ n \notin Reach(t)
  BY DEF HazardOwners, Reach
<1>2. \A u \in Threads \ {t} : \A n : n \in Kin(u)' => n \notin Reach(t)'
  BY <1>1
<1>3. \A n : n \in allocated' <=> n \in Chain' \/ n \in Reclaimable' \/ \E u \in Threads : n \in Kin(u)'
  <2> TAKE n
  <2>1. n \in Reach(t)' <=> n \in Chain' \/ n \in Reclaimable' \/ n \in Kin(t)'
    BY DEF Reach
  <2>2. (\E u \in Threads : n \in Kin(u)') <=> n \in Kin(t)' \/ \E u \in Threads \ {t} : n \in Kin(u)
    OBVIOUS
  <2>3. n \in allocated /\ n \notin Reach(t) <=> \E u \in Threads \ {t} : n \in Kin(u)
    <3>1. ASSUME n \in allocated, n \notin Reach(t) PROVE \E u \in Threads \ {t} : n \in Kin(u)
      BY <3>1 DEF HazardOwners, Reach
    <3> QED
      BY <3>1, <1>1
  <2> QED
    BY <2>1, <2>2, <2>3
<1>4. Chain' \cap Reclaimable' = {} /\ Kin(t)' \cap (Chain' \cup Reclaimable') = {}
  BY DEF Sorted
<1>5. \A u \in Threads : Kin(u)' \cap (Chain' \cup Reclaimable') = {}
  <2>1. \A u \in Threads \ {t} : Kin(u)' \cap (Chain' \cup Reclaimable') = {}
    BY <1>2 DEF Reach
  <2> QED
    BY <1>4, <2>1
<1>6. \A u, w \in Threads : u # w => Kin(u)' \cap Kin(w)' = {}
  <2>1. \A u \in Threads \ {t} : Kin(u)' \cap Kin(t)' = {}
    BY <1>2 DEF Reach
  <2>2. \A u, w \in Threads \ {t} : u # w => Kin(u)' \cap Kin(w)' = {}
    BY DEF HazardOwners
  <2> QED
    BY <2>1, <2>2
<1> QED
  BY <1>3, <1>4, <1>5, <1>6 DEF HazardOwners

\* A step of t changes the variables of t.
ThreadStep(t) ==
    /\ HeapTypes' /\ HazardTypes'
    /\ \A u \in Threads \ {t} :
          /\ pc'[u] = pc[u] /\ node'[u] = node[u] /\ seen'[u] = seen[u]
          /\ slot'[u] = slot[u] /\ index'[u] = index[u] /\ taken'[u] = taken[u]

\* The nodes of the others stay theirs.
LEMMA OthersKin ==
  ASSUME NEW t \in Threads, ThreadStep(t), NEW u \in Threads \ {t}
  PROVE  Kin(u)' = Kin(u) /\ Target(u)' = Target(u)
  BY DEF ThreadStep, Kin, Swept, H!Private, H!SeqRange, Target

\* The node a thread looks for in the table is its own.
LEMMA TargetOwned ==
  ASSUME HazardInv, NEW t \in Threads, pc[t] \in Scanning
  PROVE  Target(t) \in Kin(t) /\ Target(t) \in Nodes
<1>1. CASE pc[t] \in OwnScan
  <2>1. node[t] # Null /\ node[t] \in Nodes
    BY <1>1 DEF HazardInv, ListsOK, StackInv, HeapTypes
  <2> QED
    BY <1>1, <2>1 DEF Target, Kin, H!Private, OwnScan
<1>2. CASE pc[t] \notin OwnScan
  <2>1. taken[t] # <<>> /\ taken[t] \in Seq(Nodes)
    BY <1>2 DEF HazardInv, ListsOK, HazardTypes, Scanning, Sweeping
  <2>2. Head(taken[t]) \in Nodes /\ Head(taken[t]) \in H!SeqRange(taken[t])
    BY <2>1, RestNodes
  <2> QED
    BY <1>2, <2>2 DEF Target, Kin, Swept
<1> QED
  BY <1>1, <1>2

\* A scan passes over no slot of a thread that looks into the node.
ScansFrom(t) ==
    /\ slot'[t] = slot[t] \/ pc'[t] \notin Looking
    /\ pc'[t] \in Scanning => \A u \in Threads \ {t} :
          pc[u] \in Looking /\ node[u] = Target(t)' =>
              pc'[t] \in {"scan_own", "scan_taken"} /\ index'[t] <= slot[u]

\* Such a step keeps ScanOK.
LEMMA ScanStep ==
  ASSUME HazardInv, NEW t \in Threads, ThreadStep(t), LooksFrom(t), ScansFrom(t)
  PROVE  ScanOK'
<1> SUFFICES ASSUME NEW w \in Threads, NEW u \in Threads,
                    pc'[w] \in Scanning, pc'[u] \in Looking, node'[u] = Target(w)'
             PROVE  pc'[w] \in {"scan_own", "scan_taken"} /\ index'[w] <= slot'[u]
  BY DEF ScanOK
<1>1. u # w
  BY DEF Scanning, OwnScan, Looking
<1>2. CASE w = t
  <2>1. pc'[u] = pc[u] /\ node'[u] = node[u] /\ slot'[u] = slot[u] /\ u \in Threads \ {t}
    BY <1>1, <1>2 DEF ThreadStep
  <2> QED
    BY <1>2, <2>1 DEF ScansFrom
<1>3. CASE w # t
  <2>1. /\ pc'[w] = pc[w] /\ index'[w] = index[w] /\ Target(w)' = Target(w)
        /\ pc[w] \in Scanning
    BY <1>3, OthersKin DEF ThreadStep
  <2>2. Target(w) \in Kin(w) /\ Target(w) \in Nodes
    BY <2>1, TargetOwned
  <2>3. CASE pc[u] \in Looking /\ node'[u] = node[u] /\ slot'[u] = slot[u]
    BY <2>1, <2>3 DEF HazardInv, ScanOK
  <2>4. CASE node'[u] = head
    <3>1. head \in Chain
      BY <2>1, <2>2, <2>4, HeadOnStack, TreiberStackAssumption DEF HazardInv, StackInv
    <3> QED
      BY <2>1, <2>2, <2>4, <3>1 DEF HazardInv, HazardOwners
  <2>5. u # t => pc[u] \in Looking /\ node'[u] = node[u] /\ slot'[u] = slot[u]
    BY DEF ThreadStep
  <2>6. node'[u] # Null
    BY <2>1, <2>2, TreiberStackAssumption
  <2> QED
    BY <2>3, <2>4, <2>5, <2>6 DEF LooksFrom, ScansFrom
<1> QED
  BY <1>2, <1>3

\* The lists of t after its step.
ListsOf(t) == /\ Distinct(taken[t])
              /\ taken[t] # <<>> <=> pc[t] \in Sweeping
              /\ pc[t] \in OwnScan \cup {"defer_own"} => node[t] # Null

\* The parts of the invariant that a step of t has to establish.
LEMMA HazardParts ==
  ASSUME HazardInv, NEW t \in Threads, ThreadStep(t), StackInv', TableOK', Distinct(reclaim)',
         ListsOf(t)', HazardOwners', LooksFrom(t), ScansFrom(t)
  PROVE  HazardInv'
<1>1. \A u \in Threads : ListsOf(u)'
  <2>1. \A u \in Threads \ {t} : ListsOf(u)'
    BY DEF HazardInv, ListsOK, ThreadStep, ListsOf, Distinct
  <2> QED
    BY <2>1
<1>2. ListsOK'
  BY <1>1 DEF ListsOK, ListsOf
<1>3. ScanOK'
  BY ScanStep
<1> QED
  BY <1>2, <1>3 DEF HazardInv, ThreadStep

\* The steps that move no node.
NodesKept == UNCHANGED <<allocated, next, head, reclaim, taken>>

\* They keep the invariant when the table and the scans are in order.
LEMMA NodesKeptInv ==
  ASSUME HazardInv, NEW t \in Threads, ThreadStep(t), NodesKept, StackInv', TableOK',
         H!Private(t)' = H!Private(t), pc'[t] \in Sweeping <=> pc[t] \in Sweeping,
         pc'[t] \in OwnScan \cup {"defer_own"} => node'[t] # Null, LooksFrom(t), ScansFrom(t)
  PROVE  HazardInv'
<1>1. ListsOf(t)' /\ Distinct(reclaim)'
  BY DEF HazardInv, ListsOK, ListsOf, NodesKept, Distinct
<1>2. Chain' = Chain /\ Reclaimable' = Reclaimable /\ Swept(t)' = Swept(t)
  BY DEF NodesKept, Chain, Reclaimable, Swept, H!SeqRange
<1>3. \A u \in Threads : Kin(u)' = Kin(u)
  BY <1>2, OthersKin DEF Kin
<1>4. HazardOwners'
  BY <1>2, <1>3 DEF HazardInv, HazardOwners, NodesKept
<1> QED
  BY <1>1, <1>4, HazardParts

\* A step of a thread that neither holds a node nor looks into one afterwards.
LEMMA KinStep ==
  ASSUME HazardInv, NEW t \in Threads, ThreadStep(t), next' = next, head' = head, Elsewhere(pc'[t]),
         \A n \in allocated : n \notin Kin(t) => n \in allocated' /\ data'[n] = data[n],
         \A u \in Threads \ {t} : pc[u] \in Looking /\ node[u] # Null => node[u] \in allocated'
  PROVE  StackInv' /\ Chain' = Chain
<1>1. \A n \in Chain : n \in allocated /\ n \notin Kin(t)
  BY DEF HazardInv, HazardOwners
<1>2. StackKept
  BY <1>1 DEF StackKept
<1>3. Kept(t)
  BY DEF Kept, Elsewhere, Holding, Looking
<1>4. ASSUME NEW u \in Threads \ {t} PROVE Kept(u)
  <2>1. pc'[u] = pc[u] /\ node'[u] = node[u] /\ seen'[u] = seen[u]
    BY DEF ThreadStep
  <2>2. pc[u] \in Holding /\ node[u] # Null => node[u] \in allocated' /\ data'[node[u]] = data[node[u]]
    <3>1. pc[u] \in Holding /\ node[u] # Null => node[u] \in Kin(u)
      BY DEF H!Private, Holding, Pushing, Kin
    <3>2. node[u] \in Kin(u) => node[u] \in allocated /\ node[u] \notin Kin(t)
      BY DEF HazardInv, HazardOwners
    <3> QED
      BY <3>1, <3>2
  <2>3. pc[u] \in Holding \cup Looking /\ node[u] # Null => node[u] \in allocated'
    BY <2>2
  <2>4. pc[u] \in Pushing => data'[node[u]] = data[node[u]]
    BY <2>2 DEF HazardInv, StackInv, HoldsOK, Holding
  <2> QED
    BY <2>1, <2>3, <2>4, OthersKept DEF HazardInv
<1> QED
  BY <1>2, <1>3, <1>4, QuietStep DEF HazardInv, ThreadStep

\* The table is as it was, and t uses it as it did or has a slot.
LEMMA TableKept ==
  ASSUME TableOK, NEW t \in Threads, ThreadStep(t), UNCHANGED <<slotOwner, hazard, slot>>,
         pc'[t] = "acquire" => slot[t] = 0, pc'[t] \in SlotUsers => slot[t] # 0,
         pc'[t] \in Looking => hazard[slot[t]] = node'[t]
  PROVE  TableOK'
<1>1. \A u \in Threads \ {t} : pc'[u] = pc[u] /\ node'[u] = node[u]
  BY DEF ThreadStep
<1> QED
  BY <1>1 DEF TableOK

\* A list that is not touched.
LEMMA ListsKept ==
  ASSUME HazardInv, NEW t \in Threads, UNCHANGED <<reclaim, taken>>,
         pc'[t] \in Sweeping <=> pc[t] \in Sweeping,
         pc'[t] \in OwnScan \cup {"defer_own"} => node'[t] # Null
  PROVE  Distinct(reclaim)' /\ ListsOf(t)' /\ Reclaimable' = Reclaimable /\ Swept(t)' = Swept(t)
<1>1. Distinct(reclaim) /\ ListsOK
  BY DEF HazardInv, ListsOK
<1>2. ListsOf(t)' /\ Distinct(reclaim)'
  BY <1>1 DEF ListsOK, ListsOf, Distinct
<1> QED
  BY <1>2 DEF Reclaimable, Swept, H!SeqRange
-------------------------------------------------------------------------------
(* p281: push, and the exchange in pop. *)

\* push gets a new node; p281 makes a call less.
LEMMA CallPushHazard ==
  ASSUME HazardInv, NEW t \in Threads, NEW v \in Values, H!CallPush(t, v), UNCHANGED hazardVars
  PROVE  HazardInv' /\ CallPush(t, v)
<1>1. PICK n \in Nodes \ allocated : /\ allocated' = allocated \cup {n}
                                     /\ data' = [data EXCEPT ![n] = v]
                                     /\ node' = [node EXCEPT ![t] = n]
  BY DEF H!CallPush
<1>2. /\ pc[t] = "idle" /\ pc' = [pc EXCEPT ![t] = "push_load"]
      /\ calls < MaxCalls - 1 /\ calls' = calls + 1
      /\ UNCHANGED <<next, head, seen, val, slotOwner, hazard, slot, index, reclaim, taken>>
  BY DEF H!CallPush, H!Goto, hazardVars
<1>3. calls < MaxCalls /\ calls' \in 0 .. (MaxCalls - 1)
  BY <1>2, TreiberStackAssumption DEF HazardInv, HazardTypes
<1>4. CallPush(t, v)
  BY <1>3 DEF H!CallPush, CallPush, H!Goto, Goto
<1>5. StackInv' /\ Chain' = Chain
  BY <1>4, CallPushInv DEF HazardInv
<1>6. ThreadStep(t) /\ pc'[t] = "push_load" /\ node'[t] = n
  <2>1. HeapTypes' /\ HazardTypes'
    BY <1>2, <1>3, <1>5 DEF HazardInv, HazardTypes, HazardLabels, StackInv
  <2> QED
    BY <1>1, <1>2, <2>1 DEF ThreadStep, HazardInv, StackInv, HeapTypes
<1>7. TableOK'
  BY <1>2, <1>6, TableKept DEF HazardInv, SlotUsers, Looking
<1>8. /\ Distinct(reclaim)' /\ ListsOf(t)' /\ Reclaimable' = Reclaimable /\ Swept(t)' = Swept(t)
  BY <1>2, <1>6, ListsKept DEF Sweeping, OwnScan
<1>9. H!Private(t) = {} /\ H!Private(t)' = {n}
  BY <1>1, <1>2, <1>6, TreiberStackAssumption DEF H!Private
<1>10. HazardOwners'
  <2>1. \A m : m \in Reach(t)' <=> m \in Reach(t) \/ m = n
    BY <1>5, <1>8, <1>9 DEF Reach, Kin
  <2>2. n \notin Chain /\ n \notin Reclaimable
    BY <1>1 DEF HazardInv, HazardOwners
  <2>3. Sorted(t)'
    BY <1>5, <1>8, <1>9, <2>2 DEF Sorted, Kin, HazardInv, HazardOwners
  <2>4. \A m : m \in Reach(t) => m \in allocated
    BY DEF HazardInv, HazardOwners, Reach
  <2> QED
    BY <1>1, <1>6, <2>1, <2>3, <2>4, OthersKin, HazardMove DEF HazardInv
<1>11. LooksFrom(t) /\ ScansFrom(t)
  BY <1>6 DEF LooksFrom, ScansFrom, Looking, Scanning, OwnScan
<1> QED
  BY <1>4, <1>5, <1>6, <1>7, <1>8, <1>10, <1>11, HazardParts

\* Writing the link of the node that is pushed.
LEMMA PushLinkHazard ==
  ASSUME HazardInv, NEW t \in Threads, StackInv', Chain' = Chain, pc[t] \in Pushing,
         next' = [next EXCEPT ![node[t]] = head], pc' = [pc EXCEPT ![t] = "push_cas"],
         UNCHANGED <<allocated, data, head, node, seen, val, calls, hazardVars>>
  PROVE  HazardInv'
<1>0. UNCHANGED <<slotOwner, hazard, slot, index, reclaim, taken>>
  BY DEF hazardVars
<1>1. ThreadStep(t) /\ pc'[t] = "push_cas"
  <2>1. HeapTypes' /\ HazardTypes'
    BY <1>0 DEF HazardInv, HazardTypes, HazardLabels, StackInv
  <2> QED
    BY <1>0, <2>1 DEF ThreadStep, HazardInv, StackInv, HeapTypes
<1>2. TableOK'
  BY <1>0, <1>1, TableKept DEF HazardInv, SlotUsers, Looking
<1>3. /\ Distinct(reclaim)' /\ ListsOf(t)' /\ Reclaimable' = Reclaimable /\ Swept(t)' = Swept(t)
  BY <1>0, <1>1, ListsKept DEF Sweeping, OwnScan, Pushing
<1>4. H!Private(t)' = H!Private(t)
  BY <1>1 DEF H!Private, Pushing
<1>5. \A u \in Threads : Kin(u)' = Kin(u)
  BY <1>1, <1>3, <1>4, OthersKin DEF Kin
<1>6. HazardOwners'
  BY <1>3, <1>5 DEF HazardInv, HazardOwners
<1>7. LooksFrom(t) /\ ScansFrom(t)
  BY <1>1 DEF LooksFrom, ScansFrom, Looking, Scanning, OwnScan
<1> QED
  BY <1>1, <1>2, <1>3, <1>6, <1>7, HazardParts

\* The exchanges that put a node on the stack and take one off.
LEMMA ExchangeHazard ==
  ASSUME HazardInv, NEW t \in Threads, StackInv', NEW l \in {"idle", "clear_hazard"},
         pc' = [pc EXCEPT ![t] = l],
         \/ /\ l = "idle" /\ pc[t] = "push_cas" /\ node' = [node EXCEPT ![t] = Null]
            /\ Chain' = Chain \cup {node[t]}
         \/ /\ l = "clear_hazard" /\ pc[t] = "pop_cas" /\ node' = node
            /\ node[t] \in Chain /\ Chain' = Chain \ {node[t]},
         UNCHANGED <<allocated, data, next, seen, val, calls, hazardVars>>
  PROVE  HazardInv'
<1>0. UNCHANGED <<slotOwner, hazard, slot, index, reclaim, taken>>
  BY DEF hazardVars
<1>1. pc'[t] = l /\ pc[t] \in {"push_cas", "pop_cas"}
  BY DEF HazardInv, StackInv, HeapTypes
<1>2. node[t] # Null /\ node'[t] = IF l = "idle" THEN Null ELSE node[t]
  BY DEF HazardInv, StackInv, HeapTypes, HoldsOK, LinkOK, Pushing
<1>3. ThreadStep(t)
  <2>1. HeapTypes' /\ HazardTypes'
    BY <1>0 DEF HazardInv, HazardTypes, HazardLabels, StackInv
  <2> QED
    BY <1>0, <2>1 DEF ThreadStep, HazardInv, StackInv, HeapTypes
<1>4. TableOK'
  <2>1. l = "clear_hazard" => slot[t] # 0
    BY DEF HazardInv, TableOK, SlotUsers
  <2> QED
    BY <1>0, <1>1, <1>3, <2>1, TableKept DEF HazardInv, SlotUsers, Looking
<1>5. /\ Distinct(reclaim)' /\ ListsOf(t)' /\ Reclaimable' = Reclaimable /\ Swept(t)' = Swept(t)
  BY <1>0, <1>1, ListsKept DEF Sweeping, OwnScan
<1>6. \/ H!Private(t) = {node[t]} /\ H!Private(t)' = {} /\ Chain' = Chain \cup {node[t]}
      \/ /\ H!Private(t) = {} /\ H!Private(t)' = {node[t]}
         /\ Chain' = Chain \ {node[t]} /\ node[t] \in Chain
  BY <1>1, <1>2 DEF H!Private
<1>7. HazardOwners'
  <2>1. Swept(t) = {}
    BY <1>1, NilNodes DEF HazardInv, ListsOK, Sweeping, Swept
  <2>2. \A m : m \in Reach(t)' <=> m \in Reach(t)
    BY <1>5, <1>6, <2>1 DEF Reach, Kin
  <2>3. Sorted(t)'
    <3>1. Chain \cap Reclaimable = {} /\ H!Private(t) \cap (Chain \cup Reclaimable) = {}
      BY DEF HazardInv, HazardOwners, Kin
    <3> QED
      BY <1>5, <1>6, <2>1, <3>1 DEF Sorted, Kin
  <2>4. \A m : m \in Reach(t) => m \in allocated
    BY DEF HazardInv, HazardOwners, Reach
  <2> QED
    BY <1>3, <2>2, <2>3, <2>4, OthersKin, HazardMove DEF HazardInv
<1>8. LooksFrom(t) /\ ScansFrom(t)
  BY <1>1 DEF LooksFrom, ScansFrom, Looking, Scanning, OwnScan
<1> QED
  BY <1>3, <1>4, <1>5, <1>7, <1>8, HazardParts

\* What the two programs share are the same steps.
LEMMA SharedSteps ==
  ASSUME NEW t \in Threads
  PROVE  /\ H!PushLoad(t) => PushLoad(t)
         /\ H!PushCas(t) => PushCas(t)
         /\ H!PopNext(t, "clear_hazard") => PopNext(t, "clear_hazard")
         /\ H!PopCas(t, "clear_hazard", "set_hazard") => PopCas(t, "clear_hazard", "set_hazard")
         /\ H!Return(t) => Return(t)
  BY DEF H!PushLoad, PushLoad, H!PushCas, PushCas, H!PopNext, PopNext, H!PopCas, PopCas,
         H!Return, Return, H!Goto, Goto, H!heap, heap

\* The steps of push.
LEMMA PushHazard ==
  ASSUME HazardInv, NEW t \in Threads, H!PushStep(t), UNCHANGED hazardVars
  PROVE  HazardInv'
<1>0. StackInv
  BY DEF HazardInv
<1>1. CASE \E v \in Values : H!CallPush(t, v)
  BY <1>1, CallPushHazard
<1>2. CASE H!PushLoad(t)
  <2>1. PushLoad(t)
    BY <1>2, SharedSteps
  <2>2. StackInv' /\ Chain' = Chain
    BY <1>0, <2>1, PushLoadInv
  <2> QED
    BY <2>1, <2>2, PushLinkHazard DEF PushLoad, Goto, Pushing
<1>3. CASE H!PushCas(t) /\ head # next[node[t]]
  <2>1. PushCas(t)
    BY <1>3, SharedSteps
  <2>2. StackInv' /\ StackKept
    BY <1>0, <1>3, <2>1, PushRetryInv
  <2>3. /\ pc[t] = "push_cas" /\ next' = [next EXCEPT ![node[t]] = head]
        /\ UNCHANGED <<allocated, data, head, pc, node, seen, val, calls>>
    BY <1>3, <2>1 DEF PushCas
  <2>4. pc' = [pc EXCEPT ![t] = "push_cas"]
    BY <2>3 DEF HazardInv, HazardTypes
  <2>5. Chain' = Chain
    BY <1>0, <2>2, SameStack DEF StackInv, HeapTypes, StackKept
  <2> QED
    BY <2>2, <2>3, <2>4, <2>5, PushLinkHazard DEF Pushing
<1>4. CASE H!PushCas(t) /\ head = next[node[t]]
  <2>1. PushCas(t)
    BY <1>4, SharedSteps
  <2>2. StackInv' /\ Chain' = Chain \cup {node[t]}
    BY <1>0, <1>4, <2>1, PushedInv
  <2>3. /\ pc[t] = "push_cas" /\ pc' = [pc EXCEPT ![t] = "idle"] /\ node' = [node EXCEPT ![t] = Null]
        /\ UNCHANGED <<allocated, data, next, seen, val, calls>>
    BY <1>4, <2>1 DEF PushCas, Goto
  <2> QED
    BY <2>2, <2>3, ExchangeHazard
<1> QED
  BY <1>1, <1>2, <1>3, <1>4 DEF H!PushStep
-------------------------------------------------------------------------------
(* p281: the other steps of pop. *)

\* The steps of pop that p281 shares.
LEMMA PopHazard ==
  ASSUME HazardInv, NEW t \in Threads, UNCHANGED hazardVars,
         \/ H!PopNext(t, "clear_hazard") \/ H!PopCas(t, "clear_hazard", "set_hazard") \/ H!Return(t)
  PROVE  HazardInv'
<1>0. UNCHANGED <<slotOwner, hazard, slot, index, reclaim, taken>> /\ StackInv
  BY DEF hazardVars, HazardInv
<1>1. \/ PopNext(t, "clear_hazard") \/ PopCas(t, "clear_hazard", "set_hazard") \/ Return(t)
  BY SharedSteps
<1> DEFINE Took == PopCas(t, "clear_hazard", "set_hazard") /\ head = node[t] /\ head' = seen[t]
<1>2. CASE Took
  <2>1. /\ pc[t] = "pop_cas" /\ pc' = [pc EXCEPT ![t] = "clear_hazard"]
        /\ UNCHANGED <<allocated, data, next, node, seen, val, calls>>
    BY <1>2 DEF PopCas, Goto, heap
  <2>2. HeapTypes'
    BY <1>0, <1>2, <2>1 DEF StackInv, HeapTypes
  <2>3. StackInv' /\ Chain' = Chain \ {node[t]} /\ node[t] \in Chain
    BY <1>0, <1>2, <2>1, <2>2, PoppedInv
  <2> QED
    BY <2>1, <2>3, ExchangeHazard
<1>3. CASE ~Took
  <2>1. StackInv'
    <3>1. Elsewhere("set_hazard")
      BY DEF Elsewhere, Holding, Looking, Pushing
    <3>2. CASE PopNext(t, "clear_hazard")
      BY <1>0, <3>2, PopNextInv
    <3>3. CASE PopCas(t, "clear_hazard", "set_hazard")
      BY <1>0, <3>1, <3>3, PopCasInv
    <3>4. CASE Return(t)
      BY <1>0, <3>4, ReturnInv
    <3> QED
      BY <1>1, <3>2, <3>3, <3>4
  <2>2. /\ NodesKept /\ calls' = calls
        /\ \/ pc[t] = "pop_next" /\ node[t] = Null /\ pc' = [pc EXCEPT ![t] = "clear_hazard"]
              /\ node' = node /\ seen' = seen
           \/ pc[t] = "pop_next" /\ pc' = [pc EXCEPT ![t] = "pop_cas"]
              /\ node' = node /\ seen' = [seen EXCEPT ![t] = next[node[t]]]
           \/ pc[t] = "pop_cas" /\ pc' = [pc EXCEPT ![t] = "set_hazard"]
              /\ node' = [node EXCEPT ![t] = head] /\ seen' = seen
           \/ pc[t] = "return" /\ pc' = [pc EXCEPT ![t] = "idle"]
              /\ node' = [node EXCEPT ![t] = Null] /\ seen' = [seen EXCEPT ![t] = Null]
    BY <1>0, <1>1, <1>3 DEF PopNext, PopCas, Return, Goto, heap, NodesKept
  <2>3. ThreadStep(t)
    <3>1. HeapTypes' /\ HazardTypes'
      BY <1>0, <2>1, <2>2 DEF HazardInv, HazardTypes, HazardLabels, StackInv
    <3>2. DOMAIN pc = Threads /\ DOMAIN node = Threads /\ DOMAIN seen = Threads
      BY <1>0 DEF StackInv, HeapTypes
    <3>3. \A u \in Threads \ {t} : pc'[u] = pc[u] /\ node'[u] = node[u] /\ seen'[u] = seen[u]
      BY <2>2, <3>2
    <3> QED
      BY <1>0, <3>1, <3>3 DEF ThreadStep
  <2>4. \/ pc[t] = "pop_next" /\ node[t] = Null /\ pc'[t] = "clear_hazard" /\ node'[t] = Null
        \/ pc[t] = "pop_next" /\ pc'[t] = "pop_cas" /\ node'[t] = node[t]
        \/ pc[t] = "pop_cas" /\ pc'[t] = "set_hazard" /\ node'[t] = head
        \/ pc[t] = "return" /\ pc'[t] = "idle"
    BY <1>0, <2>2 DEF StackInv, HeapTypes
  <2>5. H!Private(t)' = H!Private(t)
    BY <2>4 DEF H!Private
  <2>6. TableOK'
    <3>1. /\ pc[t] \in {"pop_next", "pop_cas"} => slot[t] # 0
          /\ pc[t] \in Looking => hazard[slot[t]] = node[t]
      BY DEF HazardInv, TableOK, SlotUsers
    <3> QED
      BY <1>0, <2>3, <2>4, <3>1, TableKept DEF HazardInv, SlotUsers, Looking
  <2>7. LooksFrom(t) /\ ScansFrom(t)
    BY <1>0, <2>4 DEF LooksFrom, ScansFrom, Looking, Scanning, OwnScan
  <2> QED
    BY <2>1, <2>2, <2>3, <2>4, <2>5, <2>6, <2>7, NodesKeptInv DEF Sweeping, OwnScan
<1> QED
  BY <1>2, <1>3

\* The way into pop, and the slot.
LEMMA EnterHazard ==
  ASSUME HazardInv, NEW t \in Threads, H!EnterPop(t)
  PROVE  HazardInv'
<1>0. StackInv
  BY DEF HazardInv
<1>1. /\ NodesKept /\ UNCHANGED <<slotOwner, hazard, slot, data, node, seen, val>>
      /\ pc[t] = "idle" /\ calls < MaxCalls - 1 /\ calls' = calls + 1
      /\ pc' = [pc EXCEPT ![t] = IF slot[t] = 0 THEN "acquire" ELSE "pop_load"]
      /\ index' = [index EXCEPT ![t] = 1]
  BY DEF H!EnterPop, H!CallPop, H!Goto, H!StartScan, H!heap, H!tableVars, H!listVars, NodesKept
<1>2. calls' \in 0 .. (MaxCalls - 1) /\ 1 \in 1 .. (Slots + 1)
  BY <1>1, TreiberStackAssumption, HazardAssumption DEF HazardInv, HazardTypes
<1>3. pc'[t] = IF slot[t] = 0 THEN "acquire" ELSE "pop_load"
  BY <1>0, <1>1 DEF StackInv, HeapTypes
<1>4. ThreadStep(t)
  <2>1. HeapTypes'
    BY <1>0, <1>1 DEF StackInv, HeapTypes, NodesKept
  <2>2. HazardTypes'
    BY <1>1, <1>2 DEF HazardInv, HazardTypes, HazardLabels, NodesKept
  <2> QED
    BY <1>0, <1>1, <2>1, <2>2 DEF ThreadStep, StackInv, HeapTypes, NodesKept, HazardInv, HazardTypes
<1>5. StackInv'
  <2>1. Elsewhere(pc'[t])
    BY <1>3 DEF Elsewhere, Holding, Looking, Pushing
  <2>2. Bystander(t)
    BY <1>1, <1>4 DEF Bystander, ThreadStep, NodesKept
  <2> QED
    BY <1>0, <2>1, <2>2, ElsewhereInv
<1>6. TableOK'
  BY <1>1, <1>3, <1>4, TableKept DEF HazardInv, SlotUsers, Looking
<1>7. H!Private(t)' = H!Private(t)
  BY <1>1, <1>3 DEF H!Private
<1>8. LooksFrom(t) /\ ScansFrom(t)
  BY <1>3 DEF LooksFrom, ScansFrom, Looking, Scanning, OwnScan
<1> QED
  BY <1>1, <1>3, <1>4, <1>5, <1>6, <1>7, <1>8, NodesKeptInv DEF Sweeping, OwnScan

\* Looking for a free slot, which may not be found.
LEMMA AcquireHazard ==
  ASSUME HazardInv, NEW t \in Threads, H!AcquireSlot(t) \/ H!NoSlots(t)
  PROVE  HazardInv'
<1>0. StackInv /\ HeapTypes /\ HazardTypes /\ TableOK
  BY DEF HazardInv, StackInv
<1> DEFINE i == index[t]
<1>1. /\ NodesKept /\ UNCHANGED <<hazard, data, node, seen, val, calls>> /\ pc[t] = "acquire"
      /\ \/ /\ i <= Slots /\ slotOwner[i] = NoThread /\ slotOwner' = [slotOwner EXCEPT ![i] = t]
            /\ slot' = [slot EXCEPT ![t] = i] /\ pc' = [pc EXCEPT ![t] = "pop_load"] /\ index' = index
         \/ /\ i <= Slots /\ index' = [index EXCEPT ![t] = i + 1]
            /\ UNCHANGED <<slotOwner, slot, pc>>
         \/ pc' = [pc EXCEPT ![t] = "idle"] /\ UNCHANGED <<slotOwner, slot, index>>
  BY DEF H!AcquireSlot, H!NoSlots, H!Goto, H!heap, H!listVars, H!hazardVars, H!tableVars, NodesKept
<1>2. i \in 1 .. (Slots + 1) /\ Slots \in Nat
  BY <1>0, HazardAssumption DEF HazardTypes
<1>3. i <= Slots => i \in 1 .. Slots /\ i \in 0 .. Slots /\ i + 1 \in 1 .. (Slots + 1) /\ i # 0
  BY <1>2
<1> HIDE DEF i
<1>4. HazardTypes' /\ HeapTypes'
  <2>1. HeapTypes'
    BY <1>0, <1>1 DEF HeapTypes, NodesKept
  <2>2. pc' \in [Threads -> HazardLabels] /\ DOMAIN slotOwner' = 1 .. Slots
    BY <1>0, <1>1 DEF HazardTypes, HazardLabels
  <2>3. index' \in [Threads -> 1 .. (Slots + 1)]
    BY <1>0, <1>1, <1>3 DEF HazardTypes
  <2>4. slot' \in [Threads -> 0 .. Slots]
    BY <1>0, <1>1, <1>3 DEF HazardTypes
  <2> QED
    BY <1>0, <1>1, <2>1, <2>2, <2>3, <2>4 DEF HazardTypes, NodesKept
<1>5. ThreadStep(t) /\ pc'[t] \in {"acquire", "pop_load", "idle"} /\ node'[t] = node[t]
  BY <1>0, <1>1, <1>4 DEF ThreadStep, HazardTypes, HeapTypes, NodesKept
<1>6. StackInv'
  <2>1. Elsewhere(pc'[t])
    BY <1>5 DEF Elsewhere, Holding, Looking, Pushing
  <2>2. Bystander(t)
    BY <1>1, <1>5 DEF Bystander, ThreadStep, NodesKept
  <2> QED
    BY <1>0, <2>1, <2>2, ElsewhereInv
<1>7. TableOK'
  <2>1. CASE UNCHANGED <<slotOwner, slot>> /\ pc'[t] # "pop_load"
    BY <1>0, <1>1, <1>5, <2>1, TableKept DEF TableOK, SlotUsers, Looking
  <2>2. CASE /\ i <= Slots /\ slotOwner[i] = NoThread /\ slotOwner' = [slotOwner EXCEPT ![i] = t]
             /\ slot' = [slot EXCEPT ![t] = i] /\ pc' = [pc EXCEPT ![t] = "pop_load"]
    <3>1. slot[t] = 0 /\ \A u \in Threads : slot[u] # i /\ slotOwner[i] # u
      BY <1>0, <1>1, <1>3, <2>2, HazardAssumption DEF TableOK
    <3>2. i \in 1 .. Slots /\ i # 0
      BY <1>3, <2>2
    <3>3. \A j \in 1 .. Slots : slotOwner'[j] = IF j = i THEN t ELSE slotOwner[j]
      BY <1>0, <2>2 DEF HazardTypes
    <3>4. \A u \in Threads : slot'[u] = IF u = t THEN i ELSE slot[u]
      BY <1>0, <2>2 DEF HazardTypes
    <3>5. \A u \in Threads, j \in 1 .. Slots : slotOwner'[j] = u <=> slot'[u] = j
      <4> TAKE u \in Threads, j \in 1 .. Slots
      <4>1. slotOwner[j] = u <=> slot[u] = j
        BY <1>0 DEF TableOK
      <4>2. CASE u = t
        BY <3>1, <3>3, <3>4, <4>1, <4>2
      <4>3. CASE u # t
        BY <3>1, <3>3, <3>4, <4>1, <4>3
      <4> QED
        BY <4>2, <4>3
    <3>6. ASSUME NEW u \in Threads
          PROVE  /\ pc'[u] = "acquire" => slot'[u] = 0
                 /\ pc'[u] \in SlotUsers => slot'[u] # 0
                 /\ pc'[u] \in Looking => hazard'[slot'[u]] = node'[u]
      <4>1. CASE u = t
        BY <1>0, <2>2, <3>2, <3>4, <4>1 DEF HeapTypes, Looking
      <4>2. CASE u # t
        BY <1>0, <1>1, <1>5, <3>4, <4>2 DEF TableOK, ThreadStep
      <4> QED
        BY <4>1, <4>2
    <3> QED
      BY <3>5, <3>6 DEF TableOK
  <2> QED
    BY <1>0, <1>1, <1>5, <2>1, <2>2 DEF HazardTypes
<1>8. H!Private(t)' = H!Private(t)
  BY <1>1, <1>5 DEF H!Private
<1>9. LooksFrom(t) /\ ScansFrom(t)
  BY <1>5 DEF LooksFrom, ScansFrom, Looking, Scanning, OwnScan
<1> QED
  BY <1>1, <1>4, <1>5, <1>6, <1>7, <1>8, <1>9, NodesKeptInv DEF Sweeping, OwnScan

\* Two threads have two slots.
LEMMA SlotsDiffer ==
  ASSUME HazardTypes, TableOK, NEW t \in Threads, NEW u \in Threads \ {t}, slot[t] # 0
  PROVE  slot[u] # slot[t] /\ slot[t] \in 1 .. Slots
<1>1. slot[t] \in 1 .. Slots
  BY HazardAssumption DEF HazardTypes
<1>2. slotOwner[slot[t]] = t
  BY <1>1 DEF TableOK
<1> QED
  BY <1>1, <1>2 DEF TableOK

\* A thread that writes to its slot disturbs nobody's hazard pointer.
LEMMA HazardWritten ==
  ASSUME HazardTypes, TableOK, NEW t \in Threads, ThreadStep(t), slot[t] # 0, NEW x,
         hazard' = [hazard EXCEPT ![slot[t]] = x], UNCHANGED <<slotOwner, slot>>,
         pc'[t] # "acquire", pc'[t] \notin Looking
  PROVE  TableOK'
<1>1. ASSUME NEW u \in Threads \ {t}
      PROVE  /\ pc'[u] = "acquire" => slot'[u] = 0
             /\ pc'[u] \in SlotUsers => slot'[u] # 0
             /\ pc'[u] \in Looking => hazard'[slot'[u]] = node'[u]
  <2>1. pc'[u] = pc[u] /\ node'[u] = node[u] /\ slot'[u] = slot[u] /\ slot[u] # slot[t]
    BY SlotsDiffer DEF ThreadStep
  <2>2. pc[u] \in Looking => slot[u] # 0 /\ slot[u] \in DOMAIN hazard
    BY HazardAssumption DEF TableOK, HazardTypes, Looking, SlotUsers
  <2>3. pc[u] \in Looking => hazard'[slot[u]] = hazard[slot[u]]
    BY <2>1, <2>2 DEF HazardTypes
  <2> QED
    BY <2>1, <2>3 DEF TableOK
<1> QED
  BY <1>1 DEF TableOK

\* The thread ends.
LEMMA EndHazard ==
  ASSUME HazardInv, NEW t \in Threads, H!ThreadEnds(t)
  PROVE  HazardInv'
<1>0. StackInv /\ HeapTypes /\ HazardTypes /\ TableOK
  BY DEF HazardInv, StackInv
<1> DEFINE i == slot[t]
<1>1. /\ NodesKept /\ UNCHANGED <<data, node, seen, val, calls, pc, index>> /\ pc[t] = "idle" /\ i # 0
      /\ hazard' = [hazard EXCEPT ![i] = Null] /\ slotOwner' = [slotOwner EXCEPT ![i] = NoThread]
      /\ slot' = [slot EXCEPT ![t] = 0]
  BY DEF H!ThreadEnds, H!heap, H!locals, H!listVars, NodesKept
<1>2. i \in 1 .. Slots /\ 0 \in 0 .. Slots
  BY <1>0, <1>1, HazardAssumption DEF HazardTypes
<1>3. HazardTypes' /\ HeapTypes'
  <2>1. HeapTypes'
    BY <1>0, <1>1 DEF HeapTypes, NodesKept
  <2>2. slot' \in [Threads -> 0 .. Slots] /\ DOMAIN slotOwner' = 1 .. Slots
    BY <1>0, <1>1, <1>2 DEF HazardTypes
  <2>3. hazard' \in [1 .. Slots -> Nodes \cup {Null}]
    BY <1>0, <1>1 DEF HazardTypes
  <2> QED
    BY <1>0, <1>1, <2>1, <2>2, <2>3 DEF HazardTypes, NodesKept
<1>4. ThreadStep(t)
  BY <1>0, <1>1, <1>3 DEF ThreadStep, HazardTypes, HeapTypes, NodesKept
<1>5. StackInv'
  <2>1. Elsewhere(pc'[t])
    BY <1>1 DEF Elsewhere, Holding, Looking, Pushing
  <2>2. Bystander(t)
    BY <1>1, <1>4 DEF Bystander, ThreadStep, NodesKept
  <2> QED
    BY <1>0, <2>1, <2>2, ElsewhereInv
<1>6. TableOK'
  <2>1. ASSUME NEW u \in Threads \ {t}
        PROVE  /\ \A j \in 1 .. Slots : slotOwner'[j] = u <=> slot'[u] = j
               /\ pc'[u] = "acquire" => slot'[u] = 0
               /\ pc'[u] \in SlotUsers => slot'[u] # 0
               /\ pc'[u] \in Looking => hazard'[slot'[u]] = node'[u]
    <3>1. pc'[u] = pc[u] /\ node'[u] = node[u] /\ slot'[u] = slot[u] /\ slot[u] # i
      BY <1>0, <1>1, <1>4, SlotsDiffer DEF ThreadStep
    <3>2. pc[u] \in Looking => slot[u] # 0 /\ slot[u] \in DOMAIN hazard
      BY <1>0, HazardAssumption DEF TableOK, HazardTypes, Looking, SlotUsers
    <3>3. pc[u] \in Looking => hazard'[slot[u]] = hazard[slot[u]]
      BY <1>0, <1>1, <3>1, <3>2 DEF HazardTypes
    <3>4. \A j \in 1 .. Slots : slotOwner'[j] = IF j = i THEN NoThread ELSE slotOwner[j]
      BY <1>0, <1>1 DEF HazardTypes
    <3>5. NoThread # u
      BY HazardAssumption
    <3>6. \A j \in 1 .. Slots : slotOwner[j] = u <=> slot[u] = j
      BY <1>0 DEF TableOK
    <3>7. \A j \in 1 .. Slots : slotOwner'[j] = u <=> slot'[u] = j
      BY <3>1, <3>4, <3>5, <3>6
    <3> QED
      BY <1>0, <3>1, <3>3, <3>7 DEF TableOK
  <2>2. slot'[t] = 0 /\ \A j \in 1 .. Slots : slotOwner'[j] # t
    <3>1. \A j \in 1 .. Slots : slotOwner'[j] = IF j = i THEN NoThread ELSE slotOwner[j]
      BY <1>0, <1>1 DEF HazardTypes
    <3>2. \A j \in 1 .. Slots : slotOwner[j] = t <=> i = j
      BY <1>0 DEF TableOK
    <3>3. slot'[t] = 0
      BY <1>0, <1>1 DEF HazardTypes
    <3> QED
      BY <3>1, <3>2, <3>3, HazardAssumption
  <2>3. \A j \in 1 .. Slots : j # 0
    OBVIOUS
  <2>4. pc'[t] = "idle"
    BY <1>1
  <2> QED
    BY <2>1, <2>2, <2>3, <2>4 DEF TableOK, SlotUsers, Looking
<1>7. H!Private(t)' = H!Private(t)
  BY <1>1 DEF H!Private
<1>8. LooksFrom(t) /\ ScansFrom(t)
  BY <1>1 DEF LooksFrom, ScansFrom, Looking, Scanning, OwnScan
<1> QED
  BY <1>1, <1>4, <1>5, <1>6, <1>7, <1>8, NodesKeptInv DEF Sweeping, OwnScan

\* Loading the head, publishing it and looking again.
LEMMA LoadHazard ==
  ASSUME HazardInv, NEW t \in Threads, H!LoadHead(t) \/ H!SetHazard(t) \/ H!Reload(t)
  PROVE  HazardInv'
<1>0. StackInv /\ HeapTypes /\ HazardTypes /\ TableOK
  BY DEF HazardInv, StackInv
<1>1. /\ NodesKept /\ UNCHANGED <<data, seen, val, calls, slotOwner, slot, index>>
      /\ \/ /\ pc[t] = "pop_load" /\ pc' = [pc EXCEPT ![t] = "set_hazard"]
            /\ node' = [node EXCEPT ![t] = head] /\ hazard' = hazard
         \/ /\ pc[t] = "set_hazard" /\ pc' = [pc EXCEPT ![t] = "reload"]
            /\ node' = node /\ hazard' = [hazard EXCEPT ![slot[t]] = node[t]]
         \/ /\ pc[t] = "reload" /\ pc' = [pc EXCEPT ![t] = "pop_next"] /\ head = hazard[slot[t]]
            /\ node' = [node EXCEPT ![t] = head] /\ hazard' = hazard
         \/ /\ pc[t] = "reload" /\ pc' = [pc EXCEPT ![t] = "set_hazard"]
            /\ node' = [node EXCEPT ![t] = head] /\ hazard' = hazard
  BY DEF H!LoadHead, H!SetHazard, H!Reload, H!Goto, H!heap, H!listVars, H!tableVars, H!hazardVars,
         NodesKept
<1>2. HazardTypes' /\ HeapTypes'
  <2>1. HeapTypes'
    BY <1>0, <1>1 DEF HeapTypes, NodesKept
  <2>2. pc' \in [Threads -> HazardLabels] /\ hazard' \in [1 .. Slots -> Nodes \cup {Null}]
    BY <1>0, <1>1 DEF HeapTypes, HazardTypes, HazardLabels
  <2> QED
    BY <1>0, <1>1, <2>1, <2>2 DEF HazardTypes, NodesKept
<1>3. /\ ThreadStep(t) /\ slot[t] # 0
      /\ \/ pc[t] = "pop_load" /\ pc'[t] = "set_hazard" /\ node'[t] = head
         \/ pc[t] = "set_hazard" /\ pc'[t] = "reload" /\ node'[t] = node[t]
         \/ pc[t] = "reload" /\ pc'[t] = "pop_next" /\ node'[t] = head /\ head = hazard[slot[t]]
         \/ pc[t] = "reload" /\ pc'[t] = "set_hazard" /\ node'[t] = head
  BY <1>0, <1>1, <1>2 DEF ThreadStep, HazardTypes, HeapTypes, NodesKept, TableOK, SlotUsers
<1>4. StackInv'
  <2>1. Bystander(t)
    BY <1>1, <1>3 DEF Bystander, ThreadStep, NodesKept
  <2>2. Kept(t)
    BY <1>3 DEF Kept, Holding, Looking, Pushing
  <2> QED
    BY <1>0, <2>1, <2>2, BystanderInv
<1>5. TableOK'
  <2>1. CASE pc[t] = "set_hazard"
    BY <1>0, <1>1, <1>3, <2>1, HazardWritten DEF Looking
  <2>2. CASE pc[t] # "set_hazard"
    BY <1>0, <1>1, <1>3, <2>2, TableKept DEF SlotUsers, Looking
  <2> QED
    BY <2>1, <2>2
<1>6. H!Private(t)' = H!Private(t)
  BY <1>3 DEF H!Private
<1>7. LooksFrom(t) /\ ScansFrom(t)
  BY <1>1, <1>3 DEF LooksFrom, ScansFrom, Looking, Scanning, OwnScan
<1> QED
  BY <1>1, <1>3, <1>4, <1>5, <1>6, <1>7, NodesKeptInv DEF Sweeping, OwnScan

\* Clearing the slot: the thread looks into no node any more.
LEMMA ClearHazardInv ==
  ASSUME HazardInv, NEW t \in Threads, H!ClearHazard(t)
  PROVE  HazardInv'
<1>0. StackInv /\ HeapTypes /\ HazardTypes /\ TableOK
  BY DEF HazardInv, StackInv
<1>1. /\ NodesKept /\ UNCHANGED <<data, node, seen, val, calls, slotOwner, slot, index>>
      /\ pc[t] = "clear_hazard" /\ hazard' = [hazard EXCEPT ![slot[t]] = Null]
      /\ pc' = [pc EXCEPT ![t] = IF node[t] = Null THEN "return" ELSE "pop_data"]
  BY DEF H!ClearHazard, H!Goto, H!heap, H!listVars, NodesKept
<1>2. HazardTypes' /\ HeapTypes'
  BY <1>0, <1>1 DEF HeapTypes, HazardTypes, HazardLabels, NodesKept
<1>3. /\ ThreadStep(t) /\ slot[t] # 0 /\ node'[t] = node[t]
      /\ pc'[t] = IF node[t] = Null THEN "return" ELSE "pop_data"
  BY <1>0, <1>1, <1>2 DEF ThreadStep, HazardTypes, HeapTypes, NodesKept, TableOK, SlotUsers
<1>4. StackInv'
  <2>1. Bystander(t)
    BY <1>1, <1>3 DEF Bystander, ThreadStep, NodesKept
  <2>2. node[t] # Null => node[t] \in allocated
    BY <1>0, <1>1, HoldsLive DEF Holding
  <2>3. Kept(t)
    BY <1>1, <1>3, <2>2 DEF Kept, Holding, Looking, Pushing, NodesKept
  <2> QED
    BY <1>0, <2>1, <2>3, BystanderInv
<1>5. TableOK'
  <2>1. pc'[t] # "acquire" /\ pc'[t] \notin Looking
    BY <1>3 DEF Looking
  <2> QED
    BY <1>0, <1>1, <1>3, <2>1, HazardWritten
<1>6. H!Private(t)' = H!Private(t)
  BY <1>1, <1>3 DEF H!Private
<1>7. LooksFrom(t) /\ ScansFrom(t)
  BY <1>1, <1>3 DEF LooksFrom, ScansFrom, Looking, Scanning, OwnScan
<1> QED
  BY <1>1, <1>3, <1>4, <1>5, <1>6, <1>7, NodesKeptInv DEF Sweeping, OwnScan

\* A scan that starts at the first slot has passed over none.
LEMMA ScanStarts ==
  ASSUME HazardTypes, TableOK, NEW u \in Threads, pc[u] \in Looking
  PROVE  1 <= slot[u] /\ slot[u] <= Slots
  BY HazardAssumption DEF HazardTypes, TableOK, Looking, SlotUsers

\* The value leaves the node, and the scan of the table starts.
LEMMA TakeDataHazard ==
  ASSUME HazardInv, NEW t \in Threads, H!TakeData(t)
  PROVE  HazardInv'
<1>0. StackInv /\ HeapTypes /\ HazardTypes /\ TableOK
  BY DEF HazardInv, StackInv
<1>1. /\ NodesKept /\ UNCHANGED <<node, seen, calls, slotOwner, hazard, slot>>
      /\ pc[t] = "pop_data" /\ pc' = [pc EXCEPT ![t] = "scan_own"]
      /\ data' = [data EXCEPT ![node[t]] = NoValue] /\ val' = [val EXCEPT ![t] = data[node[t]]]
      /\ index' = [index EXCEPT ![t] = 1]
  BY DEF H!TakeData, H!Goto, H!StartScan, H!tableVars, H!listVars, NodesKept
<1>2. node[t] \in Nodes /\ node[t] # Null /\ node[t] \in H!Private(t) /\ 1 \in 1 .. (Slots + 1)
  BY <1>0, <1>1, HazardAssumption DEF StackInv, HoldsOK, HeapTypes, H!Private
<1>3. HazardTypes' /\ HeapTypes'
  BY <1>0, <1>1, <1>2 DEF HeapTypes, HazardTypes, HazardLabels, NodesKept
<1>4. ThreadStep(t) /\ node'[t] = node[t] /\ pc'[t] = "scan_own" /\ index'[t] = 1
  BY <1>0, <1>1, <1>3 DEF ThreadStep, HazardTypes, HeapTypes, NodesKept
<1>5. StackInv'
  <2>1. Elsewhere(pc'[t])
    BY <1>4 DEF Elsewhere, Holding, Looking, Pushing
  <2>2. \A n \in allocated : n \notin Kin(t) => n \in allocated' /\ data'[n] = data[n]
    BY <1>0, <1>1, <1>2 DEF Kin, HeapTypes, NodesKept
  <2>3. \A u \in Threads \ {t} : pc[u] \in Looking /\ node[u] # Null => node[u] \in allocated'
    BY <1>0, <1>1 DEF StackInv, LooksOK, NodesKept
  <2> QED
    BY <1>1, <1>4, <2>1, <2>2, <2>3, KinStep DEF NodesKept
<1>6. TableOK'
  BY <1>0, <1>1, <1>4, TableKept DEF SlotUsers, Looking
<1>7. H!Private(t)' = H!Private(t)
  BY <1>1, <1>4 DEF H!Private
<1>8. LooksFrom(t) /\ ScansFrom(t)
  BY <1>0, <1>1, <1>4, ScanStarts DEF LooksFrom, ScansFrom, Looking
<1> QED
  BY <1>1, <1>2, <1>4, <1>5, <1>6, <1>7, <1>8, NodesKeptInv DEF Sweeping, OwnScan
-------------------------------------------------------------------------------
(* p281: reclaiming. *)

\* A look at one slot of the table.
LEMMA ScanHazard ==
  ASSUME HazardInv, NEW t \in Threads, H!ScanOwn(t) \/ H!ScanTaken(t)
  PROVE  HazardInv'
<1>0. StackInv /\ HeapTypes /\ HazardTypes /\ TableOK /\ ScanOK
  BY DEF HazardInv, StackInv
<1> DEFINE i == index[t]
           n == Target(t)
<1>1. /\ NodesKept /\ UNCHANGED <<data, node, seen, val, calls, slotOwner, hazard, slot>>
      /\ \/ i <= Slots /\ hazard[i] # n /\ index' = [index EXCEPT ![t] = i + 1] /\ pc' = pc
            /\ pc[t] \in {"scan_own", "scan_taken"}
         \/ pc[t] = "scan_own" /\ index' = index /\ pc' = [pc EXCEPT ![t] = "defer_own"]
         \/ pc[t] = "scan_taken" /\ index' = index /\ pc' = [pc EXCEPT ![t] = "defer_taken"]
         \/ /\ pc[t] = "scan_own" /\ ~(i <= Slots) /\ index' = index
            /\ pc' = [pc EXCEPT ![t] = "delete_own"]
         \/ /\ pc[t] = "scan_taken" /\ ~(i <= Slots) /\ index' = index
            /\ pc' = [pc EXCEPT ![t] = "delete_taken"]
  <2>1. pc[t] = "scan_own" => n = node[t]
    BY DEF Target, OwnScan
  <2>2. pc[t] = "scan_taken" => n = Head(taken[t])
    BY DEF Target, OwnScan
  <2>3. i \in Nat /\ Slots \in Nat
    BY <1>0, HazardAssumption DEF HazardTypes
  <2> HIDE DEF n
  <2>4. CASE H!ScanOwn(t)
    BY <2>1, <2>3, <2>4 DEF H!ScanOwn, H!Scan, H!Goto, H!heap, H!listVars, H!tableVars, NodesKept
  <2>5. CASE H!ScanTaken(t)
    BY <2>2, <2>3, <2>5 DEF H!ScanTaken, H!Scan, H!Goto, H!heap, H!listVars, H!tableVars, NodesKept
  <2> QED
    BY <2>4, <2>5
<1>2. i \in 1 .. (Slots + 1) /\ Slots \in Nat
  BY <1>0, HazardAssumption DEF HazardTypes
<1>3. i <= Slots => i + 1 \in 1 .. (Slots + 1)
  BY <1>2
<1> HIDE DEF i, n
<1>4. HazardTypes' /\ HeapTypes'
  <2>1. HeapTypes'
    BY <1>0, <1>1 DEF HeapTypes, NodesKept
  <2>2. pc' \in [Threads -> HazardLabels]
    BY <1>0, <1>1 DEF HazardTypes, HazardLabels
  <2>3. index' \in [Threads -> 1 .. (Slots + 1)]
    BY <1>0, <1>1, <1>3 DEF HazardTypes
  <2> QED
    BY <1>0, <1>1, <2>1, <2>2, <2>3 DEF HazardTypes, NodesKept
<1>5. /\ ThreadStep(t) /\ node'[t] = node[t] /\ pc[t] \in {"scan_own", "scan_taken"}
      /\ \/ i <= Slots /\ hazard[i] # n /\ index'[t] = i + 1 /\ pc'[t] = pc[t]
         \/ pc[t] = "scan_own" /\ pc'[t] = "defer_own"
         \/ pc[t] = "scan_taken" /\ pc'[t] = "defer_taken"
         \/ pc[t] = "scan_own" /\ ~(i <= Slots) /\ pc'[t] = "delete_own"
         \/ pc[t] = "scan_taken" /\ ~(i <= Slots) /\ pc'[t] = "delete_taken"
  BY <1>0, <1>1, <1>4 DEF ThreadStep, HazardTypes, HeapTypes, NodesKept
<1>6. StackInv'
  <2>1. Elsewhere(pc'[t])
    BY <1>5 DEF Elsewhere, Holding, Looking, Pushing
  <2>2. Bystander(t)
    BY <1>1, <1>5 DEF Bystander, ThreadStep, NodesKept
  <2> QED
    BY <1>0, <2>1, <2>2, ElsewhereInv
<1>7. TableOK'
  BY <1>0, <1>1, <1>5, TableKept DEF SlotUsers, Looking
<1>8. H!Private(t)' = H!Private(t)
  BY <1>1, <1>5 DEF H!Private
<1>9. pc[t] = "scan_own" => node[t] # Null
  BY DEF HazardInv, ListsOK, OwnScan
<1>10. LooksFrom(t)
  BY <1>5 DEF LooksFrom, Looking
<1>11. ScansFrom(t)
  <2>1. slot'[t] = slot[t]
    BY <1>1
  <2>2. pc'[t] \in Scanning => Target(t)' = n
    BY <1>1, <1>5 DEF Target, n, OwnScan, Scanning, NodesKept
  <2>3. ASSUME NEW u \in Threads \ {t}, pc[u] \in Looking, node[u] = n
        PROVE  i <= slot[u] /\ slot[u] <= Slots /\ hazard[slot[u]] = n /\ slot[u] \in Nat
    <3>1. pc[t] \in Scanning
      BY <1>5 DEF Scanning, OwnScan
    <3>2. i <= slot[u]
      BY <1>0, <2>3, <3>1 DEF ScanOK, i, n
    <3>3. slot[u] <= Slots /\ slot[u] \in Nat
      BY <1>0, <1>2, <2>3, ScanStarts DEF HazardTypes
    <3>4. hazard[slot[u]] = n
      BY <1>0, <2>3 DEF TableOK
    <3> QED
      BY <3>2, <3>3, <3>4
  <2>4. ASSUME pc'[t] \in Scanning, NEW u \in Threads \ {t}, pc[u] \in Looking, node[u] = n
        PROVE  pc'[t] \in {"scan_own", "scan_taken"} /\ index'[t] <= slot[u]
    <3>1. i <= slot[u] /\ slot[u] <= Slots /\ hazard[slot[u]] = n /\ slot[u] \in Nat
      BY <2>3, <2>4
    <3>2. i <= Slots
      BY <1>2, <3>1
    <3>3. hazard[i] # n /\ index'[t] = i + 1 /\ pc'[t] = pc[t]
      BY <1>5, <2>4, <3>2 DEF Scanning, OwnScan
    <3>4. i # slot[u]
      BY <3>1, <3>3
    <3>5. i + 1 <= slot[u]
      BY <1>2, <3>1, <3>4
    <3> QED
      BY <1>5, <3>3, <3>5
  <2> QED
    BY <2>1, <2>2, <2>4 DEF ScansFrom
<1> QED
  BY <1>1, <1>5, <1>6, <1>7, <1>8, <1>9, <1>10, <1>11, NodesKeptInv DEF Sweeping, OwnScan

\* Leaving a node on the list: the popped one, or one of the list that was taken.
LEMMA DeferHazard ==
  ASSUME HazardInv, NEW t \in Threads, H!DeferOwn(t) \/ H!DeferTaken(t)
  PROVE  HazardInv'
<1>0. StackInv /\ HeapTypes /\ HazardTypes /\ TableOK /\ ListsOK /\ HazardOwners
  BY DEF HazardInv, StackInv
<1> DEFINE n == IF pc[t] = "defer_own" THEN node[t] ELSE Head(taken[t])
           s == taken[t]
<1>1. /\ UNCHANGED <<allocated, data, next, head, node, seen, val, calls, slotOwner, hazard, slot>>
      /\ reclaim' = <<n>> \o reclaim
      /\ \/ /\ pc[t] = "defer_own" /\ pc' = [pc EXCEPT ![t] = "take_list"]
            /\ taken' = taken /\ index' = index
         \/ /\ pc[t] = "defer_taken" /\ taken' = [taken EXCEPT ![t] = Tail(s)]
            /\ index' = [index EXCEPT ![t] = 1]
            /\ pc' = [pc EXCEPT ![t] = IF Len(s) = 1 THEN "return" ELSE "scan_taken"]
  BY DEF H!DeferOwn, H!DeferTaken, H!NextTaken, H!StartScan, H!Goto, H!heap, H!tableVars
<1>2. s \in Seq(Nodes) /\ Distinct(s) /\ (s # <<>> <=> pc[t] \in Sweeping) /\ 1 \in 1 .. (Slots + 1)
  BY <1>0, HazardAssumption DEF HazardTypes, ListsOK
<1>3. pc[t] = "defer_taken" => /\ Head(s) \in Nodes /\ Head(s) \in Swept(t) /\ Tail(s) \in Seq(Nodes)
                               /\ Tail(s) = <<>> <=> Len(s) = 1
                               /\ Swept(t) = {Head(s)} \cup H!SeqRange(Tail(s))
                               /\ Distinct(Tail(s)) /\ Head(s) \notin H!SeqRange(Tail(s))
  BY <1>2, RestNodes DEF Sweeping, Swept
<1>4. pc[t] = "defer_own" => node[t] \in Nodes /\ H!Private(t) = {node[t]} /\ s = <<>>
  BY <1>0, <1>2 DEF ListsOK, HeapTypes, H!Private, Sweeping
<1>5. n \in Nodes /\ n \in Kin(t) /\ pc[t] \in {"defer_own", "defer_taken"}
  BY <1>1, <1>3, <1>4 DEF Kin
<1>6. n \notin Reclaimable /\ Distinct(reclaim)
  BY <1>0, <1>5 DEF HazardOwners, ListsOK
<1> HIDE DEF s, n
<1>7. /\ reclaim' \in Seq(Nodes) /\ Distinct(reclaim)'
      /\ Reclaimable' = {n} \cup Reclaimable
  <2>1. reclaim \in Seq(Nodes)
    BY <1>0 DEF HazardTypes
  <2> QED
    BY <1>1, <1>5, <1>6, <2>1, ConsNodes DEF Reclaimable
<1>8. HazardTypes' /\ HeapTypes'
  <2>1. HeapTypes'
    BY <1>0, <1>1 DEF HeapTypes
  <2>2. pc' \in [Threads -> HazardLabels] /\ index' \in [Threads -> 1 .. (Slots + 1)]
    BY <1>0, <1>1, <1>2 DEF HazardTypes, HazardLabels
  <2>3. taken' \in [Threads -> Seq(Nodes)]
    BY <1>0, <1>1, <1>3 DEF HazardTypes
  <2> QED
    BY <1>0, <1>1, <1>7, <2>1, <2>2, <2>3 DEF HazardTypes
<1>9. /\ ThreadStep(t) /\ node'[t] = node[t]
      /\ \/ pc[t] = "defer_own" /\ pc'[t] = "take_list" /\ taken'[t] = s
         \/ /\ pc[t] = "defer_taken" /\ pc'[t] = IF Len(s) = 1 THEN "return" ELSE "scan_taken"
            /\ taken'[t] = Tail(s) /\ index'[t] = 1
  BY <1>0, <1>1, <1>8 DEF ThreadStep, HazardTypes, HeapTypes, s
<1>10. StackInv' /\ Chain' = Chain
  <2>1. Elsewhere(pc'[t])
    BY <1>9 DEF Elsewhere, Holding, Looking, Pushing
  <2>2. Bystander(t)
    BY <1>1, <1>9 DEF Bystander, ThreadStep
  <2> QED
    BY <1>0, <1>1, <2>1, <2>2, ElsewhereInv DEF Chain
<1>11. TableOK'
  BY <1>0, <1>1, <1>9, TableKept DEF SlotUsers, Looking
<1>12. ListsOf(t)'
  BY <1>2, <1>3, <1>9 DEF ListsOf, Sweeping, OwnScan
<1>13. Kin(t) = {n} \cup Kin(t)' /\ n \notin Kin(t)'
  <2>1. CASE pc[t] = "defer_own"
    <3>1. H!Private(t)' = {} /\ Swept(t)' = {} /\ Swept(t) = {}
      BY <1>4, <1>9, <2>1, NilNodes DEF H!Private, Swept, s
    <3> QED
      BY <1>4, <2>1, <3>1 DEF Kin, n
  <2>2. CASE pc[t] = "defer_taken"
    <3>1. H!Private(t)' = {} /\ H!Private(t) = {} /\ Swept(t)' = H!SeqRange(Tail(s)) /\ n = Head(s)
      BY <1>9, <2>2 DEF H!Private, Swept, H!SeqRange, n, s
    <3> QED
      BY <1>3, <2>2, <3>1 DEF Kin
  <2> QED
    BY <1>5, <2>1, <2>2
<1>14. HazardOwners'
  <2>1. \A m : m \in Reach(t)' <=> m \in Reach(t)
    BY <1>7, <1>10, <1>13 DEF Reach
  <2>2. Sorted(t)'
    BY <1>0, <1>7, <1>10, <1>13 DEF Sorted, HazardOwners
  <2>3. \A m : m \in Reach(t) => m \in allocated
    BY <1>0 DEF HazardOwners, Reach
  <2> QED
    BY <1>0, <1>1, <1>9, <2>1, <2>2, <2>3, OthersKin, HazardMove
<1>15. LooksFrom(t) /\ ScansFrom(t)
  BY <1>0, <1>1, <1>9, ScanStarts DEF LooksFrom, ScansFrom, Looking, Scanning, OwnScan
<1> QED
  BY <1>7, <1>9, <1>10, <1>11, <1>12, <1>14, <1>15, HazardParts
-------------------------------------------------------------------------------
\* delete: no slot names the node that is freed, the popped one or one of the list
\* that was taken, and nobody looks into it.
LEMMA DeleteHazard ==
  ASSUME HazardInv, NEW t \in Threads, H!DeleteOwn(t) \/ H!DeleteTaken(t)
  PROVE  HazardInv'
<1>0. StackInv /\ HeapTypes /\ HazardTypes /\ TableOK /\ ListsOK /\ HazardOwners /\ ScanOK
  BY DEF HazardInv, StackInv
<1> DEFINE n == IF pc[t] = "delete_own" THEN node[t] ELSE Head(taken[t])
           s == taken[t]
<1>1. /\ UNCHANGED <<data, next, head, node, seen, val, calls, slotOwner, hazard, slot, reclaim>>
      /\ allocated' = allocated \ {n}
      /\ \/ /\ pc[t] = "delete_own" /\ pc' = [pc EXCEPT ![t] = "take_list"]
            /\ taken' = taken /\ index' = index
         \/ /\ pc[t] = "delete_taken" /\ taken' = [taken EXCEPT ![t] = Tail(s)]
            /\ index' = [index EXCEPT ![t] = 1]
            /\ pc' = [pc EXCEPT ![t] = IF Len(s) = 1 THEN "return" ELSE "scan_taken"]
  BY DEF H!DeleteOwn, H!DeleteTaken, H!NextTaken, H!StartScan, H!Goto, H!tableVars, H!hazardVars,
         H!listVars
<1>2. s \in Seq(Nodes) /\ Distinct(s) /\ (s # <<>> <=> pc[t] \in Sweeping) /\ 1 \in 1 .. (Slots + 1)
  BY <1>0, HazardAssumption DEF HazardTypes, ListsOK
<1>3. pc[t] = "delete_taken" => /\ Head(s) \in Nodes /\ Head(s) \in Swept(t) /\ Tail(s) \in Seq(Nodes)
                                /\ Tail(s) = <<>> <=> Len(s) = 1
                                /\ Swept(t) = {Head(s)} \cup H!SeqRange(Tail(s))
                                /\ Distinct(Tail(s)) /\ Head(s) \notin H!SeqRange(Tail(s))
  BY <1>2, RestNodes DEF Sweeping, Swept
<1>4. pc[t] = "delete_own" => node[t] \in Nodes /\ H!Private(t) = {node[t]} /\ s = <<>>
  BY <1>0, <1>2 DEF ListsOK, HeapTypes, H!Private, Sweeping, OwnScan
<1>5. n \in Nodes /\ n \in Kin(t) /\ pc[t] \in {"delete_own", "delete_taken"} /\ n = Target(t)
  BY <1>1, <1>3, <1>4 DEF Kin, Target, OwnScan
<1> HIDE DEF s, n
<1>6. \A u \in Threads : pc[u] \in Looking => node[u] # n
  BY <1>0, <1>5 DEF ScanOK, Scanning, OwnScan
<1>7. HazardTypes' /\ HeapTypes'
  <2>1. HeapTypes'
    BY <1>0, <1>1 DEF HeapTypes
  <2>2. pc' \in [Threads -> HazardLabels] /\ index' \in [Threads -> 1 .. (Slots + 1)]
    BY <1>0, <1>1, <1>2 DEF HazardTypes, HazardLabels
  <2>3. taken' \in [Threads -> Seq(Nodes)]
    BY <1>0, <1>1, <1>3 DEF HazardTypes
  <2> QED
    BY <1>0, <1>1, <2>1, <2>2, <2>3 DEF HazardTypes
<1>8. /\ ThreadStep(t) /\ node'[t] = node[t]
      /\ \/ pc[t] = "delete_own" /\ pc'[t] = "take_list" /\ taken'[t] = s
         \/ /\ pc[t] = "delete_taken" /\ pc'[t] = IF Len(s) = 1 THEN "return" ELSE "scan_taken"
            /\ taken'[t] = Tail(s) /\ index'[t] = 1
  BY <1>0, <1>1, <1>7 DEF ThreadStep, HazardTypes, HeapTypes, s
<1>9. StackInv' /\ Chain' = Chain
  <2>1. Elsewhere(pc'[t])
    BY <1>8 DEF Elsewhere, Holding, Looking, Pushing
  <2>2. \A m \in allocated : m \notin Kin(t) => m \in allocated' /\ data'[m] = data[m]
    BY <1>1, <1>5
  <2>3. \A u \in Threads \ {t} : pc[u] \in Looking /\ node[u] # Null => node[u] \in allocated'
    BY <1>0, <1>1, <1>6 DEF StackInv, LooksOK
  <2> QED
    BY <1>1, <1>8, <2>1, <2>2, <2>3, KinStep
<1>10. TableOK'
  BY <1>0, <1>1, <1>8, TableKept DEF SlotUsers, Looking
<1>11. ListsOf(t)'
  BY <1>2, <1>3, <1>8 DEF ListsOf, Sweeping, OwnScan
<1>12. Distinct(reclaim)' /\ Reclaimable' = Reclaimable
  BY <1>0, <1>1 DEF ListsOK, Distinct, Reclaimable, H!SeqRange
<1>13. \A m : m \in Kin(t)' <=> m \in Kin(t) /\ m # n
  <2>1. CASE pc[t] = "delete_own"
    <3>1. H!Private(t)' = {} /\ Swept(t)' = {} /\ Swept(t) = {}
      BY <1>4, <1>8, <2>1, NilNodes DEF H!Private, Swept, s
    <3> QED
      BY <1>4, <2>1, <3>1 DEF Kin, n
  <2>2. CASE pc[t] = "delete_taken"
    <3>1. H!Private(t)' = {} /\ H!Private(t) = {} /\ Swept(t)' = H!SeqRange(Tail(s)) /\ n = Head(s)
      BY <1>8, <2>2 DEF H!Private, Swept, H!SeqRange, n, s
    <3> QED
      BY <1>3, <2>2, <3>1 DEF Kin
  <2> QED
    BY <1>5, <2>1, <2>2
<1>14. HazardOwners'
  <2>1. n \notin Chain /\ n \notin Reclaimable
    BY <1>0, <1>5 DEF HazardOwners
  <2>2. \A m : m \in Reach(t)' <=> m \in Reach(t) /\ m # n
    BY <1>9, <1>12, <1>13, <2>1 DEF Reach
  <2>3. Sorted(t)'
    BY <1>0, <1>9, <1>12, <1>13 DEF Sorted, HazardOwners
  <2>4. (\A m : m \in Reach(t) => m \in allocated) /\ n \in Reach(t)
    BY <1>0, <1>5 DEF HazardOwners, Reach
  <2> QED
    BY <1>0, <1>1, <1>8, <2>2, <2>3, <2>4, OthersKin, HazardMove
<1>15. LooksFrom(t) /\ ScansFrom(t)
  BY <1>0, <1>1, <1>8, ScanStarts DEF LooksFrom, ScansFrom, Looking, Scanning, OwnScan
<1> QED
  BY <1>8, <1>9, <1>10, <1>11, <1>12, <1>14, <1>15, HazardParts

\* Taking the list.
LEMMA TakeListHazard ==
  ASSUME HazardInv, NEW t \in Threads, H!TakeList(t)
  PROVE  HazardInv'
<1>0. StackInv /\ HeapTypes /\ HazardTypes /\ TableOK /\ ListsOK /\ HazardOwners
  BY DEF HazardInv, StackInv
<1>1. /\ UNCHANGED <<allocated, data, next, head, node, seen, val, calls, slotOwner, hazard, slot>>
      /\ pc[t] = "take_list" /\ reclaim' = <<>> /\ taken' = [taken EXCEPT ![t] = reclaim]
      /\ index' = [index EXCEPT ![t] = 1]
      /\ pc' = [pc EXCEPT ![t] = IF reclaim = <<>> THEN "return" ELSE "scan_taken"]
  BY DEF H!TakeList, H!StartScan, H!Goto, H!heap, H!tableVars
<1>2. reclaim \in Seq(Nodes) /\ Distinct(reclaim) /\ 1 \in 1 .. (Slots + 1) /\ <<>> \in Seq(Nodes)
  BY <1>0, HazardAssumption DEF HazardTypes, ListsOK
<1>3. HazardTypes' /\ HeapTypes'
  <2>1. HeapTypes'
    BY <1>0, <1>1 DEF HeapTypes
  <2>2. pc' \in [Threads -> HazardLabels] /\ index' \in [Threads -> 1 .. (Slots + 1)]
    BY <1>0, <1>1, <1>2 DEF HazardTypes, HazardLabels
  <2>3. taken' \in [Threads -> Seq(Nodes)]
    BY <1>0, <1>1, <1>2 DEF HazardTypes
  <2> QED
    BY <1>0, <1>1, <1>2, <2>1, <2>2, <2>3 DEF HazardTypes
<1>4. /\ ThreadStep(t) /\ node'[t] = node[t] /\ taken'[t] = reclaim /\ index'[t] = 1
      /\ pc'[t] = IF reclaim = <<>> THEN "return" ELSE "scan_taken"
  BY <1>0, <1>1, <1>3 DEF ThreadStep, HazardTypes, HeapTypes
<1>5. StackInv' /\ Chain' = Chain
  <2>1. Elsewhere(pc'[t])
    BY <1>4 DEF Elsewhere, Holding, Looking, Pushing
  <2>2. Bystander(t)
    BY <1>1, <1>4 DEF Bystander, ThreadStep
  <2> QED
    BY <1>0, <1>1, <2>1, <2>2, ElsewhereInv DEF Chain
<1>6. TableOK'
  BY <1>0, <1>1, <1>4, TableKept DEF SlotUsers, Looking
<1>7. ListsOf(t)'
  BY <1>2, <1>4 DEF ListsOf, Distinct, Sweeping, OwnScan
<1>8. Distinct(reclaim)' /\ Reclaimable' = {}
  BY <1>1, NilNodes DEF Distinct, Reclaimable, H!SeqRange
<1>9. Kin(t)' = Reclaimable /\ Kin(t) = {}
  <2>1. taken[t] = <<>> /\ H!Private(t) = {} /\ H!Private(t)' = {}
    BY <1>0, <1>1, <1>4 DEF ListsOK, Sweeping, H!Private
  <2>2. Swept(t) = {} /\ Swept(t)' = Reclaimable
    BY <1>4, <2>1, NilNodes DEF Swept, Reclaimable, H!SeqRange
  <2> QED
    BY <2>1, <2>2 DEF Kin
<1>10. HazardOwners'
  <2>1. \A m : m \in Reach(t)' <=> m \in Reach(t)
    BY <1>5, <1>8, <1>9 DEF Reach
  <2>2. Sorted(t)'
    BY <1>0, <1>5, <1>8, <1>9 DEF Sorted, HazardOwners
  <2>3. \A m : m \in Reach(t) => m \in allocated
    BY <1>0 DEF HazardOwners, Reach
  <2> QED
    BY <1>0, <1>1, <1>4, <2>1, <2>2, <2>3, OthersKin, HazardMove
<1>11. LooksFrom(t) /\ ScansFrom(t)
  BY <1>0, <1>1, <1>4, ScanStarts DEF LooksFrom, ScansFrom, Looking, Scanning, OwnScan
<1> QED
  BY <1>4, <1>5, <1>6, <1>7, <1>8, <1>10, <1>11, HazardParts
-------------------------------------------------------------------------------
(* p281: every step, and what follows. *)

\* The invariant holds at the start.
LEMMA HazardStart ==
  ASSUME H!HazardInit
  PROVE  HazardInv
<1>1. Init /\ StackInv
  <2>1. Init
    BY DEF H!HazardInit, H!Init, Init
  <2> QED
    BY <2>1, SimpleInit
<1>2. /\ slotOwner = [i \in 1 .. Slots |-> NoThread] /\ hazard = [i \in 1 .. Slots |-> Null]
      /\ slot = [t \in Threads |-> 0] /\ index = [t \in Threads |-> 1]
      /\ reclaim = <<>> /\ taken = [t \in Threads |-> <<>>]
  BY DEF H!HazardInit
<1>3. /\ allocated = {} /\ next = [n \in Nodes |-> Null] /\ head = Null
      /\ pc = [t \in Threads |-> "idle"] /\ node = [t \in Threads |-> Null] /\ calls = 0
  BY <1>1 DEF Init
<1>4. HazardTypes
  BY <1>2, <1>3, HazardAssumption, TreiberStackAssumption DEF HazardTypes, HazardLabels
<1>5. TableOK
  BY <1>2, <1>3, HazardAssumption DEF TableOK, SlotUsers, Looking
<1>6. ListsOK
  BY <1>2, <1>3, NilNodes DEF ListsOK, Sweeping, OwnScan
<1>7. HazardOwners
  <2>1. IsFiniteSet(DOMAIN next) /\ Null \notin DOMAIN next
    BY <1>1, Heap DEF StackInv
  <2>2. Chain = {}
    BY <1>3, <2>1, ListNull DEF Chain
  <2>3. Reclaimable = {} /\ \A t \in Threads : Kin(t) = {}
    BY <1>2, <1>3, NilNodes DEF Reclaimable, Kin, Swept, H!Private
  <2> QED
    BY <1>3, <2>2, <2>3 DEF HazardOwners
<1>8. ScanOK
  BY <1>3 DEF ScanOK, Scanning, OwnScan
<1> QED
  BY <1>1, <1>4, <1>5, <1>6, <1>7, <1>8 DEF HazardInv

\* Every step of p281 keeps its invariant.
LEMMA HazardStep ==
  ASSUME HazardInv, H!HazardNext
  PROVE  HazardInv'
<1>1. PICK t \in Threads : \/ H!Common(t) /\ UNCHANGED H!hazardVars
                           \/ H!EnterPop(t)
                           \/ H!PopStep(t)
                           \/ H!ThreadEnds(t)
  BY DEF H!HazardNext
<1>2. CASE H!Common(t) /\ UNCHANGED H!hazardVars
  <2>1. UNCHANGED hazardVars
    BY <1>2 DEF H!hazardVars, H!tableVars, H!listVars, hazardVars
  <2> QED
    BY <1>2, <2>1, PushHazard, PopHazard DEF H!Common
<1>3. CASE H!EnterPop(t)
  BY <1>3, EnterHazard
<1>4. CASE H!PopStep(t)
  <2>1. CASE H!AcquireSlot(t) \/ H!NoSlots(t)
    BY <2>1, AcquireHazard
  <2>2. CASE H!LoadHead(t) \/ H!SetHazard(t) \/ H!Reload(t)
    BY <2>2, LoadHazard
  <2>3. CASE H!ClearHazard(t)
    BY <2>3, ClearHazardInv
  <2>4. CASE H!TakeData(t)
    BY <2>4, TakeDataHazard
  <2>5. CASE H!ScanOwn(t) \/ H!ScanTaken(t)
    BY <2>5, ScanHazard
  <2>6. CASE H!DeferOwn(t) \/ H!DeferTaken(t)
    BY <2>6, DeferHazard
  <2>7. CASE H!DeleteOwn(t) \/ H!DeleteTaken(t)
    BY <2>7, DeleteHazard
  <2>8. CASE H!TakeList(t)
    BY <2>8, TakeListHazard
  <2> QED
    BY <1>4, <2>1, <2>2, <2>3, <2>4, <2>5, <2>6, <2>7, <2>8 DEF H!PopStep
<1>5. CASE H!ThreadEnds(t)
  BY <1>5, EndHazard
<1> QED
  BY <1>1, <1>2, <1>3, <1>4, <1>5

\* The invariant gives the types.
LEMMA HazardTypesHold ==
  ASSUME HazardInv
  PROVE  H!HazardTypeOK
<1>1. calls \in 0 .. (MaxCalls - 1) /\ StackInv /\ HazardTypes /\ TableOK
  BY DEF HazardInv, HazardTypes
<1> QED
  BY <1>1 DEF StackInv, HeapTypes, HazardTypes, TableOK, H!HazardTypeOK

\* What a thread writes to is its own: it pushes the node, took it off the stack, or
\* has found no slot that names it.
LEMMA HazardWrites ==
  ASSUME HazardInv, NEW t \in Threads, NEW x \in H!Writes(t)
  PROVE  /\ x[1] \in Kin(t)
         /\ \/ pc[t] \in Pushing /\ x[1] = node[t]
            \/ pc[t] = "pop_data" /\ x[2] = "data"
            \/ pc[t] \in {"delete_own", "delete_taken"} /\ x[1] = Target(t)
<1>1. CASE pc[t] \in Pushing
  <2>1. x = <<node[t], "next">> /\ node[t] # Null
    BY <1>1 DEF H!Writes, Pushing, HazardInv, StackInv, HoldsOK
  <2> QED
    BY <1>1, <2>1 DEF Kin, H!Private, Pushing
<1>2. CASE pc[t] = "pop_data"
  <2>1. x = <<node[t], "data">> /\ node[t] # Null
    BY <1>2 DEF H!Writes, HazardInv, StackInv, HoldsOK
  <2> QED
    BY <1>2, <2>1 DEF Kin, H!Private
<1>3. CASE pc[t] \in {"delete_own", "delete_taken"}
  <2>1. x[1] = Target(t)
    BY <1>3 DEF H!Writes, Target, OwnScan
  <2>2. Target(t) \in Kin(t)
    BY <1>3, TargetOwned DEF Scanning, OwnScan
  <2> QED
    BY <1>3, <2>1, <2>2
<1>4. pc[t] \in Pushing \cup {"pop_data", "delete_own", "delete_taken"}
  BY DEF H!Writes, Pushing
<1> QED
  BY <1>1, <1>2, <1>3, <1>4

\* What it reads too, but for the link of the node its slot names.
LEMMA HazardReads ==
  ASSUME HazardInv, NEW t \in Threads, NEW x \in H!Reads(t)
  PROVE  \/ x[1] \in Kin(t)
         \/ pc[t] = "pop_next" /\ node[t] # Null /\ x[1] = node[t] /\ x[2] = "next"
<1>1. \/ pc[t] = "pop_next" /\ node[t] # Null /\ x[1] = node[t] /\ x[2] = "next"
      \/ pc[t] = "pop_data" /\ x[1] = node[t]
  BY DEF H!Reads
<1>2. pc[t] = "pop_data" => node[t] # Null
  BY DEF HazardInv, StackInv, HoldsOK
<1> QED
  BY <1>1, <1>2 DEF Kin, H!Private

\* p281 uses no node that was freed.
LEMMA HazardUse ==
  ASSUME HazardInv
  PROVE  H!NoUseAfterFree
<1> SUFFICES ASSUME NEW t \in Threads, NEW x \in H!Reads(t) \cup H!Writes(t)
             PROVE  x[1] \in allocated
  BY DEF H!NoUseAfterFree
<1>1. x[1] \in Kin(t) => x[1] \in allocated
  BY DEF HazardInv, HazardOwners
<1>2. pc[t] = "pop_next" /\ node[t] # Null => node[t] \in allocated
  BY DEF HazardInv, StackInv, LooksOK, Looking
<1> QED
  BY <1>1, <1>2, HazardWrites, HazardReads

\* p281 has no data race on a node.
LEMMA HazardRaces ==
  ASSUME HazardInv
  PROVE  H!NoDataRace
<1> SUFFICES ASSUME NEW t \in Threads, NEW u \in Threads, t # u,
                    NEW x \in H!Writes(t) \cap (H!Reads(u) \cup H!Writes(u))
             PROVE  FALSE
  BY DEF H!NoDataRace
<1>1. x[1] \in Kin(t) /\ x[1] \notin Kin(u)
  BY HazardWrites DEF HazardInv, HazardOwners
<1>2. pc[u] = "pop_next" /\ node[u] # Null /\ x[1] = node[u] /\ x[2] = "next"
  BY <1>1, HazardWrites, HazardReads
<1>3. ~(pc[t] \in Pushing /\ x[1] = node[t])
  BY <1>2 DEF HazardInv, StackInv, LooksOK, Looking
<1>4. ~(pc[t] \in {"delete_own", "delete_taken"} /\ x[1] = Target(t))
  BY <1>2 DEF HazardInv, ScanOK, Looking, Scanning, OwnScan
<1> QED
  BY <1>2, <1>3, <1>4, HazardWrites
-------------------------------------------------------------------------------
(* push and pop take effect at one instant each, in LIFO order. *)

Taken == {"clear_hazard", "pop_data"}

\* What a popping thread has got, in all three programs.
Got(t) == IF pc[t] \in Taken /\ node[t] # Null THEN data[node[t]] ELSE val[t]

\* A step of the abstract stack, or none.
GotBut(S) == \A u \in Threads \ S : Got(u)' = Got(u)
LifoStep ==
    \/ Contents' = Contents /\ GotBut({})
    \/ \E v \in Values : Contents' = <<v>> \o Contents /\ GotBut({})
    \/ \E t \in Threads : /\ Contents # <<>> /\ Got(t)' = Head(Contents)
                          /\ Contents' = Tail(Contents) /\ GotBut({t})
    \/ \E t \in Threads : Got(t)' = NoValue /\ Contents' = Contents /\ GotBut({t})

\* The links and the values of the stack are as they were.
StackSame == /\ head' = head /\ DOMAIN next' = Nodes
             /\ \A n \in Chain : next'[n] = next[n] /\ data'[n] = data[n]

\* Then the contents are the same.
LEMMA SameContents ==
  ASSUME StackInv, StackSame
  PROVE  Contents' = Contents
<1>1. IsList(next, Null, head) /\ DOMAIN next' = DOMAIN next
  BY Heap DEF StackInv, ListOK, StackSame
<1>2. \A n \in NodesFrom(next, Null, head) : next'[n] = next[n] /\ data'[n] = data[n]
  BY DEF StackSame, Chain
<1>3. ValuesFrom(next', Null, data', head) = ValuesFrom(next, Null, data, head)
  BY <1>1, <1>2, ListValuesSame
<1> QED
  BY <1>3 DEF Contents, StackSame

\* A step of t leaves the others alone, and what they hold.
Undisturbed(t) == \A u \in Threads \ {t} :
    /\ pc'[u] = pc[u] /\ node'[u] = node[u] /\ val'[u] = val[u]
    /\ pc[u] \in Taken /\ node[u] # Null => data'[node[u]] = data[node[u]]

\* The others have got what they had.
LEMMA OthersGot ==
  ASSUME NEW t \in Threads, Undisturbed(t)
  PROVE  GotBut({t})
  BY DEF GotBut, Undisturbed, Got

\* A step that neither pushes nor pops.
LEMMA AsideStep ==
  ASSUME StackInv, NEW t \in Threads, StackSame, Undisturbed(t), Got(t)' = Got(t)
  PROVE  LifoStep
<1>1. Contents' = Contents
  BY SameContents
<1>2. GotBut({})
  BY OthersGot DEF GotBut
<1> QED
  BY <1>1, <1>2 DEF LifoStep

\* Such a step, when t has no node in its hands before and after it.
LEMMA EmptyHanded ==
  ASSUME StackInv, NEW t \in Threads, head' = head, DOMAIN next' = Nodes,
         \A n \in Chain : next'[n] = next[n], UNCHANGED <<data, val>>,
         \A u \in Threads \ {t} : pc'[u] = pc[u] /\ node'[u] = node[u],
         pc[t] \in Taken => node[t] = Null, pc'[t] \in Taken => node'[t] = Null
  PROVE  LifoStep
<1>1. StackSame /\ Undisturbed(t)
  BY DEF StackSame, Undisturbed
<1>2. Got(t)' = Got(t)
  BY DEF Got
<1> QED
  BY <1>1, <1>2, AsideStep

\* The steps of push.
LEMMA PushLifo ==
  ASSUME StackInv, NEW t \in Threads, PushStep(t)
  PROVE  LifoStep
<1>0. HeapTypes /\ DOMAIN next = Nodes
  BY DEF StackInv, HeapTypes
<1>1. ASSUME NEW v \in Values, CallPush(t, v) PROVE LifoStep
  <2>1. PICK n \in Nodes \ allocated : /\ data' = [data EXCEPT ![n] = v]
                                       /\ node' = [node EXCEPT ![t] = n]
    BY <1>1 DEF CallPush
  <2>2. /\ pc[t] = "idle" /\ pc' = [pc EXCEPT ![t] = "push_load"]
        /\ UNCHANGED <<next, head, val>>
    BY <1>1 DEF CallPush, Goto
  <2>3. \A m \in allocated : data'[m] = data[m]
    BY <1>0, <2>1 DEF HeapTypes
  <2>4. StackSame
    BY <1>0, <2>2, <2>3 DEF StackSame, StackInv, ListOK
  <2>5. \A u \in Threads : pc[u] \in Taken /\ node[u] # Null => node[u] \in allocated
    BY HoldsLive DEF Taken, Holding
  <2>6. Undisturbed(t)
    BY <1>0, <2>1, <2>2, <2>3, <2>5 DEF Undisturbed, HeapTypes
  <2>7. Got(t)' = Got(t)
    BY <1>0, <2>2 DEF Got, Taken, HeapTypes
  <2> QED
    BY <2>4, <2>6, <2>7, AsideStep
<1>2. CASE PushLoad(t) \/ (PushCas(t) /\ head # next[node[t]])
  <2>1. /\ pc[t] \in Pushing /\ next' = [next EXCEPT ![node[t]] = head]
        /\ UNCHANGED <<data, head, node, val>>
        /\ pc' = [pc EXCEPT ![t] = "push_cas"] \/ pc' = pc
    BY <1>2 DEF PushLoad, PushCas, Goto, Pushing
  <2>2. node[t] \notin Chain
    BY <1>0, <2>1 DEF StackInv, HoldsOK, Holds, Holding, HeapTypes
  <2>3. DOMAIN next' = Nodes /\ \A n \in Chain : next'[n] = next[n]
    BY <1>0, <2>1, <2>2, HeadOnStack DEF StackInv
  <2>4. /\ \A u \in Threads \ {t} : pc'[u] = pc[u] /\ node'[u] = node[u]
        /\ pc[t] \notin Taken /\ pc'[t] \notin Taken
    BY <1>0, <2>1 DEF HeapTypes, Taken, Pushing
  <2> QED
    BY <2>1, <2>3, <2>4, EmptyHanded
<1>3. CASE PushCas(t) /\ head = next[node[t]]
  <2>1. data[node[t]] \in Values /\ Contents' = <<data[node[t]]>> \o Contents
    BY <1>3, PushedInv
  <2>2. /\ pc[t] = "push_cas" /\ pc' = [pc EXCEPT ![t] = "idle"]
        /\ node' = [node EXCEPT ![t] = Null] /\ UNCHANGED <<data, val>>
    BY <1>3 DEF PushCas, Goto
  <2>3. Undisturbed(t)
    BY <1>0, <2>2 DEF Undisturbed, HeapTypes
  <2>4. Got(t)' = Got(t)
    BY <1>0, <2>2 DEF Got, Taken, HeapTypes
  <2>5. GotBut({})
    BY <2>3, <2>4, OthersGot DEF GotBut
  <2> QED
    BY <2>1, <2>5 DEF LifoStep
<1> QED
  BY <1>1, <1>2, <1>3 DEF PushStep

\* The steps of pop that leave the heap alone.
LEMMA LookLifo ==
  ASSUME StackInv, NEW t \in Threads, UNCHANGED <<data, next, head, val>>,
         \A u \in Threads \ {t} : pc'[u] = pc[u] /\ node'[u] = node[u],
         pc[t] \in Taken => node[t] = Null, pc'[t] \in Taken => node'[t] = Null
  PROVE  LifoStep
<1>1. DOMAIN next' = Nodes
  BY DEF StackInv, HeapTypes
<1> QED
  BY <1>1, EmptyHanded

\* pop begins.
LEMMA CallPopLifo ==
  ASSUME StackInv, NEW t \in Threads, NEW l, l \notin Taken, CallPop(t, l)
  PROVE  LifoStep
<1>1. /\ UNCHANGED <<data, next, head, val>>
      /\ \A u \in Threads \ {t} : pc'[u] = pc[u] /\ node'[u] = node[u]
      /\ pc[t] \notin Taken /\ pc'[t] \notin Taken
  BY DEF CallPop, Goto, heap, StackInv, HeapTypes, Taken
<1> QED
  BY <1>1, LookLifo

\* Reading the link.
LEMMA PopNextLifo ==
  ASSUME StackInv, NEW t \in Threads, NEW l, PopNext(t, l)
  PROVE  LifoStep
<1>1. /\ UNCHANGED <<data, next, head, val, node>>
      /\ \A u \in Threads \ {t} : pc'[u] = pc[u] /\ node'[u] = node[u]
      /\ pc[t] \notin Taken
      /\ pc'[t] \in Taken => node'[t] = Null
  BY DEF PopNext, Goto, heap, StackInv, HeapTypes, Taken
<1> QED
  BY <1>1, LookLifo

\* The exchange takes the value at the head.
LEMMA PopCasLifo ==
  ASSUME StackInv, NEW t \in Threads, NEW p \in Taken, NEW l, l \notin Taken, PopCas(t, p, l)
  PROVE  LifoStep
<1>0. HeapTypes
  BY DEF StackInv
<1>1. CASE head = node[t] /\ head' = seen[t]
  <2>1. /\ pc[t] = "pop_cas" /\ pc' = [pc EXCEPT ![t] = p]
        /\ UNCHANGED <<allocated, data, next, node, seen, val>>
    BY <1>1 DEF PopCas, Goto, heap
  <2>2. HeapTypes'
    BY <1>0, <1>1, <2>1 DEF HeapTypes
  <2>3. pc' = [pc EXCEPT ![t] = "pop_data"] \/ pc' = [pc EXCEPT ![t] = "clear_hazard"]
    BY <2>1 DEF Taken
  <2>4. Contents # <<>> /\ Head(Contents) = data[node[t]] /\ Contents' = Tail(Contents)
    BY <1>1, <2>1, <2>2, <2>3, PoppedInv
  <2>5. node[t] # Null
    BY <2>1 DEF StackInv, LinkOK
  <2>6. Got(t)' = data[node[t]]
    BY <1>0, <2>1, <2>5 DEF Got, HeapTypes
  <2>7. Undisturbed(t)
    BY <1>0, <2>1 DEF Undisturbed, HeapTypes
  <2> QED
    BY <2>4, <2>6, <2>7, OthersGot DEF LifoStep
<1>2. CASE head # node[t]
  <2>1. /\ UNCHANGED <<data, next, head, val>>
        /\ \A u \in Threads \ {t} : pc'[u] = pc[u] /\ node'[u] = node[u]
        /\ pc[t] \notin Taken /\ pc'[t] \notin Taken
    BY <1>0, <1>2 DEF PopCas, Goto, heap, HeapTypes, Taken
  <2> QED
    BY <2>1, LookLifo
<1> QED
  BY <1>1, <1>2 DEF PopCas

\* The thread keeps the value and lets go of the node, which it may empty.
LEMMA TakeLifo ==
  ASSUME StackInv, NEW t \in Threads, NEW l, l \notin Taken, pc[t] = "pop_data",
         pc' = [pc EXCEPT ![t] = l], val' = [val EXCEPT ![t] = data[node[t]]],
         data' = data \/ data' = [data EXCEPT ![node[t]] = NoValue],
         UNCHANGED <<next, head, node>>
  PROVE  LifoStep
<1>0. HeapTypes
  BY DEF StackInv
<1>1. node[t] \in Nodes /\ node[t] # Null /\ Holds(t, node[t])
  BY <1>0 DEF StackInv, HoldsOK, Holds, Holding, HeapTypes
<1>2. node[t] \notin Chain /\ \A u \in Threads \ {t} : ~Holds(u, node[t])
  BY <1>1 DEF StackInv, HoldsOK
<1>3. \A m : m \in Nodes /\ m # node[t] => data'[m] = data[m]
  BY <1>0 DEF HeapTypes
<1>4. StackSame
  BY <1>0, <1>2, <1>3, HeadOnStack DEF StackSame, StackInv, HeapTypes
<1>5. Undisturbed(t)
  <2>1. \A u \in Threads \ {t} : pc[u] \in Taken /\ node[u] # Null => node[u] \in Nodes /\ node[u] # node[t]
    BY <1>0, <1>2 DEF Holds, Holding, Taken, HeapTypes
  <2> QED
    BY <1>0, <1>3, <2>1 DEF Undisturbed, HeapTypes
<1>6. Got(t)' = Got(t)
  BY <1>0, <1>1 DEF Got, Taken, HeapTypes
<1> QED
  BY <1>4, <1>5, <1>6, AsideStep

\* The caller gets the value.
LEMMA ReturnLifo ==
  ASSUME StackInv, NEW t \in Threads, Return(t)
  PROVE  LifoStep
<1>0. HeapTypes
  BY DEF StackInv
<1>1. /\ UNCHANGED <<data, next, head>> /\ pc' = [pc EXCEPT ![t] = "idle"]
      /\ val' = [val EXCEPT ![t] = NoValue] /\ node' = [node EXCEPT ![t] = Null]
  BY DEF Return, Goto, heap
<1>2. Contents' = Contents
  BY <1>1 DEF Contents
<1>3. Got(t)' = NoValue
  BY <1>0, <1>1 DEF Got, Taken, HeapTypes
<1>4. Undisturbed(t)
  BY <1>0, <1>1 DEF Undisturbed, HeapTypes
<1> QED
  BY <1>2, <1>3, <1>4, OthersGot DEF LifoStep

\* Every step of p270 is a step of the abstract stack, or none.
LEMMA SimpleLifo ==
  ASSUME SimpleInv, Next
  PROVE  LifoStep
<1>0. StackInv
  BY DEF SimpleInv
<1>1. PICK t \in Threads : \/ PushStep(t)
                           \/ CallPop(t, "pop_load")
                           \/ PopLoad(t)
                           \/ PopNext(t, "return")
                           \/ PopCas(t, "pop_data", "pop_next")
                           \/ PopCasSpurious(t)
                           \/ PopData(t)
                           \/ Return(t)
  BY DEF Next
<1>2. "pop_load" \notin Taken /\ "pop_next" \notin Taken /\ "pop_data" \in Taken /\ "return" \notin Taken
  BY DEF Taken
<1>3. CASE PushStep(t)
  BY <1>0, <1>3, PushLifo
<1>4. CASE CallPop(t, "pop_load")
  BY <1>0, <1>2, <1>4, CallPopLifo
<1>5. CASE PopLoad(t) \/ PopCasSpurious(t)
  <2>1. /\ UNCHANGED <<data, next, head, val>>
        /\ \A u \in Threads \ {t} : pc'[u] = pc[u] /\ node'[u] = node[u]
        /\ pc[t] \notin Taken /\ pc'[t] \notin Taken
    BY <1>0, <1>5 DEF PopLoad, PopCasSpurious, Goto, heap, StackInv, HeapTypes, Taken
  <2> QED
    BY <1>0, <2>1, LookLifo
<1>6. CASE PopNext(t, "return")
  BY <1>0, <1>6, PopNextLifo
<1>7. CASE PopCas(t, "pop_data", "pop_next")
  BY <1>0, <1>2, <1>7, PopCasLifo
<1>8. CASE PopData(t)
  BY <1>0, <1>2, <1>8, TakeLifo DEF PopData, Goto, heap
<1>9. CASE Return(t)
  BY <1>0, <1>9, ReturnLifo
<1> QED
  BY <1>1, <1>3, <1>4, <1>5, <1>6, <1>7, <1>8, <1>9

\* The reclaiming steps of p272 write to links of the thread's own nodes only.
LEMMA ReclaimLifo ==
  ASSUME CountedInv, NEW t \in Threads, Reclaim(t)
  PROVE  LifoStep
<1>0. StackInv /\ HeapTypes /\ BatchOK(t)
  BY DEF CountedInv, StackInv
<1>1. UNCHANGED <<data, head, node, val>>
  BY DEF Reclaim, TestAlone, TakePending, LeaveAlone, DeleteNodes, DeleteHead, ChainLoad, Crash,
         ChainCas, Leave, heap
<1>2. /\ \A u \in Threads \ {t} : pc'[u] = pc[u]
      /\ pc[t] \notin Taken /\ pc'[t] \notin Taken
  BY <1>0 DEF HeapTypes, Taken, Reclaim, TestAlone, TakePending, LeaveAlone, DeleteNodes, DeleteHead,
         ChainLoad, Crash, ChainCas, Leave, Goto
<1>3. next' = next \/ \E n \in Mine(t) : \E m : next' = [next EXCEPT ![n] = m]
  <2>1. CASE ChainLoad(t)
    <3>1. PICK n \in ListFrom(First(t)) : /\ IF pc[t] = "chain_batch" THEN next[n] = Null ELSE n = node[t]
                                          /\ next' = [next EXCEPT ![n] = pending]
      BY <2>1 DEF ChainLoad
    <3>2. n \in Mine(t)
      <4>1. CASE pc[t] = "chain_batch"
        BY <3>1, <4>1 DEF First, Mine, Batch
      <4>2. CASE pc[t] # "chain_batch"
        BY <2>1, <3>1, <4>2 DEF ChainLoad, First, Mine, Private
      <4> QED
        BY <4>1, <4>2
    <3> QED
      BY <3>1, <3>2
  <2>2. CASE ChainCas(t)
    <3>1. last[t] \in Mine(t)
      BY <1>0, <2>2 DEF ChainCas, BatchOK, Mine, Private
    <3> QED
      BY <2>2, <3>1 DEF ChainCas
  <2>3. CASE ~ChainLoad(t) /\ ~ChainCas(t)
    BY <2>3 DEF Reclaim, TestAlone, TakePending, LeaveAlone, DeleteNodes, DeleteHead, Crash, Leave, heap
  <2> QED
    BY <2>1, <2>2, <2>3
<1>4. DOMAIN next' = Nodes /\ \A n \in Chain : next'[n] = next[n]
  <2>1. \A n \in Chain : n \notin Mine(t) /\ n \in Nodes
    BY <1>0, HeadOnStack DEF CountedInv, OwnersOK, StackInv
  <2> QED
    BY <1>0, <1>3, <2>1 DEF HeapTypes
<1> QED
  BY <1>0, <1>1, <1>2, <1>4, EmptyHanded

\* So is every step of p272 ...
LEMMA CountedLifo ==
  ASSUME CountedInv, CountedNext
  PROVE  LifoStep
<1>0. StackInv
  BY DEF CountedInv
<1>1. PICK t \in Threads : \/ Common(t)
                           \/ EnterPop(t)
                           \/ TakeData(t)
                           \/ Reclaim(t)
  BY DEF CountedNext
<1>2. "pop_load" \notin Taken /\ "pop_next" \notin Taken /\ "pop_data" \in Taken /\ "test" \notin Taken
  BY DEF Taken
<1>3. CASE PushStep(t)
  BY <1>0, <1>3, PushLifo
<1>4. CASE PopLoad(t) \/ PopCasSpurious(t)
  <2>1. /\ UNCHANGED <<data, next, head, val>>
        /\ \A u \in Threads \ {t} : pc'[u] = pc[u] /\ node'[u] = node[u]
        /\ pc[t] \notin Taken /\ pc'[t] \notin Taken
    BY <1>0, <1>4 DEF PopLoad, PopCasSpurious, Goto, heap, StackInv, HeapTypes, Taken
  <2> QED
    BY <1>0, <2>1, LookLifo
<1>5. CASE PopNext(t, "test")
  BY <1>0, <1>5, PopNextLifo
<1>6. CASE PopCas(t, "pop_data", "pop_next")
  BY <1>0, <1>2, <1>6, PopCasLifo
<1>7. CASE Return(t)
  BY <1>0, <1>7, ReturnLifo
<1>8. CASE EnterPop(t)
  BY <1>0, <1>2, <1>8, CallPopLifo DEF EnterPop
<1>9. CASE TakeData(t)
  BY <1>0, <1>2, <1>9, TakeLifo DEF TakeData, Goto
<1>10. CASE Reclaim(t)
  BY <1>10, ReclaimLifo
<1> QED
  BY <1>1, <1>3, <1>4, <1>5, <1>6, <1>7, <1>8, <1>9, <1>10 DEF Common

\* In p281 a thread holds the node until it has cleared its slot.
LEMMA ClearLifo ==
  ASSUME StackInv, NEW t \in Threads, H!ClearHazard(t)
  PROVE  LifoStep
<1>0. HeapTypes /\ DOMAIN next = Nodes
  BY DEF StackInv, HeapTypes
<1>1. /\ UNCHANGED <<data, next, head, node, val>> /\ pc[t] = "clear_hazard"
      /\ pc' = [pc EXCEPT ![t] = IF node[t] = Null THEN "return" ELSE "pop_data"]
  BY DEF H!ClearHazard, H!Goto, H!heap
<1>2. StackSame /\ Undisturbed(t)
  BY <1>0, <1>1 DEF StackSame, Undisturbed, HeapTypes
<1>3. Got(t)' = Got(t)
  BY <1>0, <1>1 DEF Got, Taken, HeapTypes
<1> QED
  BY <1>2, <1>3, AsideStep

\* ... and every step of p281.
LEMMA HazardLifo ==
  ASSUME HazardInv, H!HazardNext
  PROVE  LifoStep
<1>0. StackInv
  BY DEF HazardInv
<1>1. PICK t \in Threads : \/ H!Common(t) /\ UNCHANGED H!hazardVars
                           \/ H!EnterPop(t)
                           \/ H!PopStep(t)
                           \/ H!ThreadEnds(t)
  BY DEF H!HazardNext
<1>2. "clear_hazard" \in Taken /\ "set_hazard" \notin Taken /\ "scan_own" \notin Taken
  BY DEF Taken
<1>3. CASE H!PushStep(t) /\ UNCHANGED H!hazardVars
  <2>1. UNCHANGED hazardVars
    BY <1>3 DEF H!hazardVars, H!tableVars, H!listVars, hazardVars
  <2>2. PushStep(t)
    <3>1. ASSUME NEW v \in Values, H!CallPush(t, v) PROVE CallPush(t, v)
      BY <2>1, <3>1, CallPushHazard
    <3> QED
      BY <1>3, <3>1, SharedSteps DEF H!PushStep, PushStep
  <2> QED
    BY <1>0, <2>2, PushLifo
<1>4. CASE H!PopNext(t, "clear_hazard")
  BY <1>0, <1>4, SharedSteps, PopNextLifo
<1>5. CASE H!PopCas(t, "clear_hazard", "set_hazard")
  BY <1>0, <1>2, <1>5, SharedSteps, PopCasLifo
<1>6. CASE H!Return(t)
  BY <1>0, <1>6, SharedSteps, ReturnLifo
<1>7. CASE H!ClearHazard(t)
  BY <1>0, <1>7, ClearLifo
<1>8. CASE H!TakeData(t)
  BY <1>0, <1>2, <1>8, TakeLifo DEF H!TakeData, H!Goto
<1>9. CASE \/ H!EnterPop(t) \/ H!ThreadEnds(t) \/ H!AcquireSlot(t) \/ H!NoSlots(t)
           \/ H!LoadHead(t) \/ H!SetHazard(t) \/ H!Reload(t)
  <2>1. /\ UNCHANGED <<data, next, head, val>>
        /\ \A u \in Threads \ {t} : pc'[u] = pc[u] /\ node'[u] = node[u]
        /\ pc[t] \notin Taken /\ pc'[t] \notin Taken
    BY <1>0, <1>9 DEF H!EnterPop, H!CallPop, H!ThreadEnds, H!AcquireSlot, H!NoSlots, H!LoadHead,
                      H!SetHazard, H!Reload, H!Goto, H!heap, H!locals, StackInv, HeapTypes, Taken
  <2> QED
    BY <1>0, <2>1, LookLifo
<1>10. CASE \/ H!ScanOwn(t) \/ H!DeferOwn(t) \/ H!DeleteOwn(t) \/ H!TakeList(t)
            \/ H!ScanTaken(t) \/ H!DeferTaken(t) \/ H!DeleteTaken(t)
  <2>1. /\ UNCHANGED <<data, next, head, node, val>>
        /\ \A u \in Threads \ {t} : pc'[u] = pc[u]
        /\ pc[t] \notin Taken /\ pc'[t] \notin Taken
    BY <1>0, <1>10 DEF H!ScanOwn, H!ScanTaken, H!Scan, H!DeferOwn, H!DeferTaken, H!DeleteOwn,
                       H!DeleteTaken, H!NextTaken, H!TakeList, H!Goto, H!heap, StackInv, HeapTypes, Taken
  <2> QED
    BY <1>0, <2>1, LookLifo
<1> QED
  BY <1>1, <1>3, <1>4, <1>5, <1>6, <1>7, <1>8, <1>9, <1>10 DEF H!Common, H!PopStep
-------------------------------------------------------------------------------
(* The three programs together. *)

\* The inductive invariant: that of the program that runs.
MCInv == /\ program \in {"p270", "p272", "p281"}
         /\ program = "p270" => SimpleInv
         /\ program = "p272" => CountedInv /\ CountOK
         /\ program = "p281" => HazardInv

\* The invariant holds at the start.
LEMMA MCStart ==
  ASSUME MCInit
  PROVE  MCInv
<1>1. CountedInit /\ H!HazardInit /\ Init
  BY DEF MCInit, CountedInit
<1>2. SimpleInv
  <2>1. StackInv
    BY <1>1, SimpleInit
  <2> QED
    BY <1>1, <2>1, TreiberStackAssumption DEF SimpleInv, SimpleLabels, CountedInit, Init
<1> QED
  BY <1>1, <1>2, CountedStart, HazardStart DEF MCInit, MCInv

\* Every step keeps it, and is a step of the abstract stack or none.
LEMMA MCStep ==
  ASSUME MCInv, MCNext
  PROVE  MCInv' /\ LifoStep
<1>1. CASE program = "p270" /\ Next /\ UNCHANGED reclaimVars
  BY <1>1, SimpleStep, SimpleLifo DEF MCInv, MCNext, reclaimVars
<1>2. CASE program = "p272" /\ CountedNext
  BY <1>2, CountedStep, CountedLifo DEF MCInv, MCNext
<1>3. CASE program = "p281" /\ H!HazardNext
  BY <1>3, HazardStep, HazardLifo DEF MCInv, MCNext
<1> QED
  BY <1>1, <1>2, <1>3 DEF MCNext

\* A step that changes nothing.
LEMMA MCStutter ==
  ASSUME MCInv, UNCHANGED <<stackVars, hazardVars, program>>
  PROVE  MCInv' /\ LifoStep
<1>0. /\ UNCHANGED <<allocated, data, next, head, pc, node, seen, val, calls, program>>
      /\ UNCHANGED <<inPop, pending, batch, last>>
      /\ UNCHANGED <<slotOwner, hazard, slot, index, reclaim, taken>>
  BY DEF stackVars, vars, heap, locals, reclaimVars, hazardVars
<1>1. Chain' = Chain /\ Contents' = Contents
  BY <1>0 DEF Chain, Contents
<1>2. StackInv => StackInv'
  BY <1>0, <1>1 DEF StackInv, HeapTypes, ListOK, HoldsOK, Holds, LooksOK, LinkOK
<1>3. SimpleInv => SimpleInv'
  BY <1>0, <1>2 DEF SimpleInv
<1>4. CountedInv /\ CountOK => CountedInv' /\ CountOK'
  <2>1. ASSUME NEW t \in Threads
        PROVE  Cut(t)' = Cut(t) /\ Private(t)' = Private(t) /\ Batch(t)' = Batch(t)
    BY <1>0 DEF Cut, Private, Batch, ListFrom
  <2>2. OwnersOK => OwnersOK'
    BY <1>0, <1>1, <2>1 DEF OwnersOK, Waiting, ListFrom, Mine
  <2>3. Unseen => Unseen'
    BY <1>0, <2>1 DEF Unseen
  <2>4. ASSUME NEW t \in Threads, BatchOK(t) PROVE BatchOK(t)'
    BY <1>0, <2>1, <2>4 DEF BatchOK
  <2>5. CountOK => CountOK'
    BY <1>0 DEF CountOK, InPop
  <2> QED
    BY <1>0, <1>2, <2>2, <2>3, <2>4, <2>5 DEF CountedInv, ReclaimTypes
<1>5. HazardInv => HazardInv'
  <2>1. Reclaimable' = Reclaimable /\ \A t \in Threads : Kin(t)' = Kin(t) /\ Target(t)' = Target(t)
    BY <1>0 DEF Reclaimable, Kin, Swept, H!SeqRange, H!Private, Target
  <2>2. HazardTypes /\ TableOK /\ ListsOK => HazardTypes' /\ TableOK' /\ ListsOK'
    BY <1>0 DEF HazardTypes, TableOK, ListsOK, Distinct
  <2>3. HazardOwners /\ ScanOK => HazardOwners' /\ ScanOK'
    BY <1>0, <1>1, <2>1 DEF HazardOwners, ScanOK
  <2> QED
    BY <1>2, <2>2, <2>3 DEF HazardInv
<1>6. LifoStep
  BY <1>0, <1>1 DEF LifoStep, GotBut, Got
<1> QED
  BY <1>0, <1>3, <1>4, <1>5, <1>6 DEF MCInv

\* The inductive invariant holds in every reachable state of each of the three.
THEOREM StacksInvariant == MCSpec => []MCInv
<1>1. MCInit => MCInv
  BY MCStart
<1>2. MCInv /\ [MCNext]_<<stackVars, hazardVars, program>> => MCInv'
  BY MCStep, MCStutter
<1> QED
  BY <1>1, <1>2, PTL DEF MCSpec

\* Every variable has its type; the count of p272 is the number of threads inside
\* pop, and a slot of p281's table belongs to one thread.
THEOREM StacksTyped == MCSpec => []StacksTypeOK
<1>1. MCInv => StacksTypeOK
  BY SimpleTypes, CountedTypes, HazardTypesHold DEF MCInv, StacksTypeOK
<1> QED
  BY <1>1, StacksInvariant, PTL

\* Neither p272 nor p281 frees a node under a thread that is about to look into it.
THEOREM StacksFreeNothingInUse == MCSpec => []NoAccessAfterFree
<1>1. MCInv => NoAccessAfterFree
  BY CountedUse, HazardUse DEF MCInv, NoAccessAfterFree
<1> QED
  BY <1>1, StacksInvariant, PTL

\* Neither leaks a node nor frees one twice: a live node is in one place.
THEOREM StacksOwnTheirNodes == MCSpec => []EveryNodeHasOneOwner
<1>1. MCInv => EveryNodeHasOneOwner
  BY OwnersAre, HazardOwnersAre DEF MCInv, EveryNodeHasOneOwner, CountedInv, HazardInv
<1> QED
  BY <1>1, StacksInvariant, PTL

\* p281 has no data race on a node, p270 none, and p272 only on links of nodes that
\* have left the stack.
THEOREM StacksRaceOnlyOnLeftNodes == MCSpec => []RacesOnlyOnLeftNodes
<1>1. MCInv => RacesOnlyOnLeftNodes
  BY SimpleRaces, CountedRaces, HazardRaces DEF MCInv, RacesOnlyOnLeftNodes, CountedInv
<1> QED
  BY <1>1, StacksInvariant, PTL

\* What the refinement looks at is Got in all three programs.
MCGot == [t \in Threads |-> IF program = "p281" THEN H!HazardResult(t) ELSE Result(t)]
GotIs == MCGot = [t \in Threads |-> Got(t)]

\* It is: clear_hazard is p281's alone, and pop_data has a node.
LEMMA MCGotIs ==
  ASSUME MCInv
  PROVE  GotIs
<1> SUFFICES ASSUME NEW t \in Threads
             PROVE  (IF program = "p281" THEN H!HazardResult(t) ELSE Result(t)) = Got(t)
  BY DEF GotIs, MCGot
<1>1. program = "p281" => H!HazardResult(t) = Got(t)
  BY DEF H!HazardResult, Got, Taken
<1>2. program # "p281" => pc[t] # "clear_hazard" /\ (pc[t] = "pop_data" => node[t] # Null)
  BY DEF MCInv, SimpleInv, SimpleLabels, CountedInv, ReclaimTypes, CountedLabels, StackInv, HoldsOK
<1>3. program # "p281" => Result(t) = Got(t)
  BY <1>2 DEF Result, Got, Taken
<1> QED
  BY <1>1, <1>3

\* The stack starts empty.
LEMMA LifoStart ==
  ASSUME MCInit
  PROVE  Lifo!Init
<1>1. MCInv /\ Init
  BY MCStart DEF MCInit, CountedInit
<1>2. Contents = <<>>
  <2>1. IsFiniteSet(DOMAIN next) /\ Null \notin DOMAIN next
    BY <1>1, TreiberStackAssumption DEF Init
  <2> QED
    BY <1>1, <2>1, NoValues DEF Contents, Init
<1>3. \A t \in Threads : Got(t) = NoValue
  BY <1>1 DEF Got, Taken, Init
<1>4. MCGot = [t \in Threads |-> NoValue]
  BY <1>1, <1>3, MCGotIs DEF GotIs
<1> QED
  BY <1>2, <1>4 DEF Lifo!Init, MCGot

\* A step of the abstract stack, in the words of LifoStack.
LEMMA LifoMap ==
  ASSUME GotIs, GotIs', LifoStep
  PROVE  [Lifo!Next]_Lifo!vars
<1>1. MCGot = [u \in Threads |-> Got(u)] /\ MCGot' = [u \in Threads |-> Got(u)']
  BY DEF GotIs
<1>2. CASE Contents' = Contents /\ GotBut({})
  <2>1. MCGot' = MCGot
    BY <1>1, <1>2 DEF GotBut
  <2> QED
    BY <1>2, <2>1 DEF Lifo!vars, MCGot
<1>3. ASSUME NEW v \in Values, Contents' = <<v>> \o Contents, GotBut({}) PROVE Lifo!Next
  <2>1. MCGot' = MCGot
    BY <1>1, <1>3 DEF GotBut
  <2> QED
    BY <1>3, <2>1 DEF Lifo!Next, Lifo!Push, MCGot
<1>4. ASSUME NEW t \in Threads, Contents # <<>>, Got(t)' = Head(Contents),
             Contents' = Tail(Contents), GotBut({t})
      PROVE  Lifo!Next
  <2>1. MCGot' = [MCGot EXCEPT ![t] = Head(Contents)]
    BY <1>1, <1>4 DEF GotBut
  <2> QED
    BY <1>4, <2>1 DEF Lifo!Next, Lifo!Pop, MCGot
<1>5. ASSUME NEW t \in Threads, Got(t)' = NoValue, Contents' = Contents, GotBut({t})
      PROVE  Lifo!Next
  <2>1. MCGot' = [MCGot EXCEPT ![t] = NoValue]
    BY <1>1, <1>5 DEF GotBut
  <2> QED
    BY <1>5, <2>1 DEF Lifo!Next, Lifo!Return, MCGot
<1> QED
  BY <1>2, <1>3, <1>4, <1>5 DEF LifoStep

\* All three are stacks: every push and every pop takes effect at one instant, and
\* a pop returns the value that was pushed last.
THEOREM StacksImplementLifo == MCSpec => StacksAreLifo
<1>1. MCInit => Lifo!Init
  BY LifoStart
<1>2. MCInv /\ [MCNext]_<<stackVars, hazardVars, program>> => LifoStep
  BY MCStep, MCStutter
<1>3. MCInv => GotIs
  BY MCGotIs
<1>4. GotIs /\ GotIs' /\ LifoStep => [Lifo!Next]_Lifo!vars
  BY LifoMap
<1> QED
  BY <1>1, <1>2, <1>3, <1>4, StacksInvariant, PTL DEF MCSpec, StacksAreLifo, Lifo!Spec
===============================================================================
