------------------------------- MODULE HazardStack -------------------------------
(***************************************************************************)
(* The lock-free stack of p281: the Treiber stack with hazard pointers.  A *)
(* thread publishes the node it is about to look into in its slot of a     *)
(* global table, and reads the head again before it trusts the node; a     *)
(* thread that took a node off the stack frees it only if no slot names it,*)
(* and otherwise leaves it on a list that every pop goes through.          *)
(***************************************************************************)
EXTENDS TreiberStack

CONSTANTS Slots,      \* max_hazard_pointers
          NoThread    \* thread::id() of no thread

VARIABLES slotOwner,   \* HazardPointer::_id
          hazard,      \* HazardPointer::_pointer
          slot,        \* the slot of each thread's HPOwner, 0 if it has none yet
          index,       \* the slot a scan of the table looks at next
          reclaim,     \* nodes_to_reclaim, newest first
          taken        \* the nodes delete_nodes_with_no_hazards has still to go through

tableVars  == <<slotOwner, hazard, slot>>
listVars   == <<reclaim, taken>>
hazardVars == <<tableVars, index, listVars>>
stackVars  == <<vars, hazardVars>>

HazardInit == /\ Init
              /\ slotOwner = [i \in 1 .. Slots |-> NoThread]
              /\ hazard = [i \in 1 .. Slots |-> Null]
              /\ slot = [t \in Threads |-> 0]
              /\ index = [t \in Threads |-> 1]
              /\ reclaim = <<>>
              /\ taken = [t \in Threads |-> <<>>]

StartScan(t) == index' = [index EXCEPT ![t] = 1]
-------------------------------------------------------------------------------
(* The hazard pointer of a thread. *)

\* get_hazard_pointer_for_current_thread: the first call of a thread looks for
\* a slot.
EnterPop(t) == /\ CallPop(t, IF slot[t] = 0 THEN "acquire" ELSE "pop_load")
               /\ StartScan(t)
               /\ UNCHANGED <<tableVars, listVars>>

\* Seeded fault: the slot is taken without comparing its owner.
AcquireSlot_Blind(t) == /\ pc[t] = "acquire"
                        /\ index[t] <= Slots
                        /\ slotOwner' = [slotOwner EXCEPT ![index[t]] = t]
                        /\ slot' = [slot EXCEPT ![t] = index[t]]
                        /\ Goto(t, "pop_load")
                        /\ UNCHANGED <<heap, head, node, seen, val, calls, hazard, index, listVars>>

\* One compare_exchange of the HPOwner constructor.
AcquireSlot(t) == /\ pc[t] = "acquire"
                  /\ index[t] <= Slots
                  /\ \/ /\ slotOwner[index[t]] = NoThread
                        /\ slotOwner' = [slotOwner EXCEPT ![index[t]] = t]
                        /\ slot' = [slot EXCEPT ![t] = index[t]]
                        /\ Goto(t, "pop_load")
                        /\ UNCHANGED index
                     \/ /\ slotOwner[index[t]] # NoThread
                        /\ index' = [index EXCEPT ![t] = @ + 1]
                        /\ UNCHANGED <<slotOwner, slot, pc>>
                  /\ UNCHANGED <<heap, head, node, seen, val, calls, hazard, listVars>>

\* No slot was free: the constructor throws, and pop with it.
NoSlots(t) == /\ pc[t] = "acquire"
              /\ index[t] > Slots
              /\ Goto(t, "idle")
              /\ UNCHANGED <<heap, head, node, seen, val, calls, hazardVars>>

\* The thread ends and its HPOwner gives the slot back; the next thread starts
\* without one.
ThreadEnds(t) == /\ pc[t] = "idle"
                 /\ slot[t] # 0
                 /\ hazard' = [hazard EXCEPT ![slot[t]] = Null]
                 /\ slotOwner' = [slotOwner EXCEPT ![slot[t]] = NoThread]
                 /\ slot' = [slot EXCEPT ![t] = 0]
                 /\ UNCHANGED <<heap, head, locals, calls, index, listVars>>
-------------------------------------------------------------------------------
(* pop. *)

\* Node * old_head = _head.load(), before the loop.
LoadHead(t) == /\ pc[t] = "pop_load"
               /\ node' = [node EXCEPT ![t] = head]
               /\ Goto(t, "set_hazard")
               /\ UNCHANGED <<heap, head, seen, val, calls, hazardVars>>

SetHazard(t) == /\ pc[t] = "set_hazard"
                /\ hazard' = [hazard EXCEPT ![slot[t]] = node[t]]
                /\ Goto(t, "reload")
                /\ UNCHANGED <<heap, head, node, seen, val, calls, slotOwner, slot, index, listVars>>

\* Seeded fault: the head is not compared with the hazard pointer.
Reload_Unvalidated(t) == /\ pc[t] = "reload"
                         /\ Goto(t, "pop_next")
                         /\ UNCHANGED <<heap, head, node, seen, val, calls, hazardVars>>

\* The inner loop: temp, which the hazard pointer names, must still be the head.
Reload(t) == /\ pc[t] = "reload"
             /\ node' = [node EXCEPT ![t] = head]
             /\ Goto(t, IF head = hazard[slot[t]] THEN "pop_next" ELSE "set_hazard")
             /\ UNCHANGED <<heap, head, seen, val, calls, hazardVars>>

ClearHazard(t) == /\ pc[t] = "clear_hazard"
                  /\ hazard' = [hazard EXCEPT ![slot[t]] = Null]
                  /\ Goto(t, IF node[t] = Null THEN "return" ELSE "pop_data")
                  /\ UNCHANGED <<heap, head, node, seen, val, calls, slotOwner, slot, index, listVars>>

\* result.swap(old_head->_data)
TakeData(t) == /\ pc[t] = "pop_data"
               /\ val' = [val EXCEPT ![t] = data[node[t]]]
               /\ data' = [data EXCEPT ![node[t]] = NoValue]
               /\ StartScan(t)
               /\ Goto(t, "scan_own")
               /\ UNCHANGED <<allocated, next, head, node, seen, calls, tableVars, listVars>>
-------------------------------------------------------------------------------
(* Reclaiming. *)

\* Seeded fault: the last slot of the table is not looked at.
Scan_ShortByOne(t, n, hit, clear) ==
    /\ \/ /\ index[t] < Slots
          /\ hazard[index[t]] = n
          /\ Goto(t, hit)
          /\ UNCHANGED index
       \/ /\ index[t] < Slots
          /\ hazard[index[t]] # n
          /\ index' = [index EXCEPT ![t] = @ + 1]
          /\ UNCHANGED pc
       \/ /\ index[t] >= Slots
          /\ Goto(t, clear)
          /\ UNCHANGED index
    /\ UNCHANGED <<heap, head, node, seen, val, calls, tableVars, listVars>>

\* outstanding_hazard_pointers_for(n), one slot a step.
Scan(t, n, hit, clear) ==
    /\ \/ /\ index[t] <= Slots
          /\ hazard[index[t]] = n
          /\ Goto(t, hit)
          /\ UNCHANGED index
       \/ /\ index[t] <= Slots
          /\ hazard[index[t]] # n
          /\ index' = [index EXCEPT ![t] = @ + 1]
          /\ UNCHANGED pc
       \/ /\ index[t] > Slots
          /\ Goto(t, clear)
          /\ UNCHANGED index
    /\ UNCHANGED <<heap, head, node, seen, val, calls, tableVars, listVars>>

ScanOwn(t) == pc[t] = "scan_own" /\ Scan(t, node[t], "defer_own", "delete_own")

\* reclaim_later; add_to_reclaim_list is a Treiber push, which takes effect at
\* its exchange.
DeferOwn(t) == /\ pc[t] = "defer_own"
               /\ reclaim' = <<node[t]>> \o reclaim
               /\ Goto(t, "take_list")
               /\ UNCHANGED <<heap, head, node, seen, val, calls, tableVars, index, taken>>

DeleteOwn(t) == /\ pc[t] = "delete_own"
                /\ allocated' = allocated \ {node[t]}
                /\ Goto(t, "take_list")
                /\ UNCHANGED <<data, next, head, node, seen, val, calls, hazardVars>>

\* Seeded fault: the list is read and not taken.
TakeList_Copy(t) == /\ pc[t] = "take_list"
                    /\ taken' = [taken EXCEPT ![t] = reclaim]
                    /\ StartScan(t)
                    /\ Goto(t, IF reclaim = <<>> THEN "return" ELSE "scan_taken")
                    /\ UNCHANGED <<heap, head, node, seen, val, calls, tableVars, reclaim>>

\* nodes_to_reclaim.exchange(nullptr)
TakeList(t) == /\ pc[t] = "take_list"
               /\ taken' = [taken EXCEPT ![t] = reclaim]
               /\ reclaim' = <<>>
               /\ StartScan(t)
               /\ Goto(t, IF reclaim = <<>> THEN "return" ELSE "scan_taken")
               /\ UNCHANGED <<heap, head, node, seen, val, calls, tableVars>>

ScanTaken(t) == /\ pc[t] = "scan_taken"
                /\ Scan(t, Head(taken[t]), "defer_taken", "delete_taken")

\* On to the next node of the list, if there is one.
NextTaken(t) == /\ taken' = [taken EXCEPT ![t] = Tail(@)]
                /\ StartScan(t)
                /\ Goto(t, IF Len(taken[t]) = 1 THEN "return" ELSE "scan_taken")

DeferTaken(t) == /\ pc[t] = "defer_taken"
                 /\ reclaim' = <<Head(taken[t])>> \o reclaim
                 /\ NextTaken(t)
                 /\ UNCHANGED <<heap, head, node, seen, val, calls, tableVars>>

DeleteTaken(t) == /\ pc[t] = "delete_taken"
                  /\ allocated' = allocated \ {Head(taken[t])}
                  /\ NextTaken(t)
                  /\ UNCHANGED <<data, next, head, node, seen, val, calls, tableVars, reclaim>>
-------------------------------------------------------------------------------
\* The steps p281 has in common with p270; its exchange is the strong one, and a
\* failed one starts the inner loop again.
Common(t) == \/ PushStep(t)
             \/ PopNext(t, "clear_hazard")
             \/ PopCas(t, "clear_hazard", "set_hazard")
             \/ Return(t)

PopStep(t) == \/ AcquireSlot(t)
              \/ NoSlots(t)
              \/ LoadHead(t)
              \/ SetHazard(t)
              \/ Reload(t)
              \/ ClearHazard(t)
              \/ TakeData(t)
              \/ ScanOwn(t)
              \/ DeferOwn(t)
              \/ DeleteOwn(t)
              \/ TakeList(t)
              \/ ScanTaken(t)
              \/ DeferTaken(t)
              \/ DeleteTaken(t)

HazardNext == \E t \in Threads : \/ Common(t) /\ UNCHANGED hazardVars
                                 \/ EnterPop(t)
                                 \/ PopStep(t)
                                 \/ ThreadEnds(t)

HazardSpec == HazardInit /\ [][HazardNext]_stackVars
-------------------------------------------------------------------------------
(* Properties. *)

\* Every variable has its type, and a slot of the table belongs to the one
\* thread that keeps it (p281:32).
HazardTypeOK ==
    /\ allocated \in SUBSET Nodes
    /\ data \in [Nodes -> Values \cup {NoValue}]
    /\ next \in [Nodes -> Nodes \cup {Null}]
    /\ head \in Nodes \cup {Null}
    /\ {node, seen} \subseteq [Threads -> Nodes \cup {Null}]
    /\ val \in [Threads -> Values \cup {NoValue}]
    /\ calls \in 0 .. MaxCalls
    /\ hazard \in [1 .. Slots -> Nodes \cup {Null}]
    /\ index \in [Threads -> 1 .. (Slots + 1)]
    /\ slot \in [Threads -> 0 .. Slots]
    /\ \A t \in Threads, i \in 1 .. Slots : slotOwner[i] = t <=> slot[t] = i
    /\ reclaim \in Seq(Nodes)
    /\ taken \in [Threads -> Seq(Nodes)]

\* The fields of nodes the next step of t reads and writes.
Reads(t) ==
    CASE pc[t] = "pop_next" /\ node[t] # Null -> {<<node[t], "next">>}
      [] pc[t] = "pop_data" -> {<<node[t], "data">>}
      [] OTHER -> {}
Writes(t) ==
    CASE pc[t] \in {"push_load", "push_cas"} -> {<<node[t], "next">>}
      [] pc[t] = "pop_data" -> {<<node[t], "data">>}
      [] pc[t] = "delete_own" -> {<<node[t], "next">>, <<node[t], "data">>}
      [] pc[t] = "delete_taken" -> {<<Head(taken[t]), "next">>, <<Head(taken[t]), "data">>}
      [] OTHER -> {}

\* A node is never freed under a thread that is about to look into it, although
\* between its read of the head and its hazard pointer nothing holds the node.
NoUseAfterFree == \A t \in Threads : \A n \in Nodes, f \in {"next", "data"} :
                     <<n, f>> \in Reads(t) \cup Writes(t) => n \in allocated

\* Unlike in p272, no field of a node is changed or freed while another thread
\* may read it: a node that waits to be reclaimed keeps its _next.
NoDataRace == \A t, u \in Threads : t # u => Writes(t) \cap (Reads(u) \cup Writes(u)) = {}

SeqRange(s) == {s[i] : i \in DOMAIN s}

\* The node that only thread t can free: new, or popped and not yet deferred.
Private(t) == IF pc[t] \in {"push_load", "push_cas", "clear_hazard", "pop_data", "scan_own",
                            "defer_own", "delete_own"}
              THEN {node[t]} \ {Null} ELSE {}

\* Nothing leaks and nothing is freed twice: every live node is on the stack,
\* on the list of nodes to reclaim, in a list some thread took, or in one
\* thread's hands, and in one of them only.
NodesHaveOneOwner ==
    LET owners == [t \in Threads |-> Private(t) \cup SeqRange(taken[t])]
    IN  /\ allocated = Chain \cup SeqRange(reclaim) \cup UNION {owners[t] : t \in Threads}
        /\ Chain \cap SeqRange(reclaim) = {}
        /\ \A t \in Threads : owners[t] \cap (Chain \cup SeqRange(reclaim)) = {}
        /\ \A t, u \in Threads : t # u => owners[t] \cap owners[u] = {}

\* The exchange in pop is not deceived by an address that was freed and used
\* again (the ABA problem): pop still takes effect at one instant.
HazardResult(t) == IF pc[t] \in {"clear_hazard", "pop_data"} /\ node[t] # Null
                   THEN data[node[t]] ELSE val[t]
AbstractStack == INSTANCE LifoStack WITH
                     items <- Contents,
                     got   <- [t \in Threads |-> HazardResult(t)]
HazardImplementsStack == AbstractStack!Spec
===============================================================================
