------------------------------- MODULE CxxMemory -------------------------------
(***************************************************************************)
(* What the programs of the repository rely on in std::atomic: each        *)
(* location has the history of the values stored into it, and a thread has *)
(* a view, which says for each location the oldest entry it may still      *)
(* read.  A release leaves the writer's view in the entry, and an acquire  *)
(* takes over the view of the entry it reads.                              *)
(*                                                                         *)
(* In the programs modelled a location has one thread that stores into it  *)
(* plainly and others that only exchange, or the storing threads exclude   *)
(* each other, so that a new entry always goes to the end of the history.  *)
(***************************************************************************)
EXTENDS Integers, Sequences

VARIABLES history,   \* the entries of each location: a value and the view it carries
          view,      \* of each thread
          unseen,    \* the views of all entries a thread read, for an acquire fence
          fenced,    \* the view of a thread at its last release fence
          depends,   \* the view that comes with the pointer a thread consumed
          scLast     \* the last sequentially consistent store to each location

memory == <<history, view, unseen, fenced, depends, scLast>>

Locations == DOMAIN history
Acquires == {"acquire", "acq_rel", "seq_cst"}
Releases == {"release", "acq_rel", "seq_cst"}

Bottom(locs) == [x \in locs |-> 1]
Just(x, i) == [y \in Locations |-> IF y = x THEN i ELSE 1]
Later(V, W) == [x \in DOMAIN V |-> IF V[x] >= W[x] THEN V[x] ELSE W[x]]

MemoryInit(threads, locs) ==
    /\ history = [x \in locs |-> <<[val |-> 0, view |-> Bottom(locs)]>>]
    /\ view = [t \in threads |-> Bottom(locs)]
    /\ unseen = [t \in threads |-> Bottom(locs)]
    /\ fenced = [t \in threads |-> Bottom(locs)]
    /\ depends = [t \in threads |-> Bottom(locs)]
    /\ scLast = Bottom(locs)
-------------------------------------------------------------------------------
\* The entries of x that a load of thread t may read.
Readable(t, x, order) == {i \in 1 .. Len(history[x]) :
                             i >= view[t][x] /\ (order = "seq_cst" => i >= scLast[x])}

\* The view of t after it read entry i of x.
Read(t, x, i, order) == Later(Later(view[t], Just(x, i)),
                              IF order \in Acquires THEN history[x][i].view
                              ELSE Bottom(Locations))

Load(t, x, i, order) ==
    /\ view' = [view EXCEPT ![t] = Read(t, x, i, order)]
    /\ unseen' = [unseen EXCEPT ![t] = Later(@, history[x][i].view)]
    /\ depends' = [depends EXCEPT ![t] = IF order = "consume" THEN Later(@, history[x][i].view) ELSE @]
    /\ UNCHANGED <<history, fenced, scLast>>

\* What the entry number n of x, stored by t with view V, passes on.
Carried(t, x, n, V, order) == IF order \in Releases THEN V ELSE Later(fenced[t], Just(x, n))

NoteSeqCst(x, n, order) == scLast' = IF order = "seq_cst" THEN [scLast EXCEPT ![x] = n] ELSE scLast

Store(t, x, v, order) ==
    LET n == Len(history[x]) + 1
        V == Later(view[t], Just(x, n))
    IN  /\ history' = [history EXCEPT ![x] = Append(@, [val  |-> v,
                                                        view |-> Carried(t, x, n, V, order)])]
        /\ view' = [view EXCEPT ![t] = V]
        /\ NoteSeqCst(x, n, order)
        /\ UNCHANGED <<unseen, fenced, depends>>

Newest(x) == history[x][Len(history[x])]

\* Seeded fault: an exchange that is no release passes nothing on, not even what
\* the entry it replaces carried (there were no release sequences).
Exchange_Alone(t, x, v, order) ==
    LET n == Len(history[x]) + 1
        V == Later(Read(t, x, n - 1, order), Just(x, n))
    IN  /\ history' = [history EXCEPT ![x] = Append(@, [val  |-> v,
                                                        view |-> Carried(t, x, n, V, order)])]
        /\ view' = [view EXCEPT ![t] = V]
        /\ unseen' = [unseen EXCEPT ![t] = Later(@, Newest(x).view)]
        /\ NoteSeqCst(x, n, order)
        /\ UNCHANGED <<fenced, depends>>

\* A read-modify-write reads the newest entry, and its own continues the release
\* sequence of that one.
Exchange(t, x, v, order) ==
    LET n == Len(history[x]) + 1
        V == Later(Read(t, x, n - 1, order), Just(x, n))
    IN  /\ history' = [history EXCEPT ![x] =
                           Append(@, [val  |-> v,
                                      view |-> Later(Newest(x).view, Carried(t, x, n, V, order))])]
        /\ view' = [view EXCEPT ![t] = V]
        /\ unseen' = [unseen EXCEPT ![t] = Later(@, Newest(x).view)]
        /\ NoteSeqCst(x, n, order)
        /\ UNCHANGED <<fenced, depends>>

AcquireFence(t) == /\ view' = [view EXCEPT ![t] = Later(@, unseen[t])]
                   /\ UNCHANGED <<history, unseen, fenced, depends, scLast>>

ReleaseFence(t) == /\ fenced' = [fenced EXCEPT ![t] = view[t]]
                   /\ UNCHANGED <<history, view, unseen, depends, scLast>>

\* Thread t joins a thread that has ended.
Joins(t, ended) == /\ view' = [view EXCEPT ![t] = Later(@, view[ended])]
                   /\ UNCHANGED <<history, unseen, fenced, depends, scLast>>

\* An access of t to x, which is no atomic, comes after all that was written there
\* if t has seen the newest entry; V is the view t has of x.
Ordered(x, V) == V[x] = Len(history[x])
===============================================================================
