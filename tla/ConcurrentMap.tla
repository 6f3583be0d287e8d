----------------------------- MODULE ConcurrentMap -----------------------------
(***************************************************************************)
(* What a thread-safe table promises its callers: between its call and its *)
(* return a lookup, an update, a removal and a copy of the whole table     *)
(* each take effect once and at one instant.                               *)
(***************************************************************************)
CONSTANTS Threads,   \* the threads that share the table
          Keys,      \* the keys
          Values,    \* the values a caller may store
          NoKey,     \* the key of an operation on the whole table
          NoValue,   \* the default a lookup of a missing key returns
          NoAnswer,  \* the answer of a call that has not taken effect
          Done       \* the answer of a call that returns nothing

VARIABLES map,       \* the value of every key, NoValue where there is none
          request,   \* the call a thread is in
          answer     \* what the call is going to return

None == [op |-> "none", key |-> NoKey, val |-> NoValue]

Requests == [op : {"value_for", "remove"}, key : Keys, val : {NoValue}]
            \cup [op : {"add_or_update"}, key : Keys, val : Values]
            \cup [op : {"get_map"}, key : {NoKey}, val : {NoValue}]

Init == /\ map = [k \in Keys |-> NoValue]
        /\ request = [t \in Threads |-> None]
        /\ answer = [t \in Threads |-> NoAnswer]

Call(t, r) == /\ request[t] = None
              /\ request' = [request EXCEPT ![t] = r]
              /\ UNCHANGED <<map, answer>>

\* The call of t, which is of operation op, takes effect.
TakesEffect(t, op) == /\ request[t].op = op
                      /\ answer[t] = NoAnswer
                      /\ UNCHANGED request

ValueFor(t) == /\ TakesEffect(t, "value_for")
               /\ answer' = [answer EXCEPT ![t] = map[request[t].key]]
               /\ UNCHANGED map

AddOrUpdate(t) == /\ TakesEffect(t, "add_or_update")
                  /\ map' = [map EXCEPT ![request[t].key] = request[t].val]
                  /\ answer' = [answer EXCEPT ![t] = Done]

Remove(t) == /\ TakesEffect(t, "remove")
             /\ map' = [map EXCEPT ![request[t].key] = NoValue]
             /\ answer' = [answer EXCEPT ![t] = Done]

Copy(t) == /\ TakesEffect(t, "get_map")
           /\ answer' = [answer EXCEPT ![t] = map]
           /\ UNCHANGED map

Return(t) == /\ answer[t] # NoAnswer
             /\ request' = [request EXCEPT ![t] = None]
             /\ answer' = [answer EXCEPT ![t] = NoAnswer]
             /\ UNCHANGED map

Next == \E t \in Threads : \/ \E r \in Requests : Call(t, r)
                           \/ ValueFor(t)
                           \/ AddOrUpdate(t)
                           \/ Remove(t)
                           \/ Copy(t)
                           \/ Return(t)

Spec == Init /\ [][Next]_<<map, request, answer>>
===============================================================================
