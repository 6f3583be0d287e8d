------------------------------ MODULE LookupTable ------------------------------
(***************************************************************************)
(* The hash table of p249: a vector of buckets, each a list of entries     *)
(* with a readers-writer lock.  A lookup holds the lock of its key's       *)
(* bucket shared, an update holds it alone, and a copy of the table holds  *)
(* the locks of all buckets, taken in the order of the vector.             *)
(* remove_mapping is meant to lock alone as well, but                      *)
(* `unique_lock<shared_mutex> lock(mutex)' declares a function: it works   *)
(* on the bucket with no lock.                                             *)
(*                                                                         *)
(* p106's DNS cache is the case of one bucket and no removal.              *)
(*                                                                         *)
(* Steps are the lock operations, the search of the bucket and what is     *)
(* done with its result.  A data race leaves a C++ program without a       *)
(* meaning: no step is taken from a state with a race, and what is said of *)
(* the table is said up to the first one.  With that, everything between a *)
(* lock and its release that runs undisturbed or races is rightly a step,  *)
(* the copy of all buckets included.                                       *)
(***************************************************************************)
EXTENDS Naturals, Sequences

CONSTANTS Threads,      \* the threads that share the table
          Keys,         \* the keys they use
          Values,       \* the values they store
          NumBuckets,   \* the length of the vector of buckets
          Hash,         \* _hasher(key) for each key
          NoThread,     \* the exclusive owner of a lock that has none
          NoKey,        \* the key of a thread that is in no call, or in get_map
          NoValue,      \* the default value of a lookup
          NoAnswer,     \* the answer of a call that has none yet
          Done,         \* the answer of a call that returns nothing
          MaxCalls      \* bound: how many calls are made

\* What a call may return.
Answers == Values \cup {NoValue, Done} \cup [Keys -> Values \cup {NoValue}]

ASSUME LookupTableAssumption ==
    /\ NoThread \notin Threads
    /\ NoKey \notin Keys
    /\ NoValue \notin Values
    /\ NoAnswer \notin Answers
    /\ NumBuckets \in Nat \ {0}
    /\ Hash \in [Keys -> Nat]
    /\ MaxCalls \in Nat

VARIABLES data,        \* BucketType::_data of each bucket
          exclusive,   \* the thread that holds each bucket's lock alone
          shared,      \* the threads that hold each bucket's lock shared
          pc,          \* what each thread does next
          call,        \* the operation it is in
          key, val,    \* the arguments of the operation
          found,       \* the position found_entry refers to, 0 for _data.end()
          locked,      \* how many buckets get_map has locked
          answer,      \* what the operation is going to return
          budget       \* calls left

locks == <<exclusive, shared>>
args == <<call, key, val>>
results == <<found, answer>>
vars == <<data, locks, pc, args, results, locked, budget>>

Buckets == 0 .. NumBuckets - 1
Operations == {"value_for", "add_or_update", "remove", "get_map"}

\* get_bucket.
Bucket(k) == Hash[k] % NumBuckets

\* The bucket a thread's operation works on.
Mine(t) == Bucket(key[t])

Goto(t, l) == pc' = [pc EXCEPT ![t] = l]

Init == /\ data = [b \in Buckets |-> <<>>]
        /\ exclusive = [b \in Buckets |-> NoThread]
        /\ shared = [b \in Buckets |-> {}]
        /\ pc = [t \in Threads |-> "idle"]
        /\ call = [t \in Threads |-> "none"]
        /\ key = [t \in Threads |-> NoKey]
        /\ val = [t \in Threads |-> NoValue]
        /\ found = [t \in Threads |-> 0]
        /\ locked = [t \in Threads |-> 0]
        /\ answer = [t \in Threads |-> NoAnswer]
        /\ budget = MaxCalls
-------------------------------------------------------------------------------
(* Races. *)

\* The buckets whose entries the next step of t reads.
Reads(t) == CASE pc[t] = "find" -> {Mine(t)}
              [] pc[t] = "use" -> {Mine(t)}
              [] pc[t] = "copy" -> Buckets
              [] OTHER -> {}

\* The buckets whose entries the next step of t changes.
Changes(t) == /\ pc[t] = "use"
              /\ \/ call[t] = "add_or_update"
                 \/ call[t] = "remove" /\ found[t] # 0
Writes(t) == IF Changes(t) THEN {Mine(t)} ELSE {}

Races(t, u) == Writes(t) \cap (Reads(u) \cup Writes(u)) # {}

Race == \E t, u \in Threads : t # u /\ Races(t, u)
-------------------------------------------------------------------------------
(* Calls. *)

Call(t, op, k, v, l) == /\ pc[t] = "idle"
                        /\ budget > 0
                        /\ budget' = budget - 1
                        /\ call' = [call EXCEPT ![t] = op]
                        /\ key' = [key EXCEPT ![t] = k]
                        /\ val' = [val EXCEPT ![t] = v]
                        /\ Goto(t, l)
                        /\ UNCHANGED <<data, locks, results, locked>>

CallValueFor(t) == \E k \in Keys : Call(t, "value_for", k, NoValue, "lock_shared")

CallAddOrUpdate(t) == \E k \in Keys, v \in Values : Call(t, "add_or_update", k, v, "lock")

\* No lock is taken.
CallRemove(t) == \E k \in Keys : Call(t, "remove", k, NoValue, "find")

CallGetMap(t) == Call(t, "get_map", NoKey, NoValue, "lock_all")
-------------------------------------------------------------------------------
(* Locks. *)

Free(b) == exclusive[b] = NoThread /\ shared[b] = {}

\* Seeded fault: a lookup does not mind a writer.
LockShared_Blind(t) == /\ pc[t] = "lock_shared"
                       /\ shared' = [shared EXCEPT ![Mine(t)] = @ \cup {t}]
                       /\ Goto(t, "find")
                       /\ UNCHANGED <<data, exclusive, args, results, locked, budget>>

LockShared(t) == /\ pc[t] = "lock_shared"
                 /\ exclusive[Mine(t)] = NoThread
                 /\ shared' = [shared EXCEPT ![Mine(t)] = @ \cup {t}]
                 /\ Goto(t, "find")
                 /\ UNCHANGED <<data, exclusive, args, results, locked, budget>>

LockAlone(t) == /\ pc[t] = "lock"
                /\ Free(Mine(t))
                /\ exclusive' = [exclusive EXCEPT ![Mine(t)] = t]
                /\ Goto(t, "find")
                /\ UNCHANGED <<data, shared, args, results, locked, budget>>

\* get_map locks one bucket after the other.
LockNext(t) == /\ pc[t] = "lock_all"
               /\ Free(locked[t])
               /\ exclusive' = [exclusive EXCEPT ![locked[t]] = t]
               /\ locked' = [locked EXCEPT ![t] = @ + 1]
               /\ Goto(t, IF locked[t] + 1 = NumBuckets THEN "copy" ELSE "lock_all")
               /\ UNCHANGED <<data, shared, args, results, budget>>

\* The operation returns.
Return(t) == /\ call' = [call EXCEPT ![t] = "none"]
             /\ key' = [key EXCEPT ![t] = NoKey]
             /\ val' = [val EXCEPT ![t] = NoValue]
             /\ found' = [found EXCEPT ![t] = 0]
             /\ answer' = [answer EXCEPT ![t] = NoAnswer]
             /\ Goto(t, "idle")

\* The end of the scope of the lock; a removal has none to release.
Unlock(t) == /\ pc[t] = "unlock"
             /\ shared' = [shared EXCEPT ![Mine(t)] = @ \ {t}]
             /\ exclusive' = [exclusive EXCEPT ![Mine(t)] = IF @ = t THEN NoThread ELSE @]
             /\ Return(t)
             /\ UNCHANGED <<data, locked, budget>>

\* Seeded fault: get_map returns with the first bucket still locked.
UnlockNext_AllButOne(t) ==
    /\ pc[t] = "unlock_all"
    /\ locked' = [locked EXCEPT ![t] = @ - 1]
    /\ exclusive' = [exclusive EXCEPT ![locked[t] - 1] = IF locked[t] = 1 THEN @ ELSE NoThread]
    /\ \/ locked[t] = 1 /\ Return(t)
       \/ locked[t] # 1 /\ UNCHANGED <<pc, args, results>>
    /\ UNCHANGED <<data, shared, budget>>

\* The vector of locks is destroyed, one lock after the other, and get_map returns.
UnlockNext(t) == /\ pc[t] = "unlock_all"
                 /\ locked' = [locked EXCEPT ![t] = @ - 1]
                 /\ exclusive' = [exclusive EXCEPT ![locked[t] - 1] = NoThread]
                 /\ \/ locked[t] = 1 /\ Return(t)
                    \/ locked[t] # 1 /\ UNCHANGED <<pc, args, results>>
                 /\ UNCHANGED <<data, shared, budget>>
-------------------------------------------------------------------------------
(* The work on a bucket. *)

\* The positions in bucket contents s at which key k is stored.
At(s, k) == {i \in DOMAIN s : s[i].key = k}

\* Seeded fault: the search inserts what it does not find, as operator[] of a map
\* does (p106:39).
Find_Inserts(t) ==
    /\ pc[t] = "find"
    /\ \/ /\ At(data[Mine(t)], key[t]) = {}
          /\ data' = [data EXCEPT ![Mine(t)] = Append(@, [key |-> key[t], value |-> NoValue])]
          /\ found' = [found EXCEPT ![t] = Len(data'[Mine(t)])]
       \/ \E i \in At(data[Mine(t)], key[t]) : /\ found' = [found EXCEPT ![t] = i]
                                              /\ UNCHANGED data
    /\ Goto(t, "use")
    /\ UNCHANGED <<locks, args, answer, locked, budget>>

\* find_entry_for: the first entry with the key.
Find(t) == /\ pc[t] = "find"
           /\ \/ /\ At(data[Mine(t)], key[t]) = {}
                 /\ found' = [found EXCEPT ![t] = 0]
              \/ \E i \in At(data[Mine(t)], key[t]) :
                    /\ \A j \in At(data[Mine(t)], key[t]) : i <= j
                    /\ found' = [found EXCEPT ![t] = i]
           /\ Goto(t, "use")
           /\ UNCHANGED <<data, locks, args, answer, locked, budget>>

ReadValue(t) == /\ pc[t] = "use"
                /\ call[t] = "value_for"
                /\ answer' = [answer EXCEPT ![t] = IF found[t] = 0 THEN NoValue
                                                   ELSE data[Mine(t)][found[t]].value]
                /\ Goto(t, "unlock")
                /\ UNCHANGED <<data, locks, args, found, locked, budget>>

\* What an operation without a result leaves behind it.
Finish(t) == /\ answer' = [answer EXCEPT ![t] = Done]
             /\ Goto(t, "unlock")
             /\ UNCHANGED <<locks, args, found, locked, budget>>

\* Seeded fault: an update of a key that is there appends a second entry.
PushBack_Always(t) ==
    /\ pc[t] = "use"
    /\ call[t] = "add_or_update"
    /\ data' = [data EXCEPT ![Mine(t)] = Append(@, [key |-> key[t], value |-> val[t]])]
    /\ Finish(t)

PushBack(t) == /\ pc[t] = "use"
               /\ call[t] = "add_or_update"
               /\ found[t] = 0
               /\ data' = [data EXCEPT ![Mine(t)] = Append(@, [key |-> key[t], value |-> val[t]])]
               /\ Finish(t)

SetValue(t) == /\ pc[t] = "use"
               /\ call[t] = "add_or_update"
               /\ found[t] # 0
               /\ data' = [data EXCEPT ![Mine(t)][found[t]].value = val[t]]
               /\ Finish(t)

Lists == INSTANCE SequencesExt

\* Seeded fault: the entry after the one that was found is erased.
Erase_Next(t) == /\ pc[t] = "use"
                 /\ call[t] = "remove"
                 /\ found[t] # 0
                 /\ data' = [data EXCEPT ![Mine(t)] = Lists!RemoveAt(@, found[t] + 1)]
                 /\ Finish(t)

Erase(t) == /\ pc[t] = "use"
            /\ call[t] = "remove"
            /\ found[t] # 0
            /\ data' = [data EXCEPT ![Mine(t)] = Lists!RemoveAt(@, found[t])]
            /\ Finish(t)

NothingToErase(t) == /\ pc[t] = "use"
                     /\ call[t] = "remove"
                     /\ found[t] = 0
                     /\ Finish(t)
                     /\ UNCHANGED data

\* The value stored for key k, NoValue if there is none.
Stored(k) == IF At(data[Bucket(k)], k) = {} THEN NoValue
             ELSE data[Bucket(k)][CHOOSE i \in At(data[Bucket(k)], k) :
                                     \A j \in At(data[Bucket(k)], k) : i <= j].value
Contents == [k \in Keys |-> Stored(k)]

\* get_map copies every entry; insert keeps the first one of a key.
CopyAll(t) == /\ pc[t] = "copy"
              /\ answer' = [answer EXCEPT ![t] = Contents]
              /\ Goto(t, "unlock_all")
              /\ UNCHANGED <<data, locks, args, found, locked, budget>>
-------------------------------------------------------------------------------
CallAny(t) == \/ CallValueFor(t)
              \/ CallAddOrUpdate(t)
              \/ CallRemove(t)
              \/ CallGetMap(t)

Step(t) == \/ LockShared(t)
           \/ LockAlone(t)
           \/ LockNext(t)
           \/ Unlock(t)
           \/ UnlockNext(t)
           \/ Find(t)
           \/ ReadValue(t)
           \/ PushBack(t)
           \/ SetValue(t)
           \/ Erase(t)
           \/ NothingToErase(t)
           \/ CopyAll(t)

Next == /\ ~Race
        /\ \E t \in Threads : CallAny(t) \/ Step(t)

Spec == Init /\ [][Next]_vars

\* The scheduler lets a thread that can run finish the call it is in.
FairSpec == Spec /\ \A t \in Threads : WF_vars(~Race /\ Step(t))
-------------------------------------------------------------------------------
(* Properties. *)

Labels == {"idle", "lock_shared", "lock", "lock_all", "find", "use", "copy", "unlock",
           "unlock_all"}

\* Every variable has its type.
TypeOK ==
    /\ data \in [Buckets -> Seq([key : Keys, value : Values])]
    /\ exclusive \in [Buckets -> Threads \cup {NoThread}]
    /\ shared \in [Buckets -> SUBSET Threads]
    /\ pc \in [Threads -> Labels]
    /\ call \in [Threads -> Operations \cup {"none"}]
    /\ key \in [Threads -> Keys \cup {NoKey}]
    /\ val \in [Threads -> Values \cup {NoValue}]
    /\ found \in [Threads -> Nat]
    /\ locked \in [Threads -> 0 .. NumBuckets]
    /\ answer \in [Threads -> Answers \cup {NoAnswer}]
    /\ budget \in 0 .. MaxCalls

\* The table is thread-safe: no two threads are about to touch a bucket with
\* one of them changing it.  The lock p249:58 names would see to it; none is taken.
NoDataRace == ~Race

\* Lookups, updates and copies never race among themselves, whatever buckets
\* they use and however they overlap: the locks of p249:39, p249:47 and p249:106
\* are enough for them, and every race is of a remove_mapping (p249:57).
RacesOnlyByRemove ==
    \A t, u \in Threads : t # u /\ Races(t, u) => "remove" \in {call[t], call[u]}

\* A bucket never has two entries for one key: between the search of an update
\* (p249:48) and its push_back (p249:51) nobody adds the key.
KeysUnique == \A b \in Buckets : \A i, j \in DOMAIN data[b] :
                 data[b][i].key = data[b][j].key => i = j

\* Up to the first race the table is a map: every operation takes effect once and
\* at one instant of its call, and get_map returns all entries of one moment
\* (p249:103).
Request(t) == [op |-> call[t], key |-> key[t], val |-> val[t]]
Map == INSTANCE ConcurrentMap WITH map <- Contents, request <- [t \in Threads |-> Request(t)]
TableImplementsMap == Map!Spec

\* Unless a race comes first every call returns: get_map collects the locks in
\* the order of the vector (p249:105) and gives all of them back.
CallsReturn == \A t \in Threads : []<>(pc[t] = "idle" \/ Race)
===============================================================================
