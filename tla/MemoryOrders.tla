------------------------------ MODULE MemoryOrders ------------------------------
(***************************************************************************)
(* The programs about memory orders (p180 to p212) and the spinlock (p169),*)
(* as the threads' sequences of accesses to atomic and ordinary memory.    *)
(* One of them is chosen at the start and run on the memory of CxxMemory.  *)
(*                                                                         *)
(* A loop that polls a location is the one load or exchange that ends it:  *)
(* the others only raise the thread's own view.  Of ten equal rounds that  *)
(* main starts and joins one is modelled, of five equal cells two, and of  *)
(* p193 two of the three counters and one of the two readers.              *)
(***************************************************************************)
EXTENDS CxxMemory, FiniteSets

CONSTANTS NumberOfItems,   \* number_of_items of p209
          Rounds,          \* bound: how often a thread takes the spinlock, loop_count of p193
          MaxPolls         \* bound: how often count is changed in p209

ASSUME MemoryOrdersAssumption == {NumberOfItems, Rounds, MaxPolls} \subseteq Nat \ {0}

VARIABLES program,     \* which program runs
          place,       \* the place of each thread in its text
          reg,         \* the value a thread loaded last
          processed    \* the items of p209 in the order in which they were processed

ordersVars == <<memory, program, place, reg, processed>>

ThreadNames == {"main", "a", "b", "c", "d"}
-------------------------------------------------------------------------------
(* Statements. *)

LoadOf(x, o)      == [op |-> "load", at |-> x, order |-> o]
StoreOf(x, v, o)  == [op |-> "store", at |-> x, val |-> v, order |-> o]
WaitFor(x, v, o)  == [op |-> "wait", at |-> x, val |-> v, order |-> o]
Replace(x, u, v, o) == [op |-> "replace", at |-> x, from |-> u, val |-> v, order |-> o]
CountIf(x)        == [op |-> "count", at |-> x, order |-> "seq_cst"]
Expect(x, S, o)   == [op |-> "expect", at |-> x, val |-> S, order |-> o]
FetchSub(x, o)    == [op |-> "fetch_sub", at |-> x, order |-> o]
Get(x)            == [op |-> "get", at |-> x]
GetDependent(x)   == [op |-> "get_dependent", at |-> x]
Put(x, v)         == [op |-> "put", at |-> x, val |-> v]
Item(x)           == [op |-> "item", at |-> x]
Fence(o)          == [op |-> "fence", order |-> o]
JoinAll == <<[op |-> "join", thread |-> "a"], [op |-> "join", thread |-> "b"],
             [op |-> "join", thread |-> "c"], [op |-> "join", thread |-> "d"]>>

\* The statements s, n times.
Times(n, s) == [i \in 1 .. n * Len(s) |-> s[((i - 1) % Len(s)) + 1]]
-------------------------------------------------------------------------------
(* The programs. *)

p180 == [a |-> <<Put("data_container", 42), StoreOf("data_ready", 1, "seq_cst")>>,
         b |-> <<WaitFor("data_ready", 1, "seq_cst"), Get("data_container")>>]

p198 == [a |-> <<StoreOf("x", 1, "release")>>,
         b |-> <<StoreOf("y", 1, "release")>>,
         c |-> <<WaitFor("x", 1, "acquire"), LoadOf("y", "acquire"), CountIf("z")>>,
         d |-> <<WaitFor("y", 1, "acquire"), LoadOf("x", "acquire"), CountIf("z")>>,
         main |-> JoinAll \o <<Expect("z", {1, 2}, "seq_cst")>>]

p187 == [a |-> <<StoreOf("x", 1, "seq_cst")>>,
         b |-> <<StoreOf("y", 1, "seq_cst")>>,
         c |-> <<WaitFor("x", 1, "seq_cst"), LoadOf("y", "seq_cst"), CountIf("z")>>,
         d |-> <<WaitFor("y", 1, "seq_cst"), LoadOf("x", "seq_cst"), CountIf("z")>>,
         main |-> JoinAll \o <<Expect("z", {1, 2}, "seq_cst")>>]

p191 == [a |-> <<StoreOf("x", 1, "relaxed"), StoreOf("y", 1, "relaxed")>>,
         b |-> <<WaitFor("y", 1, "relaxed"), LoadOf("x", "relaxed"), CountIf("z")>>,
         main |-> JoinAll \o <<LoadOf("z", "seq_cst")>>]

p200 == [a |-> <<StoreOf("x", 1, "relaxed"), StoreOf("y", 1, "release")>>,
         b |-> <<WaitFor("y", 1, "acquire"), LoadOf("x", "relaxed"), CountIf("z")>>,
         main |-> JoinAll \o <<Expect("z", {1}, "seq_cst")>>]

\* The increments of one counter, and the threads that only read the counters;
\* the values a thread saw are its own until main prints them.
Increment(x, values) ==
    LET round(i) == <<LoadOf("x", "relaxed"), LoadOf("y", "relaxed"), Put(values, i),
                      StoreOf(x, i, "relaxed")>>
    IN  <<WaitFor("go", 1, "seq_cst")>>
        \o [k \in 1 .. Rounds * 4 |-> round(((k - 1) \div 4) + 1)[((k - 1) % 4) + 1]]
ReadVals(values) == <<WaitFor("go", 1, "seq_cst")>>
                    \o Times(Rounds, <<LoadOf("x", "relaxed"), LoadOf("y", "relaxed"), Put(values, 1)>>)

p193 == [a |-> Increment("x", "values1"),
         b |-> Increment("y", "values2"),
         c |-> ReadVals("values4"),
         main |-> <<StoreOf("go", 1, "seq_cst")>> \o JoinAll
                  \o <<Get("values1"), Get("values2"), Get("values4")>>]

p203 == [a |-> <<StoreOf("sdata0", 42, "relaxed"), StoreOf("sdata1", 97, "relaxed"),
                 StoreOf("sync1", 1, "release")>>,
         b |-> <<WaitFor("sync1", 1, "acquire"), StoreOf("sync2", 1, "release")>>,
         c |-> <<WaitFor("sync2", 1, "acquire"), Expect("sdata0", {42}, "relaxed"),
                 Expect("sdata1", {97}, "relaxed")>>]

p204 == [a |-> <<StoreOf("sdata0", 42, "relaxed"), StoreOf("sdata1", 97, "relaxed"),
                 StoreOf("sync", 1, "release")>>,
         b |-> <<Replace("sync", 1, 2, "acq_rel")>>,
         c |-> <<WaitFor("sync", 2, "acquire"), Expect("sdata0", {42}, "relaxed"),
                 Expect("sdata1", {97}, "relaxed")>>]

\* p is the address of the X that create_x made; a's value may be the old one.
p207 == [a |-> <<Put("x->i", 42), Put("x->s", 1), StoreOf("a", 99, "relaxed"),
                 StoreOf("p", 1, "release")>>,
         b |-> <<WaitFor("p", 1, "consume"), GetDependent("x->i"), GetDependent("x->s"),
                 LoadOf("a", "relaxed")>>]

p209 == [a |-> <<Put("queue_data", NumberOfItems), StoreOf("count", NumberOfItems, "release")>>,
         b |-> <<FetchSub("count", "acquire"), Item("queue_data")>>,
         c |-> <<FetchSub("count", "acquire"), Item("queue_data")>>]

p212 == [a |-> <<Put("x", 1), Fence("release"), StoreOf("y", 1, "relaxed")>>,
         b |-> <<WaitFor("y", 1, "relaxed"), Fence("acquire"), Get("x"), CountIf("z")>>,
         main |-> JoinAll \o <<Expect("z", {1}, "seq_cst")>>]

\* What the spinlock guards is written by every thread that holds it.
Critical == <<Replace("_flag", 0, 1, "acquire"), Put("cout", 1), StoreOf("_flag", 0, "release")>>
p169 == [a |-> Times(Rounds, Critical), b |-> Times(Rounds, Critical), c |-> Times(Rounds, Critical)]

Programs == [p169 |-> p169, p180 |-> p180, p187 |-> p187, p191 |-> p191, p193 |-> p193,
             p198 |-> p198, p200 |-> p200, p203 |-> p203, p204 |-> p204, p207 |-> p207,
             p209 |-> p209, p212 |-> p212]

Text(p, t) == IF t \in DOMAIN Programs[p] THEN Programs[p][t] ELSE <<>>

LocationsOf(p) == LET statements == UNION {{Text(p, t)[i] : i \in DOMAIN Text(p, t)} : t \in ThreadNames}
                  IN  {s.at : s \in {r \in statements : "at" \in DOMAIN r}}
-------------------------------------------------------------------------------
(* The steps of a thread. *)

OrdersInit == /\ program \in DOMAIN Programs
              /\ MemoryInit(ThreadNames, LocationsOf(program))
              /\ place = [t \in ThreadNames |-> 1]
              /\ reg = [t \in ThreadNames |-> 0]
              /\ processed = <<>>

Ended(t) == place[t] > Len(Text(program, t))
Now(t) == Text(program, t)[place[t]]
Doing(t, op) == ~Ended(t) /\ Now(t).op = op

Advance(t) == /\ place' = [place EXCEPT ![t] = @ + 1]
              /\ UNCHANGED program

LoadStep(t) ==
    /\ Doing(t, "load") \/ Doing(t, "wait") \/ Doing(t, "expect")
    /\ \E i \in Readable(t, Now(t).at, Now(t).order) :
          /\ Now(t).op = "wait" => history[Now(t).at][i].val = Now(t).val
          /\ Load(t, Now(t).at, i, Now(t).order)
          /\ reg' = [reg EXCEPT ![t] = history[Now(t).at][i].val]
    /\ Advance(t)
    /\ UNCHANGED processed

StoreStep(t) == /\ Doing(t, "store")
                /\ Store(t, Now(t).at, Now(t).val, Now(t).order)
                /\ Advance(t)
                /\ UNCHANGED <<reg, processed>>

\* test_and_set and compare_exchange_strong, once they succeed.
ReplaceStep(t) == /\ Doing(t, "replace")
                  /\ Newest(Now(t).at).val = Now(t).from
                  /\ Exchange(t, Now(t).at, Now(t).val, Now(t).order)
                  /\ Advance(t)
                  /\ UNCHANGED <<reg, processed>>

\* if (...) { ++z; }
CountStep(t) == /\ Doing(t, "count")
                /\ \/ /\ reg[t] = 0
                      /\ UNCHANGED memory
                   \/ /\ reg[t] # 0
                      /\ Exchange(t, Now(t).at, Newest(Now(t).at).val + 1, Now(t).order)
                /\ Advance(t)
                /\ UNCHANGED <<reg, processed>>

\* Ordinary memory; what is read is the last value written unless there is a race.
PlainStep(t) == /\ \/ /\ Doing(t, "put")
                      /\ Store(t, Now(t).at, Now(t).val, "relaxed")
                      /\ UNCHANGED reg
                   \/ /\ Doing(t, "get") \/ Doing(t, "get_dependent")
                      /\ reg' = [reg EXCEPT ![t] = Newest(Now(t).at).val]
                      /\ UNCHANGED memory
                /\ Advance(t)
                /\ UNCHANGED processed

FenceStep(t) == /\ Doing(t, "fence")
                /\ IF Now(t).order = "acquire" THEN AcquireFence(t) ELSE ReleaseFence(t)
                /\ Advance(t)
                /\ UNCHANGED <<reg, processed>>

JoinStep(t) == /\ Doing(t, "join")
               /\ Ended(Now(t).thread)
               /\ Joins(t, Now(t).thread)
               /\ Advance(t)
               /\ UNCHANGED <<reg, processed>>

\* Seeded fault: a consumer also accepts the count zero.
TakeStep_AcceptsZero(t) ==
    /\ Doing(t, "fetch_sub")
    /\ Len(history[Now(t).at]) <= MaxPolls
    /\ Exchange(t, Now(t).at, Newest(Now(t).at).val - 1, Now(t).order)
    /\ reg' = [reg EXCEPT ![t] = Newest(Now(t).at).val]
    /\ \/ Newest(Now(t).at).val >= 0 /\ Advance(t)
       \/ Newest(Now(t).at).val < 0 /\ UNCHANGED <<program, place>>
    /\ UNCHANGED processed

\* item_index = count.fetch_sub(1): a consumer polls until it gets a positive one.
TakeStep(t) ==
    /\ Doing(t, "fetch_sub")
    /\ Len(history[Now(t).at]) <= MaxPolls
    /\ Exchange(t, Now(t).at, Newest(Now(t).at).val - 1, Now(t).order)
    /\ reg' = [reg EXCEPT ![t] = Newest(Now(t).at).val]
    /\ \/ Newest(Now(t).at).val > 0 /\ Advance(t)
       \/ Newest(Now(t).at).val <= 0 /\ UNCHANGED <<program, place>>
    /\ UNCHANGED processed

\* queue_data[item_index - 1], and on to the next poll.
ItemStep(t) == /\ Doing(t, "item")
               /\ processed' = Append(processed, reg[t] - 1)
               /\ place' = [place EXCEPT ![t] = 1]
               /\ UNCHANGED <<memory, program, reg>>

ThreadStep(t) == \/ LoadStep(t)
                 \/ StoreStep(t)
                 \/ ReplaceStep(t)
                 \/ CountStep(t)
                 \/ PlainStep(t)
                 \/ FenceStep(t)
                 \/ JoinStep(t)
                 \/ TakeStep(t)
                 \/ ItemStep(t)

OrdersNext == \E t \in ThreadNames : ThreadStep(t)

OrdersSpec == OrdersInit /\ [][OrdersNext]_ordersVars
-------------------------------------------------------------------------------
(* Properties. *)

\* Ordinary memory is accessed only after all that was written there before: the
\* atomics order the vector of p180:17, the members of p207:32 through the consumed
\* pointer, the items of p209:29 through the release sequence of the other consumer's
\* fetch_sub, x of p212:23 through the two fences, and what p169:28 guards.
NoDataRace ==
    \A t \in ThreadNames :
        /\ Doing(t, "get") \/ Doing(t, "put") \/ Doing(t, "item") => Ordered(Now(t).at, view[t])
        /\ Doing(t, "get_dependent") => Ordered(Now(t).at, Later(view[t], depends[t]))

\* Whatever old values the memory may still show, the assertions of which a comment
\* says that they never fire do not: p187:51, p200:32, p203:28-32, p204:30-34 and
\* p212:38.  The same assertion of p198:44 may fire, as its comment says.
AssertionsHold ==
    program # "p198" =>
        \A t \in ThreadNames : Doing(t, "expect") =>
            \A i \in Readable(t, Now(t).at, Now(t).order) : history[Now(t).at][i].val \in Now(t).val

\* The items of p209 that a consumer has processed or is about to.
InHand == {t \in ThreadNames : Doing(t, "item")}
Handled == {processed[i] : i \in DOMAIN processed} \cup {reg[t] - 1 : t \in InHand}

\* The items that nobody has taken: count, once it was stored.
Left == IF ~Ended("a") THEN NumberOfItems
        ELSE IF Newest("count").val > 0 THEN Newest("count").val ELSE 0

\* Every item is processed once and none is left out, however often the consumers
\* poll an empty queue before and after it is filled (p209:24).
ItemsHandledOnce ==
    program = "p209" => /\ Handled = Left .. (NumberOfItems - 1)
                        /\ Len(processed) + Cardinality(InHand) = NumberOfItems - Left
===============================================================================
