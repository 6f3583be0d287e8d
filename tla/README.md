# Specifications of the concurrency programs

TLA+ specifications, model-checking runs and machine-checked proofs for the
programs of this repository: the examples worked through from *C++ Concurrency
in Action*, one file `pNNN_*.cpp` a program, and the multi-threaded cash
machine in `ATM/`.

- `tlc -config X.cfg M` checks a run (`PROJECT.json` lists them),
- `tlapm M.tla` checks the proofs of `MonitorQueueProofs`, `SynchronizationProofs`,
  `TwoLockQueueProofs`, `LookupTableProofs`, `LockedListProofs`, `ATMProofs`,
  `LinkedListProofs` and `StackProofs`.

## 1. Inventory

The repository is a collection of small programs. What carries logic of its own,
as opposed to showing a call of the standard library, are the data structures
shared by threads and the cash machine built on one of them.

| Component | State | Operations | What is hard | What makes it correct |
|---|---|---|---|---|
| Monitor queues: `ThreadSafeQueue` (p117, p229), `Messaging::Queue` (`ATM/messaging_queue.h`) | a `std::queue`, a mutex, a condition variable | `push`, `wait_and_pop`, `try_pop`, `empty` | one notification a push shared by several sleepers and by polling threads, spurious wakeups | no lost wakeup; values come out once and in order |
| Two-lock queue (p236) | singly linked list with a dummy node, `_head` and `_tail` with a mutex each | `push`, `try_pop` | the two ends exclude each other only for the moment of `get_tail()`; nodes are freed outside the locks | no race and no dangling node between the ends; FIFO; no deadlock |
| Two-lock queue with condition variable (p241) | the same and a condition variable used with the head lock | `push`, two `try_pop`, two `wait_and_pop` | push notifies without the lock the sleepers test under | the above, and sleepers get served |
| Hierarchical mutex (p091) | level of each mutex, remembered level, level of each thread | `lock`, `try_lock`, `unlock`, guards closed by an exception | any nesting, violations half-way, levels restored in the right order | levels fall along the guards; no circular wait |
| Lock-free stack (p267, p270) | atomic head, nodes never freed | `push`, `pop` | the head changes between load and exchange | LIFO |
| ... with counted reclamation (p272) | counter of threads in `pop`, list of nodes to delete linked through the nodes themselves | `push`, `pop`, `try_reclaim` | the counter is tested, a list is taken, the counter is tested again; addresses used again | nothing freed under a reader, no leak, no ABA |
| ... with hazard pointers (p281) | table of hazard pointers with owners, list of nodes to reclaim | `push`, `pop`, thread exit | load, publish, load again; the scan of the table is not atomic | the same; slots have one owner |
| Cash machine (`ATM/`) | three message queues; the ATM's state function, PIN and amount; the bank's balance | the key loop and shutdown of `main`, seven state functions, five handlers of the bank, the display and the cash of the interface | keys race with the bank's answers; a state drops the messages it has no handler for; queues are closed one after the other | no money without a debit, no debit lost but by a cancellation, only a right PIN gets to the menu unless a verification was cancelled, no state waits in vain, `q` ends everything |
| Messaging library (`ATM/messaging_*.h`) | wrapped messages in a monitor queue | `send`, `wait`, `handle<T>`, `CloseQueue` | a message nobody handles is dropped and the wait goes on | each wait ends with a message of its own kinds or with `CloseQueue` |
| Hash table (p249), DNS cache (p106) | a readers-writer lock a bucket, or one | `value_for`, `add_or_update_mapping`, `remove_mapping`, `get_map` | search and change are two steps; `get_map` collects all locks; line p249:58 declares a function instead of taking a lock | readers and writers exclude each other; keys are unique; each call takes effect at one instant, the copy of the whole table too |
| List with a lock a node (p254) | list of nodes with a mutex each | `push_front`, `for_each`, `find_first_if`, `remove_if` | hand-over-hand locking; a removed node's mutex is destroyed after it was released | traversals do not overtake one another, no removed node is touched |
| Memory orders (p180-p212), atomic counter (p209), spinlock (p169) | atomics, and ordinary memory they are to order | stores, loads, exchanges and fences with an order | outcomes no interleaving has | no race on the ordinary memory; the assertions that the comments call safe hold |
| Lockable list (p088), single-threaded queues (p232, p234) | list | `for_each`; `push`, `try_pop` | p232 leaves `_tail` on the freed last node | FIFO, no dangling tail |
| The rest: lazy initialization (p101, p103), `std::lock` (p085, p094), readers and writers (p113), task queue (p127), futures (p123, p130, p140), sort and accumulate (p059, p146, p148), thread lifetimes (p040-p063), small lock examples (p071, p073, p080, p096, p099) | | | see `PROJECT.json` | |

Interaction: the stacks p272 and p281 are p270 with a reclaiming `pop`; p241 is
p236 with blocking pops; p106 is p249 with one bucket; the ATM's machines talk only through monitor queues,
each machine owning one and the others (and `main`) holding senders to it.

`PROJECT.json` lists every component with its status and, under `hazards`, the
lines where a test would hardly reach what can go wrong, with the properties that
cover each.

## 2. Modules

| Module | Models | Extends / instantiates |
|---|---|---|
| `FifoChannel` | what a queue promises: push and pop are instants, FIFO, nothing lost or doubled | |
| `LifoStack` | what a stack promises | |
| `MonitorQueue` | p117, p229, `messaging_queue.h` | implements `FifoChannel` |
| `TwoLockQueue` | p236, and the list of p241 | extends `LinkedLists`, implements `FifoChannel` |
| `TwoLockWaitQueue` | p241 | extends `TwoLockQueue`, implements `FifoChannel` |
| `ATM` | `ATM/` | builds on `FifoChannel`: a send and a receive are steps |
| `HierarchicalMutex` | p091 | |
| `LinkedLists` | the walk along `_next`, the nodes and the values of a list in a heap | |
| `TreiberStack` | p267, p270 | extends `LinkedLists`, implements `LifoStack` |
| `CountedStack` | p272 | extends `TreiberStack`, implements `LifoStack` |
| `HazardStack` | p281 | extends `TreiberStack`, implements `LifoStack` |
| `ConcurrentMap` | what a thread-safe table promises | |
| `LookupTable` | p249, p106 | implements `ConcurrentMap` |
| `Filters` | a sequence with one of its values left out | |
| `AtomicList` | what the list promises: each operation works on the whole list at one instant | extends `Filters` |
| `LockedList` | p254 | extends `LinkedLists` and `Filters`, implements `AtomicList` |
| `CxxMemory` | what the programs rely on in `std::atomic`: histories, views, release sequences, fences | |
| `MemoryOrders` | p169, p180, p187, p191, p193, p198, p200, p203, p204, p207, p209, p212 | extends `CxxMemory` |
| `MonitorQueueProofs`, `LookupTableProofs`, `ATMProofs` | theorems and proofs about the module of that name | |
| `SynchronizationProofs` | theorems and proofs about p091 and about the programs of `MemoryOrders` | extends `HierarchicalMutex`, `MemoryOrders` |
| `LockedListProofs` | theorems and proofs about p254 | extends `LockedList`, `LinkedListProofs` |
| `TwoLockQueueProofs` | theorems and proofs about p236 and p241 | extends `TwoLockWaitQueue`, `LinkedListProofs` |
| `LinkedListProofs` | what a change of one link does to a list, its nodes and its values | extends `LinkedLists` |
| `StackProofs` | theorems and proofs about the three stacks | extends `MCStacks`, `LinkedListProofs` |
| `MC*` | small instances for TLC; `MCATM` also chooses how the customer presses keys, and `MCTwoLock` and `MCStacks` choose one of the programs at the start and state the promises these share once | |

### How state and steps correspond to the code

*Threads.* A thread is its `pc`, the place in the function it is in, and the
function's locals. A call is one step that puts the thread at the first line;
after that there is a step for every access to something shared: a lock, an
atomic, a field another thread may reach. Between two such accesses the code of a
thread is invisible to the others and is part of the step before or after. The
callers (`writer_routine`, `reader_routine`) call anything at any time, which
includes what each `main` does.

*Mutexes* are an owner variable; `lock()` is enabled when there is none.
*Condition variables* are the set of threads inside `wait`: releasing the mutex
and joining the set is one step, as the standard has it; a notified thread
leaves the set and competes for the mutex again; a thread may be woken without a
notification. *Atomics* are sequentially consistent in the stacks, one access a step
(the code uses the default order in p267-p281), and have the orders the code gives
them in `MemoryOrders`. `compare_exchange_weak` may fail for no
reason; in `push` such a failure reloads the same value and is a stutter, in
`pop` it reads `_next` again (`PopCasSpurious`).

*Memory.* Nodes are addresses from a finite set `Nodes` that the allocator hands
out in any order and that are used again after `delete`. `allocated` says which
are alive; `Reads` and `Writes` say which ordinary fields a thread's next step
touches, from which the races and the accesses to freed memory are defined.

*`MonitorQueue`.* `queue`, `owner`, `waiting` are `_data_queue`, `_data_mutex` and
`_data_cond`. `front()` and `pop()` are two steps inside the mutex. `NotifyAll`
distinguishes the ATM's `notify_all` from `notify_one`.

*`TwoLockQueue`.* One step each for `new Node`, the tail lock, the three
assignments of `push`, the head lock, the tail lock inside `get_tail()`, the read of
`_tail`, the comparison, the detaching of the node, the copy of its value with no
lock held, its destruction. `CondVar` is the program: FALSE for p236, where an
empty queue makes `try_pop` return `make_shared<T>()`, TRUE for p241.

*`TwoLockWaitQueue`* adds `Block` (the predicate is false), `MoveValue` (the
overloads that move the value out under the head lock) and `PushNotify`, after
the tail lock was released. `try_pop(T &)` and `empty()` of p241 do not compile
when they are instantiated (`return old_head` for a bool, `return` of a value from
void); the control of the first is modelled as it is written, the second changes
nothing.

*`HierarchicalMutex`.* `owner`, `prev`, `thrLevel` are `_internal_mutex`,
`_prev_hier_value` and `_this_thread_hier_value`; `held` is the stack of
`lock_guard`s. `update_hier_value` comes after the internal lock and the restoring
of the level before its release, as in the code. A violation closes all guards of
the thread, innermost first, with the same two steps each.

*`TreiberStack`* splits `_head.compare_exchange_weak(old_head, old_head->_next)`
into the read of `_next` and the exchange. *`CountedStack`* follows `try_reclaim`
line by line; deleting the list a thread owns alone is one step, and so is the walk
to the end of a list it owns alone. *`HazardStack`* has a step for each slot the
constructor of `HPOwner` tries and each slot a scan reads; a thread may end and
give its slot back; `add_to_reclaim_list` is one step, its exchange, because it is
the same push that `TreiberStack` shows to be an instant.

*`LookupTable`.* `exclusive` and `shared` are each bucket's `shared_mutex`. The steps
are the lock, the search (`found` is the iterator it returns), what is done with
its result, and the unlock. `CallRemove` goes to the search directly: p249:58 takes
no lock. A data race leaves a C++ program without a meaning, so `Next` takes no step
from a state with a race, and every other property is about what comes before the
first one. `get_map` locks a bucket a step and copies in one, since nobody can change
a bucket meanwhile without a race. It names members of a `unique_ptr` and does
not compile when it is instantiated, which nobody does; it is modelled as it is
written. p106 is one bucket, no removal, and a standard map in its place.

*`LockedList`.* `owner` is every node's mutex, `current` and `ahead` are the
traversal's pointers. There is a step for each lock, each unlock, each read of a link
and each use of the data; `remove_if` unlinks, unlocks and destroys in three. The
list's destructor runs alone and is a `remove_if`.

*`CxxMemory`* gives each location the history of what was stored into it and each
thread a view of it: the oldest entry of each location it may still read. A release
leaves the writer's view in the entry, an acquire takes it over, an exchange
continues the release sequence of the entry it replaces, fences and `consume` keep
views apart until they apply. It is the library's part, modelled as far as the programs use
it: in each of them a new store goes to the end of its location's history, because
the threads that store plainly exclude each other. *`MemoryOrders`* writes the threads
as sequences of accesses and runs any one of the programs. A loop that polls a
location is the load or exchange that ends it, as the others only raise the thread's
view; the polls of p209 change `count` and are modelled each. An ordinary access races
unless the thread's view has the location's newest entry.

*`ATM`.* A queue is a sequence of messages. The three machines and `main` take
turns in any order. A state function runs up to its wait (`CallState`) and then
takes messages: `Handles` is the chain of `.handle<>` calls of each state, a
message outside it is dropped (`AtmDrops`), `CloseQueue` ends the machine. A
handler is one step: besides its sends it touches only its own machine's data,
and a receiver can tell nothing about the order of sends to different queues except
through a machine that has to take its own steps first. The exception is the bank's
handler of `Withdraw`, because the properties compare the balance with what the other
machines do: `BankWithdraws` tests the balance and sends the answer (`bank_machine.cpp:20-21`),
`BankSubtracts` subtracts the amount (line 22), and in between, while `debit` is the amount, the
others go on and the bank takes no message. Display messages, which
are only printed, are one kind, and a run of them counts as one. `dispensed` and
`cancels` are history, `Awaits` a table the properties use.

## 3. Runs

Each `pass` run checks everything about its program at once; each property has a
seeded fault in its module (the definitions marked so) that breaks it.

| Run | Instance | Shows |
|---|---|---|
| `monitor` | 3 threads, 2 values, 3 pushes, 2 polls or spurious wakeups | `TypeOK` (no `front()` or `pop()` of an empty queue), `MutexInv`, `NoLostWakeup`, `ImplementsChannel`; with fair threads `SleepersAreServed` |
| `twolock` | p236 and p241; 3 threads, 5 calls or spurious wakeups, 4 addresses | `NoDataRace`, `NoUseAfterFree`, `ListIsWhole`, `NoDeadlock`, `ImplementsChannel` |
| `waitqueue_sleepers` | p241; 2 threads, 2 calls | **violation**: `SleepersAreServed` |
| `atm` | any 9 keys, or a visit of 13 given keys; PIN of two digits, money for one withdrawal | `IssuedIsCovered`, `LossOnlyByCancel`, `AnswerUnderWay`, `PinChecked` (as long as no verification was cancelled); with fair threads `QuitTerminates`, `WithdrawalResolves` |
| `atm_cancel` | 5 keys | **violation**: `BooksBalance` |
| `hier` | 3 threads, 3 mutexes on 2 levels, 6 calls | `TypeOK` (a locked mutex remembers a level above its own), `OwnersHold`, `LevelsDescend`, `NoCircularWait`; if scopes end `LocksReturn` |
| `stacks` | p270, p272 with 6 calls, p281 with 5 and 2 slots; 3 threads, 3 addresses | `StacksTypeOK` (the counter is exact, slots have one owner), `NoAccessAfterFree`, `EveryNodeHasOneOwner`, `RacesOnlyOnLeftNodes`, `StacksAreLifo` |
| `counted_null` | p272; 2 threads, 3 calls | **violation**: `NullIsChecked` |
| `table` | 3 threads, 3 keys in 2 buckets, 2 values, 3 calls | `RacesOnlyByRemove`, `KeysUnique`, `TableImplementsMap`; with fair threads `CallsReturn` |
| `table_remove` | 2 threads, 2 calls | **violation**: `NoDataRace` |
| `list` | 3 threads, 3 addresses, 2 values, 5 calls | `NoUseAfterFree`, `NoDataRace`, `ListIsAtomic` |
| `orders` | twelve programs; p209 with 3 items and at most 8 changes of `count`, 2 rounds of p169 and p193 | `NoDataRace`, `AssertionsHold`, `ItemsHandledOnce` |

### Bounds

- Calls (`MaxPush`, `MaxSlack`, `MaxCalls`, `MaxKeys`) are bounded by guards of the
  calling actions, never of the steps inside a call, so a bound only makes callers
  stop. Deadlock is therefore not checked: a run ends when its calls are used up.
- Three threads are the least with two that interfere and one that is hurt: two
  sleepers and one push, two pops and a push, a circle of three locks, a search
  between two removals.
- `table`: three calls are two that fill a bucket or race and a third that sees it;
  two keys share a bucket, so that a removal leaves an entry behind. `list`: five
  calls are three nodes, a removal and a traversal behind it; `Image` swaps the
  two values, so that a `for_each` done twice or not at all shows.
- `orders`: each program has the threads of its `main` and one of the rounds that
  `main` joins before the next; p203 and p204 have two of five equal cells, p193 two of
  three counters and one of two readers. `MaxPolls` lets both consumers of p209 poll
  before the queue is filled and after it is empty.
- Addresses: an ABA needs a node popped and pushed again under a waiting pop, which
  five calls reach; the faults `PopCas_Blind` and `Reload_Unvalidated` show that
  the bounds are enough to see it. `Nodes` is never smaller than what the calls of a
  run with fairness need, so that an allocation never blocks there.
- `ATM`: nine keys, any of them in any order, are two sessions of card, PIN and withdrawal with a
  cancellation between. For a withdrawal to be answered by the answer to another the second PIN
  has to be verified while that answer is still to come, and the bank answers in order: it takes
  a cancelled verification, whose verdict serves the next PIN, and then a cancelled
  withdrawal. These are thirteen keys, and the customer who presses them in this order, with
  the machines in any, is the second kind of `MCATM`. `MaxAhead` lets a key be pressed when the ATM has no message waiting
  (answers of the bank still join it). 99 covers one withdrawal of 50: the second
  is denied. The PIN is two digits instead of four and `ClearLastPressed`, which
  the ATM handles and `main` has no key for, is pressed too.
- Symmetry over threads and addresses (and values in `list`) is used in `twolock`,
  `stacks` and `list`, which check no liveness property; the abstract specifications are symmetric in them as well.

### Fairness

Weak fairness of each thread's own steps: a thread that can run does, and a free
mutex is eventually taken by a thread that waits for it as long as it stays free
for that thread. Contention is finite because callers stop. No fairness is assumed
of callers, of customers, or of spurious wakeups. In `HierarchicalMutex` the end of a
scope is a thread's own step: the bodies of p091 end. In `ATM` each machine and the
shutdown of `main` are fair, the keys are not. In `LookupTable` a thread is fair as long as
no race has ended the behaviour, and `CallsReturn` asks nothing after one. `NoDeadlock`
of `twolock` needs no fairness: it is an invariant that says some thread can take a step
while one is in a call, not asleep and not allocating.

### What the violations show

- **`waitqueue_sleepers`** (p241:121). `push` notifies without ever holding
  `_head_mutex`, under which sleepers test their predicate. A push between
  `get_tail()` in the predicate and the sleep notifies nobody; the thread then sleeps
  with a value in the queue until another push. In `MonitorQueue` the same
  property holds, because there the value is pushed under the mutex of the wait.
  p241's own reader polls with `try_pop`.
- **`atm_cancel`** (`bank_machine.cpp:35`). The bank's handler of
  `CancelWithdrawal` is empty: if the cancel key beats the answer, the account stays
  debited, the answer is dropped and no money comes out, while the display says
  "Withdrawal cancelled". `LossOnlyByCancel` shows that this is the only way.
- **`counted_null`** (p272:49). `pop` of an empty stack with another thread in
  `pop` passes the null node to `chain_pending_node`, which writes through it. One
  reader, as in `main`, never does this.

- **`table_remove`** (p249:58). `unique_lock<shared_mutex> lock(mutex);` declares a
  function. The removal works on the bucket while the reader and the writer that `main`
  starts beside it hold the bucket's lock. `RacesOnlyByRemove` shows that the locks of all
  other operations are enough.

Some things are wrong or odd and no run's subject. p236:48 answers an empty queue with
`make_shared<T>()`, which the reader at line 87 takes for a value; the queue's
specification counts it as the answer of an empty queue. The assertion of p198:44 may
fail, as its own comment says, and `AssertionsHold` leaves it out; so may p207:36, which
reads `a` through no dependency. The ATM does not tell the bank's answers apart: the verdict on
a verification that was cancelled (`atm.cpp:79-83`) may arrive while the next customer's PIN is
being verified, `atm.cpp:68-72` takes it for the verdict on that one, and a wrong PIN gets to the
menu. That is why `PinChecked` and its theorem are about what happens as long as no verification
was cancelled; no text of the repository speaks of the other case. In p209 `count` goes down at
every poll; the model's is unbounded, while the code's `int` would wrap after some 2^31 empty polls.

One more disagreement is stated positively: p272:67 writes the `_next` of a popped
node while another thread in `pop` may read it (p272:100), formally a data race.
`RacesOnlyOnLeftNodes` says that this is the only one and that the value read is
never used; the model takes the read to return the old or the new pointer.

## 4. Proofs

| Theorem | States |
|---|---|
| `MonitorQueueProofs!TypeCorrect`, `MutualExclusion` | types, `front()` and `pop()` find a value; a critical section has one owner |
| `MonitorQueueProofs!NoWakeupIsLost` | `[]NoLostWakeup` |
| `MonitorQueueProofs!QueueIsAChannel` | `Spec => Channel!Spec` |
| `SynchronizationProofs!TypeCorrect`, `GuardsAreOwned`, `HierarchyHolds` | types and `Level[m] < prev[m]` once m was locked, `OwnersHold`, `LevelsDescend` |
| `SynchronizationProofs!DeadlockFreedom` | `[]NoCircularWait` |
| `SynchronizationProofs!OrdersAreEnough`, `AssertionsNeverFire`, `ItemsAreHandledOnce` | `[]NoDataRace`, `[]AssertionsHold`, `[]ItemsHandledOnce` for the twelve programs about atomics |
| `TwoLockQueueProofs!TypeCorrect` | types and lock scopes of p236 |
| `TwoLockQueueProofs!DataRaceFree`, `UseAfterFreeFree` | `[]NoDataRace`, `[]NoUseAfterFree` for p236 |
| `TwoLockQueueProofs!WaitTypeCorrect` | `[]WaitTypeOK`: the same, and who sleeps, for p241 |
| `TwoLockQueueProofs!WaitDataRaceFree`, `WaitUseAfterFreeFree` | `[]NoDataRace`, `[]NoUseAfterFree` for p241 |
| `TwoLockQueueProofs!ListStaysWhole`, `WaitListStaysWhole` | `[]ListIsWhole` for p236 and p241 |
| `TwoLockQueueProofs!QueueIsAChannel`, `WaitQueueIsAChannel` | `ImplementsChannel` for p236 and p241 |
| `LookupTableProofs!TypeCorrect`, `KeysStayUnique` | types, `[]KeysUnique` |
| `LookupTableProofs!OnlyRemoveRaces` | `[]RacesOnlyByRemove` |
| `LookupTableProofs!TableIsAMap` | `Spec => Map!Spec` |
| `LockedListProofs!NoNodeIsUsedAfterItsEnd` | `[]NoUseAfterFree` |
| `LockedListProofs!FieldsAreNotShared` | `[]NoDataRace` |
| `LockedListProofs!TypesAndOwners` | `[]TypeOK`: types, the locks a thread has, one owner for every node |
| `LockedListProofs!ListImplementsAtomic` | `Spec => ListIsAtomic`: each of the four operations takes effect at one instant |
| `ATMProofs!TypesHold` | types: messages of the right kinds, a PIN never too long, a balance never below zero |
| `ATMProofs!NoMoneyFromNothing`, `CancellationsAccountForLoss` | `[]IssuedIsCovered`, `[]LossOnlyByCancel` |
| `ATMProofs!AnswersAreUnderWay` | `[]AnswerUnderWay` |
| `ATMProofs!OnlyTheRightPin` | `[]PinChecked`: the right PIN, as long as no verification was cancelled |
| `StackProofs!StacksTyped` | `[]StacksTypeOK` for p270, p272, p281: types, the counter, the owners of slots |
| `StackProofs!StacksFreeNothingInUse` | `[]NoAccessAfterFree` |
| `StackProofs!StacksOwnTheirNodes` | `[]EveryNodeHasOneOwner` |
| `StackProofs!StacksRaceOnlyOnLeftNodes` | `[]RacesOnlyOnLeftNodes` |
| `StackProofs!StacksImplementLifo` | `MCSpec => StacksAreLifo`: each of the three implements `LifoStack` |

They hold for every value of the constants that satisfies the named assumptions
(`MonitorQueueAssumption`, `HierarchicalMutexAssumption`, `TwoLockAssumption`,
`LookupTableAssumption`, `LockedListAssumption`, `ATMAssumption`, `TreiberStackAssumption`,
`HazardAssumption`, `MemoryOrdersAssumption`): any number of threads (finite for the monitor queue and the stacks), any
values, both kinds of notification, any assignment of levels, any number of buckets and any
hash, any number of nodes (finite where a list is followed to its end), any number of slots for
hazard pointers, any keys, PIN, amount and balance, any number of items, rounds and polls. Nothing else is assumed.

*Monitor queue.* The inductive invariant is types, mutual exclusion and `ValInv`:
what each thread carries at each label, in particular that a thread between
`front()` and `pop()` holds the head of the queue, which `TypeOK` says is not empty.
`NoLostWakeup` is inductive relative to it. It compares the length of the queue
with the number of helpers, threads that are awake and bound for the data or about
to notify. The argument is by cases of the step: a push makes itself a helper;
a notification hands its role over to the thread it wakes, or there was no
sleeper left; a pop takes a value and a helper away together; a thread that starts
to sleep has found the queue empty. The refinement maps the queue to the channel's
items and a thread's value between `pop()` and the unlock to what it has got;
`PushData` and `PopRemove` are the two visible steps.

*Hierarchical mutex.* The inductive invariant adds `Falling` to the checked
properties: levels fall between any two guards of a thread, not only neighbours.
Without it, giving up the innermost guard could give up a mutex held by another
guard as well, and `OwnersHold` would not be preserved. `DeadlockFreedom` follows
from the invariant: in a circle of blocked threads take the one whose target has the
lowest level (well-foundedness of the naturals); the owner of that target is
in the circle too and holds the target, so what it is itself locking lies strictly
below.

*Two-lock queue.* A node is public when it is alive and in no single thread's hands. The
inductive invariant says that both ends are public and every public node but the tail leads
to a public one, no two of them to the same and none back to the head (`LinksOK`); that a
node in one thread's hands is alive and in nobody else's, and a new one is the end of the
list it will be (`PrivateOK`); and why a pop never stands on the node a push is filling
(`PopOK`): if the head is the tail, then a thread at its test has seen that, because the
thread's head lock keeps the head in place and the tail only ever moves to a node that was
private, and so is not the head. From there `head # tail` holds until the node is
detached. Races within one end are excluded by its lock, races between the ends by
`head # tail`, and races with the thread that reads or frees a detached node, with no lock at
all, by its being private. The lemmas are about single actions, so they serve
p241 too, for which only the waiting pops are added.

`ListIsWhole` and FIFO need the list as a whole: `WholeOK` says that the nodes from the head to
the one before the tail, in their order and each once, are the public nodes but the tail
(`Between`). Only two steps change that list: the one that moves the tail puts the old dummy
node at its end, with the value that was written into it (`DataOK`), and the one that detaches
the head takes the first node away. These are the push and the pop of `FifoChannel`; what a pop
is about to return is then the first value, because the node is in nobody else's hands when the
value is copied out (`try_pop` and `wait_and_pop` without a parameter), or the value was moved
out under the head lock before the node was detached (`DataOK` again).

*Hash table.* The inductive invariant adds to the types what a thread carries at each
label (`ArgsOK`), the locks it has (`LocksOK`) and `FoundOK`: when a thread is about
to use what it found, the entry is still at that place with that key, or the key is still
absent. `KeysUnique` rests on `FoundOK` (the key an update appends is not there),
and `FoundOK` on the locks for lookups and updates, and for a removal, which has
none, on the guard of `Next`: a step of another thread that changes the bucket
would race with it, and nothing is claimed after a race. `RacesOnlyByRemove`
follows from `LocksOK` alone. For the refinement the contents of a bucket are read as a
function of the key; the lemmas `AppendUnique`, `SetUnique` and `RemoveUnique` say what
appending, assigning and removing an entry do to that function and to uniqueness.

*List.* For races and freed nodes the argument is local, and says nothing about paths from the
head: links lead to live
nodes, and no two to the same one (`LinksOK`); a node in one thread's hands, not yet linked
or already unlinked, is the end of no link (`PrivateOK`); where each thread stands
and which locks it holds (`LocksOK`). To get at a node a thread needs the lock of its one
predecessor, so the thread that holds the locks of both is alone with it: that is why
`remove_if` may destroy a mutex it has just unlocked. `TypeOK` adds the whole list: `WholeOK`
says that the nodes from the head on are exactly those in nobody's hands; `push_front` puts a
node in second place and `remove_if` takes out the one behind the node it stands on, and no
other step changes a link of the list. `OwnersOK` is the other half of the locks: nobody has one
its place in the code does not give it.

That the list is atomic needs all traversals at once. A traversal takes effect when it locks
`_head`, although it comes to the last node much later; so the abstract list is what will be left
of the real one when every traversal under way has gone through it. A node at position i hands
its value down from 2i to 0 (`Comes`, `Flow`), and where a traversal has come to (`Reached`) it
does to the value what it is going to do (`Eff`): what arrives at 0 is what the abstract list has
there, and a search finds what arrives just above it (`Hit`). The invariant `SimInv` adds to the
above what a thread is about at each label (`CallsOK`), from which a traversal is at a node whose
lock it has (`Spot`) and no two are at one place (`Apart`). Then every step is one of five kinds.
A traversal that locks `_head` appears at 0, below everything (`StartSim`): `Mapped` and
`Without` say what that does to a sequence, and these are the abstract operations. One that goes
on comes from a to b with nobody in between, because it has the locks of that piece, and the
values of that piece have had its work done to them (`MoveSim`); for a search nothing is done
and what it steps over is not what it looks for (`SearchSim`). A node linked in second place puts
a place under all traversals, none of which is at `_head` (`LinkStep`); one that is unlinked takes a
place away whose value comes down as removed from the `remove_if` that stands before it, and no
search is between the two (`UnlinkStep`). Everything else stands still (`StandingSim`,
`OutsideSim`). The recursive functions behind this, `Later` and `Without`, are shown to meet their
equations by building a solution with `Iteration`.

*Cash machine.* The queues enter the argument only by how many messages of each kind they
hold: the lemmas about `Count` say what a send and a receive do to that number. The invariant
has five parts. `Typed` bounds the typed PIN and fixes the amount of a withdrawal.
`AnswerOK` counts the requests not yet answered and the answers not yet taken: a waiting state
has at least one, because it is entered with a request, the bank turns each request into an
answer while it runs (it does not end between the answer and the subtraction), and to take an answer is to leave the state; answers are dropped in other
states only. `OpenOK` keeps the bank running until `q`. `MoneyOK` is the books, kept with the account as it will be after the pending
subtraction (`Account`, which is `balance - debit` and never below zero): what left it is at least what was dispensed or is on its way (`Paid`), and at most that and one amount for
each withdrawal cancelled or in process beyond those still owed an answer (`Lost`); both bounds
are needed at once, as a late answer moves an amount from one to the other. `PinOK` says that
with no cancelled verification there is at most one verdict under way, and that it is about the
PIN the machine holds.

*Lists.* `LinkedListProofs` carries what the other proofs need of a linked list: a list is a
numbered piece of the heap without repetitions whose last link is null (`IsList`, `Segment`),
the walk of `LinkedLists` goes through it in that order, and from there what it does to nodes
and values to put a node in front (`ListCons`), to go to the next one (`ListHead`), to
change links elsewhere (`ListSame`), to hang one list behind another (`ListJoin`), to put a node
at the end of a piece or take one out of its middle (`SegmentSnoc`, `SegmentSkip`). The induction
over the length is done once, with the least number for which a set fails.

*Stacks.* What all three have in common is `StackInv`: the head begins a list of live nodes
(`ListOK`); a node in a thread's hands is in no other's and not on the stack (`HoldsOK`); the
node a pop looks into is alive and nobody is pushing it (`LooksOK`), so that once it has left
the stack it is not the head again; and therefore, at the exchange, its link is still the
one that was read or the exchange fails (`LinkOK`), which is what ABA would break. p270 never
frees a node, and `LooksOK` is all there is to it. For p272, `OwnersOK` puts every live node
in one place; `BatchOK` says what a thread took from the pending list is a list, cut at
its last node while it is being put back; `CountOK` makes the counter exact; and `Unseen` is
the reason for the counter: a node in the hands of a thread that found itself alone in `pop`
after it had taken the node is one that no other thread looks into, and what it took from the
pending list is so when the counter is still 1 as it leaves. For p281,
`TableOK` gives each slot one owner, `HazardOwners` and `ListsOK` put every live node in one
place, and `ScanOK` says how far a scan has to have come for a thread's hazard pointer to be
published behind it: a thread that validated its pointer before the node left the stack is still
ahead of the scan. The refinement follows from the same invariant: `LifoStep` says in terms of
`Contents` and of the value a thread has `Got` what a step may do, and each action is shown
to be the exchange of a push, the exchange of a pop, a return, or nothing.

*Memory orders.* First the memory: `MemOK` says that histories, views and what entries carry
have their types and point into the histories, and each operation of `CxxMemory` keeps it.
Then four things that a step of any thread does to what the others know: `Seen(x, t)`, the
thread may no longer read an old value of x; `Passes(f, v, x)`, whoever acquires v from the flag
f has then seen x; `Leads(f, x)`, the newest entry of f passes x on, so that an exchange, which
continues the release sequence, does too; and `Vals(f)`, the values f ever had. A lemma for
each kind of access (ordinary, load, store, exchange, fence, join) says how it changes them: a
release passes on what its thread has seen, an acquire of v makes seen what `Passes(f, v, x)`
says, a fence moves it between `fenced` or `unseen` and the view, and only a store to x itself
takes `Seen(x, t)` from the others. Each program has an invariant in these terms, by which
thread is how far in its text, and `OrdersInv` is that of the program that was chosen. The
invariant of p187 adds what `seq_cst` gives (`Ones`: no load after the last such store reads an older
value), so that one of its two readers sees both flags; that of p169 that the newest entry of
the lock, when it is free, leads to all that was written under it; that of p193 that each thread
has seen its own array of values, and `main` those of the threads it has joined; and that of p209
counts: the items left, in the consumers' hands and processed are all of them, each once. `MemoryOrders` names its state and its steps differently from `HierarchicalMutex`, so that one
module can extend both.

Only model-checked: liveness (`SleepersAreServed`, `QuitTerminates`, `WithdrawalResolves`,
`LocksReturn`, `CallsReturn`) and `NoDeadlock`, which are about fairness and ENABLED and out of
the prover's reach.

## 5. Not modelled

`PROJECT.json` gives the reason for each component. In general: exceptions thrown by
`T`'s constructors or by `new`, the end of input in the ATM's `main`, output and timing
(`sleep_for`). `ATM` does not relate money to customers after `q`: an `IssueMoney` behind
the interface's `CloseQueue` is never read. `CxxMemory` is no model of all of the language's memory:
a store never goes into the middle of a history, and loads come in the order of the
program, so a load never sees a store that comes after it in program order elsewhere (load
buffering); no program here has a comment or an assertion about such an outcome.

Programs left out because nothing of theirs interleaves, or because what matters is a
promise of the standard library: p088 and p080 (simpler cases of what is modelled),
p232 and p234 (one thread), p085, p094, p101, p103, p123, p130, p140 (`std::lock`,
`std::call_once`, futures), p059, p146, p148 (threads with nothing shared), and the short examples.

## 6. Plan

What would come next, each with the hazards it covers:

1. an empty result of `try_pop` and `pop` as a promise of the abstract specifications: only if
   the container was empty at some instant of the call;
2. p113 and p127 as variants of `MonitorQueue`; p232's dangling tail.
