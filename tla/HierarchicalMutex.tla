--------------------------- MODULE HierarchicalMutex ---------------------------
(***************************************************************************)
(* Class HierarchicalMutex of p091 and the scopes of lock_guards that use  *)
(* it.  A thread carries the level of the mutex it locked last; a mutex    *)
(* may only be locked from a higher level, and locking remembers the level *)
(* to go back to.  Locks are given back in the opposite order, when the    *)
(* guards go out of scope, and an exception closes every scope of the      *)
(* thread.                                                                 *)
(***************************************************************************)
EXTENDS Naturals, Sequences

CONSTANTS Threads,
          Mutexes,
          Level,      \* the _hier_value of each mutex
          MaxLevel,   \* numeric_limits<size_t>::max()
          NoThread,   \* the owner of a free mutex
          NoMutex,    \* the target of a thread that is not locking anything
          MaxCalls    \* bound: how many calls of lock and try_lock are made

ASSUME HierarchicalMutexAssumption ==
    /\ MaxLevel \in Nat
    /\ Level \in [Mutexes -> 0 .. MaxLevel]
    /\ NoThread \notin Threads
    /\ NoMutex \notin Mutexes
    /\ MaxCalls \in Nat

VARIABLES owner,      \* the holder of each _internal_mutex
          prev,       \* _prev_hier_value of each mutex
          thrLevel,   \* _this_thread_hier_value of each thread
          held,       \* the mutexes a thread has guards on, innermost last
          pc,         \* what each thread does next
          target,     \* the mutex it is locking
          calls       \* calls made so far, at most MaxCalls

vars == <<owner, prev, thrLevel, held, pc, target, calls>>

Goto(t, l) == pc' = [pc EXCEPT ![t] = l]

\* The guard that is closed first.
Innermost(t) == held[t][Len(held[t])]

Init == /\ owner = [m \in Mutexes |-> NoThread]
        /\ prev = [m \in Mutexes |-> 0]
        /\ thrLevel = [t \in Threads |-> MaxLevel]
        /\ held = [t \in Threads |-> <<>>]
        /\ pc = [t \in Threads |-> "running"]
        /\ target = [t \in Threads |-> NoMutex]
        /\ calls = 0
-------------------------------------------------------------------------------
(* lock and try_lock. *)

\* Seeded fault: a mutex of the thread's own level passes the check.
Allowed_SameLevel(t, m) == thrLevel[t] >= Level[m]

\* check_for_hier_violation returns.
Allowed(t, m) == thrLevel[t] > Level[m]

CallLock(t, m) == /\ pc[t] = "running"
                  /\ calls < MaxCalls
                  /\ calls' = calls + 1
                  /\ Allowed(t, m)
                  /\ target' = [target EXCEPT ![t] = m]
                  /\ Goto(t, "lock")
                  /\ UNCHANGED <<owner, prev, thrLevel, held>>

CallTryLock(t, m) == /\ pc[t] = "running"
                     /\ calls < MaxCalls
                     /\ calls' = calls + 1
                     /\ Allowed(t, m)
                     /\ target' = [target EXCEPT ![t] = m]
                     /\ Goto(t, "try_lock")
                     /\ UNCHANGED <<owner, prev, thrLevel, held>>

\* lock and try_lock throw; the exception closes the guards of the thread.
Violation(t, m) == /\ pc[t] = "running"
                   /\ calls < MaxCalls
                   /\ calls' = calls + 1
                   /\ ~Allowed(t, m)
                   /\ Goto(t, "unwinding")
                   /\ UNCHANGED <<owner, prev, thrLevel, held, target>>

\* _internal_mutex.lock() returns, or _internal_mutex.try_lock() succeeds.
Acquire(t) == /\ pc[t] \in {"lock", "try_lock"}
              /\ owner[target[t]] = NoThread
              /\ owner' = [owner EXCEPT ![target[t]] = t]
              /\ Goto(t, "update")
              /\ UNCHANGED <<prev, thrLevel, held, target, calls>>

\* _internal_mutex.try_lock() fails, which it may do with the mutex free.
TryFails(t) == /\ pc[t] = "try_lock"
               /\ target' = [target EXCEPT ![t] = NoMutex]
               /\ Goto(t, "running")
               /\ UNCHANGED <<owner, prev, thrLevel, held, calls>>

\* Seeded fault: the two assignments are in the other order, and the mutex
\* remembers its own level.
Update_Swapped(t) ==
    /\ pc[t] = "update"
    /\ thrLevel' = [thrLevel EXCEPT ![t] = Level[target[t]]]
    /\ prev' = [prev EXCEPT ![target[t]] = Level[target[t]]]
    /\ held' = [held EXCEPT ![t] = Append(@, target[t])]
    /\ target' = [target EXCEPT ![t] = NoMutex]
    /\ Goto(t, "running")
    /\ UNCHANGED <<owner, calls>>

\* update_hier_value, inside the mutex.
Update(t) == /\ pc[t] = "update"
             /\ prev' = [prev EXCEPT ![target[t]] = thrLevel[t]]
             /\ thrLevel' = [thrLevel EXCEPT ![t] = Level[target[t]]]
             /\ held' = [held EXCEPT ![t] = Append(@, target[t])]
             /\ target' = [target EXCEPT ![t] = NoMutex]
             /\ Goto(t, "running")
             /\ UNCHANGED <<owner, calls>>
-------------------------------------------------------------------------------
(* unlock. *)

\* Seeded fault: unlocking leaves the hierarchy altogether.
Restore_ToTop(t) == /\ pc[t] \in {"running", "unwinding"}
                    /\ held[t] # <<>>
                    /\ thrLevel' = [thrLevel EXCEPT ![t] = MaxLevel]
                    /\ Goto(t, IF pc[t] = "running" THEN "unlock" ELSE "unlock_unwinding")
                    /\ UNCHANGED <<owner, prev, held, target, calls>>

\* The innermost guard goes out of scope: the level is restored ...
Restore(t) == /\ pc[t] \in {"running", "unwinding"}
              /\ held[t] # <<>>
              /\ thrLevel' = [thrLevel EXCEPT ![t] = prev[Innermost(t)]]
              /\ Goto(t, IF pc[t] = "running" THEN "unlock" ELSE "unlock_unwinding")
              /\ UNCHANGED <<owner, prev, held, target, calls>>

\* Seeded fault: the internal mutex stays locked when an exception unwinds.
Release_NotUnwinding(t) ==
    /\ pc[t] \in {"unlock", "unlock_unwinding"}
    /\ owner' = IF pc[t] = "unlock" THEN [owner EXCEPT ![Innermost(t)] = NoThread] ELSE owner
    /\ held' = [held EXCEPT ![t] = SubSeq(@, 1, Len(@) - 1)]
    /\ Goto(t, IF pc[t] = "unlock" THEN "running" ELSE "unwinding")
    /\ UNCHANGED <<prev, thrLevel, target, calls>>

\* ... and then the internal mutex released.
Release(t) == /\ pc[t] \in {"unlock", "unlock_unwinding"}
              /\ owner' = [owner EXCEPT ![Innermost(t)] = NoThread]
              /\ held' = [held EXCEPT ![t] = SubSeq(@, 1, Len(@) - 1)]
              /\ Goto(t, IF pc[t] = "unlock" THEN "running" ELSE "unwinding")
              /\ UNCHANGED <<prev, thrLevel, target, calls>>

\* The catch block: every guard is closed.
Catch(t) == /\ pc[t] = "unwinding"
            /\ held[t] = <<>>
            /\ Goto(t, "running")
            /\ UNCHANGED <<owner, prev, thrLevel, held, target, calls>>
-------------------------------------------------------------------------------
\* The steps of a lock, of an unlock and of the end of a scope.
Step(t) == \/ Acquire(t)
           \/ TryFails(t)
           \/ Update(t)
           \/ Restore(t)
           \/ Release(t)
           \/ Catch(t)

Next == \E t \in Threads : \/ Step(t)
                           \/ \E m \in Mutexes : \/ CallLock(t, m)
                                                 \/ CallTryLock(t, m)
                                                 \/ Violation(t, m)

Spec == Init /\ [][Next]_vars

\* A thread that can run goes on, and scopes end: a thread with guards that
\* makes no further call closes the innermost.
FairSpec == Spec /\ \A t \in Threads : WF_vars(Step(t))
-------------------------------------------------------------------------------
(* Properties. *)

\* Every variable has its type, and the level a mutex remembers is above its own
\* from the first time it was locked, whether or not it is locked now and whatever
\* scopes an exception closed (p091:18, 24-25).
TypeOK ==
    /\ owner \in [Mutexes -> Threads \cup {NoThread}]
    /\ prev \in [Mutexes -> 0 .. MaxLevel]
    /\ \A m \in Mutexes : prev[m] = 0 \/ Level[m] < prev[m]
    /\ thrLevel \in [Threads -> 0 .. MaxLevel]
    /\ held \in [Threads -> Seq(Mutexes)]
    /\ pc \in [Threads -> {"running", "lock", "try_lock", "update",
                           "unlock", "unlock_unwinding", "unwinding"}]
    /\ target \in [Threads -> Mutexes \cup {NoMutex}]
    /\ \A t \in Threads : target[t] \in Mutexes <=> pc[t] \in {"lock", "try_lock", "update"}
    /\ \A t \in Threads : pc[t] \in {"unlock", "unlock_unwinding"} => held[t] # <<>>
    /\ calls \in 0 .. MaxCalls

\* A thread owns the internal mutexes it has guards on, and the one whose lock
\* has just returned (p091:36-37).
OwnersHold == \A m \in Mutexes, t \in Threads :
                 owner[m] = t <=> \/ \E i \in DOMAIN held[t] : held[t][i] = m
                                  \/ pc[t] = "update" /\ target[t] = m

\* The level a thread had outside its i-th guard.
Outside(t, i) == IF i = 1 THEN MaxLevel ELSE Level[held[t][i - 1]]

\* The guards of a thread are on mutexes of strictly falling levels, and each of
\* these mutexes remembers the level outside its guard.
GuardsDescend(t) == \A i \in DOMAIN held[t] : /\ Level[held[t][i]] < Outside(t, i)
                                              /\ prev[held[t][i]] = Outside(t, i)

\* The guards that count for a thread's level: unlock restores it first.
Depth(t) == IF pc[t] \in {"unlock", "unlock_unwinding"} THEN Len(held[t]) - 1 ELSE Len(held[t])

\* The hierarchy: guards go down, the thread's own level is that of the innermost
\* guard, and what it is locking lies below (p091:17-26, 40-43).
LevelsDescend == \A t \in Threads : /\ GuardsDescend(t)
                                    /\ thrLevel[t] = Outside(t, Depth(t) + 1)
                                    /\ target[t] \in Mutexes => Level[target[t]] < thrLevel[t]

\* No deadlock: no set of threads each blocked in lock() on a mutex that
\* another thread of the set owns, which is what the levels are for.
NoCircularWait ==
    \A S \in SUBSET Threads :
        S # {} => \E t \in S : ~(pc[t] = "lock" /\ owner[target[t]] \in S)

\* Nobody is blocked for ever, as long as scopes end.
LocksReturn == \A t \in Threads : pc[t] = "lock" ~> pc[t] # "lock"
===============================================================================
