CONSTANTS
    t1 = t1
    t2 = t2
    t3 = t3
    m10 = m10
    m20 = m20
    n20 = n20
    Threads <- MCThreads
    Mutexes <- MCMutexes
    Level <- MCLevel
    MaxLevel = 99
    NoThread = NoThread
    NoMutex = NoMutex
    MaxCalls = 6
SPECIFICATION FairSpec
INVARIANTS
    TypeOK
    OwnersHold
    LevelsDescend
    NoCircularWait
PROPERTY
    LocksReturn
\* The budget of calls runs out.
CHECK_DEADLOCK FALSE
