CONSTANTS
    t1 = t1
    t2 = t2
    t3 = t3
    v1 = v1
    v2 = v2
    Threads <- MCThreads
    Values <- MCValues
    NoThread = NoThread
    NoValue = NoValue
    NotifyAll = FALSE
    MaxPush = 3
    MaxSlack = 2
SPECIFICATION FairSpec
INVARIANTS
    TypeOK
    MutexInv
    NoLostWakeup
PROPERTIES
    ImplementsChannel
    SleepersAreServed
\* Every thread may end up waiting on an empty queue with nobody left to push.
CHECK_DEADLOCK FALSE
