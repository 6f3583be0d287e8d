CONSTANTS
    t1 = t1
    t2 = t2
    t3 = t3
    v1 = v1
    v2 = v2
    n1 = n1
    n2 = n2
    n3 = n3
    n4 = n4
    Threads <- MCTwoThreads
    Values <- MCValues
    Nodes <- MCNodes
    Null = Null
    NoThread = NoThread
    NoValue = NoValue
    DefaultValue = DefaultValue
    CondVar = TRUE
    MaxCalls = 2
SPECIFICATION MCFairSpec
PROPERTY
    SleepersAreServed
\* The budget of calls runs out, and a waiting thread may wait for ever.
CHECK_DEADLOCK FALSE
