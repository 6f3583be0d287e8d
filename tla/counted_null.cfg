CONSTANTS
    t1 = t1
    t2 = t2
    t3 = t3
    v1 = v1
    v2 = v2
    n1 = n1
    n2 = n2
    n3 = n3
    Threads <- MCTwoThreads
    Values <- MCValues
    Nodes <- MCTwoNodes
    Null = Null
    NoValue = NoValue
    Slots = 1
    NoThread = NoThread
    MaxCalls = 3
SPECIFICATION MCSpec
INVARIANT
    NullIsChecked
\* The budget of calls runs out.
CHECK_DEADLOCK FALSE
