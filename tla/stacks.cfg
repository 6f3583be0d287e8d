CONSTANTS
    t1 = t1
    t2 = t2
    t3 = t3
    v1 = v1
    v2 = v2
    n1 = n1
    n2 = n2
    n3 = n3
    Threads <- MCThreads
    Values <- MCValues
    Nodes <- MCNodes
    Null = Null
    NoValue = NoValue
    Slots = 2
    NoThread = NoThread
    MaxCalls = 6
SPECIFICATION MCSpec
SYMMETRY ThreadAndNodeSymmetry
INVARIANTS
    StacksTypeOK
    NoAccessAfterFree
    EveryNodeHasOneOwner
    RacesOnlyOnLeftNodes
PROPERTY
    StacksAreLifo
\* The budget of calls runs out.
CHECK_DEADLOCK FALSE
