CONSTANTS
    t1 = t1
    t2 = t2
    t3 = t3
    v1 = v1
    v2 = v2
    n1 = n1
    n2 = n2
    n3 = n3
    Threads <- MCThreads
    Values <- MCValues
    Image <- MCImage
    Nodes <- MCNodes
    HeadNode = HeadNode
    Null = Null
    NoThread = NoThread
    NoValue = NoValue
    MaxCalls = 5
SPECIFICATION Spec
SYMMETRY ListSymmetry
INVARIANTS
    TypeOK
    NoUseAfterFree
    NoDataRace
PROPERTY
    ListIsAtomic
\* The budget of calls runs out.
CHECK_DEADLOCK FALSE
