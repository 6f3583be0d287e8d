CONSTANTS
    t1 = t1
    t2 = t2
    t3 = t3
    k0 = k0
    k1 = k1
    k2 = k2
    v1 = v1
    v2 = v2
    Threads <- MCThreads
    Keys <- MCKeys
    Values <- MCValues
    NumBuckets = 2
    Hash <- MCHash
    NoThread = NoThread
    NoKey = NoKey
    NoValue = NoValue
    NoAnswer = NoAnswer
    Done = Done
    MaxCalls = 3
SPECIFICATION FairSpec
INVARIANTS
    TypeOK
    RacesOnlyByRemove
    KeysUnique
PROPERTIES
    TableImplementsMap
    CallsReturn
\* The budget of calls runs out, and a race ends the behaviour.
CHECK_DEADLOCK FALSE
