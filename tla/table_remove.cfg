CONSTANTS
    t1 = t1
    t2 = t2
    t3 = t3
    k0 = k0
    k1 = k1
    k2 = k2
    v1 = v1
    v2 = v2
    Threads <- MCTwoThreads
    Keys <- MCKeys
    Values <- MCValues
    NumBuckets = 2
    Hash <- MCHash
    NoThread = NoThread
    NoKey = NoKey
    NoValue = NoValue
    NoAnswer = NoAnswer
    Done = Done
    MaxCalls = 2
SPECIFICATION Spec
INVARIANT
    NoDataRace
\* The budget of calls runs out, and a race ends the behaviour.
CHECK_DEADLOCK FALSE
