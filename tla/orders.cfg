CONSTANTS
    NumberOfItems = 3
    Rounds = 2
    MaxPolls = 8
SPECIFICATION OrdersSpec
INVARIANTS
    NoDataRace
    AssertionsHold
    ItemsHandledOnce
\* The programs end, and the bounds stop the consumers of p209.
CHECK_DEADLOCK FALSE
