CONSTANTS
    Digits <- MCDigits
    Keys = {"CardInserted", "WithdrawPressed", "CancelPressed"}
    CorrectPin <- MCCorrectPin
    InitialBalance = 99
    Amount = 50
    MaxKeys = 5
    MaxAhead = 2
SPECIFICATION MCSpec
INVARIANT
    BooksBalance
\* A machine may wait for ever for a key, and main returns.
CHECK_DEADLOCK FALSE
