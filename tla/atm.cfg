CONSTANTS
    Digits <- MCDigits
    Keys = {"CardInserted", "WithdrawPressed", "BalancePressed", "CancelPressed", "ClearLastPressed"}
    CorrectPin <- MCLongPin
    InitialBalance = 99
    Amount = 50
    MaxKeys = 13
    MaxAhead = 1
SPECIFICATION MCSpec
INVARIANTS
    TypeOK
    IssuedIsCovered
    LossOnlyByCancel
    AnswerUnderWay
    PinChecked
PROPERTIES
    QuitTerminates
    WithdrawalResolves
\* A machine may wait for ever for a key, and main returns.
CHECK_DEADLOCK FALSE
