SPECIFICATION Spec
CONSTANTS
    c1 = c1
    c2 = c2
    Client <- MCClient
    Timeframe <- MCTimeframe
    Kept = 1
    StartTime = 2
    MaxTime = 4
    MaxTrades = 3
    MaxHistory = 4
    MaxPending = 1
CHECK_DEADLOCK FALSE
INVARIANTS
    TypeOK
    ClosedOnceInOrder
    ClosedIsFinal
PROPERTIES
    CandlesAreClosed
    InProgressAdvances
