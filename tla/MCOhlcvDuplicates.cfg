SPECIFICATION Spec
CONSTANTS
    c1 = c1
    c2 = c2
    Client <- OneClient
    Timeframe <- MCTimeframe
    Kept = 1
    StartTime = 2
    MaxTime = 5
    MaxTrades = 3
    MaxHistory = 4
    MaxPending = 2
CHECK_DEADLOCK FALSE
INVARIANTS
    NoTradeTwice
