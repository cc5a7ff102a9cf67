SPECIFICATION Spec
CONSTANTS
    e1 = e1
    e2 = e2
    e3 = e3
    x1 = x1
    x2 = x2
    ExchangeIds <- MCExchangeIds
    BatchSize = 2
    Cycle <- MCCycle
    MaxVersion = 1
CHECK_DEADLOCK FALSE
INVARIANTS
    StoppedMeansStopped
