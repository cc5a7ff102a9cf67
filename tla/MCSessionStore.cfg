SPECIFICATION FairSpec
CONSTANTS
    k1 = k1
    k2 = k2
    v1 = v1
    v2 = v2
    h1 = h1
    h2 = h2
    h3 = h3
    Key <- MCKey
    Value <- MCValue
    Handle <- MCHandle
    Ttl = 2
    TtlFinite = TRUE
    NoSession = NoSession
    NoHandle = NoHandle
    Unarmed = Unarmed
INVARIANTS
    TypeOK
    TimersMatchSessions
    TimersMeasureIdleness
PROPERTIES
    ImplementsExpiringMap
    UnusedSessionsExpire
