SPECIFICATION Spec
CONSTANTS
    binance = binance
    user = user
    unknown = unknown
    i1 = i1
    i2 = i2
    i3 = i3
    i4 = i4
    a1 = a1
    a2 = a2
    a3 = a3
    None = None
    PublicKey <- PublicExchanges
    PrivateKey <- PrivateSessions
    Supported <- SupportedKeys
    Expiring <- SupportedKeys
    Instance <- FourInstances
    Call <- ThreeCalls
SYMMETRY Interchangeable
INVARIANTS
    TypeOK
    UsedAreReady
    SessionsAreTested
    ClosedSessionsLeave
