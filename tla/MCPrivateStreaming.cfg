SPECIFICATION StreamSpec
CONSTANTS
    c1 = c1
    u1 = u1
    room1 = room1
    room2 = room2
    key1 = key1
    key2 = key2
    h1 = h1
    w1 = w1
    w2 = w2
    i1 = i1
    i2 = i2
    i3 = i3
    a1 = a1
    None = None
    Client <- MCClient
    User <- MCUser
    UserOf <- MCUserOf
    Room <- MCRoom
    Service <- MCService
    Audience <- MCAudience
    Handler <- MCHandler
    Watcher <- MCWatcher
    MaxPolls = 1
    PublicKey <- NoKey
    PrivateKey <- MCKey
    Supported <- MCKey
    Expiring <- MCKey
    SessionOf <- MCSessionOf
    Instance <- MCInstance
    Call <- MCCall
CHECK_DEADLOCK FALSE
SYMMETRY Interchangeable
INVARIANTS
    TrackedRoomsAreAlive
    PolledAreReady
    AccountsAreSeparate
PROPERTIES
    ImplementsRoomFeed
    StartsOnLiveSessions
