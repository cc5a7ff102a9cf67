SPECIFICATION FairSpec
CONSTANTS
    c1 = c1
    c2 = c2
    u1 = u1
    u2 = u2
    room = room
    a1 = a1
    a2 = a2
    w1 = w1
    w2 = w2
    w3 = w3
    None = None
    Client <- MCClient
    User <- MCUser
    UserOf <- MCUserOf
    Room <- MCRoom
    Service <- MCService
    Audience <- MCAudience
    Call <- MCCall
    Watcher <- TwoWatchers
    MaxPolls = 1
CHECK_DEADLOCK FALSE
INVARIANTS
    TypeOK
    TrackedRoomsAreAlive
    JoinedAreSubscribed
PROPERTIES
    ImplementsRoomFeed
    AbandonedIntervalsStop
    TrackedRoomsArePolled
