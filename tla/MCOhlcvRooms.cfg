SPECIFICATION FairSpec
CONSTANTS
    c1 = c1
    c2 = c2
    tf1 = tf1
    room = room
    a1 = a1
    a2 = a2
    w1 = w1
    w2 = w2
    None = None
    Client <- MCClient
    Timeframe <- OneTimeframe
    Room <- MCRoom
    Call <- MCCall
    Watcher <- MCWatcher
    MaxPolls = 1
CHECK_DEADLOCK FALSE
INVARIANTS
    TypeOK
    TrackedRoomsAreAlive
PROPERTIES
    ImplementsRoomFeed
    AbandonedIntervalsStop
    TrackedRoomsArePolled
