---- MODULE OhlcvRooms ----
(***************************************************************************)
(* WsOhlcvService and the OHLCV handlers of the public gateway: rooms, in  *)
(* which each client is subscribed under one timeframe, the intervals that *)
(* poll the trades of a room, and the cleanup on their way out.  It is a   *)
(* service of its own: the room is one map entry with trades and           *)
(* subscribers, the socket.io rooms are those of a client and a timeframe, *)
(* and an interval that stops deletes the room after an await.             *)
(*                                                                         *)
(* What a poll does to the trades of a room, and the candles it emits, are *)
(* in module OhlcvCandles.  As in RoomWatcher an action is the code        *)
(* between two awaits, and any two may interleave.                         *)
(*                                                                         *)
(* Bounds: Call is the number of handlers in flight, Watcher the number of *)
(* intervals alive, MaxPolls the polls one interval has pending.           *)
(***************************************************************************)
EXTENDS Naturals, FiniteSets

CONSTANTS
    Client,       \* sockets
    Timeframe,
    Room,
    Call,         \* slots for handlers in flight
    Watcher,      \* slots for intervals
    MaxPolls,
    None

ASSUME OhlcvAssumption ==
    /\ None \notin Timeframe
    /\ MaxPolls \in Nat \ {0}

VARIABLES
    subscribers,    \* the timeframe under which each client is in this.rooms, or None
    watcherTasks,   \* the keys of this.watcherTasks
    watcher,        \* the intervals of startOhlcvWatcher
    polls,          \* the watchTrades calls an interval has pending
    call,           \* handlers in flight
    joined,         \* the socket.io rooms: who is in that of which client and timeframe
    connected,      \* sockets that are connected
    canUnwatch      \* the rooms whose exchange has unWatchTrades; never changes

vars == <<subscribers, watcherTasks, watcher, polls, call, joined, connected, canUnwatch>>

\* A room is made with its first subscriber and deleted with its last one: it
\* has an entry in this.rooms exactly if somebody is subscribed to it.
Nobody == [c \in Client |-> None]
Live(r) == subscribers[r] # Nobody

NoWatcher == [state |-> "free", room |-> None]
NoCall == [pc |-> "idle", client |-> None, room |-> None, timeframe |-> None]

Spare(w) == watcher[w] = NoWatcher /\ polls[w] = 0
Pending(r) == {a \in Call : call[a].pc = "lookup" /\ call[a].room = r}

Init ==
    /\ subscribers = [r \in Room |-> Nobody]
    /\ watcherTasks = {}
    /\ watcher = [w \in Watcher |-> NoWatcher]
    /\ polls = [w \in Watcher |-> 0]
    /\ call = [a \in Call |-> NoCall]
    /\ joined = [r \in Room |-> {}]
    /\ connected = Client
    /\ canUnwatch \in SUBSET Room

----------------------------------------------------------------------------
(* The handlers, and watchOhlcv and unWatchOhlcv. *)

\* watchOhlcv: make the room if need be, and set the client's timeframe, in
\* place of any other; then look up the exchange unless the room is taken
\* care of.  (One slot for an interval is left for every lookup under way.)
Watch(a, c, r, tf) ==
    /\ call[a] = NoCall
    /\ c \in connected
    /\ Cardinality({w \in Watcher : Spare(w)}) > Cardinality(UNION {Pending(q) : q \in Room})
    /\ subscribers' = [subscribers EXCEPT ![r] = [@ EXCEPT ![c] = tf]]
    /\ call' = [call EXCEPT ![a] = [pc |-> IF r \in watcherTasks THEN "join" ELSE "lookup",
                                    client |-> c, room |-> r, timeframe |-> tf]]
    /\ UNCHANGED <<watcherTasks, watcher, polls, joined, connected, canUnwatch>>

\* The exchange is there: startOhlcvWatcher sets an interval and marks the
\* room, whether or not it still exists.
LookupFound(a) ==
    /\ call[a].pc = "lookup"
    /\ \E w \in Watcher :
         /\ Spare(w)
         /\ watcher' = [watcher EXCEPT ![w] = [state |-> "running", room |-> call[a].room]]
    /\ watcherTasks' = watcherTasks \cup {call[a].room}
    /\ call' = [call EXCEPT ![a] = [@ EXCEPT !.pc = "join"]]
    /\ UNCHANGED <<subscribers, polls, joined, connected, canUnwatch>>

\* Creating the exchange threw: the client gets an error, and stays subscribed.
LookupFails(a) ==
    /\ call[a].pc = "lookup"
    /\ call' = [call EXCEPT ![a] = NoCall]
    /\ UNCHANGED <<subscribers, watcherTasks, watcher, polls, joined, connected, canUnwatch>>

\* Faulty join: of the timeframe under which the client is subscribed by now.
JoinCurrent(a) ==
    /\ call[a].pc = "join"
    /\ joined' = [joined EXCEPT ![call[a].room] =
                    @ \cup (({call[a].client} \cap connected)
                             \X {subscribers[call[a].room][call[a].client]})]
    /\ call' = [call EXCEPT ![a] = NoCall]
    /\ UNCHANGED <<subscribers, watcherTasks, watcher, polls, connected, canUnwatch>>

\* client.join of the room of client and timeframe; socket.io ignores it
\* once the socket is disconnected.
Join(a) ==
    /\ call[a].pc = "join"
    /\ joined' = [joined EXCEPT ![call[a].room] =
                    @ \cup (({call[a].client} \cap connected) \X {call[a].timeframe})]
    /\ call' = [call EXCEPT ![a] = NoCall]
    /\ UNCHANGED <<subscribers, watcherTasks, watcher, polls, connected, canUnwatch>>

\* unWatchOhlcv: the client's subscription goes, whatever its timeframe; with
\* the last one the room and its mark go.
Unwatch(a, c, r, tf) ==
    /\ call[a] = NoCall
    /\ c \in connected
    /\ subscribers' = [subscribers EXCEPT ![r] = [@ EXCEPT ![c] = None]]
    /\ watcherTasks' = IF Live(r) /\ subscribers'[r] = Nobody
                       THEN watcherTasks \ {r} ELSE watcherTasks
    /\ call' = [call EXCEPT ![a] = [pc |-> "leave", client |-> c, room |-> r, timeframe |-> tf]]
    /\ UNCHANGED <<watcher, polls, joined, connected, canUnwatch>>

\* client.leave of the room of the timeframe that the message names.
Leave(a) ==
    /\ call[a].pc = "leave"
    /\ joined' = [joined EXCEPT ![call[a].room] = @ \ {<<call[a].client, call[a].timeframe>>}]
    /\ call' = [call EXCEPT ![a] = NoCall]
    /\ UNCHANGED <<subscribers, watcherTasks, watcher, polls, connected, canUnwatch>>

\* A socket goes away: it leaves its rooms, and nobody tells the service.
Disconnect(c) ==
    /\ c \in connected
    /\ connected' = connected \ {c}
    /\ joined' = [r \in Room |-> {m \in joined[r] : m[1] # c}]
    /\ UNCHANGED <<subscribers, watcherTasks, watcher, polls, call, canUnwatch>>

----------------------------------------------------------------------------
(* The callback of the interval. *)

\* Faulty poll: only while a socket is in a room of the service's room.
TickPollIfJoined(w) ==
    /\ watcher[w].state = "running"
    /\ Live(watcher[w].room)
    /\ joined[watcher[w].room] # {}
    /\ polls[w] < MaxPolls
    /\ polls' = [polls EXCEPT ![w] = @ + 1]
    /\ UNCHANGED <<subscribers, watcherTasks, watcher, call, joined, connected, canUnwatch>>

\* The room exists: ask the exchange for trades, whether or not earlier
\* requests have been answered.
TickPoll(w) ==
    /\ watcher[w].state = "running"
    /\ Live(watcher[w].room)
    /\ polls[w] < MaxPolls
    /\ polls' = [polls EXCEPT ![w] = @ + 1]
    /\ UNCHANGED <<subscribers, watcherTasks, watcher, call, joined, connected, canUnwatch>>

\* Trades arrive, go to the room that was there when the poll was made, and
\* candles are emitted (OhlcvCandles); or the poll fails, which is logged.
PollSettles(w) ==
    /\ polls[w] > 0
    /\ polls' = [polls EXCEPT ![w] = @ - 1]
    /\ UNCHANGED <<subscribers, watcherTasks, watcher, call, joined, connected, canUnwatch>>

\* Faulty stop: the mark stays.
TickStopKeepsMark(w) ==
    /\ watcher[w].state = "running"
    /\ ~Live(watcher[w].room)
    /\ watcher' = [watcher EXCEPT ![w] = NoWatcher]
    /\ UNCHANGED <<subscribers, watcherTasks, polls, call, joined, connected, canUnwatch>>

\* Faulty stop: the interval looks at the mark, not at the room.
TickStopIfUnmarked(w) ==
    /\ watcher[w].state = "running"
    /\ watcher[w].room \notin watcherTasks
    /\ watcher' = [watcher EXCEPT ![w] = NoWatcher]
    /\ UNCHANGED <<subscribers, watcherTasks, polls, call, joined, connected, canUnwatch>>

\* The room does not exist: the interval clears itself and takes the mark
\* along.  If the exchange can un-watch it is asked to; if not, the deletion
\* of the room, which is not there, follows at once.
TickStop(w) ==
    /\ watcher[w].state = "running"
    /\ ~Live(watcher[w].room)
    /\ watcherTasks' = watcherTasks \ {watcher[w].room}
    /\ watcher' = [watcher EXCEPT ![w] =
                     IF watcher[w].room \in canUnwatch
                     THEN [state |-> "cleaning", room |-> watcher[w].room] ELSE NoWatcher]
    /\ UNCHANGED <<subscribers, polls, call, joined, connected, canUnwatch>>

\* The un-watch has been answered, or has failed, which is logged: the room is
\* deleted by its name, with everybody who has subscribed to it meanwhile.
CleanupDone(w) ==
    /\ watcher[w].state = "cleaning"
    /\ subscribers' = [subscribers EXCEPT ![watcher[w].room] = Nobody]
    /\ watcher' = [watcher EXCEPT ![w] = NoWatcher]
    /\ UNCHANGED <<watcherTasks, polls, call, joined, connected, canUnwatch>>

Next ==
    \/ \E a \in Call, c \in Client, r \in Room, tf \in Timeframe :
         Watch(a, c, r, tf) \/ Unwatch(a, c, r, tf)
    \/ \E a \in Call : LookupFound(a) \/ LookupFails(a) \/ Join(a) \/ Leave(a)
    \/ \E c \in Client : Disconnect(c)
    \/ \E w \in Watcher : TickPoll(w) \/ PollSettles(w) \/ TickStop(w) \/ CleanupDone(w)

\* Lookups and un-watch requests end (ccxt requests time out), handlers go
\* on, intervals fire.  Neither the clients nor the trades are fair.
Fairness ==
    /\ \A a \in Call : /\ WF_vars(LookupFound(a) \/ LookupFails(a))
                       /\ WF_vars(Join(a) \/ Leave(a))
    /\ \A w \in Watcher : WF_vars(TickPoll(w)) /\ WF_vars(TickStop(w)) /\ WF_vars(CleanupDone(w))

Spec == Init /\ [][Next]_vars
FairSpec == Spec /\ Fairness

----------------------------------------------------------------------------

Running(r) == {w \in Watcher : watcher[w] = [state |-> "running", room |-> r]}

TypeOK ==
    /\ subscribers \in [Room -> [Client -> Timeframe \cup {None}]]
    /\ watcherTasks \subseteq Room
    /\ watcher \in [Watcher -> {NoWatcher} \cup [state : {"running", "cleaning"}, room : Room]]
    /\ polls \in [Watcher -> 0..MaxPolls]
    /\ call \in [Call -> {NoCall} \cup [pc : {"lookup", "join", "leave"}, client : Client,
                                        room : Room, timeframe : Timeframe]]
    /\ joined \in [Room -> SUBSET (Client \X Timeframe)]
    /\ connected \subseteq Client
    /\ canUnwatch \subseteq Room

\* A room that watcherTasks says is taken care of has an interval, however
\* watches, unwatches, stops and cleanups of it overlap: a mark without one
\* would keep every later watchOhlcv from starting one.  (The interval may yet
\* find the room deleted by a cleanup, under clients that have been told
\* "started": ImplementsRoomFeed has that as Forget.)
TrackedRoomsAreAlive ==
    \A r \in watcherTasks : Running(r) # {}

\* What a client can tell about the feed of a room.
FeedOf(r) ==
    IF Running(r) # {} THEN "open"
    ELSE IF Pending(r) # {} THEN "opening"
    ELSE IF Live(r) THEN "failed" ELSE "off"

\* The service keeps the promise of RoomFeed but for one thing: the cleanup of
\* a room whose exchange has unWatchTrades may forget those who subscribed to
\* it while the un-watch was awaited (CleanupDone).  No other step loses a
\* subscription or closes a feed under its subscribers, and a subscribed room
\* is without a feed only after a lookup has failed.
Promise == INSTANCE RoomFeed WITH
    Subscriber <- Client,
    subscribers <- [r \in Room |-> {c \in Client : subscribers[r][c] # None}],
    feed <- [r \in Room |-> FeedOf(r)]

ImplementsRoomFeed ==
    /\ Promise!Init
    /\ [][Promise!Next \/ \E r \in canUnwatch : Promise!Forget(r)]_(Promise!vars)

\* An interval whose room is gone for good stops.
AbandonedIntervalsStop ==
    \A w \in Watcher : []<>~(watcher[w].state = "running" /\ ~Live(watcher[w].room))

\* A room that counts as taken care of has its trades polled, unless it is
\* deleted first.
TrackedRoomsArePolled ==
    \A r \in Room :
      (r \in watcherTasks /\ Live(r)) ~> (~Live(r) \/ \E w \in Running(r) : polls[w] > 0)
====
