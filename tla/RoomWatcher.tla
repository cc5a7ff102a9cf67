---- MODULE RoomWatcher ----
(***************************************************************************)
(* Subscriptions to market and account data: the gateways' watch and       *)
(* unwatch handlers, a service's subscribers and watcherTasks maps, and    *)
(* the intervals its start*Watcher method creates, which poll the exchange *)
(* for a room and emit what they get to the sockets that joined the room.  *)
(*                                                                         *)
(* JavaScript runs a handler up to its next await without interruption, so *)
(* an action is the code between two awaits.  The eight services keep the  *)
(* same two maps under disjoint room names and are modelled together; each *)
(* room belongs to one service, whose profile says how it differs.  Any    *)
(* two actions may interleave, also where Node would run a continuation    *)
(* before the next timer.                                                  *)
(*                                                                         *)
(* Bounds: Call is the number of handlers in flight, Watcher the number of *)
(* intervals alive, MaxPolls the polls one interval has pending.           *)
(***************************************************************************)
EXTENDS StreamingServices, Naturals, FiniteSets

CONSTANTS
    Client,       \* sockets
    User,
    UserOf,       \* whom each socket has authenticated as (WsJwtAuthGuard)
    Room,
    Service,      \* the profile of the service each room belongs to
    Audience,     \* the sockets whose requests can name the room
    Call,         \* slots for handlers in flight
    Watcher,      \* slots for start*Watcher calls and the intervals they set
    MaxPolls,
    None

ASSUME RoomAssumption ==
    /\ UserOf \in [Client -> User]
    /\ Service \in [Room -> StreamingService]
    /\ Audience \in [Room -> SUBSET Client]

ASSUME BoundAssumption == MaxPolls \in Nat \ {0}

VARIABLES
    subscribers,    \* this.subscribers; a room without an entry has {}
    watcherTasks,   \* the keys of this.watcherTasks
    watcher,        \* the start*Watcher calls and their intervals
    polls,          \* watch calls to the exchange that an interval has pending
    call,           \* handlers in flight
    joined,         \* sockets in each socket.io room
    connected,      \* sockets that are connected
    crashed,        \* has an unhandled rejection ended the process?
    hasty           \* history: the sockets that have not waited for the end of a call

vars == <<subscribers, watcherTasks, watcher, polls, call, joined, connected, crashed, hasty>>

Subscriber == Client \cup User

\* addSubscriber and removeSubscriber are given the client id by the public
\* services, the user id by the private ones.
SubscriberOf(c, r) == IF Service[r].subscriber = "client" THEN c ELSE UserOf[c]

\* Everybody who can become a subscriber of a room.
Members(r) == {SubscriberOf(c, r) : c \in Audience[r]}

NoWatcher == [state |-> "free", room |-> None]
NoCall == [pc |-> "idle", client |-> None, room |-> None]

Spare(w) == watcher[w] = NoWatcher /\ polls[w] = 0
Pending(r) == {a \in Call : call[a].pc = "lookup" /\ call[a].room = r}

Init ==
    /\ subscribers = [r \in Room |-> {}]
    /\ watcherTasks = {}
    /\ watcher = [w \in Watcher |-> NoWatcher]
    /\ polls = [w \in Watcher |-> 0]
    /\ call = [a \in Call |-> NoCall]
    /\ joined = [r \in Room |-> {}]
    /\ connected = Client
    /\ crashed = FALSE
    /\ hasty = {}

----------------------------------------------------------------------------
(* The handlers of the gateways and the watch and unWatch methods they call. *)

\* A message of client c about room r arrives, and slot a handles it.
Arrives(a, c, r) ==
    /\ call[a] = NoCall
    /\ c \in connected \cap Audience[r]
    /\ hasty' = hasty \cup {d \in {c} : \E b \in Call : call[b].client = d}

\* Faulty watch: the id of the other kind is subscribed, which unwatch will
\* not find again.
WatchSwapped(a, c, r) ==
    /\ ~crashed
    /\ Arrives(a, c, r)
    /\ Cardinality({w \in Watcher : Spare(w)}) > Cardinality(UNION {Pending(q) : q \in Room})
    /\ subscribers' = [subscribers EXCEPT ![r] =
                         @ \cup {IF Service[r].subscriber = "client" THEN UserOf[c] ELSE c}]
    /\ call' = [call EXCEPT ![a] = [pc |-> IF r \in watcherTasks THEN "join" ELSE "lookup",
                                    client |-> c, room |-> r]]
    /\ UNCHANGED <<watcherTasks, watcher, polls, joined, connected, crashed>>

\* watch*: add the subscriber, then look up the exchange unless the room is
\* taken care of.  (The cardinality bounds the intervals: one slot is left
\* for every lookup under way.)
Watch(a, c, r) ==
    /\ ~crashed
    /\ Arrives(a, c, r)
    /\ Cardinality({w \in Watcher : Spare(w)}) > Cardinality(UNION {Pending(q) : q \in Room})
    /\ subscribers' = [subscribers EXCEPT ![r] = @ \cup {SubscriberOf(c, r)}]
    /\ call' = [call EXCEPT ![a] = [pc |-> IF r \in watcherTasks THEN "join" ELSE "lookup",
                                    client |-> c, room |-> r]]
    /\ UNCHANGED <<watcherTasks, watcher, polls, joined, connected, crashed>>

\* The exchange is there: start*Watcher runs up to its own lookup.
LookupFound(a) ==
    /\ ~crashed
    /\ call[a].pc = "lookup"
    /\ "found" \in Service[call[a].room].lookup
    /\ \E w \in Watcher :
         /\ Spare(w)
         /\ watcher' = [watcher EXCEPT ![w] = [state |-> "starting", room |-> call[a].room]]
    /\ watcherTasks' = watcherTasks \cup {call[a].room}
    /\ call' = [call EXCEPT ![a].pc = "join"]
    /\ UNCHANGED <<subscribers, polls, joined, connected, crashed, hasty>>

\* Faulty failure path: the room is forgotten, with all its subscribers.
LookupFailsForgettingRoom(a) ==
    /\ ~crashed
    /\ call[a].pc = "lookup"
    /\ {"absent", "throws"} \cap Service[call[a].room].lookup # {}
    /\ subscribers' = [subscribers EXCEPT ![call[a].room] = {}]
    /\ call' = [call EXCEPT ![a] = NoCall]
    /\ UNCHANGED <<watcherTasks, watcher, polls, joined, connected, crashed, hasty>>

\* There is no private session (started: false), or creating the public
\* exchange threw: the client gets an error, and its subscription stays.
LookupFails(a) ==
    /\ ~crashed
    /\ call[a].pc = "lookup"
    /\ {"absent", "throws"} \cap Service[call[a].room].lookup # {}
    /\ call' = [call EXCEPT ![a] = NoCall]
    /\ UNCHANGED <<subscribers, watcherTasks, watcher, polls, joined, connected, crashed, hasty>>

\* client.join(room); socket.io ignores it once the socket is disconnected.
Join(a) ==
    /\ ~crashed
    /\ call[a].pc = "join"
    /\ joined' = [joined EXCEPT ![call[a].room] = @ \cup ({call[a].client} \cap connected)]
    /\ call' = [call EXCEPT ![a] = NoCall]
    /\ UNCHANGED <<subscribers, watcherTasks, watcher, polls, connected, crashed, hasty>>

\* unWatch*: removeSubscriber forgets the room with its last subscriber.
Unwatch(a, c, r) ==
    /\ ~crashed
    /\ Arrives(a, c, r)
    /\ LET rest == subscribers[r] \ {SubscriberOf(c, r)}
       IN  /\ subscribers' = [subscribers EXCEPT ![r] = rest]
           /\ watcherTasks' = IF subscribers[r] # {} /\ rest = {}
                              THEN watcherTasks \ {r} ELSE watcherTasks
    /\ call' = [call EXCEPT ![a] = [pc |-> "leave", client |-> c, room |-> r]]
    /\ UNCHANGED <<watcher, polls, joined, connected, crashed>>

\* Faulty unwatch handler: the socket stays in the room.
LeaveForgotten(a) ==
    /\ ~crashed
    /\ call[a].pc = "leave"
    /\ call' = [call EXCEPT ![a] = NoCall]
    /\ UNCHANGED <<subscribers, watcherTasks, watcher, polls, joined, connected, crashed, hasty>>

\* client.leave(room).
Leave(a) ==
    /\ ~crashed
    /\ call[a].pc = "leave"
    /\ joined' = [joined EXCEPT ![call[a].room] = @ \ {call[a].client}]
    /\ call' = [call EXCEPT ![a] = NoCall]
    /\ UNCHANGED <<subscribers, watcherTasks, watcher, polls, connected, crashed, hasty>>

\* A socket goes away: it leaves its rooms, and no handler of the gateways
\* tells the services.
Disconnect(c) ==
    /\ ~crashed
    /\ c \in connected
    /\ connected' = connected \ {c}
    /\ joined' = [r \in Room |-> joined[r] \ {c}]
    /\ UNCHANGED <<subscribers, watcherTasks, watcher, polls, call, crashed, hasty>>

----------------------------------------------------------------------------
(* start*Watcher and the callback of its interval. *)

\* The exchange is still there: set the interval, and mark the room again.
StartFound(w) ==
    /\ ~crashed
    /\ watcher[w].state = "starting"
    /\ "found" \in Service[watcher[w].room].relookup
    /\ watcher' = [watcher EXCEPT ![w].state = "running"]
    /\ watcherTasks' = watcherTasks \cup {watcher[w].room}
    /\ UNCHANGED <<subscribers, polls, call, joined, connected, crashed, hasty>>

\* Faulty second lookup: the room stays marked when the start is given up.
StartAbsentKeepsMark(w) ==
    /\ ~crashed
    /\ watcher[w].state = "starting"
    /\ "absent" \in Service[watcher[w].room].relookup
    /\ watcher' = [watcher EXCEPT ![w] = NoWatcher]
    /\ UNCHANGED <<subscribers, watcherTasks, polls, call, joined, connected, crashed, hasty>>

\* The private session went away between the two lookups.
StartAbsent(w) ==
    /\ ~crashed
    /\ watcher[w].state = "starting"
    /\ "absent" \in Service[watcher[w].room].relookup
    /\ watcher' = [watcher EXCEPT ![w] = NoWatcher]
    /\ watcherTasks' = watcherTasks \ {watcher[w].room}
    /\ UNCHANGED <<subscribers, polls, call, joined, connected, crashed, hasty>>

\* start*Watcher goes on when its lookup has ended, one way or the other.
Start(w) ==
    /\ watcher[w].state = "starting"
    /\ \E outcome \in Service[watcher[w].room].relookup :
         IF outcome = "found" THEN StartFound(w) ELSE StartAbsent(w)

\* Faulty poll: only while a socket is in the room.
TickPollIfJoined(w) ==
    /\ ~crashed
    /\ watcher[w].state = "running"
    /\ subscribers[watcher[w].room] # {}
    /\ joined[watcher[w].room] # {}
    /\ polls[w] < MaxPolls
    /\ polls' = [polls EXCEPT ![w] = @ + 1]
    /\ UNCHANGED <<subscribers, watcherTasks, watcher, call, joined, connected, crashed, hasty>>

\* The interval fires and the room has subscribers: ask the exchange for the
\* next update, whether or not earlier requests have been answered.
TickPoll(w) ==
    /\ ~crashed
    /\ watcher[w].state = "running"
    /\ subscribers[watcher[w].room] # {}
    /\ polls[w] < MaxPolls
    /\ polls' = [polls EXCEPT ![w] = @ + 1]
    /\ UNCHANGED <<subscribers, watcherTasks, watcher, call, joined, connected, crashed, hasty>>

\* The exchange answers, and the update goes to whoever is in the room, or
\* the request fails, and the error is logged.  Neither leaves a trace here.
PollSettles(w) ==
    /\ ~crashed
    /\ polls[w] > 0
    /\ polls' = [polls EXCEPT ![w] = @ - 1]
    /\ UNCHANGED <<subscribers, watcherTasks, watcher, call, joined, connected, crashed, hasty>>

\* Faulty stop: the room stays marked as taken care of.
TickStopKeepsMark(w) ==
    /\ ~crashed
    /\ watcher[w].state = "running"
    /\ subscribers[watcher[w].room] = {}
    /\ watcher' = [watcher EXCEPT ![w] = NoWatcher]
    /\ UNCHANGED <<subscribers, watcherTasks, polls, call, joined, connected, crashed, hasty>>

\* Faulty stop: the interval looks at watcherTasks, not at subscribers.
TickStopIfUnmarked(w) ==
    /\ ~crashed
    /\ watcher[w].state = "running"
    /\ watcher[w].room \notin watcherTasks
    /\ watcher' = [watcher EXCEPT ![w] = NoWatcher]
    /\ UNCHANGED <<subscribers, watcherTasks, polls, call, joined, connected, crashed, hasty>>

\* The interval fires and the room has no subscriber: it clears itself and,
\* if the service does so and the exchange can, un-watches the symbols.
TickStop(w) ==
    /\ ~crashed
    /\ watcher[w].state = "running"
    /\ subscribers[watcher[w].room] = {}
    /\ watcherTasks' = watcherTasks \ {watcher[w].room}
    /\ \/ watcher' = [watcher EXCEPT ![w] = NoWatcher]
       \/ /\ Service[watcher[w].room].unwatch
          /\ watcher' = [watcher EXCEPT ![w].state = "unwatching"]
    /\ UNCHANGED <<subscribers, polls, call, joined, connected, crashed, hasty>>

UnwatchDone(w) ==
    /\ ~crashed
    /\ watcher[w].state = "unwatching"
    /\ watcher' = [watcher EXCEPT ![w] = NoWatcher]
    /\ UNCHANGED <<subscribers, watcherTasks, polls, call, joined, connected, crashed, hasty>>

\* Nobody catches a rejected un-watch: Node ends the process.
UnwatchRejects(w) ==
    /\ ~crashed
    /\ watcher[w].state = "unwatching"
    /\ crashed' = TRUE
    /\ UNCHANGED <<subscribers, watcherTasks, watcher, polls, call, joined, connected, hasty>>

Next ==
    \/ \E w \in Watcher :
         \/ Start(w) \/ TickPoll(w) \/ TickStop(w)
         \/ PollSettles(w) \/ UnwatchDone(w) \/ UnwatchRejects(w)
    \/ \E a \in Call : LookupFound(a) \/ LookupFails(a) \/ Join(a) \/ Leave(a)
    \/ \E a \in Call, c \in Client, r \in Room : Watch(a, c, r) \/ Unwatch(a, c, r)
    \/ \E c \in Client : Disconnect(c)

\* Lookups end (ccxt requests time out), handlers go on, intervals fire.
\* Neither the clients nor the exchange's updates are fair.
Fairness ==
    /\ \A a \in Call : /\ WF_vars(LookupFound(a) \/ LookupFails(a))
                       /\ WF_vars(Join(a) \/ Leave(a))
    /\ \A w \in Watcher : /\ WF_vars(Start(w))
                          /\ WF_vars(TickPoll(w))
                          /\ WF_vars(TickStop(w))

Spec == Init /\ [][Next]_vars
FairSpec == Spec /\ Fairness

----------------------------------------------------------------------------

Running(r) == {w \in Watcher : watcher[w].room = r /\ watcher[w].state = "running"}
Starting(r) == {w \in Watcher : watcher[w].room = r /\ watcher[w].state = "starting"}

\* The subscribers of a room are ids of the kind that its service counts, of
\* sockets that can name the room.
TypeOK ==
    /\ subscribers \in [Room -> SUBSET Subscriber]
    /\ \A r \in Room : subscribers[r] \subseteq Members(r)
    /\ watcherTasks \subseteq Room
    /\ watcher \in [Watcher -> {NoWatcher} \cup
                     [state : {"starting", "running", "unwatching"}, room : Room]]
    /\ polls \in [Watcher -> 0..MaxPolls]
    /\ call \in [Call -> {NoCall} \cup
                     [pc : {"lookup", "join", "leave"}, client : Client, room : Room]]
    /\ joined \in [Room -> SUBSET Client]
    /\ connected \subseteq Client
    /\ crashed \in BOOLEAN
    /\ hasty \subseteq Client

\* A room that watcherTasks says is taken care of has a watcher that starts
\* or runs: watch* looks no exchange up for a room that is marked, so a mark
\* without a watcher would keep every later watch from starting one.  (The
\* start may still fail after "started" has been answered: StartAbsent.)
TrackedRoomsAreAlive ==
    \A r \in watcherTasks : Running(r) \cup Starting(r) # {}

\* What a client of the service can tell about the feed of a room.
FeedOf(r) ==
    IF Running(r) # {} THEN "open"
    ELSE IF Starting(r) \cup Pending(r) # {} THEN "opening"
    ELSE IF subscribers[r] = {} THEN "off" ELSE "failed"

\* The services keep the promise of RoomFeed: as long as a room has
\* subscribers its feed is not closed under them, and a subscribed room is
\* without a feed only after a lookup has failed.
Promise == INSTANCE RoomFeed WITH feed <- [r \in Room |-> FeedOf(r)]

ImplementsRoomFeed == Promise!Spec

\* Sockets whose presence in a room means something: they have always waited
\* for the end of a call before the next, and share their user with no other.
Orderly == {c \in Client \ hasty : \A d \in Client : UserOf[d] = UserOf[c] => d = c}

\* Orderly sockets that sit in a room are among its subscribers, or are just
\* leaving: none is left in a room that its unWatch* has ended the feed of.
JoinedAreSubscribed ==
    \A r \in Room : \A c \in joined[r] \cap Orderly :
      \/ SubscriberOf(c, r) \in subscribers[r]
      \/ \E a \in Call : call[a] = [pc |-> "leave", client |-> c, room |-> r]

\* "Store the interval ID for cleanup": the entry of a room stands for its one
\* interval, so when the entry goes the interval goes, and a room that is
\* watched again has the new one alone.
OneIntervalPerRoom ==
    \A r \in Room : Cardinality(Running(r)) <= 1

\* An interval whose room has lost its subscribers for good stops.
AbandonedIntervalsStop ==
    \A w \in Watcher :
      []<>(crashed \/ ~(watcher[w].state = "running" /\ subscribers[watcher[w].room] = {}))

\* What watch* answers "started" for is done: a subscribed room that
\* watcherTasks says is taken care of has the exchange polled, unless it is
\* abandoned first.  (Of services whose second lookup cannot fail.)
TrackedRoomsArePolled ==
    \A r \in Room :
      (r \in watcherTasks /\ subscribers[r] # {} /\ Service[r].relookup = {"found"})
        ~> (crashed \/ subscribers[r] = {} \/ \E w \in Running(r) : polls[w] > 0)
====
