---- MODULE PrivateStreaming ----
(***************************************************************************)
(* The private streaming services on top of the sessions of private        *)
(* exchanges: RoomWatcher and ExchangeSessions composed.  Alone, each      *)
(* leaves to chance what the other does.  Here a lookup finds what the     *)
(* session of the room's user and exchange holds, and an interval captures *)
(* the instance it has found and polls it from then on, while connections  *)
(* are made, tested, removed and dropped beside it.                        *)
(*                                                                         *)
(* A step is one of a component, and the other stands still; the lookups   *)
(* and starts of rooms read the store, here when their await ends, in the  *)
(* code when it begins, a few microtasks earlier.  A lookup also restarts  *)
(* the time to live of the session, which ExchangeSessions leaves open.    *)
(***************************************************************************)
EXTENDS ExchangeSessions

CONSTANTS
    Client, User, UserOf,
    Room, Service, Audience,        \* rooms of private services
    Handler, Watcher, MaxPolls,     \* Call, Watcher and MaxPolls of RoomWatcher
    SessionOf       \* the session that a room's user and exchange stand for

ASSUME StreamingAssumption ==
    /\ UserOf \in [Client -> User]
    /\ Audience \in [Room -> SUBSET Client]
    /\ MaxPolls \in Nat \ {0}
    /\ SessionOf \in [Room -> PrivateKey]
    /\ \A r \in Room : Service[r].relookup = {"found", "absent"}

VARIABLES
    subscribers, watcherTasks, watcher, polls, handler, joined, connected, crashed, hasty,
    captured        \* the instance in the closure of each interval

Rooms == INSTANCE RoomWatcher WITH Call <- Handler, call <- handler

roomVars == <<subscribers, watcherTasks, watcher, polls, handler, joined, connected, crashed, hasty>>
streamVars == <<vars, roomVars, captured>>

StreamInit ==
    /\ Init
    /\ Rooms!Init
    /\ captured = [w \in Watcher |-> None]

\* The session of a room, as getPrivateExchange finds it.
Session(r) == store[SessionOf[r]]

----------------------------------------------------------------------------
(* Steps of the rooms. *)

LookupFound(a) ==
    /\ Rooms!LookupFound(a)
    /\ Session(handler[a].room) # None
    /\ UNCHANGED <<vars, captured>>

LookupFails(a) ==
    /\ Rooms!LookupFails(a)
    /\ Session(handler[a].room) = None
    /\ UNCHANGED <<vars, captured>>

\* Faulty start: the second lookup is not checked.
StartUnchecked(w) ==
    /\ Rooms!StartFound(w)
    /\ captured' = [captured EXCEPT ![w] = Session(watcher[w].room)]
    /\ UNCHANGED vars

\* Faulty start: the session is looked up by something less than user and exchange.
StartOnAnySession(w) ==
    /\ Rooms!StartFound(w)
    /\ \E k \in PrivateKey :
         /\ store[k] # None
         /\ captured' = [captured EXCEPT ![w] = store[k]]
    /\ UNCHANGED vars

\* start*Watcher has found the session again, and its interval will poll it.
StartFound(w) ==
    /\ Rooms!StartFound(w)
    /\ Session(watcher[w].room) # None
    /\ captured' = [captured EXCEPT ![w] = Session(watcher[w].room)]
    /\ UNCHANGED vars

\* The session has gone between the two lookups.
StartAbsent(w) ==
    /\ Rooms!StartAbsent(w)
    /\ Session(watcher[w].room) = None
    /\ UNCHANGED <<vars, captured>>

\* Everything else that rooms do has no use for sessions.  An instance is let
\* go when its interval has ended and its last poll has been answered.
RoomStep ==
    /\ \/ \E a \in Handler, c \in Client, r \in Room : Rooms!Watch(a, c, r) \/ Rooms!Unwatch(a, c, r)
       \/ \E a \in Handler : Rooms!Join(a) \/ Rooms!Leave(a)
       \/ \E c \in Client : Rooms!Disconnect(c)
       \/ \E w \in Watcher :
            \/ Rooms!TickPoll(w) \/ Rooms!TickStop(w) \/ Rooms!PollSettles(w)
            \/ Rooms!UnwatchDone(w) \/ Rooms!UnwatchRejects(w)
    /\ captured' = [w \in Watcher |->
                      IF watcher'[w] = Rooms!NoWatcher /\ polls'[w] = 0 THEN None ELSE captured[w]]
    /\ UNCHANGED vars

----------------------------------------------------------------------------
(* Steps of the sessions. *)

\* The instances some interval holds are not taken for new ones.
NewAreFresh ==
    \A q \in Call :
      call'[q].pc = "loading" /\ call[q].pc # "loading" =>
        \A w \in Watcher : captured[w] # call'[q].exchange

SessionStep ==
    /\ ~crashed
    /\ Next
    /\ NewAreFresh
    /\ UNCHANGED <<roomVars, captured>>

StreamNext ==
    \/ \E a \in Handler : LookupFound(a) \/ LookupFails(a)
    \/ \E w \in Watcher : StartFound(w) \/ StartAbsent(w)
    \/ RoomStep
    \/ SessionStep

StreamSpec == StreamInit /\ [][StreamNext]_streamVars

----------------------------------------------------------------------------

TrackedRoomsAreAlive == Rooms!TrackedRoomsAreAlive
ImplementsRoomFeed == Rooms!ImplementsRoomFeed

\* An interval that polls, or has a poll pending, holds an instance that is
\* ready, whatever has become of the session meanwhile.
PolledAreReady ==
    \A w \in Watcher :
      watcher[w].state \in {"running", "unwatching"} \/ polls[w] > 0 => captured[w] \in markets

\* An interval only starts to poll an instance that has passed its test or is
\* being tested, and one that removeConnection has closed only while the
\* removal is under way: after it has ended nobody starts on a closed session.
StartsOnLiveSessions ==
    [][\A w \in Watcher :
         captured[w] = None /\ captured'[w] # None =>
           LET i == captured'[w]
               k == SessionOf[watcher[w].room]
           IN  /\ i \in tested \/ \E q \in Call : call[q].pc = "testing" /\ call[q].exchange = i
               /\ i \in closed => \E q \in Call : call[q].pc = "removing" /\ call[q].key = k]_streamVars

\* No interval of one account polls an instance that another account has in
\* its session, has a request under way with, or polls.
AccountsAreSeparate ==
    \A w \in Watcher :
      watcher[w].state = "running" =>
        LET k == SessionOf[watcher[w].room]
        IN  /\ \A j \in Key \ {k} : store[j] # captured[w]
            /\ \A q \in Call : call[q].exchange = captured[w] => call[q].key = k
            /\ \A v \in Watcher :
                 watcher[v].state = "running" /\ captured[v] = captured[w] =>
                   SessionOf[watcher[v].room] = k
====
