---- MODULE PrivateStreamingProofs ----
(***************************************************************************)
(* Proofs about PrivateStreaming, for any sockets, users, rooms, keys,     *)
(* instances, requests and intervals.                                      *)
(***************************************************************************)
EXTENDS PrivateStreaming, ExchangeSessionsProofs

\* A step is one of the sessions, or leaves them alone.
LEMMA StepOfSessions == [StreamNext]_streamVars => [Next]_vars
BY DEF StreamNext, streamVars, LookupFound, LookupFails, StartFound, StartAbsent, RoomStep, SessionStep

\* A step is one of the rooms, or leaves them alone.
LEMMA StepOfRooms == [StreamNext]_streamVars => [Rooms!Next]_(Rooms!vars)
<1> SUFFICES ASSUME [StreamNext]_streamVars
             PROVE  [Rooms!Next]_(Rooms!vars)
  OBVIOUS
<1>1. ASSUME NEW a \in Handler, LookupFound(a) \/ LookupFails(a)
      PROVE  Rooms!Next
  BY <1>1 DEF LookupFound, LookupFails, Rooms!Next
<1>2. ASSUME NEW w \in Watcher, StartFound(w) \/ StartAbsent(w)
      PROVE  Rooms!Next
  <2>1. CASE StartFound(w)
    <3>1. Rooms!StartFound(w)
      BY <2>1 DEF StartFound
    <3>2. watcher[w].state = "starting" /\ "found" \in Service[watcher[w].room].relookup
      BY <3>1 DEF Rooms!StartFound
    <3>3. Rooms!Start(w)
      BY <3>1, <3>2 DEF Rooms!Start
    <3> QED
      BY <3>3 DEF Rooms!Next
  <2>2. CASE StartAbsent(w)
    <3>1. Rooms!StartAbsent(w)
      BY <2>2 DEF StartAbsent
    <3>2. watcher[w].state = "starting" /\ "absent" \in Service[watcher[w].room].relookup
      BY <3>1 DEF Rooms!StartAbsent
    <3>3. Rooms!Start(w)
      BY <3>1, <3>2 DEF Rooms!Start
    <3> QED
      BY <3>3 DEF Rooms!Next
  <2> QED
    BY <1>2, <2>1, <2>2
<1>3. CASE RoomStep
  BY <1>3 DEF RoomStep, Rooms!Next
<1>4. CASE UNCHANGED roomVars
  BY <1>4 DEF roomVars, Rooms!vars
<1> QED
  BY <1>1, <1>2, <1>3, <1>4 DEF StreamNext, streamVars, SessionStep

\* What the rooms do on top of the sessions, RoomWatcher can do alone: what
\* holds there holds of private rooms, whatever becomes of their sessions.
THEOREM RoomsAreRoomWatcher == StreamSpec => Rooms!Spec
<1>1. StreamInit => Rooms!Init
  BY DEF StreamInit
<1> QED
  BY <1>1, StepOfRooms, PTL DEF StreamSpec, Rooms!Spec

\* And the sessions do not depend on who streams from them.
THEOREM SessionsAreExchangeSessions == StreamSpec => Spec
<1>1. StreamInit => Init
  BY DEF StreamInit
<1> QED
  BY <1>1, StepOfSessions, PTL DEF StreamSpec, Spec

----------------------------------------------------------------------------
(* Types.  Only what intervals hold is new here; the types of the rooms are *)
(* those of RoomWatcher.                                                    *)

WatcherType == {Rooms!NoWatcher} \cup [state : {"starting", "running", "unwatching"}, room : Room]

LEMMA WatcherMoves ==
  ASSUME watcher \in [Watcher -> WatcherType], NEW w \in Watcher, watcher[w].state # "free",
         NEW s \in {"starting", "running", "unwatching"},
         watcher' = [watcher EXCEPT ![w].state = s]
  PROVE  /\ watcher[w].room \in Room
         /\ watcher' = [watcher EXCEPT ![w] = [state |-> s, room |-> watcher[w].room]]
         /\ watcher' \in [Watcher -> WatcherType]
<1>1. watcher[w] \in [state : {"starting", "running", "unwatching"}, room : Room]
  BY DEF WatcherType, Rooms!NoWatcher
<1>2. [watcher[w] EXCEPT !.state = s] = [state |-> s, room |-> watcher[w].room]
  BY <1>1
<1>3. watcher' = [watcher EXCEPT ![w] = [state |-> s, room |-> watcher[w].room]]
  BY <1>1, <1>2
<1>4. [state |-> s, room |-> watcher[w].room] \in WatcherType
  BY <1>1 DEF WatcherType
<1> QED
  BY <1>1, <1>3, <1>4

LEMMA InitRoomTypes == Rooms!Init => Rooms!TypeOK
<1> SUFFICES ASSUME Rooms!Init PROVE Rooms!TypeOK
  OBVIOUS
<1>1. watcher \in [Watcher -> {Rooms!NoWatcher}] /\ handler \in [Handler -> {Rooms!NoCall}]
  BY DEF Rooms!Init
<1>2. polls \in [Watcher -> 0..MaxPolls]
  BY StreamingAssumption DEF Rooms!Init
<1> QED
  BY <1>1, <1>2 DEF Rooms!Init, Rooms!TypeOK

LEMMA NextRoomTypes == Rooms!TypeOK /\ [Rooms!Next]_(Rooms!vars) => Rooms!TypeOK'
<1> SUFFICES ASSUME Rooms!TypeOK, [Rooms!Next]_(Rooms!vars)
             PROVE  Rooms!TypeOK'
  OBVIOUS
<1> USE StreamingAssumption DEF Rooms!TypeOK
<1>0. /\ \A c \in Client, r \in Room : Rooms!SubscriberOf(c, r) \in Rooms!Subscriber
      /\ \A r \in Room : \A c \in Audience[r] : Rooms!SubscriberOf(c, r) \in Rooms!Members(r)
  BY DEF Rooms!SubscriberOf, Rooms!Subscriber, Rooms!Members
<1>1. ASSUME NEW a \in Handler, NEW c \in Client, NEW r \in Room, Rooms!Watch(a, c, r)
      PROVE  Rooms!TypeOK'
  <2>1. \A q \in Room : subscribers'[q] \subseteq Rooms!Members(q)
    BY <1>0, <1>1 DEF Rooms!Watch, Rooms!Arrives
  <2> QED
    BY <1>0, <1>1, <2>1 DEF Rooms!Watch, Rooms!Arrives
<1>2. ASSUME NEW a \in Handler, NEW c \in Client, NEW r \in Room, Rooms!Unwatch(a, c, r)
      PROVE  Rooms!TypeOK'
  BY <1>2 DEF Rooms!Unwatch, Rooms!Arrives
<1>3. ASSUME NEW a \in Handler, Rooms!LookupFound(a)
      PROVE  Rooms!TypeOK'
  <2>1. handler[a] \in [pc : {"lookup", "join", "leave"}, client : Client, room : Room]
    BY <1>3 DEF Rooms!LookupFound, Rooms!NoCall
  <2> QED
    BY <1>3, <2>1 DEF Rooms!LookupFound
<1>4. ASSUME NEW a \in Handler, Rooms!LookupFails(a)
      PROVE  Rooms!TypeOK'
  BY <1>4 DEF Rooms!LookupFails
<1>5. ASSUME NEW a \in Handler, Rooms!Join(a) \/ Rooms!Leave(a)
      PROVE  Rooms!TypeOK'
  <2>1. handler[a].room \in Room /\ handler[a].client \in Client
    BY <1>5 DEF Rooms!Join, Rooms!Leave, Rooms!NoCall
  <2> QED
    BY <1>5, <2>1 DEF Rooms!Join, Rooms!Leave
<1>6. ASSUME NEW c \in Client, Rooms!Disconnect(c)
      PROVE  Rooms!TypeOK'
  BY <1>6 DEF Rooms!Disconnect
<1>7. ASSUME NEW w \in Watcher, Rooms!StartFound(w)
      PROVE  Rooms!TypeOK'
  <2>1. watcher[w].room \in Room /\ watcher' \in [Watcher -> WatcherType]
    BY <1>7, WatcherMoves DEF Rooms!StartFound, WatcherType
  <2> QED
    BY <1>7, <2>1 DEF Rooms!StartFound, WatcherType
<1>8. ASSUME NEW w \in Watcher, Rooms!TickStop(w)
      PROVE  Rooms!TypeOK'
  <2>1. watcher' \in [Watcher -> WatcherType]
    <3>1. CASE watcher' = [watcher EXCEPT ![w] = Rooms!NoWatcher]
      BY <3>1 DEF WatcherType
    <3>2. CASE watcher' = [watcher EXCEPT ![w].state = "unwatching"]
      BY <1>8, <3>2, WatcherMoves DEF Rooms!TickStop, WatcherType
    <3> QED
      BY <1>8, <3>1, <3>2 DEF Rooms!TickStop
  <2> QED
    BY <1>8, <2>1 DEF Rooms!TickStop, WatcherType
<1>9. ASSUME NEW w \in Watcher,
             Rooms!StartAbsent(w) \/ Rooms!UnwatchDone(w) \/ Rooms!UnwatchRejects(w)
      PROVE  Rooms!TypeOK'
  BY <1>9 DEF Rooms!StartAbsent, Rooms!UnwatchDone, Rooms!UnwatchRejects
<1>10. ASSUME NEW w \in Watcher, Rooms!TickPoll(w) \/ Rooms!PollSettles(w)
       PROVE  Rooms!TypeOK'
  BY <1>10 DEF Rooms!TickPoll, Rooms!PollSettles
<1>11. CASE UNCHANGED Rooms!vars
  BY <1>11 DEF Rooms!vars
<1> QED
  BY <1>1, <1>2, <1>3, <1>4, <1>5, <1>6, <1>7, <1>8, <1>9, <1>10, <1>11
     DEF Rooms!Next, Rooms!Start

LEMMA NextTracked ==
  Rooms!TypeOK /\ TrackedRoomsAreAlive /\ [Rooms!Next]_(Rooms!vars) => TrackedRoomsAreAlive'
<1> SUFFICES ASSUME Rooms!TypeOK, TrackedRoomsAreAlive, [Rooms!Next]_(Rooms!vars),
                    NEW r \in watcherTasks'
             PROVE  (Rooms!Running(r) \cup Rooms!Starting(r))' # {}
  BY DEF TrackedRoomsAreAlive, Rooms!TrackedRoomsAreAlive
<1> USE DEF Rooms!Running, Rooms!Starting
<1>0. \A q \in watcherTasks : Rooms!Running(q) \cup Rooms!Starting(q) # {}
  BY DEF TrackedRoomsAreAlive, Rooms!TrackedRoomsAreAlive
<1>1. ASSUME UNCHANGED watcher, watcherTasks' \subseteq watcherTasks
      PROVE  (Rooms!Running(r) \cup Rooms!Starting(r))' # {}
  BY <1>0, <1>1
<1>2. ASSUME NEW a \in Handler, Rooms!LookupFound(a)
      PROVE  (Rooms!Running(r) \cup Rooms!Starting(r))' # {}
  <2>1. PICK w \in Watcher :
          /\ Rooms!Spare(w)
          /\ watcher' = [watcher EXCEPT ![w] = [state |-> "starting", room |-> handler[a].room]]
    BY <1>2 DEF Rooms!LookupFound
  <2>2. CASE r = handler[a].room
    BY <2>1, <2>2 DEF Rooms!TypeOK
  <2>3. CASE r \in watcherTasks
    <3>1. PICK v \in Rooms!Running(r) \cup Rooms!Starting(r) : TRUE
      BY <1>0, <2>3
    <3>2. v # w
      BY <2>1, <3>1 DEF Rooms!Spare, Rooms!NoWatcher
    <3> QED
      BY <2>1, <3>1, <3>2 DEF Rooms!TypeOK
  <2> QED
    BY <1>2, <2>2, <2>3 DEF Rooms!LookupFound
<1>3. ASSUME NEW w \in Watcher, Rooms!StartFound(w)
      PROVE  (Rooms!Running(r) \cup Rooms!Starting(r))' # {}
  <2>1. watcher' = [watcher EXCEPT ![w] = [state |-> "running", room |-> watcher[w].room]]
    BY <1>3, WatcherMoves DEF Rooms!StartFound, Rooms!TypeOK, WatcherType
  <2>2. CASE r = watcher[w].room
    BY <2>1, <2>2 DEF Rooms!TypeOK
  <2>3. CASE r # watcher[w].room
    <3>1. PICK v \in Rooms!Running(r) \cup Rooms!Starting(r) : TRUE
      BY <1>0, <1>3, <2>3 DEF Rooms!StartFound
    <3>2. v # w
      BY <2>3, <3>1
    <3> QED
      BY <2>1, <3>1, <3>2 DEF Rooms!TypeOK
  <2> QED
    BY <2>2, <2>3
<1>4. ASSUME NEW w \in Watcher, Rooms!StartAbsent(w) \/ Rooms!TickStop(w)
      PROVE  (Rooms!Running(r) \cup Rooms!Starting(r))' # {}
  <2>1. r # watcher[w].room /\ r \in watcherTasks
    BY <1>4 DEF Rooms!StartAbsent, Rooms!TickStop
  <2>2. PICK v \in Rooms!Running(r) \cup Rooms!Starting(r) : TRUE
    BY <1>0, <2>1
  <2>3. v # w
    BY <2>1, <2>2
  <2>4. watcher'[v] = watcher[v]
    BY <1>4, <2>2, <2>3 DEF Rooms!StartAbsent, Rooms!TickStop, Rooms!TypeOK
  <2> QED
    BY <2>2, <2>4
<1>5. ASSUME NEW w \in Watcher, Rooms!UnwatchDone(w)
      PROVE  (Rooms!Running(r) \cup Rooms!Starting(r))' # {}
  BY <1>0, <1>5 DEF Rooms!UnwatchDone, Rooms!TypeOK
<1> QED
  BY <1>1, <1>2, <1>3, <1>4, <1>5
     DEF Rooms!Next, Rooms!Start, Rooms!vars, Rooms!Watch, Rooms!Unwatch, Rooms!LookupFails,
         Rooms!Join, Rooms!Leave, Rooms!Disconnect, Rooms!TickPoll, Rooms!PollSettles,
         Rooms!UnwatchRejects

----------------------------------------------------------------------------
(* What intervals poll. *)

Captures == captured \in [Watcher -> Instance \cup {None}]
Polls(w) == watcher[w].state \in {"running", "unwatching"} \/ polls[w] > 0

PollInv == IInv /\ Rooms!TypeOK /\ TrackedRoomsAreAlive /\ Captures /\ PolledAreReady

\* The steps of RoomStep start no interval and no poll of an idle one, and
\* take away only what is held by nobody any more.
LEMMA RoomStepPolls ==
  ASSUME Rooms!TypeOK, RoomStep, NEW w \in Watcher
  PROVE  /\ captured'[w] \in {captured[w], None}
         /\ Polls(w)' => Polls(w) /\ captured'[w] = captured[w]
         /\ watcher'[w].state = "running" => watcher'[w] = watcher[w]
<1> USE DEF Rooms!TypeOK
<1>1. captured'[w] = IF watcher'[w] = Rooms!NoWatcher /\ polls'[w] = 0 THEN None ELSE captured[w]
  BY DEF RoomStep
<1>2. /\ watcher'[w].state \in {"running", "unwatching"} => watcher[w].state \in {"running", "unwatching"}
      /\ watcher'[w].state = "running" => watcher'[w] = watcher[w]
      /\ polls'[w] > 0 => Polls(w)
  <2>1. CASE watcher' = watcher /\ polls' = polls
    BY <2>1 DEF Polls
  <2>2. ASSUME NEW v \in Watcher, Rooms!TickPoll(v) \/ Rooms!PollSettles(v)
        PROVE  <1>2
    <3>1. watcher' = watcher
      BY <2>2 DEF Rooms!TickPoll, Rooms!PollSettles
    <3>2. CASE w # v
      BY <2>2, <3>1, <3>2 DEF Rooms!TickPoll, Rooms!PollSettles, Polls
    <3>3. CASE w = v
      BY <2>2, <3>1, <3>3, StreamingAssumption DEF Rooms!TickPoll, Rooms!PollSettles, Polls
    <3> QED
      BY <3>2, <3>3
  <2>3. ASSUME NEW v \in Watcher, Rooms!TickStop(v) \/ Rooms!UnwatchDone(v)
        PROVE  <1>2
    <3>1. polls' = polls /\ watcher[v].state \in {"running", "unwatching"}
      BY <2>3 DEF Rooms!TickStop, Rooms!UnwatchDone
    <3>2. CASE w # v
      BY <2>3, <3>1, <3>2 DEF Rooms!TickStop, Rooms!UnwatchDone, Polls
    <3>3. watcher'[v].state # "running"
      BY <2>3, WatcherMoves DEF Rooms!TickStop, Rooms!UnwatchDone, Rooms!NoWatcher, WatcherType
    <3>4. CASE w = v
      BY <3>1, <3>3, <3>4 DEF Polls
    <3> QED
      BY <3>2, <3>4
  <2> QED
    BY <2>1, <2>2, <2>3
       DEF RoomStep, Rooms!Watch, Rooms!Unwatch, Rooms!Join, Rooms!Leave, Rooms!Disconnect,
           Rooms!UnwatchRejects
<1>3. Polls(w)' => ~(watcher'[w] = Rooms!NoWatcher /\ polls'[w] = 0)
  BY DEF Polls, Rooms!NoWatcher
<1>4. Polls(w)' => Polls(w)
  BY <1>2 DEF Polls
<1> QED
  BY <1>1, <1>2, <1>3, <1>4

\* An instance that stops being ready is one that a request takes for new.
LEMMA ReadyUntilNew ==
  ASSUME TypeOK, Next, NEW i \in markets, i \notin markets'
  PROVE  \E q \in Call : /\ call'[q].pc = "loading" /\ call[q].pc # "loading"
                         /\ call'[q].exchange = i /\ Unused(i)
<1> DEFINE NewIn(q) == /\ call'[q].pc = "loading" /\ call[q].pc # "loading"
                       /\ call'[q].exchange = i /\ Unused(i)
<1>1. ASSUME NEW a \in Call, NEW k, Create(a, k), call[a].pc # "loading"
      PROVE  NewIn(a)
  BY <1>1 DEF Create, Proceed, TypeOK
<1>2. ASSUME NEW a \in Call, NEW k \in Key, GetOrCreatePublic(a, k)
      PROVE  NewIn(a)
  BY <1>1, <1>2 DEF GetOrCreatePublic, NoCall
<1>3. ASSUME NEW a \in Call, Validated(a)
      PROVE  NewIn(a)
  BY <1>1, <1>3 DEF Validated, InFlight
<1> HIDE DEF NewIn
<1>4. \E a \in Call : NewIn(a)
  BY <1>2, <1>3
     DEF Next, UsePublic, UsePrivate, ConnectAgain, ConnectNew, Remove, UseSettles, Loaded, LoadFails,
         ValidationFails, TestPasses, TestFails, RemoveSettles, Expire
<1> QED
  BY <1>4 DEF NewIn

LEMMA InitPollInv == StreamInit => PollInv
<1> SUFFICES ASSUME StreamInit PROVE PollInv
  OBVIOUS
<1>1. IInv /\ Rooms!TypeOK
  BY InitIInv, InitRoomTypes DEF StreamInit
<1>2. Captures
  BY DEF StreamInit, Captures
<1>3. TrackedRoomsAreAlive
  BY DEF StreamInit, Rooms!Init, TrackedRoomsAreAlive, Rooms!TrackedRoomsAreAlive
<1>4. PolledAreReady
  BY DEF StreamInit, Rooms!Init, Rooms!NoWatcher, PolledAreReady
<1> QED
  BY <1>1, <1>2, <1>3, <1>4 DEF PollInv

LEMMA NextPollInv == PollInv /\ [StreamNext]_streamVars => PollInv'
<1> SUFFICES ASSUME PollInv, [StreamNext]_streamVars
             PROVE  PollInv'
  OBVIOUS
<1>0. IInv' /\ Rooms!TypeOK' /\ TrackedRoomsAreAlive'
  BY StepOfSessions, StepOfRooms, NextIInv, NextRoomTypes, NextTracked DEF PollInv
<1>1. PolledAreReady <=> \A w \in Watcher : Polls(w) => captured[w] \in markets
  BY DEF PolledAreReady, Polls
<1>2. PolledAreReady' <=> \A w \in Watcher : Polls(w)' => captured'[w] \in markets'
  BY DEF PolledAreReady, Polls
<1>3. ASSUME NEW a \in Handler, LookupFound(a) \/ LookupFails(a)
      PROVE  Captures' /\ PolledAreReady'
  <2>1. UNCHANGED <<captured, markets, polls>>
    BY <1>3 DEF LookupFound, LookupFails, Rooms!LookupFound, Rooms!LookupFails, vars
  <2>2. \A w \in Watcher : watcher'[w] = watcher[w] \/ (watcher'[w].state = "starting" /\ polls[w] = 0)
    BY <1>3 DEF LookupFound, LookupFails, Rooms!LookupFound, Rooms!LookupFails, Rooms!Spare,
                PollInv, Rooms!TypeOK
  <2>3. \A w \in Watcher : Polls(w)' => Polls(w)
    BY <2>1, <2>2 DEF Polls
  <2> QED
    BY <1>1, <1>2, <2>1, <2>3 DEF PollInv, Captures
<1>4. ASSUME NEW w \in Watcher, StartFound(w)
      PROVE  Captures' /\ PolledAreReady'
  <2>1. /\ watcher[w].state = "starting" /\ UNCHANGED <<markets, polls>>
        /\ captured' = [captured EXCEPT ![w] = Session(watcher[w].room)]
        /\ Session(watcher[w].room) # None
        /\ watcher' = [watcher EXCEPT ![w].state = "running"]
    BY <1>4 DEF StartFound, Rooms!StartFound, vars
  <2>2. watcher[w].room \in Room
    BY <2>1, WatcherMoves DEF PollInv, Rooms!TypeOK, WatcherType
  <2>3. Session(watcher[w].room) \in markets /\ Session(watcher[w].room) \in Instance
    BY <2>1, <2>2, StreamingAssumption DEF Session, PollInv, IInv, UsedAreReady, TypeOK, Key
  <2>4. \A v \in Watcher \ {w} : watcher'[v] = watcher[v]
    BY <2>1 DEF PollInv, Rooms!TypeOK
  <2> QED
    BY <1>1, <1>2, <2>1, <2>3, <2>4 DEF PollInv, Captures, Polls
<1>5. ASSUME NEW w \in Watcher, StartAbsent(w)
      PROVE  Captures' /\ PolledAreReady'
  <2>1. /\ watcher[w].state = "starting" /\ UNCHANGED <<captured, markets, polls>>
        /\ watcher' = [watcher EXCEPT ![w] = Rooms!NoWatcher]
    BY <1>5 DEF StartAbsent, Rooms!StartAbsent, vars
  <2>2. \A v \in Watcher : Polls(v)' => Polls(v)
    BY <2>1 DEF Polls, PollInv, Rooms!TypeOK, Rooms!NoWatcher
  <2> QED
    BY <1>1, <1>2, <2>1, <2>2 DEF PollInv, Captures
<1>6. ASSUME RoomStep
      PROVE  Captures' /\ PolledAreReady'
  <2>1. markets' = markets
    BY <1>6 DEF RoomStep, vars
  <2>2. \A w \in Watcher : /\ captured'[w] \in {captured[w], None}
                           /\ Polls(w)' => Polls(w) /\ captured'[w] = captured[w]
    BY <1>6, RoomStepPolls DEF PollInv
  <2>3. Captures'
    <3>1. captured' = [w \in Watcher |-> captured'[w]]
      BY <1>6 DEF RoomStep
    <3> QED
      BY <2>2, <3>1 DEF PollInv, Captures
  <2>4. PolledAreReady
    BY DEF PollInv
  <2>5. ASSUME NEW w \in Watcher, Polls(w)'
        PROVE  captured'[w] \in markets'
    <3>1. Polls(w) /\ captured'[w] = captured[w]
      BY <2>2, <2>5
    <3> QED
      BY <1>1, <2>1, <2>4, <3>1
  <2>6. PolledAreReady'
    BY <1>2, <2>5
  <2> QED
    BY <2>3, <2>6
<1>7. ASSUME SessionStep
      PROVE  Captures' /\ PolledAreReady'
  <2>1. Next /\ NewAreFresh /\ UNCHANGED <<captured, watcher, polls>>
    BY <1>7 DEF SessionStep, roomVars
  <2>2. \A w \in Watcher : Polls(w)' => captured[w] \in markets
    BY <1>1, <2>1 DEF PollInv, Polls
  <2>3. \A w \in Watcher : captured[w] \in markets => captured[w] \in markets'
    <3> SUFFICES ASSUME NEW w \in Watcher, captured[w] \in markets, captured[w] \notin markets'
                 PROVE  FALSE
      OBVIOUS
    <3>1. TypeOK
      BY DEF PollInv, IInv
    <3>2. PICK q \in Call : /\ call'[q].pc = "loading" /\ call[q].pc # "loading"
                            /\ call'[q].exchange = captured[w]
      BY <2>1, <3>1, ReadyUntilNew
    <3> QED
      BY <2>1, <3>2 DEF NewAreFresh
  <2>4. Captures'
    BY <2>1 DEF PollInv, Captures
  <2>5. PolledAreReady'
    <3> SUFFICES ASSUME NEW w \in Watcher, Polls(w)'
                 PROVE  captured'[w] \in markets'
      BY <1>2
    <3> QED
      BY <2>1, <2>2, <2>3
  <2> QED
    BY <2>4, <2>5
<1>8. ASSUME UNCHANGED streamVars
      PROVE  Captures' /\ PolledAreReady'
  <2>1. UNCHANGED <<captured, markets, watcher, polls>>
    BY <1>8 DEF streamVars, vars, roomVars
  <2> QED
    BY <2>1 DEF PollInv, Captures, PolledAreReady
<1>9. Captures' /\ PolledAreReady'
  <2>1. \/ \E a \in Handler : LookupFound(a) \/ LookupFails(a)
        \/ \E w \in Watcher : StartFound(w) \/ StartAbsent(w)
        \/ RoomStep
        \/ SessionStep
        \/ UNCHANGED streamVars
    BY DEF StreamNext
  <2> QED
    BY <1>3, <1>4, <1>5, <1>6, <1>7, <1>8, <2>1
<1> QED
  BY <1>0, <1>9 DEF PollInv

LEMMA StreamInvariance == StreamSpec => []PollInv
BY InitPollInv, NextPollInv, PTL DEF StreamSpec

\* A private room that counts as taken care of has a watcher, though sessions
\* come and go beside it.
THEOREM StreamTracked == StreamSpec => []TrackedRoomsAreAlive
<1>1. PollInv => TrackedRoomsAreAlive
  BY DEF PollInv
<1> QED
  BY StreamInvariance, <1>1, PTL

\* What an interval polls has loaded its markets, and is not made anew.
THEOREM StreamReady == StreamSpec => []PolledAreReady
<1>1. PollInv => PolledAreReady
  BY DEF PollInv
<1> QED
  BY StreamInvariance, <1>1, PTL

\* Only StartFound gives an interval an instance, and it takes what the
\* session has: an instance that has been or is being tested, and which no
\* ended removal has closed.
THEOREM StreamStarts == StreamSpec => StartsOnLiveSessions
<1>1. ASSUME PollInv, [StreamNext]_streamVars,
             NEW w \in Watcher, captured[w] = None, captured'[w] # None
      PROVE  LET i == captured'[w]
                 k == SessionOf[watcher[w].room]
             IN  /\ i \in tested \/ \E q \in Call : call[q].pc = "testing" /\ call[q].exchange = i
                 /\ i \in closed => \E q \in Call : call[q].pc = "removing" /\ call[q].key = k
  <2>1. StartFound(w)
    <3>1. ASSUME NEW v \in Watcher, StartFound(v)
          PROVE  v = w
      BY <1>1, <3>1 DEF StartFound, PollInv, Captures
    <3>2. ~RoomStep
      BY <1>1, RoomStepPolls DEF PollInv
    <3>3. captured' # captured
      BY <1>1
    <3> QED
      BY <1>1, <3>1, <3>2, <3>3
         DEF StreamNext, streamVars, LookupFound, LookupFails, StartAbsent, SessionStep
  <2>2. /\ captured'[w] = Session(watcher[w].room) /\ Session(watcher[w].room) # None
        /\ watcher[w].state = "starting"
    <3>1. Captures
      BY <1>1 DEF PollInv
    <3> QED
      BY <2>1, <3>1 DEF StartFound, Rooms!StartFound, Captures
  <2>3. watcher[w].room \in Room
    <3>1. Rooms!TypeOK
      BY <1>1 DEF PollInv
    <3> QED
      BY <2>2, <3>1 DEF Rooms!TypeOK, Rooms!NoWatcher
  <2>4. SessionOf[watcher[w].room] \in PrivateKey
    BY <2>3, StreamingAssumption
  <2>5. captured'[w] = store[SessionOf[watcher[w].room]]
    BY <2>2 DEF Session
  <2>6. SessionsAreTested /\ ClosedSessionsLeave
    BY <1>1 DEF PollInv, IInv
  <2> QED
    BY <2>2, <2>4, <2>5, <2>6 DEF Session, SessionsAreTested, ClosedSessionsLeave, InFlight, Key
<1>2. PollInv /\ [StreamNext]_streamVars =>
        [\A w \in Watcher :
         captured[w] = None /\ captured'[w] # None =>
           LET i == captured'[w]
               k == SessionOf[watcher[w].room]
           IN  /\ i \in tested \/ \E q \in Call : call[q].pc = "testing" /\ call[q].exchange = i
               /\ i \in closed => \E q \in Call : call[q].pc = "removing" /\ call[q].key = k]_streamVars
  BY <1>1
<1> QED
  BY StreamInvariance, <1>2, PTL DEF StreamSpec, StartsOnLiveSessions

----------------------------------------------------------------------------
(* Whose instance an interval polls. *)

HasKey(i, k) ==
    /\ \A j \in Key : store[j] = i => j = k
    /\ \A q \in Call : call[q].exchange = i => call[q].key = k

\* Whoever refers to an instance does so for the same key.
OneKey == \A i \in Instance : \E k : HasKey(i, k)

MadeNew(i) == \E q \in Call : /\ call'[q].pc = "loading" /\ call[q].pc # "loading"
                              /\ call'[q].exchange = i

\* Who refers to an instance that is not new has it from who referred to it
\* before, for the same key.
LEMMA RefsAreCopied ==
  ASSUME TypeOK, Next, NEW i \in Instance, ~MadeNew(i)
  PROVE  /\ \A j \in Key : store'[j] = i =>
              store[j] = i \/ \E q \in Call : call[q].exchange = i /\ call[q].key = j
         /\ \A q \in Call : call'[q].exchange = i =>
              \/ call[q].exchange = i /\ call[q].key = call'[q].key
              \/ call'[q].key \in Key /\ store[call'[q].key] = i
<1> USE KeyAssumption
<1> DEFINE Copied == /\ \A j \in Key : store'[j] = i =>
                          store[j] = i \/ \E q \in Call : call[q].exchange = i /\ call[q].key = j
                     /\ \A q \in Call : call'[q].exchange = i =>
                          \/ call[q].exchange = i /\ call[q].key = call'[q].key
                          \/ call'[q].key \in Key /\ store[call'[q].key] = i
<1>1. ASSUME NEW a \in Call, NEW k \in Key,
             \/ UsePublic(a, k) \/ UsePrivate(a, k)
             \/ ConnectAgain(a, k) \/ ConnectNew(a, k) \/ Remove(a, k)
      PROVE  Copied
  BY <1>1 DEF UsePublic, UsePrivate, ConnectAgain, ConnectNew, Remove, Proceed, TypeOK
<1>2. ASSUME NEW a \in Call, NEW k, Create(a, k), call[a].pc # "loading", UNCHANGED store
      PROVE  Copied
  <2>1. PICK n \in Instance : call' = [call EXCEPT ![a] = [pc |-> "loading", key |-> k, exchange |-> n]]
    BY <1>2 DEF Create, Proceed
  <2>2. /\ call'[a] = [pc |-> "loading", key |-> k, exchange |-> n]
        /\ \A b \in Call \ {a} : call'[b] = call[b]
    BY <2>1 DEF TypeOK
  <2>3. n # i
    BY <1>2, <2>2 DEF MadeNew
  <2> QED
    BY <1>2, <2>2, <2>3
<1>3. ASSUME NEW a \in Call, NEW k \in Key, GetOrCreatePublic(a, k)
      PROVE  Copied
  BY <1>2, <1>3 DEF GetOrCreatePublic, NoCall
<1>4. ASSUME NEW a \in Call, Validated(a)
      PROVE  Copied
  BY <1>2, <1>4 DEF Validated, InFlight
<1>5. ASSUME NEW a \in Call, Loaded(a)
      PROVE  Copied
  BY <1>5 DEF Loaded, Proceed, InFlight, TypeOK
<1>6. ASSUME NEW a \in Call,
             \/ UseSettles(a) \/ LoadFails(a) \/ ValidationFails(a)
             \/ TestPasses(a) \/ TestFails(a) \/ RemoveSettles(a)
      PROVE  Copied
  BY <1>6 DEF UseSettles, LoadFails, ValidationFails, TestPasses, TestFails, RemoveSettles,
              Finish, NoCall, TypeOK
<1>7. ASSUME NEW k \in Key, Expire(k)
      PROVE  Copied
  BY <1>7 DEF Expire, TypeOK
<1> HIDE DEF Copied
<1>8. Copied
  BY <1>1, <1>3, <1>4, <1>5, <1>6, <1>7 DEF Next
<1> QED
  BY <1>8 DEF Copied

LEMMA KeyIsKept ==
  ASSUME TypeOK, Next, NEW i \in Instance, ~MadeNew(i), NEW k, HasKey(i, k)
  PROVE  HasKey(i, k)'
BY RefsAreCopied DEF HasKey

LEMMA NextOneKey == IInv /\ OneKey /\ [Next]_vars => OneKey'
<1> SUFFICES ASSUME IInv, OneKey, [Next]_vars, NEW i \in Instance
             PROVE  \E k : HasKey(i, k)'
  BY DEF OneKey
<1>1. PICK k : HasKey(i, k)
  BY DEF OneKey
<1>2. CASE UNCHANGED vars
  BY <1>1, <1>2 DEF vars, HasKey
<1>3. CASE Next /\ ~MadeNew(i)
  BY <1>1, <1>3, KeyIsKept DEF IInv
<1>4. CASE Next /\ MadeNew(i)
  <2>1. PICK q \in Call : call'[q].pc = "loading" /\ call'[q].exchange = i
    BY <1>4 DEF MadeNew
  <2>2. LoadingArePrivate'
    BY NextIInv DEF IInv
  <2>3. PICK n : n = call'[q].key
    OBVIOUS
  <2>4. /\ \A j \in Key : store'[j] # i
        /\ \A b \in Call \ {q} : call'[b].exchange # i
    BY <2>1, <2>2 DEF LoadingArePrivate, InFlight, Stored
  <2>5. HasKey(i, n)'
    BY <2>3, <2>4 DEF HasKey
  <2> QED
    BY <2>5
<1> QED
  BY <1>2, <1>3, <1>4

Account(w) == SessionOf[watcher[w].room]

Held == \A w \in Watcher : watcher[w].state = "running" =>
          /\ HasKey(captured[w], Account(w))
          /\ \A v \in Watcher : watcher[v].state = "running" /\ captured[v] = captured[w] =>
               Account(v) = Account(w)

SeparateInv == PollInv /\ OneKey /\ Held

LEMMA InitSeparateInv == StreamInit => SeparateInv
<1> SUFFICES ASSUME StreamInit PROVE SeparateInv
  OBVIOUS
<1>1. PollInv
  BY InitPollInv
<1>2. OneKey
  <2>1. \A i \in Instance : HasKey(i, None)
    BY KeyAssumption DEF StreamInit, Init, NoCall, HasKey
  <2> QED
    BY <2>1 DEF OneKey
<1>3. Held
  BY DEF StreamInit, Rooms!Init, Rooms!NoWatcher, Held
<1> QED
  BY <1>1, <1>2, <1>3 DEF SeparateInv

\* No new interval runs, and those that do keep their instances.
LEMMA HeldIsKept ==
  ASSUME Held, UNCHANGED vars,
         \A w \in Watcher : watcher'[w].state = "running" =>
           watcher'[w] = watcher[w] /\ captured'[w] = captured[w]
  PROVE  Held'
BY DEF Held, HasKey, Account, vars

LEMMA NextHeld ==
  ASSUME SeparateInv, [StreamNext]_streamVars
  PROVE  Held'
<1>0. IInv /\ Rooms!TypeOK /\ Captures /\ PolledAreReady /\ OneKey /\ Held
  BY DEF SeparateInv, PollInv
<1>1. ASSUME NEW a \in Handler, LookupFound(a) \/ LookupFails(a)
      PROVE  Held'
  <2>1. UNCHANGED <<vars, captured>>
    BY <1>1 DEF LookupFound, LookupFails
  <2>2. \A w \in Watcher : watcher'[w] = watcher[w] \/ watcher'[w].state = "starting"
    BY <1>0, <1>1 DEF LookupFound, LookupFails, Rooms!LookupFound, Rooms!LookupFails, Rooms!TypeOK
  <2> QED
    BY <1>0, <2>1, <2>2, HeldIsKept
<1>2. ASSUME NEW w \in Watcher, StartAbsent(w)
      PROVE  Held'
  <2>1. UNCHANGED <<vars, captured>>
    BY <1>2 DEF StartAbsent
  <2>2. \A v \in Watcher : watcher'[v] = watcher[v] \/ watcher'[v].state = "free"
    BY <1>0, <1>2 DEF StartAbsent, Rooms!StartAbsent, Rooms!NoWatcher, Rooms!TypeOK
  <2> QED
    BY <1>0, <2>1, <2>2, HeldIsKept
<1>3. ASSUME RoomStep
      PROVE  Held'
  <2>1. \A w \in Watcher : watcher'[w].state = "running" => watcher'[w] = watcher[w]
    BY <1>0, <1>3, RoomStepPolls
  <2>2. \A w \in Watcher : watcher'[w].state = "running" => captured'[w] = captured[w]
    BY <1>3 DEF RoomStep, Rooms!NoWatcher
  <2> QED
    BY <1>0, <1>3, <2>1, <2>2, HeldIsKept DEF RoomStep
<1>4. ASSUME NEW w \in Watcher, StartFound(w)
      PROVE  Held'
  <2> DEFINE room == watcher[w].room
  <2>1. /\ watcher[w].state = "starting" /\ UNCHANGED vars
        /\ watcher' = [watcher EXCEPT ![w].state = "running"]
        /\ captured' = [captured EXCEPT ![w] = store[SessionOf[room]]]
        /\ store[SessionOf[room]] # None
    BY <1>4 DEF StartFound, Rooms!StartFound, Session
  <2>2. room \in Room /\ watcher' = [watcher EXCEPT ![w] = [state |-> "running", room |-> room]]
    BY <1>0, <2>1, WatcherMoves DEF Rooms!TypeOK, WatcherType
  <2>3. PICK k \in Key, i \in Instance : k = SessionOf[room] /\ i = store[k]
    BY <1>0, <2>1, <2>2, StreamingAssumption DEF IInv, TypeOK, Key
  <2>4. /\ watcher'[w].state = "running" /\ captured'[w] = i /\ Account(w)' = k
        /\ \A v \in Watcher \ {w} : watcher'[v] = watcher[v] /\ captured'[v] = captured[v]
    BY <1>0, <2>1, <2>2, <2>3 DEF Rooms!TypeOK, Captures, Account
  <2>5. HasKey(i, k)
    <3>1. PICK n : HasKey(i, n)
      BY <1>0 DEF OneKey
    <3>2. n = k
      BY <2>3, <3>1 DEF HasKey
    <3> QED
      BY <3>1, <3>2
  <2>6. \A v \in Watcher : watcher[v].state = "running" /\ captured[v] = i => Account(v) = k
    BY <1>0, <2>3 DEF Held, HasKey
  <2>7. ASSUME NEW v \in Watcher, watcher'[v].state = "running"
        PROVE  /\ HasKey(captured[v], Account(v))'
               /\ \A u \in Watcher : watcher'[u].state = "running" /\ captured'[u] = captured'[v] =>
                    Account(u)' = Account(v)'
    <3>1. CASE v = w
      <4>1. HasKey(captured[v], Account(v))'
        BY <2>1, <2>4, <2>5, <3>1 DEF HasKey, vars
      <4>2. ASSUME NEW u \in Watcher, watcher'[u].state = "running", captured'[u] = i
            PROVE  Account(u)' = k
        BY <2>4, <2>6, <4>2 DEF Account
      <4> QED
        BY <2>4, <3>1, <4>1, <4>2
    <3>2. CASE v # w
      <4>1. watcher'[v] = watcher[v] /\ captured'[v] = captured[v]
        BY <2>4, <3>2
      <4>2. HasKey(captured[v], Account(v))
        BY <1>0, <2>7, <4>1 DEF Held
      <4>3. HasKey(captured[v], Account(v))'
        BY <2>1, <4>1, <4>2 DEF HasKey, Account, vars
      <4>4. ASSUME NEW u \in Watcher, watcher'[u].state = "running", captured'[u] = captured'[v]
            PROVE  Account(u)' = Account(v)'
        <5>1. CASE u = w
          BY <2>4, <2>6, <2>7, <4>1, <4>4, <5>1 DEF Account
        <5>2. CASE u # w
          BY <1>0, <2>4, <2>7, <4>1, <4>4, <5>2 DEF Held, Account
        <5> QED
          BY <5>1, <5>2
      <4> QED
        BY <4>3, <4>4
    <3> QED
      BY <3>1, <3>2
  <2> QED
    BY <2>7 DEF Held
<1>5. ASSUME SessionStep
      PROVE  Held'
  <2>1. Next /\ NewAreFresh /\ UNCHANGED <<captured, watcher>>
    BY <1>5 DEF SessionStep, roomVars
  <2>2. ASSUME NEW w \in Watcher, watcher[w].state = "running"
        PROVE  HasKey(captured[w], Account(w))'
    <3>1. captured[w] \in Instance /\ HasKey(captured[w], Account(w))
      BY <1>0, <2>2 DEF PolledAreReady, Held, IInv, TypeOK
    <3>2. ~MadeNew(captured[w])
      BY <2>1 DEF NewAreFresh, MadeNew
    <3>3. TypeOK
      BY <1>0 DEF IInv
    <3>4. \A k : HasKey(captured[w], k) => HasKey(captured[w], k)'
      BY <2>1, <3>1, <3>2, <3>3, KeyIsKept
    <3> QED
      BY <2>1, <3>1, <3>4 DEF HasKey, Account
  <2> QED
    BY <1>0, <2>1, <2>2 DEF Held, Account
<1>6. ASSUME UNCHANGED streamVars
      PROVE  Held'
  BY <1>0, <1>6, HeldIsKept DEF streamVars, roomVars
<1> QED
  <2>1. \/ \E a \in Handler : LookupFound(a) \/ LookupFails(a)
        \/ \E w \in Watcher : StartFound(w) \/ StartAbsent(w)
        \/ RoomStep
        \/ SessionStep
        \/ UNCHANGED streamVars
    BY DEF StreamNext
  <2> QED
    BY <1>1, <1>2, <1>3, <1>4, <1>5, <1>6, <2>1

\* An interval that runs polls an instance of its own account: no session,
\* request or interval of another account has the same.
THEOREM StreamSeparate == StreamSpec => []AccountsAreSeparate
<1>1. SeparateInv /\ [StreamNext]_streamVars => SeparateInv'
  <2> SUFFICES ASSUME SeparateInv, [StreamNext]_streamVars
               PROVE  SeparateInv'
    OBVIOUS
  <2>1. PollInv'
    BY NextPollInv DEF SeparateInv
  <2>2. OneKey'
    BY StepOfSessions, NextOneKey DEF SeparateInv, PollInv
  <2>3. Held'
    BY NextHeld
  <2> QED
    BY <2>1, <2>2, <2>3 DEF SeparateInv
<1>2. SeparateInv => AccountsAreSeparate
  BY DEF SeparateInv, Held, HasKey, Account, AccountsAreSeparate
<1> QED
  BY InitSeparateInv, <1>1, <1>2, PTL DEF StreamSpec

----------------------------------------------------------------------------
(* The promise of RoomFeed.  The argument is that of RoomWatcherProofs, on  *)
(* the names the rooms have here.                                           *)

\* The refinement mapping of Rooms!Promise, by name.
Feed == [r \in Room |-> Rooms!FeedOf(r)]

Same(q) ==
    /\ Rooms!Running(q)' = Rooms!Running(q)
    /\ Rooms!Starting(q)' = Rooms!Starting(q)
    /\ Rooms!Pending(q)' = Rooms!Pending(q)
    /\ subscribers'[q] = subscribers[q]

LEMMA SameFeed ==
  ASSUME NEW q \in Room, Same(q)
  PROVE  Rooms!FeedOf(q)' = Rooms!FeedOf(q)
BY DEF Same, Rooms!FeedOf

\* A step that concerns one room is a step of that room's feed.
LEMMA OneFeed ==
  ASSUME NEW r \in Room, \A q \in Room \ {r} : Same(q)
  PROVE  Feed' = [Feed EXCEPT ![r] = Rooms!FeedOf(r)']
<1>1. \A q \in Room \ {r} : Rooms!FeedOf(q)' = Rooms!FeedOf(q)
  BY SameFeed
<1> QED
  BY <1>1 DEF Feed

LEMMA AllFeeds ==
  ASSUME \A q \in Room : Same(q)
  PROVE  Feed' = Feed
<1>1. \A q \in Room : Rooms!FeedOf(q)' = Rooms!FeedOf(q)
  BY SameFeed
<1> QED
  BY <1>1 DEF Feed

\* watch* opens the feed of the room, unless the room has one.
LEMMA WatchSubscribes ==
  ASSUME Rooms!TypeOK, TrackedRoomsAreAlive,
         NEW a \in Handler, NEW c \in Client, NEW r \in Room, Rooms!Watch(a, c, r)
  PROVE  Rooms!Promise!Subscribe(r, Rooms!SubscriberOf(c, r))
<1> USE DEF Rooms!Watch, Rooms!Arrives
<1>1. \A q \in Room : Rooms!Running(q)' = Rooms!Running(q) /\ Rooms!Starting(q)' = Rooms!Starting(q)
  BY DEF Rooms!Running, Rooms!Starting
<1>2. /\ handler[a].pc = "idle"
      /\ handler'[a] = [pc |-> IF r \in watcherTasks THEN "join" ELSE "lookup",
                     client |-> c, room |-> r]
      /\ \A b \in Handler \ {a} : handler'[b] = handler[b]
  BY DEF Rooms!NoCall, Rooms!TypeOK
<1>3. \A q \in Room \ {r} : Rooms!Pending(q)' = Rooms!Pending(q)
  BY <1>2 DEF Rooms!Pending
<1>4. \A q \in Room \ {r} : Same(q)
  BY <1>1, <1>3 DEF Same, Rooms!TypeOK
<1>5. Rooms!Pending(r) \subseteq Rooms!Pending(r)' /\ (r \notin watcherTasks => a \in Rooms!Pending(r)')
  BY <1>2 DEF Rooms!Pending
<1>6. subscribers'[r] # {}
  BY DEF Rooms!TypeOK
<1>7. r \notin watcherTasks \/ Rooms!Running(r) \cup Rooms!Starting(r) # {}
  BY DEF TrackedRoomsAreAlive, Rooms!TrackedRoomsAreAlive
<1>8. Rooms!FeedOf(r)' = IF Rooms!FeedOf(r) = "open" THEN "open" ELSE "opening"
  BY <1>1, <1>5, <1>6, <1>7 DEF Rooms!FeedOf
<1>9. Feed' = [Feed EXCEPT ![r] = Rooms!FeedOf(r)']
  BY <1>4, OneFeed
<1> QED
  BY <1>8, <1>9 DEF Rooms!Promise!Subscribe, Feed

LEMMA UnwatchUnsubscribes ==
  ASSUME Rooms!TypeOK, NEW a \in Handler, NEW c \in Client, NEW r \in Room, Rooms!Unwatch(a, c, r)
  PROVE  Rooms!Promise!Unsubscribe(r, Rooms!SubscriberOf(c, r))
<1> USE DEF Rooms!Unwatch, Rooms!Arrives
<1>1. \A q \in Room : Rooms!Running(q)' = Rooms!Running(q) /\ Rooms!Starting(q)' = Rooms!Starting(q)
  BY DEF Rooms!Running, Rooms!Starting
<1>2. /\ handler[a].pc = "idle"
      /\ handler'[a].pc = "leave"
      /\ \A b \in Handler \ {a} : handler'[b] = handler[b]
  BY DEF Rooms!NoCall, Rooms!TypeOK
<1>3. \A q \in Room : Rooms!Pending(q)' = Rooms!Pending(q)
  BY <1>2 DEF Rooms!Pending
<1>4. \A q \in Room \ {r} : Same(q)
  BY <1>1, <1>3 DEF Same, Rooms!TypeOK
<1>5. subscribers'[r] = subscribers[r] \ {Rooms!SubscriberOf(c, r)}
  BY DEF Rooms!TypeOK
<1>6. Rooms!FeedOf(r)' = IF Rooms!FeedOf(r) = "failed" /\ subscribers[r] \ {Rooms!SubscriberOf(c, r)} = {}
                   THEN "off" ELSE Rooms!FeedOf(r)
  BY <1>1, <1>3, <1>5 DEF Rooms!FeedOf
<1>7. Feed' = [Feed EXCEPT ![r] = Rooms!FeedOf(r)']
  BY <1>4, OneFeed
<1> QED
  BY <1>6, <1>7 DEF Rooms!Promise!Unsubscribe, Feed

\* What a lookup that ends does to the handlers that wait for one.
LEMMA LookupEnds ==
  ASSUME Rooms!TypeOK, NEW a \in Handler, Rooms!LookupFound(a) \/ Rooms!LookupFails(a)
  PROVE  /\ handler[a].room \in Room
         /\ a \in Rooms!Pending(handler[a].room)
         /\ \A q \in Room : Rooms!Pending(q)' = Rooms!Pending(q) \ {a}
<1>1. handler[a] \in [pc : {"lookup", "join", "leave"}, client : Client, room : Room]
      /\ handler[a].pc = "lookup"
  BY DEF Rooms!TypeOK, Rooms!NoCall, Rooms!LookupFound, Rooms!LookupFails
<1>2. handler'[a].pc # "lookup" /\ \A b \in Handler \ {a} : handler'[b] = handler[b]
  BY <1>1 DEF Rooms!TypeOK, Rooms!NoCall, Rooms!LookupFound, Rooms!LookupFails
<1> QED
  BY <1>1, <1>2 DEF Rooms!Pending

\* A lookup that finds the exchange hands the opening over to a watcher.
LEMMA LookupFoundStutters ==
  ASSUME Rooms!TypeOK, NEW a \in Handler, Rooms!LookupFound(a)
  PROVE  Feed' = Feed
<1>0. PICK r \in Room : r = handler[a].room
  BY LookupEnds
<1>1. a \in Rooms!Pending(r) /\ \A q \in Room : Rooms!Pending(q)' = Rooms!Pending(q) \ {a}
  BY <1>0, LookupEnds
<1>2. PICK w \in Watcher :
        Rooms!Spare(w) /\ watcher' = [watcher EXCEPT ![w] = [state |-> "starting", room |-> r]]
  BY <1>0 DEF Rooms!LookupFound
<1>3. /\ watcher[w].state = "free"
      /\ watcher'[w] = [state |-> "starting", room |-> r]
      /\ \A v \in Watcher \ {w} : watcher'[v] = watcher[v]
  BY <1>2 DEF Rooms!Spare, Rooms!NoWatcher, Rooms!TypeOK
<1>4. \A q \in Room : Rooms!Running(q)' = Rooms!Running(q)
  BY <1>3 DEF Rooms!Running
<1>5. w \in Rooms!Starting(r)' /\ \A q \in Room \ {r} : Rooms!Starting(q)' = Rooms!Starting(q)
  BY <1>3 DEF Rooms!Starting
<1>6. \A q \in Room \ {r} : Rooms!Pending(q)' = Rooms!Pending(q)
  BY <1>0, <1>1 DEF Rooms!Pending
<1>7. subscribers' = subscribers
  BY DEF Rooms!LookupFound
<1>8. \A q \in Room \ {r} : Same(q)
  BY <1>4, <1>5, <1>6, <1>7 DEF Same
<1>9. Rooms!FeedOf(r)' = Rooms!FeedOf(r)
  BY <1>1, <1>4, <1>5 DEF Rooms!FeedOf
<1>10. Feed' = [Feed EXCEPT ![r] = Rooms!FeedOf(r)']
  BY <1>1, <1>8, OneFeed
<1> QED
  BY <1>9, <1>10 DEF Feed

LEMMA LookupFailsIsFail ==
  ASSUME Rooms!TypeOK, NEW a \in Handler, Rooms!LookupFails(a)
  PROVE  Feed' = Feed \/ \E r \in Room : Rooms!Promise!Fail(r)
<1>0. PICK r \in Room : r = handler[a].room
  BY LookupEnds
<1>1. a \in Rooms!Pending(r) /\ \A q \in Room : Rooms!Pending(q)' = Rooms!Pending(q) \ {a}
  BY <1>0, LookupEnds
<1>2. /\ watcher' = watcher
      /\ subscribers' = subscribers
  BY DEF Rooms!LookupFails
<1>3. \A q \in Room : Rooms!Running(q)' = Rooms!Running(q) /\ Rooms!Starting(q)' = Rooms!Starting(q)
  BY <1>2 DEF Rooms!Running, Rooms!Starting
<1>4. \A q \in Room \ {r} : Rooms!Pending(q)' = Rooms!Pending(q)
  BY <1>0, <1>1 DEF Rooms!Pending
<1>5. \A q \in Room \ {r} : Same(q)
  BY <1>2, <1>3, <1>4 DEF Same
<1>6. Feed' = [Feed EXCEPT ![r] = Rooms!FeedOf(r)']
  BY <1>5, OneFeed
<1>7. CASE Rooms!FeedOf(r)' = Rooms!FeedOf(r)
  BY <1>6, <1>7 DEF Feed
<1>8. CASE Rooms!FeedOf(r)' # Rooms!FeedOf(r)
  <2>1. /\ Rooms!FeedOf(r) = "opening"
        /\ Rooms!FeedOf(r)' = IF subscribers[r] = {} THEN "off" ELSE "failed"
    BY <1>1, <1>2, <1>3, <1>8 DEF Rooms!FeedOf
  <2> QED
    BY <1>2, <1>6, <2>1 DEF Rooms!Promise!Fail, Feed
<1> QED
  BY <1>7, <1>8

\* Steps of a watcher leave the handlers alone, and so the pending lookups.
LEMMA WatcherStep ==
  ASSUME Rooms!TypeOK, NEW w \in Watcher, watcher[w].state # "free", handler' = handler,
         subscribers' = subscribers,
         \A v \in Watcher \ {w} : watcher'[v] = watcher[v],
         watcher'[w] = Rooms!NoWatcher \/ watcher'[w].room = watcher[w].room
  PROVE  \E r \in Room : /\ r = watcher[w].room
                         /\ Rooms!Pending(r)' = Rooms!Pending(r)
                         /\ \A q \in Room \ {r} : Same(q)
                         /\ Feed' = [Feed EXCEPT ![r] = Rooms!FeedOf(r)']
<1>1. PICK r \in Room : r = watcher[w].room
  BY DEF Rooms!TypeOK, Rooms!NoWatcher
<1>2. \A q \in Room : Rooms!Pending(q)' = Rooms!Pending(q)
  BY DEF Rooms!Pending
<1>3. \A q \in Room \ {r} : Rooms!Running(q)' = Rooms!Running(q)
  BY <1>1 DEF Rooms!Running, Rooms!NoWatcher
<1>4. \A q \in Room \ {r} : Rooms!Starting(q)' = Rooms!Starting(q)
  BY <1>1 DEF Rooms!Starting, Rooms!NoWatcher
<1>5. \A q \in Room \ {r} : Same(q)
  BY <1>2, <1>3, <1>4 DEF Same
<1> QED
  BY <1>1, <1>2, <1>5, OneFeed

LEMMA StartFoundOpens ==
  ASSUME Rooms!TypeOK, NEW w \in Watcher, Rooms!StartFound(w)
  PROVE  Feed' = Feed \/ \E r \in Room : Rooms!Promise!Open(r)
<1>0. /\ watcher[w].state = "starting"
      /\ watcher' = [watcher EXCEPT ![w].state = "running"]
      /\ handler' = handler /\ subscribers' = subscribers
  BY DEF Rooms!StartFound
<1>1. /\ watcher[w].state = "starting"
      /\ watcher'[w] = [state |-> "running", room |-> watcher[w].room]
      /\ \A v \in Watcher \ {w} : watcher'[v] = watcher[v]
      /\ handler' = handler /\ subscribers' = subscribers
  <2>1. watcher' = [watcher EXCEPT ![w] = [state |-> "running", room |-> watcher[w].room]]
    BY <1>0, WatcherMoves DEF Rooms!TypeOK, WatcherType
  <2> QED
    BY <1>0, <2>1 DEF Rooms!TypeOK
<1>2. PICK r \in Room : /\ r = watcher[w].room
                        /\ Feed' = [Feed EXCEPT ![r] = Rooms!FeedOf(r)']
  BY <1>1, WatcherStep
<1>3. w \in Rooms!Running(r)' /\ w \in Rooms!Starting(r)
  BY <1>1, <1>2 DEF Rooms!Running, Rooms!Starting
<1>4. Rooms!FeedOf(r)' = "open" /\ Rooms!FeedOf(r) \in {"open", "opening"}
  BY <1>3 DEF Rooms!FeedOf
<1> QED
  BY <1>1, <1>2, <1>4 DEF Rooms!Promise!Open, Feed

LEMMA StartAbsentFails ==
  ASSUME Rooms!TypeOK, NEW w \in Watcher, Rooms!StartAbsent(w)
  PROVE  Feed' = Feed \/ \E r \in Room : Rooms!Promise!Fail(r)
<1>1. /\ watcher[w].state = "starting"
      /\ watcher'[w] = Rooms!NoWatcher
      /\ \A v \in Watcher \ {w} : watcher'[v] = watcher[v]
      /\ handler' = handler /\ subscribers' = subscribers
  BY DEF Rooms!StartAbsent, Rooms!TypeOK
<1>2. PICK r \in Room : /\ r = watcher[w].room
                        /\ Rooms!Pending(r)' = Rooms!Pending(r)
                        /\ Feed' = [Feed EXCEPT ![r] = Rooms!FeedOf(r)']
  BY <1>1, WatcherStep
<1>3. w \in Rooms!Starting(r) /\ Rooms!Running(r)' = Rooms!Running(r)
  BY <1>1, <1>2 DEF Rooms!Running, Rooms!Starting, Rooms!NoWatcher
<1>4. \/ Rooms!FeedOf(r)' = Rooms!FeedOf(r)
      \/ /\ Rooms!FeedOf(r) = "opening"
         /\ Rooms!FeedOf(r)' = IF subscribers[r] = {} THEN "off" ELSE "failed"
  BY <1>1, <1>2, <1>3 DEF Rooms!FeedOf
<1> QED
  BY <1>1, <1>2, <1>4 DEF Rooms!Promise!Fail, Feed

LEMMA TickStopCloses ==
  ASSUME Rooms!TypeOK, NEW w \in Watcher, Rooms!TickStop(w)
  PROVE  Feed' = Feed \/ \E r \in Room : Rooms!Promise!Close(r)
<1>1. /\ watcher[w].state = "running"
      /\ subscribers[watcher[w].room] = {}
      /\ watcher'[w] \in {Rooms!NoWatcher, [state |-> "unwatching", room |-> watcher[w].room]}
      /\ \A v \in Watcher \ {w} : watcher'[v] = watcher[v]
      /\ handler' = handler /\ subscribers' = subscribers
  <2>1. CASE watcher' = [watcher EXCEPT ![w] = Rooms!NoWatcher]
    BY <2>1 DEF Rooms!TickStop, Rooms!TypeOK
  <2>2. CASE watcher' = [watcher EXCEPT ![w].state = "unwatching"]
    <3>1. watcher' = [watcher EXCEPT ![w] = [state |-> "unwatching", room |-> watcher[w].room]]
      BY <2>2, WatcherMoves DEF Rooms!TickStop, Rooms!TypeOK, WatcherType
    <3> QED
      BY <3>1 DEF Rooms!TickStop, Rooms!TypeOK
  <2> QED
    BY <2>1, <2>2 DEF Rooms!TickStop
<1>2. PICK r \in Room : /\ r = watcher[w].room
                        /\ Rooms!Pending(r)' = Rooms!Pending(r)
                        /\ Feed' = [Feed EXCEPT ![r] = Rooms!FeedOf(r)']
  BY <1>1, WatcherStep DEF Rooms!NoWatcher
<1>3. w \in Rooms!Running(r)
  BY <1>1, <1>2 DEF Rooms!Running
<1>4. Rooms!FeedOf(r) = "open" /\ Rooms!FeedOf(r)' \in {"open", "opening", "off"}
  BY <1>1, <1>2, <1>3 DEF Rooms!FeedOf
<1>5. Feed[r] = "open"
  BY <1>4 DEF Feed
<1>6. CASE Rooms!FeedOf(r)' = "open"
  BY <1>2, <1>5, <1>6 DEF Feed
<1>7. CASE Rooms!FeedOf(r)' \in {"opening", "off"}
  <2>1. \E f \in {"off", "opening"} : Feed' = [Feed EXCEPT ![r] = f]
    BY <1>2, <1>7
  <2> QED
    BY <1>1, <1>2, <1>5, <2>1 DEF Rooms!Promise!Close, Feed
<1> QED
  BY <1>4, <1>6, <1>7

\* Steps that concern neither subscriptions, nor lookups, nor intervals.
LEMMA OtherStepsStutter ==
  ASSUME Rooms!TypeOK,
         \/ \E a \in Handler : Rooms!Join(a) \/ Rooms!Leave(a)
         \/ \E c \in Client : Rooms!Disconnect(c)
         \/ \E w \in Watcher : \/ Rooms!TickPoll(w) \/ Rooms!PollSettles(w)
                               \/ Rooms!UnwatchDone(w) \/ Rooms!UnwatchRejects(w)
         \/ UNCHANGED Rooms!vars
  PROVE  Feed' = Feed /\ subscribers' = subscribers
<1>1. subscribers' = subscribers
  BY DEF Rooms!Join, Rooms!Leave, Rooms!Disconnect, Rooms!TickPoll, Rooms!PollSettles,
         Rooms!UnwatchDone, Rooms!UnwatchRejects, Rooms!vars
<1>2. \A v \in Watcher : \/ watcher'[v] = watcher[v]
                         \/ watcher[v].state = "unwatching" /\ watcher'[v] = Rooms!NoWatcher
  BY DEF Rooms!Join, Rooms!Leave, Rooms!Disconnect, Rooms!TickPoll, Rooms!PollSettles,
         Rooms!UnwatchDone, Rooms!UnwatchRejects, Rooms!vars, Rooms!TypeOK
<1>3. \A b \in Handler : handler'[b] = handler[b]
                           \/ (handler[b].pc # "lookup" /\ handler'[b] = Rooms!NoCall)
  <2>1. ASSUME NEW a \in Handler, Rooms!Join(a) \/ Rooms!Leave(a)
        PROVE  \A b \in Handler : handler'[b] = handler[b]
                                   \/ (handler[b].pc # "lookup" /\ handler'[b] = Rooms!NoCall)
    BY <2>1 DEF Rooms!Join, Rooms!Leave, Rooms!TypeOK
  <2>2. CASE handler' = handler
    BY <2>2
  <2> QED
    BY <2>1, <2>2
       DEF Rooms!Disconnect, Rooms!TickPoll, Rooms!PollSettles, Rooms!UnwatchDone,
           Rooms!UnwatchRejects, Rooms!vars
<1>4. \A q \in Room : Rooms!Running(q)' = Rooms!Running(q)
  BY <1>2 DEF Rooms!Running, Rooms!NoWatcher
<1>5. \A q \in Room : Rooms!Starting(q)' = Rooms!Starting(q)
  BY <1>2 DEF Rooms!Starting, Rooms!NoWatcher
<1>6. \A q \in Room : Rooms!Pending(q)' = Rooms!Pending(q)
  BY <1>3 DEF Rooms!Pending, Rooms!NoCall
<1>7. \A q \in Room : Same(q)
  BY <1>1, <1>4, <1>5, <1>6 DEF Same
<1> QED
  BY <1>1, <1>7, AllFeeds

\* Every step of the services is one step of the room feeds, or none.
LEMMA StepSimulation ==
  Rooms!TypeOK /\ TrackedRoomsAreAlive /\ [Rooms!Next]_(Rooms!vars)
    => [Rooms!Promise!Next]_(Rooms!Promise!vars)
<1> SUFFICES ASSUME Rooms!TypeOK, TrackedRoomsAreAlive, [Rooms!Next]_(Rooms!vars)
             PROVE  [Rooms!Promise!Next]_(Rooms!Promise!vars)
  OBVIOUS
<1>0. ASSUME Feed' = Feed, subscribers' = subscribers
      PROVE  [Rooms!Promise!Next]_(Rooms!Promise!vars)
  BY <1>0 DEF Rooms!Promise!vars, Feed
<1>1. ASSUME NEW a \in Handler, NEW c \in Client, NEW r \in Room,
             Rooms!Watch(a, c, r) \/ Rooms!Unwatch(a, c, r)
      PROVE  [Rooms!Promise!Next]_(Rooms!Promise!vars)
  <2>1. Rooms!SubscriberOf(c, r) \in Rooms!Subscriber
    BY StreamingAssumption DEF Rooms!SubscriberOf, Rooms!Subscriber
  <2> QED
    BY <1>1, <2>1, WatchSubscribes, UnwatchUnsubscribes DEF Rooms!Promise!Next
<1>2. ASSUME NEW a \in Handler, Rooms!LookupFound(a) \/ Rooms!LookupFails(a)
      PROVE  [Rooms!Promise!Next]_(Rooms!Promise!vars)
  <2>1. subscribers' = subscribers
    BY <1>2 DEF Rooms!LookupFound, Rooms!LookupFails
  <2> QED
    BY <1>0, <1>2, <2>1, LookupFoundStutters, LookupFailsIsFail DEF Rooms!Promise!Next
<1>3. ASSUME NEW w \in Watcher, Rooms!StartFound(w) \/ Rooms!StartAbsent(w) \/ Rooms!TickStop(w)
      PROVE  [Rooms!Promise!Next]_(Rooms!Promise!vars)
  <2>1. subscribers' = subscribers
    BY <1>3 DEF Rooms!StartFound, Rooms!StartAbsent, Rooms!TickStop
  <2> QED
    BY <1>0, <1>3, <2>1, StartFoundOpens, StartAbsentFails, TickStopCloses DEF Rooms!Promise!Next
<1> QED
  BY <1>0, <1>1, <1>2, <1>3, OtherStepsStutter DEF Rooms!Next, Rooms!Start

\* Private rooms keep the promise of RoomFeed beside sessions that come and go,
\* for any number of sockets, accounts, requests and intervals: a feed with
\* subscribers is never closed, and one is missing only after a lookup has failed.
THEOREM StreamFeeds == StreamSpec => ImplementsRoomFeed
<1>1. StreamInit => Rooms!Promise!Init
  BY DEF StreamInit, Rooms!Init, Rooms!Promise!Init, Rooms!FeedOf, Rooms!Running, Rooms!Starting,
         Rooms!Pending, Rooms!NoWatcher, Rooms!NoCall
<1>2. StreamSpec => [](Rooms!TypeOK /\ TrackedRoomsAreAlive)
  BY StreamInvariance, PTL DEF PollInv
<1>3. Rooms!TypeOK /\ TrackedRoomsAreAlive /\ [StreamNext]_streamVars
        => [Rooms!Promise!Next]_(Rooms!Promise!vars)
  BY StepOfRooms, StepSimulation
<1> QED
  BY <1>1, <1>2, <1>3, PTL DEF StreamSpec, ImplementsRoomFeed, Rooms!ImplementsRoomFeed, Rooms!Promise!Spec
====
