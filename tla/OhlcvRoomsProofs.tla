---- MODULE OhlcvRoomsProofs ----
(***************************************************************************)
(* Proofs about OhlcvRooms, for any clients, timeframes, rooms, handlers   *)
(* in flight and intervals.                                                *)
(***************************************************************************)
EXTENDS OhlcvRooms, TLAPS

LEMMA InitTypeOK == Init => TypeOK
<1> SUFFICES ASSUME Init PROVE TypeOK
  OBVIOUS
<1>1. watcher \in [Watcher -> {NoWatcher}] /\ call \in [Call -> {NoCall}]
  BY DEF Init
<1>2. polls \in [Watcher -> 0..MaxPolls] /\ joined \in [Room -> SUBSET (Client \X Timeframe)]
  BY OhlcvAssumption DEF Init
<1>3. subscribers \in [Room -> [Client -> Timeframe \cup {None}]]
  BY DEF Init, Nobody
<1> QED
  BY <1>1, <1>2, <1>3 DEF Init, TypeOK

\* What a lookup that succeeds does to its handler.
LEMMA HandlerMoves ==
  ASSUME TypeOK, NEW a \in Call, LookupFound(a)
  PROVE  call' = [call EXCEPT ![a] = [pc |-> "join", client |-> call[a].client,
                                      room |-> call[a].room, timeframe |-> call[a].timeframe]]
<1>1. call[a] \in [pc : {"lookup", "join", "leave"}, client : Client, room : Room,
                   timeframe : Timeframe]
  BY DEF LookupFound, TypeOK, NoCall
<1>2. [call[a] EXCEPT !.pc = "join"] = [pc |-> "join", client |-> call[a].client,
         room |-> call[a].room, timeframe |-> call[a].timeframe]
  BY <1>1
<1> QED
  BY <1>2 DEF LookupFound, TypeOK

LEMMA NextTypeOK == TypeOK /\ [Next]_vars => TypeOK'
<1> SUFFICES ASSUME TypeOK, [Next]_vars
             PROVE  TypeOK'
  OBVIOUS
<1> USE OhlcvAssumption DEF TypeOK
<1>1. ASSUME NEW a \in Call, NEW c \in Client, NEW r \in Room, NEW tf \in Timeframe,
             Watch(a, c, r, tf)
      PROVE  TypeOK'
  BY <1>1 DEF Watch
<1>2. ASSUME NEW a \in Call, NEW c \in Client, NEW r \in Room, NEW tf \in Timeframe,
             Unwatch(a, c, r, tf)
      PROVE  TypeOK'
  BY <1>2 DEF Unwatch
<1>3. ASSUME NEW a \in Call, LookupFound(a)
      PROVE  TypeOK'
  <2>1. call[a] \in [pc : {"lookup", "join", "leave"}, client : Client, room : Room,
                     timeframe : Timeframe]
    BY <1>3 DEF LookupFound, NoCall
  <2>2. call' \in [Call -> {NoCall} \cup [pc : {"lookup", "join", "leave"}, client : Client,
                                          room : Room, timeframe : Timeframe]]
    BY <1>3, <2>1, HandlerMoves
  <2> QED
    BY <1>3, <2>1, <2>2 DEF LookupFound
<1>4. ASSUME NEW a \in Call, LookupFails(a)
      PROVE  TypeOK'
  BY <1>4 DEF LookupFails
<1>5. ASSUME NEW a \in Call, Join(a) \/ Leave(a)
      PROVE  TypeOK'
  <2>1. call[a].room \in Room /\ call[a].client \in Client /\ call[a].timeframe \in Timeframe
    BY <1>5 DEF Join, Leave, NoCall
  <2>2. call' \in [Call -> {NoCall} \cup [pc : {"lookup", "join", "leave"}, client : Client,
                                          room : Room, timeframe : Timeframe]]
    BY <1>5 DEF Join, Leave
  <2>3. ({call[a].client} \cap connected) \X {call[a].timeframe} \subseteq Client \X Timeframe
    BY <2>1
  <2>4. joined' \in [Room -> SUBSET (Client \X Timeframe)]
    BY <1>5, <2>1, <2>3 DEF Join, Leave
  <2> QED
    BY <1>5, <2>2, <2>4 DEF Join, Leave
<1>6. ASSUME NEW c \in Client, Disconnect(c)
      PROVE  TypeOK'
  BY <1>6 DEF Disconnect
<1>7. ASSUME NEW w \in Watcher, TickPoll(w) \/ PollSettles(w)
      PROVE  TypeOK'
  BY <1>7 DEF TickPoll, PollSettles
<1>8. ASSUME NEW w \in Watcher, TickStop(w)
      PROVE  TypeOK'
  <2>1. watcher[w].room \in Room
    BY <1>8 DEF TickStop, NoWatcher
  <2> QED
    BY <1>8, <2>1 DEF TickStop
<1>9. ASSUME NEW w \in Watcher, CleanupDone(w)
      PROVE  TypeOK'
  <2>1. Nobody \in [Client -> Timeframe \cup {None}]
    BY DEF Nobody
  <2> QED
    BY <1>9, <2>1 DEF CleanupDone
<1>10. CASE UNCHANGED vars
  BY <1>10 DEF vars
<1> QED
  BY <1>1, <1>2, <1>3, <1>4, <1>5, <1>6, <1>7, <1>8, <1>9, <1>10 DEF Next

\* The variables of the OHLCV service always have their types.
THEOREM TypeCorrect == Spec => []TypeOK
BY InitTypeOK, NextTypeOK, PTL DEF Spec

----------------------------------------------------------------------------

LEMMA NextTracked == TypeOK /\ TrackedRoomsAreAlive /\ [Next]_vars => TrackedRoomsAreAlive'
<1> SUFFICES ASSUME TypeOK, TrackedRoomsAreAlive, [Next]_vars,
                    NEW r \in watcherTasks'
             PROVE  Running(r)' # {}
  BY DEF TrackedRoomsAreAlive
<1> USE DEF Running
<1>1. ASSUME UNCHANGED watcher, watcherTasks' \subseteq watcherTasks
      PROVE  Running(r)' # {}
  BY <1>1 DEF TrackedRoomsAreAlive
<1>2. ASSUME NEW a \in Call, LookupFound(a)
      PROVE  Running(r)' # {}
  <2>1. PICK w \in Watcher :
          /\ Spare(w)
          /\ watcher' = [watcher EXCEPT ![w] = [state |-> "running", room |-> call[a].room]]
    BY <1>2 DEF LookupFound
  <2>2. CASE r = call[a].room
    BY <2>1, <2>2 DEF TypeOK
  <2>3. CASE r \in watcherTasks
    <3>1. PICK v \in Running(r) : TRUE
      BY <2>3 DEF TrackedRoomsAreAlive
    <3>2. v # w
      BY <2>1, <3>1 DEF Spare, NoWatcher
    <3> QED
      BY <2>1, <3>1, <3>2 DEF TypeOK
  <2> QED
    BY <1>2, <2>2, <2>3 DEF LookupFound
<1>3. ASSUME NEW w \in Watcher, TickStop(w)
      PROVE  Running(r)' # {}
  <2>1. r # watcher[w].room /\ r \in watcherTasks
    BY <1>3 DEF TickStop
  <2>2. PICK v \in Running(r) : TRUE
    BY <2>1 DEF TrackedRoomsAreAlive
  <2>3. v # w
    BY <2>1, <2>2
  <2> QED
    BY <1>3, <2>2, <2>3 DEF TickStop, TypeOK
<1>4. ASSUME NEW w \in Watcher, CleanupDone(w)
      PROVE  Running(r)' # {}
  <2>1. PICK v \in Running(r) : TRUE
    BY <1>4 DEF TrackedRoomsAreAlive, CleanupDone
  <2> QED
    BY <1>4, <2>1 DEF CleanupDone, TypeOK
<1> QED
  BY <1>1, <1>2, <1>3, <1>4
     DEF Next, vars, Watch, Unwatch, LookupFails, Join, Leave, Disconnect, TickPoll, PollSettles

\* A room for which watchOhlcv answers "started" without a lookup has an
\* interval, however handlers, intervals and cleanups overlap.
THEOREM Tracked == Spec => []TrackedRoomsAreAlive
<1>1. Init => TrackedRoomsAreAlive
  BY DEF Init, TrackedRoomsAreAlive
<1> QED
  BY <1>1, InitTypeOK, NextTypeOK, NextTracked, PTL DEF Spec

----------------------------------------------------------------------------
(* The service keeps the promise of RoomFeed. *)

\* Only where the exchange can un-watch does a cleanup wait, and then delete.
CleanupsWaitForUnwatch ==
    \A w \in Watcher : watcher[w].state = "cleaning" => watcher[w].room \in canUnwatch

FeedInv == TypeOK /\ TrackedRoomsAreAlive /\ CleanupsWaitForUnwatch

LEMMA InitFeedInv == Init => FeedInv
<1>1. Init => TrackedRoomsAreAlive /\ CleanupsWaitForUnwatch
  BY DEF Init, TrackedRoomsAreAlive, CleanupsWaitForUnwatch, NoWatcher
<1> QED
  BY <1>1, InitTypeOK DEF FeedInv

LEMMA NextFeedInv == FeedInv /\ [Next]_vars => FeedInv'
<1> SUFFICES ASSUME FeedInv, [Next]_vars
             PROVE  CleanupsWaitForUnwatch'
  BY NextTypeOK, NextTracked DEF FeedInv
<1> USE DEF FeedInv, TypeOK, CleanupsWaitForUnwatch
<1>1. ASSUME NEW a \in Call, LookupFound(a)
      PROVE  CleanupsWaitForUnwatch'
  <2>1. PICK w \in Watcher :
          watcher' = [watcher EXCEPT ![w] = [state |-> "running", room |-> call[a].room]]
    BY <1>1 DEF LookupFound
  <2> QED
    BY <1>1, <2>1 DEF LookupFound
<1>2. ASSUME NEW w \in Watcher, TickStop(w) \/ CleanupDone(w)
      PROVE  CleanupsWaitForUnwatch'
  BY <1>2 DEF TickStop, CleanupDone, NoWatcher
<1>3. ASSUME UNCHANGED <<watcher, canUnwatch>>
      PROVE  CleanupsWaitForUnwatch'
  BY <1>3
<1> QED
  BY <1>1, <1>2, <1>3
     DEF Next, vars, Watch, Unwatch, LookupFails, Join, Leave, Disconnect, TickPoll, PollSettles

\* The refinement mapping of Promise, by name.
Subs == [r \in Room |-> {c \in Client : subscribers[r][c] # None}]
Feed == [r \in Room |-> FeedOf(r)]

Same(q) ==
    /\ Running(q)' = Running(q)
    /\ Pending(q)' = Pending(q)
    /\ subscribers'[q] = subscribers[q]

\* A step that concerns one room is a step of that room's feed.
LEMMA OneRoom ==
  ASSUME NEW r \in Room, \A q \in Room \ {r} : Same(q)
  PROVE  /\ Feed' = [Feed EXCEPT ![r] = FeedOf(r)']
         /\ Subs' = [Subs EXCEPT ![r] = {c \in Client : subscribers'[r][c] # None}]
         /\ Feed[r] = FeedOf(r)
         /\ Subs[r] = {c \in Client : subscribers[r][c] # None}
<1>1. \A q \in Room \ {r} : FeedOf(q)' = FeedOf(q)
  BY DEF Same, FeedOf, Live
<1>2. \A q \in Room \ {r} : subscribers'[q] = subscribers[q]
  BY DEF Same
<1> QED
  BY <1>1, <1>2 DEF Feed, Subs

LEMMA AllRooms ==
  ASSUME \A q \in Room : Same(q)
  PROVE  Feed' = Feed /\ Subs' = Subs
<1>1. \A q \in Room : FeedOf(q)' = FeedOf(q)
  BY DEF Same, FeedOf, Live
<1>2. \A q \in Room : subscribers'[q] = subscribers[q]
  BY DEF Same
<1> QED
  BY <1>1, <1>2 DEF Feed, Subs

\* A room exists exactly as long as it has subscribers.
LEMMA LiveIsSubscribed ==
  ASSUME TypeOK, NEW r \in Room
  PROVE  Live(r) <=> {c \in Client : subscribers[r][c] # None} # {}
<1>1. subscribers[r] = [c \in Client |-> subscribers[r][c]]
  BY DEF TypeOK
<1>2. CASE \A c \in Client : subscribers[r][c] = None
  BY <1>1, <1>2 DEF Live, Nobody
<1>3. CASE \E c \in Client : subscribers[r][c] # None
  BY <1>3 DEF Live, Nobody
<1> QED
  BY <1>2, <1>3

LEMMA LiveIsSubscribedThen ==
  ASSUME TypeOK', NEW r \in Room
  PROVE  Live(r)' <=> {c \in Client : subscribers'[r][c] # None} # {}
<1>1. subscribers'[r] = [c \in Client |-> subscribers'[r][c]]
  BY DEF TypeOK
<1>2. CASE \A c \in Client : subscribers'[r][c] = None
  BY <1>1, <1>2 DEF Live, Nobody
<1>3. CASE \E c \in Client : subscribers'[r][c] # None
  BY <1>3 DEF Live, Nobody
<1> QED
  BY <1>2, <1>3

\* watchOhlcv opens the feed of the room, unless it has one.
LEMMA WatchSubscribes ==
  ASSUME FeedInv, TypeOK', NEW a \in Call, NEW c \in Client, NEW r \in Room,
         NEW tf \in Timeframe, Watch(a, c, r, tf)
  PROVE  Promise!Subscribe(r, c)
<1>1. /\ watcher' = watcher
      /\ call[a].pc = "idle"
      /\ call'[a].pc = IF r \in watcherTasks THEN "join" ELSE "lookup"
      /\ call'[a].room = r
      /\ \A b \in Call \ {a} : call'[b] = call[b]
  BY DEF Watch, NoCall, FeedInv, TypeOK
<1>2. /\ subscribers'[r] = [subscribers[r] EXCEPT ![c] = tf]
      /\ \A q \in Room \ {r} : subscribers'[q] = subscribers[q]
  BY DEF Watch, FeedInv, TypeOK
<1>3. \A q \in Room : Running(q)' = Running(q)
  BY <1>1 DEF Running
<1>4. \A q \in Room \ {r} : Pending(q)' = Pending(q)
  BY <1>1 DEF Pending
<1>5. \A q \in Room \ {r} : Same(q)
  BY <1>2, <1>3, <1>4 DEF Same
<1>6. /\ Feed' = [Feed EXCEPT ![r] = FeedOf(r)']
      /\ Subs' = [Subs EXCEPT ![r] = {d \in Client : subscribers'[r][d] # None}]
      /\ Feed[r] = FeedOf(r)
      /\ Subs[r] = {d \in Client : subscribers[r][d] # None}
  BY <1>5, OneRoom
<1>7. {d \in Client : subscribers'[r][d] # None} = {d \in Client : subscribers[r][d] # None} \cup {c}
  BY <1>2, OhlcvAssumption DEF FeedInv, TypeOK
<1>8. Pending(r) \subseteq Pending(r)' /\ (r \notin watcherTasks => a \in Pending(r)')
  BY <1>1 DEF Pending
<1>9. r \notin watcherTasks \/ Running(r) # {}
  BY DEF FeedInv, TrackedRoomsAreAlive
<1>10. FeedOf(r)' = IF FeedOf(r) = "open" THEN "open" ELSE "opening"
  BY <1>3, <1>8, <1>9 DEF FeedOf
<1> QED
  BY <1>6, <1>7, <1>10 DEF Promise!Subscribe, Subs, Feed

LEMMA UnwatchUnsubscribes ==
  ASSUME FeedInv, TypeOK', NEW a \in Call, NEW c \in Client, NEW r \in Room,
         NEW tf \in Timeframe, Unwatch(a, c, r, tf)
  PROVE  Promise!Unsubscribe(r, c)
<1>1. /\ watcher' = watcher
      /\ call[a].pc = "idle"
      /\ call'[a].pc = "leave"
      /\ \A b \in Call \ {a} : call'[b] = call[b]
  BY DEF Unwatch, NoCall, FeedInv, TypeOK
<1>2. /\ subscribers'[r] = [subscribers[r] EXCEPT ![c] = None]
      /\ \A q \in Room \ {r} : subscribers'[q] = subscribers[q]
  BY DEF Unwatch, FeedInv, TypeOK
<1>3. \A q \in Room : Running(q)' = Running(q)
  BY <1>1 DEF Running
<1>4. \A q \in Room : Pending(q)' = Pending(q)
  BY <1>1 DEF Pending
<1>5. \A q \in Room \ {r} : Same(q)
  BY <1>2, <1>3, <1>4 DEF Same
<1>6. /\ Feed' = [Feed EXCEPT ![r] = FeedOf(r)']
      /\ Subs' = [Subs EXCEPT ![r] = {d \in Client : subscribers'[r][d] # None}]
      /\ Feed[r] = FeedOf(r)
      /\ Subs[r] = {d \in Client : subscribers[r][d] # None}
  BY <1>5, OneRoom
<1>7. {d \in Client : subscribers'[r][d] # None} = {d \in Client : subscribers[r][d] # None} \ {c}
  BY <1>2 DEF FeedInv, TypeOK
<1>8. /\ Live(r) <=> {d \in Client : subscribers[r][d] # None} # {}
      /\ Live(r)' <=> {d \in Client : subscribers'[r][d] # None} # {}
  BY LiveIsSubscribed, LiveIsSubscribedThen DEF FeedInv
<1>9. FeedOf(r)' = IF FeedOf(r) = "failed" /\ {d \in Client : subscribers[r][d] # None} \ {c} = {}
                   THEN "off" ELSE FeedOf(r)
  BY <1>3, <1>4, <1>7, <1>8 DEF FeedOf
<1> QED
  BY <1>6, <1>7, <1>9 DEF Promise!Unsubscribe, Subs, Feed

\* What a lookup that ends does to the handlers that wait for one.
LEMMA LookupEnds ==
  ASSUME TypeOK, NEW a \in Call, LookupFound(a) \/ LookupFails(a)
  PROVE  /\ call[a].room \in Room
         /\ a \in Pending(call[a].room)
         /\ \A q \in Room : Pending(q)' = Pending(q) \ {a}
<1>1. call[a].pc = "lookup" /\ call[a].room \in Room
  BY DEF TypeOK, NoCall, LookupFound, LookupFails
<1>2. call'[a].pc # "lookup" /\ \A b \in Call \ {a} : call'[b] = call[b]
  <2>1. CASE LookupFound(a)
    BY <2>1, HandlerMoves DEF TypeOK
  <2>2. CASE LookupFails(a)
    BY <2>2 DEF LookupFails, NoCall, TypeOK
  <2> QED
    BY <2>1, <2>2
<1> QED
  BY <1>1, <1>2 DEF Pending

LEMMA LookupFoundOpens ==
  ASSUME FeedInv, NEW a \in Call, LookupFound(a)
  PROVE  (Feed' = Feed /\ Subs' = Subs) \/ \E r \in Room : Promise!Open(r)
<1>0. PICK r \in Room : r = call[a].room
  BY LookupEnds DEF FeedInv
<1>1. a \in Pending(r) /\ \A q \in Room : Pending(q)' = Pending(q) \ {a}
  BY <1>0, LookupEnds DEF FeedInv
<1>2. PICK w \in Watcher :
        Spare(w) /\ watcher' = [watcher EXCEPT ![w] = [state |-> "running", room |-> r]]
  BY <1>0 DEF LookupFound
<1>3. /\ watcher[w] = NoWatcher
      /\ watcher'[w] = [state |-> "running", room |-> r]
      /\ \A v \in Watcher \ {w} : watcher'[v] = watcher[v]
  BY <1>2 DEF Spare, FeedInv, TypeOK
<1>4. w \in Running(r)' /\ \A q \in Room \ {r} : Running(q)' = Running(q)
  BY <1>3 DEF Running, NoWatcher
<1>5. \A q \in Room \ {r} : Pending(q)' = Pending(q)
  BY <1>0, <1>1 DEF Pending
<1>6. subscribers' = subscribers
  BY DEF LookupFound
<1>7. \A q \in Room \ {r} : Same(q)
  BY <1>4, <1>5, <1>6 DEF Same
<1>8. Feed' = [Feed EXCEPT ![r] = FeedOf(r)'] /\ Feed[r] = FeedOf(r)
  BY <1>7, OneRoom
<1>9. Subs' = Subs
  BY <1>6 DEF Subs
<1>10. FeedOf(r)' = "open" /\ FeedOf(r) \in {"open", "opening"}
  BY <1>1, <1>4 DEF FeedOf
<1> QED
  BY <1>8, <1>9, <1>10 DEF Promise!Open, Subs, Feed

LEMMA LookupFailsIsFail ==
  ASSUME FeedInv, NEW a \in Call, LookupFails(a)
  PROVE  (Feed' = Feed /\ Subs' = Subs) \/ \E r \in Room : Promise!Fail(r)
<1>0. PICK r \in Room : r = call[a].room
  BY LookupEnds DEF FeedInv
<1>1. a \in Pending(r) /\ \A q \in Room : Pending(q)' = Pending(q) \ {a}
  BY <1>0, LookupEnds DEF FeedInv
<1>2. watcher' = watcher /\ subscribers' = subscribers
  BY DEF LookupFails
<1>3. \A q \in Room : Running(q)' = Running(q)
  BY <1>2 DEF Running
<1>4. \A q \in Room \ {r} : Pending(q)' = Pending(q)
  BY <1>0, <1>1 DEF Pending
<1>5. \A q \in Room \ {r} : Same(q)
  BY <1>2, <1>3, <1>4 DEF Same
<1>6. /\ Feed' = [Feed EXCEPT ![r] = FeedOf(r)']
      /\ Feed[r] = FeedOf(r)
      /\ Subs[r] = {d \in Client : subscribers[r][d] # None}
  BY <1>5, OneRoom
<1>7. Subs' = Subs
  BY <1>2 DEF Subs
<1>8. \/ FeedOf(r)' = FeedOf(r)
      \/ /\ FeedOf(r) = "opening"
         /\ FeedOf(r)' = IF {d \in Client : subscribers[r][d] # None} = {} THEN "off" ELSE "failed"
  <2>1. Live(r) <=> {d \in Client : subscribers[r][d] # None} # {}
    BY LiveIsSubscribed DEF FeedInv
  <2>2. Live(r)' <=> Live(r)
    BY <1>2 DEF Live
  <2> QED
    BY <1>1, <1>3, <2>1, <2>2 DEF FeedOf
<1> QED
  BY <1>6, <1>7, <1>8 DEF Promise!Fail, Subs, Feed

LEMMA TickStopCloses ==
  ASSUME FeedInv, NEW w \in Watcher, TickStop(w)
  PROVE  (Feed' = Feed /\ Subs' = Subs) \/ \E r \in Room : Promise!Close(r)
<1>1. PICK r \in Room : r = watcher[w].room
  BY DEF TickStop, FeedInv, TypeOK, NoWatcher
<1>2. /\ watcher[w] = [state |-> "running", room |-> r]
      /\ watcher'[w].state # "running"
      /\ \A v \in Watcher \ {w} : watcher'[v] = watcher[v]
      /\ call' = call /\ subscribers' = subscribers
  BY <1>1 DEF TickStop, FeedInv, TypeOK, NoWatcher
<1>3. \A q \in Room : Pending(q)' = Pending(q)
  BY <1>2 DEF Pending
<1>4. w \in Running(r) /\ \A q \in Room \ {r} : Running(q)' = Running(q)
  BY <1>2 DEF Running
<1>5. \A q \in Room \ {r} : Same(q)
  BY <1>2, <1>3, <1>4 DEF Same
<1>6. /\ Feed' = [Feed EXCEPT ![r] = FeedOf(r)']
      /\ Feed[r] = FeedOf(r)
      /\ Subs[r] = {d \in Client : subscribers[r][d] # None}
  BY <1>5, OneRoom
<1>7. Subs' = Subs
  BY <1>2 DEF Subs
<1>8. {d \in Client : subscribers[r][d] # None} = {} /\ ~Live(r)'
  BY <1>1, <1>2, LiveIsSubscribed DEF FeedInv, TickStop, Live
<1>9. FeedOf(r) = "open" /\ FeedOf(r)' \in {"open", "opening", "off"}
  BY <1>4, <1>8 DEF FeedOf
<1>10. CASE FeedOf(r)' = "open"
  BY <1>6, <1>7, <1>9, <1>10 DEF Feed
<1>11. CASE FeedOf(r)' \in {"opening", "off"}
  <2>1. \E f \in {"off", "opening"} : Feed' = [Feed EXCEPT ![r] = f]
    BY <1>6, <1>11
  <2>2. Feed[r] = "open" /\ Subs[r] = {}
    BY <1>6, <1>8, <1>9, <1>11
  <2> QED
    BY <1>7, <2>1, <2>2 DEF Promise!Close, Subs, Feed
<1> QED
  BY <1>9, <1>10, <1>11

\* The deletion after an un-watch is where the room's subscribers, and those
\* alone, are forgotten, and only where the exchange can un-watch.
LEMMA CleanupForgets ==
  ASSUME FeedInv, TypeOK', NEW w \in Watcher, CleanupDone(w)
  PROVE  \E r \in canUnwatch : Promise!Forget(r)
<1>1. PICK r \in Room : r = watcher[w].room
  BY DEF CleanupDone, FeedInv, TypeOK, NoWatcher
<1>2. /\ watcher[w].state = "cleaning" /\ watcher'[w] = NoWatcher
      /\ \A v \in Watcher \ {w} : watcher'[v] = watcher[v]
      /\ subscribers'[r] = Nobody
      /\ \A q \in Room \ {r} : subscribers'[q] = subscribers[q]
      /\ call' = call
  BY <1>1 DEF CleanupDone, FeedInv, TypeOK
<1>3. \A q \in Room : Running(q)' = Running(q)
  BY <1>2 DEF Running, NoWatcher
<1>4. \A q \in Room : Pending(q)' = Pending(q)
  BY <1>2 DEF Pending
<1>5. \A q \in Room \ {r} : Same(q)
  BY <1>2, <1>3, <1>4 DEF Same
<1>6. /\ Feed' = [Feed EXCEPT ![r] = FeedOf(r)']
      /\ Subs' = [Subs EXCEPT ![r] = {c \in Client : subscribers'[r][c] # None}]
      /\ Feed[r] = FeedOf(r)
  BY <1>5, OneRoom
<1>7. {c \in Client : subscribers'[r][c] # None} = {} /\ ~Live(r)'
  BY <1>2 DEF Nobody, Live
<1>8. FeedOf(r)' = IF FeedOf(r) = "failed" THEN "off" ELSE FeedOf(r)
  BY <1>3, <1>4, <1>7 DEF FeedOf
<1>9. r \in canUnwatch
  BY <1>1, <1>2 DEF FeedInv, CleanupsWaitForUnwatch
<1> QED
  BY <1>6, <1>7, <1>8, <1>9 DEF Promise!Forget, Subs, Feed

\* Steps that concern neither subscriptions, nor lookups, nor intervals.
LEMMA OtherStepsStutter ==
  ASSUME TypeOK,
         \/ \E a \in Call : Join(a) \/ Leave(a)
         \/ \E c \in Client : Disconnect(c)
         \/ \E w \in Watcher : TickPoll(w) \/ PollSettles(w)
         \/ UNCHANGED vars
  PROVE  Feed' = Feed /\ Subs' = Subs
<1>1. subscribers' = subscribers /\ watcher' = watcher
  BY DEF Join, Leave, Disconnect, TickPoll, PollSettles, vars
<1>2. \A b \in Call : call'[b] = call[b] \/ (call[b].pc # "lookup" /\ call'[b] = NoCall)
  BY DEF Join, Leave, Disconnect, TickPoll, PollSettles, vars, TypeOK
<1>3. \A q \in Room : Running(q)' = Running(q)
  BY <1>1 DEF Running
<1>4. \A q \in Room : Pending(q)' = Pending(q)
  BY <1>2 DEF Pending, NoCall
<1>5. \A q \in Room : Same(q)
  BY <1>1, <1>3, <1>4 DEF Same
<1> QED
  BY <1>1, <1>5, AllRooms

\* Steps of the rooms, seen by clients.
FeedStep == Promise!Next \/ \E r \in canUnwatch : Promise!Forget(r)

LEMMA StepSimulation == FeedInv /\ [Next]_vars => [FeedStep]_(Promise!vars)
<1> SUFFICES ASSUME FeedInv, [Next]_vars
             PROVE  [FeedStep]_(Promise!vars)
  OBVIOUS
<1>0. TypeOK /\ TypeOK'
  BY NextTypeOK DEF FeedInv
<1>1. ASSUME Feed' = Feed, Subs' = Subs
      PROVE  [FeedStep]_(Promise!vars)
  BY <1>1 DEF Promise!vars, Feed, Subs
<1>2. ASSUME NEW a \in Call, NEW c \in Client, NEW r \in Room, NEW tf \in Timeframe,
             Watch(a, c, r, tf) \/ Unwatch(a, c, r, tf)
      PROVE  [FeedStep]_(Promise!vars)
  BY <1>0, <1>2, WatchSubscribes, UnwatchUnsubscribes DEF FeedStep, Promise!Next
<1>3. ASSUME NEW a \in Call, LookupFound(a) \/ LookupFails(a)
      PROVE  [FeedStep]_(Promise!vars)
  BY <1>1, <1>3, LookupFoundOpens, LookupFailsIsFail DEF FeedStep, Promise!Next
<1>4. ASSUME NEW w \in Watcher, TickStop(w)
      PROVE  [FeedStep]_(Promise!vars)
  BY <1>1, <1>4, TickStopCloses DEF FeedStep, Promise!Next
<1>5. ASSUME NEW w \in Watcher, CleanupDone(w)
      PROVE  [FeedStep]_(Promise!vars)
  BY <1>0, <1>5, CleanupForgets DEF FeedStep
<1> QED
  BY <1>0, <1>1, <1>2, <1>3, <1>4, <1>5, OtherStepsStutter DEF Next

\* The OHLCV service keeps the promise of RoomFeed, except that a cleanup may
\* forget the subscribers of a room whose exchange has unWatchTrades, for any
\* number of sockets, rooms, handlers and intervals.
THEOREM Implementation == Spec => ImplementsRoomFeed
<1>1. Init => Promise!Init
  BY DEF Init, Promise!Init, FeedOf, Running, Pending, NoWatcher, NoCall, Live, Nobody
<1>2. FeedInv /\ [Next]_vars =>
        [Promise!Next \/ \E r \in canUnwatch : Promise!Forget(r)]_(Promise!vars)
  BY StepSimulation DEF FeedStep
<1> QED
  BY <1>1, <1>2, InitFeedInv, NextFeedInv, PTL DEF Spec, ImplementsRoomFeed
====
