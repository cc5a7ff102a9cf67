---- MODULE RoomWatcherProofs ----
(***************************************************************************)
(* Proofs about RoomWatcher, for any clients, rooms, handlers in flight    *)
(* and intervals.                                                          *)
(***************************************************************************)
EXTENDS RoomWatcher, TLAPS

\* A step that moves a watcher on changes the state of that slot alone.
LEMMA WatcherMoves ==
  ASSUME TypeOK, NEW w \in Watcher, watcher[w].state # "free",
         NEW s \in {"starting", "running", "unwatching"},
         watcher' = [watcher EXCEPT ![w].state = s]
  PROVE  /\ watcher[w].room \in Room
         /\ watcher' = [watcher EXCEPT ![w] = [state |-> s, room |-> watcher[w].room]]
         /\ watcher' \in [Watcher -> {NoWatcher} \cup
                            [state : {"starting", "running", "unwatching"}, room : Room]]
<1>1. watcher[w] \in [state : {"starting", "running", "unwatching"}, room : Room]
  BY DEF TypeOK, NoWatcher
<1>2. [watcher[w] EXCEPT !.state = s] = [state |-> s, room |-> watcher[w].room]
  BY <1>1
<1>3. watcher' = [watcher EXCEPT ![w] = [state |-> s, room |-> watcher[w].room]]
  BY <1>1, <1>2 DEF TypeOK
<1>4. [state |-> s, room |-> watcher[w].room]
        \in [state : {"starting", "running", "unwatching"}, room : Room]
  BY <1>1
<1> QED
  BY <1>1, <1>3, <1>4 DEF TypeOK

\* The types of all variables are preserved together.
LEMMA InitTypeOK == Init => TypeOK
<1> SUFFICES ASSUME Init PROVE TypeOK
  OBVIOUS
<1>1. watcher \in [Watcher -> {NoWatcher}] /\ call \in [Call -> {NoCall}]
  BY DEF Init
<1>2. polls \in [Watcher -> 0..MaxPolls]
  BY BoundAssumption DEF Init
<1> QED
  BY <1>1, <1>2 DEF Init, TypeOK

LEMMA NextTypeOK == TypeOK /\ [Next]_vars => TypeOK'
<1> SUFFICES ASSUME TypeOK, [Next]_vars
             PROVE  TypeOK'
  OBVIOUS
<1> USE BoundAssumption, RoomAssumption DEF TypeOK
<1>0. /\ \A c \in Client, r \in Room : SubscriberOf(c, r) \in Subscriber
      /\ \A r \in Room : \A c \in Audience[r] : SubscriberOf(c, r) \in Members(r)
  BY DEF SubscriberOf, Subscriber, Members
<1>1. ASSUME NEW a \in Call, NEW c \in Client, NEW r \in Room, Watch(a, c, r)
      PROVE  TypeOK'
  <2>1. \A q \in Room : subscribers'[q] \subseteq Members(q)
    BY <1>0, <1>1 DEF Watch, Arrives
  <2> QED
    BY <1>0, <1>1, <2>1 DEF Watch, Arrives
<1>2. ASSUME NEW a \in Call, NEW c \in Client, NEW r \in Room, Unwatch(a, c, r)
      PROVE  TypeOK'
  BY <1>2 DEF Unwatch, Arrives
<1>3. ASSUME NEW a \in Call, LookupFound(a)
      PROVE  TypeOK'
  <2>1. call[a] \in [pc : {"lookup", "join", "leave"}, client : Client, room : Room]
    BY <1>3 DEF LookupFound, NoCall
  <2> QED
    BY <1>3, <2>1 DEF LookupFound
<1>4. ASSUME NEW a \in Call, LookupFails(a)
      PROVE  TypeOK'
  BY <1>4 DEF LookupFails
<1>5. ASSUME NEW a \in Call, Join(a) \/ Leave(a)
      PROVE  TypeOK'
  <2>1. call[a].room \in Room /\ call[a].client \in Client
    BY <1>5 DEF Join, Leave, NoCall
  <2> QED
    BY <1>5, <2>1 DEF Join, Leave
<1>6. ASSUME NEW c \in Client, Disconnect(c)
      PROVE  TypeOK'
  BY <1>6 DEF Disconnect
<1>7. ASSUME NEW w \in Watcher, StartFound(w)
      PROVE  TypeOK'
  <2>1. /\ watcher[w].room \in Room
        /\ watcher' \in [Watcher -> {NoWatcher} \cup
                     [state : {"starting", "running", "unwatching"}, room : Room]]
    BY <1>7, WatcherMoves DEF StartFound
  <2> QED
    BY <1>7, <2>1 DEF StartFound
<1>8. ASSUME NEW w \in Watcher, TickStop(w)
      PROVE  TypeOK'
  <2>1. watcher' \in [Watcher -> {NoWatcher} \cup
                     [state : {"starting", "running", "unwatching"}, room : Room]]
    <3>1. CASE watcher' = [watcher EXCEPT ![w] = NoWatcher]
      BY <3>1
    <3>2. CASE watcher' = [watcher EXCEPT ![w].state = "unwatching"]
      BY <1>8, <3>2, WatcherMoves DEF TickStop
    <3> QED
      BY <1>8, <3>1, <3>2 DEF TickStop
  <2> QED
    BY <1>8, <2>1 DEF TickStop
<1>9. ASSUME NEW w \in Watcher, StartAbsent(w) \/ UnwatchDone(w) \/ UnwatchRejects(w)
      PROVE  TypeOK'
  BY <1>9 DEF StartAbsent, UnwatchDone, UnwatchRejects
<1>10. ASSUME NEW w \in Watcher, TickPoll(w) \/ PollSettles(w)
       PROVE  TypeOK'
  BY <1>10 DEF TickPoll, PollSettles
<1>11. CASE UNCHANGED vars
  BY <1>11 DEF vars
<1> QED
  BY <1>1, <1>2, <1>3, <1>4, <1>5, <1>6, <1>7, <1>8, <1>9, <1>10, <1>11
     DEF Next, Start

\* The state of the streaming services and gateways always has its type.
THEOREM TypeCorrect == Spec => []TypeOK
BY InitTypeOK, NextTypeOK, PTL DEF Spec

----------------------------------------------------------------------------

\* watcherTasks loses a room whenever one of the room's watchers ends, though
\* another may live on; it never keeps one whose last watcher has ended.
LEMMA NextTracked == TypeOK /\ TrackedRoomsAreAlive /\ [Next]_vars => TrackedRoomsAreAlive'
<1> SUFFICES ASSUME TypeOK, TrackedRoomsAreAlive, [Next]_vars,
                    NEW r \in watcherTasks'
             PROVE  (Running(r) \cup Starting(r))' # {}
  BY DEF TrackedRoomsAreAlive
<1> USE DEF Running, Starting
<1>1. ASSUME UNCHANGED watcher, watcherTasks' \subseteq watcherTasks
      PROVE  (Running(r) \cup Starting(r))' # {}
  BY <1>1 DEF TrackedRoomsAreAlive
<1>2. ASSUME NEW a \in Call, LookupFound(a)
      PROVE  (Running(r) \cup Starting(r))' # {}
  <2>1. PICK w \in Watcher :
          /\ Spare(w)
          /\ watcher' = [watcher EXCEPT ![w] = [state |-> "starting", room |-> call[a].room]]
    BY <1>2 DEF LookupFound
  <2>2. CASE r = call[a].room
    BY <2>1, <2>2 DEF TypeOK
  <2>3. CASE r \in watcherTasks
    <3>1. PICK v \in Running(r) \cup Starting(r) : TRUE
      BY <2>3 DEF TrackedRoomsAreAlive
    <3>2. v # w
      BY <2>1, <3>1 DEF Spare, NoWatcher
    <3> QED
      BY <2>1, <3>1, <3>2 DEF TypeOK
  <2> QED
    BY <1>2, <2>2, <2>3 DEF LookupFound
<1>3. ASSUME NEW w \in Watcher, StartFound(w)
      PROVE  (Running(r) \cup Starting(r))' # {}
  <2>1. watcher' = [watcher EXCEPT ![w] = [state |-> "running", room |-> watcher[w].room]]
    BY <1>3, WatcherMoves DEF StartFound
  <2>2. CASE r = watcher[w].room
    BY <2>1, <2>2 DEF TypeOK
  <2>3. CASE r # watcher[w].room
    <3>1. PICK v \in Running(r) \cup Starting(r) : TRUE
      BY <1>3, <2>3 DEF TrackedRoomsAreAlive, StartFound
    <3>2. v # w
      BY <2>3, <3>1
    <3> QED
      BY <2>1, <3>1, <3>2 DEF TypeOK
  <2> QED
    BY <2>2, <2>3
<1>4. ASSUME NEW w \in Watcher, StartAbsent(w) \/ TickStop(w)
      PROVE  (Running(r) \cup Starting(r))' # {}
  <2>1. r # watcher[w].room /\ r \in watcherTasks
    BY <1>4 DEF StartAbsent, TickStop
  <2>2. PICK v \in Running(r) \cup Starting(r) : TRUE
    BY <2>1 DEF TrackedRoomsAreAlive
  <2>3. v # w
    BY <2>1, <2>2
  <2>4. watcher'[v] = watcher[v]
    BY <1>4, <2>2, <2>3 DEF StartAbsent, TickStop, TypeOK
  <2> QED
    BY <2>2, <2>4
<1>5. ASSUME NEW w \in Watcher, UnwatchDone(w)
      PROVE  (Running(r) \cup Starting(r))' # {}
  BY <1>5 DEF UnwatchDone, TypeOK, TrackedRoomsAreAlive
<1> QED
  BY <1>1, <1>2, <1>3, <1>4, <1>5
     DEF Next, Start, vars, Watch, Unwatch, LookupFails, Join, Leave, Disconnect, TickPoll,
         PollSettles, UnwatchRejects

\* A room for which watch* answers "started" without a lookup has a watcher
\* that starts or runs, however handlers and intervals overlap.
THEOREM Tracked == Spec => []TrackedRoomsAreAlive
<1>1. Init => TrackedRoomsAreAlive
  BY DEF Init, TrackedRoomsAreAlive
<1> QED
  BY <1>1, InitTypeOK, NextTypeOK, NextTracked, PTL DEF Spec

----------------------------------------------------------------------------
(* Who sits in a room is subscribed to it. *)

\* A socket that has always waited has one handler in flight at most.
OneCallAtATime ==
    \A a, b \in Call :
      a # b /\ NoCall \notin {call[a], call[b]} /\ call[a].client = call[b].client =>
        call[a].client \in hasty

\* While its watch* is under way an orderly socket is subscribed.
WatchersAreSubscribed ==
    \A a \in Call :
      call[a].pc \in {"lookup", "join"} /\ call[a].client \in Orderly =>
        SubscriberOf(call[a].client, call[a].room) \in subscribers[call[a].room]

RoomsInv == TypeOK /\ OneCallAtATime /\ WatchersAreSubscribed /\ JoinedAreSubscribed

\* Sockets become hasty and stay it.
LEMMA OrderlyShrinks ==
  ASSUME hasty \subseteq hasty'
  PROVE  Orderly' \subseteq Orderly
BY DEF Orderly

\* An orderly socket has its subscription for itself.
LEMMA OwnSubscription ==
  ASSUME NEW c \in Client, NEW d \in Orderly, NEW r \in Room,
         SubscriberOf(c, r) = SubscriberOf(d, r)
  PROVE  c = d
BY RoomAssumption DEF Orderly, SubscriberOf

LEMMA InitRooms == Init => RoomsInv
<1> SUFFICES ASSUME Init PROVE RoomsInv
  OBVIOUS
<1>1. \A a \in Call : call[a] = NoCall
  BY DEF Init
<1>2. OneCallAtATime /\ WatchersAreSubscribed
  BY <1>1 DEF OneCallAtATime, WatchersAreSubscribed, NoCall
<1>3. JoinedAreSubscribed
  BY DEF Init, JoinedAreSubscribed
<1> QED
  BY <1>2, <1>3, InitTypeOK DEF RoomsInv

\* What the start of a handler, of either kind, does to calls.
LEMMA ArrivalOneCall ==
  ASSUME RoomsInv, NEW a \in Call, NEW c \in Client, NEW r \in Room, Arrives(a, c, r),
         NEW pc \in {"lookup", "join", "leave"},
         call' = [call EXCEPT ![a] = [pc |-> pc, client |-> c, room |-> r]]
  PROVE  /\ call'[a] = [pc |-> pc, client |-> c, room |-> r]
         /\ \A b \in Call \ {a} : call'[b] = call[b]
         /\ hasty \subseteq hasty'
         /\ \A b \in Call : call[b].client = c => c \in hasty'
         /\ OneCallAtATime'
<1>1. /\ call'[a] = [pc |-> pc, client |-> c, room |-> r]
      /\ \A b \in Call \ {a} : call'[b] = call[b]
  BY DEF RoomsInv, TypeOK
<1>2. hasty \subseteq hasty' /\ \A b \in Call : call[b].client = c => c \in hasty'
  BY DEF Arrives
<1>3. OneCallAtATime'
  <2> SUFFICES ASSUME NEW x \in Call, NEW y \in Call, x # y,
                      NoCall \notin {call'[x], call'[y]}, call'[x].client = call'[y].client
               PROVE  call'[x].client \in hasty'
    BY DEF OneCallAtATime
  <2>1. CASE x = a
    BY <1>1, <1>2, <2>1
  <2>2. CASE y = a
    BY <1>1, <1>2, <2>2
  <2>3. CASE x # a /\ y # a
    BY <1>1, <1>2, <2>3 DEF RoomsInv, OneCallAtATime
  <2> QED
    BY <2>1, <2>2, <2>3
<1> QED
  BY <1>1, <1>2, <1>3

LEMMA WatchKeepsRooms ==
  ASSUME RoomsInv, NEW a \in Call, NEW c \in Client, NEW r \in Room, Watch(a, c, r), TypeOK'
  PROVE  RoomsInv'
<1>0. PICK pc \in {"lookup", "join", "leave"} :
        pc # "leave" /\ call' = [call EXCEPT ![a] = [pc |-> pc, client |-> c, room |-> r]]
  BY DEF Watch
<1>1. /\ call'[a] = [pc |-> pc, client |-> c, room |-> r]
      /\ \A b \in Call \ {a} : call'[b] = call[b]
      /\ Orderly' \subseteq Orderly
      /\ OneCallAtATime'
  <2>1. Arrives(a, c, r)
    BY DEF Watch
  <2>2. hasty \subseteq hasty'
    BY <1>0, <2>1, ArrivalOneCall
  <2>3. Orderly' \subseteq Orderly
    BY <2>2, OrderlyShrinks
  <2>4. /\ \A b \in Call \ {a} : call'[b] = call[b]
        /\ OneCallAtATime'
    BY <1>0, <2>1, ArrivalOneCall
  <2>5. call'[a] = [pc |-> pc, client |-> c, room |-> r]
    BY <1>0 DEF RoomsInv, TypeOK
  <2> QED
    BY <2>3, <2>4, <2>5
<1>2. /\ SubscriberOf(c, r) \in subscribers'[r]
      /\ \A q \in Room : subscribers[q] \subseteq subscribers'[q]
      /\ joined' = joined /\ call[a] = NoCall
  BY DEF Watch, Arrives, RoomsInv, TypeOK
<1>3. \A b \in Call : call[b] = NoCall \/ call[b].room \in Room
  BY DEF RoomsInv, TypeOK
<1>4. WatchersAreSubscribed'
  <2> SUFFICES ASSUME NEW b \in Call, call'[b].pc \in {"lookup", "join"},
                      call'[b].client \in Orderly'
               PROVE  SubscriberOf(call'[b].client, call'[b].room) \in subscribers'[call'[b].room]
    BY DEF WatchersAreSubscribed, SubscriberOf
  <2>1. CASE b = a
    BY <1>1, <1>2, <2>1
  <2>2. CASE b # a
    BY <1>1, <1>2, <1>3, <2>2 DEF RoomsInv, WatchersAreSubscribed, NoCall
  <2> QED
    BY <2>1, <2>2
<1>5. JoinedAreSubscribed'
  <2> SUFFICES ASSUME NEW q \in Room, NEW d \in joined[q] \cap Orderly
               PROVE  \/ SubscriberOf(d, q) \in subscribers'[q]
                      \/ \E b \in Call : call'[b] = [pc |-> "leave", client |-> d, room |-> q]
    BY <1>1, <1>2 DEF JoinedAreSubscribed, SubscriberOf
  <2>1. CASE SubscriberOf(d, q) \in subscribers[q]
    BY <1>2, <2>1
  <2>2. ASSUME NEW b \in Call, call[b] = [pc |-> "leave", client |-> d, room |-> q]
        PROVE  call'[b] = call[b]
    BY <1>1, <1>2, <2>2 DEF NoCall
  <2> QED
    BY <2>1, <2>2 DEF RoomsInv, JoinedAreSubscribed
<1> QED
  BY <1>1, <1>4, <1>5 DEF RoomsInv

LEMMA UnwatchKeepsRooms ==
  ASSUME RoomsInv,
         NEW a \in Call, NEW c \in Client, NEW r \in Room, Unwatch(a, c, r), TypeOK'
  PROVE  RoomsInv'
<1>1. /\ call'[a] = [pc |-> "leave", client |-> c, room |-> r]
      /\ \A b \in Call \ {a} : call'[b] = call[b]
      /\ Orderly' \subseteq Orderly
      /\ \A b \in Call : call[b].client = c => c \in hasty'
      /\ OneCallAtATime'
  BY ArrivalOneCall, OrderlyShrinks DEF Unwatch
<1>2. /\ subscribers'[r] = subscribers[r] \ {SubscriberOf(c, r)}
      /\ \A q \in Room \ {r} : subscribers'[q] = subscribers[q]
      /\ joined' = joined /\ call[a] = NoCall
  BY DEF Unwatch, Arrives, RoomsInv, TypeOK
<1>3. \A q \in Room, d \in Orderly :
        SubscriberOf(d, q) \in subscribers[q] /\ (d # c \/ q # r) => SubscriberOf(d, q) \in subscribers'[q]
  BY <1>2, OwnSubscription
<1>4. \A b \in Call : call[b] = NoCall \/ (call[b].room \in Room /\ call[b].client \in Client)
  BY DEF RoomsInv, TypeOK
<1>5. WatchersAreSubscribed'
  <2> SUFFICES ASSUME NEW b \in Call, call'[b].pc \in {"lookup", "join"},
                      call'[b].client \in Orderly'
               PROVE  SubscriberOf(call'[b].client, call'[b].room) \in subscribers'[call'[b].room]
    BY DEF WatchersAreSubscribed, SubscriberOf
  <2>1. b # a /\ call'[b] = call[b]
    BY <1>1
  <2>2. call[b].client # c
    BY <1>1, <2>1 DEF Orderly
  <2>3. SubscriberOf(call[b].client, call[b].room) \in subscribers[call[b].room]
    BY <1>1, <2>1 DEF RoomsInv, WatchersAreSubscribed
  <2>4. call[b].room \in Room /\ call[b].client \in Orderly
    BY <1>1, <1>4, <2>1 DEF NoCall
  <2> QED
    BY <1>3, <2>1, <2>2, <2>3, <2>4
<1>6. JoinedAreSubscribed'
  <2> SUFFICES ASSUME NEW q \in Room, NEW d \in joined[q] \cap Orderly
               PROVE  \/ SubscriberOf(d, q) \in subscribers'[q]
                      \/ \E b \in Call : call'[b] = [pc |-> "leave", client |-> d, room |-> q]
    BY <1>1, <1>2 DEF JoinedAreSubscribed, SubscriberOf
  <2>1. CASE d = c /\ q = r
    BY <1>1, <2>1
  <2>2. CASE SubscriberOf(d, q) \in subscribers[q] /\ (d # c \/ q # r)
    BY <1>3, <2>2
  <2>3. ASSUME NEW b \in Call, call[b] = [pc |-> "leave", client |-> d, room |-> q]
        PROVE  call'[b] = call[b]
    BY <1>1, <1>2, <2>3 DEF NoCall
  <2> QED
    BY <2>1, <2>2, <2>3 DEF RoomsInv, JoinedAreSubscribed
<1> QED
  BY <1>1, <1>5, <1>6 DEF RoomsInv

\* Calls go on or end, sockets leave rooms, and subscriptions stay.
LEMMA OthersKeepRooms ==
  ASSUME RoomsInv, TypeOK', UNCHANGED <<subscribers, hasty>>,
         \A a \in Call : \/ call'[a] = call[a]
                         \/ call'[a] = NoCall
                         \/ /\ call[a].pc = "lookup"
                            /\ call'[a] = [pc |-> "join", client |-> call[a].client,
                                           room |-> call[a].room],
         \A r \in Room, c \in Orderly : c \in joined'[r] =>
            \/ c \in joined[r] /\ \A a \in Call :
                 call[a] = [pc |-> "leave", client |-> c, room |-> r] => call'[a] = call[a]
            \/ \E a \in Call : call[a] = [pc |-> "join", client |-> c, room |-> r]
  PROVE  RoomsInv'
<1>1. Orderly' = Orderly
  BY DEF Orderly
<1>2. ASSUME NEW a \in Call, call'[a] # NoCall
      PROVE  /\ call[a] # NoCall
             /\ call'[a].client = call[a].client
             /\ call'[a].room = call[a].room
             /\ call'[a].pc \in {"lookup", "join"} => call[a].pc \in {"lookup", "join"}
  <2>1. CASE call'[a] = call[a]
    BY <1>2, <2>1
  <2>2. CASE call[a].pc = "lookup" /\ call'[a] = [pc |-> "join", client |-> call[a].client,
                                                 room |-> call[a].room]
    BY <2>2 DEF NoCall
  <2> QED
    BY <1>2, <2>1, <2>2
<1>3. OneCallAtATime'
  BY <1>2 DEF RoomsInv, OneCallAtATime
<1>4. WatchersAreSubscribed'
  <2> SUFFICES ASSUME NEW a \in Call, call'[a].pc \in {"lookup", "join"},
                      call'[a].client \in Orderly
               PROVE  SubscriberOf(call'[a].client, call'[a].room) \in subscribers[call'[a].room]
    BY <1>1 DEF WatchersAreSubscribed, SubscriberOf
  <2>1. call'[a] # NoCall
    BY DEF NoCall
  <2> QED
    BY <1>2, <2>1 DEF RoomsInv, WatchersAreSubscribed
<1>5. JoinedAreSubscribed'
  <2> SUFFICES ASSUME NEW r \in Room, NEW c \in joined'[r] \cap Orderly
               PROVE  \/ SubscriberOf(c, r) \in subscribers[r]
                      \/ \E a \in Call : call'[a] = [pc |-> "leave", client |-> c, room |-> r]
    BY <1>1 DEF JoinedAreSubscribed, SubscriberOf
  <2>1. ASSUME NEW a \in Call, call[a] = [pc |-> "join", client |-> c, room |-> r]
        PROVE  SubscriberOf(c, r) \in subscribers[r]
    <3>1. call[a].pc = "join" /\ call[a].client = c /\ call[a].room = r
      BY <2>1
    <3> QED
      BY <3>1 DEF RoomsInv, WatchersAreSubscribed
  <2>2. CASE c \in joined[r] /\ \A a \in Call :
               call[a] = [pc |-> "leave", client |-> c, room |-> r] => call'[a] = call[a]
    BY <2>2 DEF RoomsInv, JoinedAreSubscribed
  <2> QED
    BY <2>1, <2>2
<1> QED
  BY <1>3, <1>4, <1>5 DEF RoomsInv

LEMMA NextRooms == RoomsInv /\ [Next]_vars => RoomsInv'
<1> SUFFICES ASSUME RoomsInv, [Next]_vars
             PROVE  RoomsInv'
  OBVIOUS
<1>0. TypeOK /\ TypeOK'
  BY NextTypeOK DEF RoomsInv
<1>1. ASSUME NEW a \in Call, NEW c \in Client, NEW r \in Room, Watch(a, c, r) \/ Unwatch(a, c, r)
      PROVE  RoomsInv'
  BY <1>0, <1>1, WatchKeepsRooms, UnwatchKeepsRooms
<1>2. ASSUME NEW a \in Call, LookupFound(a)
      PROVE  RoomsInv'
  <2>1. call[a] \in [pc : {"lookup", "join", "leave"}, client : Client, room : Room]
    BY <1>0, <1>2 DEF LookupFound, TypeOK, NoCall
  <2>2. [call[a] EXCEPT !.pc = "join"]
          = [pc |-> "join", client |-> call[a].client, room |-> call[a].room]
    BY <2>1
  <2>3. call' = [call EXCEPT ![a] = [pc |-> "join", client |-> call[a].client, room |-> call[a].room]]
    BY <1>0, <1>2, <2>2 DEF LookupFound, TypeOK
  <2>4. /\ call'[a] = [pc |-> "join", client |-> call[a].client, room |-> call[a].room]
        /\ \A b \in Call \ {a} : call'[b] = call[b]
    BY <1>0, <2>3 DEF TypeOK
  <2> QED
    BY <1>0, <1>2, <2>4, OthersKeepRooms DEF LookupFound
<1>3. ASSUME NEW a \in Call, LookupFails(a)
      PROVE  RoomsInv'
  <2>1. call[a].pc = "lookup" /\ call'[a] = NoCall /\ \A b \in Call \ {a} : call'[b] = call[b]
    BY <1>0, <1>3 DEF LookupFails, TypeOK
  <2> QED
    BY <1>0, <1>3, <2>1, OthersKeepRooms DEF LookupFails
<1>4. ASSUME NEW a \in Call, Join(a)
      PROVE  RoomsInv'
  <2>1. /\ call[a].pc = "join" /\ call'[a] = NoCall
        /\ \A b \in Call \ {a} : call'[b] = call[b]
        /\ call[a] = [pc |-> "join", client |-> call[a].client, room |-> call[a].room]
    BY <1>0, <1>4 DEF Join, TypeOK, NoCall
  <2>2. \A r \in Room : \A c \in joined'[r] :
          c \in joined[r] \/ (c = call[a].client /\ r = call[a].room)
    BY <1>0, <1>4 DEF Join, TypeOK
  <2> QED
    BY <1>0, <1>4, <2>1, <2>2, OthersKeepRooms DEF Join
<1>5. ASSUME NEW a \in Call, Leave(a)
      PROVE  RoomsInv'
  <2>1. /\ call'[a] = NoCall
        /\ \A b \in Call \ {a} : call'[b] = call[b]
        /\ call[a].room \in Room /\ call[a].client \in Client
    BY <1>0, <1>5 DEF Leave, TypeOK, NoCall
  <2>2. \A r \in Room : \A c \in joined'[r] :
          c \in joined[r] /\ ~(c = call[a].client /\ r = call[a].room)
    BY <1>0, <1>5, <2>1 DEF Leave, TypeOK
  <2> QED
    BY <1>0, <1>5, <2>1, <2>2, OthersKeepRooms DEF Leave
<1>6. ASSUME NEW c \in Client, Disconnect(c)
      PROVE  RoomsInv'
  BY <1>0, <1>6, OthersKeepRooms DEF Disconnect
<1>7. ASSUME UNCHANGED <<subscribers, hasty, call, joined>>
      PROVE  RoomsInv'
  BY <1>0, <1>7, OthersKeepRooms
<1> QED
  BY <1>1, <1>2, <1>3, <1>4, <1>5, <1>6, <1>7
     DEF Next, Start, vars, StartFound, StartAbsent, TickPoll, TickStop, PollSettles, UnwatchDone,
         UnwatchRejects

\* Sockets in a room are among its subscribers, or are leaving, for any number
\* of clients that wait for their calls and share no user: unWatch* never
\* strands one.
THEOREM Joined == Spec => []JoinedAreSubscribed
<1>1. RoomsInv => JoinedAreSubscribed
  BY DEF RoomsInv
<1> QED
  BY <1>1, InitRooms, NextRooms, PTL DEF Spec

----------------------------------------------------------------------------

\* The refinement mapping of Promise, by name.
Feed == [r \in Room |-> FeedOf(r)]

Same(q) ==
    /\ Running(q)' = Running(q)
    /\ Starting(q)' = Starting(q)
    /\ Pending(q)' = Pending(q)
    /\ subscribers'[q] = subscribers[q]

LEMMA SameFeed ==
  ASSUME NEW q \in Room, Same(q)
  PROVE  FeedOf(q)' = FeedOf(q)
BY DEF Same, FeedOf

\* A step that concerns one room is a step of that room's feed.
LEMMA OneFeed ==
  ASSUME NEW r \in Room, \A q \in Room \ {r} : Same(q)
  PROVE  Feed' = [Feed EXCEPT ![r] = FeedOf(r)']
<1>1. \A q \in Room \ {r} : FeedOf(q)' = FeedOf(q)
  BY SameFeed
<1> QED
  BY <1>1 DEF Feed

LEMMA AllFeeds ==
  ASSUME \A q \in Room : Same(q)
  PROVE  Feed' = Feed
<1>1. \A q \in Room : FeedOf(q)' = FeedOf(q)
  BY SameFeed
<1> QED
  BY <1>1 DEF Feed

\* watch* opens the feed of the room, unless the room has one.
LEMMA WatchSubscribes ==
  ASSUME TypeOK, TrackedRoomsAreAlive,
         NEW a \in Call, NEW c \in Client, NEW r \in Room, Watch(a, c, r)
  PROVE  Promise!Subscribe(r, SubscriberOf(c, r))
<1> USE DEF Watch, Arrives
<1>1. \A q \in Room : Running(q)' = Running(q) /\ Starting(q)' = Starting(q)
  BY DEF Running, Starting
<1>2. /\ call[a].pc = "idle"
      /\ call'[a] = [pc |-> IF r \in watcherTasks THEN "join" ELSE "lookup",
                     client |-> c, room |-> r]
      /\ \A b \in Call \ {a} : call'[b] = call[b]
  BY DEF NoCall, TypeOK
<1>3. \A q \in Room \ {r} : Pending(q)' = Pending(q)
  BY <1>2 DEF Pending
<1>4. \A q \in Room \ {r} : Same(q)
  BY <1>1, <1>3 DEF Same, TypeOK
<1>5. Pending(r) \subseteq Pending(r)' /\ (r \notin watcherTasks => a \in Pending(r)')
  BY <1>2 DEF Pending
<1>6. subscribers'[r] # {}
  BY DEF TypeOK
<1>7. r \notin watcherTasks \/ Running(r) \cup Starting(r) # {}
  BY DEF TrackedRoomsAreAlive
<1>8. FeedOf(r)' = IF FeedOf(r) = "open" THEN "open" ELSE "opening"
  BY <1>1, <1>5, <1>6, <1>7 DEF FeedOf
<1>9. Feed' = [Feed EXCEPT ![r] = FeedOf(r)']
  BY <1>4, OneFeed
<1> QED
  BY <1>8, <1>9 DEF Promise!Subscribe, Feed

LEMMA UnwatchUnsubscribes ==
  ASSUME TypeOK, NEW a \in Call, NEW c \in Client, NEW r \in Room, Unwatch(a, c, r)
  PROVE  Promise!Unsubscribe(r, SubscriberOf(c, r))
<1> USE DEF Unwatch, Arrives
<1>1. \A q \in Room : Running(q)' = Running(q) /\ Starting(q)' = Starting(q)
  BY DEF Running, Starting
<1>2. /\ call[a].pc = "idle"
      /\ call'[a].pc = "leave"
      /\ \A b \in Call \ {a} : call'[b] = call[b]
  BY DEF NoCall, TypeOK
<1>3. \A q \in Room : Pending(q)' = Pending(q)
  BY <1>2 DEF Pending
<1>4. \A q \in Room \ {r} : Same(q)
  BY <1>1, <1>3 DEF Same, TypeOK
<1>5. subscribers'[r] = subscribers[r] \ {SubscriberOf(c, r)}
  BY DEF TypeOK
<1>6. FeedOf(r)' = IF FeedOf(r) = "failed" /\ subscribers[r] \ {SubscriberOf(c, r)} = {}
                   THEN "off" ELSE FeedOf(r)
  BY <1>1, <1>3, <1>5 DEF FeedOf
<1>7. Feed' = [Feed EXCEPT ![r] = FeedOf(r)']
  BY <1>4, OneFeed
<1> QED
  BY <1>6, <1>7 DEF Promise!Unsubscribe, Feed

\* What a lookup that ends does to the handlers that wait for one.
LEMMA LookupEnds ==
  ASSUME TypeOK, NEW a \in Call, LookupFound(a) \/ LookupFails(a)
  PROVE  /\ call[a].room \in Room
         /\ a \in Pending(call[a].room)
         /\ \A q \in Room : Pending(q)' = Pending(q) \ {a}
<1>1. call[a] \in [pc : {"lookup", "join", "leave"}, client : Client, room : Room]
      /\ call[a].pc = "lookup"
  BY DEF TypeOK, NoCall, LookupFound, LookupFails
<1>2. call'[a].pc # "lookup" /\ \A b \in Call \ {a} : call'[b] = call[b]
  BY <1>1 DEF TypeOK, NoCall, LookupFound, LookupFails
<1> QED
  BY <1>1, <1>2 DEF Pending

\* A lookup that finds the exchange hands the opening over to a watcher.
LEMMA LookupFoundStutters ==
  ASSUME TypeOK, NEW a \in Call, LookupFound(a)
  PROVE  Feed' = Feed
<1>0. PICK r \in Room : r = call[a].room
  BY LookupEnds
<1>1. a \in Pending(r) /\ \A q \in Room : Pending(q)' = Pending(q) \ {a}
  BY <1>0, LookupEnds
<1>2. PICK w \in Watcher :
        Spare(w) /\ watcher' = [watcher EXCEPT ![w] = [state |-> "starting", room |-> r]]
  BY <1>0 DEF LookupFound
<1>3. /\ watcher[w].state = "free"
      /\ watcher'[w] = [state |-> "starting", room |-> r]
      /\ \A v \in Watcher \ {w} : watcher'[v] = watcher[v]
  BY <1>2 DEF Spare, NoWatcher, TypeOK
<1>4. \A q \in Room : Running(q)' = Running(q)
  BY <1>3 DEF Running
<1>5. w \in Starting(r)' /\ \A q \in Room \ {r} : Starting(q)' = Starting(q)
  BY <1>3 DEF Starting
<1>6. \A q \in Room \ {r} : Pending(q)' = Pending(q)
  BY <1>0, <1>1 DEF Pending
<1>7. subscribers' = subscribers
  BY DEF LookupFound
<1>8. \A q \in Room \ {r} : Same(q)
  BY <1>4, <1>5, <1>6, <1>7 DEF Same
<1>9. FeedOf(r)' = FeedOf(r)
  BY <1>1, <1>4, <1>5 DEF FeedOf
<1>10. Feed' = [Feed EXCEPT ![r] = FeedOf(r)']
  BY <1>1, <1>8, OneFeed
<1> QED
  BY <1>9, <1>10 DEF Feed

LEMMA LookupFailsIsFail ==
  ASSUME TypeOK, NEW a \in Call, LookupFails(a)
  PROVE  Feed' = Feed \/ \E r \in Room : Promise!Fail(r)
<1>0. PICK r \in Room : r = call[a].room
  BY LookupEnds
<1>1. a \in Pending(r) /\ \A q \in Room : Pending(q)' = Pending(q) \ {a}
  BY <1>0, LookupEnds
<1>2. /\ watcher' = watcher
      /\ subscribers' = subscribers
  BY DEF LookupFails
<1>3. \A q \in Room : Running(q)' = Running(q) /\ Starting(q)' = Starting(q)
  BY <1>2 DEF Running, Starting
<1>4. \A q \in Room \ {r} : Pending(q)' = Pending(q)
  BY <1>0, <1>1 DEF Pending
<1>5. \A q \in Room \ {r} : Same(q)
  BY <1>2, <1>3, <1>4 DEF Same
<1>6. Feed' = [Feed EXCEPT ![r] = FeedOf(r)']
  BY <1>5, OneFeed
<1>7. CASE FeedOf(r)' = FeedOf(r)
  BY <1>6, <1>7 DEF Feed
<1>8. CASE FeedOf(r)' # FeedOf(r)
  <2>1. /\ FeedOf(r) = "opening"
        /\ FeedOf(r)' = IF subscribers[r] = {} THEN "off" ELSE "failed"
    BY <1>1, <1>2, <1>3, <1>8 DEF FeedOf
  <2> QED
    BY <1>2, <1>6, <2>1 DEF Promise!Fail, Feed
<1> QED
  BY <1>7, <1>8

\* Steps of a watcher leave the handlers alone, and so the pending lookups.
LEMMA WatcherStep ==
  ASSUME TypeOK, NEW w \in Watcher, watcher[w].state # "free", call' = call,
         subscribers' = subscribers,
         \A v \in Watcher \ {w} : watcher'[v] = watcher[v],
         watcher'[w] = NoWatcher \/ watcher'[w].room = watcher[w].room
  PROVE  \E r \in Room : /\ r = watcher[w].room
                         /\ Pending(r)' = Pending(r)
                         /\ \A q \in Room \ {r} : Same(q)
                         /\ Feed' = [Feed EXCEPT ![r] = FeedOf(r)']
<1>1. PICK r \in Room : r = watcher[w].room
  BY DEF TypeOK, NoWatcher
<1>2. \A q \in Room : Pending(q)' = Pending(q)
  BY DEF Pending
<1>3. \A q \in Room \ {r} : Running(q)' = Running(q)
  BY <1>1 DEF Running, NoWatcher
<1>4. \A q \in Room \ {r} : Starting(q)' = Starting(q)
  BY <1>1 DEF Starting, NoWatcher
<1>5. \A q \in Room \ {r} : Same(q)
  BY <1>2, <1>3, <1>4 DEF Same
<1> QED
  BY <1>1, <1>2, <1>5, OneFeed

LEMMA StartFoundOpens ==
  ASSUME TypeOK, NEW w \in Watcher, StartFound(w)
  PROVE  Feed' = Feed \/ \E r \in Room : Promise!Open(r)
<1>0. /\ watcher[w].state = "starting"
      /\ watcher' = [watcher EXCEPT ![w].state = "running"]
      /\ call' = call /\ subscribers' = subscribers
  BY DEF StartFound
<1>1. /\ watcher[w].state = "starting"
      /\ watcher'[w] = [state |-> "running", room |-> watcher[w].room]
      /\ \A v \in Watcher \ {w} : watcher'[v] = watcher[v]
      /\ call' = call /\ subscribers' = subscribers
  <2>1. watcher' = [watcher EXCEPT ![w] = [state |-> "running", room |-> watcher[w].room]]
    BY <1>0, WatcherMoves
  <2> QED
    BY <1>0, <2>1 DEF TypeOK
<1>2. PICK r \in Room : /\ r = watcher[w].room
                        /\ Feed' = [Feed EXCEPT ![r] = FeedOf(r)']
  BY <1>1, WatcherStep
<1>3. w \in Running(r)' /\ w \in Starting(r)
  BY <1>1, <1>2 DEF Running, Starting
<1>4. FeedOf(r)' = "open" /\ FeedOf(r) \in {"open", "opening"}
  BY <1>3 DEF FeedOf
<1> QED
  BY <1>1, <1>2, <1>4 DEF Promise!Open, Feed

LEMMA StartAbsentFails ==
  ASSUME TypeOK, NEW w \in Watcher, StartAbsent(w)
  PROVE  Feed' = Feed \/ \E r \in Room : Promise!Fail(r)
<1>1. /\ watcher[w].state = "starting"
      /\ watcher'[w] = NoWatcher
      /\ \A v \in Watcher \ {w} : watcher'[v] = watcher[v]
      /\ call' = call /\ subscribers' = subscribers
  BY DEF StartAbsent, TypeOK
<1>2. PICK r \in Room : /\ r = watcher[w].room
                        /\ Pending(r)' = Pending(r)
                        /\ Feed' = [Feed EXCEPT ![r] = FeedOf(r)']
  BY <1>1, WatcherStep
<1>3. w \in Starting(r) /\ Running(r)' = Running(r)
  BY <1>1, <1>2 DEF Running, Starting, NoWatcher
<1>4. \/ FeedOf(r)' = FeedOf(r)
      \/ /\ FeedOf(r) = "opening"
         /\ FeedOf(r)' = IF subscribers[r] = {} THEN "off" ELSE "failed"
  BY <1>1, <1>2, <1>3 DEF FeedOf
<1> QED
  BY <1>1, <1>2, <1>4 DEF Promise!Fail, Feed

LEMMA TickStopCloses ==
  ASSUME TypeOK, NEW w \in Watcher, TickStop(w)
  PROVE  Feed' = Feed \/ \E r \in Room : Promise!Close(r)
<1>1. /\ watcher[w].state = "running"
      /\ subscribers[watcher[w].room] = {}
      /\ watcher'[w] \in {NoWatcher, [state |-> "unwatching", room |-> watcher[w].room]}
      /\ \A v \in Watcher \ {w} : watcher'[v] = watcher[v]
      /\ call' = call /\ subscribers' = subscribers
  BY WatcherMoves DEF TickStop, TypeOK
<1>2. PICK r \in Room : /\ r = watcher[w].room
                        /\ Pending(r)' = Pending(r)
                        /\ Feed' = [Feed EXCEPT ![r] = FeedOf(r)']
  BY <1>1, WatcherStep DEF NoWatcher
<1>3. w \in Running(r)
  BY <1>1, <1>2 DEF Running
<1>4. FeedOf(r) = "open" /\ FeedOf(r)' \in {"open", "opening", "off"}
  BY <1>1, <1>2, <1>3 DEF FeedOf
<1>5. Feed[r] = "open"
  BY <1>4 DEF Feed
<1>6. CASE FeedOf(r)' = "open"
  BY <1>2, <1>5, <1>6 DEF Feed
<1>7. CASE FeedOf(r)' \in {"opening", "off"}
  <2>1. \E f \in {"off", "opening"} : Feed' = [Feed EXCEPT ![r] = f]
    BY <1>2, <1>7
  <2> QED
    BY <1>1, <1>2, <1>5, <2>1 DEF Promise!Close, Feed
<1> QED
  BY <1>4, <1>6, <1>7

\* Steps that concern neither subscriptions, nor lookups, nor intervals.
LEMMA OtherStepsStutter ==
  ASSUME TypeOK,
         \/ \E a \in Call : Join(a) \/ Leave(a)
         \/ \E c \in Client : Disconnect(c)
         \/ \E w \in Watcher : \/ TickPoll(w) \/ PollSettles(w)
                               \/ UnwatchDone(w) \/ UnwatchRejects(w)
         \/ UNCHANGED vars
  PROVE  Feed' = Feed /\ subscribers' = subscribers
<1>1. subscribers' = subscribers
  BY DEF Join, Leave, Disconnect, TickPoll, PollSettles, UnwatchDone, UnwatchRejects, vars
<1>2. \A v \in Watcher : \/ watcher'[v] = watcher[v]
                         \/ watcher[v].state = "unwatching" /\ watcher'[v] = NoWatcher
  BY DEF Join, Leave, Disconnect, TickPoll, PollSettles, UnwatchDone, UnwatchRejects, vars, TypeOK
<1>3. \A b \in Call : call'[b] = call[b] \/ (call[b].pc # "lookup" /\ call'[b] = NoCall)
  BY DEF Join, Leave, Disconnect, TickPoll, PollSettles, UnwatchDone, UnwatchRejects, vars, TypeOK
<1>4. \A q \in Room : Running(q)' = Running(q)
  BY <1>2 DEF Running, NoWatcher
<1>5. \A q \in Room : Starting(q)' = Starting(q)
  BY <1>2 DEF Starting, NoWatcher
<1>6. \A q \in Room : Pending(q)' = Pending(q)
  BY <1>3 DEF Pending, NoCall
<1>7. \A q \in Room : Same(q)
  BY <1>1, <1>4, <1>5, <1>6 DEF Same
<1> QED
  BY <1>1, <1>7, AllFeeds

\* Every step of the services is one step of the room feeds, or none.
LEMMA StepSimulation ==
  TypeOK /\ TrackedRoomsAreAlive /\ [Next]_vars => [Promise!Next]_(Promise!vars)
<1> SUFFICES ASSUME TypeOK, TrackedRoomsAreAlive, [Next]_vars
             PROVE  [Promise!Next]_(Promise!vars)
  OBVIOUS
<1>0. ASSUME Feed' = Feed, subscribers' = subscribers
      PROVE  [Promise!Next]_(Promise!vars)
  BY <1>0 DEF Promise!vars, Feed
<1>1. ASSUME NEW a \in Call, NEW c \in Client, NEW r \in Room, Watch(a, c, r) \/ Unwatch(a, c, r)
      PROVE  [Promise!Next]_(Promise!vars)
  <2>1. SubscriberOf(c, r) \in Subscriber
    BY RoomAssumption DEF SubscriberOf, Subscriber
  <2> QED
    BY <1>1, <2>1, WatchSubscribes, UnwatchUnsubscribes DEF Promise!Next
<1>2. ASSUME NEW a \in Call, LookupFound(a) \/ LookupFails(a)
      PROVE  [Promise!Next]_(Promise!vars)
  <2>1. subscribers' = subscribers
    BY <1>2 DEF LookupFound, LookupFails
  <2> QED
    BY <1>0, <1>2, <2>1, LookupFoundStutters, LookupFailsIsFail DEF Promise!Next
<1>3. ASSUME NEW w \in Watcher, StartFound(w) \/ StartAbsent(w) \/ TickStop(w)
      PROVE  [Promise!Next]_(Promise!vars)
  <2>1. subscribers' = subscribers
    BY <1>3 DEF StartFound, StartAbsent, TickStop
  <2> QED
    BY <1>0, <1>3, <2>1, StartFoundOpens, StartAbsentFails, TickStopCloses DEF Promise!Next
<1> QED
  BY <1>0, <1>1, <1>2, <1>3, OtherStepsStutter DEF Next, Start

\* The streaming services keep the promise of RoomFeed for any number of
\* sockets, rooms, handlers and intervals: a feed with subscribers is never
\* closed, and one is missing only after a lookup has failed.
THEOREM Implementation == Spec => ImplementsRoomFeed
<1>1. Init => Promise!Init
  BY DEF Init, Promise!Init, FeedOf, Running, Starting, Pending, NoWatcher, NoCall
<1>2. Init => TrackedRoomsAreAlive
  BY DEF Init, TrackedRoomsAreAlive
<1> QED
  BY <1>1, <1>2, InitTypeOK, NextTypeOK, NextTracked, StepSimulation, PTL
     DEF Spec, ImplementsRoomFeed, Promise!Spec
====
