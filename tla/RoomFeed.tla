---- MODULE RoomFeed ----
(***************************************************************************)
(* What a streaming service promises about its rooms: a room is fed while  *)
(* somebody is subscribed to it.  A subscription opens the feed of a room  *)
(* that has none; opening may fail, and then the room stays unfed until    *)
(* the next subscription; an open feed closes only when the room has no    *)
(* subscriber left.  Some services keep less of it: they may forget the    *)
(* subscribers of a room (Forget).                                 *)
(***************************************************************************)
CONSTANTS
    Room,
    Subscriber

VARIABLES
    subscribers,   \* who is subscribed to each room
    feed           \* the state of the feed of each room

vars == <<subscribers, feed>>

FeedState == {"off", "opening", "open", "failed"}

Init ==
    /\ subscribers = [r \in Room |-> {}]
    /\ feed = [r \in Room |-> "off"]

Subscribe(r, s) ==
    /\ subscribers' = [subscribers EXCEPT ![r] = @ \cup {s}]
    /\ feed' = [feed EXCEPT ![r] = IF @ = "open" THEN "open" ELSE "opening"]

\* The feed survives its last subscriber for a while; a failure does not.
Unsubscribe(r, s) ==
    /\ subscribers' = [subscribers EXCEPT ![r] = @ \ {s}]
    /\ feed' = [feed EXCEPT ![r] =
                  IF @ = "failed" /\ subscribers[r] \ {s} = {} THEN "off" ELSE @]

Open(r) ==
    /\ feed[r] = "opening"
    /\ feed' = [feed EXCEPT ![r] = "open"]
    /\ UNCHANGED subscribers

Fail(r) ==
    /\ feed[r] = "opening"
    /\ feed' = [feed EXCEPT ![r] = IF subscribers[r] = {} THEN "off" ELSE "failed"]
    /\ UNCHANGED subscribers

\* While a feed closes, a new one for the same room may be opening already.
Close(r) ==
    /\ feed[r] = "open"
    /\ subscribers[r] = {}
    /\ \E f \in {"off", "opening"} : feed' = [feed EXCEPT ![r] = f]
    /\ UNCHANGED subscribers

Next ==
    \E r \in Room :
        \/ \E s \in Subscriber : Subscribe(r, s) \/ Unsubscribe(r, s)
        \/ Open(r) \/ Fail(r) \/ Close(r)

Spec == Init /\ [][Next]_vars

\* Not part of the promise: the subscribers of a room are lost together.
Forget(r) ==
    /\ subscribers' = [subscribers EXCEPT ![r] = {}]
    /\ feed' = [feed EXCEPT ![r] = IF @ = "failed" THEN "off" ELSE @]
====
