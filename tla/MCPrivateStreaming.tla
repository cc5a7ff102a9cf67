---- MODULE MCPrivateStreaming ----
(* A socket of a user with sessions at two exchanges, and a room of each.  *)
EXTENDS PrivateStreaming, StreamingServices, TLC

CONSTANTS c1, u1, room1, room2, key1, key2, h1, w1, w2, i1, i2, i3, a1

MCClient == {c1}
MCUser == {u1}
MCUserOf == (c1 :> u1)
MCRoom == {room1, room2}
MCService == [r \in Room |-> WsPrivateOrdersService]
MCAudience == [r \in Room |-> Client]
MCHandler == {h1}
MCWatcher == {w1, w2}
NoKey == {}
MCKey == {key1, key2}
MCSessionOf == (room1 :> key1) @@ (room2 :> key2)
MCInstance == {i1, i2, i3}
MCCall == {a1}

SwapAccounts == (room1 :> room2) @@ (room2 :> room1) @@ (key1 :> key2) @@ (key2 :> key1)
Interchangeable == Permutations(MCInstance) \cup Permutations(MCWatcher) \cup {SwapAccounts}
====
