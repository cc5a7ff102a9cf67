---- MODULE MCRoomWatcher ----
(* Small instances of RoomWatcher: two sockets, or one, and a public room.  *)
EXTENDS RoomWatcher, TLC

CONSTANTS c1, c2, u1, u2, room, a1, a2, w1, w2, w3

MCClient == {c1, c2}
OneClient == {c1}
MCUser == {u1, u2}
MCUserOf == [c \in Client |-> IF c = c1 THEN u1 ELSE u2]
MCRoom == {room}
MCService == (room :> WsTickerService)
MCAudience == [r \in Room |-> Client]
MCCall == {a1, a2}
OneCall == {a1}
MCWatcher == {w1, w2, w3}
TwoWatchers == {w1, w2}
====
