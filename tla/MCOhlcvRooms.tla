---- MODULE MCOhlcvRooms ----
(* Two sockets and a room, of an exchange with or without unWatchTrades. *)
EXTENDS OhlcvRooms

CONSTANTS c1, c2, tf1, room, a1, a2, w1, w2

MCClient == {c1, c2}
OneTimeframe == {tf1}
MCRoom == {room}
MCCall == {a1, a2}
MCWatcher == {w1, w2}
====
