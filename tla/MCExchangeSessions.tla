---- MODULE MCExchangeSessions ----
(* A public exchange and a private session, of supported exchanges, and an *)
(* exchange that ccxt does not know.                                       *)
EXTENDS ExchangeSessions, TLC

CONSTANTS binance, user, unknown, i1, i2, i3, i4, a1, a2, a3

PublicExchanges == {binance, unknown}
PrivateSessions == {user}
SupportedKeys == {binance, user}
FourInstances == {i1, i2, i3, i4}
ThreeCalls == {a1, a2, a3}
NoKeys == {}

Interchangeable == Permutations(FourInstances) \cup Permutations(ThreeCalls)
====
