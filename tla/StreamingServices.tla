---- MODULE StreamingServices ----
(***************************************************************************)
(* The nine streaming services behind the two gateways, except the OHLCV   *)
(* one, are copies of a single scheme (module RoomWatcher).  A profile     *)
(* says in what a service differs from the others.  Of its watch* and      *)
(* unWatch* methods:                                                       *)
(*   subscriber  which id they keep in subscribers: of the socket or user  *)
(*   lookup      what the await of watch* for the exchange can do          *)
(* and of its start*Watcher:                                               *)
(*   relookup    what a second await for the exchange can do               *)
(*   unwatch     whether the interval, on its way out, awaits an un-watch  *)
(*               call of the exchange, where the exchange has one          *)
(***************************************************************************)

\* Public services get or create the shared exchange: it is found, or the
\* creation throws; `if (!exchange)` never holds, and the second look finds
\* what the first one has just stored.
PublicWatch == [subscriber |-> "client", lookup |-> {"found", "throws"}]
PublicStart(unwatch) == [relookup |-> {"found"}, unwatch |-> unwatch]

\* Private services only look up what createConnection has stored.
PrivateWatch == [subscriber |-> "user", lookup |-> {"found", "absent"}]
PrivateStart(unwatch) == [relookup |-> {"found", "absent"}, unwatch |-> unwatch]

Profile(watch, start) ==
    [subscriber |-> watch.subscriber, lookup |-> watch.lookup,
     relookup |-> start.relookup, unwatch |-> start.unwatch]

WatchTicker == PublicWatch
StartTickerWatcher == PublicStart(TRUE)
WsTickerService == Profile(WatchTicker, StartTickerWatcher)

WatchOrderbook == PublicWatch
StartOrderbookWatcher == PublicStart(TRUE)
WsOrderbookService == Profile(WatchOrderbook, StartOrderbookWatcher)

WatchPrivateTicker == PrivateWatch
StartPrivateTickerWatcher == PrivateStart(TRUE)
WsPrivateTickerService == Profile(WatchPrivateTicker, StartPrivateTickerWatcher)

WatchPrivateOrderbook == PrivateWatch
StartPrivateOrderbookWatcher == PrivateStart(TRUE)
WsPrivateOrderbookService == Profile(WatchPrivateOrderbook, StartPrivateOrderbookWatcher)

WatchOrders == PrivateWatch
StartOrdersWatcher == PrivateStart(FALSE)
WsPrivateOrdersService == Profile(WatchOrders, StartOrdersWatcher)

WatchMyTrades == PrivateWatch
StartMyTradesWatcher == PrivateStart(FALSE)
WsPrivateTradesService == Profile(WatchMyTrades, StartMyTradesWatcher)

WatchPositions == PrivateWatch
StartPositionsWatcher == PrivateStart(FALSE)
WsPrivatePositionsService == Profile(WatchPositions, StartPositionsWatcher)

WatchBalance == PrivateWatch
StartBalanceWatcher == PrivateStart(FALSE)
WsPrivateBalanceService == Profile(WatchBalance, StartBalanceWatcher)

StreamingService ==
    {WsTickerService, WsOrderbookService, WsPrivateTickerService, WsPrivateOrderbookService,
     WsPrivateOrdersService, WsPrivateTradesService, WsPrivatePositionsService,
     WsPrivateBalanceService}
====
