# Verification of equilibrium-gateway

equilibrium-gateway is a NestJS server in front of cryptocurrency exchanges. It
serves REST requests for market and account data, streams updates over two
socket.io namespaces, and keeps a cache of funding rates, all through ccxt. It
runs as one Node process and persists nothing. There is one thread, and so
all concurrency is of one kind: code runs without interruption up to its next
`await`, and anything else may run before it resumes.

All paths below are relative to `src/src/`.

## Inventory

| Component | State | Operations | What has to hold |
|---|---|---|---|
| **Session store** `session-store/` | `store`, one timer per entry | set, get (restarts the timer), delete, expiry | timers and entries match; only idle entries expire, and they do |
| **Exchange sessions** `exchange/exchange-instance.service.ts`, `private-exchange.service.ts`, `public-exchange.service.ts` | two session stores of ccxt instances | get-or-create of public instances; createConnection, removeConnection and lookups of private ones | a stored instance is ready for use; temporary instances are closed; no session stays whose test has failed, or whose removal has ended |
| **Room services** `streaming/ws-*.service.ts` but OHLCV | `subscribers`, `watcherTasks`, one interval per start | watch, unwatch, start, tick, stop | a subscribed room is fed, an abandoned one is not, `watcherTasks` tells the truth |
| **Gateways** `streaming/ws-*.gateway.ts` | socket.io rooms | watch and unwatch messages, events to rooms | sockets in a room are subscribed to it |
| **OHLCV service** `streaming/ws-ohlcv.service.ts` | per room: trades, subscribers with timeframe, last candle emitted | watch, unwatch, tick: cleanup, or fetch, merge, prune, group and emit | as for rooms; no trade counted twice; closed candles emitted once, in order, and final |
| **Funding-rates monitor** `exchange/funding-rates-monitor.service.ts` | cache by symbol and exchange, the timer of the next cycle | start, cycle in batches, reschedule, stop, manual trigger, reads | one background cycle at a time; failures keep old rates; every exchange is served again and again |
| **Exception filter** `global-exception.filter.ts` | none | catch | the status follows the kind of the error |
| **Auth** `auth/`, `firebase/` | none (token verification is external) | guards | a request reaches a handler only with a verified user |
| **REST controllers, DTOs, models, ccxt wrapper** | none | validation and forwarding | pass-through |

Interactions: the room services and the monitor look up exchange instances in
the session stores; start*Watcher calls poll an instance and emit events
through an EventEmitter2, to which both gateways listen; the gateways put sockets
into socket.io rooms whose names the services return. Controllers call the
exchange services, which throw the exceptions the filter maps to a status.

What is hard here, and hardly reachable by a test: a handler reads a map, awaits
the exchange, and writes a map that others have changed meanwhile; `setInterval`
callbacks overlap with handlers and with themselves; an interval ends only when it
looks; deletions go by key, not by identity; a timer is cleared that has fired
already. `PROJECT.json` lists each hazard at its line.

## How the project is built

Each part has a module with its state and one action per handler or callback. Where
a part promises something to others, the promise is a module of its own, and the part
is shown to implement it; where two parts meet, a module composes them.

    ExpiringMap <- SessionStore            a session store is an expiring map
    RoomFeed    <- RoomWatcher, OhlcvRooms a room is fed while it has subscribers
    PrivateStreaming = RoomWatcher + ExchangeSessions
    OhlcvCandles                           the data within one OHLCV room
    FundingRatesMonitor                    a part on its own

`ExchangeSessions` takes the session stores as the expiring maps that `SessionStore`
is shown to be; `PrivateStreaming` takes the rooms and the sessions as they are, and
answers the question each of them leaves open: what the lookups of private rooms find.

## Modules and the code

An action is the code between two awaits. An await of a session store, whose methods
have nothing to wait for, is a special case: it gives way for a few microtasks, in
which no timer, message or answer of an exchange comes in, but continuations that are
queued already may run. `ExchangeSessions` takes such a call as part of the step that
makes it. `RoomWatcher` and `PrivateStreaming` do not: the awaits of both lookups are
points where anything may happen, which is more than those microtasks allow, and a
session that goes away between them (`StartAbsent`) is a case the code provides for.
There the model reads the store when the await ends, the code when it begins.

| Module | Models |
|---|---|
| `ExpiringMap` | what a session store promises: entries go by removal, or after `Ttl` units without a use, never sooner |
| `SessionStore` | `InMemorySessionStore`: `store` and the timers armed in the event loop; `Set`, `GetHit`, `Delete`, `Expire` (the callback), `Tick` (time; timers may run late). `idle` and `lapsed` are history |
| `StreamingServices` | the eight services as records, put together from what their watch\* methods and their start\*Watcher do: whom they count, what their lookups can do, whether they un-watch on the way out |
| `RoomFeed` | what a streaming service promises: a feed opens on subscription, may fail to open, and closes only without subscribers. `Forget`, the loss of the subscribers of a room, is not part of it |
| `RoomWatcher` | `subscribers` and `watcherTasks` as in the code; `watcher`: each start\*Watcher call and then its interval; `polls`: its pending watch calls to the exchange; `call`: handlers between their awaits; `joined` and `connected`: socket.io; `hasty` is history. `Watch`/`LookupFound`/`LookupFails`/`Join` are the handler of watch\*, `Unwatch`/`Leave` that of unWatch\*, `Start` (`StartFound` or `StartAbsent`) the second lookup, `TickPoll`/`PollSettles`/`TickStop`/`UnwatchDone`/`UnwatchRejects` the callback of the interval |
| `ExchangeSessions` | `store`: both session stores; `markets`, `tested`, `closed`: what has happened to an instance; `call`: requests between their awaits. `GetOrCreatePublic`, `ConnectNew`/`ConnectAgain`, `Validated`, `Loaded`, `TestPasses`/`TestFails`, `Remove`/`RemoveSettles`, `UsePublic`, `UsePrivate`/`UseSettles` (every other operation), `Expire` |
| `PrivateStreaming` | the two above together, and `captured`: the instance in the closure of each interval. `LookupFound`/`LookupFails`/`StartFound`/`StartAbsent` look the session of the room up; `RoomStep` and `SessionStep` are the steps that concern one side only |
| `OhlcvRooms` | `WsOhlcvService` and its handlers: `this.rooms` is `subscribers` (a room exists while it has one), `watcherTasks`, intervals, sockets by client and timeframe; `TickStop`, and `CleanupDone`, which deletes the room after the un-watch |
| `OhlcvCandles` | one room of it from within: `trades`, `lastEmitted`, polls under way; `Answer` is `appendNewTrades`, `pruneHistory`, ccxt's `buildOHLCVC` (external) and the emission loop, in one step as in the code; `Watch`, `Unwatch` and `Deleted` change it from outside. `closed` and `shown`, what clients have been sent, are history |
| `FundingRatesMonitor` | `timer`: `updateTimeout`; `cycle`: the calls of `updateFundingRates` under way, their batch and who has not settled; `served`: answers on their way; `cache`: `fundingRatesCache`, with the version of the rates for the rates; `Chunks` is `chunkArray`; `overlapped` and `settled`, the exchanges an update has done with, are history |
| `*Proofs` | theorems and proofs about the module of that name |
| `MC*` | constants for TLC, nothing else |

Definitions called *faulty* in a comment are not part of the models. They are the
bugs against which each property has been tried: with the definition they vary
replaced, TLC finds the property violated.

Some choices need a word:

* `RoomWatcher` allows any two actions to interleave, also where Node would run a
  continuation before the next timer: more behaviours than the program has, so what
  holds in the model holds in the program. The counterexample of `stored_intervals`
  (watch, unwatch, watch) does not depend on it.
* Public services find in `start*Watcher` what their own lookup has stored just
  before, so only private ones can miss the exchange there (`relookup`). Their first
  lookup is a choice between success and an exception; only private lookups are
  composed with the sessions they read.
* `if (!exchange)` is dead code in the public services: the lookup finds or throws.
* A session in `ExchangeSessions` may expire at any time, not only after its time to
  live; and a temporary instance of `validateCredentials` is made, inspected and told
  to close within one step, so that it needs no state. An instance that nothing
  refers to may stand for a new one: there is no bound on how many are ever made. In
  `PrivateStreaming` the closures of intervals refer to instances as well
  (`NewAreFresh`).
* Private services count users, the sockets of one user as one subscriber.
  `JoinedAreSubscribed` therefore speaks of sockets that share their user with no
  other and have always waited for the end of a call (`Orderly`): a client that
  unsubscribes while its subscription is under way can be left in the room.
* The cleanup of the OHLCV service deletes the room by name after an await, and with
  it whoever has subscribed meanwhile and been told "started". That is what the code
  does where the exchange has `unWatchTrades`. `ImplementsRoomFeed` of `OhlcvRooms`
  is therefore not `RoomFeed!Spec` but allows `RoomFeed!Forget` as well, for those
  rooms only: it says that the service loses subscriptions in this way and no other,
  and otherwise keeps the promise. `TrackedRoomsAreAlive` does not see the loss.
* `TrackedRoomsAreAlive` is about marks, not about answers: a client that has been
  told "started" may still be without a feed when the second lookup misses
  (`StartAbsent`), or a cleanup deletes the room. What it excludes is that the room
  stays marked then, since no later watch would start an interval.
* `removeConnection` deletes its key in any case, also where it has found no session;
  and it closes what it has found before it deletes. In between, others find the
  closed instance, a `createConnection` may test it and report success, and the
  deletion may hit a session made meanwhile. `ClosedSessionsLeave` speaks of none of
  that, but of what remains: no removal ends with its own session still stored.
* In `OhlcvCandles` an answer repeats no trade out of order and skips none, but may
  begin anywhere in what has been sent before. A trade that comes again, or comes
  back after it was pruned, lands in the candle that ccxt's grouping has open, so
  that a candle may be missing from the history: `CandlesAreClosed` speaks of those
  the history makes. A room that is made again is another object and starts over.
* Timeframes have a positive length (`CandlesAssumption`); the pattern of the request
  lets `0m` through, for which candles are not defined.
* In `FundingRatesMonitor` each exchange has one rate instead of one per symbol; the
  symbols of an answer are all written in one step.

## Runs

| Run | Instance | Shows |
|---|---|---|
| `session_store` | 2 keys, 2 values, 3 timers, `Ttl` 2 | entries and timers match; the timer measures idleness; the store is an `ExpiringMap`; unused entries go |
| `public_rooms` | 2 sockets, 1 public room, 2 handlers, 2 intervals, 1 poll each | tracked rooms have a watcher and are polled; the service is a `RoomFeed`; abandoned intervals stop; who sits in a room is subscribed to it |
| `private_streaming` | 1 socket, 2 rooms of 2 accounts, 2 intervals, 1 handler and 1 request, 3 instances | intervals start on live sessions, poll ready instances, and never those of the other account, while sessions come and go; a room whose session vanishes between the two lookups is not left marked |
| `stored_intervals` | 1 socket, 1 handler, 3 intervals | **violated**: "Store the interval ID for cleanup": after watch, unwatch and watch the room has two intervals |
| `exchange_sessions` | 1 public and 1 private key, an unknown exchange, 3 requests, 4 instances | what is found in a store is ready; no session stays there whose test has failed; no removal ends with its session still there |
| `shared_instances` | the same, without expiry | **violated**: "public (shared) exchange instance" |
| `failed_connections` | the same, without expiry | **violated**: "If balance fetch fails, remove the exchange instance" |
| `funding_job` | 3 exchanges in batches of 2, 2 updates at once, 2 versions of the rates | the job is neither lost nor doubled, and serves every exchange again and again; no update ends before each exchange has answered it or failed; a cached rate goes back only where updates have overlapped |
| `funding_stop` | 3 exchanges in batches of 2 | **violated**: "Stop the background monitoring job" |
| `ohlcv_rooms` | 2 sockets, 1 room of an exchange with or without un-watch, 2 handlers, 2 intervals | as for `public_rooms`, but for the subscribers whom a cleanup forgets; tracked rooms have an interval, and it polls unless the room is deleted first |
| `ohlcv_candles` | 2 clients, timeframes of 1 and 2 units, 3 trades, 2 units of time, 1 pending poll | closed candles are sent once and in order, never again as in progress, and none is left out; the candle in progress never goes back |
| `ohlcv_duplicates` | 1 client, 2 pending polls | **violated**: "only append trades with new id/timestamp" |

The violated properties are bugs or gaps of the code: a room with two intervals emits
every update twice until its last subscriber leaves; concurrent first requests for an
exchange get an instance, and so a rate limiter, each; a failed connection can take a
good one with it; a stop during an update does not stop the job (it is reached when
something closes the application, through `onModuleDestroy`; `main.ts` itself does not);
two polls that wait together are answered with the same trades, and all but the last of
them are counted twice. The documentation of the monitor also says that all exchanges
are updated in parallel and every minute (`FUNDING_RATES_MONITOR.md`); the code works in
batches of 6, every 6 seconds.

**Bounds.** Two sockets are enough for every race about a room: the code treats
subscribers only as present or absent and rooms independently of each other. Three slots
for intervals allow the old, the new and a stopping one at once; with two in
`public_rooms` and `ohlcv_rooms` the old and the new. One socket with one handler in
`stored_intervals` leaves out that two first watches at once start an interval each, so
that the counterexample is the sequence of calls above. `Watch` waits for a free slot,
one per lookup under way, so that a lookup is never stuck. One pending poll tells
whether a room is polled at all. `private_streaming` has one socket, since the races of
sockets are those of `public_rooms`, and two accounts, which it must not mix up; three
instances are one more than sessions, so that an interval can hold one that its session
has lost; its theorems hold for any number of each. Three requests to `ExchangeSessions`
allow two connections and a removal to overlap, each with an instance of its own and one
stored. Two updates at once are the job and a manual one; a manual update leaves the job
a slot, as in the code, where there are always enough. Two batches, the last of them
short, are the boundary case of `chunkArray`. `Ttl` 2 tells a fresh, an idle and a due
timer apart. `ohlcv_rooms` needs one timeframe, as the life of a room does not depend on
it; `ohlcv_candles` has two, one twice the other, and a history of one candle of the
larger, so that pruning happens. In both of its runs a poll may repeat whatever earlier
ones have brought.

**Symmetry** is used by `exchange_sessions` and `shared_instances` (instances and
requests) and by `private_streaming` (instances, intervals, and the two accounts with
their rooms), which check no liveness.

**Deadlock** is checked where the system always goes on (`session_store`,
`funding_job` and the runs of `ExchangeSessions`). In `RoomWatcher` the process may have ended by
an unhandled rejection, or all sockets may have gone, as in `OhlcvRooms`; the market
of `OhlcvCandles` ends at its bounds; in `funding_stop` the job may have been stopped.

**Fairness.** Only liveness properties use it. Timers and intervals that are due do
fire, and handlers go on after an await: the event loop sees to both. A request to an
exchange ends, since ccxt times out. The exchange's own updates (`PollSettles`), the
clients, and manual updates are not fair: none is obliged to happen.

## Proofs

TLAPS proves, for every value of the constants that meets the named assumptions
(`TtlAssumption`, `SentinelAssumption`, `RoomAssumption`, `BoundAssumption`,
`KeyAssumption`, `StreamingAssumption`, `OhlcvAssumption`, `CandlesAssumption`,
`MonitorAssumption`), the type invariant of each module with state, every safety
invariant and action property of the passing runs, and every refinement:

| Theorem | Argument |
|---|---|
| `SessionStoreProofs!TimersMatch`, `TimersMeasure` | types, timers and idleness are inductive together: that a timer measures idleness makes sense only while it is the entry's own |
| `SessionStoreProofs!Implementation` | `Expire` maps to `Lapse` because the timer at 0 means `idle = Ttl`; the rest is step by step |
| `RoomWatcherProofs!Tracked` | inductive with the types. A mark is set only beside a watcher that starts, and whenever a watcher ends it takes the mark along; it may thereby take the mark of another watcher, so the converse does not hold, nor is the interval of a room the only one (`OneIntervalPerRoom`) |
| `RoomWatcherProofs!Joined` | inductive together with two facts about sockets that wait: they have one handler in flight, and are subscribed while a watch\* of theirs is under way. Without the second a `Join` could come too late |
| `RoomWatcherProofs!Implementation` | a step concerns one room, and changes its feed as `RoomFeed` says; `Tracked` is needed where `Watch` finds the room taken care of and opens nothing |
| `OhlcvRoomsProofs!Tracked`, `Implementation` | as for `RoomWatcher`; `CleanupDone` is `Forget`, and that an interval waits for an un-watch only where the exchange has one (`CleanupsWaitForUnwatch`) is why it concerns no other room |
| `ExchangeSessionsProofs!Ready`, `Tested`, `Leave` | one inductive invariant: besides the three properties it says that an instance still loading is known to its request alone, and that no instance is under two keys. Without the first, a request could store what another has closed; without the second, a removal could end for one key and leave the closed instance under another. That a removal is of the very instance that is stored is why none can end with it still there |
| `PrivateStreamingProofs!RoomsAreRoomWatcher`, `SessionsAreExchangeSessions` | each step of the composition is one of either component and leaves the other alone. So the types and all that is proved of `RoomWatcher` holds of private rooms, whatever becomes of their sessions |
| `PrivateStreamingProofs!StreamReady`, `StreamStarts` | from the invariant of the sessions: what a start finds is ready, and tested or under test. It stays ready, because only an instance that nobody has is made anew |
| `PrivateStreamingProofs!StreamSeparate` | whoever refers to an instance, in a store, a request or an interval, does so for one key (`OneKey`): a reference that is not new is a copy of an older one for the same key |
| `PrivateStreamingProofs!StreamFeeds` | the argument of `RoomWatcherProofs!Implementation` on the names of the composition, whose steps are those of `RoomWatcher` (`StepOfRooms`) |
| `OhlcvCandlesProofs!ClosedCandlesComeOnce`, `ClosedCandlesAreFinal` | the closed candles ascend up to `lastEmitted`, which is older than the candle last shown in progress, and that is no newer than the candle of the last trade of the history. An answer closes candles between the two only. It needs that the history, if there is one, has a trade of the time of the latest the exchange has sent, whatever is repeated or pruned (`HistoryIsCurrent`) |
| `OhlcvCandlesProofs!InProgressGivesWay`, `InProgressNeverGoesBack` | the same invariant: the emission loop sends what lies between the last candle closed and the candle of the latest trade, and shows the latter |
| `FundingRatesMonitorProofs!BatchesCover`, `UpdatesReachAll` | `BatchesCover`: the exchange at place `i` is in batch `i \div Size`, and that batch exists. While an update is in batch `b`, every exchange of an earlier batch has settled, and of batch `b` those that are not awaited; so when no batch is left, all have |
| `FundingRatesMonitorProofs!JobIsOne` | inductive with the types; the lemmas on `Chunks` show that a first batch exists and that batches hold exchanges only |
| `FundingRatesMonitorProofs!RatesStepBack` | an update that has overlapped with no other is alone, and what it has been served is not older than the cache (`Alone`, `Fresh`) |

`OhlcvCandlesProofs` begins with lemmas about finite sets of numbers and their ascending
enumeration (`InOrder`, `Max`, `Min`), on which `Appended`, `Pruned` and the candles of
an answer rest. The library's induction theorems take a predicate as a parameter, which
the provers cannot instantiate; instead `LowestExists`, that a nonempty set of numbers
has a lowest element, is derived from the library's fact that `<` is well-founded, and
each induction is an appeal to the lowest counterexample.

The proof of the types of `OhlcvCandles` asks for `StartTime <= MaxTime`, a condition on
the bounds of the model: its time does not begin after it ends.

Only model-checked: everything under fairness (`UnusedSessionsExpire`,
`AbandonedIntervalsStop`, `TrackedRoomsArePolled`, `EveryExchangeIsMonitored`), which
the proof system does not reach.

## Not modelled

* The exception filter (`global-exception.filter.ts`): a chain of `instanceof` tests
  without state, of which a model would be the same table again.
* Verification of tokens (Firebase); who a socket belongs to is the constant `UserOf`.
* Controllers, DTOs and models, which validate and forward requests and keep nothing;
  and the ccxt wrapper and factory: what ccxt does is a choice in the modules that
  call it.
* The reads of the cache of funding rates and its statistics, which change nothing,
  and `getOrCreatePrivateExchange`, which has no caller.
* The content of market data (prices, volumes, order books) and log messages.
* What ccxt does with subscriptions within a shared instance, which
  `unWatchTickers` and its like end for all rooms of the exchange.
