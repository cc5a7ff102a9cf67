---- MODULE OhlcvCandles ----
(***************************************************************************)
(* The data of one OHLCV room (WsOhlcvService): the trades it has kept,    *)
(* the candles made of them, and what each client has been sent.  Rooms    *)
(* share nothing, so one is enough.  The model follows the object that     *)
(* watchOhlcv makes from its first subscriber on; when it leaves           *)
(* this.rooms no handler and no new poll finds it, but the polls that are  *)
(* pending still hold it (OhlcvRooms has the lives of rooms).              *)
(*                                                                         *)
(* A trade is its place in market, the trades of the symbol in the order   *)
(* in which the exchange has made them.  Time is in units of which each    *)
(* timeframe is a multiple, and a candle is known by its opening time, as  *)
(* its prices and volume play no role in what is emitted when.             *)
(*                                                                         *)
(* Bounds: MaxTime and MaxTrades end the market, MaxHistory the trades     *)
(* kept, MaxPending the polls under way.  Kept is 100 in the code.         *)
(***************************************************************************)
EXTENDS Naturals, SequencesExt

CONSTANTS
    Client,
    Timeframe,      \* the lengths that parseTimeframe gives
    Kept,           \* candles of the largest timeframe worth keeping
    StartTime, MaxTime, MaxTrades, MaxHistory, MaxPending

ASSUME CandlesAssumption ==
    /\ Timeframe \subseteq Nat \ {0}
    /\ Kept \in Nat \ {0}
    /\ {StartTime, MaxTime, MaxTrades, MaxHistory, MaxPending} \subseteq Nat
    /\ StartTime <= MaxTime
    /\ \A tf \in Timeframe : tf <= StartTime    \* time is counted from 1970

VARIABLES
    now,            \* Date.now()
    market,         \* the times of the trades so far
    identified,     \* do the trades of this exchange have ids?  Never changes.
    sent,           \* watchTrades has answered with the trades up to this one
    live,           \* is the object in this.rooms?
    subscribers,    \* the timeframe of each subscribed client, 0 for others
    trades,         \* the history of the room
    lastEmitted,    \* the last closed candle sent, by client and timeframe
    pending,        \* watchTrades calls under way
    closed,         \* history: the closed candles sent since the client subscribed
    shown           \* history: the last candle sent to it as in progress, or 0

vars == <<now, market, identified, sent, live, subscribers, trades, lastEmitted, pending,
          closed, shown>>

NoCandle == [tf \in Timeframe |-> 0]
Subscribed == {c \in Client : subscribers[c] # 0}

\* The client that makes the room is its first subscriber.
Init ==
    /\ now = StartTime
    /\ market = <<>>
    /\ identified \in BOOLEAN
    /\ sent = 0
    /\ live = TRUE
    /\ \E c \in Client, tf \in Timeframe :
         subscribers = [d \in Client |-> IF d = c THEN tf ELSE 0]
    /\ trades = <<>>
    /\ lastEmitted = [c \in Client |-> NoCandle]
    /\ pending = 0
    /\ closed = [c \in Client |-> [tf \in Timeframe |-> <<>>]]
    /\ shown = [c \in Client |-> NoCandle]

----------------------------------------------------------------------------
(* Time and the exchange. *)

ClockTicks ==
    /\ now < MaxTime
    /\ now' = now + 1
    /\ UNCHANGED <<market, identified, sent, live, subscribers, trades, lastEmitted, pending,
                   closed, shown>>

Trade ==
    /\ Len(market) < MaxTrades
    /\ market' = Append(market, now)
    /\ UNCHANGED <<now, identified, sent, live, subscribers, trades, lastEmitted, pending,
                   closed, shown>>

----------------------------------------------------------------------------
(* The subscriptions. *)

\* watchOhlcv: the timeframe replaces the one the client has, if any; the
\* last candle sent under that one stays noted.
Watch(c, tf) ==
    /\ live
    /\ subscribers' = [subscribers EXCEPT ![c] = tf]
    /\ UNCHANGED <<now, market, identified, sent, live, trades, lastEmitted, pending, closed, shown>>

\* unWatchOhlcv forgets the client, with what was sent to it under every
\* timeframe; and the room, with its last client.
Unwatch(c) ==
    /\ live
    /\ subscribers' = [subscribers EXCEPT ![c] = 0]
    /\ lastEmitted' = [lastEmitted EXCEPT ![c] = NoCandle]
    /\ live' = (\E d \in Client : subscribers'[d] # 0)
    /\ closed' = [closed EXCEPT ![c] = [tf \in Timeframe |-> <<>>]]
    /\ shown' = [shown EXCEPT ![c] = NoCandle]
    /\ UNCHANGED <<now, market, identified, sent, trades, pending>>

\* The interval of an earlier room of this name deletes it (OhlcvRooms!CleanupDone).
Deleted ==
    /\ live
    /\ live' = FALSE
    /\ UNCHANGED <<now, market, identified, sent, subscribers, trades, lastEmitted, pending,
                   closed, shown>>

----------------------------------------------------------------------------
(* The polls. *)

\* The interval finds the room with subscribers and calls watchTrades.
Tick ==
    /\ live
    /\ Subscribed # {}
    /\ pending < MaxPending
    /\ pending' = pending + 1
    /\ UNCHANGED <<now, market, identified, sent, live, subscribers, trades, lastEmitted,
                   closed, shown>>

\* watchTrades throws, and the error is logged.
PollFails ==
    /\ pending > 0
    /\ pending' = pending - 1
    /\ UNCHANGED <<now, market, identified, sent, live, subscribers, trades, lastEmitted,
                   closed, shown>>

\* Is trade i taken for a new one, if the last of the history is this one?
IsNew(i, last) ==
    IF identified THEN i # last ELSE market[i] > market[last]

\* The elements of a set of numbers, from the lowest to the highest.
InOrder(S) ==
    CHOOSE s \in [1..Cardinality(S) -> S] : \A i, j \in DOMAIN s : i < j => s[i] < s[j]

\* appendNewTrades: each trade of the batch is compared with the last one of
\* the history as it was before the batch.
Appended(h, batch) ==
    h \o InOrder({i \in batch : h = <<>> \/ IsNew(i, Last(h))})

\* Faulty pruning: the first recent trade ends the history.
PrunedBehind(h, tf) ==
    LET first == SelectInSeq(h, LAMBDA i : market[i] + tf * Kept >= now)
    IN  SubSeq(h, 1, first)

\* pruneHistory: trades go from the front, up to the first that is recent.
Pruned(h, tf) ==
    LET first == SelectInSeq(h, LAMBDA i : market[i] + tf * Kept >= now)
    IN  IF first = 0 THEN <<>> ELSE SubSeq(h, first, Len(h))

\* ccxt's buildOHLCVC: a trade opens a candle if it is later than the last
\* one, and belongs to the last one if not.
Opening(i, tf) == market[i] - (market[i] % tf)
Candles(h, tf) ==
    {Opening(h[k], tf) : k \in {m \in DOMAIN h :
        \A n \in 1..(m - 1) : Opening(h[n], tf) < Opening(h[m], tf)}}

\* Faulty emission: the candle in progress is taken for closed.
AllClosed(h, c, tf) == {x \in Candles(h, tf) : x > lastEmitted[c][tf]}

\* What a client of a timeframe is sent as closed: all candles but the last
\* that are later than what it has been sent before.
NewlyClosed(h, c, tf) ==
    {x \in Candles(h, tf) \ {Max(Candles(h, tf))} : x > lastEmitted[c][tf]}

\* Faulty note: the candle in progress is noted as sent.
LastNoted(h, c, tf) == Max(Candles(h, tf))

\* Faulty note: nothing is noted.
NothingNoted(h, c, tf) == lastEmitted[c][tf]

\* Faulty note: of the last candle but one, though there may be one only; the
\* time of a candle that is not there is undefined, here -1.
LastButOneNoted(h, c, tf) ==
    LET before == Candles(h, tf) \ {Max(Candles(h, tf))}
    IN  IF before = {} THEN -1 ELSE Max(before)

\* The last closed candle that the client has been sent then.
Noted(h, c, tf) == Max(NewlyClosed(h, c, tf) \cup {lastEmitted[c][tf]})

\* The loop over timeframes and clients: those served are sent their closed
\* candles in the order of time, and then the one in progress.
Emit(h, served) ==
    LET Update(f, New(_, _)) ==
          [c \in Client |-> [tf \in Timeframe |->
              IF c \in served /\ subscribers[c] = tf THEN New(c, tf) ELSE f[c][tf]]]
    IN  /\ lastEmitted' = Update(lastEmitted, LAMBDA c, tf : Noted(h, c, tf))
        /\ closed' = Update(closed, LAMBDA c, tf :
             closed[c][tf] \o InOrder(NewlyClosed(h, c, tf)))
        /\ shown' = Update(shown, LAMBDA c, tf : Max(Candles(h, tf)))

\* A poll answers, with the trades of the market from one place to another.
\* Answers leave out no trade and do not go back behind what has been sent,
\* but may repeat it: polls that wait together are given the same trades.
\* Each timeframe may fail on its own.  If everybody has unsubscribed
\* meanwhile, nothing is pruned or emitted.
Answer ==
    \E from \in 1..(sent + 1), to \in sent..Len(market) :
      LET appended == Appended(trades, from..to)
          tfs == {subscribers[c] : c \in Subscribed}
          kept == IF tfs = {} THEN appended ELSE Pruned(appended, Max(tfs))
      IN  /\ pending > 0
          /\ Len(appended) <= MaxHistory
          /\ pending' = pending - 1
          /\ sent' = to
          /\ trades' = kept
          /\ \E failing \in SUBSET tfs :
               Emit(kept, {c \in Subscribed : subscribers[c] \notin failing /\ kept # <<>>})
          /\ UNCHANGED <<now, market, identified, live, subscribers>>

Next ==
    \/ ClockTicks \/ Trade
    \/ \E c \in Client, tf \in Timeframe : Watch(c, tf)
    \/ \E c \in Client : Unwatch(c)
    \/ Deleted \/ Tick \/ PollFails \/ Answer

Spec == Init /\ [][Next]_vars

----------------------------------------------------------------------------

TypeOK ==
    /\ now \in StartTime..MaxTime
    /\ market \in Seq(StartTime..now)
    /\ identified \in BOOLEAN
    /\ sent \in 0..Len(market)
    /\ live \in BOOLEAN
    /\ subscribers \in [Client -> Timeframe \cup {0}]
    /\ trades \in Seq(1..sent)
    /\ lastEmitted \in [Client -> [Timeframe -> Nat]]
    /\ pending \in 0..MaxPending
    /\ closed \in [Client -> [Timeframe -> Seq(Nat)]]
    /\ shown \in [Client -> [Timeframe -> Nat]]

\* From its subscription on, a client is sent each closed candle of a
\* timeframe once, and in the order of time: though polls overlap and repeat
\* each other, trades are pruned and come again, and the client changes to
\* another timeframe and back.
ClosedOnceInOrder ==
    \A c \in Client, tf \in Timeframe :
      \A i, j \in DOMAIN closed[c][tf] : i < j => closed[c][tf][i] < closed[c][tf][j]

\* A closed candle is final: what a client is sent as in progress is later
\* than all it has been told are closed, also when a batch brings back old
\* trades, or the history starts anew.
ClosedIsFinal ==
    \A c \in Client, tf \in Timeframe :
      shown[c][tf] # 0 => \A x \in Range(closed[c][tf]) : x < shown[c][tf]

\* When a candle that a client has seen in progress gives way to a later one
\* it is sent as closed, if the history still makes such a candle: it may have
\* been pruned, or have come back behind later trades.
CandlesAreClosed ==
    [][\A c \in Client, tf \in Timeframe :
         /\ 0 < shown[c][tf] /\ shown[c][tf] < shown'[c][tf]
         /\ shown[c][tf] \in Candles(trades', tf)
         => shown[c][tf] \in Range(closed'[c][tf])]_vars

\* The candle that a client sees in progress never goes back in time, until the
\* client leaves: though a batch may bring back old trades, and trades that repeat
\* the last of the history are left out of it.
InProgressAdvances ==
    [][\A c \in Client, tf \in Timeframe :
         shown'[c][tf] # 0 => shown[c][tf] <= shown'[c][tf]]_vars

\* "Efficient deduplication: only append trades with new id/timestamp": no
\* trade is in the history twice.
NoTradeTwice ==
    \A i, j \in DOMAIN trades : trades[i] = trades[j] => i = j
====
