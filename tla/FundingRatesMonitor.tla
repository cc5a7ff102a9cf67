---- MODULE FundingRatesMonitor ----
(***************************************************************************)
(* FundingRatesMonitorService: a background job that asks all exchanges    *)
(* for their funding rates, a batch at a time, stores what they answer in  *)
(* a cache, and sets a timer for the next cycle when the last batch is     *)
(* done.  REST clients can trigger the same update at any time; an update  *)
(* of theirs runs beside the job's.                                        *)
(*                                                                         *)
(* A rate is abstracted to the version of the exchange's rates at the time *)
(* it served the request; the cache keeps one per exchange (per exchange   *)
(* and symbol in the code: each symbol is written the same way).           *)
(* Bounds: Cycle is the number of updates that run at once, MaxVersion how *)
(* often the rates of an exchange change.                                  *)
(***************************************************************************)
EXTENDS Integers, Sequences

CONSTANTS
    ExchangeIds,    \* EXCHANGE_IDS
    BatchSize,      \* BATCH_SIZE
    Cycle,          \* slots for calls of updateFundingRates
    MaxVersion

Exchange == {ExchangeIds[i] : i \in DOMAIN ExchangeIds}

ASSUME MonitorAssumption ==
    /\ ExchangeIds \in Seq(Exchange) /\ ExchangeIds # <<>>
    /\ BatchSize \in Nat \ {0}
    /\ MaxVersion \in Nat \ {0}

VARIABLES
    phase,      \* "booting", "on" or "stopped", as seen by who starts and stops the job
    timer,      \* this.updateTimeout: "null", "armed", or the handle of one that has "fired"
    cycle,      \* the updates under way: what started them, their batch, who has not settled
    served,     \* the version an exchange has served to an update; 0 before
    rates,      \* the present version of each exchange's rates
    cache,      \* fundingRatesCache; 0 where there is no entry
    overlapped, \* history: the updates that have run beside another one
    settled     \* history: the exchanges that an update has asked and heard of

vars == <<phase, timer, cycle, served, rates, cache, overlapped, settled>>

Least(m, n) == IF m <= n THEN m ELSE n

\* Faulty slicing: the rest is left out.
WholeChunks(array, chunkSize) ==
    [i \in 1..(Len(array) \div chunkSize) |->
        SubSeq(array, (i - 1) * chunkSize + 1, i * chunkSize)]

\* chunkArray: slices of chunkSize elements, the last one with the rest.
Chunks(array, chunkSize) ==
    [i \in 1..((Len(array) + chunkSize - 1) \div chunkSize) |->
        SubSeq(array, (i - 1) * chunkSize + 1, Least(i * chunkSize, Len(array)))]

Batches == Chunks(ExchangeIds, BatchSize)
Batch(i) == {Batches[i][j] : j \in DOMAIN Batches[i]}

OfJob == {"initial", "background"}
NoCycle == [kind |-> "none", batch |-> 0, waiting |-> {}]
Active == {c \in Cycle : cycle[c].kind # "none"}

Init ==
    /\ phase = "booting"
    /\ timer = "null"
    /\ \E c \in Cycle :
         cycle = [d \in Cycle |->
                    IF d = c THEN [kind |-> "initial", batch |-> 1, waiting |-> Batch(1)]
                    ELSE NoCycle]
    /\ served = [c \in Cycle |-> [e \in Exchange |-> 0]]
    /\ rates = [e \in Exchange |-> 1]
    /\ cache = [e \in Exchange |-> 0]
    /\ overlapped = {}
    /\ settled = [c \in Cycle |-> {}]

\* updateFundingRates up to its first await: a request to each exchange of
\* the first batch.
Begin(c, kind) ==
    /\ cycle[c] = NoCycle
    /\ cycle' = [cycle EXCEPT ![c] = [kind |-> kind, batch |-> 1, waiting |-> Batch(1)]]
    /\ overlapped' = IF Active = {} THEN overlapped ELSE overlapped \cup Active \cup {c}

\* Faulty timer: set for the next cycle before this one has ended.
TimerFiresAndRearms ==
    /\ timer = "armed"
    /\ timer' = "armed"
    /\ \E c \in Cycle : Begin(c, "background")
    /\ UNCHANGED <<phase, served, rates, cache, settled>>

TimerFires ==
    /\ timer = "armed"
    /\ timer' = "fired"
    /\ \E c \in Cycle : Begin(c, "background")
    /\ UNCHANGED <<phase, served, rates, cache, settled>>

\* POST /funding-rates-monitor/update, once the server listens.  (It leaves
\* the background job a slot.)
TriggerUpdate(c) ==
    /\ phase # "booting"
    /\ \E d \in Cycle \ {c} : cycle[d] = NoCycle \/ cycle[d].kind = "background"
    /\ Begin(c, "manual")
    /\ UNCHANGED <<phase, timer, served, rates, cache, settled>>

\* An exchange answers a request, with the rates of that moment ...
Serve(c, e) ==
    /\ e \in cycle[c].waiting
    /\ served[c][e] = 0
    /\ served' = [served EXCEPT ![c][e] = rates[e]]
    /\ UNCHANGED <<phase, timer, cycle, rates, cache, overlapped, settled>>

Settle(c, e) ==
    /\ e \in cycle[c].waiting
    /\ cycle' = [cycle EXCEPT ![c].waiting = @ \ {e}]
    /\ served' = [served EXCEPT ![c][e] = 0]
    /\ settled' = [settled EXCEPT ![c] = @ \cup {e}]

\* ... and its answer, when it arrives, is stored.
Answer(c, e) ==
    /\ served[c][e] # 0
    /\ Settle(c, e)
    /\ cache' = [cache EXCEPT ![e] = served[c][e]]
    /\ UNCHANGED <<phase, timer, rates, overlapped>>

\* Faulty error handling: one failed request ends the update (Promise.all).
FailEndsCycle(c, e) ==
    /\ e \in cycle[c].waiting
    /\ cycle' = [cycle EXCEPT ![c] = NoCycle]
    /\ served' = [served EXCEPT ![c] = [x \in Exchange |-> 0]]
    /\ overlapped' = overlapped \ {c}
    /\ settled' = [settled EXCEPT ![c] = {}]
    /\ UNCHANGED <<phase, timer, rates, cache>>

\* Faulty error handling: the result of a failed request, undefined (here
\* -1), replaces the cached rates.
FailOverwrites(c, e) ==
    /\ Settle(c, e)
    /\ cache' = [cache EXCEPT ![e] = -1]
    /\ UNCHANGED <<phase, timer, rates, overlapped>>

\* Or the request fails or times out; the error is logged.
Fail(c, e) ==
    /\ Settle(c, e)
    /\ UNCHANGED <<phase, timer, rates, cache, overlapped>>

\* All requests of a batch have settled and another batch follows.
NextBatch(c) ==
    /\ cycle[c] # NoCycle
    /\ cycle[c].waiting = {}
    /\ cycle[c].batch + 1 \in DOMAIN Batches
    /\ cycle' = [cycle EXCEPT ![c] = [kind |-> @.kind, batch |-> @.batch + 1,
                                      waiting |-> Batch(@.batch + 1)]]
    /\ UNCHANGED <<phase, timer, served, rates, cache, overlapped, settled>>

\* Faulty end: the last batch is not awaited, and its answers may come
\* when the next cycle runs already.
EndCycleUnawaited(c) ==
    /\ cycle[c].kind # "none"
    /\ cycle[c].batch + 1 \notin DOMAIN Batches
    /\ cycle' = [cycle EXCEPT ![c] = [kind |-> "none", batch |-> 0, waiting |-> @.waiting]]
    /\ timer' = IF cycle[c].kind \in OfJob THEN "armed" ELSE timer
    /\ phase' = IF cycle[c].kind = "initial" THEN "on" ELSE phase
    /\ overlapped' = overlapped \ {c}
    /\ settled' = [settled EXCEPT ![c] = {}]
    /\ UNCHANGED <<served, rates, cache>>

\* The last batch has settled.  The initial and the background updates set
\* the timer of the next; after the initial one the server starts to listen.
EndCycle(c) ==
    /\ cycle[c] # NoCycle
    /\ cycle[c].waiting = {}
    /\ cycle[c].batch + 1 \notin DOMAIN Batches
    /\ cycle' = [cycle EXCEPT ![c] = NoCycle]
    /\ timer' = IF cycle[c].kind \in OfJob THEN "armed" ELSE timer
    /\ phase' = IF cycle[c].kind = "initial" THEN "on" ELSE phase
    /\ overlapped' = overlapped \ {c}
    /\ settled' = [settled EXCEPT ![c] = {}]
    /\ UNCHANGED <<served, rates, cache>>

\* stopMonitoring, from onModuleDestroy; clearing a fired timer does nothing.
StopMonitoring ==
    /\ phase = "on"
    /\ phase' = "stopped"
    /\ timer' = "null"
    /\ UNCHANGED <<cycle, served, rates, cache, overlapped, settled>>

\* The rates of an exchange change.
RatesChange(e) ==
    /\ rates[e] < MaxVersion
    /\ rates' = [rates EXCEPT ![e] = @ + 1]
    /\ UNCHANGED <<phase, timer, cycle, served, cache, overlapped, settled>>

Next ==
    \/ TimerFires \/ StopMonitoring
    \/ \E c \in Cycle :
         \/ TriggerUpdate(c) \/ NextBatch(c) \/ EndCycle(c)
         \/ \E e \in Exchange : Serve(c, e) \/ Answer(c, e) \/ Fail(c, e)
    \/ \E e \in Exchange : RatesChange(e)

\* The event loop runs due timers and continuations.  A request ends by an
\* answer or an error, at the latest by ccxt's time-out.
Fairness ==
    /\ WF_vars(TimerFires)
    /\ \A c \in Cycle :
         /\ WF_vars(NextBatch(c))
         /\ WF_vars(EndCycle(c))
         /\ \A e \in Exchange : WF_vars(Answer(c, e) \/ Fail(c, e))

Spec == Init /\ [][Next]_vars
FairSpec == Spec /\ Fairness

----------------------------------------------------------------------------

TypeOK ==
    /\ phase \in {"booting", "on", "stopped"}
    /\ timer \in {"null", "armed", "fired"}
    /\ cycle \in [Cycle -> [kind : {"none", "initial", "background", "manual"},
                            batch : Nat, waiting : SUBSET Exchange]]
    /\ served \in [Cycle -> [Exchange -> 0..MaxVersion]]
    /\ rates \in [Exchange -> 1..MaxVersion]
    /\ cache \in [Exchange -> 0..MaxVersion]
    /\ overlapped \subseteq Active
    /\ settled \in [Cycle -> SUBSET Exchange]

\* The background job is never lost and never doubled: at any time either
\* its timer is armed or a single update of it runs, whatever requests fail
\* and however manual updates overlap.  After a stop it may still run.
OneBackgroundJob ==
    /\ \A c, d \in Cycle : cycle[c].kind \in OfJob /\ cycle[d].kind \in OfJob => c = d
    /\ timer = "armed" => \A c \in Cycle : cycle[c].kind \notin OfJob
    /\ phase # "stopped" => timer = "armed" \/ \E c \in Cycle : cycle[c].kind \in OfJob

\* A rate in the cache is replaced by an older one only by a late answer to
\* an update that has run beside another: as long as updates do not overlap,
\* answers of one exchange are stored in the order in which it served them.
RatesGoBackOnlyByOverlap ==
    [][\A e \in Exchange : cache'[e] < cache[e] =>
         \E c \in overlapped : served[c][e] = cache'[e] /\ e \notin cycle'[c].waiting]_vars

\* An update ends when each exchange of the list has answered or failed, also
\* those of a short last batch, and whatever happens to the others.
UpdatesReachEveryExchange ==
    [][\A c \in Cycle : cycle[c] # NoCycle /\ cycle'[c] = NoCycle
          => settled[c] = Exchange]_vars

\* Exchanges that fail do not stop the monitoring: every exchange is asked
\* again and again by the background job.
EveryExchangeIsMonitored ==
    \A e \in Exchange :
      []<>(phase = "stopped" \/
           \E c \in Cycle : cycle[c].kind \in OfJob /\ e \in cycle[c].waiting)

\* "Stop the background monitoring job": after stopMonitoring no further
\* cycle is scheduled.
StoppedMeansStopped ==
    phase = "stopped" => timer # "armed"
====
