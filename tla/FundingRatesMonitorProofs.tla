---- MODULE FundingRatesMonitorProofs ----
(***************************************************************************)
(* Proofs about FundingRatesMonitor, for any list of exchanges, any size   *)
(* of a batch and any number of updates at once.                           *)
(***************************************************************************)
EXTENDS FundingRatesMonitor, TLAPS

\* What the invariant needs to know of the types.
CycleType ==
    cycle \in [Cycle -> [kind : {"none", "initial", "background", "manual"},
                         batch : Nat, waiting : SUBSET Exchange]]

\* chunkArray takes the elements of a batch from the array.
LEMMA BatchInExchange ==
  ASSUME NEW i \in DOMAIN Batches
  PROVE  Batch(i) \subseteq Exchange
<1> DEFINE first == (i - 1) * BatchSize + 1
           last == Least(i * BatchSize, Len(ExchangeIds))
<1> USE MonitorAssumption
<1>1. Len(ExchangeIds) \in Nat /\ DOMAIN ExchangeIds = 1..Len(ExchangeIds)
  OBVIOUS
<1>2. i \in Int /\ i >= 1 /\ Batches[i] = SubSeq(ExchangeIds, first, last)
  <2> DEFINE count == (Len(ExchangeIds) + BatchSize - 1) \div BatchSize
  <2>1. i \in 1..count /\ Batches[i] = SubSeq(ExchangeIds, first, last)
    BY DEF Batches, Chunks
  <2>2. count \in Int
    BY <1>1
  <2> HIDE DEF count
  <2> QED
    BY <2>1, <2>2
<1>3. first \in Int /\ first >= 1 /\ last \in Int /\ last <= Len(ExchangeIds)
  <2>1. (i - 1) * BatchSize >= 0
    BY <1>2
  <2> QED
    BY <1>1, <1>2, <2>1 DEF Least
<1> HIDE DEF first, last
<1>4. \A j \in DOMAIN Batches[i] : Batches[i][j] = ExchangeIds[first + j - 1]
                                    /\ first + j - 1 \in 1..Len(ExchangeIds)
  BY <1>1, <1>2, <1>3
<1> QED
  BY <1>1, <1>4 DEF Batch, Exchange

\* There is a first batch, since there is an exchange.
LEMMA FirstBatch == 1 \in DOMAIN Batches
<1> USE MonitorAssumption
<1> DEFINE n == Len(ExchangeIds)
           count == (n + BatchSize - 1) \div BatchSize
<1>1. n \in Nat /\ n >= 1
  OBVIOUS
<1> HIDE DEF n
<1>2. n + BatchSize - 1 >= BatchSize
  BY <1>1
<1>3. count \in Int /\ count >= 1
  BY <1>1, <1>2
<1>4. DOMAIN Batches = 1..count
  BY DEF Batches, Chunks, n
<1> HIDE DEF count
<1> QED
  BY <1>3, <1>4

\* Division with a rest.
LEMMA Division ==
  \A a \in Nat, b \in Nat \ {0} :
     a \div b \in Int /\ a % b \in 0..(b - 1) /\ a = b * (a \div b) + (a % b)
  OBVIOUS

\* chunkArray leaves nobody out: the exchange at place k of the list is in the
\* batch number i at place j, with (i - 1) * BATCH_SIZE + j = k, also if the last
\* batch is short.
LEMMA PlaceInBatch ==
  ASSUME NEW k \in DOMAIN ExchangeIds
  PROVE  \E i \in DOMAIN Batches : ExchangeIds[k] \in Batch(i)
<1> USE MonitorAssumption
<1> DEFINE n == Len(ExchangeIds)
           count == (n + BatchSize - 1) \div BatchSize
           rest == (n + BatchSize - 1) % BatchSize
           q == (k - 1) \div BatchSize
           r == (k - 1) % BatchSize
<1>1. n \in Nat /\ k \in 1..n /\ BatchSize \in Nat \ {0}
  OBVIOUS
<1>2. DOMAIN Batches = 1..count
  BY DEF Batches, Chunks
<1>3. \A i \in 1..count :
        Batches[i] = SubSeq(ExchangeIds, (i - 1) * BatchSize + 1, Least(i * BatchSize, n))
  BY DEF Batches, Chunks
<1> HIDE DEF n
<1>4. /\ q \in Int /\ r \in 0..(BatchSize - 1) /\ k - 1 = BatchSize * q + r
      /\ count \in Int /\ rest \in 0..(BatchSize - 1)
      /\ n + BatchSize - 1 = BatchSize * count + rest
  <2>1. k - 1 \in Nat /\ n + BatchSize - 1 \in Nat
    BY <1>1
  <2>2. q \in Int /\ r \in 0..(BatchSize - 1) /\ k - 1 = BatchSize * q + r
    BY <1>1, <2>1, Division
  <2>3. /\ count \in Int /\ rest \in 0..(BatchSize - 1)
        /\ n + BatchSize - 1 = BatchSize * count + rest
    BY <1>1, <2>1, Division
  <2> QED
    BY <2>2, <2>3
<1> HIDE DEF count, rest, q, r
<1>5. q + 1 <= count
  <2>1. SUFFICES ASSUME q - count \in Nat PROVE FALSE
    BY <1>4
  <2>2. BatchSize * (q - count) >= 0
    BY <1>1, <2>1
  <2>3. BatchSize * (q - count) = BatchSize * q - BatchSize * count
    BY <1>1, <1>4
  <2> QED
    BY <1>1, <1>4, <2>2, <2>3
<1>6. q >= 0
  <2>1. SUFFICES ASSUME -q - 1 \in Nat PROVE FALSE
    BY <1>4
  <2>2. BatchSize * (-q - 1) >= 0
    BY <1>1, <2>1
  <2>3. BatchSize * (-q - 1) = -(BatchSize * q) - BatchSize
    BY <1>1, <1>4
  <2> QED
    BY <1>1, <1>4, <2>2, <2>3
<1> DEFINE first == q * BatchSize + 1
           last == Least((q + 1) * BatchSize, n)
<1>7. q + 1 \in 1..count /\ Batches[q + 1] = SubSeq(ExchangeIds, first, last)
  <2>1. q + 1 \in 1..count /\ (q + 1) - 1 = q
    BY <1>4, <1>5, <1>6
  <2> QED
    BY <1>3, <2>1
<1>8. /\ first \in Int /\ first >= 1 /\ last \in Int /\ last <= n
      /\ k \in first..last /\ r + 1 = k - first + 1
  <2>1. /\ q * BatchSize = BatchSize * q
        /\ (q + 1) * BatchSize = BatchSize * q + BatchSize
        /\ BatchSize * q \in Nat
    BY <1>1, <1>4, <1>6
  <2> QED
    BY <1>1, <1>4, <2>1 DEF Least
<1> HIDE DEF first, last
<1>9. /\ k - first + 1 \in DOMAIN SubSeq(ExchangeIds, first, last)
      /\ SubSeq(ExchangeIds, first, last)[k - first + 1] = ExchangeIds[k]
  BY <1>1, <1>8 DEF n
<1> QED
  BY <1>2, <1>7, <1>9 DEF Batch

\* Every exchange of the list is asked by some batch of an update, whatever the
\* length of the list and the size of a batch; and no batch asks anybody else.
THEOREM BatchesCover == Exchange = UNION {Batch(i) : i \in DOMAIN Batches}
<1>1. \A e \in Exchange : \E k \in DOMAIN ExchangeIds : ExchangeIds[k] = e
  BY DEF Exchange
<1> QED
  BY <1>1, PlaceInBatch, BatchInExchange

\* A cycle slot that changes keeps its type.
LEMMA NextCycleType == CycleType /\ [Next]_vars => CycleType'
<1> SUFFICES ASSUME CycleType, [Next]_vars
             PROVE  CycleType'
  OBVIOUS
<1>1. ASSUME NEW c \in Cycle, NEW k \in {"background", "manual"}, Begin(c, k)
      PROVE  CycleType'
  <2>1. Batch(1) \subseteq Exchange
    BY FirstBatch, BatchInExchange
  <2> QED
    BY <1>1, <2>1 DEF Begin, CycleType
<1>2. ASSUME NEW c \in Cycle, NEW e \in Exchange, Settle(c, e)
      PROVE  CycleType'
  <2>1. [cycle[c] EXCEPT !.waiting = @ \ {e}] =
          [kind |-> cycle[c].kind, batch |-> cycle[c].batch, waiting |-> cycle[c].waiting \ {e}]
    BY DEF CycleType
  <2>2. cycle' = [cycle EXCEPT ![c] = [cycle[c] EXCEPT !.waiting = @ \ {e}]]
    BY <1>2 DEF Settle
  <2> QED
    BY <2>1, <2>2 DEF CycleType
<1>3. ASSUME NEW c \in Cycle, NextBatch(c)
      PROVE  CycleType'
  <2>1. Batch(cycle[c].batch + 1) \subseteq Exchange
    BY <1>3, BatchInExchange DEF NextBatch
  <2> QED
    BY <1>3, <2>1 DEF NextBatch, CycleType
<1>4. ASSUME NEW c \in Cycle, EndCycle(c)
      PROVE  CycleType'
  BY <1>4 DEF EndCycle, CycleType, NoCycle
<1>5. ASSUME UNCHANGED cycle
      PROVE  CycleType'
  BY <1>5 DEF CycleType
<1> QED
  BY <1>1, <1>2, <1>3, <1>4, <1>5
     DEF Next, TimerFires, TriggerUpdate, Answer, Fail, Serve, StopMonitoring, RatesChange,
         vars

----------------------------------------------------------------------------

\* OneBackgroundJob is inductive once the slots and the timer are typed.
IInv ==
    /\ CycleType
    /\ phase \in {"booting", "on", "stopped"}
    /\ timer \in {"null", "armed", "fired"}
    /\ OneBackgroundJob

\* At the start the first update runs, and no timer is set.
LEMMA InitIInv == Init => IInv
<1> SUFFICES ASSUME Init
             PROVE  IInv
  OBVIOUS
<1>1. Batch(1) \subseteq Exchange
  BY FirstBatch, BatchInExchange
<1>2. PICK c \in Cycle :
         cycle = [d \in Cycle |->
                    IF d = c THEN [kind |-> "initial", batch |-> 1, waiting |-> Batch(1)]
                    ELSE NoCycle]
  BY DEF Init
<1>3. CycleType
  BY <1>1, <1>2 DEF CycleType, NoCycle
<1>4. OneBackgroundJob
  BY <1>2 DEF OneBackgroundJob, OfJob, NoCycle, Init
<1> QED
  BY <1>3, <1>4 DEF IInv, Init

\* A step that leaves the job's part of every slot alone cannot disturb it.
LEMMA JobUntouched ==
  ASSUME OneBackgroundJob,
         UNCHANGED timer,
         phase' = phase,
         \A d \in Cycle : cycle'[d].kind \in OfJob <=> cycle[d].kind \in OfJob
  PROVE  OneBackgroundJob'
  BY DEF OneBackgroundJob

\* Every step keeps the invariant.
LEMMA NextIInv == IInv /\ [Next]_vars => IInv'
<1> SUFFICES ASSUME IInv, [Next]_vars
             PROVE  IInv'
  OBVIOUS
<1> USE DEF IInv
<1>1. CycleType'
  BY NextCycleType
<1>2. /\ phase' \in {"booting", "on", "stopped"}
      /\ timer' \in {"null", "armed", "fired"}
  BY DEF Next, vars, TimerFires, TriggerUpdate, NextBatch, EndCycle, Serve, Answer, Fail,
         StopMonitoring, RatesChange
<1>3. ASSUME TimerFires
      PROVE  OneBackgroundJob'
  <2>1. PICK c \in Cycle : Begin(c, "background")
    BY <1>3 DEF TimerFires
  <2>2. /\ cycle'[c].kind = "background"
        /\ \A d \in Cycle \ {c} : cycle'[d] = cycle[d]
    BY <2>1 DEF Begin, CycleType
  <2>3. \A d \in Cycle : cycle[d].kind \notin OfJob
    BY <1>3 DEF TimerFires, OneBackgroundJob
  <2> QED
    BY <1>3, <2>2, <2>3 DEF TimerFires, OneBackgroundJob, OfJob
<1>4. ASSUME NEW c \in Cycle, TriggerUpdate(c)
      PROVE  OneBackgroundJob'
  <2>1. /\ cycle[c].kind = "none" /\ cycle'[c].kind = "manual"
        /\ \A d \in Cycle \ {c} : cycle'[d] = cycle[d]
    BY <1>4 DEF TriggerUpdate, Begin, CycleType, NoCycle
  <2>2. \A d \in Cycle : cycle'[d].kind \in OfJob <=> cycle[d].kind \in OfJob
    BY <2>1 DEF OfJob
  <2> QED
    BY <1>4, <2>2, JobUntouched DEF TriggerUpdate
<1>5. ASSUME NEW c \in Cycle, NEW e \in Exchange, Settle(c, e), UNCHANGED <<phase, timer>>
      PROVE  OneBackgroundJob'
  <2>1. \A d \in Cycle : cycle'[d].kind = cycle[d].kind
    BY <1>5 DEF Settle, CycleType
  <2> QED
    BY <1>5, <2>1, JobUntouched
<1>6. ASSUME NEW c \in Cycle, NextBatch(c)
      PROVE  OneBackgroundJob'
  <2>1. \A d \in Cycle : cycle'[d].kind = cycle[d].kind
    BY <1>6 DEF NextBatch, CycleType
  <2> QED
    BY <1>6, <2>1, JobUntouched DEF NextBatch
<1>7. ASSUME NEW c \in Cycle, EndCycle(c)
      PROVE  OneBackgroundJob'
  <2>1. /\ cycle'[c].kind = "none"
        /\ \A d \in Cycle \ {c} : cycle'[d] = cycle[d]
    BY <1>7 DEF EndCycle, CycleType, NoCycle
  <2>2. CASE cycle[c].kind \in OfJob
    <3>1. \A d \in Cycle : cycle'[d].kind \notin OfJob
      BY <2>1, <2>2 DEF OneBackgroundJob, OfJob
    <3>2. timer' = "armed"
      BY <1>7, <2>2 DEF EndCycle, OfJob
    <3> QED
      BY <3>1, <3>2 DEF OneBackgroundJob
  <2>3. CASE cycle[c].kind \notin OfJob
    <3>1. \A d \in Cycle : cycle'[d].kind \in OfJob <=> cycle[d].kind \in OfJob
      BY <2>1, <2>3 DEF OfJob
    <3>2. timer' = timer /\ phase' = phase
      BY <1>7, <2>3 DEF EndCycle, CycleType, OfJob, NoCycle
    <3> QED
      BY <3>1, <3>2, JobUntouched
  <2> QED
    BY <2>2, <2>3
<1>8. ASSUME StopMonitoring
      PROVE  OneBackgroundJob'
  BY <1>8 DEF StopMonitoring, OneBackgroundJob
<1>9. ASSUME UNCHANGED <<phase, timer, cycle>>
      PROVE  OneBackgroundJob'
  BY <1>9 DEF OneBackgroundJob
<1>10. OneBackgroundJob'
  BY <1>3, <1>4, <1>5, <1>6, <1>7, <1>8, <1>9
     DEF Next, vars, Serve, Answer, Fail, RatesChange
<1> QED
  BY <1>1, <1>2, <1>10

\* However many manual updates run beside the background job and whichever
\* requests fail, the job is neither doubled nor lost.
THEOREM JobIsOne == Spec => []OneBackgroundJob
<1>1. IInv => OneBackgroundJob
  BY DEF IInv
<1> QED
  BY InitIInv, NextIInv, <1>1, PTL DEF Spec

----------------------------------------------------------------------------

\* What a rate in flight or in the cache is, and who may answer: the versions
\* never exceed the present one, only awaited exchanges have served, and an
\* update that has not overlapped is alone and holds nothing older than the
\* cache.
RateType ==
    /\ CycleType
    /\ served \in [Cycle -> [Exchange -> 0..MaxVersion]]
    /\ rates \in [Exchange -> 1..MaxVersion]
    /\ cache \in [Exchange -> 0..MaxVersion]
    /\ overlapped \subseteq Active
    /\ \A c \in Cycle : cycle[c].kind = "none" => cycle[c] = NoCycle

Awaited ==
    \A c \in Cycle, e \in Exchange : served[c][e] # 0 => e \in cycle[c].waiting

NotYetOlder ==
    \A e \in Exchange : /\ cache[e] <= rates[e]
                        /\ \A c \in Cycle : served[c][e] <= rates[e]

Alone ==
    \A c \in Active \ overlapped : Active = {c}

Fresh ==
    \A c \in Active \ overlapped, e \in Exchange :
      served[c][e] # 0 => served[c][e] >= cache[e]

RInv == RateType /\ Awaited /\ NotYetOlder /\ Alone /\ Fresh

\* At the start one update runs, and nothing has been served.
LEMMA InitRInv == Init => RInv
<1> SUFFICES ASSUME Init
             PROVE  RInv
  OBVIOUS
<1> USE MonitorAssumption
<1>1. CycleType
  BY InitIInv DEF IInv
<1>2. PICK c \in Cycle :
         cycle = [d \in Cycle |->
                    IF d = c THEN [kind |-> "initial", batch |-> 1, waiting |-> Batch(1)]
                    ELSE NoCycle]
  BY DEF Init
<1>3. Active = {c}
  BY <1>2 DEF Active, NoCycle
<1>4. RateType
  BY <1>1, <1>2 DEF Init, RateType, NoCycle
<1> QED
  BY <1>3, <1>4 DEF Init, RInv, Awaited, NotYetOlder, Alone, Fresh

\* An update begins: either alone, or both it and those beside it overlap.
LEMMA BeginRInv ==
  ASSUME RInv, NEW c \in Cycle, NEW k \in {"background", "manual"}, Begin(c, k), CycleType',
         UNCHANGED <<served, rates, cache>>
  PROVE  RInv'
<1> USE DEF RInv
<1>1. /\ cycle[c] = NoCycle
      /\ cycle'[c] = [kind |-> k, batch |-> 1, waiting |-> Batch(1)]
      /\ \A d \in Cycle \ {c} : cycle'[d] = cycle[d]
  BY DEF Begin, RateType, CycleType
<1>2. Active' = Active \cup {c} /\ c \notin Active
  BY <1>1 DEF Active, NoCycle
<1>3. RateType'
  BY <1>1, <1>2 DEF RateType, Begin
<1>4. \A e \in Exchange : served[c][e] = 0
  BY <1>1 DEF Awaited, NoCycle
<1>5. Awaited'
  BY <1>1, <1>4 DEF Awaited
<1>6. NotYetOlder'
  BY DEF NotYetOlder
<1>7. CASE Active = {}
  BY <1>2, <1>3, <1>4, <1>5, <1>6, <1>7 DEF Alone, Fresh
<1>8. CASE Active # {}
  BY <1>2, <1>3, <1>5, <1>6, <1>8 DEF Begin, Alone, Fresh
<1> QED
  BY <1>7, <1>8

\* A step that ends the wait of an update for an exchange, and what it does
\* to the cache: nothing, or it stores the answer.
LEMMA SettleRInv ==
  ASSUME RInv, NEW c \in Cycle, NEW e \in Exchange, Settle(c, e), CycleType',
         UNCHANGED <<rates, overlapped>>,
         \/ UNCHANGED cache
         \/ served[c][e] # 0 /\ cache' = [cache EXCEPT ![e] = served[c][e]]
  PROVE  RInv'
<1> USE DEF RInv
<1>1. /\ \A d \in Cycle : cycle'[d].kind = cycle[d].kind
      /\ \A d \in Cycle \ {c} : cycle'[d] = cycle[d]
      /\ cycle'[c].waiting = cycle[c].waiting \ {e}
      /\ e \in cycle[c].waiting
  BY DEF Settle, RateType, CycleType
<1>2. Active' = Active /\ c \in Active
  BY <1>1 DEF Active, RateType, NoCycle
<1>3. \A d \in Cycle, x \in Exchange :
        served'[d][x] = IF d = c /\ x = e THEN 0 ELSE served[d][x]
  BY DEF Settle, RateType
<1>4. served' \in [Cycle -> [Exchange -> 0..MaxVersion]]
  BY MonitorAssumption DEF Settle, RateType
<1>5. RateType'
  <2>1. \A d \in Cycle : cycle'[d].kind = "none" => cycle'[d] = NoCycle
    BY <1>1, <1>2 DEF RateType, Active
  <2>2. cache' \in [Exchange -> 0..MaxVersion]
    BY DEF RateType
  <2> QED
    BY <1>2, <1>4, <2>1, <2>2 DEF RateType
<1>6. Awaited'
  BY <1>1, <1>3 DEF Awaited
<1>7. NotYetOlder'
  <2>1. \A d \in Cycle, x \in Exchange : served'[d][x] <= rates'[x]
    BY <1>3 DEF NotYetOlder, RateType
  <2>2. \A x \in Exchange : cache'[x] <= rates'[x]
    BY DEF NotYetOlder, RateType
  <2> QED
    BY <2>1, <2>2 DEF NotYetOlder
<1>8. Alone'
  BY <1>2 DEF Alone
<1>9. Fresh'
  <2> SUFFICES ASSUME NEW d \in Active \ overlapped, NEW x \in Exchange, served'[d][x] # 0
               PROVE  served'[d][x] >= cache'[x]
    BY <1>2 DEF Fresh
  <2>1. d = c
    BY <1>2 DEF Alone
  <2>2. x # e /\ served'[d][x] = served[d][x]
    BY <1>3, <2>1 DEF Active
  <2>3. cache'[x] = cache[x]
    BY <2>2 DEF RateType
  <2> QED
    BY <2>2, <2>3 DEF Fresh
<1> QED
  BY <1>5, <1>6, <1>7, <1>8, <1>9

\* Every step keeps the invariant.
LEMMA NextRInv == RInv /\ [Next]_vars => RInv'
<1> SUFFICES ASSUME RInv, [Next]_vars
             PROVE  RInv'
  OBVIOUS
<1>1. CycleType'
  BY NextCycleType DEF RInv, RateType
<1>2. ASSUME TimerFires
      PROVE  RInv'
  BY <1>1, <1>2, BeginRInv DEF TimerFires
<1>3. ASSUME NEW c \in Cycle, TriggerUpdate(c)
      PROVE  RInv'
  BY <1>1, <1>3, BeginRInv DEF TriggerUpdate
<1>4. ASSUME NEW c \in Cycle, NEW e \in Exchange, Serve(c, e)
      PROVE  RInv'
  <2> USE DEF RInv
  <2>1. \A d \in Cycle, x \in Exchange :
          served'[d][x] = IF d = c /\ x = e THEN rates[e] ELSE served[d][x]
    BY <1>4 DEF Serve, RateType
  <2>2. Active' = Active
    BY <1>4 DEF Serve, Active
  <2>3. served' \in [Cycle -> [Exchange -> 0..MaxVersion]]
    BY <1>4, MonitorAssumption DEF Serve, RateType
  <2>4. RateType'
    BY <1>1, <1>4, <2>2, <2>3 DEF Serve, RateType
  <2>5. Awaited' /\ NotYetOlder' /\ Alone'
    BY <1>4, <2>1, <2>2 DEF Serve, Awaited, NotYetOlder, Alone, RateType
  <2>6. Fresh'
    BY <1>4, <2>1, <2>2 DEF Serve, Fresh, NotYetOlder, RateType, Active
  <2> QED
    BY <2>4, <2>5, <2>6
<1>5. ASSUME NEW c \in Cycle, NEW e \in Exchange, Answer(c, e)
      PROVE  RInv'
  BY <1>1, <1>5, SettleRInv DEF Answer
<1>6. ASSUME NEW c \in Cycle, NEW e \in Exchange, Fail(c, e)
      PROVE  RInv'
  BY <1>1, <1>6, SettleRInv DEF Fail
<1>7. ASSUME NEW c \in Cycle, NextBatch(c)
      PROVE  RInv'
  <2> USE DEF RInv
  <2>1. /\ cycle[c].kind # "none" /\ cycle[c].waiting = {}
        /\ \A d \in Cycle : cycle'[d].kind = cycle[d].kind
        /\ \A d \in Cycle \ {c} : cycle'[d] = cycle[d]
    BY <1>7 DEF NextBatch, RateType, CycleType
  <2>2. Active' = Active
    BY <2>1 DEF Active
  <2>3. RateType'
    BY <1>1, <1>7, <2>1, <2>2 DEF NextBatch, RateType
  <2>4. Awaited'
    BY <1>7, <2>1 DEF NextBatch, Awaited
  <2> QED
    BY <1>7, <2>2, <2>3, <2>4 DEF NextBatch, NotYetOlder, Alone, Fresh
<1>8. ASSUME NEW c \in Cycle, EndCycle(c)
      PROVE  RInv'
  <2> USE DEF RInv
  <2>1. /\ cycle'[c] = NoCycle /\ cycle[c].waiting = {}
        /\ \A d \in Cycle \ {c} : cycle'[d] = cycle[d]
        /\ overlapped' = overlapped \ {c}
        /\ UNCHANGED <<served, rates, cache>>
    BY <1>8 DEF EndCycle, RateType, CycleType
  <2>2. Active' = Active \ {c}
    BY <2>1 DEF Active, NoCycle
  <2>3. RateType'
    BY <1>1, <2>1, <2>2 DEF RateType, NoCycle
  <2>4. Awaited'
    BY <2>1 DEF Awaited, NoCycle
  <2>5. Alone' /\ Fresh'
    BY <2>1, <2>2 DEF Alone, Fresh
  <2> QED
    BY <2>1, <2>3, <2>4, <2>5 DEF NotYetOlder
<1>9. ASSUME NEW e \in Exchange, RatesChange(e)
      PROVE  RInv'
  <2> USE DEF RInv
  <2>1. Active' = Active
    BY <1>9 DEF RatesChange, Active
  <2>2. RateType'
    BY <1>1, <1>9, <2>1, MonitorAssumption DEF RatesChange, RateType
  <2>3. \A x \in Exchange : rates'[x] >= rates[x]
    BY <1>9, MonitorAssumption DEF RatesChange, RateType
  <2>4. NotYetOlder'
    <3>1. \A x \in Exchange : cache[x] <= rates'[x]
      BY <2>2, <2>3 DEF NotYetOlder, RateType
    <3>2. \A d \in Cycle, x \in Exchange : served[d][x] <= rates'[x]
      BY <2>2, <2>3 DEF NotYetOlder, RateType
    <3> QED
      BY <1>9, <3>1, <3>2 DEF NotYetOlder, RatesChange
  <2> QED
    BY <1>9, <2>1, <2>2, <2>4 DEF RatesChange, Awaited, Alone, Fresh
<1>10. ASSUME UNCHANGED <<cycle, served, rates, cache, overlapped>>
       PROVE  RInv'
  BY <1>10 DEF RInv, RateType, CycleType, Awaited, NotYetOlder, Alone, Fresh, Active
<1> QED
  BY <1>2, <1>3, <1>4, <1>5, <1>6, <1>7, <1>8, <1>9, <1>10
     DEF Next, vars, StopMonitoring

\* The invariant leaves older rates to answers of overlapped updates.
LEMMA StepBack ==
  RInv /\ [Next]_vars =>
    [\A e \in Exchange : cache'[e] < cache[e] =>
       \E c \in overlapped : served[c][e] = cache'[e] /\ e \notin cycle'[c].waiting]_vars
<1> SUFFICES ASSUME RInv, [Next]_vars, NEW e \in Exchange, cache'[e] < cache[e]
             PROVE  \E c \in overlapped : served[c][e] = cache'[e] /\ e \notin cycle'[c].waiting
  OBVIOUS
<1> USE DEF RInv
<1>1. PICK c \in Cycle, x \in Exchange : Answer(c, x)
  BY DEF Next, vars, TimerFires, TriggerUpdate, Begin, NextBatch, EndCycle, Serve, Fail,
         StopMonitoring, RatesChange, RateType
<1>2. x = e /\ cache'[e] = served[c][e]
  BY <1>1 DEF Answer, RateType
<1>3. c \in Active /\ e \notin cycle'[c].waiting
  <2>1. e \in cycle[c].waiting
    BY <1>1, <1>2 DEF Answer, Settle
  <2> QED
    BY <1>1, <1>2, <2>1 DEF Answer, Settle, RateType, CycleType, NoCycle, Active
<1>4. c \in overlapped
  BY <1>1, <1>2, <1>3 DEF Answer, Fresh, RateType
<1> QED
  BY <1>2, <1>3, <1>4

\* A rate goes back only by the late answer of an update that has run beside
\* another, for any number of updates.
THEOREM RatesStepBack == Spec => RatesGoBackOnlyByOverlap
<1>1. RInv /\ [Next]_vars => RInv'
  BY NextRInv
<1> QED
  BY InitRInv, <1>1, StepBack, PTL DEF Spec, RatesGoBackOnlyByOverlap

----------------------------------------------------------------------------

\* The batches are numbered from 1.
LEMMA BatchNumbers == \E count \in Int : DOMAIN Batches = 1..count
<1> USE MonitorAssumption
<1>1. Len(ExchangeIds) \in Nat
  OBVIOUS
<1>2. (Len(ExchangeIds) + BatchSize - 1) \div BatchSize \in Int
  BY <1>1
<1>3. DOMAIN Batches = 1..((Len(ExchangeIds) + BatchSize - 1) \div BatchSize)
  BY DEF Batches, Chunks
<1> QED
  BY <1>2, <1>3

\* An update has heard of all batches before its present one, and of those of
\* the present one that it does not wait for.
Reached(c) ==
    cycle[c].kind # "none" =>
      /\ cycle[c].batch \in DOMAIN Batches
      /\ \A i \in DOMAIN Batches : i < cycle[c].batch => Batch(i) \subseteq settled[c]
      /\ Batch(cycle[c].batch) \subseteq settled[c] \cup cycle[c].waiting

CInv ==
    /\ RateType
    /\ settled \in [Cycle -> SUBSET Exchange]
    /\ \A c \in Cycle : Reached(c)

\* At the start the first update is in its first batch.
LEMMA InitCInv == Init => CInv
<1> SUFFICES ASSUME Init
             PROVE  CInv
  OBVIOUS
<1>1. RateType
  BY InitRInv DEF RInv
<1>2. PICK count \in Int : DOMAIN Batches = 1..count
  BY BatchNumbers
<1>3. \A c \in Cycle : cycle[c].kind # "none" => cycle[c].batch = 1 /\ cycle[c].waiting = Batch(1)
  BY DEF Init, NoCycle
<1>4. \A c \in Cycle : Reached(c)
  BY <1>2, <1>3, FirstBatch DEF Reached
<1> QED
  BY <1>1, <1>4 DEF Init, CInv

\* An update begins with its first batch.
LEMMA BeginReached ==
  ASSUME CInv, NEW c \in Cycle, NEW k \in {"background", "manual"}, Begin(c, k),
         UNCHANGED settled
  PROVE  \A d \in Cycle : Reached(d)'
<1>1. /\ cycle'[c] = [kind |-> k, batch |-> 1, waiting |-> Batch(1)]
      /\ \A d \in Cycle \ {c} : cycle'[d] = cycle[d]
  BY DEF Begin, CInv, RateType, CycleType
<1>2. PICK count \in Int : DOMAIN Batches = 1..count
  BY BatchNumbers
<1>3. Reached(c)'
  <2>1. \A i \in DOMAIN Batches : ~ (i < 1)
    BY <1>2
  <2> QED
    BY <1>1, <2>1, FirstBatch DEF Reached
<1>4. \A d \in Cycle \ {c} : Reached(d)'
  BY <1>1 DEF Reached, CInv
<1> QED
  BY <1>3, <1>4

\* Every step keeps what has been heard of.
LEMMA NextCInv == CInv /\ RInv' /\ [Next]_vars => CInv'
<1> SUFFICES ASSUME CInv, RInv', [Next]_vars
             PROVE  CInv'
  OBVIOUS
<1>1. RateType'
  BY DEF RInv
<1>2. settled' \in [Cycle -> SUBSET Exchange]
  BY DEF CInv, Next, vars, TimerFires, TriggerUpdate, NextBatch, EndCycle, Serve, Answer,
         Fail, Settle, StopMonitoring, RatesChange
<1>3. ASSUME TimerFires
      PROVE  \A d \in Cycle : Reached(d)'
  BY <1>3, BeginReached DEF TimerFires
<1>4. ASSUME NEW c \in Cycle, TriggerUpdate(c)
      PROVE  \A d \in Cycle : Reached(d)'
  BY <1>4, BeginReached DEF TriggerUpdate
<1>5. ASSUME NEW c \in Cycle, NEW e \in Exchange, Settle(c, e)
      PROVE  \A d \in Cycle : Reached(d)'
  <2>1. /\ \A d \in Cycle \ {c} : cycle'[d] = cycle[d] /\ settled'[d] = settled[d]
        /\ cycle'[c].kind = cycle[c].kind /\ cycle'[c].batch = cycle[c].batch
        /\ cycle'[c].waiting = cycle[c].waiting \ {e}
        /\ settled'[c] = settled[c] \cup {e}
    BY <1>5 DEF Settle, CInv, RateType, CycleType
  <2>2. Reached(c)'
    BY <2>1 DEF Reached, CInv
  <2>3. \A d \in Cycle \ {c} : Reached(d)'
    BY <2>1 DEF Reached, CInv
  <2> QED
    BY <2>2, <2>3
<1>6. ASSUME NEW c \in Cycle, NextBatch(c)
      PROVE  \A d \in Cycle : Reached(d)'
  <2>1. /\ \A d \in Cycle \ {c} : cycle'[d] = cycle[d]
        /\ UNCHANGED settled
        /\ cycle[c].kind # "none" /\ cycle[c].waiting = {}
        /\ cycle[c].batch + 1 \in DOMAIN Batches
        /\ cycle'[c].batch = cycle[c].batch + 1
        /\ cycle'[c].waiting = Batch(cycle[c].batch + 1)
    BY <1>6 DEF NextBatch, CInv, RateType, CycleType
  <2>2. PICK count \in Int : DOMAIN Batches = 1..count
    BY BatchNumbers
  <2>3. ASSUME NEW i \in DOMAIN Batches, i < cycle[c].batch + 1
        PROVE  Batch(i) \subseteq settled[c]
    <3>1. cycle[c].batch \in Int /\ i \in Int
      BY <2>2 DEF CInv, RateType, CycleType
    <3>2. i < cycle[c].batch \/ i = cycle[c].batch
      BY <2>3, <3>1
    <3> QED
      BY <2>1, <3>2 DEF CInv, Reached
  <2>4. Reached(c)'
    BY <2>1, <2>3 DEF Reached
  <2>5. \A d \in Cycle \ {c} : Reached(d)'
    BY <2>1 DEF Reached, CInv
  <2> QED
    BY <2>4, <2>5
<1>7. ASSUME NEW c \in Cycle, EndCycle(c)
      PROVE  \A d \in Cycle : Reached(d)'
  <2>1. /\ cycle'[c].kind = "none"
        /\ \A d \in Cycle \ {c} : cycle'[d] = cycle[d] /\ settled'[d] = settled[d]
    BY <1>7 DEF EndCycle, CInv, RateType, CycleType, NoCycle
  <2> QED
    BY <2>1 DEF Reached, CInv
<1>8. ASSUME UNCHANGED <<cycle, settled>>
      PROVE  \A d \in Cycle : Reached(d)'
  BY <1>8 DEF Reached, CInv
<1>9. \A d \in Cycle : Reached(d)'
  BY <1>3, <1>4, <1>5, <1>6, <1>7, <1>8
     DEF Next, vars, Serve, Answer, Fail, StopMonitoring, RatesChange
<1> QED
  BY <1>1, <1>2, <1>9 DEF CInv

\* An update that ends is past the last batch.
LEMMA EndHasReached ==
  CInv /\ [Next]_vars =>
    [\A c \in Cycle : cycle[c] # NoCycle /\ cycle'[c] = NoCycle
        => settled[c] = Exchange]_vars
<1> SUFFICES ASSUME CInv, [Next]_vars, NEW c \in Cycle,
                    cycle[c] # NoCycle, cycle'[c] = NoCycle
             PROVE  settled[c] = Exchange
  OBVIOUS
<1>1. cycle[c].kind # "none" /\ cycle'[c].kind = "none"
  BY DEF CInv, RateType, NoCycle
<1>2. EndCycle(c)
  <2>1. ASSUME NEW d \in Cycle, NEW k \in {"background", "manual"}, Begin(d, k)
        PROVE  FALSE
    BY <1>1, <2>1 DEF Begin, CInv, RateType, CycleType
  <2>2. ASSUME NEW d \in Cycle, NEW e \in Exchange, Settle(d, e)
        PROVE  FALSE
    BY <1>1, <2>2 DEF Settle, CInv, RateType, CycleType
  <2>3. ASSUME NEW d \in Cycle, NextBatch(d)
        PROVE  FALSE
    BY <1>1, <2>3 DEF NextBatch, CInv, RateType, CycleType
  <2>4. ASSUME NEW d \in Cycle, EndCycle(d)
        PROVE  d = c
    BY <1>1, <2>4 DEF EndCycle, CInv, RateType, CycleType
  <2>5. ASSUME UNCHANGED cycle
        PROVE  FALSE
    BY <1>1, <2>5
  <2> QED
    BY <2>1, <2>2, <2>3, <2>4, <2>5
       DEF Next, vars, TimerFires, TriggerUpdate, Serve, Answer, Fail, StopMonitoring, RatesChange
<1>3. cycle[c].waiting = {} /\ cycle[c].batch + 1 \notin DOMAIN Batches
  BY <1>2 DEF EndCycle
<1>4. PICK count \in Int : DOMAIN Batches = 1..count
  BY BatchNumbers
<1>5. /\ cycle[c].batch \in 1..count
      /\ \A i \in 1..count : i < cycle[c].batch => Batch(i) \subseteq settled[c]
      /\ Batch(cycle[c].batch) \subseteq settled[c]
  BY <1>1, <1>3, <1>4 DEF CInv, Reached
<1>6. \A i \in DOMAIN Batches : Batch(i) \subseteq settled[c]
  <2>1. \A i \in 1..count : i < cycle[c].batch \/ i = cycle[c].batch
    BY <1>3, <1>4, <1>5
  <2> QED
    BY <1>4, <1>5, <2>1
<1>7. Exchange \subseteq settled[c]
  BY <1>6, BatchesCover
<1> QED
  BY <1>7 DEF CInv

\* An update of any number of exchanges in batches of any size ends only when
\* each of them has answered or failed.
THEOREM UpdatesReachAll == Spec => UpdatesReachEveryExchange
  BY InitCInv, NextCInv, InitRInv, NextRInv, EndHasReached, PTL
     DEF Spec, UpdatesReachEveryExchange

\* Every variable keeps its type.
THEOREM Typed == Spec => []TypeOK
<1>1. RInv /\ IInv /\ CInv => TypeOK
  BY DEF RInv, RateType, CycleType, IInv, CInv, TypeOK
<1> QED
  BY InitRInv, NextRInv, InitIInv, NextIInv, InitCInv, NextCInv, <1>1, PTL DEF Spec
====
