---- MODULE OhlcvCandlesProofs ----
(***************************************************************************)
(* What WsOhlcvService sends to a client of a room, proved for any number  *)
(* of clients, timeframes, trades and polls.  The first part is about the  *)
(* operators that the model is built from: the highest and the lowest of a *)
(* set of numbers, a set in order, and the division of time into candles.  *)
(* Induction on numbers is the lemma that a set of them has a lowest one,  *)
(* used for the set of those of which a claim fails.                       *)
(***************************************************************************)
EXTENDS OhlcvCandles, FiniteSetTheorems, SequenceTheorems, TLAPS

\* A set of numbers that is not empty has a lowest one.
LEMMA LowestExists ==
  ASSUME NEW S \in SUBSET Nat, S # {}
  PROVE  \E x \in S : \A y \in S : x <= y
<1>1. PICK R : IsWellFoundedOn(R, Nat) /\ \A x, y \in Nat : x < y => <<x, y>> \in R
  <2>1. IsWellFoundedOn({ss \in Nat \X Nat : ss[1] < ss[2]}, Nat)
    BY NatLessThanWellFounded, Zenon DEF OpToRel
  <2>2. \A x, y \in Nat : x < y => <<x, y>> \in {ss \in Nat \X Nat : ss[1] < ss[2]}
    OBVIOUS
  <2> QED
    BY ONLY <2>1, <2>2, Zenon
<1>2. \A W : IsWellFoundedOn(W, Nat) => \E x \in S : \A y \in S : <<y, x>> \notin W
  BY WFMin
<1>3. PICK x \in S : \A y \in S : <<y, x>> \notin R
  BY <1>1, <1>2
<1>4. ASSUME NEW y \in S PROVE x <= y
  <2>1. ~ (y < x)
    BY <1>1, <1>3, Zenon
  <2> QED
    BY <2>1
<1> QED
  BY <1>4

\* A set of numbers with a bound has a highest one: the lowest of its bounds.
LEMMA HighestExists ==
  ASSUME NEW S \in SUBSET Nat, S # {}, NEW n \in Nat, \A x \in S : x <= n
  PROVE  \E x \in S : \A y \in S : x >= y
<1> DEFINE T == {k \in Nat : \A y \in S : y <= k}
<1>1. PICK k \in T : \A l \in T : k <= l
  <2>1. n \in T
    OBVIOUS
  <2> QED
    BY <2>1, LowestExists
<1>2. k \in S
  <2>1. SUFFICES ASSUME k \notin S PROVE FALSE
    OBVIOUS
  <2>2. PICK x \in S : TRUE
    OBVIOUS
  <2>3. k - 1 \in Nat /\ \A y \in S : y <= k - 1
    BY <2>1, <2>2
  <2> QED
    BY <2>3, <1>1
<1> QED
  BY <1>1, <1>2

\* Max, as Math.max: it is in the set, and no other is higher.
LEMMA MaxIsHighest ==
  ASSUME NEW S \in SUBSET Nat, S # {}, NEW n \in Nat, \A x \in S : x <= n
  PROVE  Max(S) \in S /\ \A y \in S : y <= Max(S)
<1>1. \E x \in S : \A y \in S : x >= y
  BY HighestExists
<1> QED
  BY <1>1 DEF Max

\* Min is in the set, and no other is lower.
LEMMA MinIsLowest ==
  ASSUME NEW S \in SUBSET Nat, S # {}
  PROVE  Min(S) \in S /\ \A y \in S : Min(S) <= y
<1>1. \E x \in S : \A y \in S : x =< y
  BY LowestExists
<1> QED
  BY <1>1 DEF Min

\* A finite set of numbers can be put in order: a smallest set that could not
\* would, without its lowest element, be a smaller one.
LEMMA OrderExists ==
  ASSUME NEW S \in SUBSET Nat, IsFiniteSet(S)
  PROVE  \E s \in [1..Cardinality(S) -> S] :
           \A i, j \in DOMAIN s : i < j => s[i] < s[j]
<1> DEFINE Ordered(T) == \E s \in [1..Cardinality(T) -> T] :
                           \A i, j \in DOMAIN s : i < j => s[i] < s[j]
           Failing == {T \in SUBSET S : ~ Ordered(T)}
           Sizes == {Cardinality(T) : T \in Failing}
<1>1. ASSUME Failing # {} PROVE FALSE
  <2>1. \A T \in SUBSET S : IsFiniteSet(T) /\ Cardinality(T) \in Nat
    BY FS_Subset, FS_CardinalityType
  <2>2. PICK n \in Sizes : \A m \in Sizes : n <= m
    <3>1. Sizes \in SUBSET Nat /\ Sizes # {}
      BY <1>1, <2>1
    <3> HIDE DEF Sizes
    <3> QED
      BY <3>1, LowestExists
  <2>3. PICK T \in Failing : Cardinality(T) = n
    OBVIOUS
  <2>4. T # {}
    <3>1. SUFFICES ASSUME T = {} PROVE FALSE
      OBVIOUS
    <3>2. Cardinality(T) = 0
      BY <3>1, FS_EmptySet
    <3>3. 1..0 = {}
      OBVIOUS
    <3>4. [x \in 1..0 |-> x] \in [1..0 -> T]
      BY <3>3
    <3>5. DOMAIN [x \in 1..0 |-> x] = {}
      BY <3>3
    <3>6. Ordered(T)
      BY <3>2, <3>4, <3>5
    <3> QED
      BY <3>6
  <2>5. PICK x \in T : \A y \in T : x <= y
    BY <2>4, LowestExists
  <2>6. Cardinality(T \ {x}) = n - 1
    BY <2>1, <2>3, FS_RemoveElement
  <2>7. Ordered(T \ {x})
    <3>1. T \ {x} \in SUBSET S
      OBVIOUS
    <3>2. n \in Nat
      BY <2>1, <2>3
    <3>3. Cardinality(T \ {x}) \notin Sizes
      BY <2>2, <2>6, <3>2
    <3> QED
      BY <3>1, <3>3
  <2>8. PICK s \in [1..(n - 1) -> T \ {x}] : \A i, j \in 1..(n - 1) : i < j => s[i] < s[j]
    BY <2>6, <2>7
  <2> DEFINE t == [k \in 1..n |-> IF k = 1 THEN x ELSE s[k - 1]]
  <2>9. n \in Nat
    BY <2>1, <2>3
  <2>10. \A k \in 1..n : k # 1 => k - 1 \in 1..(n - 1)
    BY <2>9
  <2>11. t \in [1..n -> T]
    BY <2>5, <2>8, <2>10
  <2>12. \A i, j \in 1..n : i < j => t[i] < t[j]
    <3>1. TAKE i, j \in 1..n
    <3>2. HAVE i < j
    <3>3. j # 1 /\ j - 1 \in 1..(n - 1) /\ t[j] = s[j - 1] /\ t[j] \in T /\ t[j] # x
      BY <3>2, <2>9, <2>8
    <3>4. CASE i = 1
      <4>1. t[i] = x
        BY <3>4
      <4>2. t[j] \in Nat /\ x \in Nat /\ x <= t[j]
        BY <3>3, <2>5
      <4> QED
        BY <4>1, <4>2, <3>3
    <3>5. CASE i # 1
      <4>1. i - 1 \in 1..(n - 1) /\ i - 1 < j - 1 /\ t[i] = s[i - 1]
        BY <3>5, <3>2, <2>9
      <4> QED
        BY <4>1, <3>3, <2>8
    <3> QED
      BY <3>4, <3>5
  <2>13. Ordered(T)
    BY <2>3, <2>11, <2>12
  <2> QED
    BY <2>13
<1>2. S \notin Failing
  BY <1>1
<1> QED
  BY <1>2

\* InOrder gives all elements of a set and no others, in ascending order.
LEMMA InOrderIsOrder ==
  ASSUME NEW S \in SUBSET Nat, IsFiniteSet(S)
  PROVE  /\ InOrder(S) \in Seq(S)
         /\ \A i, j \in 1..Len(InOrder(S)) : i < j => InOrder(S)[i] < InOrder(S)[j]
         /\ \A x \in S : \E k \in 1..Len(InOrder(S)) : InOrder(S)[k] = x
<1> DEFINE n == Cardinality(S)
           s == InOrder(S)
<1>1. n \in Nat
  BY FS_CardinalityType
<1>2. s \in [1..n -> S] /\ \A i, j \in DOMAIN s : i < j => s[i] < s[j]
  BY OrderExists DEF InOrder
<1> HIDE DEF s
<1>3. Len(s) = n /\ DOMAIN s = 1..n /\ s \in Seq(S)
  BY <1>1, <1>2
<1>4. ASSUME NEW x \in S, \A k \in 1..n : s[k] # x PROVE FALSE
  <2>1. s \in [1..n -> S \ {x}]
    BY <1>2, <1>4
  <2>2. IsFiniteSet(S \ {x}) /\ Cardinality(S \ {x}) = n - 1
    BY FS_RemoveElement
  <2>3. IsFiniteSet(1..n) /\ Cardinality(1..n) = n
    BY <1>1, FS_Interval
  <2>4. \E i, j \in 1..n : i # j /\ s[i] = s[j]
    BY <1>1, <2>1, <2>2, <2>3, FS_PigeonHole
  <2>5. \A i \in 1..n : s[i] \in Nat
    BY <2>1
  <2>6. \A i, j \in 1..n : i < j => s[i] < s[j]
    BY <1>2, <1>3
  <2> QED
    BY <1>1, <2>4, <2>5, <2>6
<1> QED
  BY <1>2, <1>3, <1>4 DEF s

\* A time rounded down to a multiple of tf keeps its order with later ones, and
\* is not zero if tf is not later than it.
LEMMA Truncation ==
  ASSUME NEW a \in Nat, NEW b \in Nat, NEW tf \in Nat \ {0}, a <= b
  PROVE  /\ a - (a % tf) \in Nat
         /\ a - (a % tf) <= b - (b % tf)
         /\ tf <= a => tf <= a - (a % tf)
<1> DEFINE p == a \div tf
           q == b \div tf
<1>1. /\ p \in Int /\ a = tf * p + (a % tf) /\ a % tf \in 0..(tf - 1)
      /\ q \in Int /\ b = tf * q + (b % tf) /\ b % tf \in 0..(tf - 1)
  OBVIOUS
<1> HIDE DEF p, q
<1>2. p <= q
  <2>1. SUFFICES ASSUME p - q - 1 \in Nat PROVE FALSE
    BY <1>1
  <2>2. tf * (p - q - 1) >= 0
    BY <2>1
  <2>3. tf * (p - q - 1) = tf * p - tf * q - tf
    BY <1>1
  <2> QED
    BY <1>1, <2>2, <2>3
<1>3. tf * p <= tf * q
  <2>1. tf * (q - p) >= 0
    BY <1>1, <1>2
  <2>2. tf * (q - p) = tf * q - tf * p
    BY <1>1
  <2> QED
    BY <1>1, <2>1, <2>2
<1>4. p >= 0
  <2>1. SUFFICES ASSUME -p - 1 \in Nat PROVE FALSE
    BY <1>1
  <2>2. tf * (-p - 1) >= 0
    BY <2>1
  <2>3. tf * (-p - 1) = - (tf * p) - tf
    BY <1>1
  <2> QED
    BY <1>1, <2>2, <2>3
<1>5. tf * p \in Nat
  BY <1>1, <1>4
<1>6. tf <= a => tf <= tf * p
  <2>1. SUFFICES ASSUME tf <= a PROVE tf <= tf * p
    OBVIOUS
  <2>2. p # 0
    BY <1>1, <2>1
  <2>3. tf * (p - 1) >= 0
    BY <1>1, <1>4, <2>2
  <2>4. tf * (p - 1) = tf * p - tf
    BY <1>1
  <2> QED
    BY <1>1, <2>3, <2>4
<1> QED
  BY <1>1, <1>3, <1>5, <1>6

----------------------------------------------------------------------------

\* The trades of the market are in the order of time.
MarketInOrder ==
    \A i, j \in 1..Len(market) : i <= j => market[i] <= market[j]

\* The history, if any, has a trade of the time of the latest that was sent.
HistoryIsCurrent ==
    trades # <<>> => \E k \in 1..Len(trades) : market[trades[k]] = market[sent]

\* What a client has been sent as closed is up to the noted candle, which
\* precedes that in progress, which is not later than that of the latest trade.
SentInOrder ==
    \A c \in Client, tf \in Timeframe :
      /\ \A i \in 1..Len(closed[c][tf]) : closed[c][tf][i] <= lastEmitted[c][tf]
      /\ shown[c][tf] = 0 => lastEmitted[c][tf] = 0 /\ closed[c][tf] = <<>>
      /\ shown[c][tf] # 0 =>
           /\ sent # 0
           /\ lastEmitted[c][tf] < shown[c][tf]
           /\ shown[c][tf] <= Opening(sent, tf)

\* The trades of the market have times, since StartTime.
LEMMA MarketTimes ==
  ASSUME TypeOK, NEW i \in 1..Len(market)
  PROVE  market[i] \in Nat /\ StartTime <= market[i]
<1>1. StartTime \in Nat /\ now \in Nat /\ market \in Seq(StartTime..now)
  BY CandlesAssumption DEF TypeOK
<1>2. market[i] \in StartTime..now
  BY <1>1, ElementOfSeq
<1> QED
  BY <1>1, <1>2

\* A candle opens at some time after zero, and that of a later trade not earlier.
LEMMA OpeningInOrder ==
  ASSUME TypeOK, MarketInOrder,
         NEW i \in 1..Len(market), NEW j \in 1..Len(market), i <= j,
         NEW tf \in Timeframe
  PROVE  /\ Opening(i, tf) \in Nat
         /\ tf <= Opening(i, tf)
         /\ Opening(i, tf) <= Opening(j, tf)
<1>1. StartTime \in Nat /\ now \in Nat /\ tf \in Nat \ {0} /\ tf <= StartTime
  BY CandlesAssumption DEF TypeOK
<1>2. /\ market[i] \in Nat /\ StartTime <= market[i]
      /\ market[j] \in Nat /\ market[i] <= market[j]
  BY MarketTimes DEF MarketInOrder
<1>3. /\ market[i] - (market[i] % tf) \in Nat
      /\ market[i] - (market[i] % tf) <= market[j] - (market[j] % tf)
      /\ tf <= market[i] => tf <= market[i] - (market[i] % tf)
  BY <1>1, <1>2, Truncation
<1> QED
  BY <1>1, <1>2, <1>3 DEF Opening

\* A history with the latest of the trades in it gives candles (buildOHLCVC), the
\* last of which is that of the trade.
LEMMA LatestCandle ==
  ASSUME TypeOK, MarketInOrder,
         NEW n \in 1..Len(market), NEW h \in Seq(1..n), NEW tf \in Timeframe,
         NEW k \in 1..Len(h), market[h[k]] = market[n]
  PROVE  /\ Candles(h, tf) \in SUBSET Nat
         /\ \A x \in Candles(h, tf) : x <= Opening(n, tf)
         /\ Opening(n, tf) \in Candles(h, tf)
         /\ Max(Candles(h, tf)) = Opening(n, tf)
<1> DEFINE M == Opening(n, tf)
           O(i) == Opening(h[i], tf)
           Latest == {i \in 1..Len(h) : O(i) = M}
<1>1. Len(market) \in Nat
  BY DEF TypeOK
<1>2. ASSUME NEW i \in 1..Len(h)
      PROVE  O(i) \in Nat /\ O(i) <= M
  <2>1. h[i] \in 1..n
    OBVIOUS
  <2>2. h[i] \in 1..Len(market) /\ h[i] <= n
    BY <1>1, <2>1
  <2> QED
    BY <2>2, OpeningInOrder
<1>3. M \in Nat
  BY <1>1, OpeningInOrder
<1>4. k \in Latest
  BY DEF Opening
<1>5. PICK m \in Latest : \A l \in Latest : m <= l
  <2>1. Latest \in SUBSET Nat
    OBVIOUS
  <2> HIDE DEF Latest
  <2> QED
    BY <1>4, <2>1, LowestExists
<1>6. DOMAIN h = 1..Len(h) /\ Len(h) \in Nat
  OBVIOUS
<1>7. ASSUME NEW l \in 1..(m - 1)
      PROVE  O(l) < O(m)
  <2>1. l \in 1..Len(h) /\ l \notin Latest
    BY <1>5, <1>6
  <2> QED
    BY <1>2, <1>3, <1>5, <2>1
<1>8. M \in Candles(h, tf)
  <2>1. m \in {j \in DOMAIN h : \A l \in 1..(j - 1) : Opening(h[l], tf) < Opening(h[j], tf)}
    BY <1>5, <1>6, <1>7
  <2>2. Opening(h[m], tf) = M
    BY <1>5
  <2> QED
    BY <2>1, <2>2 DEF Candles
<1>9. \A x \in Candles(h, tf) : x \in Nat /\ x <= M
  <2>1. ASSUME NEW x \in Candles(h, tf) PROVE \E i \in 1..Len(h) : x = O(i)
    BY <1>6 DEF Candles
  <2> HIDE DEF M
  <2> QED
    BY <1>2, <2>1
<1>10. Max(Candles(h, tf)) = M
  <2>1. Candles(h, tf) \in SUBSET Nat /\ Candles(h, tf) # {}
    BY <1>8, <1>9
  <2>2. /\ Max(Candles(h, tf)) \in Candles(h, tf)
        /\ M <= Max(Candles(h, tf))
    BY <1>3, <1>8, <1>9, <2>1, MaxIsHighest
  <2> HIDE DEF M
  <2> QED
    BY <1>3, <1>9, <2>2
<1> QED
  BY <1>8, <1>9, <1>10

\* What is sent as closed is later than what was noted and before the candle in
\* progress, and what is noted then is between the two.
LEMMA Emission ==
  ASSUME TypeOK, MarketInOrder,
         NEW n \in 1..Len(market), NEW h \in Seq(1..n), NEW tf \in Timeframe,
         NEW k \in 1..Len(h), market[h[k]] = market[n],
         NEW c \in Client, lastEmitted[c][tf] < Opening(n, tf)
  PROVE  /\ NewlyClosed(h, c, tf) \in SUBSET Nat
         /\ IsFiniteSet(NewlyClosed(h, c, tf))
         /\ \A x \in NewlyClosed(h, c, tf) :
              lastEmitted[c][tf] < x /\ x <= Noted(h, c, tf)
         /\ Noted(h, c, tf) \in Nat
         /\ lastEmitted[c][tf] <= Noted(h, c, tf)
         /\ Noted(h, c, tf) < Opening(n, tf)
<1> DEFINE M == Opening(n, tf)
           le == lastEmitted[c][tf]
           New == NewlyClosed(h, c, tf)
<1>1. /\ Candles(h, tf) \in SUBSET Nat
      /\ \A x \in Candles(h, tf) : x <= M
      /\ Max(Candles(h, tf)) = M
  BY LatestCandle
<1>2. M \in Nat /\ le \in Nat
  BY OpeningInOrder DEF TypeOK
<1> HIDE DEF M, le
<1>3. \A x \in New : x \in Nat /\ le < x /\ x < M
  BY <1>1, <1>2 DEF NewlyClosed, le
<1>4. IsFiniteSet(New)
  <2>1. New \in SUBSET Nat /\ \A x \in New : x <= M
    BY <1>2, <1>3
  <2> HIDE DEF New
  <2> QED
    BY <1>2, <2>1, FS_BoundedSetOfNaturals
<1> DEFINE S == New \cup {le}
<1>5. S \in SUBSET Nat /\ S # {} /\ \A x \in S : x <= M
  <2>1. le <= M
    BY <1>2 DEF le, M
  <2> QED
    BY <1>2, <1>3, <2>1
<1>6. Max(S) \in S /\ \A x \in S : x <= Max(S)
  <2> HIDE DEF S
  <2> QED
    BY <1>2, <1>5, MaxIsHighest
<1>7. Noted(h, c, tf) = Max(S)
  BY DEF Noted, le
<1>8. Max(S) < M
  BY <1>2, <1>3, <1>6 DEF le, M
<1> QED
  BY <1>2, <1>3, <1>4, <1>5, <1>6, <1>7, <1>8 DEF le, M

\* After appendNewTrades the history, if any, has the time of the latest trade,
\* though trades with the id or the time of its last one are left out.
LEMMA AppendedIsCurrent ==
  ASSUME TypeOK, MarketInOrder, HistoryIsCurrent,
         NEW from \in 1..(sent + 1), NEW to \in sent..Len(market)
  PROVE  /\ Appended(trades, from..to) \in Seq(1..to)
         /\ Appended(trades, from..to) # <<>> =>
              /\ to # 0
              /\ \E k \in 1..Len(Appended(trades, from..to)) :
                   market[Appended(trades, from..to)[k]] = market[to]
<1> DEFINE h == trades
           New == {i \in from..to : h = <<>> \/ IsNew(i, Last(h))}
           n == InOrder(New)
           a == h \o n
<1>1. /\ sent \in Nat /\ Len(market) \in Nat /\ to \in Nat /\ from \in Nat
      /\ sent <= to /\ to <= Len(market) /\ sent <= Len(market) /\ h \in Seq(1..sent)
  BY DEF TypeOK
<1>2. New \in SUBSET (1..to) /\ New \in SUBSET Nat /\ IsFiniteSet(New)
  <2>1. New \in SUBSET (1..to)
    BY <1>1
  <2>2. IsFiniteSet(1..to)
    BY <1>1, FS_Interval
  <2>3. \A T \in SUBSET (1..to) : IsFiniteSet(T)
    BY <2>2, FS_Subset
  <2> HIDE DEF New
  <2> QED
    BY <1>1, <2>1, <2>3
<1>3. n \in Seq(New) /\ \A x \in New : \E k \in 1..Len(n) : n[k] = x
  <2> HIDE DEF New
  <2> QED
    BY <1>2, InOrderIsOrder
<1>4. Appended(trades, from..to) = a
  BY DEF Appended
<1> HIDE DEF New, n
<1>5. h \in Seq(1..to) /\ n \in Seq(1..to)
  <2>1. 1..sent \subseteq 1..to
    BY <1>1
  <2> QED
    BY <1>1, <1>2, <1>3, <2>1, SeqMonotonic
<1>6. /\ a \in Seq(1..to)
      /\ Len(a) = Len(h) + Len(n)
      /\ \A k \in 1..Len(h) : a[k] = h[k]
      /\ \A k \in 1..Len(n) : a[Len(h) + k] = n[k]
  BY <1>5
<1>7. Len(h) \in Nat /\ Len(n) \in Nat
  BY <1>5
<1>8. ASSUME to \in New PROVE \E k \in 1..Len(a) : market[a[k]] = market[to]
  <2>1. PICK k \in 1..Len(n) : n[k] = to
    BY <1>3, <1>8
  <2>2. Len(h) + k \in 1..Len(a) /\ a[Len(h) + k] = to
    BY <1>6, <1>7, <2>1
  <2> QED
    BY <2>2
<1>9. ASSUME NEW k \in 1..Len(h), market[h[k]] = market[to]
      PROVE  \E l \in 1..Len(a) : market[a[l]] = market[to]
  <2>1. k \in 1..Len(a) /\ a[k] = h[k]
    BY <1>6, <1>7
  <2> QED
    BY <1>9, <2>1
<1> DEFINE Goal == \E k \in 1..Len(a) : market[a[k]] = market[to]
<1>10. ASSUME a # <<>>, to \notin New PROVE to # 0 /\ Goal
  <2>1. CASE to < from
    <3>1. New = {}
      BY <1>1, <2>1 DEF New
    <3>2. n = <<>>
      BY <1>3, <3>1
    <3>3. h # <<>> /\ to = sent
      BY <1>1, <1>10, <2>1, <3>2
    <3>4. PICK k \in 1..Len(h) : market[h[k]] = market[to]
      BY <3>3 DEF HistoryIsCurrent
    <3>5. h[k] \in 1..sent
      BY <1>1
    <3> QED
      BY <1>1, <1>9, <3>3, <3>4, <3>5
  <2>2. CASE to >= from
    <3>1. to \in from..to /\ to # 0
      BY <1>1, <2>2
    <3>2. h # <<>> /\ ~ IsNew(to, Last(h))
      BY <1>10, <3>1 DEF New
    <3>3. Len(h) \in 1..Len(h) /\ Last(h) = h[Len(h)]
      BY <1>1, <3>2 DEF Last
    <3>4. Last(h) \in 1..sent
      BY <1>1, <3>3
    <3>5. market[Last(h)] = market[to]
      <4>1. CASE identified
        BY <3>2, <4>1 DEF IsNew
      <4>2. CASE ~ identified
        <5>1. ~ (market[to] > market[Last(h)])
          BY <3>2, <4>2 DEF IsNew
        <5>2. to \in 1..Len(market) /\ Last(h) \in 1..Len(market) /\ Last(h) <= to
          BY <1>1, <3>1, <3>4
        <5>3. market[Last(h)] <= market[to]
          BY <5>2 DEF MarketInOrder
        <5>4. market[to] \in Nat /\ market[Last(h)] \in Nat
          BY <5>2, MarketTimes
        <5> QED
          BY <5>1, <5>3, <5>4
      <4> QED
        BY <4>1, <4>2
    <3> QED
      BY <1>9, <3>1, <3>3, <3>5
  <2> QED
    BY <1>1, <2>1, <2>2
<1>11. ASSUME to \in New PROVE to # 0
  BY <1>2, <1>11
<1> QED
  BY <1>4, <1>6, <1>8, <1>10, <1>11

\* pruneHistory keeps the latest trade, if it keeps any: what it removes comes
\* before the first recent trade.
LEMMA PrunedIsCurrent ==
  ASSUME TypeOK, MarketInOrder,
         NEW n \in 0..Len(market), NEW h \in Seq(1..n), NEW tf \in Nat,
         h # <<>> => n # 0 /\ \E k \in 1..Len(h) : market[h[k]] = market[n]
  PROVE  /\ Pruned(h, tf) \in Seq(1..n)
         /\ Pruned(h, tf) # <<>> =>
              /\ n # 0
              /\ \E k \in 1..Len(Pruned(h, tf)) : market[Pruned(h, tf)[k]] = market[n]
<1> DEFINE span == tf * Kept
           Recent == {i \in 1..Len(h) : market[h[i]] + span >= now}
           p == Pruned(h, tf)
<1>1. /\ Recent = {} => p = <<>>
      /\ Recent # {} /\ Min(Recent) # 0 => p = SubSeq(h, Min(Recent), Len(h))
  BY DEF Pruned, SelectInSeq
<1> HIDE DEF p
<1>2. ASSUME Recent = {} PROVE p = <<>>
  BY <1>1, <1>2, Zenon
<1>3. ASSUME Recent # {}
      PROVE  /\ p \in Seq(1..n)
             /\ n # 0
             /\ \E k \in 1..Len(p) : market[p[k]] = market[n]
  <2>1. /\ Min(Recent) \in Recent
        /\ \A i \in Recent : Min(Recent) <= i
    <3>1. Recent \in SUBSET Nat
      OBVIOUS
    <3> HIDE DEF Recent
    <3> QED
      BY <1>3, <3>1, MinIsLowest
  <2> DEFINE first == Min(Recent)
  <2>2. first \in 1..Len(h) /\ Len(h) \in Nat
    BY <2>1
  <2>3. p = SubSeq(h, first, Len(h))
    <3> HIDE DEF Recent
    <3> QED
      BY <1>1, <1>3, <2>2
  <2> HIDE DEF first
  <2>4. /\ p \in Seq(1..n)
        /\ Len(p) = Len(h) - first + 1
        /\ \A i \in 1..Len(p) : p[i] = h[first + i - 1]
    <3>1. \A i \in first..Len(h) : h[i] \in 1..n
      BY <2>2
    <3>2. first \in Int /\ Len(h) \in Int /\ first <= Len(h)
      BY <2>2
    <3>3. /\ SubSeq(h, first, Len(h)) \in Seq(1..n)
          /\ Len(SubSeq(h, first, Len(h))) = Len(h) - first + 1
          /\ \A i \in 1..(Len(h) - first + 1) : SubSeq(h, first, Len(h))[i] = h[first + i - 1]
      BY <3>1, <3>2, SubSeqProperties
    <3> QED
      BY <2>3, <3>3
  <2>5. n # 0 /\ \E k \in 1..Len(h) : market[h[k]] = market[n]
    BY <2>2
  <2>6. PICK k \in 1..Len(h) : market[h[k]] = market[n]
    BY <2>5
  <2>7. h[k] \in 1..n /\ h[first] \in 1..n
    BY <2>2
  <2>8. k \in Recent
    <3>1. market[h[first]] + span >= now
      BY <2>1 DEF first
    <3>2. market[h[first]] <= market[h[k]] /\ market[h[first]] \in Nat /\ market[h[k]] \in Nat
      <4>1. n \in 1..Len(market) /\ h[first] \in 1..Len(market) /\ h[first] <= n
        BY <2>5, <2>7
      <4> QED
        BY <2>6, <4>1, MarketTimes DEF MarketInOrder
    <3>3. span \in Nat /\ now \in Nat
      BY CandlesAssumption DEF TypeOK
    <3>4. \A a, b, x, y \in Nat : a + x >= y /\ a <= b => b + x >= y
      OBVIOUS
    <3>5. market[h[k]] + span >= now
      BY <3>1, <3>2, <3>3, <3>4, Zenon
    <3> QED
      BY <3>5
  <2>9. first <= k
    BY <2>1, <2>8 DEF first
  <2>10. k - first + 1 \in 1..Len(p) /\ p[k - first + 1] = h[k]
    BY <2>2, <2>4, <2>9
  <2> QED
    BY <2>4, <2>5, <2>6, <2>10
<1>4. <<>> \in Seq(1..n)
  OBVIOUS
<1> QED
  BY <1>2, <1>3, <1>4 DEF p

\* The inductive invariant.
IInv ==
    /\ TypeOK
    /\ MarketInOrder
    /\ HistoryIsCurrent
    /\ ClosedOnceInOrder
    /\ SentInOrder

\* What a client has been sent is not later than the candle of the latest trade,
\* and what is noted as closed is earlier.
LEMMA ShownIsCurrent ==
  ASSUME IInv, NEW n \in sent..Len(market), n # 0, NEW c \in Client, NEW tf \in Timeframe
  PROVE  /\ lastEmitted[c][tf] < Opening(n, tf)
         /\ shown[c][tf] <= Opening(n, tf)
<1>1. /\ Len(market) \in Nat /\ sent \in 0..Len(market)
      /\ lastEmitted[c][tf] \in Nat /\ shown[c][tf] \in Nat
  BY DEF IInv, TypeOK
<1>2. n \in 1..Len(market) /\ tf \in Nat \ {0}
  BY <1>1, CandlesAssumption
<1>3. Opening(n, tf) \in Nat /\ tf <= Opening(n, tf)
  BY <1>2, OpeningInOrder DEF IInv
<1>4. CASE shown[c][tf] = 0
  <2>1. lastEmitted[c][tf] = 0
    BY <1>4 DEF IInv, SentInOrder
  <2> QED
    BY <1>2, <1>3, <1>4, <2>1
<1>5. CASE shown[c][tf] # 0
  <2>1. /\ sent # 0
        /\ lastEmitted[c][tf] < shown[c][tf]
        /\ shown[c][tf] <= Opening(sent, tf)
    BY <1>5 DEF IInv, SentInOrder
  <2>2. sent \in 1..Len(market) /\ sent <= n
    BY <1>1, <2>1
  <2>3. Opening(sent, tf) \in Nat /\ Opening(sent, tf) <= Opening(n, tf)
    BY <1>2, <2>2, OpeningInOrder DEF IInv
  <2> QED
    BY <1>1, <1>3, <2>1, <2>3
<1> QED
  BY <1>4, <1>5

\* The history of an answer with trades up to n, if any, has the time of n.
Current(n, h) ==
    h # <<>> => n # 0 /\ \E k \in 1..Len(h) : market[h[k]] = market[n]

\* An answer leaves a history that is current, and emits from it.
LEMMA AnswerStep ==
  ASSUME IInv, Answer
  PROVE  \E n \in sent..Len(market) : \E h \in Seq(1..n), served \in SUBSET Client :
           /\ sent' = n
           /\ trades' = h
           /\ Current(n, h)
           /\ served # {} => h # <<>>
           /\ Emit(h, served)
           /\ pending > 0
           /\ pending' = pending - 1
           /\ UNCHANGED <<now, market, identified, live, subscribers>>
<1> DEFINE tfs == {subscribers[c] : c \in Subscribed}
           A(from, to) == Appended(trades, from..to)
           K(from, to) == IF tfs = {} THEN A(from, to) ELSE Pruned(A(from, to), Max(tfs))
<1>1. PICK from \in 1..(sent + 1), to \in sent..Len(market) :
        /\ pending > 0
        /\ pending' = pending - 1
        /\ sent' = to
        /\ trades' = K(from, to)
        /\ \E failing \in SUBSET tfs :
             Emit(K(from, to),
                  {c \in Subscribed : subscribers[c] \notin failing /\ K(from, to) # <<>>})
        /\ UNCHANGED <<now, market, identified, live, subscribers>>
  BY DEF Answer
<1> HIDE DEF A
<1>2. A(from, to) \in Seq(1..to) /\ Current(to, A(from, to))
  BY AppendedIsCurrent DEF IInv, A, Current
<1>3. K(from, to) \in Seq(1..to) /\ Current(to, K(from, to))
  <2>1. CASE tfs = {}
    BY <1>2, <2>1
  <2>2. CASE tfs # {}
    <3>1. tfs \in SUBSET Nat /\ StartTime \in Nat /\ \A tf \in tfs : tf <= StartTime
      BY CandlesAssumption DEF IInv, TypeOK, Subscribed
    <3>2. Max(tfs) \in Nat
      <4> HIDE DEF tfs
      <4> QED
        BY <2>2, <3>1, MaxIsHighest
    <3>3. to \in 0..Len(market)
      BY DEF IInv, TypeOK
    <3>4. Pruned(A(from, to), Max(tfs)) \in Seq(1..to) /\ Current(to, Pruned(A(from, to), Max(tfs)))
      <4> HIDE DEF tfs
      <4> QED
        BY <1>2, <3>2, <3>3, PrunedIsCurrent DEF IInv, Current
    <3> QED
      BY <2>2, <3>4
  <2> QED
    BY <2>1, <2>2
<1>4. PICK failing \in SUBSET tfs :
        Emit(K(from, to),
             {c \in Subscribed : subscribers[c] \notin failing /\ K(from, to) # <<>>})
  BY <1>1
<1> DEFINE served == {c \in Subscribed : subscribers[c] \notin failing /\ K(from, to) # <<>>}
<1>5. served \in SUBSET Client /\ (served # {} => K(from, to) # <<>>)
  BY DEF Subscribed
<1> HIDE DEF served, K
<1>6. Emit(K(from, to), served)
  BY <1>4 DEF served
<1> QED
  BY <1>1, <1>3, <1>5, <1>6

\* The client c is served candles of timeframe tf from history h.
Emitted(h, n, c, tf) ==
    /\ h # <<>>
    /\ n # 0
    /\ lastEmitted'[c][tf] = Noted(h, c, tf)
    /\ shown'[c][tf] = Opening(n, tf)
    /\ closed'[c][tf] = closed[c][tf] \o InOrder(NewlyClosed(h, c, tf))

\* A client and a timeframe are either served by an answer or left alone.
LEMMA EmitStep ==
  ASSUME IInv,
         NEW n \in sent..Len(market), NEW h \in Seq(1..n), Current(n, h),
         NEW served \in SUBSET Client, served # {} => h # <<>>, Emit(h, served),
         NEW c \in Client, NEW tf \in Timeframe
  PROVE  \/ /\ lastEmitted'[c][tf] = lastEmitted[c][tf]
            /\ shown'[c][tf] = shown[c][tf]
            /\ closed'[c][tf] = closed[c][tf]
         \/ Emitted(h, n, c, tf)
<1>1. CASE c \in served /\ subscribers[c] = tf
  <2>1. h # <<>> /\ n # 0
    BY <1>1 DEF Current
  <2>2. PICK k \in 1..Len(h) : market[h[k]] = market[n]
    BY <2>1 DEF Current
  <2>3. n \in 1..Len(market)
    BY <2>1 DEF IInv, TypeOK
  <2>4. Max(Candles(h, tf)) = Opening(n, tf)
    BY <2>2, <2>3, LatestCandle DEF IInv
  <2>5. /\ lastEmitted'[c][tf] = Noted(h, c, tf)
        /\ shown'[c][tf] = Max(Candles(h, tf))
        /\ closed'[c][tf] = closed[c][tf] \o InOrder(NewlyClosed(h, c, tf))
    BY <1>1 DEF Emit
  <2> QED
    BY <2>1, <2>4, <2>5 DEF Emitted
<1>2. CASE ~ (c \in served /\ subscribers[c] = tf)
  BY <1>2 DEF Emit
<1> QED
  BY <1>1, <1>2

\* To serve a client keeps its closed candles in order, noted, and before the one
\* in progress.
LEMMA EmittedCandles ==
  ASSUME IInv,
         NEW n \in sent..Len(market), NEW h \in Seq(1..n), Current(n, h),
         NEW c \in Client, NEW tf \in Timeframe, Emitted(h, n, c, tf)
  PROVE  /\ n \in 1..Len(market)
         /\ lastEmitted'[c][tf] \in Nat
         /\ shown'[c][tf] \in Nat \ {0}
         /\ lastEmitted[c][tf] <= lastEmitted'[c][tf]
         /\ lastEmitted'[c][tf] < shown'[c][tf]
         /\ closed'[c][tf] \in Seq(Nat)
         /\ \A i \in 1..Len(closed'[c][tf]) : closed'[c][tf][i] <= lastEmitted'[c][tf]
         /\ \A i, j \in 1..Len(closed'[c][tf]) : i < j => closed'[c][tf][i] < closed'[c][tf][j]
         /\ \A x \in NewlyClosed(h, c, tf) : x \in Range(closed'[c][tf])
<1> DEFINE new == InOrder(NewlyClosed(h, c, tf))
           old == closed[c][tf]
           le == lastEmitted[c][tf]
           M == Opening(n, tf)
<1>1. n \in 1..Len(market)
  BY DEF Emitted, IInv, TypeOK
<1>2. /\ lastEmitted'[c][tf] = Noted(h, c, tf)
      /\ shown'[c][tf] = M
      /\ closed'[c][tf] = old \o new
  BY DEF Emitted
<1>3. PICK k \in 1..Len(h) : market[h[k]] = market[n]
  BY DEF Emitted, Current
<1>4. le < M
  BY <1>1, ShownIsCurrent
<1>5. /\ NewlyClosed(h, c, tf) \in SUBSET Nat
      /\ IsFiniteSet(NewlyClosed(h, c, tf))
      /\ \A x \in NewlyClosed(h, c, tf) : le < x /\ x <= Noted(h, c, tf)
      /\ Noted(h, c, tf) \in Nat
      /\ le <= Noted(h, c, tf)
      /\ Noted(h, c, tf) < M
  BY <1>1, <1>3, <1>4, Emission DEF IInv
<1>6. /\ new \in Seq(NewlyClosed(h, c, tf))
      /\ \A i, j \in 1..Len(new) : i < j => new[i] < new[j]
      /\ \A x \in NewlyClosed(h, c, tf) : \E i \in 1..Len(new) : new[i] = x
  BY <1>5, InOrderIsOrder
<1>7. /\ old \in Seq(Nat)
      /\ \A i \in 1..Len(old) : old[i] <= le
      /\ \A i, j \in 1..Len(old) : i < j => old[i] < old[j]
  <2>1. old \in Seq(Nat)
    BY DEF IInv, TypeOK
  <2>2. DOMAIN old = 1..Len(old)
    BY <2>1
  <2>3. \A i \in 1..Len(old) : old[i] <= le
    BY DEF IInv, SentInOrder
  <2>4. \A i, j \in DOMAIN old : i < j => old[i] < old[j]
    BY DEF IInv, ClosedOnceInOrder
  <2> QED
    BY <2>1, <2>2, <2>3, <2>4
<1>8. M \in Nat \ {0} /\ le \in Nat
  <2>1. M \in Nat /\ le \in Nat
    BY <1>1, OpeningInOrder DEF IInv, TypeOK
  <2> QED
    BY <1>4, <2>1
<1> HIDE DEF new, old, le, M
<1>9. /\ old \o new \in Seq(Nat)
      /\ Len(old \o new) = Len(old) + Len(new)
      /\ \A i \in 1..Len(old) : (old \o new)[i] = old[i]
      /\ \A i \in (Len(old) + 1)..(Len(old) + Len(new)) : (old \o new)[i] = new[i - Len(old)]
  <2>1. new \in Seq(Nat)
    BY <1>5, <1>6
  <2> QED
    BY <1>7, <2>1
<1>10. /\ Len(old) \in Nat /\ Len(new) \in Nat
       /\ \A i \in 1..Len(new) : new[i] \in Nat /\ le < new[i] /\ new[i] <= Noted(h, c, tf)
       /\ \A i \in 1..Len(old) : old[i] \in Nat
  <2>1. \A i \in 1..Len(new) : new[i] \in NewlyClosed(h, c, tf)
    BY <1>6
  <2>2. Len(new) \in Nat
    BY <1>6
  <2>3. \A i \in 1..Len(new) : new[i] \in Nat /\ le < new[i] /\ new[i] <= Noted(h, c, tf)
    BY <1>5, <2>1
  <2> QED
    BY <1>7, <2>2, <2>3
<1>11. ASSUME NEW i \in 1..Len(old \o new)
       PROVE  (old \o new)[i] <= Noted(h, c, tf)
  <2>1. CASE i <= Len(old)
    <3>1. (old \o new)[i] \in Nat /\ (old \o new)[i] <= le
      BY <1>7, <1>9, <1>10, <2>1
    <3> QED
      BY <1>5, <1>8, <3>1
  <2>2. CASE i > Len(old)
    <3>1. i \in (Len(old) + 1)..(Len(old) + Len(new)) /\ i - Len(old) \in 1..Len(new)
      BY <1>9, <1>10, <2>2
    <3> QED
      BY <1>9, <1>10, <3>1
  <2> QED
    BY <1>10, <2>1, <2>2
<1>12. ASSUME NEW i \in 1..Len(old \o new), NEW j \in 1..Len(old \o new), i < j
       PROVE  (old \o new)[i] < (old \o new)[j]
  <2>1. CASE j <= Len(old)
    <3>1. i \in 1..Len(old) /\ j \in 1..Len(old)
      BY <1>10, <1>12, <2>1
    <3> QED
      BY <1>7, <1>9, <1>12, <3>1
  <2>2. CASE i <= Len(old) /\ j > Len(old)
    <3>1. i \in 1..Len(old) /\ j - Len(old) \in 1..Len(new)
          /\ j \in (Len(old) + 1)..(Len(old) + Len(new))
      BY <1>9, <1>10, <2>2
    <3>2. (old \o new)[i] = old[i] /\ (old \o new)[j] = new[j - Len(old)]
      BY <1>9, <3>1
    <3>3. /\ old[i] \in Nat /\ old[i] <= le
          /\ new[j - Len(old)] \in Nat /\ le < new[j - Len(old)]
      BY <1>7, <1>10, <3>1
    <3>4. \A x, y, z \in Nat : x <= y /\ y < z => x < z
      OBVIOUS
    <3> QED
      BY <1>8, <3>2, <3>3, <3>4
  <2>3. CASE i > Len(old)
    <3>1. /\ i - Len(old) \in 1..Len(new) /\ i \in (Len(old) + 1)..(Len(old) + Len(new))
          /\ j - Len(old) \in 1..Len(new) /\ j \in (Len(old) + 1)..(Len(old) + Len(new))
          /\ i - Len(old) < j - Len(old)
      BY <1>9, <1>10, <1>12, <2>3
    <3>2. new[i - Len(old)] < new[j - Len(old)]
      BY <1>6, <3>1
    <3> QED
      BY <1>9, <3>1, <3>2
  <2> QED
    BY <1>10, <2>1, <2>2, <2>3
<1>13. ASSUME NEW x \in NewlyClosed(h, c, tf)
       PROVE  x \in Range(old \o new)
  <2>1. PICK i \in 1..Len(new) : new[i] = x
    BY <1>6
  <2>2. Len(old) + i \in 1..Len(old \o new) /\ (old \o new)[Len(old) + i] = x
    BY <1>9, <1>10, <2>1
  <2>3. DOMAIN (old \o new) = 1..Len(old \o new)
    BY <1>9
  <2> QED
    BY <2>2, <2>3 DEF Range
<1>14. /\ Noted(h, c, tf) \in Nat
       /\ M \in Nat \ {0}
       /\ le <= Noted(h, c, tf)
       /\ Noted(h, c, tf) < M
  BY <1>5, <1>8
<1> QED
  BY <1>1, <1>2, <1>9, <1>11, <1>12, <1>13, <1>14 DEF le

----------------------------------------------------------------------------

\* The room starts with nothing traded and nothing sent.
LEMMA InitIInv == Init => IInv
<1> SUFFICES ASSUME Init PROVE IInv
  OBVIOUS
<1>1. /\ StartTime \in Nat /\ MaxTime \in Nat /\ MaxPending \in Nat
      /\ 0 \notin Timeframe /\ StartTime <= MaxTime
  BY CandlesAssumption
<1>2. TypeOK
  <2>1. subscribers \in [Client -> Timeframe \cup {0}]
    BY DEF Init
  <2>2. /\ lastEmitted \in [Client -> [Timeframe -> Nat]]
        /\ shown \in [Client -> [Timeframe -> Nat]]
        /\ closed \in [Client -> [Timeframe -> Seq(Nat)]]
    BY DEF Init, NoCandle
  <2>3. now \in StartTime..MaxTime /\ pending \in 0..MaxPending
    BY <1>1 DEF Init
  <2>4. /\ market \in Seq(StartTime..now) /\ identified \in BOOLEAN
        /\ sent \in 0..Len(market) /\ live \in BOOLEAN /\ trades \in Seq(1..sent)
    BY DEF Init
  <2> QED
    BY <2>1, <2>2, <2>3, <2>4 DEF TypeOK
<1>3. MarketInOrder /\ HistoryIsCurrent
  BY DEF Init, MarketInOrder, HistoryIsCurrent
<1>4. ClosedOnceInOrder /\ SentInOrder
  BY DEF Init, NoCandle, ClosedOnceInOrder, SentInOrder
<1> QED
  BY <1>2, <1>3, <1>4 DEF IInv

\* Time passing changes nothing that has been sent.
LEMMA ClockTicksIInv ==
  ASSUME IInv, ClockTicks
  PROVE  IInv'
<1>1. TypeOK'
  <2>1. now \in StartTime..MaxTime /\ market \in Seq(StartTime..now) /\ StartTime \in Nat /\ MaxTime \in Nat
    BY CandlesAssumption DEF IInv, TypeOK
  <2>2. now' \in StartTime..MaxTime /\ StartTime..now \subseteq StartTime..now'
    BY <2>1 DEF ClockTicks
  <2>3. market \in Seq(StartTime..now')
    BY <2>1, <2>2, SeqMonotonic
  <2> QED
    BY <2>2, <2>3 DEF IInv, TypeOK, ClockTicks
<1>2. MarketInOrder' /\ HistoryIsCurrent'
  BY DEF IInv, ClockTicks, MarketInOrder, HistoryIsCurrent
<1>3. ClosedOnceInOrder' /\ SentInOrder'
  BY DEF IInv, ClockTicks, ClosedOnceInOrder, SentInOrder, Opening
<1> QED
  BY <1>1, <1>2, <1>3 DEF IInv

\* A trade comes after all others, and changes no candle that has been sent.
LEMMA TradeIInv ==
  ASSUME IInv, Trade
  PROVE  IInv'
<1>1. /\ now \in Nat /\ StartTime \in Nat /\ now \in StartTime..now
      /\ market \in Seq(StartTime..now) /\ sent \in 0..Len(market)
  BY CandlesAssumption DEF IInv, TypeOK
<1>2. /\ market' = Append(market, now)
      /\ market' \in Seq(StartTime..now)
      /\ Len(market) \in Nat
      /\ Len(market') = Len(market) + 1
      /\ \A i \in 1..Len(market) : market'[i] = market[i]
      /\ market'[Len(market) + 1] = now
  BY <1>1 DEF Trade
<1>3. TypeOK'
  BY <1>1, <1>2 DEF IInv, TypeOK, Trade
<1>4. MarketInOrder'
  <2>1. SUFFICES ASSUME NEW i \in 1..Len(market'), NEW j \in 1..Len(market'), i <= j
                 PROVE  market'[i] <= market'[j]
    BY DEF MarketInOrder
  <2>2. CASE j \in 1..Len(market)
    <3>1. i \in 1..Len(market)
      BY <1>2, <2>1, <2>2
    <3> QED
      BY <1>2, <2>1, <2>2, <3>1 DEF IInv, MarketInOrder
  <2>3. CASE j = Len(market) + 1
    <3>1. market'[i] \in StartTime..now
      BY <1>2, ElementOfSeq
    <3> QED
      BY <1>1, <1>2, <2>3, <3>1
  <2> QED
    BY <1>2, <2>2, <2>3
<1>5. HistoryIsCurrent'
  <2>1. SUFFICES ASSUME trades # <<>>
                 PROVE  \E k \in 1..Len(trades) : market'[trades[k]] = market'[sent]
    BY DEF HistoryIsCurrent, Trade
  <2>2. PICK k \in 1..Len(trades) : market[trades[k]] = market[sent]
    BY <2>1 DEF IInv, HistoryIsCurrent
  <2>3. trades[k] \in 1..sent
    BY DEF IInv, TypeOK
  <2>4. trades[k] \in 1..Len(market) /\ sent \in 1..Len(market)
    BY <1>1, <1>2, <2>3
  <2> QED
    BY <1>2, <2>2, <2>4
<1>6. ClosedOnceInOrder'
  BY DEF IInv, Trade, ClosedOnceInOrder
<1>7. SentInOrder'
  <2>1. ASSUME sent # 0, NEW tf \in Timeframe
        PROVE  Opening(sent, tf)' = Opening(sent, tf)
    <3>1. sent \in 1..Len(market) /\ sent' = sent
      BY <1>1, <1>2, <2>1 DEF Trade
    <3> QED
      BY <1>2, <3>1 DEF Opening
  <2> QED
    BY <2>1 DEF IInv, Trade, SentInOrder
<1> QED
  BY <1>3, <1>4, <1>5, <1>6, <1>7 DEF IInv

\* A client that unsubscribes is forgotten as a whole; one that changes its
\* timeframe keeps what was sent to it.
LEMMA SubscriptionIInv ==
  ASSUME IInv, NEW c \in Client,
         Unwatch(c) \/ \E tf \in Timeframe : Watch(c, tf)
  PROVE  IInv'
<1>1. CASE Unwatch(c)
  <2>1. TypeOK'
    <3>1. /\ subscribers' \in [Client -> Timeframe \cup {0}]
          /\ lastEmitted' \in [Client -> [Timeframe -> Nat]]
          /\ shown' \in [Client -> [Timeframe -> Nat]]
      BY <1>1 DEF IInv, TypeOK, Unwatch, NoCandle
    <3>2. closed' \in [Client -> [Timeframe -> Seq(Nat)]]
      BY <1>1 DEF IInv, TypeOK, Unwatch
    <3>3. live' \in BOOLEAN
      BY <1>1 DEF Unwatch
    <3> QED
      BY <1>1, <3>1, <3>2, <3>3 DEF IInv, TypeOK, Unwatch
  <2>2. MarketInOrder' /\ HistoryIsCurrent'
    BY <1>1 DEF IInv, Unwatch, MarketInOrder, HistoryIsCurrent
  <2>3. ASSUME NEW d \in Client, NEW tf \in Timeframe
        PROVE  \/ /\ lastEmitted'[d][tf] = 0
                  /\ closed'[d][tf] = <<>>
                  /\ shown'[d][tf] = 0
               \/ /\ lastEmitted'[d][tf] = lastEmitted[d][tf]
                  /\ closed'[d][tf] = closed[d][tf]
                  /\ shown'[d][tf] = shown[d][tf]
    BY <1>1 DEF IInv, TypeOK, Unwatch, NoCandle
  <2>4. ClosedOnceInOrder'
    BY <2>3 DEF IInv, ClosedOnceInOrder
  <2>5. SentInOrder'
    BY <1>1, <2>3 DEF IInv, SentInOrder, Unwatch, Opening
  <2> QED
    BY <2>1, <2>2, <2>4, <2>5 DEF IInv
<1>2. ASSUME NEW tf \in Timeframe, Watch(c, tf)
      PROVE  IInv'
  <2>1. TypeOK'
    BY <1>2 DEF IInv, TypeOK, Watch
  <2>2. MarketInOrder' /\ HistoryIsCurrent' /\ ClosedOnceInOrder' /\ SentInOrder'
    BY <1>2 DEF IInv, Watch, MarketInOrder, HistoryIsCurrent, ClosedOnceInOrder, SentInOrder, Opening
  <2> QED
    BY <2>1, <2>2 DEF IInv
<1> QED
  BY <1>1, <1>2

\* Polls that start or fail, and the deletion of the room, send nothing.
LEMMA PollIInv ==
  ASSUME IInv, Deleted \/ Tick \/ PollFails \/ UNCHANGED vars
  PROVE  IInv'
<1>1. TypeOK'
  <2>1. pending' \in 0..MaxPending /\ live' \in BOOLEAN
    <3>1. pending \in 0..MaxPending /\ MaxPending \in Nat /\ live \in BOOLEAN
      BY CandlesAssumption DEF IInv, TypeOK
    <3>2. CASE Deleted \/ UNCHANGED vars
      BY <3>1, <3>2 DEF Deleted, vars
    <3>3. CASE Tick
      BY <3>1, <3>3 DEF Tick
    <3>4. CASE PollFails
      BY <3>1, <3>4 DEF PollFails
    <3> QED
      BY <3>2, <3>3, <3>4
  <2>2. UNCHANGED <<now, market, identified, sent, subscribers, trades, lastEmitted, closed, shown>>
    BY DEF Deleted, Tick, PollFails, vars
  <2> QED
    BY <2>1, <2>2 DEF IInv, TypeOK
<1>2. UNCHANGED <<market, sent, trades, lastEmitted, closed, shown>>
  BY DEF Deleted, Tick, PollFails, vars
<1>3. MarketInOrder' /\ HistoryIsCurrent' /\ ClosedOnceInOrder' /\ SentInOrder'
  BY <1>2 DEF IInv, MarketInOrder, HistoryIsCurrent, ClosedOnceInOrder, SentInOrder, Opening
<1> QED
  BY <1>1, <1>3 DEF IInv

\* An answer preserves the invariant: history and candles for each client.
LEMMA AnswerIInv ==
  ASSUME IInv, Answer
  PROVE  IInv'
<1>1. PICK n \in sent..Len(market) : \E h \in Seq(1..n), served \in SUBSET Client :
           /\ sent' = n
           /\ trades' = h
           /\ Current(n, h)
           /\ served # {} => h # <<>>
           /\ Emit(h, served)
           /\ pending > 0
           /\ pending' = pending - 1
           /\ UNCHANGED <<now, market, identified, live, subscribers>>
  BY AnswerStep
<1>2. PICK h \in Seq(1..n), served \in SUBSET Client :
           /\ sent' = n
           /\ trades' = h
           /\ Current(n, h)
           /\ served # {} => h # <<>>
           /\ Emit(h, served)
           /\ pending > 0
           /\ pending' = pending - 1
           /\ UNCHANGED <<now, market, identified, live, subscribers>>
  BY <1>1
<1>3. ASSUME NEW c \in Client, NEW tf \in Timeframe
      PROVE  \/ /\ lastEmitted'[c][tf] = lastEmitted[c][tf]
                /\ shown'[c][tf] = shown[c][tf]
                /\ closed'[c][tf] = closed[c][tf]
             \/ Emitted(h, n, c, tf)
  BY <1>2, EmitStep
<1>4. TypeOK'
  <2>1. ASSUME NEW c \in Client, NEW tf \in Timeframe
        PROVE  /\ lastEmitted'[c][tf] \in Nat
               /\ shown'[c][tf] \in Nat
               /\ closed'[c][tf] \in Seq(Nat)
    <3>1. CASE Emitted(h, n, c, tf)
      BY <1>2, <3>1, EmittedCandles
    <3>2. CASE ~ Emitted(h, n, c, tf)
      BY <1>3, <3>2 DEF IInv, TypeOK
    <3> QED
      BY <3>1, <3>2
  <2>2. /\ lastEmitted' = [c \in Client |-> [tf \in Timeframe |-> lastEmitted'[c][tf]]]
        /\ shown' = [c \in Client |-> [tf \in Timeframe |-> shown'[c][tf]]]
        /\ closed' = [c \in Client |-> [tf \in Timeframe |-> closed'[c][tf]]]
    BY <1>2 DEF Emit
  <2>3. /\ lastEmitted' \in [Client -> [Timeframe -> Nat]]
        /\ shown' \in [Client -> [Timeframe -> Nat]]
        /\ closed' \in [Client -> [Timeframe -> Seq(Nat)]]
    BY <2>1, <2>2, Zenon
  <2>4. pending' \in 0..MaxPending
    <3>1. pending \in 0..MaxPending /\ MaxPending \in Nat
      BY CandlesAssumption DEF IInv, TypeOK
    <3> QED
      BY <1>2, <3>1
  <2>5. sent' \in 0..Len(market') /\ trades' \in Seq(1..sent')
    BY <1>2 DEF IInv, TypeOK
  <2> QED
    BY <1>2, <2>3, <2>4, <2>5 DEF IInv, TypeOK
<1>5. MarketInOrder'
  BY <1>2 DEF IInv, MarketInOrder
<1>6. HistoryIsCurrent'
  BY <1>2 DEF Current, HistoryIsCurrent
<1>7. ClosedOnceInOrder'
  <2>1. ASSUME NEW c \in Client, NEW tf \in Timeframe,
               NEW i \in DOMAIN closed'[c][tf], NEW j \in DOMAIN closed'[c][tf], i < j
        PROVE  closed'[c][tf][i] < closed'[c][tf][j]
    <3>1. CASE Emitted(h, n, c, tf)
      <4>1. closed'[c][tf] \in Seq(Nat)
            /\ \A k, l \in 1..Len(closed'[c][tf]) : k < l => closed'[c][tf][k] < closed'[c][tf][l]
        BY <1>2, <3>1, EmittedCandles
      <4>2. DOMAIN closed'[c][tf] = 1..Len(closed'[c][tf])
        BY <4>1
      <4> QED
        BY <2>1, <4>1, <4>2
    <3>2. CASE ~ Emitted(h, n, c, tf)
      BY <1>3, <2>1, <3>2 DEF IInv, ClosedOnceInOrder
    <3> QED
      BY <3>1, <3>2
  <2> QED
    BY <2>1 DEF ClosedOnceInOrder
<1>8. SentInOrder'
  <2>1. ASSUME NEW c \in Client, NEW tf \in Timeframe
        PROVE  /\ \A i \in 1..Len(closed'[c][tf]) : closed'[c][tf][i] <= lastEmitted'[c][tf]
               /\ shown'[c][tf] = 0 => lastEmitted'[c][tf] = 0 /\ closed'[c][tf] = <<>>
               /\ shown'[c][tf] # 0 =>
                    /\ n # 0
                    /\ lastEmitted'[c][tf] < shown'[c][tf]
                    /\ shown'[c][tf] <= Opening(n, tf)
    <3>1. CASE Emitted(h, n, c, tf)
      <4>1. /\ shown'[c][tf] \in Nat \ {0}
            /\ lastEmitted'[c][tf] < shown'[c][tf]
            /\ \A i \in 1..Len(closed'[c][tf]) : closed'[c][tf][i] <= lastEmitted'[c][tf]
        BY <1>2, <3>1, EmittedCandles
      <4>2. n # 0 /\ shown'[c][tf] = Opening(n, tf)
        BY <3>1 DEF Emitted
      <4> QED
        BY <4>1, <4>2
    <3>2. CASE ~ Emitted(h, n, c, tf)
      <4>1. /\ lastEmitted'[c][tf] = lastEmitted[c][tf]
            /\ shown'[c][tf] = shown[c][tf]
            /\ closed'[c][tf] = closed[c][tf]
        BY <1>3, <3>2
      <4>2. shown[c][tf] # 0 => n # 0
        BY DEF IInv, TypeOK, SentInOrder
      <4>3. n # 0 => shown[c][tf] <= Opening(n, tf)
        BY ShownIsCurrent
      <4> QED
        BY <4>1, <4>2, <4>3 DEF IInv, SentInOrder
    <3> QED
      BY <3>1, <3>2
  <2>2. sent' = n /\ \A tf \in Timeframe : Opening(n, tf)' = Opening(n, tf)
    BY <1>2 DEF Opening
  <2> QED
    BY <2>1, <2>2 DEF SentInOrder, Opening
<1> QED
  BY <1>4, <1>5, <1>6, <1>7, <1>8 DEF IInv

\* Every step preserves the invariant.
LEMMA NextIInv == IInv /\ [Next]_vars => IInv'
<1> SUFFICES ASSUME IInv, [Next]_vars PROVE IInv'
  OBVIOUS
<1>1. CASE ClockTicks
  BY <1>1, ClockTicksIInv
<1>2. CASE Trade
  BY <1>2, TradeIInv
<1>3. CASE \E c \in Client, tf \in Timeframe : Watch(c, tf)
  BY <1>3, SubscriptionIInv
<1>4. CASE \E c \in Client : Unwatch(c)
  BY <1>4, SubscriptionIInv
<1>5. CASE Deleted \/ Tick \/ PollFails \/ UNCHANGED vars
  BY <1>5, PollIInv
<1>6. CASE Answer
  BY <1>6, AnswerIInv
<1> QED
  BY <1>1, <1>2, <1>3, <1>4, <1>5, <1>6 DEF Next

\* The inductive invariant: the history is current, and each client has been sent
\* closed candles in order, up to the noted one, which precedes the one in progress.
THEOREM Invariance == Spec => []IInv
  BY InitIInv, NextIInv, PTL DEF Spec

\* The state of the room has its types.
THEOREM TypeCorrect == Spec => []TypeOK
<1>1. IInv => TypeOK
  BY DEF IInv
<1> QED
  BY <1>1, Invariance, PTL

\* The emission loop sends each closed candle to a client once, in the order of
\* time, whatever polls overlap, repeat trades or fail.
THEOREM ClosedCandlesComeOnce == Spec => []ClosedOnceInOrder
<1>1. IInv => ClosedOnceInOrder
  BY DEF IInv
<1> QED
  BY <1>1, Invariance, PTL

\* What is noted as closed is before the candle in progress.
LEMMA FinalByInvariant == IInv => ClosedIsFinal
<1> SUFFICES ASSUME IInv, NEW c \in Client, NEW tf \in Timeframe, shown[c][tf] # 0,
                    NEW x \in Range(closed[c][tf])
             PROVE  x < shown[c][tf]
  BY DEF ClosedIsFinal
<1>1. closed[c][tf] \in Seq(Nat) /\ lastEmitted[c][tf] \in Nat /\ shown[c][tf] \in Nat
  BY DEF IInv, TypeOK
<1>2. PICK i \in 1..Len(closed[c][tf]) : closed[c][tf][i] = x
  BY <1>1 DEF Range
<1>3. x \in Nat
  BY <1>1, <1>2
<1>4. x <= lastEmitted[c][tf] /\ lastEmitted[c][tf] < shown[c][tf]
  BY <1>2 DEF IInv, SentInOrder
<1> QED
  BY <1>1, <1>3, <1>4

\* No candle that a client was told is closed is sent to it as in progress again,
\* also when pruneHistory has emptied the history or a batch brings old trades.
THEOREM ClosedCandlesAreFinal == Spec => []ClosedIsFinal
  BY Invariance, FinalByInvariant, PTL

\* The candle a client has seen in progress is sent as closed when a later one
\* takes its place, if the history still makes it.
THEOREM InProgressGivesWay == Spec => CandlesAreClosed
<1> DEFINE Gives(c, tf) ==
      /\ 0 < shown[c][tf] /\ shown[c][tf] < shown'[c][tf]
      /\ shown[c][tf] \in Candles(trades', tf)
      => shown[c][tf] \in Range(closed'[c][tf])
<1>1. ASSUME IInv, [Next]_vars, NEW c \in Client, NEW tf \in Timeframe
      PROVE  Gives(c, tf)
  <2>1. SUFFICES ASSUME 0 < shown[c][tf], shown[c][tf] < shown'[c][tf],
                        shown[c][tf] \in Candles(trades', tf)
                 PROVE  shown[c][tf] \in Range(closed'[c][tf])
    OBVIOUS
  <2>2. shown \in [Client -> [Timeframe -> Nat]] /\ shown[c][tf] \in Nat
    BY <1>1 DEF IInv, TypeOK
  <2>3. ASSUME shown'[c][tf] = shown[c][tf] \/ shown'[c][tf] = 0
        PROVE  FALSE
    BY <2>1, <2>2, <2>3
  <2>4. Answer
    <3>1. CASE ClockTicks \/ Trade \/ Deleted \/ Tick \/ PollFails \/ UNCHANGED vars
      BY <2>3, <3>1 DEF ClockTicks, Trade, Deleted, Tick, PollFails, vars
    <3>2. CASE \E d \in Client, t \in Timeframe : Watch(d, t)
      BY <2>3, <3>2 DEF Watch
    <3>3. ASSUME NEW d \in Client, Unwatch(d) PROVE FALSE
      BY <2>2, <2>3, <3>3 DEF Unwatch, NoCandle
    <3> QED
      BY <1>1, <3>1, <3>2, <3>3 DEF Next
  <2>5. PICK n \in sent..Len(market) : \E h \in Seq(1..n), served \in SUBSET Client :
               /\ trades' = h
               /\ Current(n, h)
               /\ served # {} => h # <<>>
               /\ Emit(h, served)
    BY <1>1, <2>4, AnswerStep
  <2>6. PICK h \in Seq(1..n), served \in SUBSET Client :
               /\ trades' = h
               /\ Current(n, h)
               /\ served # {} => h # <<>>
               /\ Emit(h, served)
    BY <2>5
  <2>7. Emitted(h, n, c, tf)
    BY <1>1, <2>3, <2>6, EmitStep
  <2>8. /\ n \in 1..Len(market)
        /\ \A x \in NewlyClosed(h, c, tf) : x \in Range(closed'[c][tf])
    BY <1>1, <2>6, <2>7, EmittedCandles
  <2>9. PICK k \in 1..Len(h) : market[h[k]] = market[n]
    BY <2>6, <2>7 DEF Current, Emitted
  <2>10. Max(Candles(h, tf)) = shown'[c][tf]
    BY <1>1, <2>7, <2>8, <2>9, LatestCandle DEF Emitted, IInv
  <2>11. lastEmitted[c][tf] < shown[c][tf]
    BY <1>1, <2>1, <2>2 DEF IInv, SentInOrder
  <2>12. shown[c][tf] \in NewlyClosed(h, c, tf)
    <3>1. shown[c][tf] \in Candles(h, tf) /\ shown[c][tf] # Max(Candles(h, tf))
      BY <2>1, <2>3, <2>6, <2>10
    <3>2. lastEmitted[c][tf] \in Nat /\ shown[c][tf] > lastEmitted[c][tf]
      BY <1>1, <2>2, <2>11 DEF IInv, TypeOK
    <3> QED
      BY <3>1, <3>2 DEF NewlyClosed
  <2> QED
    BY <2>8, <2>12
<1>2. IInv /\ [Next]_vars => [\A c \in Client, tf \in Timeframe : Gives(c, tf)]_vars
  <2> HIDE DEF Gives
  <2> QED
    BY <1>1
<1> QED
  BY <1>2, Invariance, PTL DEF Spec, CandlesAreClosed

\* The candle that a client sees in progress never goes back: answers do not go
\* back, and neither deduplication nor pruning loses the latest trade alone.
THEOREM InProgressNeverGoesBack == Spec => InProgressAdvances
<1> DEFINE Advances(c, tf) ==
      shown'[c][tf] # 0 => shown[c][tf] <= shown'[c][tf]
<1>1. ASSUME IInv, [Next]_vars, NEW c \in Client, NEW tf \in Timeframe
      PROVE  Advances(c, tf)
  <2>1. shown \in [Client -> [Timeframe -> Nat]] /\ shown[c][tf] \in Nat
    BY <1>1 DEF IInv, TypeOK
  <2>2. CASE shown'[c][tf] = shown[c][tf] \/ shown'[c][tf] = 0
    BY <2>1, <2>2
  <2>3. CASE Answer
    <3>1. PICK n \in sent..Len(market) : \E h \in Seq(1..n), served \in SUBSET Client :
                 /\ Current(n, h)
                 /\ served # {} => h # <<>>
                 /\ Emit(h, served)
      BY <1>1, <2>3, AnswerStep
    <3>2. PICK h \in Seq(1..n), served \in SUBSET Client :
                 /\ Current(n, h)
                 /\ served # {} => h # <<>>
                 /\ Emit(h, served)
      BY <3>1
    <3>3. CASE Emitted(h, n, c, tf)
      <4>1. n # 0 /\ shown'[c][tf] = Opening(n, tf)
        BY <3>3 DEF Emitted
      <4> QED
        BY <1>1, <4>1, ShownIsCurrent
    <3>4. CASE ~ Emitted(h, n, c, tf)
      BY <1>1, <2>2, <3>2, <3>4, EmitStep
    <3> QED
      BY <3>3, <3>4
  <2>4. CASE ~ Answer
    <3>1. CASE ClockTicks \/ Trade \/ Deleted \/ Tick \/ PollFails \/ UNCHANGED vars
      BY <2>2, <3>1 DEF ClockTicks, Trade, Deleted, Tick, PollFails, vars
    <3>2. CASE \E d \in Client, t \in Timeframe : Watch(d, t)
      BY <2>2, <3>2 DEF Watch
    <3>3. ASSUME NEW d \in Client, Unwatch(d) PROVE Advances(c, tf)
      BY <2>1, <2>2, <3>3 DEF Unwatch, NoCandle
    <3> QED
      BY <1>1, <2>4, <3>1, <3>2, <3>3 DEF Next
  <2> QED
    BY <2>3, <2>4
<1>2. IInv /\ [Next]_vars => [\A c \in Client, tf \in Timeframe : Advances(c, tf)]_vars
  <2> HIDE DEF Advances
  <2> QED
    BY <1>1
<1> QED
  BY <1>2, Invariance, PTL DEF Spec, InProgressAdvances
====
