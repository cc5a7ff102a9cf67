---- MODULE SessionStoreProofs ----
(***************************************************************************)
(* Proofs about SessionStore, for any keys, values, timers and time to     *)
(* live: its inductive invariant, and that it implements ExpiringMap.      *)
(***************************************************************************)
EXTENDS SessionStore, TLAPS

\* The three invariants together are inductive: what a step does to a timer
\* is known from the session it belongs to, and the other way round.
IInv == TypeOK /\ TimersMatchSessions /\ TimersMeasureIdleness

USE DEF Session, Timer

LEMMA InitIInv == Init => IInv
BY TtlAssumption DEF Init, IInv, TypeOK, TimersMatchSessions, TimersMeasureIdleness

\* A set of any kind keeps the invariant, whatever the key held before.
LEMMA SetKeepsIInv ==
  ASSUME IInv, NEW k \in Key, NEW v \in Value, Set(k, v)
  PROVE  IInv'
<1> USE TtlAssumption, SentinelAssumption
<1>1. CASE TtlFinite
  <2>1. PICK h \in Handle :
          /\ timer[h] = Unarmed
          /\ store' = [store EXCEPT ![k] = [data |-> v, handle |-> h]]
          /\ timer' = [Disarmed(k) EXCEPT ![h] = [key |-> k, left |-> Ttl]]
    BY <1>1 DEF Set
  <2>2. idle' = [idle EXCEPT ![k] = 0] /\ lapsed' = lapsed \ {k}
    BY DEF Set
  <2>3. TypeOK'
    BY <2>1, <2>2 DEF IInv, TypeOK, Disarmed
  <2>4. TimersMatchSessions'
    BY <1>1, <2>1 DEF IInv, TypeOK, TimersMatchSessions, Disarmed
  <2>5. TimersMeasureIdleness'
    BY <1>1, <2>1, <2>2 DEF IInv, TypeOK, TimersMatchSessions, TimersMeasureIdleness, Disarmed
  <2> QED
    BY <2>3, <2>4, <2>5 DEF IInv
<1>2. CASE ~TtlFinite
  <2>1. TypeOK'
    BY <1>2 DEF IInv, TypeOK, Set, Disarmed
  <2>2. TimersMatchSessions'
    BY <1>2 DEF IInv, TypeOK, TimersMatchSessions, Set, Disarmed
  <2>3. TimersMeasureIdleness'
    BY <1>2 DEF IInv, TypeOK, TimersMeasureIdleness, Set
  <2> QED
    BY <2>1, <2>2, <2>3 DEF IInv
<1> QED
  BY <1>1, <1>2

LEMMA NextKeepsIInv == IInv /\ [Next]_vars => IInv'
<1> SUFFICES ASSUME IInv, [Next]_vars
             PROVE  IInv'
  OBVIOUS
<1> USE TtlAssumption, SentinelAssumption
<1>1. ASSUME NEW k \in Key, NEW v \in Value, Set(k, v)
      PROVE  IInv'
  BY <1>1, SetKeepsIInv
<1>2. ASSUME NEW k \in Key, GetHit(k)
      PROVE  IInv'
  <2>1. CASE TtlFinite
    <3>1. store[k].data \in Value
      BY <1>2 DEF IInv, TypeOK, GetHit
    <3> QED
      BY <1>2, <2>1, <3>1, SetKeepsIInv DEF GetHit
  <2>2. CASE ~TtlFinite
    BY <1>2, <2>2 DEF GetHit, IInv, TypeOK, TimersMatchSessions, TimersMeasureIdleness
  <2> QED
    BY <2>1, <2>2
<1>3. ASSUME NEW k \in Key, Delete(k)
      PROVE  IInv'
  <2>1. TypeOK'
    BY <1>3 DEF IInv, TypeOK, Delete, Disarmed
  <2>2. TimersMatchSessions'
    BY <1>3 DEF IInv, TypeOK, TimersMatchSessions, Delete, Disarmed
  <2>3. TimersMeasureIdleness'
    BY <1>3 DEF IInv, TypeOK, TimersMatchSessions, TimersMeasureIdleness, Delete, Disarmed
  <2> QED
    BY <2>1, <2>2, <2>3 DEF IInv
<1>4. ASSUME NEW h \in Handle, Expire(h)
      PROVE  IInv'
  <2> DEFINE k == timer[h].key
  <2>1. k \in Key /\ store[k] # NoSession /\ store[k].handle = h
    BY <1>4 DEF IInv, TypeOK, TimersMatchSessions, Expire
  <2>2. TypeOK'
    BY <1>4, <2>1 DEF IInv, TypeOK, Expire, Disarmed
  <2>3. TimersMatchSessions'
    BY <1>4, <2>1 DEF IInv, TypeOK, TimersMatchSessions, Expire, Disarmed
  <2>4. TimersMeasureIdleness'
    BY <1>4, <2>1 DEF IInv, TypeOK, TimersMatchSessions, TimersMeasureIdleness, Expire, Disarmed
  <2> QED
    BY <2>2, <2>3, <2>4 DEF IInv
<1>5. CASE Tick
  <2>1. TypeOK'
    BY <1>5 DEF IInv, TypeOK, Tick
  <2>2. TimersMatchSessions'
    BY <1>5 DEF IInv, TypeOK, TimersMatchSessions, Tick
  <2>3. TimersMeasureIdleness'
    BY <1>5 DEF IInv, TypeOK, TimersMatchSessions, TimersMeasureIdleness, Tick
  <2> QED
    BY <2>1, <2>2, <2>3 DEF IInv
<1>6. CASE UNCHANGED vars
  BY <1>6 DEF vars, IInv, TypeOK, TimersMatchSessions, TimersMeasureIdleness
<1> QED
  BY <1>1, <1>2, <1>3, <1>4, <1>5, <1>6 DEF Next

\* The state of a session store always has its type, for every set of keys,
\* values and timers (set, get, delete and the timer callback).
THEOREM TypeCorrect == Spec => []TypeOK
<1>1. IInv => TypeOK
  BY DEF IInv
<1> QED
  BY <1>1, InitIInv, NextKeepsIInv, PTL DEF Spec

\* No session is ever without its timer and no timer without its session.
THEOREM TimersMatch == Spec => []TimersMatchSessions
<1>1. IInv => TimersMatchSessions
  BY DEF IInv
<1> QED
  BY <1>1, InitIInv, NextKeepsIInv, PTL DEF Spec

\* The timer of a session has been running since its last use.
THEOREM TimersMeasure == Spec => []TimersMeasureIdleness
<1>1. IInv => TimersMeasureIdleness
  BY DEF IInv
<1> QED
  BY <1>1, InitIInv, NextKeepsIInv, PTL DEF Spec

----------------------------------------------------------------------------

\* A key that has an entry again no longer counts as lapsed.
LapsedAreGone == \A k \in lapsed : store[k] = NoSession

LEMMA NextKeepsLapsed == IInv /\ LapsedAreGone /\ [Next]_vars => LapsedAreGone'
<1> SUFFICES ASSUME IInv, LapsedAreGone, [Next]_vars
             PROVE  LapsedAreGone'
  OBVIOUS
<1>1. ASSUME NEW k \in Key, NEW v \in Value, Set(k, v)
      PROVE  LapsedAreGone'
  BY <1>1 DEF Set, LapsedAreGone, IInv, TypeOK
<1>2. ASSUME NEW k \in Key, GetHit(k)
      PROVE  LapsedAreGone'
  BY <1>2 DEF GetHit, Set, LapsedAreGone, IInv, TypeOK
<1>3. ASSUME NEW k \in Key, Delete(k)
      PROVE  LapsedAreGone'
  BY <1>3 DEF Delete, LapsedAreGone, IInv, TypeOK
<1>4. ASSUME NEW h \in Handle, Expire(h)
      PROVE  LapsedAreGone'
  BY <1>4 DEF Expire, LapsedAreGone, IInv, TypeOK
<1>5. CASE Tick
  BY <1>5 DEF Tick, LapsedAreGone
<1>6. CASE UNCHANGED vars
  BY <1>6 DEF vars, LapsedAreGone
<1> QED
  BY <1>1, <1>2, <1>3, <1>4, <1>5, <1>6 DEF Next

\* The refinement mapping of Promise, by name.
Entries == [k \in Key |-> IF store[k] = NoSession THEN NoSession ELSE store[k].data]

LEMMA SetPuts ==
  ASSUME IInv, NEW k \in Key, NEW v \in Value, Set(k, v)
  PROVE  /\ Entries' = [Entries EXCEPT ![k] = v]
         /\ idle' = [idle EXCEPT ![k] = 0]
         /\ lapsed' = lapsed \ {k}
<1> USE SentinelAssumption
<1>1. idle' = [idle EXCEPT ![k] = 0] /\ lapsed' = lapsed \ {k}
  BY DEF Set
<1>2. \E s \in Session : s.data = v /\ store' = [store EXCEPT ![k] = s]
  BY DEF Set, IInv, TypeOK
<1> QED
  BY <1>1, <1>2 DEF Entries, IInv, TypeOK

\* Every step of the store is a step of the expiring map, or changes nothing
\* a caller of the store can see.
LEMMA StepSimulation ==
  ASSUME IInv, LapsedAreGone, [Next]_vars
  PROVE  [Promise!Next]_(Promise!vars)
<1> USE TtlAssumption, SentinelAssumption
<1>1. ASSUME NEW k \in Key, NEW v \in Value, Set(k, v)
      PROVE  Promise!Put(k, v)
  BY <1>1, SetPuts DEF Promise!Put, Entries
<1>2. ASSUME NEW k \in Key, GetHit(k)
      PROVE  Promise!LookUp(k)
  <2>1. store[k].data \in Value /\ Entries[k] = store[k].data /\ Entries[k] # NoSession
    BY <1>2 DEF IInv, TypeOK, GetHit, Entries
  <2>0. k \notin lapsed
    BY <1>2 DEF GetHit, LapsedAreGone
  <2>2. CASE TtlFinite
    <3>1. Entries' = [Entries EXCEPT ![k] = store[k].data] /\ idle' = [idle EXCEPT ![k] = 0]
      BY <1>2, <2>1, <2>2, SetPuts DEF GetHit
    <3>2. Entries' = Entries
      BY <2>1, <3>1 DEF Entries
    <3>3. lapsed' = lapsed
      BY <1>2, <2>0, <2>1, <2>2, SetPuts DEF GetHit
    <3> QED
      BY <2>1, <3>1, <3>2, <3>3 DEF Promise!LookUp, Entries
  <2>3. CASE ~TtlFinite
    BY <1>2, <2>1, <2>3 DEF GetHit, Promise!LookUp, Entries
  <2> QED
    BY <2>2, <2>3
<1>3. ASSUME NEW k \in Key, Delete(k)
      PROVE  Promise!Remove(k)
  BY <1>3 DEF Delete, Promise!Remove, IInv, TypeOK
<1>4. ASSUME NEW h \in Handle, Expire(h)
      PROVE  \E k \in Key : Promise!Lapse(k)
  <2>1. PICK k \in Key : /\ k = timer[h].key /\ timer[h].left = 0
                        /\ store[k] # NoSession /\ store[k].handle = h
    BY <1>4 DEF IInv, TypeOK, TimersMatchSessions, Expire
  <2>2. TtlFinite
    BY <1>4, <2>1 DEF IInv, TimersMatchSessions
  <2>3. idle[k] = Ttl
    BY <2>1, <2>2 DEF IInv, TypeOK, TimersMeasureIdleness
  <2>4. Promise!Lapse(k)
    BY <1>4, <2>1, <2>3, TtlAssumption DEF Expire, Promise!Lapse, IInv, TypeOK
  <2> QED
    BY <2>1, <2>4
<1>5. CASE Tick
  <2>1. idle' = [k \in Key |-> IF Entries[k] # NoSession /\ idle[k] < Ttl
                               THEN idle[k] + 1 ELSE idle[k]]
    BY <1>5 DEF Tick, IInv, TypeOK, Entries
  <2> QED
    BY <1>5, <2>1 DEF Tick, Promise!Next, Promise!Pass, Entries
<1>6. CASE UNCHANGED vars
  BY <1>6 DEF vars, Promise!vars
<1> QED
  BY <1>1, <1>2, <1>3, <1>4, <1>5, <1>6 DEF Next, Promise!Next

\* InMemorySessionStore keeps the promise of an expiring map: an entry goes
\* only by delete, or after the whole time to live without a set or a get.
THEOREM Implementation == Spec => ImplementsExpiringMap
<1>1. Init => Promise!Init
  BY DEF Init, Promise!Init
<1>2. Init => LapsedAreGone
  BY DEF Init, LapsedAreGone
<1> QED
  BY <1>1, <1>2, InitIInv, NextKeepsIInv, NextKeepsLapsed, StepSimulation, PTL
     DEF Spec, ImplementsExpiringMap, Promise!Spec
====
