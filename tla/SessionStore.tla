---- MODULE SessionStore ----
(***************************************************************************)
(* InMemorySessionStore<T>: a Map from keys to {data, timeoutHandle} and   *)
(* one setTimeout timer per entry, which deletes the entry when the time   *)
(* to live has passed since the last set or get.  Every method body runs   *)
(* without yielding to the event loop (the awaited this.set of get runs    *)
(* synchronously up to its end), so each is one action.  The event loop    *)
(* may run a due timer late, but never early.                              *)
(***************************************************************************)
EXTENDS Naturals

CONSTANTS
    Key, Value,
    Handle,      \* the NodeJS.Timeout objects; one per armed timer, and a spare
    Ttl,         \* sessionTtlMs, in units of time
    TtlFinite,   \* isFinite(this.sessionTtlMs)
    NoSession, NoHandle, Unarmed

ASSUME TtlAssumption == Ttl \in Nat \ {0} /\ TtlFinite \in BOOLEAN

ASSUME SentinelAssumption ==
    /\ NoHandle \notin Handle
    /\ NoSession \notin Value
    /\ NoSession \notin [data : Value, handle : Handle \cup {NoHandle}]
    /\ Unarmed \notin [key : Key, left : 0..Ttl]

VARIABLES
    store,    \* this.store
    timer,    \* the timers of the event loop: which key each deletes, and when
    idle,     \* history: time since the entry was last set or got, up to Ttl
    lapsed    \* history: keys whose latest entry was deleted by its timer

vars == <<store, timer, idle, lapsed>>

Session == [data : Value, handle : Handle \cup {NoHandle}]
Timer == [key : Key, left : 0..Ttl]

Init ==
    /\ store = [k \in Key |-> NoSession]
    /\ timer = [h \in Handle |-> Unarmed]
    /\ idle = [k \in Key |-> 0]
    /\ lapsed = {}

\* Faulty removeTimeout: the timer of a replaced entry stays armed.
DisarmedNever(k) == timer

\* removeTimeout: clearTimeout on the handle of the entry, if it has one.
Disarmed(k) ==
    [h \in Handle |-> IF store[k] # NoSession /\ store[k].handle = h
                      THEN Unarmed ELSE timer[h]]

\* Faulty set: the entry gets no timer.
SetUntimed(k, v) ==
    /\ store' = [store EXCEPT ![k] = [data |-> v, handle |-> NoHandle]]
    /\ timer' = Disarmed(k)
    /\ idle' = [idle EXCEPT ![k] = 0]
    /\ lapsed' = lapsed \ {k}

\* removeTimeout, then a new timer unless sessions live for ever, then the
\* new entry.
Set(k, v) ==
    /\ IF TtlFinite
       THEN \E h \in Handle :
              /\ timer[h] = Unarmed
              /\ store' = [store EXCEPT ![k] = [data |-> v, handle |-> h]]
              /\ timer' = [Disarmed(k) EXCEPT ![h] = [key |-> k, left |-> Ttl]]
       ELSE /\ store' = [store EXCEPT ![k] = [data |-> v, handle |-> NoHandle]]
            /\ timer' = Disarmed(k)
    /\ idle' = [idle EXCEPT ![k] = 0]
    /\ lapsed' = lapsed \ {k}

\* Faulty get: a hit leaves the running timer as it is.
GetHitWithoutRefresh(k) ==
    /\ store[k] # NoSession
    /\ idle' = [idle EXCEPT ![k] = 0]
    /\ UNCHANGED <<store, timer, lapsed>>

\* A hit restarts the time to live by setting the same data again.
GetHit(k) ==
    /\ store[k] # NoSession
    /\ IF TtlFinite THEN Set(k, store[k].data)
       ELSE idle' = [idle EXCEPT ![k] = 0] /\ UNCHANGED <<store, timer, lapsed>>

\* Faulty delete: the entry stays, without data.
DeleteData(k) ==
    /\ timer' = Disarmed(k)
    /\ store' = [store EXCEPT ![k] = [data |-> NoSession, handle |-> NoHandle]]
    /\ idle' = [idle EXCEPT ![k] = 0]
    /\ lapsed' = lapsed \ {k}

\* delete of a key, whether or not it has an entry.
Delete(k) ==
    /\ timer' = Disarmed(k)
    /\ store' = [store EXCEPT ![k] = NoSession]
    /\ idle' = [idle EXCEPT ![k] = 0]
    /\ lapsed' = lapsed \ {k}

\* The callback of a due timer: the timer is gone, and its key is deleted.
Expire(h) ==
    /\ timer[h] # Unarmed
    /\ timer[h].left = 0
    /\ LET k == timer[h].key
       IN  /\ timer' = [Disarmed(k) EXCEPT ![h] = Unarmed]
           /\ store' = [store EXCEPT ![k] = NoSession]
           /\ idle' = [idle EXCEPT ![k] = 0]
           /\ lapsed' = lapsed \cup {k}

\* One unit of time passes.
Tick ==
    /\ timer' = [h \in Handle |->
                   IF timer[h] # Unarmed /\ timer[h].left > 0
                   THEN [timer[h] EXCEPT !.left = @ - 1] ELSE timer[h]]
    /\ idle' = [k \in Key |->
                  IF store[k] # NoSession /\ idle[k] < Ttl THEN idle[k] + 1 ELSE idle[k]]
    /\ UNCHANGED <<store, lapsed>>

Next ==
    \/ \E k \in Key, v \in Value : Set(k, v)
    \/ \E k \in Key : GetHit(k) \/ Delete(k)
    \/ \E h \in Handle : Expire(h)
    \/ Tick

\* Time passes and Node eventually runs every timer that is due.
Fairness ==
    /\ WF_vars(Tick)
    /\ \A h \in Handle : WF_vars(Expire(h))

Spec == Init /\ [][Next]_vars
FairSpec == Spec /\ Fairness

----------------------------------------------------------------------------

TypeOK ==
    /\ store \in [Key -> Session \cup {NoSession}]
    /\ timer \in [Handle -> Timer \cup {Unarmed}]
    /\ idle \in [Key -> 0..Ttl]
    /\ lapsed \subseteq Key

\* Entries and armed timers correspond one to one: no entry is immortal, and
\* no timer of a replaced or deleted entry is left behind to delete a later
\* entry of the same key (set, delete and removeTimeout keep this).
TimersMatchSessions ==
    /\ \A k \in Key :
         store[k] # NoSession =>
           IF TtlFinite
           THEN /\ store[k].handle \in Handle
                /\ timer[store[k].handle] # Unarmed
                /\ timer[store[k].handle].key = k
           ELSE store[k].handle = NoHandle
    /\ \A h \in Handle :
         timer[h] # Unarmed =>
           /\ store[timer[h].key] # NoSession
           /\ store[timer[h].key].handle = h

\* The timer of an entry measures the time since its last use, whatever
\* mixture of set, get and delete of the key came before.
TimersMeasureIdleness ==
    \A k \in Key :
      /\ store[k] = NoSession => idle[k] = 0
      /\ store[k] # NoSession /\ TtlFinite => timer[store[k].handle].left + idle[k] = Ttl

\* The store is an expiring map: an entry goes only by delete, or after the
\* whole time to live without a set or a get.
Promise == INSTANCE ExpiringMap WITH
    Absent <- NoSession,
    map <- [k \in Key |-> IF store[k] = NoSession THEN NoSession ELSE store[k].data]

ImplementsExpiringMap == Promise!Spec

\* No session is kept for ever unless it is used again and again: an entry
\* that is neither set nor got is deleted by its timer.
UnusedSessionsExpire ==
    \A k \in Key : []<>(store[k] = NoSession \/ idle[k] = 0)
====
