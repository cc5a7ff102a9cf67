---- MODULE ExpiringMap ----
(***************************************************************************)
(* What a session store promises its callers: a map from keys to values    *)
(* whose entries disappear when they are removed, or on their own once     *)
(* they have been idle (neither put nor looked up) for Ttl units of time,  *)
(* and never sooner.  InMemorySessionStore implements it with one          *)
(* JavaScript timer per entry (module SessionStore).                       *)
(***************************************************************************)
EXTENDS Naturals

CONSTANTS
    Key,      \* session keys
    Value,    \* what is stored under them
    Absent,   \* a key without an entry
    Ttl       \* units of idleness after which an entry may lapse

VARIABLES
    map,      \* the entry of each key
    idle,     \* units of time since the entry was last put or looked up
    lapsed    \* keys whose latest entry has lapsed, not been removed

vars == <<map, idle, lapsed>>

Init ==
    /\ map = [k \in Key |-> Absent]
    /\ idle = [k \in Key |-> 0]
    /\ lapsed = {}

Put(k, v) ==
    /\ map' = [map EXCEPT ![k] = v]
    /\ idle' = [idle EXCEPT ![k] = 0]
    /\ lapsed' = lapsed \ {k}

LookUp(k) ==
    /\ map[k] # Absent
    /\ idle' = [idle EXCEPT ![k] = 0]
    /\ UNCHANGED <<map, lapsed>>

Remove(k) ==
    /\ map' = [map EXCEPT ![k] = Absent]
    /\ idle' = [idle EXCEPT ![k] = 0]
    /\ lapsed' = lapsed \ {k}

\* An entry lapses only after Ttl units without a use.
Lapse(k) ==
    /\ map[k] # Absent
    /\ idle[k] >= Ttl
    /\ map' = [map EXCEPT ![k] = Absent]
    /\ idle' = [idle EXCEPT ![k] = 0]
    /\ lapsed' = lapsed \cup {k}

\* Time passes; idleness is not counted beyond Ttl.
Pass ==
    /\ idle' = [k \in Key |->
                  IF map[k] # Absent /\ idle[k] < Ttl THEN idle[k] + 1 ELSE idle[k]]
    /\ UNCHANGED <<map, lapsed>>

Next ==
    \/ \E k \in Key, v \in Value : Put(k, v)
    \/ \E k \in Key : LookUp(k) \/ Remove(k) \/ Lapse(k)
    \/ Pass

Spec == Init /\ [][Next]_vars
====
