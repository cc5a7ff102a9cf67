---- MODULE ExchangeSessionsProofs ----
(***************************************************************************)
(* Proofs about ExchangeSessions, for any keys, any number of instances    *)
(* and any number of requests in flight.                                   *)
(***************************************************************************)
EXTENDS ExchangeSessions, TLAPS

\* An instance that is still loading is known to its request alone: it is in
\* no store, no other request has it, and nobody has closed it.
LoadingArePrivate ==
    \A a \in Call : InFlight(a, "loading") =>
      /\ ~Stored(call[a].exchange)
      /\ call[a].exchange \notin closed
      /\ \A b \in Call \ {a} : call[b].exchange # call[a].exchange

\* No instance is stored under two keys.
StoredOnce ==
    \A j, k \in Key : store[j] = store[k] /\ store[j] # None => j = k

IInv ==
    /\ TypeOK
    /\ LoadingArePrivate
    /\ StoredOnce
    /\ UsedAreReady
    /\ SessionsAreTested
    /\ ClosedSessionsLeave

LEMMA InitIInv == Init => IInv
<1> SUFFICES ASSUME Init
             PROVE  IInv
  OBVIOUS
<1> USE KeyAssumption DEF Init
<1>1. TypeOK
  BY DEF TypeOK
<1>2. \A a \in Call : call[a].pc = "idle"
  BY DEF NoCall
<1>3. LoadingArePrivate /\ UsedAreReady
  BY <1>2 DEF LoadingArePrivate, UsedAreReady, InFlight
<1>4. StoredOnce /\ SessionsAreTested /\ ClosedSessionsLeave
  BY DEF StoredOnce, SessionsAreTested, ClosedSessionsLeave, Key
<1> QED
  BY <1>1, <1>3, <1>4 DEF IInv

----------------------------------------------------------------------------
(* A lemma for each kind of step: one that leaves the stores alone, one    *)
(* that creates an instance, stores one, deletes one, or closes one.       *)

\* A request that goes on to some state other than "loading", with nothing
\* stored and nothing created.
LEMMA StepAside ==
  ASSUME IInv, NEW a \in Call, NEW c,
         call' = [call EXCEPT ![a] = c],
         UNCHANGED <<store, markets>>,
         tested \subseteq tested', tested' \subseteq Instance,
         UNCHANGED closed,
         \/ c = NoCall
         \/ /\ c \in [pc : {"using"}, key : Key, exchange : Instance]
            /\ store[c.key] = c.exchange
         \/ /\ c \in [pc : {"testing"}, key : PrivateKey, exchange : Instance]
            /\ store[c.key] = c.exchange
         \/ c \in [pc : {"validating"}, key : PrivateKey, exchange : {None}],
         InFlight(a, "testing") => call[a].exchange \in tested',
         ~InFlight(a, "removing")
  PROVE  IInv'
<1> USE KeyAssumption DEF IInv
<1>1. /\ call'[a] = c
      /\ \A b \in Call \ {a} : call'[b] = call[b]
  BY DEF TypeOK
<1>2. TypeOK'
  BY DEF TypeOK
<1>3. c.pc # "loading"
  BY DEF NoCall
<1>4. LoadingArePrivate'
  <2> SUFFICES ASSUME NEW b \in Call, call'[b].pc = "loading"
               PROVE  /\ ~Stored(call[b].exchange)
                      /\ call[b].exchange \notin closed
                      /\ \A d \in Call \ {b} : call'[d].exchange # call[b].exchange
    BY <1>1, <1>3 DEF LoadingArePrivate, InFlight, Stored
  <2>1. b # a /\ call'[b] = call[b] /\ call[b].exchange \in Instance
    BY <1>1, <1>3 DEF TypeOK, NoCall
  <2>2. c.exchange # call[b].exchange
    BY <2>1 DEF LoadingArePrivate, InFlight, Stored, NoCall, Key
  <2> QED
    BY <1>1, <2>1, <2>2 DEF LoadingArePrivate, InFlight
<1>5. StoredOnce'
  BY DEF StoredOnce
<1>6. UsedAreReady'
  BY <1>1 DEF UsedAreReady, NoCall, Key
<1>7. SessionsAreTested'
  <2> SUFFICES ASSUME NEW k \in PrivateKey, store[k] # None, store[k] \notin tested'
               PROVE  \E b \in Call : /\ call'[b].pc = "testing"
                                      /\ call'[b].key = k
                                      /\ call'[b].exchange = store[k]
    BY DEF SessionsAreTested, InFlight
  <2>1. PICK b \in Call : InFlight(b, "testing") /\ call[b].key = k /\ call[b].exchange = store[k]
    BY DEF SessionsAreTested
  <2>2. b # a
    BY <2>1
  <2> QED
    BY <1>1, <2>1, <2>2 DEF InFlight
<1>8. ClosedSessionsLeave'
  BY <1>1 DEF ClosedSessionsLeave, InFlight
<1> QED
  BY <1>2, <1>4, <1>5, <1>6, <1>7, <1>8

\* A new instance is one that nobody has.
LEMMA StepCreate ==
  ASSUME IInv, NEW a \in Call, NEW k \in Key, Create(a, k), UNCHANGED store,
         call[a] = NoCall \/ InFlight(a, "validating")
  PROVE  IInv'
<1> USE KeyAssumption DEF IInv
<1>1. PICK i \in Instance :
         /\ Unused(i)
         /\ markets' = markets \ {i}
         /\ tested' = tested \ {i}
         /\ closed' = closed \ {i}
         /\ call' = [call EXCEPT ![a] = [pc |-> "loading", key |-> k, exchange |-> i]]
  BY DEF Create, Proceed
<1>2. /\ call'[a] = [pc |-> "loading", key |-> k, exchange |-> i]
      /\ \A b \in Call \ {a} : call'[b] = call[b]
  BY <1>1 DEF TypeOK
<1>3. /\ \A j \in Key : store[j] # i
      /\ \A b \in Call : call[b].exchange # i
      /\ call[a].pc \notin {"testing", "removing"}
  BY <1>1 DEF Unused, Stored, NoCall, InFlight
<1>4. TypeOK'
  BY <1>1 DEF TypeOK
<1>5. LoadingArePrivate'
  BY <1>1, <1>2, <1>3 DEF LoadingArePrivate, InFlight, Stored
<1>6. StoredOnce'
  BY DEF StoredOnce
<1>7. UsedAreReady'
  BY <1>1, <1>2, <1>3 DEF UsedAreReady
<1>8. SessionsAreTested'
  BY <1>1, <1>2, <1>3 DEF SessionsAreTested, InFlight, Key
<1>9. ClosedSessionsLeave'
  BY <1>1, <1>2, <1>3 DEF ClosedSessionsLeave, InFlight
<1> QED
  BY <1>4, <1>5, <1>6, <1>7, <1>8, <1>9

\* An instance that has loaded goes to the store, and is ready for it.
LEMMA StepLoaded ==
  ASSUME IInv, NEW a \in Call, Loaded(a)
  PROVE  IInv'
<1> USE KeyAssumption DEF IInv
<1> DEFINE i == call[a].exchange
           k == call[a].key
           c == [pc |-> IF k \in PublicKey THEN "using" ELSE "testing", key |-> k, exchange |-> i]
<1>1. /\ i \in Instance /\ k \in Key
      /\ ~Stored(i) /\ i \notin closed
      /\ \A b \in Call \ {a} : call[b].exchange # i
      /\ call[a].pc = "loading"
  BY DEF Loaded, InFlight, TypeOK, NoCall, LoadingArePrivate
<1>2. /\ markets' = markets \cup {i}
      /\ store' = [store EXCEPT ![k] = i]
      /\ call' = [call EXCEPT ![a] = c]
      /\ UNCHANGED <<tested, closed>>
  BY DEF Loaded, Proceed
<1>3. /\ call'[a] = c
      /\ \A b \in Call \ {a} : call'[b] = call[b]
      /\ store'[k] = i
      /\ \A j \in Key \ {k} : store'[j] = store[j]
  BY <1>1, <1>2 DEF TypeOK
<1>4. c \in [pc : {"using"}, key : Key, exchange : Instance]
        \cup [pc : {"testing"}, key : PrivateKey, exchange : Instance]
  BY <1>1 DEF Key
<1>5. k \in PrivateKey => c.pc = "testing"
  OBVIOUS
<1>6. c.key = k /\ c.exchange = i
  OBVIOUS
<1> HIDE DEF i, k, c
<1>7. TypeOK'
  BY <1>1, <1>2, <1>4 DEF TypeOK
<1>8. LoadingArePrivate'
  BY <1>1, <1>2, <1>3, <1>4, <1>6 DEF LoadingArePrivate, InFlight, Stored
<1>9. StoredOnce'
  BY <1>1, <1>3 DEF StoredOnce, Stored
<1>10. UsedAreReady'
  BY <1>1, <1>2, <1>3, <1>6 DEF UsedAreReady
<1>11. SessionsAreTested'
  BY <1>1, <1>2, <1>3, <1>5, <1>6 DEF SessionsAreTested, InFlight, Key
<1>12. ClosedSessionsLeave'
  BY <1>1, <1>2, <1>3 DEF ClosedSessionsLeave, InFlight
<1> QED
  BY <1>7, <1>8, <1>9, <1>10, <1>11, <1>12

\* Deleting an entry takes along the obligations there were about it.
LEMMA StepDelete ==
  ASSUME IInv, NEW k \in Key,
         store' = [store EXCEPT ![k] = None],
         UNCHANGED <<markets, tested, closed>>,
         \/ UNCHANGED call
         \/ \E a \in Call : call[a].key = k /\ call' = [call EXCEPT ![a] = NoCall]
  PROVE  IInv'
<1> USE KeyAssumption DEF IInv
<1>1. /\ store'[k] = None
      /\ \A j \in Key \ {k} : store'[j] = store[j]
  BY DEF TypeOK
<1>2. \A b \in Call : call'[b] = call[b] \/ (call'[b] = NoCall /\ call[b].key = k)
  BY DEF TypeOK
<1>3. TypeOK'
  BY DEF TypeOK
<1>4. LoadingArePrivate'
  <2> SUFFICES ASSUME NEW b \in Call, call'[b].pc = "loading"
               PROVE  /\ \A j \in Key : store'[j] # call'[b].exchange
                      /\ call'[b].exchange \notin closed
                      /\ \A d \in Call \ {b} : call'[d].exchange # call'[b].exchange
    BY DEF LoadingArePrivate, InFlight, Stored
  <2>1. call'[b] = call[b] /\ call[b].exchange \in Instance
    BY <1>2 DEF TypeOK, NoCall
  <2> QED
    BY <1>1, <1>2, <2>1 DEF LoadingArePrivate, InFlight, Stored, NoCall
<1>5. StoredOnce'
  BY <1>1 DEF StoredOnce
<1>6. UsedAreReady'
  BY <1>1, <1>2 DEF UsedAreReady, NoCall
<1>7. SessionsAreTested'
  <2> SUFFICES ASSUME NEW j \in PrivateKey, store'[j] # None, store'[j] \notin tested
               PROVE  \E b \in Call : /\ call'[b].pc = "testing"
                                      /\ call'[b].key = j
                                      /\ call'[b].exchange = store'[j]
    BY DEF SessionsAreTested, InFlight
  <2>1. j # k /\ store'[j] = store[j]
    BY <1>1 DEF Key
  <2>2. PICK b \in Call : InFlight(b, "testing") /\ call[b].key = j /\ call[b].exchange = store[j]
    BY <2>1 DEF SessionsAreTested
  <2> QED
    BY <1>2, <2>1, <2>2 DEF InFlight
<1>8. ClosedSessionsLeave'
  <2> SUFFICES ASSUME NEW j \in Key, store'[j] \in closed
               PROVE  \E b \in Call : /\ call'[b].pc = "removing"
                                      /\ call'[b].key = j
                                      /\ call'[b].exchange = store'[j]
    BY DEF ClosedSessionsLeave, InFlight
  <2>1. j # k /\ store'[j] = store[j]
    BY <1>1 DEF TypeOK
  <2>2. PICK b \in Call : InFlight(b, "removing") /\ call[b].key = j /\ call[b].exchange = store[j]
    BY <2>1 DEF ClosedSessionsLeave
  <2> QED
    BY <1>2, <2>1, <2>2 DEF InFlight
<1> QED
  BY <1>3, <1>4, <1>5, <1>6, <1>7, <1>8

\* removeConnection closes an instance that only its own key has, if any.
LEMMA StepRemove ==
  ASSUME IInv, NEW a \in Call, NEW k \in Key, Remove(a, k)
  PROVE  IInv'
<1> USE KeyAssumption DEF IInv
<1>1. /\ k \in PrivateKey /\ store[k] \in Instance \cup {None}
      /\ call[a] = NoCall
      /\ closed' = closed \cup ({store[k]} \ {None})
      /\ call' = [call EXCEPT ![a] = [pc |-> "removing", key |-> k, exchange |-> store[k]]]
      /\ UNCHANGED <<store, markets, tested>>
  BY DEF Remove, Proceed, TypeOK
<1>2. /\ call'[a] = [pc |-> "removing", key |-> k, exchange |-> store[k]]
      /\ \A b \in Call \ {a} : call'[b] = call[b]
  BY <1>1 DEF TypeOK
<1>3. TypeOK'
  BY <1>1 DEF TypeOK
<1>4. LoadingArePrivate'
  BY <1>1, <1>2 DEF LoadingArePrivate, InFlight, Stored
<1>5. StoredOnce'
  BY <1>1 DEF StoredOnce
<1>6. UsedAreReady'
  BY <1>1, <1>2 DEF UsedAreReady
<1>7. SessionsAreTested'
  BY <1>1, <1>2 DEF SessionsAreTested, InFlight, NoCall
<1>8. ClosedSessionsLeave'
  BY <1>1, <1>2 DEF ClosedSessionsLeave, StoredOnce, InFlight, NoCall
<1> QED
  BY <1>3, <1>4, <1>5, <1>6, <1>7, <1>8

----------------------------------------------------------------------------

LEMMA NextIInv == IInv /\ [Next]_vars => IInv'
<1> SUFFICES ASSUME IInv, [Next]_vars
             PROVE  IInv'
  OBVIOUS
<1> USE KeyAssumption
<1>1. TypeOK
  BY DEF IInv
<1>2. ASSUME NEW a \in Call, NEW k \in Key, UsePublic(a, k) \/ UsePrivate(a, k)
      PROVE  IInv'
  <2>1. store[k] \in Instance /\ call[a].pc = "idle"
    BY <1>1, <1>2 DEF UsePublic, UsePrivate, TypeOK, NoCall
  <2>2. /\ call' = [call EXCEPT ![a] = [pc |-> "using", key |-> k, exchange |-> store[k]]]
        /\ UNCHANGED <<store, markets, tested, closed>>
    BY <1>2 DEF UsePublic, UsePrivate, Proceed
  <2> QED
    BY <1>1, <2>1, <2>2, StepAside DEF InFlight, TypeOK
<1>3. ASSUME NEW a \in Call, NEW k \in Key, ConnectAgain(a, k)
      PROVE  IInv'
  <2>1. store[k] \in Instance /\ call[a].pc = "idle"
    BY <1>1, <1>3 DEF ConnectAgain, TypeOK, NoCall
  <2> QED
    BY <1>1, <1>3, <2>1, StepAside DEF ConnectAgain, Proceed, InFlight, TypeOK
<1>4. ASSUME NEW a \in Call, NEW k \in Key, ConnectNew(a, k)
      PROVE  IInv'
  <2>1. call[a].pc = "idle"
    BY <1>4 DEF ConnectNew, NoCall
  <2> QED
    BY <1>1, <1>4, <2>1, StepAside DEF ConnectNew, Proceed, InFlight, TypeOK
<1>5. ASSUME NEW a \in Call, UseSettles(a) \/ LoadFails(a) \/ ValidationFails(a) \/ TestPasses(a)
      PROVE  IInv'
  <2>1. /\ call' = [call EXCEPT ![a] = NoCall]
        /\ UNCHANGED <<store, markets, closed>>
        /\ call[a].pc # "removing"
    BY <1>5 DEF UseSettles, LoadFails, ValidationFails, TestPasses, Finish, InFlight
  <2>2. /\ tested \subseteq tested'
        /\ call[a].pc = "testing" => call[a].exchange \in tested'
    BY <1>5 DEF UseSettles, LoadFails, ValidationFails, TestPasses, InFlight
  <2>3. tested' \subseteq Instance
    BY <1>1, <1>5 DEF UseSettles, LoadFails, ValidationFails, TestPasses, InFlight, TypeOK, NoCall
  <2> QED
    BY <2>1, <2>2, <2>3, StepAside DEF InFlight
<1>6. ASSUME NEW a \in Call, NEW k \in Key, GetOrCreatePublic(a, k)
      PROVE  IInv'
  BY <1>6, StepCreate DEF GetOrCreatePublic
<1>7. ASSUME NEW a \in Call, Validated(a)
      PROVE  IInv'
  <2>1. call[a].key \in Key
    BY <1>1, <1>7 DEF Validated, InFlight, TypeOK, NoCall, Key
  <2> QED
    BY <1>7, <2>1, StepCreate DEF Validated
<1>8. ASSUME NEW a \in Call, TestFails(a) \/ RemoveSettles(a)
      PROVE  IInv'
  <2>1. call[a].key \in Key
    BY <1>1, <1>8 DEF TestFails, RemoveSettles, InFlight, TypeOK, NoCall, Key
  <2> QED
    BY <1>8, <2>1, StepDelete DEF TestFails, RemoveSettles, Finish
<1>9. ASSUME NEW k \in Key, Expire(k)
      PROVE  IInv'
  BY <1>9, StepDelete DEF Expire
<1>10. ASSUME UNCHANGED vars
       PROVE  IInv'
  BY <1>10 DEF vars, IInv, TypeOK, LoadingArePrivate, StoredOnce, UsedAreReady, SessionsAreTested,
               ClosedSessionsLeave, InFlight, Stored
<1> QED
  BY <1>2, <1>3, <1>4, <1>5, <1>6, <1>7, <1>8, <1>9, <1>10, StepLoaded, StepRemove DEF Next

LEMMA Invariance == Spec => []IInv
  BY InitIInv, NextIInv, PTL DEF Spec

\* Stores and requests always have their types: a request that uses or
\* tests has an instance, and one that validates has none yet.
THEOREM Typed == Spec => []TypeOK
<1>1. IInv => TypeOK
  BY DEF IInv
<1> QED
  BY Invariance, <1>1, PTL

\* No request is given an instance that is still loading its markets.
THEOREM Ready == Spec => []UsedAreReady
<1>1. IInv => UsedAreReady
  BY DEF IInv
<1> QED
  BY Invariance, <1>1, PTL

\* A failed test never leaves its session in the store, whatever runs beside it.
THEOREM Tested == Spec => []SessionsAreTested
<1>1. IInv => SessionsAreTested
  BY DEF IInv
<1> QED
  BY Invariance, <1>1, PTL

\* No removal ends with the session it has closed still in the store.
THEOREM Leave == Spec => []ClosedSessionsLeave
<1>1. IInv => ClosedSessionsLeave
  BY DEF IInv
<1> QED
  BY Invariance, <1>1, PTL
====
