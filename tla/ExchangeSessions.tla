---- MODULE ExchangeSessions ----
(***************************************************************************)
(* The ccxt instances behind the gateway: PublicExchangeService and        *)
(* ExchangeInstanceService get or create one shared instance per exchange; *)
(* PrivateExchangeService makes, tests and removes one per user and        *)
(* exchange.  Both kinds live in session stores, which are maps whose      *)
(* entries expire (ImplementsExpiringMap of SessionStore).                 *)
(*                                                                         *)
(* Requests of many clients are in flight at once, and each goes on when   *)
(* the exchange has answered it; what it read from the store may be stale  *)
(* by then.  An await of the store itself gives way for a few microtasks   *)
(* only, in which no answer and no timer comes in, and is taken as part of *)
(* the step that makes the call.                                           *)
(*                                                                         *)
(* Bounds: Call is the number of requests in flight, Instance the number   *)
(* of instances that are stored or in use at once.                         *)
(***************************************************************************)
EXTENDS Naturals, FiniteSets

CONSTANTS
    PublicKey,      \* exchange ids
    PrivateKey,     \* userId:exchangeId
    Supported,      \* the keys of exchanges that ccxt knows
    Expiring,       \* the keys whose sessions may expire
    Instance,       \* ccxt instances
    Call,           \* slots for requests in flight
    None

Key == PublicKey \cup PrivateKey

ASSUME KeyAssumption ==
    /\ PublicKey \cap PrivateKey = {}
    /\ Supported \subseteq Key
    /\ Expiring \subseteq Key
    /\ None \notin Instance

VARIABLES
    store,      \* the instance each key has in its session store, or None
    markets,    \* the instances that have loaded their markets
    tested,     \* the instances whose balance has been fetched, by createConnection
    closed,     \* the instances on which close has been called, by removeConnection
    call        \* the requests in flight: where each is, its key and its instance

vars == <<store, markets, tested, closed, call>>

NoCall == [pc |-> "idle", key |-> None, exchange |-> None]

InFlight(a, pc) == call[a].pc = pc
Stored(i) == \E k \in Key : store[k] = i

\* An instance that nothing refers to any more is garbage, and stands for
\* one that has not been created yet.
Unused(i) == ~Stored(i) /\ \A a \in Call : call[a].exchange # i

Init ==
    /\ store = [k \in Key |-> None]
    /\ markets = {}
    /\ tested = {}
    /\ closed = {}
    /\ call = [a \in Call |-> NoCall]

Proceed(a, pc, k, i) ==
    call' = [call EXCEPT ![a] = [pc |-> pc, key |-> k, exchange |-> i]]

Finish(a) == call' = [call EXCEPT ![a] = NoCall]

\* exchangeFactory.create, and then loadMarkets asks the exchange.
Create(a, k) ==
    \E i \in Instance :
      /\ Unused(i)
      /\ markets' = markets \ {i}
      /\ tested' = tested \ {i}
      /\ closed' = closed \ {i}
      /\ Proceed(a, "loading", k, i)

----------------------------------------------------------------------------
(* Requests that use an instance. *)

\* A public request about an exchange whose instance is there: find it, await
\* what it is asked for, and change nothing but the time of use.
UsePublic(a, k) ==
    /\ call[a] = NoCall
    /\ k \in PublicKey
    /\ store[k] # None
    /\ Proceed(a, "using", k, store[k])
    /\ UNCHANGED <<store, markets, tested, closed>>

\* Faulty lookup: what is not there is used.
UseUnchecked(a, k) ==
    /\ call[a] = NoCall
    /\ k \in PrivateKey
    /\ Proceed(a, "using", k, store[k])
    /\ UNCHANGED <<store, markets, tested, closed>>

\* A private request about a session that is there, of the same shape.
UsePrivate(a, k) ==
    /\ call[a] = NoCall
    /\ k \in PrivateKey
    /\ store[k] # None
    /\ Proceed(a, "using", k, store[k])
    /\ UNCHANGED <<store, markets, tested, closed>>

\* Public requests create the instance that is not there; the factory throws
\* at an exchange it does not know, and private requests are refused.
GetOrCreatePublic(a, k) ==
    /\ call[a] = NoCall
    /\ k \in PublicKey \cap Supported
    /\ store[k] = None
    /\ Create(a, k)
    /\ UNCHANGED store

\* The exchange answers the request of the operation, or fails it.
UseSettles(a) ==
    /\ InFlight(a, "using")
    /\ Finish(a)
    /\ UNCHANGED <<store, markets, tested, closed>>

\* Faulty loading: the failure is not noticed.
LoadedAnyhow(a) ==
    /\ InFlight(a, "loading")
    /\ markets' \in {markets, markets \cup {call[a].exchange}}
    /\ store' = [store EXCEPT ![call[a].key] = call[a].exchange]
    /\ Proceed(a, IF call[a].key \in PublicKey THEN "using" ELSE "testing",
               call[a].key, call[a].exchange)
    /\ UNCHANGED <<tested, closed>>

\* loadMarkets has answered: the instance is stored, over any other that has
\* been stored meanwhile.  A private one is then tested by fetchBalance.
Loaded(a) ==
    /\ InFlight(a, "loading")
    /\ markets' = markets \cup {call[a].exchange}
    /\ store' = [store EXCEPT ![call[a].key] = call[a].exchange]
    /\ Proceed(a, IF call[a].key \in PublicKey THEN "using" ELSE "testing",
               call[a].key, call[a].exchange)
    /\ UNCHANGED <<tested, closed>>

\* loadMarkets has failed; the instance is dropped.
LoadFails(a) ==
    /\ InFlight(a, "loading")
    /\ Finish(a)
    /\ UNCHANGED <<store, markets, tested, closed>>

----------------------------------------------------------------------------
(* createConnection and removeConnection. *)

\* A session that is there is tested, whatever the new credentials are.
ConnectAgain(a, k) ==
    /\ call[a] = NoCall
    /\ k \in PrivateKey
    /\ store[k] # None
    /\ Proceed(a, "testing", k, store[k])
    /\ UNCHANGED <<store, markets, tested, closed>>

\* validateCredentials makes a temporary instance, if the exchange is known,
\* compares the credentials with those required, and awaits its close.
ConnectNew(a, k) ==
    /\ call[a] = NoCall
    /\ k \in PrivateKey \cap Supported
    /\ store[k] = None
    /\ Proceed(a, "validating", k, None)
    /\ UNCHANGED <<store, markets, tested, closed>>

\* The temporary instance has closed, or failed to.  The instance proper is
\* created without another look at the store ...
Validated(a) ==
    /\ InFlight(a, "validating")
    /\ Create(a, call[a].key)
    /\ UNCHANGED store

\* ... unless credentials are missing.
ValidationFails(a) ==
    /\ InFlight(a, "validating")
    /\ Finish(a)
    /\ UNCHANGED <<store, markets, tested, closed>>

TestPasses(a) ==
    /\ InFlight(a, "testing")
    /\ tested' = tested \cup {call[a].exchange}
    /\ Finish(a)
    /\ UNCHANGED <<store, markets, closed>>

\* Faulty test: the session that failed it stays.
TestFailsKeeping(a) ==
    /\ InFlight(a, "testing")
    /\ Finish(a)
    /\ UNCHANGED <<store, markets, tested, closed>>

\* fetchBalance has failed: whatever the key has in the store is deleted.
TestFails(a) ==
    /\ InFlight(a, "testing")
    /\ store' = [store EXCEPT ![call[a].key] = None]
    /\ Finish(a)
    /\ UNCHANGED <<markets, tested, closed>>

\* removeConnection closes the instance that is there, if there is one, and
\* goes on to delete the key in any case.
Remove(a, k) ==
    /\ call[a] = NoCall
    /\ k \in PrivateKey
    /\ closed' = closed \cup ({store[k]} \ {None})
    /\ Proceed(a, "removing", k, store[k])
    /\ UNCHANGED <<store, markets, tested>>

\* Faulty removal: an error of close leaves the session in the store.
CloseMayFail(a) ==
    /\ InFlight(a, "removing")
    /\ \E i \in {None, store[call[a].key]} : store' = [store EXCEPT ![call[a].key] = i]
    /\ Finish(a)
    /\ UNCHANGED <<markets, tested, closed>>

\* The instance has closed, or failed to, and the key is deleted, whatever it
\* has in the store by now.
RemoveSettles(a) ==
    /\ InFlight(a, "removing")
    /\ store' = [store EXCEPT ![call[a].key] = None]
    /\ Finish(a)
    /\ UNCHANGED <<markets, tested, closed>>

\* The session store drops a session that has not been used for its time.
Expire(k) ==
    /\ k \in Expiring
    /\ store[k] # None
    /\ store' = [store EXCEPT ![k] = None]
    /\ UNCHANGED <<markets, tested, closed, call>>

Next ==
    \/ \E a \in Call, k \in Key :
         \/ UsePublic(a, k) \/ UsePrivate(a, k) \/ GetOrCreatePublic(a, k)
         \/ ConnectAgain(a, k) \/ ConnectNew(a, k) \/ Remove(a, k)
    \/ \E a \in Call :
         \/ UseSettles(a) \/ Loaded(a) \/ LoadFails(a)
         \/ Validated(a) \/ ValidationFails(a) \/ TestPasses(a) \/ TestFails(a)
         \/ RemoveSettles(a)
    \/ \E k \in Key : Expire(k)

Spec == Init /\ [][Next]_vars

----------------------------------------------------------------------------

TypeOK ==
    /\ store \in [Key -> Instance \cup {None}]
    /\ markets \subseteq Instance
    /\ tested \subseteq Instance
    /\ closed \subseteq Instance
    /\ call \in [Call ->
          {NoCall}
            \cup [pc : {"using", "loading"}, key : Key, exchange : Instance]
            \cup [pc : {"testing"}, key : PrivateKey, exchange : Instance]
            \cup [pc : {"removing"}, key : PrivateKey, exchange : Instance \cup {None}]
            \cup [pc : {"validating"}, key : PrivateKey, exchange : {None}]]

\* Whoever finds an instance in a store, or has found it there and uses it
\* later, finds one with its markets loaded.
UsedAreReady ==
    /\ \A k \in Key : store[k] # None => store[k] \in markets
    /\ \A a \in Call :
         call[a].pc \in {"using", "testing", "removing"} /\ call[a].exchange # None =>
           call[a].exchange \in markets

\* A private session that stays in the store has passed its test, or some
\* createConnection is about to test it, however connects, removals and
\* failures overlap: a failed test never leaves its session behind.
SessionsAreTested ==
    \A k \in PrivateKey : store[k] # None =>
      \/ store[k] \in tested
      \/ \E a \in Call : /\ InFlight(a, "testing")
                         /\ call[a].key = k
                         /\ call[a].exchange = store[k]

\* A session that removeConnection has closed is on its way out of the store:
\* as long as it is there some removal of this very instance is under way, so
\* no removal ends with its session still stored.  Until it ends the closed
\* instance is found by others, and createConnection may even test it and
\* report success (Remove, ConnectAgain, TestPasses): nothing is said of that.
ClosedSessionsLeave ==
    \A k \in Key : store[k] \in closed =>
      \E a \in Call : /\ InFlight(a, "removing")
                      /\ call[a].key = k
                      /\ call[a].exchange = store[k]

\* "Get or create a public (shared) exchange instance": requests in flight
\* for one exchange share its instance.
PublicInstancesAreShared ==
    \A a, b \in Call :
      /\ InFlight(a, "using") /\ InFlight(b, "using")
      /\ call[a].key = call[b].key /\ call[a].key \in PublicKey
      => call[a].exchange = call[b].exchange

\* "If balance fetch fails, remove the exchange instance": the failure of one
\* connection removes the instance that failed, not another's that has taken
\* its place.
FailureRemovesItsOwn ==
    [][\A a \in Call :
         InFlight(a, "testing") /\ call'[a] = NoCall =>
           LET k == call[a].key
           IN  store[k] # call[a].exchange => store'[k] = store[k]]_vars
====
