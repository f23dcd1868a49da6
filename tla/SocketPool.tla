------------------------------ MODULE SocketPool ------------------------------
(***************************************************************************)
(* The Socket.IO connection pool of internal/socket/manager.go and the     *)
(* calls that write through it (SocketEmitWithAckNS).                      *)
(*                                                                         *)
(* Goroutines are calls; a step of a call is what it does between two      *)
(* blocking points or inside one critical section of the mutex mu.  The    *)
(* environment connects, drops and expires sockets, handles packets, and   *)
(* shuts the process down.  The socket library and the collaboration       *)
(* server are modelled from how manager.go uses them.                      *)
(*                                                                         *)
(* A cached collaboration token is named by the socket whose dial fetched  *)
(* it: createSocket either reuses the cached token of its user or fetches  *)
(* one that no earlier socket presented.                                   *)
(***************************************************************************)
EXTENDS Naturals, FiniteSets

CONSTANTS
  Call,       \* calls of SocketEmitWithAckNS, one write each
  Socket,     \* socket objects that may be created: bounds the dials
  Namespace, Resource, User,
  CallKey,    \* CallKey[c]: the (namespace, resource, user) c writes to
  None        \* no socket, no leader

\* socketKey
Key == [namespace : Namespace, resource : Resource, user : User]

ASSUME CallKeyAssumption == CallKey \in [Call -> Key]
ASSUME NoneAssumption == None \notin Socket /\ None \notin Call

DialKeyNoNamespace(k) == <<k.resource, k.user>>

\* The singleflight key; resource and user ids hold no colon, so joining the
\* three parts with colons loses nothing.
DialKey(k) == <<k.namespace, k.resource, k.user>>

VARIABLES
  pool,       \* connections: the pooled socket of each key
  flight,     \* dialGroup: the call that leads the flight of each dial key
  status,     \* of each socket: unused, connecting, open (Connected()), closed
  ready,      \* sockets on which the "connected" event has arrived
  listening,  \* sockets with the session_expired handler registered
  expiring,   \* sockets whose session_expired handler waits for mu
  sockKey,    \* the key each socket was dialled for
  sockJwt,    \* the token each socket presented
  jwt,        \* collabtoken's cached token of each user
  spent,      \* tokens a session_expired handler has flushed (history)
  pc,         \* where each call is
  sock,       \* the socket each call holds, None when the dial failed
  attempt,    \* 1, or 2 after the reconnect of FR-021
  tried,      \* sockets each call has emitted on (history)
  packet,     \* packet[c][a]: none, sent or handled by the server
  outcome,    \* what each call returned, "none" while it runs
  closing     \* CloseAll has run

callVars == <<pc, sock, attempt, tried, packet, outcome>>
dialVars == <<sockKey, sockJwt, ready, listening>>
vars == <<pool, flight, status, dialVars, expiring, jwt, spent, callVars, closing>>

DialKeys == {DialKey(k) : k \in Key}

\* A call that leads a flight is inside the function given to dialGroup.Do.
Leading == {"recheck", "create", "await", "store", "land"}
Step == Leading \cup {"lookup", "dial", "join", "emit", "wait", "evict", "done"}

TypeOK ==
  /\ pool \in [Key -> Socket \cup {None}]
  /\ flight \in [DialKeys -> Call \cup {None}]
  /\ status \in [Socket -> {"unused", "connecting", "open", "closed"}]
  /\ ready \subseteq Socket
  /\ listening \subseteq Socket
  /\ expiring \subseteq Socket
  /\ sockKey \in [Socket -> Key \cup {None}]
  /\ sockJwt \in [Socket -> Socket \cup {None}]
  /\ jwt \in [User -> Socket \cup {None}]
  /\ spent \subseteq Socket \cup {None}
  /\ pc \in [Call -> Step]
  /\ sock \in [Call -> Socket \cup {None}]
  /\ attempt \in [Call -> 1..2]
  /\ tried \in [Call -> SUBSET Socket]
  /\ packet \in [Call -> [1..2 -> {"none", "sent", "handled"}]]
  /\ outcome \in [Call -> {"none", "ok", "connErr", "expired"}]
  /\ closing \in BOOLEAN

Init ==
  /\ pool = [k \in Key |-> None]
  /\ flight = [d \in DialKeys |-> None]
  /\ status = [s \in Socket |-> "unused"]
  /\ ready = {} /\ listening = {} /\ expiring = {}
  /\ sockKey = [s \in Socket |-> None]
  /\ sockJwt = [s \in Socket |-> None]
  /\ jwt = [u \in User |-> None]
  /\ spent = {}
  /\ pc = [c \in Call |-> "lookup"]
  /\ sock = [c \in Call |-> None]
  /\ attempt = [c \in Call |-> 1]
  /\ tried = [c \in Call |-> {}]
  /\ packet = [c \in Call |-> [a \in 1..2 |-> "none"]]
  /\ outcome = [c \in Call |-> "none"]
  /\ closing = FALSE
-----------------------------------------------------------------------------
(* Helpers.                                                                *)

Connected(s) == s # None /\ status[s] = "open"

GoTo(c, step) == pc' = [pc EXCEPT ![c] = step]

RemoveOnly(k) ==
  /\ pool' = [pool EXCEPT ![k] = None]
  /\ UNCHANGED status

\* removeConnection: whichever socket is pooled under k is disconnected.
removeConnection(k) ==
  /\ pool' = [pool EXCEPT ![k] = None]
  /\ status' = [s \in Socket |-> IF s = pool[k] THEN "closed" ELSE status[s]]

Return(c, o) ==
  /\ GoTo(c, "done")
  /\ outcome' = [outcome EXCEPT ![c] = o]

\* GetConnection returned an error: CONNECTION_ERROR at first, SESSION_EXPIRED
\* when it was the reconnect that failed.
DialFailure(c) == IF attempt[c] = 1 THEN "connErr" ELSE "expired"
-----------------------------------------------------------------------------
(* A call.                                                                 *)

\* GetConnection's first critical section.
Lookup(c) ==
  LET k == CallKey[c] IN
  /\ pc[c] = "lookup"
  /\ \/ /\ Connected(pool[k])
        /\ sock' = [sock EXCEPT ![c] = pool[k]]
        /\ GoTo(c, "emit")
        /\ UNCHANGED <<pool, status>>
     \/ /\ ~Connected(pool[k])
        /\ removeConnection(k)
        /\ GoTo(c, "dial")
        /\ UNCHANGED sock
  /\ UNCHANGED <<flight, dialVars, expiring, jwt, spent, attempt, tried, packet,
                 outcome, closing>>

EnterFlightAlone(c) ==
  /\ pc[c] = "dial"
  /\ flight' = [flight EXCEPT ![DialKey(CallKey[c])] = c]
  /\ GoTo(c, "recheck")
  /\ UNCHANGED <<pool, status, dialVars, expiring, jwt, spent, sock, attempt, tried,
                 packet, outcome, closing>>

\* dialGroup.Do: lead a new flight or wait for the one in progress.
EnterFlight(c) ==
  LET d == DialKey(CallKey[c]) IN
  /\ pc[c] = "dial"
  /\ \/ /\ flight[d] = None
        /\ flight' = [flight EXCEPT ![d] = c]
        /\ GoTo(c, "recheck")
     \/ /\ flight[d] # None
        /\ GoTo(c, "join")
        /\ UNCHANGED flight
  /\ UNCHANGED <<pool, status, dialVars, expiring, jwt, spent, sock, attempt, tried,
                 packet, outcome, closing>>

\* The leader looks again: an earlier flight may have stored a socket.
Recheck(c) ==
  LET s == pool[CallKey[c]] IN
  /\ pc[c] = "recheck"
  /\ \/ /\ Connected(s)
        /\ sock' = [sock EXCEPT ![c] = s]
        /\ GoTo(c, "land")
     \/ /\ ~Connected(s)
        /\ GoTo(c, "create")
        /\ UNCHANGED sock
  /\ UNCHANGED <<pool, flight, status, dialVars, expiring, jwt, spent, attempt, tried,
                 packet, outcome, closing>>

\* createSocket succeeds: the token of the user is taken from the cache, or
\* fetched when none is cached or the cached one is about to expire.
Create(c) ==
  LET k == CallKey[c] IN
  /\ pc[c] = "create"
  /\ \E s \in Socket :
       /\ status[s] = "unused"
       /\ \E j \in ({jwt[k.user]} \ {None}) \cup {s} :
            /\ jwt' = [jwt EXCEPT ![k.user] = j]
            /\ sockJwt' = [sockJwt EXCEPT ![s] = j]
       /\ status' = [status EXCEPT ![s] = "connecting"]
       /\ sockKey' = [sockKey EXCEPT ![s] = k]
       /\ sock' = [sock EXCEPT ![c] = s]
  /\ GoTo(c, "await")
  /\ UNCHANGED <<pool, flight, ready, listening, expiring, spent, attempt, tried, packet,
                 outcome, closing>>

\* createSocket fails: no token (the authorization server, or the context of
\* the leading call) or no client.
CreateFails(c) ==
  /\ pc[c] = "create"
  /\ sock' = [sock EXCEPT ![c] = None]
  /\ GoTo(c, "land")
  /\ UNCHANGED <<pool, flight, status, dialVars, expiring, jwt, spent, attempt, tried,
                 packet, outcome, closing>>

\* waitForConnect returns nil and the session_expired handler is registered.
\* The socket may have dropped again since it was ready.
AwaitConnected(c) ==
  /\ pc[c] = "await"
  /\ sock[c] \in ready
  /\ listening' = listening \cup {sock[c]}
  /\ GoTo(c, "store")
  /\ UNCHANGED <<pool, flight, status, ready, sockKey, sockJwt, expiring, jwt, spent, sock,
                 attempt, tried, packet, outcome, closing>>

\* connect_error or the connect timeout; when the timer and the event race,
\* select picks either.
AwaitFails(c) ==
  /\ pc[c] = "await"
  /\ status' = [status EXCEPT ![sock[c]] = "closed"]
  /\ sock' = [sock EXCEPT ![c] = None]
  /\ GoTo(c, "land")
  /\ UNCHANGED <<pool, flight, dialVars, expiring, jwt, spent, attempt, tried, packet,
                 outcome, closing>>

Store(c) ==
  /\ pc[c] = "store"
  /\ pool' = [pool EXCEPT ![CallKey[c]] = sock[c]]
  /\ GoTo(c, "land")
  /\ UNCHANGED <<flight, status, dialVars, expiring, jwt, spent, sock, attempt, tried,
                 packet, outcome, closing>>

LandLeaderOnly(c) ==
  LET d == DialKey(CallKey[c])
      failed == IF sock[c] = None THEN {c} ELSE {}
  IN
  /\ pc[c] = "land"
  /\ flight' = [flight EXCEPT ![d] = None]
  /\ GoTo(c, IF sock[c] = None THEN "done" ELSE "emit")
  /\ outcome' = [e \in Call |-> IF e \in failed THEN DialFailure(e) ELSE outcome[e]]
  /\ UNCHANGED <<pool, status, dialVars, expiring, jwt, spent, sock, attempt, tried, packet,
                 closing>>

\* The flight ends: the leader and every call that joined it share the result.
Land(c) ==
  LET d == DialKey(CallKey[c])
      sharing == {c} \cup {e \in Call : pc[e] = "join" /\ DialKey(CallKey[e]) = d}
      failed == IF sock[c] = None THEN sharing ELSE {}
  IN
  /\ pc[c] = "land"
  /\ flight' = [flight EXCEPT ![d] = None]
  /\ sock' = [e \in Call |-> IF e \in sharing THEN sock[c] ELSE sock[e]]
  /\ pc' = [e \in Call |-> IF e \in failed THEN "done"
                           ELSE IF e \in sharing THEN "emit" ELSE pc[e]]
  /\ outcome' = [e \in Call |-> IF e \in failed THEN DialFailure(e) ELSE outcome[e]]
  /\ UNCHANGED <<pool, status, dialVars, expiring, jwt, spent, attempt, tried, packet,
                 closing>>

\* emitAck: a socket that is no longer connected buffers the packet for ever.
Emit(c) ==
  /\ pc[c] = "emit"
  /\ packet' = IF Connected(sock[c])
               THEN [packet EXCEPT ![c][attempt[c]] = "sent"] ELSE packet
  /\ tried' = [tried EXCEPT ![c] = @ \cup {sock[c]}]
  /\ GoTo(c, "wait")
  /\ UNCHANGED <<pool, flight, status, dialVars, expiring, jwt, spent, sock, attempt,
                 outcome, closing>>

AckArrives(c) ==
  /\ pc[c] = "wait"
  /\ packet[c][attempt[c]] = "handled"
  /\ Connected(sock[c])
  /\ Return(c, "ok")
  /\ UNCHANGED <<pool, flight, status, dialVars, expiring, jwt, spent, sock, attempt,
                 tried, packet, closing>>

EmitFailsRetryingAgain(c) ==
  /\ pc[c] = "wait"
  /\ \/ /\ Connected(sock[c])
        /\ Return(c, "connErr")
     \/ /\ ~Connected(sock[c])
        /\ GoTo(c, "evict")
        /\ UNCHANGED outcome
  /\ UNCHANGED <<pool, flight, status, dialVars, expiring, jwt, spent, sock, attempt,
                 tried, packet, closing>>

EmitFailsSameError(c) ==
  /\ pc[c] = "wait"
  /\ \/ /\ Connected(sock[c])
        /\ Return(c, "connErr")
     \/ /\ attempt[c] = 1 /\ ~Connected(sock[c])
        /\ GoTo(c, "evict")
        /\ UNCHANGED outcome
     \/ /\ attempt[c] = 2 /\ ~Connected(sock[c])
        /\ Return(c, "expired")
  /\ UNCHANGED <<pool, flight, status, dialVars, expiring, jwt, spent, sock, attempt,
                 tried, packet, closing>>

\* The ack timer fired or the socket dropped; ackErrorIsTimeout looks only at
\* whether the socket is connected now.
EmitFails(c) ==
  /\ pc[c] = "wait"
  /\ \/ /\ attempt[c] = 1 /\ Connected(sock[c])
        /\ Return(c, "connErr")
     \/ /\ attempt[c] = 1 /\ ~Connected(sock[c])
        /\ GoTo(c, "evict")
        /\ UNCHANGED outcome
     \/ /\ attempt[c] = 2
        /\ Return(c, "expired")
  /\ UNCHANGED <<pool, flight, status, dialVars, expiring, jwt, spent, sock, attempt,
                 tried, packet, closing>>

\* The one reconnect: evict by key, then GetConnection again.
Evict(c) ==
  /\ pc[c] = "evict"
  /\ removeConnection(CallKey[c])
  /\ attempt' = [attempt EXCEPT ![c] = @ + 1]
  /\ GoTo(c, "lookup")
  /\ UNCHANGED <<flight, dialVars, expiring, jwt, spent, sock, tried, packet, outcome,
                 closing>>
-----------------------------------------------------------------------------
(* The environment.                                                        *)

\* The namespace handshake completes with the application event "connected".
BecomeReady(s) ==
  /\ status[s] = "connecting"
  /\ status' = [status EXCEPT ![s] = "open"]
  /\ ready' = ready \cup {s}
  /\ UNCHANGED <<pool, flight, listening, sockKey, sockJwt, expiring, jwt, spent, callVars,
                 closing>>

\* The transport or the server closes the socket; reconnection is off.
Drop(s) ==
  /\ status[s] \in {"connecting", "open"}
  /\ status' = [status EXCEPT ![s] = "closed"]
  /\ UNCHANGED <<pool, flight, dialVars, expiring, jwt, spent, callVars, closing>>

\* The server handles a packet, even one whose sender has given up.
Handle(c, a) ==
  /\ packet[c][a] = "sent"
  /\ packet' = [packet EXCEPT ![c][a] = "handled"]
  /\ UNCHANGED <<pool, flight, status, dialVars, expiring, jwt, spent, pc, sock, attempt,
                 tried, outcome, closing>>

ExpireWithoutFlush(s) ==
  /\ s \in listening \ expiring
  /\ status[s] = "open"
  /\ spent' = spent \cup {sockJwt[s]}
  /\ expiring' = expiring \cup {s}
  /\ UNCHANGED <<pool, flight, status, dialVars, jwt, callVars, closing>>

\* session_expired reaches its handler, which flushes the token and goes on to
\* take mu.  Before the handler is registered the event is lost.
SessionExpired(s) ==
  /\ s \in listening \ expiring
  /\ status[s] = "open"
  /\ jwt' = [jwt EXCEPT ![sockKey[s].user] = None]
  /\ spent' = spent \cup {sockJwt[s]}
  /\ expiring' = expiring \cup {s}
  /\ UNCHANGED <<pool, flight, status, dialVars, callVars, closing>>

\* The handler's removeConnection: by key, whichever socket is pooled by now.
ExpiryEvicts(s) ==
  /\ s \in expiring
  /\ removeConnection(sockKey[s])
  /\ expiring' = expiring \ {s}
  /\ UNCHANGED <<flight, dialVars, jwt, spent, callVars, closing>>

\* Run once, by the signal handler; nothing stops later dials.
CloseAll ==
  /\ ~closing
  /\ closing' = TRUE
  /\ pool' = [k \in Key |-> None]
  /\ status' = [s \in Socket |->
                  IF \E k \in Key : pool[k] = s THEN "closed" ELSE status[s]]
  /\ UNCHANGED <<flight, dialVars, expiring, jwt, spent, callVars>>
-----------------------------------------------------------------------------
CallStep(c) ==
  \/ Lookup(c) \/ EnterFlight(c) \/ Recheck(c)
  \/ Create(c) \/ CreateFails(c) \/ AwaitConnected(c) \/ AwaitFails(c)
  \/ Store(c) \/ Land(c)
  \/ Emit(c) \/ AckArrives(c) \/ EmitFails(c) \/ Evict(c)

SocketStep(s) ==
  BecomeReady(s) \/ Drop(s) \/ SessionExpired(s) \/ ExpiryEvicts(s)

Next ==
  \/ \E c \in Call : CallStep(c)
  \/ \E s \in Socket : SocketStep(s)
  \/ \E c \in Call, a \in 1..2 : Handle(c, a)
  \/ CloseAll

Spec == Init /\ [][Next]_vars

\* Goroutines are scheduled and every wait ends: the connect and the ack timers
\* fire, the token request has a client timeout, a flight lands.  Nothing is
\* assumed of the network or of the server.
FairSpec == Spec /\ \A c \in Call : WF_vars(CallStep(c))
-----------------------------------------------------------------------------
(* Properties.                                                             *)

Live(s) == status[s] \in {"connecting", "open"}

\* No socket leaks (GetConnection's W2): a socket that is connecting or open is
\* pooled under its key or is in the hands of the call dialling it.
NoSocketLeak ==
  \A s \in Socket : Live(s) =>
    \/ pool[sockKey[s]] = s
    \/ \E c \in Call : sock[c] = s /\ pc[c] \in {"await", "store"}

\* Concurrent callers for one key are coalesced into one dial (W2): the server
\* never sees two live sockets of one user on one resource.
OneLiveSocketPerKey ==
  \A s, t \in Socket :
    Live(s) /\ Live(t) /\ sockKey[s] = sockKey[t] => s = t

\* Users and namespaces never share a socket (socketKey, dialKey): whatever
\* flight a call joined, it writes on a socket dialled for its own key.
WritesOnOwnSocket ==
  \A c \in Call : \A s \in tried[c] : sockKey[s] = CallKey[c]

\* After session_expired the next dial of the user cannot present the token of
\* the expired session: it is never in the cache again (Flush).
SpentTokenNotCached == \A u \in User : jwt[u] \notin spent

\* Every write returns to its caller, whatever the network does.
EveryCallReturns == \A c \in Call : <>(pc[c] = "done")

\* The pool implements the delivery promise of WriteDelivery.
handledCount == [c \in Call |-> Cardinality({a \in 1..2 : packet[c][a] = "handled"})]
Promise == INSTANCE WriteDelivery WITH handled <- handledCount
DeliveryPromise == Promise!Spec

\* Claimed by the comment on SocketEmitWithAckNS: after a disconnect the call reconnects, so the
\* retry is not made on the socket that had just failed.
RetryUsesNewSocket ==
  \A c \in Call : pc[c] = "wait" /\ attempt[c] = 2 => Cardinality(tried[c]) = 2
-----------------------------------------------------------------------------
(* The strengthening of the safety properties that every step preserves.   *)

\* A call that writes holds a socket; it gives up its first one only once.
StepsInOrder ==
  \A c \in Call :
    /\ pc[c] \in {"emit", "wait", "evict"} => sock[c] # None
    /\ pc[c] = "evict" => attempt[c] = 1

\* A leader is the one the flight of its key names.
LeadersOwnFlights ==
  \A c \in Call : pc[c] \in Leading => flight[DialKey(CallKey[c])] = c

\* A call only ever holds, and has only ever written on, sockets of its key.
CallsHoldOwnSockets ==
  \A c \in Call :
    /\ sock[c] # None => status[sock[c]] # "unused" /\ sockKey[sock[c]] = CallKey[c]
    /\ pc[c] \in {"await", "store"} => sock[c] # None
    /\ pc[c] = "store" => sock[c] \in ready
    /\ \A s \in tried[c] : status[s] # "unused" /\ sockKey[s] = CallKey[c]

\* A pooled socket is one that got ready, pooled under the key it was dialled for.
PoolHoldsOwnSockets ==
  \A k \in Key : pool[k] # None => pool[k] \in ready /\ sockKey[pool[k]] = k

\* While a call dials, no live socket is pooled under its key.
NoneLiveWhileDialling ==
  \A c \in Call : pc[c] \in {"create", "await", "store"} => ~Connected(pool[CallKey[c]])

SocketsWellFormed ==
  /\ \A s \in Socket : status[s] # "unused" =>
       /\ sockKey[s] \in Key
       /\ sockJwt[s] \in Socket
       /\ status[sockJwt[s]] # "unused"
       /\ sockKey[sockJwt[s]].user = sockKey[s].user
  /\ \A s \in ready : status[s] \in {"open", "closed"}
  /\ listening \subseteq ready
  /\ expiring \subseteq listening

\* The cached token was fetched by a dial of its user; only tokens that were
\* fetched are spent.
TokensWellFormed ==
  /\ \A u \in User : jwt[u] # None => status[jwt[u]] # "unused" /\ sockKey[jwt[u]].user = u
  /\ spent \subseteq {s \in Socket : status[s] # "unused"}

IInv ==
  /\ TypeOK /\ StepsInOrder /\ LeadersOwnFlights /\ CallsHoldOwnSockets /\ PoolHoldsOwnSockets
  /\ NoneLiveWhileDialling /\ SocketsWellFormed /\ TokensWellFormed
  /\ NoSocketLeak /\ SpentTokenNotCached
=============================================================================
