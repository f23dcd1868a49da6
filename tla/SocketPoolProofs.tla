--------------------------- MODULE SocketPoolProofs ---------------------------
(***************************************************************************)
(* Proofs about SocketPool, for every set of calls, sockets and keys.      *)
(* IInv is preserved by every step; the safety properties follow from it.  *)
(* Then the pool is shown to implement WriteDelivery; the last part is     *)
(* about the end of the process that owns the pool (Shutdown).             *)
(***************************************************************************)
EXTENDS SocketPool, Shutdown, TLAPS, FiniteSetTheorems

\* The singleflight key discriminates as much as the pool key.
LEMMA DialKeyInjective ==
  ASSUME NEW k \in Key, NEW l \in Key, DialKey(k) = DialKey(l)
  PROVE  k = l
BY DEF DialKey, Key

\* Evicting a key leaves a pool of the same type.
LEMMA RemovalTyped ==
  ASSUME TypeOK, NEW k, removeConnection(k)
  PROVE  /\ pool' \in [Key -> Socket \cup {None}]
         /\ status' \in [Socket -> {"unused", "connecting", "open", "closed"}]
<1>1. pool' \in [Key -> Socket \cup {None}]
  BY DEF removeConnection, TypeOK
<1>2. status' \in [Socket -> {"unused", "connecting", "open", "closed"}]
  BY DEF removeConnection, TypeOK
<1> QED  BY <1>1, <1>2

TypeInv == TypeOK /\ StepsInOrder

\* Type correctness needs the two facts of StepsInOrder: without them the
\* second attempt could lead to a third, and None could be written on.
LEMMA TypeInvInit == Init => TypeInv
<1> SUFFICES ASSUME Init PROVE TypeInv
  OBVIOUS
<1>1. packet \in [Call -> [1..2 -> {"none", "sent", "handled"}]]
  BY DEF Init
<1>2. pool \in [Key -> Socket \cup {None}]
  BY DEF Init
<1>3. flight \in [DialKeys -> Call \cup {None}]
  BY DEF Init
<1>4. sockKey \in [Socket -> Key \cup {None}]
  BY DEF Init
<1>5. attempt \in [Call -> 1..2] /\ tried \in [Call -> SUBSET Socket]
  BY DEF Init
<1>6. TypeOK
  BY <1>1, <1>2, <1>3, <1>4, <1>5 DEF Init, TypeOK, Step, Leading
<1>7. StepsInOrder
  BY DEF Init, StepsInOrder
<1> QED  BY <1>6, <1>7 DEF TypeInv

LEMMA TypeInvStep == TypeInv /\ [Next]_vars => TypeInv'
<1> SUFFICES ASSUME TypeInv, [Next]_vars PROVE TypeInv'
  OBVIOUS
<1> USE CallKeyAssumption
    DEF TypeInv, TypeOK, StepsInOrder, dialVars, callVars, GoTo, Return
<1>1. ASSUME NEW c \in Call, CallStep(c) PROVE TypeInv'
  <2> CallKey[c] \in Key /\ DialKey(CallKey[c]) \in DialKeys
    BY DEF DialKeys
  <2> USE DEF Step, Leading
  <2>1. CASE Lookup(c)
    <3>1. CASE Connected(pool[CallKey[c]])
      BY <2>1, <3>1 DEF Lookup, Connected
    <3>2. CASE ~Connected(pool[CallKey[c]])
      BY <2>1, <3>2, RemovalTyped DEF Lookup
    <3> QED  BY <3>1, <3>2
  <2>2. CASE EnterFlight(c)
    <3>1. CASE flight[DialKey(CallKey[c])] = None
      BY <2>2, <3>1 DEF EnterFlight
    <3>2. CASE flight[DialKey(CallKey[c])] # None
      BY <2>2, <3>2 DEF EnterFlight
    <3> QED  BY <3>1, <3>2
  <2>3. CASE Recheck(c)
    <3>1. CASE Connected(pool[CallKey[c]])
      BY <2>3, <3>1 DEF Recheck, Connected
    <3>2. CASE ~Connected(pool[CallKey[c]])
      BY <2>3, <3>2 DEF Recheck
    <3> QED  BY <3>1, <3>2
  <2>4. CASE Create(c)
    <3> CallKey[c].user \in User
      BY DEF Key
    <3> QED  BY <2>4 DEF Create
  <2>5. CASE CreateFails(c)
    BY <2>5 DEF CreateFails
  <2>6. CASE AwaitConnected(c)
    BY <2>6 DEF AwaitConnected
  <2>7. CASE AwaitFails(c)
    BY <2>7 DEF AwaitFails
  <2>8. CASE Store(c)
    BY <2>8 DEF Store
  <2>9. CASE Land(c)
    BY <2>9 DEF Land, DialFailure
  <2>10. CASE Emit(c)
    <3>1. tried' \in [Call -> SUBSET Socket]
      BY <2>10 DEF Emit
    <3>2. packet' \in [Call -> [1..2 -> {"none", "sent", "handled"}]]
      BY <2>10 DEF Emit
    <3> QED  BY <2>10, <3>1, <3>2 DEF Emit
  <2>11. CASE AckArrives(c)
    BY <2>11 DEF AckArrives
  <2>12. CASE EmitFails(c)
    BY <2>12 DEF EmitFails
  <2>13. CASE Evict(c)
    <3>1. attempt' \in [Call -> 1..2]
      BY <2>13 DEF Evict
    <3> QED  BY <2>13, <3>1, RemovalTyped DEF Evict
  <2> QED
    BY <1>1, <2>1, <2>2, <2>3, <2>4, <2>5, <2>6, <2>7, <2>8, <2>9, <2>10, <2>11, <2>12,
       <2>13 DEF CallStep
<1>2. ASSUME NEW s \in Socket, SocketStep(s) PROVE TypeInv'
  <2>1. CASE BecomeReady(s)
    BY <2>1 DEF BecomeReady
  <2>2. CASE Drop(s)
    BY <2>2 DEF Drop
  <2>3. CASE SessionExpired(s)
    BY <2>3 DEF SessionExpired
  <2>4. CASE ExpiryEvicts(s)
    BY <2>4, RemovalTyped DEF ExpiryEvicts
  <2> QED  BY <1>2, <2>1, <2>2, <2>3, <2>4 DEF SocketStep
<1>3. ASSUME NEW c \in Call, NEW a \in 1..2, Handle(c, a) PROVE TypeInv'
  BY <1>3 DEF Handle
<1>4. CASE CloseAll
  BY <1>4 DEF CloseAll
<1>5. CASE UNCHANGED vars
  BY <1>5 DEF vars
<1> QED  BY <1>1, <1>2, <1>3, <1>4, <1>5 DEF Next

\* Every variable keeps its type: in particular a write has at most two
\* attempts, so there is at most one reconnect (FR-021).
THEOREM TypeCorrect == Spec => []TypeOK
<1>1. TypeInv => TypeOK
  BY DEF TypeInv
<1> QED  BY <1>1, TypeInvInit, TypeInvStep, PTL DEF Spec
-----------------------------------------------------------------------------
(* The inductive invariant.                                                *)

LEMMA IInvInit == Init => IInv
<1> SUFFICES ASSUME Init PROVE IInv
  OBVIOUS
<1>1. TypeOK /\ StepsInOrder
  BY TypeInvInit DEF TypeInv
<1>2. /\ LeadersOwnFlights /\ CallsHoldOwnSockets /\ PoolHoldsOwnSockets
      /\ NoneLiveWhileDialling
  BY CallKeyAssumption
     DEF Init, Leading, LeadersOwnFlights, CallsHoldOwnSockets, PoolHoldsOwnSockets,
         NoneLiveWhileDialling
<1>3. SocketsWellFormed /\ TokensWellFormed /\ NoSocketLeak /\ SpentTokenNotCached
  BY DEF Init, SocketsWellFormed, TokensWellFormed, NoSocketLeak, Live, SpentTokenNotCached
<1> QED  BY <1>1, <1>2, <1>3 DEF IInv

\* A step that at most closes used sockets keeps what is known of sockets and
\* of tokens, and brings no pooled socket to life.
LEMMA ClosingKeepsSockets ==
  ASSUME IInv, UNCHANGED <<dialVars, jwt, spent>>, expiring' \subseteq expiring,
         \A s \in Socket : \/ status'[s] = status[s]
                           \/ status[s] # "unused" /\ status'[s] = "closed",
         \A k \in Key : pool'[k] = pool[k] \/ pool'[k] = None
  PROVE  /\ SocketsWellFormed' /\ TokensWellFormed' /\ SpentTokenNotCached'
         /\ PoolHoldsOwnSockets'
         /\ \A k \in Key : Connected(pool[k])' => Connected(pool[k]) /\ pool'[k] = pool[k]
<1> USE DEF dialVars, IInv, TypeOK
<1>1. \A s \in Socket : status[s] # "unused" <=> status'[s] # "unused"
  OBVIOUS
<1>2. SocketsWellFormed'
  <2>1. \A s \in ready' : status'[s] \in {"open", "closed"}
    BY DEF SocketsWellFormed
  <2> QED  BY <1>1, <2>1 DEF SocketsWellFormed
<1>3. TokensWellFormed'
  BY <1>1 DEF TokensWellFormed
<1>4. SpentTokenNotCached'
  BY DEF SpentTokenNotCached
<1>5. PoolHoldsOwnSockets'
  BY DEF PoolHoldsOwnSockets
<1>6. \A k \in Key : Connected(pool[k])' => Connected(pool[k]) /\ pool'[k] = pool[k]
  BY DEF Connected
<1> QED  BY <1>2, <1>3, <1>4, <1>5, <1>6

\* Evicting a key closes at most the socket pooled there.
LEMMA RemovalCloses ==
  ASSUME IInv, NEW k \in Key, removeConnection(k)
  PROVE  /\ \A s \in Socket : \/ status'[s] = status[s] /\ s # pool[k]
                              \/ status[s] # "unused" /\ status'[s] = "closed"
         /\ \A l \in Key : pool'[l] = IF l = k THEN None ELSE pool[l]
<1>1. pool[k] # None => status[pool[k]] # "unused"
  BY DEF IInv, PoolHoldsOwnSockets, SocketsWellFormed
<1>2. \A s \in Socket : \/ status'[s] = status[s] /\ s # pool[k]
                        \/ status[s] # "unused" /\ status'[s] = "closed"
  BY <1>1, NoneAssumption DEF IInv, TypeOK, removeConnection
<1>3. \A l \in Key : pool'[l] = IF l = k THEN None ELSE pool[l]
  BY DEF IInv, TypeOK, removeConnection
<1> QED  BY <1>2, <1>3

\* Hence an eviction keeps everything that does not mention program counters,
\* and leaks no socket.
LEMMA RemovalKeepsPool ==
  ASSUME IInv, NEW k \in Key, removeConnection(k),
         UNCHANGED <<dialVars, jwt, spent, sock>>, expiring' \subseteq expiring,
         \A c \in Call : pc[c] \in {"await", "store"} => pc'[c] = pc[c]
  PROVE  /\ SocketsWellFormed' /\ TokensWellFormed' /\ SpentTokenNotCached'
         /\ PoolHoldsOwnSockets' /\ NoSocketLeak'
         /\ \A l \in Key : Connected(pool[l])' => Connected(pool[l])
<1>1. /\ SocketsWellFormed' /\ TokensWellFormed' /\ SpentTokenNotCached'
      /\ PoolHoldsOwnSockets'
      /\ \A l \in Key : Connected(pool[l])' => Connected(pool[l])
  BY RemovalCloses, ClosingKeepsSockets
<1>2. NoSocketLeak'
  <2> SUFFICES ASSUME NEW s \in Socket, Live(s)'
               PROVE  \/ pool'[sockKey'[s]] = s
                      \/ \E c \in Call : sock'[c] = s /\ pc'[c] \in {"await", "store"}
    BY DEF NoSocketLeak
  <2>1. Live(s) /\ s # pool[k]
    BY RemovalCloses DEF Live
  <2>2. sockKey[s] \in Key /\ sockKey'[s] = sockKey[s]
    BY <2>1 DEF IInv, SocketsWellFormed, Live, dialVars
  <2>3. CASE pool[sockKey[s]] = s
    BY <2>1, <2>2, <2>3, RemovalCloses
  <2>4. CASE \E c \in Call : sock[c] = s /\ pc[c] \in {"await", "store"}
    BY <2>4
  <2> QED  BY <2>1, <2>3, <2>4 DEF IInv, NoSocketLeak
<1> QED  BY <1>1, <1>2

LEMMA IInvStep == IInv /\ [Next]_vars => IInv'
<1> SUFFICES ASSUME IInv, [Next]_vars PROVE IInv'
  OBVIOUS
<1>1. TypeOK' /\ StepsInOrder'
  BY TypeInvStep DEF TypeInv, IInv
<1> USE CallKeyAssumption, NoneAssumption, <1>1
    DEF IInv, TypeOK, StepsInOrder, dialVars, callVars, GoTo, Return
<1>2. ASSUME NEW c \in Call, CallStep(c) PROVE IInv'
  <2> CallKey[c] \in Key
    OBVIOUS
  <2>1. CASE Lookup(c)
    <3>1. CASE Connected(pool[CallKey[c]])
      <4>1. /\ sock' = [sock EXCEPT ![c] = pool[CallKey[c]]]
            /\ pc[c] = "lookup" /\ pc' = [pc EXCEPT ![c] = "emit"]
            /\ UNCHANGED <<pool, flight, status, dialVars, expiring, jwt, spent, tried>>
        BY <2>1, <3>1 DEF Lookup
      <4>2. SocketsWellFormed' /\ TokensWellFormed' /\ SpentTokenNotCached'
            /\ PoolHoldsOwnSockets'
        BY <4>1, ClosingKeepsSockets
      <4>3. LeadersOwnFlights' /\ NoneLiveWhileDialling'
        BY <4>1 DEF LeadersOwnFlights, NoneLiveWhileDialling, Leading, Connected
      <4>4. CallsHoldOwnSockets'
        BY <3>1, <4>1 DEF CallsHoldOwnSockets, PoolHoldsOwnSockets, Connected
      <4>5. NoSocketLeak'
        BY <4>1 DEF NoSocketLeak, Live
      <4> QED  BY <4>2, <4>3, <4>4, <4>5
    <3>2. CASE ~Connected(pool[CallKey[c]])
      <4>1. /\ removeConnection(CallKey[c])
            /\ pc[c] = "lookup" /\ pc' = [pc EXCEPT ![c] = "dial"]
            /\ UNCHANGED <<flight, dialVars, expiring, jwt, spent, tried, sock>>
        BY <2>1, <3>2 DEF Lookup
      <4>2. /\ SocketsWellFormed' /\ TokensWellFormed' /\ SpentTokenNotCached'
            /\ PoolHoldsOwnSockets' /\ NoSocketLeak'
            /\ \A l \in Key : Connected(pool[l])' => Connected(pool[l])
        BY <4>1, RemovalKeepsPool
      <4>3. LeadersOwnFlights' /\ NoneLiveWhileDialling'
        BY <4>1, <4>2 DEF LeadersOwnFlights, NoneLiveWhileDialling, Leading
      <4>4. CallsHoldOwnSockets'
        BY <4>1, RemovalCloses DEF CallsHoldOwnSockets
      <4> QED  BY <4>2, <4>3, <4>4
    <3> QED  BY <3>1, <3>2
  <2>2. CASE EnterFlight(c)
    <3>1. /\ pc[c] = "dial"
          /\ \/ /\ flight[DialKey(CallKey[c])] = None
                /\ flight' = [flight EXCEPT ![DialKey(CallKey[c])] = c]
                /\ pc' = [pc EXCEPT ![c] = "recheck"]
             \/ pc' = [pc EXCEPT ![c] = "join"] /\ UNCHANGED flight
          /\ UNCHANGED <<pool, status, dialVars, expiring, jwt, spent, tried, sock>>
      BY <2>2 DEF EnterFlight
    <3>2. SocketsWellFormed' /\ TokensWellFormed' /\ SpentTokenNotCached'
          /\ PoolHoldsOwnSockets'
      BY <3>1, ClosingKeepsSockets
    <3>3. LeadersOwnFlights'
      <4> SUFFICES ASSUME NEW e \in Call, pc'[e] \in Leading
                   PROVE  flight'[DialKey(CallKey[e])] = e
        BY DEF LeadersOwnFlights
      <4> DialKey(CallKey[e]) \in DialKeys /\ DialKey(CallKey[c]) \in DialKeys
        BY DEF DialKeys
      <4>1. CASE e = c
        BY <3>1, <4>1 DEF Leading
      <4>2. CASE e # c
        <5>1. flight[DialKey(CallKey[e])] = e
          BY <3>1, <4>2 DEF LeadersOwnFlights
        <5> QED  BY <3>1, <5>1
      <4> QED  BY <4>1, <4>2
    <3>4. CallsHoldOwnSockets'
      BY <3>1 DEF CallsHoldOwnSockets
    <3>5. NoneLiveWhileDialling'
      BY <3>1 DEF NoneLiveWhileDialling, Connected
    <3>6. NoSocketLeak'
      <4>1. \A e \in Call : pc[e] \in {"await", "store"} => pc'[e] = pc[e] /\ sock'[e] = sock[e]
        BY <3>1
      <4> QED  BY <3>1, <4>1 DEF NoSocketLeak, Live
    <3> QED  BY <3>2, <3>3, <3>4, <3>5, <3>6
  <2>3. CASE Recheck(c)
    <3>1. /\ pc[c] = "recheck"
          /\ \/ /\ Connected(pool[CallKey[c]])
                /\ sock' = [sock EXCEPT ![c] = pool[CallKey[c]]]
                /\ pc' = [pc EXCEPT ![c] = "land"]
             \/ /\ ~Connected(pool[CallKey[c]])
                /\ pc' = [pc EXCEPT ![c] = "create"]
                /\ UNCHANGED sock
          /\ UNCHANGED <<pool, flight, status, dialVars, expiring, jwt, spent, tried>>
      BY <2>3 DEF Recheck
    <3>2. SocketsWellFormed' /\ TokensWellFormed' /\ SpentTokenNotCached'
          /\ PoolHoldsOwnSockets'
      BY <3>1, ClosingKeepsSockets
    <3>3. LeadersOwnFlights'
      BY <3>1 DEF LeadersOwnFlights, Leading
    <3>4. CallsHoldOwnSockets'
      <4>1. CASE Connected(pool[CallKey[c]]) /\ sock' = [sock EXCEPT ![c] = pool[CallKey[c]]]
                                           /\ pc' = [pc EXCEPT ![c] = "land"]
        BY <3>1, <4>1 DEF CallsHoldOwnSockets, PoolHoldsOwnSockets, Connected
      <4>2. CASE pc' = [pc EXCEPT ![c] = "create"] /\ UNCHANGED sock
        BY <3>1, <4>2 DEF CallsHoldOwnSockets
      <4> QED  BY <3>1, <4>1, <4>2
    <3>5. NoneLiveWhileDialling'
      BY <3>1 DEF NoneLiveWhileDialling, Connected
    <3>6. NoSocketLeak'
      <4>1. \A e \in Call : pc[e] \in {"await", "store"} => pc'[e] = pc[e] /\ sock'[e] = sock[e]
        BY <3>1
      <4> QED  BY <3>1, <4>1 DEF NoSocketLeak, Live
    <3> QED  BY <3>2, <3>3, <3>4, <3>5, <3>6
  <2>4. CASE Create(c)
    <3> DEFINE k == CallKey[c]
    <3>1. PICK s \in Socket :
            /\ status[s] = "unused"
            /\ \E j \in ({jwt[k.user]} \ {None}) \cup {s} :
                 /\ jwt' = [jwt EXCEPT ![k.user] = j]
                 /\ sockJwt' = [sockJwt EXCEPT ![s] = j]
            /\ status' = [status EXCEPT ![s] = "connecting"]
            /\ sockKey' = [sockKey EXCEPT ![s] = k]
            /\ sock' = [sock EXCEPT ![c] = s]
      BY <2>4 DEF Create
    <3>2. PICK j \in ({jwt[k.user]} \ {None}) \cup {s} :
            jwt' = [jwt EXCEPT ![k.user] = j] /\ sockJwt' = [sockJwt EXCEPT ![s] = j]
      BY <3>1
    <3>3. /\ pc[c] = "create" /\ pc' = [pc EXCEPT ![c] = "await"]
          /\ UNCHANGED <<pool, flight, ready, listening, expiring, spent, attempt, tried>>
      BY <2>4 DEF Create
    <3>4. k \in Key /\ k.user \in User
      BY DEF Key
    <3>5. \A t \in Socket : t # s =>
            status'[t] = status[t] /\ sockKey'[t] = sockKey[t] /\ sockJwt'[t] = sockJwt[t]
      BY <3>1, <3>2
    <3>6. status'[s] = "connecting" /\ sockKey'[s] = k /\ sockJwt'[s] = j
      BY <3>1, <3>2
    <3>7. j \in Socket /\ status'[j] # "unused" /\ sockKey'[j].user = k.user
      <4>1. CASE j = s
        BY <3>6, <4>1
      <4>2. CASE j # s
        <5>1. j = jwt[k.user] /\ j # None /\ j \in Socket
          BY <3>4, <4>2
        <5> QED  BY <3>4, <3>5, <4>2, <5>1 DEF TokensWellFormed
      <4> QED  BY <4>1, <4>2
    <3>8. LeadersOwnFlights'
      BY <3>3 DEF LeadersOwnFlights, Leading
    <3>9. CallsHoldOwnSockets'
      <4> SUFFICES ASSUME NEW e \in Call
                   PROVE  /\ sock'[e] # None => /\ status'[sock'[e]] # "unused"
                                                /\ sockKey'[sock'[e]] = CallKey[e]
                          /\ pc'[e] \in {"await", "store"} => sock'[e] # None
                          /\ pc'[e] = "store" => sock'[e] \in ready'
                          /\ \A t \in tried'[e] : /\ status'[t] # "unused"
                                                  /\ sockKey'[t] = CallKey[e]
        BY DEF CallsHoldOwnSockets
      <4>1. \A t \in tried[e] : t \in Socket /\ t # s
        BY <3>1 DEF CallsHoldOwnSockets
      <4>2. CASE e = c
        BY <3>1, <3>3, <3>5, <3>6, <4>1, <4>2 DEF CallsHoldOwnSockets
      <4>3. CASE e # c
        <5>1. sock'[e] = sock[e] /\ pc'[e] = pc[e]
          BY <3>1, <3>3, <4>3
        <5>2. sock[e] # s
          BY <3>1 DEF CallsHoldOwnSockets
        <5> QED  BY <3>3, <3>5, <4>1, <5>1, <5>2 DEF CallsHoldOwnSockets
      <4> QED  BY <4>2, <4>3
    <3>10. \A l \in Key : pool[l] # s
      BY <3>1 DEF PoolHoldsOwnSockets, SocketsWellFormed
    <3>11. PoolHoldsOwnSockets'
      BY <3>3, <3>5, <3>10 DEF PoolHoldsOwnSockets
    <3>12. NoneLiveWhileDialling'
      BY <3>3, <3>5, <3>10 DEF NoneLiveWhileDialling, Connected
    <3>13. NoSocketLeak'
      <4> SUFFICES ASSUME NEW t \in Socket, Live(t)'
                   PROVE  \/ pool'[sockKey'[t]] = t
                          \/ \E e \in Call : sock'[e] = t /\ pc'[e] \in {"await", "store"}
        BY DEF NoSocketLeak
      <4>1. CASE t = s
        BY <3>1, <3>3, <4>1
      <4>2. CASE t # s
        <5>1. \/ pool[sockKey[t]] = t
              \/ \E e \in Call : sock[e] = t /\ pc[e] \in {"await", "store"}
          BY <3>5, <4>2 DEF NoSocketLeak, Live
        <5> QED  BY <3>1, <3>3, <3>5, <4>2, <5>1
      <4> QED  BY <4>1, <4>2
    <3>14. SocketsWellFormed'
      <4>1. ASSUME NEW t \in Socket, status'[t] # "unused"
            PROVE  /\ sockKey'[t] \in Key
                   /\ sockJwt'[t] \in Socket
                   /\ status'[sockJwt'[t]] # "unused"
                   /\ sockKey'[sockJwt'[t]].user = sockKey'[t].user
        <5>1. CASE t = s
          BY <3>4, <3>6, <3>7, <5>1
        <5>2. CASE t # s
          <6>1. sockJwt[t] \in Socket /\ sockJwt[t] # s
            BY <3>1, <3>5, <4>1, <5>2 DEF SocketsWellFormed
          <6> QED  BY <3>5, <4>1, <5>2, <6>1 DEF SocketsWellFormed
        <5> QED  BY <5>1, <5>2
      <4>2. \A t \in ready' : status'[t] \in {"open", "closed"}
        BY <3>1, <3>3, <3>5 DEF SocketsWellFormed
      <4> QED  BY <3>3, <4>1, <4>2 DEF SocketsWellFormed
    <3>15. TokensWellFormed'
      <4>1. \A u \in User : jwt'[u] = IF u = k.user THEN j ELSE jwt[u]
        BY <3>2
      <4>2. \A u \in User : jwt[u] # None => jwt[u] \in Socket /\ jwt[u] # s
        BY <3>1 DEF TokensWellFormed
      <4>3. spent' \subseteq {t \in Socket : status'[t] # "unused"}
        BY <3>1, <3>3, <3>5 DEF TokensWellFormed
      <4>4. ASSUME NEW u \in User, jwt'[u] # None
            PROVE  status'[jwt'[u]] # "unused" /\ sockKey'[jwt'[u]].user = u
        <5>1. CASE u = k.user
          BY <3>7, <4>1, <5>1
        <5>2. CASE u # k.user
          <6>1. jwt'[u] = jwt[u] /\ jwt[u] # None
            BY <4>1, <4>4, <5>2
          <6> QED  BY <3>5, <4>2, <6>1 DEF TokensWellFormed
        <5> QED  BY <5>1, <5>2
      <4> QED  BY <4>3, <4>4 DEF TokensWellFormed
    <3>16. SpentTokenNotCached'
      BY <3>1, <3>2, <3>3, <3>4 DEF SpentTokenNotCached, TokensWellFormed
    <3> QED  BY <3>8, <3>9, <3>11, <3>12, <3>13, <3>14, <3>15, <3>16
  <2>5. CASE CreateFails(c)
    <3>1. /\ pc[c] = "create" /\ pc' = [pc EXCEPT ![c] = "land"]
          /\ sock' = [sock EXCEPT ![c] = None]
          /\ UNCHANGED <<pool, flight, status, dialVars, expiring, jwt, spent, tried>>
      BY <2>5 DEF CreateFails
    <3>2. SocketsWellFormed' /\ TokensWellFormed' /\ SpentTokenNotCached'
          /\ PoolHoldsOwnSockets'
      BY <3>1, ClosingKeepsSockets
    <3>3. LeadersOwnFlights' /\ NoneLiveWhileDialling'
      BY <3>1 DEF LeadersOwnFlights, Leading, NoneLiveWhileDialling, Connected
    <3>4. CallsHoldOwnSockets'
      BY <3>1 DEF CallsHoldOwnSockets
    <3>5. \A e \in Call : pc[e] \in {"await", "store"} => pc'[e] = pc[e] /\ sock'[e] = sock[e]
      BY <3>1
    <3>6. NoSocketLeak'
      BY <3>1, <3>5 DEF NoSocketLeak, Live
    <3> QED  BY <3>2, <3>3, <3>4, <3>6
  <2>6. CASE AwaitConnected(c)
    <3>1. /\ pc[c] = "await" /\ sock[c] \in ready /\ pc' = [pc EXCEPT ![c] = "store"]
          /\ listening' = listening \cup {sock[c]}
          /\ UNCHANGED <<pool, flight, status, ready, sockKey, sockJwt, expiring, jwt, spent,
                         sock, tried>>
      BY <2>6 DEF AwaitConnected
    <3>2. SocketsWellFormed' /\ TokensWellFormed' /\ SpentTokenNotCached'
      BY <3>1 DEF SocketsWellFormed, TokensWellFormed, SpentTokenNotCached
    <3>3. LeadersOwnFlights' /\ NoneLiveWhileDialling' /\ PoolHoldsOwnSockets'
      BY <3>1 DEF LeadersOwnFlights, Leading, NoneLiveWhileDialling, Connected,
                  PoolHoldsOwnSockets
    <3>4. CallsHoldOwnSockets' /\ NoSocketLeak'
      BY <3>1 DEF CallsHoldOwnSockets, NoSocketLeak, Live
    <3> QED  BY <3>2, <3>3, <3>4
  <2>7. CASE AwaitFails(c)
    <3>1. /\ pc[c] = "await" /\ pc' = [pc EXCEPT ![c] = "land"]
          /\ status' = [status EXCEPT ![sock[c]] = "closed"]
          /\ sock' = [sock EXCEPT ![c] = None]
          /\ UNCHANGED <<pool, flight, dialVars, expiring, jwt, spent, tried>>
      BY <2>7 DEF AwaitFails
    <3>2. sock[c] # None /\ status[sock[c]] # "unused" /\ sock[c] \in Socket
      BY <3>1 DEF CallsHoldOwnSockets
    <3>3. /\ SocketsWellFormed' /\ TokensWellFormed' /\ SpentTokenNotCached'
          /\ PoolHoldsOwnSockets'
          /\ \A l \in Key : Connected(pool[l])' => Connected(pool[l])
      BY <3>1, <3>2, ClosingKeepsSockets
    <3>4. LeadersOwnFlights' /\ NoneLiveWhileDialling'
      BY <3>1, <3>3 DEF LeadersOwnFlights, Leading, NoneLiveWhileDialling
    <3>5. CallsHoldOwnSockets' /\ NoSocketLeak'
      BY <3>1, <3>2 DEF CallsHoldOwnSockets, NoSocketLeak, Live
    <3> QED  BY <3>3, <3>4, <3>5
  <2>8. CASE Store(c)
    <3>1. /\ pc[c] = "store" /\ pc' = [pc EXCEPT ![c] = "land"]
          /\ pool' = [pool EXCEPT ![CallKey[c]] = sock[c]]
          /\ UNCHANGED <<flight, status, dialVars, expiring, jwt, spent, sock, tried>>
      BY <2>8 DEF Store
    <3>2. sock[c] # None /\ sock[c] \in ready /\ sockKey[sock[c]] = CallKey[c]
      BY <3>1 DEF CallsHoldOwnSockets
    <3>3. LeadersOwnFlights' /\ CallsHoldOwnSockets' /\ PoolHoldsOwnSockets'
      BY <3>1, <3>2 DEF LeadersOwnFlights, Leading, CallsHoldOwnSockets, PoolHoldsOwnSockets
    <3>4. NoneLiveWhileDialling'
      <4> SUFFICES ASSUME NEW e \in Call, pc'[e] \in {"create", "await", "store"}
                   PROVE  ~Connected(pool[CallKey[e]])'
        BY DEF NoneLiveWhileDialling
      <4>1. e # c /\ pc[e] \in {"create", "await", "store"}
        BY <3>1
      <4>2. CallKey[e] # CallKey[c]
        BY <3>1, <4>1 DEF LeadersOwnFlights, Leading
      <4> QED  BY <3>1, <4>1, <4>2 DEF NoneLiveWhileDialling, Connected
    <3>5. NoSocketLeak'
      <4> SUFFICES ASSUME NEW s \in Socket, Live(s)'
                   PROVE  \/ pool'[sockKey'[s]] = s
                          \/ \E e \in Call : sock'[e] = s /\ pc'[e] \in {"await", "store"}
        BY DEF NoSocketLeak
      <4>1. Live(s) /\ sockKey[s] \in Key
        BY <3>1 DEF Live, SocketsWellFormed
      <4>2. CASE s = sock[c]
        BY <3>1, <3>2, <4>2
      <4>3. CASE s # sock[c] /\ pool[sockKey[s]] = s
        <5>1. status[s] = "open"
          BY <4>1, <4>3 DEF PoolHoldsOwnSockets, SocketsWellFormed, Live
        <5>2. sockKey[s] # CallKey[c]
          BY <3>1, <4>3, <5>1 DEF NoneLiveWhileDialling, Connected
        <5> QED  BY <3>1, <4>1, <4>3, <5>2
      <4>4. CASE s # sock[c] /\ pool[sockKey[s]] # s
        <5>1. PICK e \in Call : sock[e] = s /\ pc[e] \in {"await", "store"}
          BY <4>1, <4>4 DEF NoSocketLeak
        <5> QED  BY <3>1, <4>4, <5>1
      <4> QED  BY <4>2, <4>3, <4>4
    <3>6. SocketsWellFormed' /\ TokensWellFormed' /\ SpentTokenNotCached'
      BY <3>1 DEF SocketsWellFormed, TokensWellFormed, SpentTokenNotCached
    <3> QED  BY <3>3, <3>4, <3>5, <3>6
  <2>9. CASE Land(c)
    <3> DEFINE sharing == {c} \cup {e \in Call : pc[e] = "join"
                                      /\ DialKey(CallKey[e]) = DialKey(CallKey[c])}
    <3>1. \A e \in sharing : CallKey[e] = CallKey[c]
      BY DialKeyInjective
    <3>2. \A e \in Call :
            /\ sock'[e] = IF e \in sharing THEN sock[c] ELSE sock[e]
            /\ pc'[e] = IF e \in sharing
                        THEN IF sock[c] = None THEN "done" ELSE "emit" ELSE pc[e]
      BY <2>9 DEF Land
    <3>3. /\ pc[c] = "land"
          /\ flight' = [flight EXCEPT ![DialKey(CallKey[c])] = None]
          /\ UNCHANGED <<pool, status, dialVars, expiring, jwt, spent, tried>>
      BY <2>9 DEF Land
    <3>4. SocketsWellFormed' /\ TokensWellFormed' /\ SpentTokenNotCached'
          /\ PoolHoldsOwnSockets'
      BY <3>3, ClosingKeepsSockets
    <3>5. LeadersOwnFlights'
      <4> SUFFICES ASSUME NEW e \in Call, pc'[e] \in Leading
                   PROVE  flight'[DialKey(CallKey[e])] = e
        BY DEF LeadersOwnFlights
      <4>1. e \notin sharing /\ pc[e] \in Leading /\ e # c
        BY <3>2 DEF Leading
      <4>2. flight[DialKey(CallKey[e])] = e /\ flight[DialKey(CallKey[c])] = c
        BY <3>3, <4>1 DEF LeadersOwnFlights, Leading
      <4> QED  BY <3>3, <4>1, <4>2
    <3>6. CallsHoldOwnSockets'
      <4> SUFFICES ASSUME NEW e \in Call
                   PROVE  /\ sock'[e] # None => /\ status'[sock'[e]] # "unused"
                                                /\ sockKey'[sock'[e]] = CallKey[e]
                          /\ pc'[e] \in {"await", "store"} => sock'[e] # None
                          /\ pc'[e] = "store" => sock'[e] \in ready'
                          /\ \A t \in tried'[e] : /\ status'[t] # "unused"
                                                  /\ sockKey'[t] = CallKey[e]
        BY DEF CallsHoldOwnSockets
      <4>1. CASE e \in sharing
        BY <3>1, <3>2, <3>3, <4>1 DEF CallsHoldOwnSockets
      <4>2. CASE e \notin sharing
        BY <3>2, <3>3, <4>2 DEF CallsHoldOwnSockets
      <4> QED  BY <4>1, <4>2
    <3>7. NoneLiveWhileDialling'
      BY <3>2, <3>3 DEF NoneLiveWhileDialling, Connected
    <3>8. NoSocketLeak'
      <4>1. \A e \in Call : pc[e] \in {"await", "store"} => pc'[e] = pc[e] /\ sock'[e] = sock[e]
        BY <3>2, <3>3
      <4> QED  BY <3>3, <4>1 DEF NoSocketLeak, Live
    <3> QED  BY <3>4, <3>5, <3>6, <3>7, <3>8
  <2>10. CASE Emit(c)
    <3>1. /\ pc[c] = "emit" /\ pc' = [pc EXCEPT ![c] = "wait"]
          /\ tried' = [tried EXCEPT ![c] = @ \cup {sock[c]}]
          /\ UNCHANGED <<pool, flight, status, dialVars, expiring, jwt, spent, sock>>
      BY <2>10 DEF Emit
    <3>2. SocketsWellFormed' /\ TokensWellFormed' /\ SpentTokenNotCached'
          /\ PoolHoldsOwnSockets'
      BY <3>1, ClosingKeepsSockets
    <3>3. LeadersOwnFlights' /\ NoneLiveWhileDialling'
      BY <3>1 DEF LeadersOwnFlights, Leading, NoneLiveWhileDialling, Connected
    <3>4. CallsHoldOwnSockets'
      BY <3>1 DEF CallsHoldOwnSockets
    <3>5. NoSocketLeak'
      <4>1. \A e \in Call : pc[e] \in {"await", "store"} => pc'[e] = pc[e] /\ sock'[e] = sock[e]
        BY <3>1
      <4> QED  BY <3>1, <4>1 DEF NoSocketLeak, Live
    <3> QED  BY <3>2, <3>3, <3>4, <3>5
  <2>11. CASE AckArrives(c) \/ EmitFails(c)
    <3>1. /\ pc[c] = "wait" /\ (pc' = [pc EXCEPT ![c] = "done"] \/ pc' = [pc EXCEPT ![c] = "evict"])
          /\ UNCHANGED <<pool, flight, status, dialVars, expiring, jwt, spent, sock, tried>>
      BY <2>11 DEF AckArrives, EmitFails
    <3>2. SocketsWellFormed' /\ TokensWellFormed' /\ SpentTokenNotCached'
          /\ PoolHoldsOwnSockets'
      BY <3>1, ClosingKeepsSockets
    <3>3. LeadersOwnFlights' /\ NoneLiveWhileDialling'
      BY <3>1 DEF LeadersOwnFlights, Leading, NoneLiveWhileDialling, Connected
    <3>4. CallsHoldOwnSockets' /\ NoSocketLeak'
      BY <3>1 DEF CallsHoldOwnSockets, NoSocketLeak, Live
    <3> QED  BY <3>2, <3>3, <3>4
  <2>12. CASE Evict(c)
    <3>1. /\ pc[c] = "evict" /\ pc' = [pc EXCEPT ![c] = "lookup"]
          /\ removeConnection(CallKey[c])
          /\ UNCHANGED <<flight, dialVars, expiring, jwt, spent, sock, tried>>
      BY <2>12 DEF Evict
    <3>2. /\ SocketsWellFormed' /\ TokensWellFormed' /\ SpentTokenNotCached'
          /\ PoolHoldsOwnSockets' /\ NoSocketLeak'
          /\ \A l \in Key : Connected(pool[l])' => Connected(pool[l])
      BY <3>1, RemovalKeepsPool
    <3>3. LeadersOwnFlights' /\ NoneLiveWhileDialling'
      BY <3>1, <3>2 DEF LeadersOwnFlights, NoneLiveWhileDialling, Leading
    <3>4. CallsHoldOwnSockets'
      BY <3>1, RemovalCloses DEF CallsHoldOwnSockets
    <3> QED  BY <3>2, <3>3, <3>4
  <2> QED
    BY <1>2, <2>1, <2>2, <2>3, <2>4, <2>5, <2>6, <2>7, <2>8, <2>9, <2>10, <2>11, <2>12
       DEF CallStep
<1>3. ASSUME NEW s \in Socket, SocketStep(s) PROVE IInv'
  <2>1. CASE BecomeReady(s)
    <3>1. /\ status[s] = "connecting" /\ status' = [status EXCEPT ![s] = "open"]
          /\ ready' = ready \cup {s}
          /\ UNCHANGED <<pool, flight, listening, sockKey, sockJwt, expiring, jwt, spent, callVars>>
      BY <2>1 DEF BecomeReady
    <3>2. \A k \in Key : pool[k] # s
      BY <3>1 DEF PoolHoldsOwnSockets, SocketsWellFormed
    <3>3. LeadersOwnFlights' /\ CallsHoldOwnSockets' /\ PoolHoldsOwnSockets'
      BY <3>1 DEF LeadersOwnFlights, CallsHoldOwnSockets, PoolHoldsOwnSockets
    <3>4. NoneLiveWhileDialling' /\ NoSocketLeak'
      BY <3>1, <3>2 DEF NoneLiveWhileDialling, Connected, NoSocketLeak, Live
    <3>5. SocketsWellFormed'
      BY <3>1 DEF SocketsWellFormed
    <3>6. TokensWellFormed' /\ SpentTokenNotCached'
      BY <3>1 DEF TokensWellFormed, SpentTokenNotCached
    <3> QED  BY <3>3, <3>4, <3>5, <3>6
  <2>2. CASE Drop(s)
    <3>1. /\ status[s] # "unused" /\ status' = [status EXCEPT ![s] = "closed"]
          /\ UNCHANGED <<pool, flight, dialVars, expiring, jwt, spent, callVars>>
      BY <2>2 DEF Drop
    <3>2. /\ SocketsWellFormed' /\ TokensWellFormed' /\ SpentTokenNotCached'
          /\ PoolHoldsOwnSockets'
          /\ \A l \in Key : Connected(pool[l])' => Connected(pool[l])
      BY <3>1, ClosingKeepsSockets
    <3>3. LeadersOwnFlights' /\ NoneLiveWhileDialling'
      BY <3>1, <3>2 DEF LeadersOwnFlights, Leading, NoneLiveWhileDialling
    <3>4. CallsHoldOwnSockets' /\ NoSocketLeak'
      BY <3>1 DEF CallsHoldOwnSockets, NoSocketLeak, Live
    <3> QED  BY <3>2, <3>3, <3>4
  <2>3. CASE SessionExpired(s)
    <3>1. /\ s \in listening /\ status[s] = "open"
          /\ jwt' = [jwt EXCEPT ![sockKey[s].user] = None]
          /\ spent' = spent \cup {sockJwt[s]}
          /\ expiring' = expiring \cup {s}
          /\ UNCHANGED <<pool, flight, status, dialVars, callVars>>
      BY <2>3 DEF SessionExpired
    <3>2. /\ sockJwt[s] \in Socket /\ status[sockJwt[s]] # "unused"
          /\ sockKey[sockJwt[s]].user = sockKey[s].user
      BY <3>1 DEF SocketsWellFormed
    <3>3. SpentTokenNotCached'
      <4> SUFFICES ASSUME NEW u \in User PROVE jwt'[u] \notin spent'
        BY DEF SpentTokenNotCached
      <4>1. None \notin spent'
        BY <3>1, <3>2 DEF TokensWellFormed
      <4>2. CASE u = sockKey[s].user
        BY <3>1, <4>1, <4>2
      <4>3. CASE u # sockKey[s].user
        <5>1. jwt'[u] = jwt[u] /\ jwt[u] \notin spent
          BY <3>1, <4>3 DEF SpentTokenNotCached
        <5>2. jwt[u] # sockJwt[s]
          BY <3>2, <4>3 DEF TokensWellFormed
        <5> QED  BY <3>1, <5>1, <5>2
      <4> QED  BY <4>2, <4>3
    <3>4. TokensWellFormed'
      BY <3>1, <3>2 DEF TokensWellFormed
    <3>5. SocketsWellFormed' /\ PoolHoldsOwnSockets'
      BY <3>1 DEF SocketsWellFormed, PoolHoldsOwnSockets
    <3>6. LeadersOwnFlights' /\ CallsHoldOwnSockets'
      BY <3>1 DEF LeadersOwnFlights, CallsHoldOwnSockets
    <3>7. NoneLiveWhileDialling' /\ NoSocketLeak'
      BY <3>1 DEF NoneLiveWhileDialling, Connected, NoSocketLeak, Live
    <3> QED  BY <3>3, <3>4, <3>5, <3>6, <3>7
  <2>4. CASE ExpiryEvicts(s)
    <3>1. /\ sockKey[s] \in Key /\ removeConnection(sockKey[s])
          /\ expiring' \subseteq expiring
          /\ UNCHANGED <<flight, dialVars, jwt, spent, callVars>>
      BY <2>4 DEF ExpiryEvicts, SocketsWellFormed
    <3>2. /\ SocketsWellFormed' /\ TokensWellFormed' /\ SpentTokenNotCached'
          /\ PoolHoldsOwnSockets' /\ NoSocketLeak'
          /\ \A l \in Key : Connected(pool[l])' => Connected(pool[l])
      BY <3>1, RemovalKeepsPool
    <3>3. LeadersOwnFlights' /\ NoneLiveWhileDialling'
      BY <3>1, <3>2 DEF LeadersOwnFlights, NoneLiveWhileDialling
    <3>4. CallsHoldOwnSockets'
      BY <3>1, RemovalCloses DEF CallsHoldOwnSockets
    <3> QED  BY <3>2, <3>3, <3>4
  <2> QED  BY <1>3, <2>1, <2>2, <2>3, <2>4 DEF SocketStep
<1>4. CASE (\E c \in Call, a \in 1..2 : Handle(c, a)) \/ UNCHANGED vars
  <2>1. UNCHANGED <<pool, flight, status, dialVars, expiring, jwt, spent, pc, sock, tried>>
    BY <1>4 DEF Handle, vars
  <2>2. SocketsWellFormed' /\ TokensWellFormed' /\ SpentTokenNotCached'
        /\ PoolHoldsOwnSockets'
    BY <2>1, ClosingKeepsSockets
  <2>3. LeadersOwnFlights' /\ CallsHoldOwnSockets'
    BY <2>1 DEF LeadersOwnFlights, CallsHoldOwnSockets
  <2>4. NoneLiveWhileDialling' /\ NoSocketLeak'
    BY <2>1 DEF NoneLiveWhileDialling, Connected, NoSocketLeak, Live
  <2> QED  BY <2>2, <2>3, <2>4
<1>5. CASE CloseAll
  <2>1. /\ \A k \in Key : pool'[k] = None
        /\ \A s \in Socket : status'[s] = IF \E k \in Key : pool[k] = s
                                          THEN "closed" ELSE status[s]
        /\ UNCHANGED <<flight, dialVars, expiring, jwt, spent, callVars>>
    BY <1>5 DEF CloseAll
  <2>2. \A s \in Socket : \/ status'[s] = status[s] /\ \A k \in Key : pool[k] # s
                          \/ status[s] # "unused" /\ status'[s] = "closed"
    BY <2>1 DEF PoolHoldsOwnSockets, SocketsWellFormed
  <2>3. /\ SocketsWellFormed' /\ TokensWellFormed' /\ SpentTokenNotCached'
        /\ PoolHoldsOwnSockets'
        /\ \A l \in Key : Connected(pool[l])' => Connected(pool[l])
    BY <2>1, <2>2, ClosingKeepsSockets
  <2>4. LeadersOwnFlights' /\ NoneLiveWhileDialling'
    BY <2>1, <2>3 DEF LeadersOwnFlights, NoneLiveWhileDialling
  <2>5. CallsHoldOwnSockets'
    BY <2>1, <2>2 DEF CallsHoldOwnSockets
  <2>6. NoSocketLeak'
    <3> SUFFICES ASSUME NEW s \in Socket, Live(s)'
                 PROVE  \E e \in Call : sock'[e] = s /\ pc'[e] \in {"await", "store"}
      BY DEF NoSocketLeak
    <3>1. Live(s) /\ \A k \in Key : pool[k] # s
      BY <2>2 DEF Live
    <3>2. sockKey[s] \in Key
      BY <3>1 DEF SocketsWellFormed, Live
    <3>3. PICK e \in Call : sock[e] = s /\ pc[e] \in {"await", "store"}
      BY <3>1, <3>2 DEF NoSocketLeak
    <3> QED  BY <2>1, <3>3
  <2> QED  BY <2>3, <2>4, <2>5, <2>6
<1> QED  BY <1>2, <1>3, <1>4, <1>5 DEF Next

LEMMA IInvHolds == Spec => []IInv
BY IInvInit, IInvStep, PTL DEF Spec

\* No socket leaks: every live socket is pooled or in the hands of its dialler
\* (GetConnection's W2).
THEOREM NeverLeaks == Spec => []NoSocketLeak
<1>1. IInv => NoSocketLeak
  BY DEF IInv
<1> QED  BY <1>1, IInvHolds, PTL

\* At any time at most one socket of a key is connecting or open: the re-check
\* inside the flight makes a store never replace a live socket.
THEOREM NeverTwoLiveSockets == Spec => []OneLiveSocketPerKey
<1>1. IInv => OneLiveSocketPerKey
  <2> SUFFICES ASSUME IInv, NEW s \in Socket, NEW t \in Socket,
                      Live(s), Live(t), sockKey[s] = sockKey[t]
               PROVE  s = t
    BY DEF OneLiveSocketPerKey
  <2> DEFINE k == sockKey[s]
             DialledBy(x, c) == sock[c] = x /\ pc[c] \in {"await", "store"}
  <2>1. k \in Key
    BY DEF IInv, SocketsWellFormed, Live
  <2>2. ASSUME NEW x \in Socket, Live(x), sockKey[x] = k, pool[k] = x
        PROVE  Connected(x)
    BY <2>1, <2>2, NoneAssumption
       DEF IInv, PoolHoldsOwnSockets, SocketsWellFormed, Live, Connected
  <2>3. ASSUME NEW x \in Socket, NEW c \in Call, DialledBy(x, c), sockKey[x] = k
        PROVE  CallKey[c] = k /\ ~Connected(pool[k])
    BY <2>3, NoneAssumption DEF IInv, CallsHoldOwnSockets, NoneLiveWhileDialling
  <2>4. ASSUME NEW c \in Call, NEW d \in Call, DialledBy(s, c), DialledBy(t, d)
        PROVE  c = d
    BY <2>3, <2>4 DEF IInv, LeadersOwnFlights, Leading
  <2>5. /\ pool[k] = s \/ \E c \in Call : DialledBy(s, c)
        /\ pool[k] = t \/ \E d \in Call : DialledBy(t, d)
    BY DEF IInv, NoSocketLeak
  <2>6. CASE pool[k] = s
    <3>1. ~ \E d \in Call : DialledBy(t, d)
      BY <2>2, <2>3, <2>6
    <3> QED  BY <2>5, <2>6, <3>1
  <2>7. CASE pool[k] # s
    <3>1. PICK c \in Call : DialledBy(s, c)
      BY <2>5, <2>7
    <3>2. pool[k] # t
      BY <2>2, <2>3, <3>1
    <3>3. PICK d \in Call : DialledBy(t, d)
      BY <2>5, <3>2
    <3> QED  BY <2>4, <3>1, <3>3
  <2> QED  BY <2>6, <2>7
<1> QED  BY <1>1, IInvHolds, PTL

\* Users and namespaces never share a socket, although a call may take the
\* result of a flight that another call led.
THEOREM WritersNeverShareSockets == Spec => []WritesOnOwnSocket
<1>1. IInv => WritesOnOwnSocket
  BY DEF IInv, CallsHoldOwnSockets, WritesOnOwnSocket
<1> QED  BY <1>1, IInvHolds, PTL

\* A token that a session_expired handler flushed is not cached again.
THEOREM SpentTokensStayOut == Spec => []SpentTokenNotCached
<1>1. IInv => SpentTokenNotCached
  BY DEF IInv
<1> QED  BY <1>1, IInvHolds, PTL
-----------------------------------------------------------------------------
(* The refinement: each step of the pool is a step of WriteDelivery, or     *)
(* changes neither what was handled nor what was returned.                  *)

\* What the mapping needs of the pool beyond its types: a call has put nothing on the
\* wire in an attempt it has not begun, and one that returned CONNECTION_ERROR never
\* began a second.
PacketsInOrder ==
  \A c \in Call :
    /\ outcome[c] = "none" <=> pc[c] # "done"
    /\ pc[c] \notin {"wait", "evict", "done"} => packet[c][attempt[c]] = "none"
    /\ attempt[c] = 1 \/ outcome[c] = "connErr" => packet[c][2] = "none"

DeliveryInv == TypeInv /\ PacketsInOrder

Delivered(c) == {a \in 1..2 : packet[c][a] = "handled"}

\* Counting to two.
LEMMA PacketsCounted ==
  ASSUME NEW P, P \subseteq 1..2
  PROVE  /\ Cardinality(P) = (IF 1 \in P THEN 1 ELSE 0) + (IF 2 \in P THEN 1 ELSE 0)
         /\ Cardinality(P) \in 0..2
<1>0. /\ Cardinality({}) = 0 /\ IsFiniteSet({})
      /\ Cardinality({1}) = 1 /\ IsFiniteSet({1})
      /\ Cardinality({2}) = 1
  BY FS_EmptySet, FS_Singleton
<1>1. Cardinality({1} \cup {2}) = 2
  BY <1>0, FS_AddElement
<1>2. \A x \in P : x = 1 \/ x = 2
  OBVIOUS
<1>3. CASE 1 \notin P /\ 2 \notin P
  <2>1. P = {}
    BY <1>2, <1>3
  <2> QED BY <1>0, <1>3, <2>1
<1>4. CASE 1 \in P /\ 2 \notin P
  <2>1. P = {1}
    BY <1>2, <1>4
  <2> QED BY <1>0, <1>4, <2>1
<1>5. CASE 1 \notin P /\ 2 \in P
  <2>1. P = {2}
    BY <1>2, <1>5
  <2> QED BY <1>0, <1>5, <2>1
<1>6. CASE 1 \in P /\ 2 \in P
  <2>1. P = {1} \cup {2}
    BY <1>2, <1>6
  <2> QED BY <1>1, <1>6, <2>1
<1> QED BY <1>3, <1>4, <1>5, <1>6

LEMMA CountAny ==
  ASSUME NEW p
  PROVE  LET n == Cardinality({a \in 1..2 : p[a] = "handled"}) IN
         /\ n = (IF p[1] = "handled" THEN 1 ELSE 0) + (IF p[2] = "handled" THEN 1 ELSE 0)
         /\ n \in 0..2
<1> DEFINE P == {a \in 1..2 : p[a] = "handled"}
<1>1. P \subseteq 1..2 /\ (1 \in P <=> p[1] = "handled") /\ (2 \in P <=> p[2] = "handled")
  OBVIOUS
<1> HIDE DEF P
<1>2. /\ Cardinality(P) = (IF p[1] = "handled" THEN 1 ELSE 0) + (IF p[2] = "handled" THEN 1 ELSE 0)
      /\ Cardinality(P) \in 0..2
  BY <1>1, PacketsCounted
<1> QED BY <1>2 DEF P

LEMMA Count ==
  ASSUME NEW c \in Call
  PROVE  /\ handledCount[c] = (IF packet[c][1] = "handled" THEN 1 ELSE 0)
                                + (IF packet[c][2] = "handled" THEN 1 ELSE 0)
         /\ handledCount[c] \in 0..2
BY CountAny DEF handledCount

\* The same of the state a step leads to.
LEMMA CountNext ==
  ASSUME NEW c \in Call
  PROVE  /\ handledCount'[c] = (IF packet'[c][1] = "handled" THEN 1 ELSE 0)
                                 + (IF packet'[c][2] = "handled" THEN 1 ELSE 0)
         /\ handledCount'[c] \in 0..2
BY CountAny DEF handledCount
-----------------------------------------------------------------------------
LEMMA PacketsStep == DeliveryInv /\ [Next]_vars => PacketsInOrder'
<1> SUFFICES ASSUME DeliveryInv, [Next]_vars PROVE PacketsInOrder'
  OBVIOUS
<1>t. TypeInv' /\ TypeOK /\ StepsInOrder
  BY TypeInvStep DEF DeliveryInv, TypeInv
<1> USE <1>t DEF DeliveryInv, TypeInv, TypeOK, StepsInOrder, PacketsInOrder, GoTo, Return
<1>1. ASSUME NEW c \in Call,
             Lookup(c) \/ EnterFlight(c) \/ Recheck(c) \/ Create(c) \/ CreateFails(c)
               \/ AwaitConnected(c) \/ AwaitFails(c) \/ Store(c)
      PROVE  PacketsInOrder'
  <2>1. /\ UNCHANGED <<packet, outcome, attempt>>
        /\ pc[c] \notin {"wait", "evict", "done"}
        /\ \E s \in Step \ {"wait", "evict", "done"} : pc' = [pc EXCEPT ![c] = s]
    BY <1>1 DEF Lookup, EnterFlight, Recheck, Create, CreateFails, AwaitConnected, AwaitFails,
       Store, Step, Leading
  <2> QED BY <2>1
<1>2. ASSUME NEW c \in Call, Land(c) PROVE PacketsInOrder'
  <2>1. UNCHANGED <<packet, attempt>>
    BY <1>2 DEF Land
  <2> SUFFICES ASSUME NEW e \in Call
               PROVE  /\ outcome'[e] = "none" <=> pc'[e] # "done"
                      /\ pc'[e] \notin {"wait", "evict", "done"} => packet[e][attempt[e]] = "none"
                      /\ attempt[e] = 1 \/ outcome'[e] = "connErr" => packet[e][2] = "none"
    BY <2>1
  <2>2. \/ pc'[e] = pc[e] /\ outcome'[e] = outcome[e]
        \/ pc[e] \in {"land", "join"} /\ pc'[e] = "emit" /\ outcome'[e] = outcome[e]
        \/ /\ pc[e] \in {"land", "join"} /\ pc'[e] = "done"
           /\ outcome'[e] = IF attempt[e] = 1 THEN "connErr" ELSE "expired"
    BY <1>2 DEF Land, DialFailure
  <2> QED BY <2>2
<1>3. ASSUME NEW c \in Call, Emit(c) PROVE PacketsInOrder'
  <2>1. /\ pc[c] = "emit" /\ pc' = [pc EXCEPT ![c] = "wait"] /\ UNCHANGED <<outcome, attempt>>
        /\ \/ packet' = [packet EXCEPT ![c] = [packet[c] EXCEPT ![attempt[c]] = "sent"]]
           \/ packet' = packet
    BY <1>3 DEF Emit
  <2> QED BY <2>1
<1>4. ASSUME NEW c \in Call, AckArrives(c) \/ EmitFails(c) PROVE PacketsInOrder'
  <2>1. /\ pc[c] = "wait" /\ UNCHANGED <<packet, attempt>>
        /\ \/ pc' = [pc EXCEPT ![c] = "evict"] /\ outcome' = outcome
           \/ /\ pc' = [pc EXCEPT ![c] = "done"]
              /\ \E o \in {"ok", "connErr", "expired"} :
                   /\ outcome' = [outcome EXCEPT ![c] = o]
                   /\ o = "connErr" => attempt[c] = 1
    BY <1>4 DEF AckArrives, EmitFails
  <2> QED BY <2>1
<1>5. ASSUME NEW c \in Call, Evict(c) PROVE PacketsInOrder'
  <2>1. /\ pc[c] = "evict" /\ pc' = [pc EXCEPT ![c] = "lookup"] /\ UNCHANGED <<packet, outcome>>
        /\ attempt' = [attempt EXCEPT ![c] = attempt[c] + 1]
    BY <1>5 DEF Evict
  <2>2. attempt[c] = 1 /\ packet[c][2] = "none" /\ outcome[c] = "none"
    BY <2>1
  <2>3. attempt'[c] = 2 /\ \A e \in Call \ {c} : attempt'[e] = attempt[e] /\ pc'[e] = pc[e]
    BY <2>1, <2>2
  <2>4. pc'[c] = "lookup"
    BY <2>1
  <2> QED BY <2>1, <2>2, <2>3, <2>4
<1>6. ASSUME NEW c \in Call, NEW a \in 1..2, Handle(c, a) PROVE PacketsInOrder'
  <2>1. /\ packet[c][a] = "sent" /\ UNCHANGED <<pc, outcome, attempt>>
        /\ packet' = [packet EXCEPT ![c] = [packet[c] EXCEPT ![a] = "handled"]]
    BY <1>6 DEF Handle
  <2> QED BY <2>1
<1>7. ASSUME UNCHANGED <<pc, attempt, packet, outcome>> PROVE PacketsInOrder'
  BY <1>7
<1>8. (\E s \in Socket : SocketStep(s)) \/ CloseAll \/ UNCHANGED vars
        => UNCHANGED <<pc, attempt, packet, outcome>>
  BY DEF SocketStep, BecomeReady, Drop, SessionExpired, ExpiryEvicts, CloseAll, vars, callVars
<1> QED BY <1>1, <1>2, <1>3, <1>4, <1>5, <1>6, <1>7, <1>8 DEF Next, CallStep

LEMMA DeliveryInvHolds == Spec => []DeliveryInv
<1>1. Init => DeliveryInv
  <2> SUFFICES ASSUME Init PROVE PacketsInOrder
    BY TypeInvInit DEF DeliveryInv
  <2> QED BY DEF Init, PacketsInOrder
<1>2. DeliveryInv /\ [Next]_vars => DeliveryInv'
  BY PacketsStep, TypeInvStep DEF DeliveryInv
<1> QED BY <1>1, <1>2, PTL DEF Spec
-----------------------------------------------------------------------------
(* The mapping: outcome for itself, handledCount for handled.              *)

LEMMA InitMaps == Init => Promise!Init
<1> SUFFICES ASSUME Init PROVE Promise!Init
  OBVIOUS
<1>1. ASSUME NEW c \in Call PROVE handledCount[c] = 0
  <2>1. packet[c][1] = "none" /\ packet[c][2] = "none"
    BY DEF Init
  <2> QED BY <2>1, Count
<1>2. handledCount = [c \in Call |-> 0]
  BY <1>1 DEF handledCount
<1> QED BY <1>2 DEF Init, Promise!Init

\* Where no packet changes, nothing is counted anew.
LEMMA SameCount ==
  ASSUME packet' = packet PROVE handledCount' = handledCount
BY DEF handledCount

LEMMA CountsEqual ==
  ASSUME \A c \in Call : handledCount'[c] = handledCount[c]
  PROVE  handledCount' = handledCount
BY DEF handledCount

\* The calls in C fail, each with the error o[c].
LEMMA FailMaps ==
  ASSUME DeliveryInv, packet' = packet, NEW C \in SUBSET Call,
         NEW o \in [C -> {"connErr", "expired"}],
         outcome' = [c \in Call |-> IF c \in C THEN o[c] ELSE outcome[c]],
         \A c \in C : pc[c] # "done" /\ (o[c] = "connErr" => attempt[c] = 1)
  PROVE  Promise!Next
<1>1. \A c \in C : outcome[c] = "none"
  BY DEF DeliveryInv, PacketsInOrder
<1>2. ASSUME NEW c \in C PROVE handledCount[c] <= Promise!MostDeliveries(o[c])
  <2>1. CASE o[c] = "connErr"
    <3>1. packet[c][2] = "none"
      BY <2>1 DEF DeliveryInv, PacketsInOrder
    <3> QED BY <2>1, <3>1, Count DEF Promise!MostDeliveries
  <2>2. CASE o[c] # "connErr"
    BY <2>2, Count DEF Promise!MostDeliveries
  <2> QED BY <2>1, <2>2
<1>3. handledCount' = handledCount
  BY SameCount
<1>4. Promise!Fail(C)
  BY <1>1, <1>2, <1>3 DEF Promise!Fail
<1> QED BY <1>4 DEF Promise!Next

LEMMA StepMaps == DeliveryInv /\ [Next]_vars => [Promise!Next]_Promise!vars
<1> SUFFICES ASSUME DeliveryInv, [Next]_vars
             PROVE  Promise!Next \/ UNCHANGED <<outcome, handledCount>>
  BY DEF Promise!vars
<1>t. TypeOK /\ StepsInOrder /\ PacketsInOrder /\ TypeOK'
  BY TypeInvStep DEF DeliveryInv, TypeInv
<1>1. ASSUME UNCHANGED <<packet, outcome>>
      PROVE  UNCHANGED <<outcome, handledCount>>
  BY <1>1, SameCount
<1>2. ASSUME NEW c \in Call, Land(c) PROVE Promise!Next
  <2> DEFINE sharing == {c} \cup {e \in Call : pc[e] = "join" /\ DialKey(CallKey[e]) = DialKey(CallKey[c])}
             failed == IF sock[c] = None THEN sharing ELSE {}
             o == [e \in failed |-> DialFailure(e)]
  <2>1. /\ pc[c] = "land" /\ packet' = packet
        /\ outcome' = [e \in Call |-> IF e \in failed THEN DialFailure(e) ELSE outcome[e]]
    BY <1>2 DEF Land
  <2>2. failed \in SUBSET Call /\ o \in [failed -> {"connErr", "expired"}]
    BY DEF DialFailure
  <2>3. outcome' = [e \in Call |-> IF e \in failed THEN o[e] ELSE outcome[e]]
    BY <2>1
  <2>4. \A e \in failed : pc[e] # "done" /\ (o[e] = "connErr" => attempt[e] = 1)
    BY <2>1 DEF DialFailure
  <2> HIDE DEF failed, o
  <2> QED BY <2>1, <2>2, <2>3, <2>4, FailMaps
<1>3. ASSUME NEW c \in Call, Emit(c) PROVE UNCHANGED <<outcome, handledCount>>
  <2>1. /\ pc[c] = "emit" /\ outcome' = outcome
        /\ \/ packet' = [packet EXCEPT ![c] = [packet[c] EXCEPT ![attempt[c]] = "sent"]]
           \/ packet' = packet
    BY <1>3 DEF Emit
  <2>2. packet[c][attempt[c]] = "none"
    BY <1>t, <2>1 DEF PacketsInOrder
  <2>3. ASSUME NEW e \in Call PROVE Delivered(e)' = Delivered(e)
    BY <1>t, <2>1, <2>2 DEF Delivered, TypeOK
  <2>4. handledCount' = handledCount
    BY <2>3 DEF handledCount, Delivered
  <2> QED BY <2>1, <2>4
<1>4. ASSUME NEW c \in Call, AckArrives(c) PROVE Promise!Next
  <2>1. /\ pc[c] = "wait" /\ packet[c][attempt[c]] = "handled" /\ attempt[c] \in 1..2
        /\ packet' = packet /\ outcome' = [outcome EXCEPT ![c] = "ok"]
    BY <1>4, <1>t DEF AckArrives, Return, TypeOK
  <2>2. outcome[c] = "none"
    BY <1>t, <2>1 DEF PacketsInOrder
  <2>3. handledCount[c] > 0
    <3>1. packet[c][1] = "handled" \/ packet[c][2] = "handled"
      BY <2>1
    <3> QED BY <3>1, Count
  <2>4. Promise!Succeed(c)
    BY <2>1, <2>2, <2>3, SameCount DEF Promise!Succeed
  <2> QED BY <2>4 DEF Promise!Next
<1>5. ASSUME NEW c \in Call, EmitFails(c) PROVE Promise!Next \/ UNCHANGED <<packet, outcome>>
  <2>1. /\ pc[c] = "wait" /\ packet' = packet
        /\ \/ outcome' = outcome
           \/ outcome' = [outcome EXCEPT ![c] = "connErr"] /\ attempt[c] = 1
           \/ outcome' = [outcome EXCEPT ![c] = "expired"]
    BY <1>5 DEF EmitFails, Return
  <2>2. CASE outcome' = outcome
    BY <2>1, <2>2
  <2>3. ASSUME NEW x \in {"connErr", "expired"}, outcome' = [outcome EXCEPT ![c] = x],
               x = "connErr" => attempt[c] = 1
        PROVE  Promise!Next
    <3> DEFINE o == [e \in {c} |-> x]
    <3>1. o \in [{c} -> {"connErr", "expired"}] /\ o[c] = x
      OBVIOUS
    <3>2. outcome' = [e \in Call |-> IF e \in {c} THEN o[e] ELSE outcome[e]]
      BY <1>t, <2>3 DEF TypeOK
    <3>3. \A e \in {c} : pc[e] # "done" /\ (o[e] = "connErr" => attempt[e] = 1)
      BY <2>1, <2>3
    <3> HIDE DEF o
    <3> QED BY <2>1, <3>1, <3>2, <3>3, FailMaps
  <2> QED BY <2>1, <2>2, <2>3
<1>6. ASSUME NEW c \in Call, NEW a \in 1..2, Handle(c, a) PROVE Promise!Next
  <2>1. /\ packet[c][a] = "sent" /\ outcome' = outcome
        /\ packet' = [packet EXCEPT ![c] = [packet[c] EXCEPT ![a] = "handled"]]
    BY <1>6 DEF Handle
  <2>2. \A e \in Call : e # c => packet'[e] = packet[e]
    BY <1>t, <2>1 DEF TypeOK
  <2>3. \A b \in 1..2 : packet'[c][b] = IF b = a THEN "handled" ELSE packet[c][b]
    BY <1>t, <2>1 DEF TypeOK
  <2>4. \A e \in Call : e # c => handledCount'[e] = handledCount[e]
    BY <2>2 DEF handledCount
  <2>5. handledCount'[c] = handledCount[c] + 1
    <3>1. handledCount'[c] = (IF packet'[c][1] = "handled" THEN 1 ELSE 0)
                               + (IF packet'[c][2] = "handled" THEN 1 ELSE 0)
      BY CountNext
    <3>2. handledCount[c] = (IF packet[c][1] = "handled" THEN 1 ELSE 0)
                              + (IF packet[c][2] = "handled" THEN 1 ELSE 0)
      BY Count
    <3>3. CASE a = 1
      BY <2>1, <2>3, <3>1, <3>2, <3>3
    <3>4. CASE a = 2
      BY <2>1, <2>3, <3>1, <3>2, <3>4
    <3> QED BY <3>3, <3>4
  <2>6. handledCount' = [handledCount EXCEPT ![c] = @ + 1]
    BY <2>4, <2>5 DEF handledCount
  <2>7. handledCount[c] < Promise!MostDeliveries(outcome[c])
    <3>1. handledCount'[c] \in 0..2 /\ handledCount[c] \in 0..2
      BY Count, CountNext
    <3>2. CASE outcome[c] = "connErr"
      <4>1. packet[c][2] = "none"
        BY <1>t, <3>2 DEF PacketsInOrder
      <4>2. a = 1
        BY <2>1, <4>1
      <4> QED BY <2>1, <3>2, <4>1, <4>2, Count DEF Promise!MostDeliveries
    <3>3. CASE outcome[c] # "connErr"
      BY <2>5, <3>1, <3>3 DEF Promise!MostDeliveries
    <3> QED BY <3>2, <3>3
  <2>8. Promise!Handle(c)
    BY <2>1, <2>6, <2>7 DEF Promise!Handle
  <2> QED BY <2>8 DEF Promise!Next
<1>7. ASSUME NEW c \in Call,
             Lookup(c) \/ EnterFlight(c) \/ Recheck(c) \/ Create(c) \/ CreateFails(c)
               \/ AwaitConnected(c) \/ AwaitFails(c) \/ Store(c) \/ Evict(c)
      PROVE  UNCHANGED <<packet, outcome>>
  BY <1>7 DEF Lookup, EnterFlight, Recheck, Create, CreateFails, AwaitConnected, AwaitFails,
     Store, Evict
<1>8. (\E s \in Socket : SocketStep(s)) \/ CloseAll \/ UNCHANGED vars
        => UNCHANGED <<packet, outcome>>
  BY DEF SocketStep, BecomeReady, Drop, SessionExpired, ExpiryEvicts, CloseAll, vars, callVars
<1> QED BY <1>1, <1>2, <1>3, <1>4, <1>5, <1>6, <1>7, <1>8 DEF Next, CallStep

\* Behind the pool, the dialling, the sockets and their expiry, a write is handled no
\* more often than its outcome says (SocketEmitWithAckNS): at least once for an ok, at
\* most once for CONNECTION_ERROR, at most twice in any case.
THEOREM PoolDelivers == Spec => DeliveryPromise
<1>1. DeliveryInv /\ [Next]_vars => [Promise!Next]_Promise!vars
  BY StepMaps
<1> QED BY <1>1, InitMaps, DeliveryInvHolds, PTL DEF Spec, DeliveryPromise, Promise!Spec
-----------------------------------------------------------------------------
(* The end of the process that owns the pool (Shutdown), for any set of    *)
(* requests: both goroutines reach their db.Close only by steps that come  *)
(* after the listener has closed, and nothing opens a listener again.      *)

\* Whoever is past the point where the listener closes.
PastListener ==
  /\ main # "serving" => ~listener
  /\ signal \notin {"waiting", "closeAll", "shutdown"} => ~listener

EndInv == ProcessTypeOK /\ PastListener /\ DbOutlivesListener

LEMMA EndInvInit == ProcessInit => EndInv
BY DEF ProcessInit, EndInv, ProcessTypeOK, PastListener, DbOutlivesListener

\* A step of the handlers leaves the goroutines, the listener and the database alone.
LEMMA HandlersKeepEnd ==
  ASSUME EndInv, NEW h \in Handler,
         \/ Connect(h) \/ Arrive(h) \/ PoolSocket(h)
         \/ Answer(h) \/ QueryPanics(h)
  PROVE  EndInv'
<1>1. UNCHANGED <<main, signal, listener, db>>
  BY DEF Connect, Arrive, PoolSocket, Answer, QueryPanics
<1>2. (handler \in [Handler -> {"none", "connected", "running", "answered", "panicked"}])'
  BY DEF EndInv, ProcessTypeOK, Connect, Arrive, PoolSocket, Answer,
     QueryPanics
<1>3. (pooled \subseteq Handler)'
  BY DEF EndInv, ProcessTypeOK, Connect, Arrive, PoolSocket, Answer,
     QueryPanics, Running
<1> QED BY <1>1, <1>2, <1>3 DEF EndInv, ProcessTypeOK, PastListener, DbOutlivesListener

LEMMA SignalKeepsEnd == EndInv /\ (SignalArrives \/ SignalStep) => EndInv'
<1> SUFFICES ASSUME EndInv, SignalArrives \/ SignalStep PROVE EndInv'
  OBVIOUS
<1> USE DEF EndInv, ProcessTypeOK, PastListener, DbOutlivesListener, Then
<1>1. CASE SignalArrives BY <1>1 DEF SignalArrives
<1>2. CASE CloseSockets BY <1>2 DEF CloseSockets
<1>3. CASE BeginShutdown BY <1>3 DEF BeginShutdown
<1>4. CASE Drained BY <1>4 DEF Drained
<1>5. CASE DrainTimesOut BY <1>5 DEF DrainTimesOut
<1>6. CASE SignalClosesDb BY <1>6 DEF SignalClosesDb
<1>7. CASE CancelContext BY <1>7 DEF CancelContext
<1> QED BY <1>1, <1>2, <1>3, <1>4, <1>5, <1>6, <1>7 DEF SignalStep

LEMMA MainKeepsEnd == EndInv /\ (ListenAndServeFails \/ MainStep) => EndInv'
<1> SUFFICES ASSUME EndInv, ListenAndServeFails \/ MainStep PROVE EndInv'
  OBVIOUS
<1> USE DEF EndInv, ProcessTypeOK, PastListener, DbOutlivesListener
<1>1. CASE ListenAndServeFails BY <1>1 DEF ListenAndServeFails
<1>2. CASE ListenAndServeReturns BY <1>2 DEF ListenAndServeReturns
<1>3. CASE FatalClosesSockets BY <1>3 DEF FatalClosesSockets
<1>4. CASE MainClosesDb BY <1>4 DEF MainClosesDb
<1>5. CASE Exit BY <1>5 DEF Exit
<1> QED BY <1>1, <1>2, <1>3, <1>4, <1>5 DEF MainStep

LEMMA EndInvStep == EndInv /\ [ProcessNext]_processVars => EndInv'
<1> SUFFICES ASSUME EndInv, [ProcessNext]_processVars PROVE EndInv'
  OBVIOUS
<1>1. CASE UNCHANGED processVars
  BY <1>1 DEF processVars, EndInv, ProcessTypeOK, PastListener, DbOutlivesListener
<1>2. CASE ProcessNext
  BY <1>2, HandlersKeepEnd, SignalKeepsEnd, MainKeepsEnd DEF ProcessNext
<1> QED BY <1>1, <1>2

LEMMA EndInvHolds == ProcessSpec => []EndInv
BY EndInvInit, EndInvStep, PTL DEF ProcessSpec

\* Every variable of the process keeps its type.
THEOREM EndTypeCorrect == ProcessSpec => []ProcessTypeOK
<1>1. EndInv => ProcessTypeOK BY DEF EndInv
<1> QED BY <1>1, EndInvHolds, PTL

\* However many requests run, and by either goroutine, the database is closed only
\* when no connection is accepted any more.
THEOREM DbClosesLast == ProcessSpec => []DbOutlivesListener
<1>1. EndInv => DbOutlivesListener BY DEF EndInv
<1> QED BY <1>1, EndInvHolds, PTL
=============================================================================
