-------------------------- MODULE CollabTokenProofs --------------------------
(***************************************************************************)
(* Proofs about CollabToken, for any calls, users, tokens, lifetimes and   *)
(* timeout.                                                                *)
(*                                                                         *)
(* The invariant follows a token from its minting to the cache: the call   *)
(* that fetched it alone has it (TokensInHand), so no flush can have seen  *)
(* it (FlushedAreOut); a request is led by one call per user, and only     *)
(* while the cache has nothing to serve (LeadersLookedAgain); and what is  *)
(* cached expires in time (EntriesExpireInTime).                           *)
(***************************************************************************)
EXTENDS CollabToken, TLAPS

Requesting == {"fetch", "response", "store"}
Holding == {"response", "store"}

\* A token in the cache, in hand or flushed has been minted; what is cached or in
\* hand, for the user it is cached for or of the call.
TokensAreMinted ==
  /\ \A u \in User : tokens[u] # None =>
       minted[tokens[u].token] # None /\ minted[tokens[u].token].user = u
  /\ \A g \in Get : result[g] # None =>
       minted[result[g]] # None /\ minted[result[g]].user = GetUser[g]
  /\ \A t \in flushed : minted[t] # None

\* What a request has fetched is not cached, flushed, or in the hands of another one.
TokensInHand ==
  \A g \in Get : pc[g] \in Holding =>
    /\ result[g] # None /\ result[g] \notin flushed
    /\ \A u \in User : tokens[u] # None => tokens[u].token # result[g]
    /\ \A h \in Get : pc[h] \in Holding /\ h # g => result[h] # result[g]

\* A leader is the one its flight names, and requests only if the cache had nothing.
LeadersLookedAgain ==
  \A g \in Get :
    /\ pc[g] \in Leading => sfGroup[GetUser[g]] = g
    /\ pc[g] \in Requesting => ~Fresh(tokens[GetUser[g]])

\* The seconds t is accepted for once it is served, if the request was in time.
InTime(t) == minted[t].life > Buffer => Remaining(t) > Buffer - FetchTimeout

\* A request is answered within its timeout, so a token with a long life expires at
\* most that much later than its entry says.
EntriesExpireInTime ==
  /\ \A u \in User : tokens[u] # None /\ minted[tokens[u].token].life > Buffer =>
       LET m == minted[tokens[u].token]
       IN  tokens[u].expiresAt <= m.at + FetchTimeout + m.life
  /\ \A g \in Get :
       /\ pc[g] \in Requesting => started[g] <= now /\ now <= started[g] + FetchTimeout
       /\ pc[g] \in Holding => minted[result[g]].at >= started[g]
       /\ pc[g] = "land" /\ result[g] # None => InTime(result[g])

IInv ==
  /\ TypeOK /\ TokensAreMinted /\ TokensInHand /\ FlushedStaysOut
  /\ LeadersLookedAgain /\ EntriesExpireInTime
-----------------------------------------------------------------------------
LEMMA InitEstablishes == Init => IInv
BY GetUserAssumption, TimeAssumption
   DEF Init, IInv, TypeOK, TokensAreMinted, TokensInHand, FlushedStaysOut, LeadersLookedAgain,
       EntriesExpireInTime, Step, Leading, Requesting, Holding

LEMMA MintingFields ==
  ASSUME NEW m \in Minting PROVE m.user \in User /\ m.at \in Nat /\ m.life \in Nat
<1>1. m.user \in User /\ m.at \in 0..MaxNow /\ m.life \in Lifetime
  BY DEF Minting
<1>2. Lifetime \subseteq Nat /\ MaxNow \in Nat
  BY TimeAssumption
<1>3. m.life \in Nat
  BY <1>1, <1>2
<1>4. m.at \in Nat
  BY <1>1, <1>2
<1> QED BY <1>1, <1>3, <1>4

\* What a look at the cache finds is in time: its entry expires late, but not by more
\* than the request took.
LEMMA CachedIsInTime ==
  ASSUME TypeOK, TokensAreMinted, EntriesExpireInTime, NEW u \in User, Fresh(tokens[u])
  PROVE  /\ tokens[u].token \in Token
         /\ minted[tokens[u].token] \in Minting
         /\ minted[tokens[u].token].user = u
         /\ InTime(tokens[u].token)
<1> DEFINE t == tokens[u].token
<1>1. tokens[u] \in Entry /\ t \in Token
  BY DEF TypeOK, Fresh, Entry
<1>2. minted[t] \in Minting /\ minted[t].user = u
  BY <1>1 DEF TypeOK, TokensAreMinted, Fresh
<1>3. SUFFICES ASSUME minted[t].life > Buffer
               PROVE  Remaining(t) > Buffer - FetchTimeout
  BY <1>1, <1>2 DEF InTime
<1>4. tokens[u].expiresAt <= minted[t].at + FetchTimeout + minted[t].life
  BY <1>3 DEF EntriesExpireInTime, Fresh
<1>5. now < tokens[u].expiresAt - Buffer
  BY DEF Fresh
<1>6. /\ minted[t].at \in Nat /\ minted[t].life \in Nat /\ tokens[u].expiresAt \in Nat
      /\ now \in Nat /\ Buffer \in Nat /\ FetchTimeout \in Nat
  BY <1>1, <1>2, MintingFields, TimeAssumption DEF TypeOK, Entry
<1> QED BY <1>4, <1>5, <1>6 DEF Remaining

\* A request that is answered in time leaves its token with more than the rest.
LEMMA FetchedIsInTime ==
  ASSUME TypeOK, TokensAreMinted, TokensInHand, EntriesExpireInTime,
         NEW g \in Get, pc[g] \in Holding
  PROVE  /\ result[g] \in Token /\ minted[result[g]] \in Minting
         /\ minted[result[g]].user = GetUser[g]
         /\ now <= minted[result[g]].at + FetchTimeout
         /\ InTime(result[g])
<1> DEFINE t == result[g]
<1>1. t \in Token /\ minted[t] \in Minting /\ minted[t].user = GetUser[g]
  BY DEF TypeOK, TokensAreMinted, TokensInHand
<1>2. now <= started[g] + FetchTimeout /\ minted[t].at >= started[g]
  BY DEF EntriesExpireInTime, Holding, Requesting
<1>3. /\ minted[t].at \in Nat /\ minted[t].life \in Nat /\ started[g] \in Nat
      /\ now \in Nat /\ Buffer \in Nat /\ FetchTimeout \in Nat
  BY <1>1, MintingFields, TimeAssumption DEF TypeOK
<1> QED BY <1>1, <1>2, <1>3 DEF InTime, Remaining
-----------------------------------------------------------------------------
(* One lemma per action.                                                   *)

LEMMA LookupPreserves == ASSUME IInv, NEW g \in Get, Lookup(g) PROVE IInv'
<1> DEFINE u == GetUser[g]
<1> USE DEF IInv
<1>1. u \in User /\ pc[g] = "lookup"
  BY GetUserAssumption DEF Lookup
<1>2. \A h \in Get : h # g => pc'[h] = pc[h] /\ result'[h] = result[h]
  BY DEF Lookup, GoTo, TypeOK
<1>3. pc' \in [Get -> Step] /\ pc'[g] \in {"done", "enter"}
  BY <1>1 DEF Lookup, GoTo, TypeOK, Step, Leading
<1>4. Fresh(tokens[u]) =>
        /\ tokens[u].token \in Token /\ minted[tokens[u].token] \in Minting
        /\ minted[tokens[u].token].user = u
  BY <1>1, CachedIsInTime
<1>5. TypeOK'
  BY <1>1, <1>3, <1>4 DEF Lookup, TypeOK
<1>6. TokensAreMinted'
  BY <1>1, <1>2, <1>4, NoneAssumption DEF Lookup, TokensAreMinted, TypeOK
<1>7. TokensInHand'
  BY <1>2, <1>3 DEF Lookup, TokensInHand, Holding
<1>8. FlushedStaysOut'
  BY DEF Lookup, FlushedStaysOut
<1>9. LeadersLookedAgain'
  BY <1>2, <1>3 DEF Lookup, LeadersLookedAgain, Leading, Requesting, Fresh
<1>10. EntriesExpireInTime'
  BY <1>2, <1>3 DEF Lookup, EntriesExpireInTime, Requesting, Holding, InTime, Remaining
<1> QED BY <1>5, <1>6, <1>7, <1>8, <1>9, <1>10

LEMMA EnterPreserves == ASSUME IInv, NEW g \in Get, Enter(g) PROVE IInv'
<1> DEFINE u == GetUser[g]
<1> USE DEF IInv, FlightKey
<1>1. u \in User /\ pc[g] = "enter"
  BY GetUserAssumption DEF Enter
<1>2. \A h \in Get : h # g => pc'[h] = pc[h]
  BY DEF Enter, GoTo, TypeOK
<1>3. pc' \in [Get -> Step] /\ pc'[g] \in {"recheck", "join"}
  BY <1>1 DEF Enter, GoTo, TypeOK, Step, Leading
<1>4. TypeOK'
  BY <1>1, <1>3 DEF Enter, TypeOK
<1>5. TokensAreMinted' /\ FlushedStaysOut'
  BY DEF Enter, TokensAreMinted, FlushedStaysOut
<1>6. TokensInHand'
  BY <1>2, <1>3 DEF Enter, TokensInHand, Holding
<1>7. LeadersLookedAgain'
  <2>1. ASSUME NEW h \in Get, h # g, pc'[h] \in Leading
        PROVE  sfGroup'[GetUser[h]] = h
    BY <1>1, <1>2, <2>1, GetUserAssumption, NoneAssumption
       DEF Enter, LeadersLookedAgain, TypeOK
  <2>2. pc'[g] \in Leading => sfGroup'[u] = g
    BY <1>1, <1>3 DEF Enter, GoTo, Leading, TypeOK
  <2>3. \A h \in Get : pc'[h] \in Requesting => ~Fresh(tokens[GetUser[h]])'
    BY <1>2, <1>3 DEF Enter, LeadersLookedAgain, Requesting, Fresh
  <2> QED BY <2>1, <2>2, <2>3 DEF LeadersLookedAgain
<1>8. EntriesExpireInTime'
  BY <1>2, <1>3 DEF Enter, EntriesExpireInTime, Requesting, Holding, InTime, Remaining
<1> QED BY <1>4, <1>5, <1>6, <1>7, <1>8

LEMMA RecheckPreserves == ASSUME IInv, NEW g \in Get, Recheck(g) PROVE IInv'
<1> DEFINE u == GetUser[g]
<1> USE DEF IInv
<1>1. u \in User /\ pc[g] = "recheck"
  BY GetUserAssumption DEF Recheck
<1>2. \A h \in Get : h # g =>
        pc'[h] = pc[h] /\ result'[h] = result[h] /\ started'[h] = started[h]
  BY DEF Recheck, GoTo, TypeOK
<1>3. pc' \in [Get -> Step] /\ pc'[g] \in {"land", "fetch"}
  BY <1>1 DEF Recheck, GoTo, TypeOK, Step, Leading
<1>4. Fresh(tokens[u]) =>
        /\ tokens[u].token \in Token /\ minted[tokens[u].token] \in Minting
        /\ minted[tokens[u].token].user = u /\ InTime(tokens[u].token)
  BY <1>1, CachedIsInTime
<1>5. TypeOK'
  BY <1>1, <1>3, <1>4 DEF Recheck, TypeOK
<1>6. TokensAreMinted'
  BY <1>1, <1>2, <1>4, NoneAssumption DEF Recheck, TokensAreMinted, TypeOK
<1>7. TokensInHand'
  BY <1>2, <1>3 DEF Recheck, TokensInHand, Holding
<1>8. FlushedStaysOut'
  BY DEF Recheck, FlushedStaysOut
<1>9. LeadersLookedAgain'
  <2>1. \A h \in Get : pc'[h] \in Leading => sfGroup'[GetUser[h]] = h
    BY <1>1, <1>2 DEF Recheck, LeadersLookedAgain, Leading
  <2>2. pc'[g] \in Requesting => ~Fresh(tokens[u])
    BY <1>1, <1>3 DEF Recheck, GoTo, Requesting, TypeOK
  <2>3. \A h \in Get : pc'[h] \in Requesting => ~Fresh(tokens[GetUser[h]])'
    BY <1>2, <2>2 DEF Recheck, LeadersLookedAgain, Fresh
  <2> QED BY <2>1, <2>3 DEF LeadersLookedAgain
<1>10. EntriesExpireInTime'
  <2>1. pc'[g] = "fetch" => started'[g] = now
    BY <1>1 DEF Recheck, GoTo, TypeOK
  <2>2. pc'[g] = "land" => result'[g] = tokens[u].token /\ InTime(result'[g])
    BY <1>1, <1>4 DEF Recheck, GoTo, TypeOK
  <2>3. now <= now + FetchTimeout
    BY TimeAssumption DEF TypeOK
  <2>4. UNCHANGED <<now, tokens, minted>>
    BY DEF Recheck
  <2>5. /\ (pc[g] \in Requesting => started[g] <= now /\ now <= started[g] + FetchTimeout)'
        /\ (pc[g] \in Holding => minted[result[g]].at >= started[g])'
        /\ (pc[g] = "land" /\ result[g] # None => InTime(result[g]))'
    BY <1>3, <2>1, <2>2, <2>3, <2>4 DEF Requesting, Holding, InTime, Remaining, TypeOK
  <2> QED BY <1>2, <2>4, <2>5 DEF EntriesExpireInTime, InTime, Remaining
<1> QED BY <1>5, <1>6, <1>7, <1>8, <1>9, <1>10

LEMMA MintPreserves == ASSUME IInv, NEW g \in Get, Mint(g) PROVE IInv'
<1> USE DEF IInv
<1>1. PICK t \in Token, life \in Lifetime :
        /\ minted[t] = None
        /\ minted' = [minted EXCEPT ![t] = [user |-> GetUser[g], at |-> now, life |-> life]]
        /\ result' = [result EXCEPT ![g] = t]
  BY DEF Mint
<1>2. GetUser[g] \in User /\ pc[g] = "fetch"
  BY GetUserAssumption DEF Mint
<1>3. \A h \in Get : h # g => pc'[h] = pc[h] /\ result'[h] = result[h]
  BY <1>1 DEF Mint, GoTo, TypeOK
<1>4. pc' \in [Get -> Step] /\ pc'[g] = "response" /\ result'[g] = t
  BY <1>1, <1>2 DEF Mint, GoTo, TypeOK, Step, Leading
<1>5. /\ minted'[t] \in Minting /\ minted'[t].user = GetUser[g] /\ minted'[t].at = now
      /\ \A s \in Token : s # t => minted'[s] = minted[s]
  BY <1>1, <1>2 DEF TypeOK, Minting
<1>6. UNCHANGED <<now, tokens, sfGroup, started, flushed>>
  BY DEF Mint
<1>7. TypeOK'
  <2>1. minted' \in [Token -> Minting \cup {None}]
    BY <1>1, <1>5 DEF TypeOK
  <2>2. result' \in [Get -> Token \cup {None}]
    BY <1>1 DEF TypeOK
  <2> QED BY <1>4, <1>6, <2>1, <2>2 DEF TypeOK
\* Nobody has t yet: what anybody has is minted.
<1>8. /\ \A u \in User : tokens[u] # None =>
           tokens[u].token \in Token /\ tokens[u].token # t
      /\ \A h \in Get : result[h] # None => result[h] \in Token /\ result[h] # t
      /\ \A s \in flushed : s \in Token /\ s # t
  BY <1>1 DEF TypeOK, TokensAreMinted, Entry
<1>9. TokensAreMinted'
  BY <1>3, <1>4, <1>5, <1>6, <1>8, NoneAssumption DEF TokensAreMinted
<1>10. TokensInHand'
  <2>1. t # None
    BY NoneAssumption
  <2>2. ASSUME NEW h \in Get, h # g, pc'[h] \in Holding
        PROVE  /\ pc[h] \in Holding /\ result'[h] = result[h]
               /\ result[h] # None /\ result[h] # t
    BY <1>3, <1>8, <2>2 DEF TokensInHand
  <2> QED BY <1>4, <1>6, <1>8, <2>1, <2>2 DEF TokensInHand
<1>11. FlushedStaysOut'
  BY <1>6 DEF FlushedStaysOut
<1>12. LeadersLookedAgain'
  BY <1>2, <1>3, <1>4, <1>6 DEF LeadersLookedAgain, Leading, Requesting, Fresh
<1>13. EntriesExpireInTime'
  <2>1. started[g] <= now
    BY <1>2 DEF EntriesExpireInTime, Requesting
  <2>2. /\ (pc[g] \in Requesting => started[g] <= now /\ now <= started[g] + FetchTimeout)'
        /\ (pc[g] \in Holding => minted[result[g]].at >= started[g])'
        /\ (pc[g] = "land" /\ result[g] # None => InTime(result[g]))'
    BY <1>2, <1>4, <1>5, <1>6, <2>1 DEF EntriesExpireInTime, Requesting, TypeOK
  <2>3. ASSUME NEW h \in Get, h # g
        PROVE  /\ (pc[h] \in Requesting => started[h] <= now /\ now <= started[h] + FetchTimeout)'
               /\ (pc[h] \in Holding => minted[result[h]].at >= started[h])'
               /\ (pc[h] = "land" /\ result[h] # None => InTime(result[h]))'
    BY <1>3, <1>5, <1>6, <1>8, <2>3
       DEF EntriesExpireInTime, TokensInHand, InTime, Remaining
  <2>4. \A u \in User : tokens[u] # None => minted'[tokens[u].token] = minted[tokens[u].token]
    BY <1>5, <1>8
  <2> QED BY <1>6, <2>2, <2>3, <2>4 DEF EntriesExpireInTime
<1> QED BY <1>7, <1>9, <1>10, <1>11, <1>12, <1>13

LEMMA FetchReturnsPreserves == ASSUME IInv, NEW g \in Get, FetchReturns(g) PROVE IInv'
<1> USE DEF IInv
<1>1. pc[g] = "response" /\ \A h \in Get : h # g => pc'[h] = pc[h]
  BY DEF FetchReturns, GoTo, TypeOK
<1>2. pc' \in [Get -> Step] /\ pc'[g] = "store"
  BY DEF FetchReturns, GoTo, TypeOK, Step, Leading
<1>3. UNCHANGED <<now, tokens, sfGroup, started, result, minted, flushed>>
  BY DEF FetchReturns
<1>4. \A h \in Get :
        /\ pc'[h] \in Holding <=> pc[h] \in Holding
        /\ pc'[h] \in Requesting <=> pc[h] \in Requesting
        /\ pc'[h] \in Leading <=> pc[h] \in Leading
        /\ pc'[h] = "land" <=> pc[h] = "land"
  BY <1>1, <1>2 DEF Holding, Requesting, Leading
<1> QED
  BY <1>2, <1>3, <1>4
     DEF TypeOK, TokensAreMinted, TokensInHand, FlushedStaysOut, LeadersLookedAgain,
         EntriesExpireInTime, Fresh, InTime, Remaining

LEMMA FetchFailsPreserves == ASSUME IInv, NEW g \in Get, FetchFails(g) PROVE IInv'
<1> USE DEF IInv
<1>1. pc[g] \in {"fetch", "response"}
      /\ \A h \in Get : h # g => pc'[h] = pc[h] /\ result'[h] = result[h]
  BY DEF FetchFails, GoTo, TypeOK
<1>2. pc' \in [Get -> Step] /\ pc'[g] = "land" /\ result'[g] = None
  BY DEF FetchFails, GoTo, TypeOK, Step, Leading
<1>3. UNCHANGED <<now, tokens, sfGroup, started, minted, flushed>>
  BY DEF FetchFails
<1>4. TypeOK'
  BY <1>2, <1>3 DEF FetchFails, TypeOK
<1>5. TokensAreMinted' /\ FlushedStaysOut'
  BY <1>1, <1>2, <1>3 DEF TokensAreMinted, FlushedStaysOut
<1>6. TokensInHand'
  BY <1>1, <1>2, <1>3 DEF TokensInHand, Holding
<1>7. LeadersLookedAgain'
  BY <1>1, <1>2, <1>3 DEF LeadersLookedAgain, Leading, Requesting, Fresh
<1>8. EntriesExpireInTime'
  BY <1>1, <1>2, <1>3 DEF EntriesExpireInTime, Requesting, Holding, InTime, Remaining
<1> QED BY <1>4, <1>5, <1>6, <1>7, <1>8

LEMMA StorePreserves == ASSUME IInv, NEW g \in Get, Store(g) PROVE IInv'
<1> DEFINE u == GetUser[g]
           t == result[g]
           m == minted[t]
<1> USE DEF IInv
<1>1. u \in User /\ pc[g] = "store" /\ pc[g] \in Holding
  BY GetUserAssumption DEF Store, Holding
<1>2. t \in Token /\ m \in Minting /\ m.user = u /\ now <= m.at + FetchTimeout /\ InTime(t)
  BY <1>1, FetchedIsInTime
<1>3. \A h \in Get : h # g => pc'[h] = pc[h]
  BY DEF Store, GoTo, TypeOK
<1>4. pc' \in [Get -> Step] /\ pc'[g] = "land"
  BY <1>1 DEF Store, GoTo, TypeOK, Step, Leading
<1>5. UNCHANGED <<now, sfGroup, started, result, minted, flushed>>
  BY DEF Store
<1>6. /\ m.at \in Nat /\ m.life \in Nat /\ now \in Nat /\ Buffer \in Nat
      /\ FetchTimeout \in Nat
  BY <1>2, MintingFields, TimeAssumption DEF TypeOK
<1>7. /\ NewEntry(t, m.life) \in Entry /\ NewEntry(t, m.life).token = t
      /\ m.life > Buffer => NewEntry(t, m.life).expiresAt = now + m.life
  BY <1>2, <1>6 DEF NewEntry, Entry
<1>8. tokens'[u] = NewEntry(t, m.life) /\ \A v \in User : v # u => tokens'[v] = tokens[v]
  BY <1>1 DEF Store, TypeOK
<1>9. TypeOK'
  BY <1>1, <1>4, <1>5, <1>7 DEF Store, TypeOK
<1>10. TokensAreMinted'
  BY <1>1, <1>2, <1>5, <1>7, <1>8 DEF TokensAreMinted, TokensInHand
<1>11. TokensInHand'
  <2> SUFFICES ASSUME NEW h \in Get, pc'[h] \in Holding
               PROVE  /\ result[h] # None /\ result[h] \notin flushed
                      /\ \A v \in User : tokens'[v] # None => tokens'[v].token # result[h]
                      /\ \A k \in Get : pc'[k] \in Holding /\ k # h => result[k] # result[h]
    BY <1>5 DEF TokensInHand
  <2>1. h # g /\ pc[h] \in Holding
    BY <1>3, <1>4 DEF Holding
  <2>2. result[h] # t
    BY <1>1, <2>1 DEF TokensInHand
  <2>3. \A k \in Get : pc'[k] \in Holding => pc[k] \in Holding
    BY <1>3, <1>4 DEF Holding
  <2> QED BY <1>7, <1>8, <2>1, <2>2, <2>3 DEF TokensInHand
<1>12. FlushedStaysOut'
  BY <1>1, <1>5, <1>7, <1>8 DEF FlushedStaysOut, TokensInHand
<1>13. LeadersLookedAgain'
  <2>1. \A h \in Get : pc'[h] \in Leading => sfGroup'[GetUser[h]] = h
    BY <1>1, <1>3, <1>5 DEF LeadersLookedAgain, Leading
  <2>2. ASSUME NEW h \in Get, pc'[h] \in Requesting
        PROVE  ~Fresh(tokens[GetUser[h]])'
    <3>1. h # g /\ pc[h] \in Requesting
      BY <1>3, <1>4, <2>2 DEF Requesting
    <3>2. GetUser[h] # u
      BY <1>1, <3>1 DEF LeadersLookedAgain, Leading, Requesting
    <3> QED BY <1>5, <1>8, <3>1, <3>2, GetUserAssumption DEF LeadersLookedAgain, Fresh
  <2> QED BY <2>1, <2>2 DEF LeadersLookedAgain
<1>14. EntriesExpireInTime'
  <2>1. ASSUME NEW v \in User, tokens'[v] # None, minted[tokens'[v].token].life > Buffer
        PROVE  tokens'[v].expiresAt <= minted[tokens'[v].token].at + FetchTimeout
                                         + minted[tokens'[v].token].life
    <3>1. CASE v = u
      BY <1>2, <1>6, <1>7, <1>8, <2>1, <3>1
    <3>2. CASE v # u
      BY <1>8, <2>1, <3>2 DEF EntriesExpireInTime
    <3> QED BY <3>1, <3>2
  <2>2. ASSUME NEW h \in Get
        PROVE  /\ (pc[h] \in Requesting => started[h] <= now /\ now <= started[h] + FetchTimeout)'
               /\ (pc[h] \in Holding => minted[result[h]].at >= started[h])'
               /\ (pc[h] = "land" /\ result[h] # None => InTime(result[h]))'
    BY <1>2, <1>3, <1>4, <1>5, <2>2
       DEF EntriesExpireInTime, Requesting, Holding, InTime, Remaining
  <2> QED BY <1>5, <2>1, <2>2 DEF EntriesExpireInTime
<1> QED BY <1>9, <1>10, <1>11, <1>12, <1>13, <1>14

LEMMA LandPreserves == ASSUME IInv, NEW g \in Get, Land(g) PROVE IInv'
<1> DEFINE sharing == {g} \cup {h \in Get : pc[h] = "join" /\ GetUser[h] = GetUser[g]}
<1> USE DEF IInv, FlightKey
<1>1. GetUser[g] \in User /\ pc[g] = "land"
  BY GetUserAssumption DEF Land
<1>2. \A h \in Get :
        /\ h \in sharing => pc'[h] = "done" /\ result'[h] = result[g] /\ GetUser[h] = GetUser[g]
        /\ h \notin sharing => pc'[h] = pc[h] /\ result'[h] = result[h]
  BY DEF Land
<1>3. UNCHANGED <<now, tokens, started, minted, flushed>>
  BY DEF Land
<1>4. TypeOK'
  <2>1. pc' \in [Get -> Step] /\ result' \in [Get -> Token \cup {None}]
    BY DEF Land, TypeOK, Step
  <2>2. sfGroup' \in [User -> Get \cup {None}]
    BY <1>1 DEF Land, TypeOK
  <2> QED BY <1>3, <2>1, <2>2 DEF TypeOK
<1>5. TokensAreMinted' /\ FlushedStaysOut'
  BY <1>2, <1>3 DEF TokensAreMinted, FlushedStaysOut
\* Whoever is still anywhere was there before.
<1>6. \A h \in Get : pc'[h] # "done" => pc'[h] = pc[h] /\ result'[h] = result[h] /\ h # g
  BY <1>2
<1>7. TokensInHand'
  BY <1>3, <1>6 DEF TokensInHand, Holding
<1>8. LeadersLookedAgain'
  <2>1. ASSUME NEW h \in Get, pc'[h] \in Leading PROVE sfGroup'[GetUser[h]] = h
    <3>1. h # g /\ pc[h] \in Leading
      BY <1>6, <2>1 DEF Leading
    <3>2. GetUser[h] # GetUser[g]
      BY <1>1, <3>1 DEF LeadersLookedAgain, Leading
    <3> QED BY <1>1, <3>1, <3>2, GetUserAssumption DEF Land, LeadersLookedAgain, TypeOK
  <2>2. \A h \in Get : pc'[h] \in Requesting => ~Fresh(tokens[GetUser[h]])'
    BY <1>3, <1>6 DEF LeadersLookedAgain, Requesting, Fresh
  <2> QED BY <2>1, <2>2 DEF LeadersLookedAgain
<1>9. EntriesExpireInTime'
  BY <1>3, <1>6 DEF EntriesExpireInTime, Requesting, Holding, InTime, Remaining
<1> QED BY <1>4, <1>5, <1>7, <1>8, <1>9

\* A token in hand is not in the cache, so a flush cannot take it.
LEMMA FlushPreserves == ASSUME IInv, NEW u \in User, Flush(u) PROVE IInv'
<1> USE DEF IInv
<1>1. /\ tokens[u] # None /\ tokens[u].token \in Token
      /\ minted[tokens[u].token] # None /\ minted[tokens[u].token].user = u
  BY DEF Flush, TypeOK, Entry, TokensAreMinted
<1>2. tokens'[u] = None /\ \A v \in User : v # u => tokens'[v] = tokens[v]
  BY DEF Flush, TypeOK
<1>3. UNCHANGED <<now, sfGroup, pc, started, result, minted>>
  BY DEF Flush
<1>4. flushed' = flushed \cup {tokens[u].token}
  BY DEF Flush
<1>5. TypeOK'
  BY <1>1, <1>3, <1>4 DEF Flush, TypeOK
<1>6. TokensAreMinted'
  BY <1>1, <1>2, <1>3, <1>4 DEF TokensAreMinted
<1>7. TokensInHand'
  BY <1>1, <1>2, <1>3, <1>4 DEF TokensInHand
<1>8. FlushedStaysOut'
  <2>1. \A v \in User : tokens'[v] # None => v # u /\ tokens'[v] = tokens[v]
    BY <1>2
  <2>2. \A v \in User : tokens[v] # None /\ v # u => tokens[v].token # tokens[u].token
    BY <1>1 DEF TokensAreMinted
  <2> QED BY <1>4, <2>1, <2>2 DEF FlushedStaysOut
<1>9. LeadersLookedAgain'
  BY <1>2, <1>3, GetUserAssumption DEF LeadersLookedAgain, Fresh
<1>10. EntriesExpireInTime'
  BY <1>2, <1>3 DEF EntriesExpireInTime, InTime, Remaining
<1> QED BY <1>5, <1>6, <1>7, <1>8, <1>9, <1>10

\* What was too old to serve stays so.
LEMMA TickPreserves == ASSUME IInv, Tick PROVE IInv'
<1> USE DEF IInv
<1>1. now \in Nat /\ now' = now + 1 /\ now' \in 0..MaxNow
  BY TimeAssumption DEF Tick, TypeOK
<1>2. UNCHANGED <<tokens, sfGroup, pc, started, result, minted, flushed>>
  BY DEF Tick
<1>3. TypeOK' /\ TokensAreMinted' /\ TokensInHand' /\ FlushedStaysOut'
  BY <1>1, <1>2 DEF TypeOK, TokensAreMinted, TokensInHand, FlushedStaysOut
<1>4. LeadersLookedAgain'
  <2>1. ASSUME NEW u \in User, ~Fresh(tokens[u]) PROVE ~Fresh(tokens[u])'
    <3>1. tokens[u] # None => tokens[u].expiresAt \in Nat
      BY DEF TypeOK, Entry
    <3> QED BY <1>1, <1>2, <2>1, <3>1, TimeAssumption DEF Fresh
  <2> QED BY <1>2, <2>1, GetUserAssumption DEF LeadersLookedAgain
<1>5. EntriesExpireInTime'
  <2>1. ASSUME NEW g \in Get, pc[g] \in Requesting
        PROVE  started[g] <= now + 1 /\ now + 1 <= started[g] + FetchTimeout
    <3>1. started[g] \in Nat /\ FetchTimeout \in Nat
      BY TimeAssumption DEF TypeOK
    <3>2. pc[g] \in {"fetch", "response"}
      BY <2>1 DEF Tick, Requesting, Waiting
    <3>3. now < started[g] + FetchTimeout /\ started[g] <= now
      BY <2>1, <3>2 DEF Tick, EntriesExpireInTime
    <3> QED BY <1>1, <3>1, <3>3
  <2>2. \A g \in Get : pc[g] # "land"
    BY DEF Tick, Waiting
  <2> QED BY <1>1, <1>2, <2>1, <2>2 DEF EntriesExpireInTime
<1> QED BY <1>3, <1>4, <1>5

LEMMA StepPreserves == IInv /\ [Next]_vars => IInv'
<1> SUFFICES ASSUME IInv, [Next]_vars PROVE IInv'
  OBVIOUS
<1>1. CASE UNCHANGED vars
  BY <1>1 DEF vars, IInv, TypeOK, TokensAreMinted, TokensInHand, FlushedStaysOut,
     LeadersLookedAgain, EntriesExpireInTime, Fresh, InTime, Remaining
<1>2. ASSUME NEW g \in Get, GetStep(g) PROVE IInv'
  BY <1>2, LookupPreserves, EnterPreserves, RecheckPreserves, MintPreserves,
     FetchReturnsPreserves, FetchFailsPreserves, StorePreserves, LandPreserves DEF GetStep
<1> QED BY <1>1, <1>2, FlushPreserves, TickPreserves DEF Next

LEMMA Invariance == Spec => []IInv
BY InitEstablishes, StepPreserves, PTL DEF Spec
-----------------------------------------------------------------------------
\* Every variable of the cache keeps its type.
THEOREM TypeCorrect == Spec => []TypeOK
<1>1. IInv => TypeOK BY DEF IInv
<1> QED BY <1>1, Invariance, PTL

\* Whatever calls and requests are in progress when a token is flushed, it does not
\* return to the cache.
THEOREM FlushedTokensStayOut == Spec => []FlushedStaysOut
<1>1. IInv => FlushedStaysOut BY DEF IInv
<1> QED BY <1>1, Invariance, PTL

\* No call is given the token of another user, though calls share requests.
THEOREM TokensAreNotMixed == Spec => []TokenOfOwnUser
<1>1. IInv => TokenOfOwnUser BY DEF IInv, TokensAreMinted, TokenOfOwnUser
<1> QED BY <1>1, Invariance, PTL

\* A token that can still be served is not replaced: the leader of a request looked
\* again, and it alone stores.
THEOREM FreshTokensStay == Spec => FreshTokenNotReplaced
<1>1. ASSUME IInv, Next, NEW u \in User, tokens'[u] # tokens[u], tokens'[u] # None
      PROVE  ~Fresh(tokens[u])
  <2>1. tokens \in [User -> Entry \cup {None}]
    BY <1>1 DEF IInv, TypeOK
  <2>2. ASSUME NEW v \in User, Flush(v) PROVE FALSE
    BY <1>1, <2>1, <2>2 DEF Flush
  <2>3. PICK g \in Get : GetStep(g)
    BY <1>1, <2>2 DEF Next, Tick
  <2>4. Store(g)
    BY <1>1, <2>3 DEF GetStep, Lookup, Enter, Recheck, Mint, FetchReturns, FetchFails, Land
  <2>5. u = GetUser[g] /\ pc[g] = "store"
    BY <1>1, <2>1, <2>4 DEF Store
  <2> QED BY <1>1, <2>5 DEF IInv, LeadersLookedAgain, Requesting
<1>2. IInv /\ [Next]_vars =>
        [\A u \in User : tokens'[u] # tokens[u] /\ tokens'[u] # None => ~Fresh(tokens[u])]_vars
  BY <1>1
<1> QED BY <1>2, Invariance, PTL DEF Spec, FreshTokenNotReplaced

\* For any lifetimes, buffer and timeout: a token that lives longer than the buffer is
\* served only while more of its life is left than the buffer less the timeout.
THEOREM ServedInTime == Spec => ServedBeforeBuffer
<1>1. ASSUME IInv, Next, NEW g \in Get, Returning(g)
      PROVE  InTime(result'[g])
  <2>1. pc[g] # "done" /\ pc'[g] = "done" /\ result'[g] # None
    BY <1>1 DEF Returning
  <2>2. PICK h \in Get : GetStep(h)
    BY <1>1, <2>1 DEF Next, Flush, Tick
  <2>3. pc \in [Get -> Step]
    BY <1>1 DEF IInv, TypeOK
  <2>4. Lookup(h) \/ Land(h)
    BY <2>1, <2>2, <2>3
       DEF GetStep, Enter, Recheck, Mint, FetchReturns, FetchFails, Store, GoTo
  <2>5. CASE Lookup(h)
    <3>1. h = g /\ Fresh(tokens[GetUser[g]])
      BY <2>1, <2>3, <2>5 DEF Lookup, GoTo
    <3>2. result'[g] = tokens[GetUser[g]].token
      BY <1>1, <2>1, <2>3, <2>5, <3>1 DEF Lookup, IInv, TypeOK
    <3> QED BY <1>1, <3>1, <3>2, GetUserAssumption, CachedIsInTime DEF IInv
  <2>6. CASE Land(h)
    <3>1. pc[h] = "land" /\ result'[g] = result[h]
      BY <2>1, <2>6 DEF Land
    <3> QED BY <1>1, <2>1, <3>1 DEF IInv, EntriesExpireInTime
  <2> QED BY <2>4, <2>5, <2>6
<1>2. IInv /\ [Next]_vars =>
        [\A g \in Get : Returning(g) /\ minted[result'[g]].life > Buffer =>
           Remaining(result'[g]) > Buffer - FetchTimeout]_vars
  BY <1>1 DEF InTime
<1> QED BY <1>2, Invariance, PTL DEF Spec, ServedBeforeBuffer
=============================================================================
