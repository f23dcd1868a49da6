----------------------------- MODULE CollabToken -----------------------------
(***************************************************************************)
(* The cache of collaboration tokens of internal/collabtoken: concurrent   *)
(* calls of Get, one cached token per user, one request to the             *)
(* authorization server at a time per user, and Flush, which the           *)
(* session_expired handler of internal/socket calls at any time.           *)
(*                                                                         *)
(* Time is a count of seconds.  Only waiting takes time: a step between    *)
(* two blocking points is instantaneous at this grain, so the clock stands *)
(* still while a call is inside one, and interleaves with the others.      *)
(*                                                                         *)
(* The authorization server mints a token, with a lifetime of its          *)
(* choosing, at some moment of a request; the answer may be lost.          *)
(***************************************************************************)
EXTENDS Integers

CONSTANTS
  Get,           \* calls of Get
  User,
  GetUser,       \* GetUser[g]: the user g wants a token for
  Token,         \* tokens the authorization server may mint: bounds the requests
  Lifetime,      \* the expires_in values it answers with
  Buffer,        \* seconds before its expiry that a token is no longer served
  FetchTimeout,  \* seconds a request may take
  MaxNow,        \* the clock stops here
  None

ASSUME GetUserAssumption == GetUser \in [Get -> User]
ASSUME TimeAssumption ==
  /\ Lifetime \subseteq Nat
  /\ Buffer \in Nat /\ FetchTimeout \in Nat /\ MaxNow \in Nat
  /\ FetchTimeout < Buffer

VARIABLES
  now,
  tokens,   \* per user, the cached entry or None
  sfGroup,  \* per user, the call that leads the request in flight
  pc,       \* where each call is
  started,  \* when the request of each call was sent
  result,   \* the token a call has in hand or returned; None is an error
  minted,   \* per token, its user, when it was minted and its lifetime (external)
  flushed   \* tokens that Flush took out of the cache (history)

vars == <<now, tokens, sfGroup, pc, started, result, minted, flushed>>

\* A call that leads a request is inside the function given to sfGroup.Do.
Leading == {"recheck", "fetch", "response", "store", "land"}
Step == Leading \cup {"lookup", "enter", "join", "done"}

\* Where a call waits; anywhere else it is running.
Waiting == {"lookup", "join", "fetch", "response", "done"}

Entry == [token : Token, expiresAt : Nat]
Minting == [user : User, at : 0..MaxNow, life : Lifetime]

ASSUME NoneAssumption == None \notin Get \cup Token \cup Minting

TypeOK ==
  /\ now \in 0..MaxNow
  /\ tokens \in [User -> Entry \cup {None}]
  /\ sfGroup \in [User -> Get \cup {None}]
  /\ pc \in [Get -> Step]
  /\ started \in [Get -> 0..MaxNow]
  /\ result \in [Get -> Token \cup {None}]
  /\ minted \in [Token -> Minting \cup {None}]
  /\ flushed \subseteq Token

Init ==
  /\ now = 0
  /\ tokens = [u \in User |-> None]
  /\ sfGroup = [u \in User |-> None]
  /\ pc = [g \in Get |-> "lookup"]
  /\ started = [g \in Get |-> 0]
  /\ result = [g \in Get |-> None]
  /\ minted = [t \in Token |-> None]
  /\ flushed = {}
-----------------------------------------------------------------------------
(* Helpers.                                                                *)

FreshUntilExpiry(e) == e # None /\ now < e.expiresAt

\* A cached entry may be served: the buffer has not begun.
Fresh(e) == e # None /\ now < e.expiresAt - Buffer

UncappedEntry(t, life) == [token |-> t, expiresAt |-> now + life - Buffer]

\* The entry cached for a token just fetched.  Its TTL is the lifetime less the
\* buffer, but at least one second; the buffer is added back on top.
NewEntry(t, life) ==
  LET ttl == IF life - Buffer < 1 THEN 1 ELSE life - Buffer
  IN [token |-> t, expiresAt |-> now + ttl + Buffer]

OneFlight(g) == CHOOSE u \in User : TRUE

\* The singleflight key.
FlightKey(g) == GetUser[g]

GoTo(g, step) == pc' = [pc EXCEPT ![g] = step]
-----------------------------------------------------------------------------
(* A call of Get.                                                          *)

\* The first look at the cache.
Lookup(g) ==
  LET e == tokens[GetUser[g]] IN
  /\ pc[g] = "lookup"
  /\ \/ /\ Fresh(e)
        /\ result' = [result EXCEPT ![g] = e.token]
        /\ GoTo(g, "done")
     \/ /\ ~Fresh(e)
        /\ GoTo(g, "enter")
        /\ UNCHANGED result
  /\ UNCHANGED <<now, tokens, sfGroup, started, minted, flushed>>

\* sfGroup.Do: lead a request or wait for the one in flight.
Enter(g) ==
  LET u == FlightKey(g) IN
  /\ pc[g] = "enter"
  /\ \/ /\ sfGroup[u] = None
        /\ sfGroup' = [sfGroup EXCEPT ![u] = g]
        /\ GoTo(g, "recheck")
     \/ /\ sfGroup[u] # None
        /\ GoTo(g, "join")
        /\ UNCHANGED sfGroup
  /\ UNCHANGED <<now, tokens, started, result, minted, flushed>>

NoRecheck(g) ==
  /\ pc[g] = "recheck"
  /\ started' = [started EXCEPT ![g] = now]
  /\ GoTo(g, "fetch")
  /\ UNCHANGED <<now, tokens, sfGroup, result, minted, flushed>>

RecheckThenStore(g) ==
  LET e == tokens[GetUser[g]] IN
  /\ pc[g] = "recheck"
  /\ \/ /\ Fresh(e)
        /\ result' = [result EXCEPT ![g] = e.token]
        /\ GoTo(g, "store")
        /\ UNCHANGED started
     \/ /\ ~Fresh(e)
        /\ started' = [started EXCEPT ![g] = now]
        /\ GoTo(g, "fetch")
        /\ UNCHANGED result
  /\ UNCHANGED <<now, tokens, sfGroup, minted, flushed>>

\* The leader looks again before it sends the request.
Recheck(g) ==
  LET e == tokens[GetUser[g]] IN
  /\ pc[g] = "recheck"
  /\ \/ /\ Fresh(e)
        /\ result' = [result EXCEPT ![g] = e.token]
        /\ GoTo(g, "land")
        /\ UNCHANGED started
     \/ /\ ~Fresh(e)
        /\ started' = [started EXCEPT ![g] = now]
        /\ GoTo(g, "fetch")
        /\ UNCHANGED result
  /\ UNCHANGED <<now, tokens, sfGroup, minted, flushed>>

\* The authorization server mints a token for the request.
Mint(g) ==
  /\ pc[g] = "fetch"
  /\ \E t \in Token, life \in Lifetime :
       /\ minted[t] = None
       /\ minted' = [minted EXCEPT ![t] =
                       [user |-> GetUser[g], at |-> now, life |-> life]]
       /\ result' = [result EXCEPT ![g] = t]
  /\ GoTo(g, "response")
  /\ UNCHANGED <<now, tokens, sfGroup, started, flushed>>

\* fetchCollabToken returns the token.
FetchReturns(g) ==
  /\ pc[g] = "response"
  /\ GoTo(g, "store")
  /\ UNCHANGED <<now, tokens, sfGroup, started, result, minted, flushed>>

\* fetchCollabToken fails: the client's timeout, the context of the leading
\* call, an HTTP error, an unreadable body or an empty token.
FetchFails(g) ==
  /\ pc[g] \in {"fetch", "response"}
  /\ result' = [result EXCEPT ![g] = None]
  /\ GoTo(g, "land")
  /\ UNCHANGED <<now, tokens, sfGroup, started, minted, flushed>>

Store(g) ==
  /\ pc[g] = "store"
  /\ tokens' = [tokens EXCEPT ![GetUser[g]] =
                  NewEntry(result[g], minted[result[g]].life)]
  /\ GoTo(g, "land")
  /\ UNCHANGED <<now, sfGroup, started, result, minted, flushed>>

\* The flight ends: the leader and every call that joined it share the result.
Land(g) ==
  LET u == FlightKey(g)
      sharing == {g} \cup {h \in Get : pc[h] = "join" /\ FlightKey(h) = u}
  IN
  /\ pc[g] = "land"
  /\ sfGroup' = [sfGroup EXCEPT ![u] = None]
  /\ result' = [h \in Get |-> IF h \in sharing THEN result[g] ELSE result[h]]
  /\ pc' = [h \in Get |-> IF h \in sharing THEN "done" ELSE pc[h]]
  /\ UNCHANGED <<now, tokens, started, minted, flushed>>
-----------------------------------------------------------------------------
Flush(u) ==
  /\ tokens[u] # None
  /\ flushed' = flushed \cup {tokens[u].token}
  /\ tokens' = [tokens EXCEPT ![u] = None]
  /\ UNCHANGED <<now, sfGroup, pc, started, result, minted>>

\* A second passes: every call is waiting, and no request outlives its timeout.
Tick ==
  /\ now < MaxNow
  /\ \A g \in Get :
       /\ pc[g] \in Waiting
       /\ pc[g] \in {"fetch", "response"} => now < started[g] + FetchTimeout
  /\ now' = now + 1
  /\ UNCHANGED <<tokens, sfGroup, pc, started, result, minted, flushed>>

GetStep(g) ==
  \/ Lookup(g) \/ Enter(g) \/ Recheck(g) \/ Mint(g) \/ FetchReturns(g)
  \/ FetchFails(g) \/ Store(g) \/ Land(g)

Next ==
  \/ \E g \in Get : GetStep(g)
  \/ \E u \in User : Flush(u)
  \/ Tick

Spec == Init /\ [][Next]_vars
-----------------------------------------------------------------------------
(* Properties.                                                             *)

Returning(g) == pc[g] # "done" /\ pc'[g] = "done" /\ result'[g] # None

\* The seconds the authorization server still accepts t for.
Remaining(t) == minted[t].at + minted[t].life - now

\* A token that lives longer than the buffer is never served within the buffer
\* of its expiry, but for the time its request took: the TTL counts from the
\* answer, not from the minting (cacheTTL, expiresAt).
ServedBeforeBuffer ==
  [][\A g \in Get :
       Returning(g) /\ minted[result'[g]].life > Buffer =>
         Remaining(result'[g]) > Buffer - FetchTimeout]_vars

\* Calls for one user are coalesced (WARNING-3): a request is never made whose
\* token replaces one that could still be served.
FreshTokenNotReplaced ==
  [][\A u \in User :
       tokens'[u] # tokens[u] /\ tokens'[u] # None => ~Fresh(tokens[u])]_vars

\* What Flush took out stays out: no call that had the token in hand puts it
\* back, whatever was in flight at the time.
FlushedStaysOut ==
  \A u \in User : tokens[u] # None => tokens[u].token \notin flushed

\* A call is only ever given a token of its own user, whichever flight it joined.
TokenOfOwnUser ==
  \A g \in Get : pc[g] = "done" /\ result[g] # None =>
    minted[result[g]].user = GetUser[g]
=============================================================================
