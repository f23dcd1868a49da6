------------------------------ MODULE JwksCache ------------------------------
(***************************************************************************)
(* The verifier of access tokens (internal/auth/verifier.go): requests     *)
(* that verify their tokens side by side over one cache of the signing     *)
(* keys, which the authorization server publishes and rotates.             *)
(*                                                                         *)
(* A fetch runs outside the cache's lock, so its document is as old as the *)
(* fetch when it is stored, and two fetches may store in either order.     *)
(* Steps of the program take no time; a fetch takes at most Timeout.       *)
(***************************************************************************)
EXTENDS Integers, Sequences

CONSTANTS
  Call,
  Token,          \* [kid, key, alg, iss, aud, sub, exp, nbf]: key signed it; iss, aud
                  \*   and sub say whether the claim is right; exp and nbf may be None
  Documents,      \* what the server publishes, one document after another
  None,
  jwksCacheTTL, Timeout, Leeway,    \* in ticks
  MaxTime         \* bounds the clock

ASSUME TimesAssumption ==
  /\ jwksCacheTTL \in Nat \ {0} /\ Timeout \in Nat /\ Leeway \in Nat /\ MaxTime \in Nat

VARIABLES
  now,
  published,      \* which document the server publishes
  keys,           \* the cache: a key for each of some kids
  fetchedAt,      \* when they were stored
  phase,          \* phase[c]: "idle", "fetching", "answered", "reread", "verify",
                  \*   "accepted", "rejected"
  token,          \* token[c]
  began,          \* began[c]: when c looked into the cache
  entry,          \* entry[c]: the key c found there or will verify with, or None
  document,       \* document[c]: the document that c's fetch was answered with, 1
                  \*   while there is none
  failed,         \* failed[c]: c's fetch failed
  lastListed,     \* lastListed[k]: the last time that key k was published
  lastAbsent      \* lastAbsent[kid]: the last time that no key was published as kid

callVars == <<phase, token, began, entry, document, failed>>
cacheVars == <<keys, fetchedAt>>
history == <<lastListed, lastAbsent>>
vars == <<now, published, cacheVars, callVars, history>>

Jwk == UNION {{Documents[n][i] : i \in DOMAIN Documents[n]} : n \in DOMAIN Documents}
ASSUME DocumentsAssumption == Documents \in Seq(Seq(Jwk)) /\ Documents # <<>>

Key == {k.key : k \in Jwk}
Kid == {k.kid : k \in Jwk} \cup {t.kid : t \in Token}
-----------------------------------------------------------------------------
(* A document: a sequence of [kid, key, kty, use, alg, exponent], None     *)
(* where a field is absent or does not decode.                             *)

parseRSAPublicKey(k) == k.key # None /\ k.exponent # None /\ k.exponent >= 2

\* Mutant: keys for encryption are taken for signing keys.
AnyUse(k) == k.kty = "RSA" /\ k.alg \in {None, "RS256"} /\ parseRSAPublicKey(k)

\* A key that is not an RSA signing key, or is malformed, is skipped.
Usable(k) ==
  /\ k.kty = "RSA"
  /\ k.use \in {None, "sig"}
  /\ k.alg \in {None, "RS256"}
  /\ parseRSAPublicKey(k)

\* Of two keys with one kid the later counts.
parsed(doc) ==
  LET usable == {i \in DOMAIN doc : Usable(doc[i])}
      last(kid) == CHOOSE i \in usable :
                     /\ doc[i].kid = kid
                     /\ \A j \in usable : doc[j].kid = kid => j <= i
  IN  [kid \in {doc[i].kid : i \in usable} |-> doc[last(kid)].key]

\* What is published, for the properties: the keys that may sign, by kid.
SigningKeys(n) ==
  {k \in {Documents[n][i] : i \in DOMAIN Documents[n]} :
     k.kty = "RSA" /\ k.use \in {None, "sig"} /\ k.alg \in {None, "RS256"} /\ parseRSAPublicKey(k)}

Listed(n) == {k.key : k \in SigningKeys(n)}

Absent(n) == Kid \ {k.kid : k \in SigningKeys(n)}
-----------------------------------------------------------------------------
Never == -(jwksCacheTTL + Timeout + 1)

Init ==
  /\ now = 0 /\ published = 1
  /\ keys = <<>> /\ fetchedAt = Never
  /\ phase = [c \in Call |-> "idle"]
  /\ token \in {[c \in Call |-> t] : t \in Token}
  /\ began = [c \in Call |-> 0]
  /\ entry = [c \in Call |-> None]
  /\ document = [c \in Call |-> 1]
  /\ failed = [c \in Call |-> FALSE]
  /\ lastListed = [k \in Key |-> IF k \in Listed(1) THEN 0 ELSE Never]
  /\ lastAbsent = [kid \in Kid |-> IF kid \in Absent(1) THEN 0 ELSE Never]

Cached(kid) == IF kid \in DOMAIN keys THEN keys[kid] ELSE None

\* A request begins: its token must claim RS256; then the cache is read.  A fresh
\* hit serves; a miss or a hit that is too old fetches.
getKey(c, t) ==
  /\ phase[c] \in {"idle", "accepted", "rejected"}
  /\ token' = [token EXCEPT ![c] = t]
  /\ began' = [began EXCEPT ![c] = now]
  /\ entry' = [entry EXCEPT ![c] = Cached(t.kid)]
  /\ failed' = [failed EXCEPT ![c] = FALSE]
  /\ phase' = [phase EXCEPT ![c] =
       IF t.alg # "RS256" THEN "rejected"
       ELSE IF Cached(t.kid) # None /\ now - fetchedAt < jwksCacheTTL THEN "verify"
       ELSE "fetching"]
  /\ UNCHANGED <<now, published, cacheVars, document, history>>

\* The server answers a fetch with what it publishes (external).
Respond(c) ==
  /\ phase[c] = "fetching"
  /\ document' = [document EXCEPT ![c] = published]
  /\ phase' = [phase EXCEPT ![c] = "answered"]
  /\ UNCHANGED <<now, published, cacheVars, token, began, entry, failed, history>>

\* The document replaces all keys.
refresh(c) ==
  /\ phase[c] = "answered"
  /\ keys' = parsed(Documents[document[c]])
  /\ fetchedAt' = now
  /\ phase' = [phase EXCEPT ![c] = "reread"]
  /\ document' = [document EXCEPT ![c] = 1]
  /\ UNCHANGED <<now, published, token, began, entry, failed, history>>

\* Mutant: a failed fetch puts the next one off.
FailureCounts(c) ==
  /\ phase[c] \in {"fetching", "answered"}
  /\ failed' = [failed EXCEPT ![c] = TRUE]
  /\ phase' = [phase EXCEPT ![c] = IF entry[c] # None THEN "verify" ELSE "rejected"]
  /\ fetchedAt' = now
  /\ document' = [document EXCEPT ![c] = 1]
  /\ UNCHANGED <<now, published, keys, token, began, entry, history>>

\* The endpoint is not reached in time or its answer is no document: what c found at
\* first serves, however old it is.
RefreshFails(c) ==
  /\ phase[c] \in {"fetching", "answered"}
  /\ failed' = [failed EXCEPT ![c] = TRUE]
  /\ phase' = [phase EXCEPT ![c] = IF entry[c] # None THEN "verify" ELSE "rejected"]
  /\ document' = [document EXCEPT ![c] = 1]
  /\ UNCHANGED <<now, published, cacheVars, token, began, entry, history>>

\* Mutant: what c found at first decides also after its fetch.
NoSecondLook(c) ==
  /\ phase[c] = "reread"
  /\ phase' = [phase EXCEPT ![c] = IF entry[c] # None THEN "verify" ELSE "rejected"]
  /\ UNCHANGED <<now, published, cacheVars, token, began, entry, document, failed, history>>

\* Mutant: that the kid is still unknown is not noticed.
NilKey(c) ==
  /\ phase[c] = "reread"
  /\ entry' = [entry EXCEPT ![c] = Cached(token[c].kid)]
  /\ phase' = [phase EXCEPT ![c] = "verify"]
  /\ UNCHANGED <<now, published, cacheVars, token, began, document, failed, history>>

\* After its fetch c looks again; another fetch may have stored in between.
Reread(c) ==
  /\ phase[c] = "reread"
  /\ entry' = [entry EXCEPT ![c] = Cached(token[c].kid)]
  /\ phase' = [phase EXCEPT ![c] = IF Cached(token[c].kid) # None THEN "verify" ELSE "rejected"]
  /\ UNCHANGED <<now, published, cacheVars, token, began, document, failed, history>>

\* The signature and the claims: issuer, audience, an expiry that has not passed by
\* more than the leeway, no not-before that is still further off, a subject.
NewJWKSVerifier(c) ==
  /\ phase[c] = "verify"
  /\ LET t == token[c]
     IN  phase' = [phase EXCEPT ![c] =
           IF /\ t.key = entry[c]
              /\ t.iss /\ t.aud /\ t.sub
              /\ t.exp # None /\ now < t.exp + Leeway
              /\ t.nbf = None \/ now >= t.nbf - Leeway
           THEN "accepted" ELSE "rejected"]
  /\ entry' = [entry EXCEPT ![c] = None]
  /\ UNCHANGED <<now, published, cacheVars, token, began, document, failed, history>>

\* The server publishes its next document.
Rotate ==
  /\ published < Len(Documents)
  /\ published' = published + 1
  /\ lastListed' = [k \in Key |-> IF k \in Listed(published') THEN now ELSE lastListed[k]]
  /\ lastAbsent' = [kid \in Kid |-> IF kid \in Absent(published') THEN now ELSE lastAbsent[kid]]
  /\ UNCHANGED <<now, cacheVars, callVars>>

\* Time passes, not past the timeout of a fetch.
Tick ==
  /\ now < MaxTime
  /\ \A c \in Call : /\ phase[c] \notin {"reread", "verify"}
                     /\ phase[c] \in {"fetching", "answered"} => now < began[c] + Timeout
  /\ now' = now + 1
  /\ lastListed' = [k \in Key |-> IF k \in Listed(published) THEN now + 1 ELSE lastListed[k]]
  /\ lastAbsent' = [kid \in Kid |-> IF kid \in Absent(published) THEN now + 1 ELSE lastAbsent[kid]]
  /\ UNCHANGED <<published, cacheVars, callVars>>

Next ==
  \/ \E c \in Call :
       \/ \E t \in Token : getKey(c, t)
       \/ Respond(c) \/ refresh(c) \/ RefreshFails(c) \/ Reread(c) \/ NewJWKSVerifier(c)
  \/ Rotate
  \/ Tick

Spec == Init /\ [][Next]_vars
-----------------------------------------------------------------------------
(* Properties.                                                             *)

Phase == {"idle", "fetching", "answered", "reread", "verify", "accepted", "rejected"}

\* Every variable keeps its type; a call that verifies has a key to verify with, and
\* the cache holds only keys that were published.
TypeOK ==
  /\ now \in 0..MaxTime /\ published \in DOMAIN Documents
  /\ DOMAIN keys \subseteq Kid /\ \A kid \in DOMAIN keys : keys[kid] \in Key
  /\ fetchedAt \in {Never} \cup 0..now
  /\ phase \in [Call -> Phase]
  /\ token \in [Call -> Token]
  /\ began \in [Call -> 0..now]
  /\ entry \in [Call -> Key \cup {None}]
  /\ document \in [Call -> 1..published]
  /\ failed \in [Call -> BOOLEAN]
  /\ \A c \in Call : phase[c] = "verify" => entry[c] # None

\* A token is accepted only if it is signed with a key that the server has published
\* for signing and its claims are right; the expiry and the not-before count when
\* the claims are checked, not when the request came: it may have waited for a fetch.
AcceptedIsValid ==
  [][\A c \in Call :
       phase[c] # "accepted" /\ phase'[c] = "accepted" =>
         LET t == token'[c]
         IN  /\ t.key \in Key /\ lastListed[t.key] # Never
             /\ t.alg = "RS256" /\ t.iss /\ t.aud /\ t.sub
             /\ t.exp # None /\ now' < t.exp + Leeway
             /\ t.nbf = None \/ now' >= t.nbf - Leeway]_vars

\* A key that was withdrawn stops to work: a request that begins a cache lifetime and
\* a fetch after the withdrawal accepts it only if its own fetch failed.  This
\* allows for a fetch that stores an old document late, over a newer one, and has it
\* count as fresh.
WithdrawnKeyRunsOut ==
  \A c \in Call :
    phase[c] = "accepted" /\ ~failed[c]
      => began[c] < lastListed[token[c].key] + jwksCacheTTL + Timeout

\* A key is reported unknown, after a fetch that succeeded, only if it was not
\* published at some time of the request or shortly before, no longer than a fetch
\* takes: another request's older document may replace the one just fetched.  No
\* cached document hides a new key for longer.
UnknownKeyIsNew ==
  [][\A c \in Call :
       phase[c] = "reread" /\ phase'[c] = "rejected"
         => lastAbsent[token[c].kid] >= began[c] - Timeout]_vars
=============================================================================
