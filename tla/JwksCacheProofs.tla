--------------------------- MODULE JwksCacheProofs ---------------------------
(***************************************************************************)
(* Proofs about JwksCache, for any number of requests, any tokens and      *)
(* documents and any lifetime, timeout and leeway.                         *)
(*                                                                         *)
(* The invariant dates what is cached: a key that is there was published,  *)
(* and a kid that is not was free, no longer than a fetch before the       *)
(* stored time (CacheIsRecent); and what a request carries into its next   *)
(* step it has from a cache or a document of such an age (CallsAreRecent). *)
(***************************************************************************)
EXTENDS JwksCache, WellFoundedInduction, TLAPS

Fetching == {"fetching", "answered"}

\* The histories know what is published now.
HistoryIsCurrent ==
  /\ lastListed \in [Key -> {Never} \cup 0..now]
  /\ lastAbsent \in [Kid -> {Never} \cup 0..now]
  /\ \A k \in Listed(published) : lastListed[k] = now
  /\ \A kid \in Absent(published) : lastAbsent[kid] = now

CacheIsRecent ==
  /\ \A kid \in DOMAIN keys :
       /\ keys[kid] # None /\ lastListed[keys[kid]] # Never
       /\ fetchedAt <= lastListed[keys[kid]] + Timeout
  /\ \A kid \in Kid \ DOMAIN keys : fetchedAt <= lastAbsent[kid] + Timeout

\* What c knows of the server is no older than its request or, from the cache, than a
\* lifetime and a fetch.
Recent(c) ==
  /\ phase[c] \in Fetching => now <= began[c] + Timeout
  /\ phase[c] = "answered" =>
       /\ \A k \in Listed(document[c]) : lastListed[k] >= began[c]
       /\ \A kid \in Absent(document[c]) : lastAbsent[kid] >= began[c]
  /\ phase[c] = "reread" => fetchedAt >= began[c]
  /\ phase[c] = "verify" /\ ~failed[c] =>
       began[c] < lastListed[entry[c]] + jwksCacheTTL + Timeout
  /\ phase[c] = "accepted" /\ ~failed[c] =>
       began[c] < lastListed[token[c].key] + jwksCacheTTL + Timeout

\* What c may verify with was published, and its token claims the right algorithm.
Sound(c) ==
  /\ entry[c] # None => lastListed[entry[c]] # Never
  /\ phase[c] = "accepted" => token[c].key \in Key
  /\ phase[c] \in Fetching \cup {"reread", "verify"} => token[c].alg = "RS256"

CallsAreRecent == \A c \in Call : Recent(c) /\ Sound(c)

IInv ==
  /\ TypeOK /\ HistoryIsCurrent /\ CacheIsRecent /\ CallsAreRecent
-----------------------------------------------------------------------------
(* Documents.                                                              *)

LEMMA LastExists ==
  ASSUME NEW L \in Nat, NEW T, T \subseteq 1..L, T # {}
  PROVE  \E m \in T : \A n \in T : n <= m
<1> DEFINE S == {L - n : n \in T}
<1>1. S \subseteq Nat /\ S # {}
  <2>1. \A n \in T : L - n \in Nat
    OBVIOUS
  <2>2. PICK n \in T : TRUE
    OBVIOUS
  <2> QED BY <2>1, <2>2
<1>2. PICK x \in S : \A y \in S : ~(<<y, x>> \in OpToRel(<, Nat))
  <2> HIDE DEF S
  <2> QED BY <1>1, NatLessThanWellFounded, WFMin
<1>3. \A y \in S : ~(y < x)
  BY <1>1, <1>2 DEF OpToRel
<1>4. PICK m \in T : x = L - m
  OBVIOUS
<1>5. ASSUME NEW n \in T PROVE n <= m
  <2>1. L - n \in S
    OBVIOUS
  <2>2. ~(L - n < L - m)
    BY <1>3, <1>4, <2>1
  <2> QED BY <2>2
<1> QED BY <1>5

LEMMA DocumentFields ==
  ASSUME NEW n \in DOMAIN Documents
  PROVE  /\ Len(Documents[n]) \in Nat
         /\ DOMAIN Documents[n] = 1..Len(Documents[n])
         /\ \A i \in DOMAIN Documents[n] :
              /\ Documents[n][i] \in Jwk
              /\ Documents[n][i].key \in Key /\ Documents[n][i].kid \in Kid
<1>1. Documents[n] \in Seq(Jwk)
  BY DocumentsAssumption
<1>2. \A i \in DOMAIN Documents[n] : Documents[n][i] \in Jwk
  BY <1>1
<1>3. \A k \in Jwk : k.key \in Key /\ k.kid \in Kid
  BY DEF Key, Kid
<1> QED BY <1>1, <1>2, <1>3

\* The parsed document has the signing keys of the document, and a key for every kid
\* that has one.
LEMMA ParsedIsDocument ==
  ASSUME NEW n \in DOMAIN Documents
  PROVE  /\ DOMAIN parsed(Documents[n]) \subseteq Kid
         /\ \A kid \in DOMAIN parsed(Documents[n]) :
              /\ parsed(Documents[n])[kid] \in Listed(n)
              /\ parsed(Documents[n])[kid] \in Key /\ parsed(Documents[n])[kid] # None
         /\ \A kid \in Kid \ DOMAIN parsed(Documents[n]) : kid \in Absent(n)
<1> DEFINE doc == Documents[n]
           usable == {i \in DOMAIN doc : Usable(doc[i])}
           last(kid) == CHOOSE i \in usable :
                          /\ doc[i].kid = kid
                          /\ \A j \in usable : doc[j].kid = kid => j <= i
           kids == {doc[i].kid : i \in usable}
<1>1. parsed(doc) = [kid \in kids |-> doc[last(kid)].key]
  BY DEF parsed
<1>2. /\ Len(doc) \in Nat /\ DOMAIN doc = 1..Len(doc)
      /\ \A i \in DOMAIN doc : doc[i] \in Jwk /\ doc[i].key \in Key /\ doc[i].kid \in Kid
  BY DocumentFields
<1>3. ASSUME NEW kid \in kids
      PROVE  last(kid) \in usable
  <2> DEFINE T == {i \in usable : doc[i].kid = kid}
  <2>1. T # {} /\ T \subseteq 1..Len(doc)
    BY <1>2
  <2>2. \E m \in T : \A j \in T : j <= m
    <3> HIDE DEF T
    <3> QED BY <1>2, <2>1, LastExists
  <2>3. \E i \in usable : doc[i].kid = kid /\ \A j \in usable : doc[j].kid = kid => j <= i
    BY <2>2
  <2> HIDE DEF usable
  <2> QED BY <2>3
<1>4. \A i \in usable : doc[i] \in SigningKeys(n) /\ doc[i].key # None
  BY DEF Usable, SigningKeys, parseRSAPublicKey
<1>5. \A kid \in kids : /\ doc[last(kid)].key \in Listed(n)
                        /\ doc[last(kid)].key \in Key /\ doc[last(kid)].key # None
  <2> HIDE DEF last
  <2> QED BY <1>2, <1>3, <1>4 DEF Listed
<1>6. kids \subseteq Kid
  BY <1>2
<1>7. ASSUME NEW kid \in Kid, kid \notin kids
      PROVE  kid \in Absent(n)
  <2>1. \A k \in SigningKeys(n) : k.kid # kid
    BY <1>7 DEF Usable, SigningKeys
  <2> QED BY <2>1 DEF Absent
<1> HIDE DEF last, kids, usable
<1> QED BY <1>1, <1>5, <1>6, <1>7

LEMMA ListedAreKeys ==
  ASSUME NEW n \in DOMAIN Documents
  PROVE  Listed(n) \subseteq Key /\ Absent(n) \subseteq Kid
BY DocumentFields DEF Listed, Absent, SigningKeys
-----------------------------------------------------------------------------
LEMMA Times ==
  /\ jwksCacheTTL \in Nat \ {0} /\ Timeout \in Nat /\ Leeway \in Nat /\ MaxTime \in Nat
  /\ Never \in Int /\ Never < 0 /\ Never + jwksCacheTTL + Timeout < 0
BY TimesAssumption DEF Never

LEMMA TimesAddUp ==
  ASSUME NEW b \in Int, NEW f \in Int, NEW x \in Int, b <= f, f <= x + Timeout
  PROVE  b < x + jwksCacheTTL + Timeout
<1>1. jwksCacheTTL \in Nat \ {0} /\ Timeout \in Nat
  BY Times
<1> QED BY <1>1

LEMMA DocumentNumbers ==
  1 \in DOMAIN Documents /\ DOMAIN Documents = 1..Len(Documents) /\ Len(Documents) \in Nat
BY DocumentsAssumption

LEMMA InitEstablishes == Init => IInv
<1> SUFFICES ASSUME Init PROVE IInv
  OBVIOUS
<1> USE Times, DocumentNumbers
<1>1. TypeOK
  BY DEF Init, TypeOK, Phase
<1>2. HistoryIsCurrent
  BY ListedAreKeys DEF Init, HistoryIsCurrent
<1>3. CacheIsRecent
  BY <1>2 DEF Init, CacheIsRecent, HistoryIsCurrent
<1>4. CallsAreRecent
  BY DEF Init, CallsAreRecent, Recent, Sound, Fetching
<1> QED BY <1>1, <1>2, <1>3, <1>4 DEF IInv

CallStep ==
  \E c \in Call :
    \/ \E t \in Token : getKey(c, t)
    \/ Respond(c) \/ refresh(c) \/ RefreshFails(c) \/ Reread(c) \/ NewJWKSVerifier(c)

\* Whatever happens, the histories stay current and their times only grow.
LEMMA HistoryGrows ==
  ASSUME IInv, [Next]_vars
  PROVE  /\ HistoryIsCurrent'
         /\ now' \in {now, now + 1} /\ published' \in {published, published + 1}
         /\ \A k \in Key : lastListed'[k] >= lastListed[k]
         /\ \A kid \in Kid : lastAbsent'[kid] >= lastAbsent[kid]
<1> USE Times, DocumentNumbers
<1>t. TypeOK /\ HistoryIsCurrent /\ now \in Nat /\ published \in DOMAIN Documents
  BY DEF IInv, TypeOK
<1>1. ASSUME UNCHANGED <<now, published, history>>
      PROVE  /\ HistoryIsCurrent'
             /\ now' = now /\ published' = published
             /\ lastListed' = lastListed /\ lastAbsent' = lastAbsent
  <2>1. UNCHANGED <<now, published, lastListed, lastAbsent>>
    BY <1>1 DEF history
  <2> QED BY <1>t, <2>1 DEF HistoryIsCurrent
<1>2. ASSUME UNCHANGED <<now, published, history>>
      PROVE  /\ \A k \in Key : lastListed'[k] >= lastListed[k]
             /\ \A kid \in Kid : lastAbsent'[kid] >= lastAbsent[kid]
  <2>1. /\ \A k \in Key : lastListed[k] \in Int
        /\ \A kid \in Kid : lastAbsent[kid] \in Int
    BY <1>t DEF HistoryIsCurrent
  <2> QED BY <1>1, <1>2, <2>1
<1>3. CASE CallStep \/ UNCHANGED vars
  <2>1. UNCHANGED <<now, published, history>>
    BY <1>3 DEF CallStep, vars, getKey, Respond, refresh, RefreshFails, Reread, NewJWKSVerifier
  <2> QED BY <1>t, <1>1, <1>2, <2>1
<1>4. CASE Rotate
  <2>1. /\ now' = now /\ published' = published + 1 /\ published' \in DOMAIN Documents
        /\ lastListed' = [k \in Key |-> IF k \in Listed(published') THEN now ELSE lastListed[k]]
        /\ lastAbsent' = [kid \in Kid |-> IF kid \in Absent(published') THEN now ELSE lastAbsent[kid]]
    BY <1>4, <1>t DEF Rotate
  <2>2. Listed(published') \subseteq Key /\ Absent(published') \subseteq Kid
    BY <2>1, ListedAreKeys
  <2>3. HistoryIsCurrent'
    BY <1>t, <2>1, <2>2 DEF HistoryIsCurrent
  <2>4. /\ \A k \in Key : lastListed'[k] >= lastListed[k]
        /\ \A kid \in Kid : lastAbsent'[kid] >= lastAbsent[kid]
    BY <1>t, <2>1 DEF HistoryIsCurrent
  <2> QED BY <1>t, <2>1, <2>3, <2>4
<1>5. CASE Tick
  <2>1. /\ now' = now + 1 /\ published' = published
        /\ lastListed' = [k \in Key |-> IF k \in Listed(published) THEN now + 1 ELSE lastListed[k]]
        /\ lastAbsent' = [kid \in Kid |-> IF kid \in Absent(published) THEN now + 1 ELSE lastAbsent[kid]]
    BY <1>5 DEF Tick
  <2>2. Listed(published) \subseteq Key /\ Absent(published) \subseteq Kid
    BY <1>t, ListedAreKeys
  <2>3. HistoryIsCurrent'
    BY <1>t, <2>1, <2>2 DEF HistoryIsCurrent
  <2>4. /\ \A k \in Key : lastListed'[k] >= lastListed[k]
        /\ \A kid \in Kid : lastAbsent'[kid] >= lastAbsent[kid]
    BY <1>t, <2>1 DEF HistoryIsCurrent
  <2> QED BY <1>t, <2>1, <2>3, <2>4
<1> QED BY <1>3, <1>4, <1>5 DEF Next, CallStep

LEMMA CachedIsPublished ==
  ASSUME TypeOK, CacheIsRecent, NEW kid \in Kid
  PROVE  /\ Cached(kid) \in Key \cup {None}
         /\ Cached(kid) # None =>
              /\ Cached(kid) \in Key /\ lastListed[Cached(kid)] # Never
              /\ fetchedAt <= lastListed[Cached(kid)] + Timeout
         /\ Cached(kid) = None => fetchedAt <= lastAbsent[kid] + Timeout
BY DEF TypeOK, CacheIsRecent, Cached

LEMMA TokenKids == \A t \in Token : t.kid \in Kid
BY DEF Kid

LEMMA TypesKept ==
  ASSUME IInv, [Next]_vars
  PROVE  TypeOK'
<1> USE Times, DocumentNumbers
<1>t. TypeOK /\ CacheIsRecent
  BY DEF IInv
<1>1. ASSUME NEW c \in Call, NEW t \in Token, getKey(c, t) PROVE TypeOK'
  <2>1. Cached(t.kid) \in Key \cup {None}
    BY <1>t, TokenKids, CachedIsPublished
  <2> QED BY <1>1, <1>t, <2>1 DEF getKey, TypeOK, Phase, cacheVars, history
<1>2. ASSUME NEW c \in Call, Respond(c) PROVE TypeOK'
  BY <1>2, <1>t DEF Respond, TypeOK, Phase, cacheVars, history
<1>3. ASSUME NEW c \in Call, refresh(c) PROVE TypeOK'
  <2>1. document[c] \in DOMAIN Documents
    BY <1>t DEF TypeOK
  <2>2. /\ DOMAIN parsed(Documents[document[c]]) \subseteq Kid
        /\ \A kid \in DOMAIN parsed(Documents[document[c]]) :
             parsed(Documents[document[c]])[kid] \in Key
    BY <2>1, ParsedIsDocument
  <2> QED BY <1>3, <1>t, <2>2 DEF refresh, TypeOK, Phase, history
<1>4. ASSUME NEW c \in Call, RefreshFails(c) PROVE TypeOK'
  BY <1>4, <1>t DEF RefreshFails, TypeOK, Phase, cacheVars, history
<1>5. ASSUME NEW c \in Call, Reread(c) PROVE TypeOK'
  <2>1. Cached(token[c].kid) \in Key \cup {None}
    BY <1>t, TokenKids, CachedIsPublished DEF TypeOK
  <2> QED BY <1>5, <1>t, <2>1 DEF Reread, TypeOK, Phase, cacheVars, history
<1>6. ASSUME NEW c \in Call, NewJWKSVerifier(c) PROVE TypeOK'
  BY <1>6, <1>t DEF NewJWKSVerifier, TypeOK, Phase, cacheVars, history
<1>7. CASE Rotate
  BY <1>7, <1>t DEF Rotate, TypeOK, cacheVars, callVars
<1>8. CASE Tick
  BY <1>8, <1>t DEF Tick, TypeOK, cacheVars, callVars
<1>9. CASE UNCHANGED vars
  BY <1>9, <1>t DEF vars, TypeOK, cacheVars, callVars, history
<1> QED BY <1>1, <1>2, <1>3, <1>4, <1>5, <1>6, <1>7, <1>8, <1>9 DEF Next

LEMMA CacheKept ==
  ASSUME IInv, [Next]_vars
  PROVE  CacheIsRecent'
<1> USE Times, DocumentNumbers
<1>t. TypeOK /\ HistoryIsCurrent /\ CacheIsRecent
  BY DEF IInv
<1>g. /\ \A k \in Key : lastListed'[k] >= lastListed[k] /\ lastListed[k] \in {Never} \cup 0..now
                       /\ lastListed'[k] \in Int
      /\ \A kid \in Kid : lastAbsent'[kid] >= lastAbsent[kid] /\ lastAbsent[kid] \in Int
                       /\ lastAbsent'[kid] \in Int
  BY <1>t, HistoryGrows DEF HistoryIsCurrent, TypeOK
<1>1. ASSUME UNCHANGED cacheVars PROVE CacheIsRecent'
  <2>1. keys' = keys /\ fetchedAt' = fetchedAt /\ fetchedAt \in Int
    BY <1>1, <1>t DEF cacheVars, TypeOK
  <2>2. ASSUME NEW kid \in DOMAIN keys
        PROVE  /\ keys[kid] # None /\ lastListed'[keys[kid]] # Never
               /\ fetchedAt <= lastListed'[keys[kid]] + Timeout
    <3>1. keys[kid] \in Key
      BY <1>t DEF TypeOK
    <3> QED BY <1>t, <1>g, <2>1, <3>1 DEF CacheIsRecent, TypeOK
  <2>3. \A kid \in Kid \ DOMAIN keys : fetchedAt <= lastAbsent'[kid] + Timeout
    BY <1>t, <1>g, <2>1 DEF CacheIsRecent
  <2> QED BY <2>1, <2>2, <2>3 DEF CacheIsRecent
<1>2. ASSUME NEW c \in Call, refresh(c) PROVE CacheIsRecent'
  <2> DEFINE n == document[c]
  <2>1. n \in DOMAIN Documents
    BY <1>t DEF TypeOK
  <2>2. /\ keys' = parsed(Documents[n]) /\ fetchedAt' = now
        /\ lastListed' = lastListed /\ lastAbsent' = lastAbsent
    BY <1>2 DEF refresh, history
  <2>3. /\ began[c] \in Nat /\ now \in Nat /\ now <= began[c] + Timeout
        /\ \A k \in Listed(n) : lastListed[k] >= began[c]
        /\ \A kid \in Absent(n) : lastAbsent[kid] >= began[c]
    BY <1>2, <1>t DEF IInv, CallsAreRecent, Recent, refresh, Fetching, TypeOK
  <2> HIDE DEF n
  <2>4. \A kid \in DOMAIN keys' :
          /\ keys'[kid] # None /\ lastListed'[keys'[kid]] # Never
          /\ fetchedAt' <= lastListed'[keys'[kid]] + Timeout
    <3> TAKE kid \in DOMAIN keys'
    <3>1. keys'[kid] \in Listed(n) /\ keys'[kid] \in Key /\ keys'[kid] # None
      BY <2>1, <2>2, ParsedIsDocument
    <3> QED BY <1>g, <2>2, <2>3, <3>1
  <2>5. \A kid \in Kid \ DOMAIN keys' : fetchedAt' <= lastAbsent'[kid] + Timeout
    <3> TAKE kid \in Kid \ DOMAIN keys'
    <3>1. kid \in Absent(n)
      BY <2>1, <2>2, ParsedIsDocument
    <3> QED BY <1>g, <2>2, <2>3, <3>1
  <2> QED BY <2>4, <2>5 DEF CacheIsRecent
<1>3. UNCHANGED cacheVars \/ \E c \in Call : refresh(c)
  BY DEF Next, vars, getKey, Respond, RefreshFails, Reread, NewJWKSVerifier, Rotate, Tick
<1> QED BY <1>1, <1>2, <1>3

\* A call that did not move knows what it knew; the histories may have grown.
LEMMA OthersKept ==
  ASSUME IInv, [Next]_vars, NEW c \in Call,
         phase'[c] = phase[c], token'[c] = token[c], began'[c] = began[c],
         entry'[c] = entry[c], document'[c] = document[c], failed'[c] = failed[c],
         phase[c] = "reread" => fetchedAt' >= fetchedAt,
         phase[c] \in Fetching => now' <= began[c] + Timeout
  PROVE  Recent(c)' /\ Sound(c)'
<1>t. TypeOK /\ HistoryIsCurrent /\ Recent(c) /\ Sound(c)
  BY DEF IInv, CallsAreRecent
<1>0. /\ now \in Nat /\ began[c] \in Nat /\ document[c] \in DOMAIN Documents
      /\ entry[c] \in Key \cup {None} /\ fetchedAt \in Int
      /\ phase[c] = "verify" => entry[c] # None
  BY <1>t, Times, DocumentNumbers DEF TypeOK
<1>1. fetchedAt' \in Int
  BY TypesKept, Times DEF TypeOK
<1>2. ASSUME NEW k \in Key
      PROVE  /\ lastListed'[k] >= lastListed[k]
             /\ lastListed[k] \in Int /\ lastListed'[k] \in Int
             /\ lastListed[k] # Never => lastListed'[k] # Never
  <2>1. lastListed'[k] >= lastListed[k] /\ lastListed[k] \in {Never} \cup 0..now
    BY <1>t, HistoryGrows DEF HistoryIsCurrent
  <2>2. lastListed'[k] \in {Never} \cup 0..now' /\ now' \in Nat
    <3>1. now' \in {now, now + 1} /\ HistoryIsCurrent'
      BY HistoryGrows
    <3> QED BY <1>0, <3>1, Times DEF HistoryIsCurrent, Never
  <2> QED BY <1>0, <2>1, <2>2, Times
<1>3. ASSUME NEW kid \in Kid
      PROVE  /\ lastAbsent'[kid] >= lastAbsent[kid]
             /\ lastAbsent[kid] \in Int /\ lastAbsent'[kid] \in Int
  <2>1. lastAbsent'[kid] >= lastAbsent[kid] /\ lastAbsent[kid] \in {Never} \cup 0..now
    BY <1>t, HistoryGrows DEF HistoryIsCurrent
  <2>2. lastAbsent'[kid] \in {Never} \cup 0..now' /\ now' \in Nat
    <3>1. now' \in {now, now + 1} /\ HistoryIsCurrent'
      BY HistoryGrows
    <3> QED BY <1>0, <3>1, Times DEF HistoryIsCurrent, Never
  <2> QED BY <1>0, <2>1, <2>2, Times
<1>4. ASSUME phase[c] = "answered"
      PROVE  /\ \A k \in Listed(document[c]) : lastListed'[k] >= began[c]
             /\ \A kid \in Absent(document[c]) : lastAbsent'[kid] >= began[c]
  <2>1. /\ \A k \in Listed(document[c]) : k \in Key /\ lastListed[k] >= began[c]
        /\ \A kid \in Absent(document[c]) : kid \in Kid /\ lastAbsent[kid] >= began[c]
    BY <1>t, <1>0, <1>4, ListedAreKeys DEF Recent
  <2>2. ASSUME NEW k \in Listed(document[c]) PROVE lastListed'[k] >= began[c]
    <3>1. k \in Key /\ lastListed[k] >= began[c]
      BY <2>1
    <3>2. lastListed'[k] >= lastListed[k] /\ lastListed[k] \in Int /\ lastListed'[k] \in Int
      BY <3>1, <1>2
    <3> QED BY <1>0, <3>1, <3>2
  <2>3. ASSUME NEW kid \in Absent(document[c]) PROVE lastAbsent'[kid] >= began[c]
    <3>1. kid \in Kid /\ lastAbsent[kid] >= began[c]
      BY <2>1
    <3>2. lastAbsent'[kid] >= lastAbsent[kid] /\ lastAbsent[kid] \in Int /\ lastAbsent'[kid] \in Int
      BY <3>1, <1>3
    <3> QED BY <1>0, <3>1, <3>2
  <2> QED BY <2>2, <2>3
<1>5. phase[c] = "reread" => fetchedAt' >= began[c]
  BY <1>t, <1>0, <1>1 DEF Recent
<1>6. ASSUME NEW k \in Key, began[c] < lastListed[k] + jwksCacheTTL + Timeout
      PROVE  began[c] < lastListed'[k] + jwksCacheTTL + Timeout
  <2>1. lastListed'[k] >= lastListed[k] /\ lastListed[k] \in Int /\ lastListed'[k] \in Int
    BY <1>2
  <2> QED BY <1>0, <1>6, <2>1, Times
<1>7. phase[c] = "verify" /\ ~failed[c] =>
        began[c] < lastListed'[entry[c]] + jwksCacheTTL + Timeout
  BY <1>t, <1>0, <1>6 DEF Recent
<1>8. phase[c] = "accepted" /\ ~failed[c] =>
        began[c] < lastListed'[token[c].key] + jwksCacheTTL + Timeout
  BY <1>t, <1>6 DEF Recent, Sound
<1>9. Recent(c)'
  BY <1>4, <1>5, <1>7, <1>8 DEF Recent
<1>10. Sound(c)'
  BY <1>t, <1>0, <1>2 DEF Sound
<1> QED BY <1>9, <1>10

LEMMA CallsKept ==
  ASSUME IInv, [Next]_vars
  PROVE  CallsAreRecent'
<1> USE Times, DocumentNumbers
<1>t. TypeOK /\ HistoryIsCurrent /\ CacheIsRecent /\ CallsAreRecent
  BY DEF IInv
<1>0. now \in Nat /\ fetchedAt \in {Never} \cup 0..now
  BY <1>t DEF TypeOK
<1>1. ASSUME NEW c \in Call, NEW t \in Token, getKey(c, t) PROVE CallsAreRecent'
  <2>1. \A d \in Call \ {c} : Recent(d)' /\ Sound(d)'
    <3> TAKE d \in Call \ {c}
    <3>1. /\ phase'[d] = phase[d] /\ token'[d] = token[d] /\ began'[d] = began[d]
          /\ entry'[d] = entry[d] /\ document'[d] = document[d] /\ failed'[d] = failed[d]
          /\ fetchedAt' = fetchedAt /\ now' = now
      BY <1>1, <1>t DEF getKey, TypeOK, cacheVars
    <3> QED BY <1>t, <1>0, <3>1, OthersKept DEF CallsAreRecent, Recent
  <2>2. /\ t.kid \in Kid /\ Cached(t.kid) \in Key \cup {None}
        /\ Cached(t.kid) # None =>
             /\ lastListed[Cached(t.kid)] \in Int
             /\ lastListed[Cached(t.kid)] # Never
             /\ fetchedAt <= lastListed[Cached(t.kid)] + Timeout
    BY <1>t, TokenKids, CachedIsPublished DEF HistoryIsCurrent
  <2>3. /\ token'[c] = t /\ began'[c] = now /\ entry'[c] = Cached(t.kid) /\ failed'[c] = FALSE
        /\ now' = now /\ lastListed' = lastListed
        /\ phase'[c] = IF t.alg # "RS256" THEN "rejected"
             ELSE IF Cached(t.kid) # None /\ now - fetchedAt < jwksCacheTTL THEN "verify"
             ELSE "fetching"
    BY <1>1, <1>t DEF getKey, TypeOK, history
  <2>4. Sound(c)'
    BY <2>2, <2>3 DEF Sound, Fetching
  <2>5. Recent(c)'
    <3>1. phase'[c] \in {"rejected", "verify", "fetching"}
      BY <2>3
    <3>2. phase'[c] = "verify" => began'[c] < lastListed'[entry'[c]] + jwksCacheTTL + Timeout
      BY <1>0, <2>2, <2>3
    <3>3. now' <= began'[c] + Timeout
      BY <1>0, <2>3
    <3> QED BY <3>1, <3>2, <3>3 DEF Recent
  <2> QED BY <2>1, <2>4, <2>5 DEF CallsAreRecent
<1>2. ASSUME NEW c \in Call, Respond(c) PROVE CallsAreRecent'
  <2>1. \A d \in Call \ {c} : Recent(d)' /\ Sound(d)'
    <3> TAKE d \in Call \ {c}
    <3>1. /\ phase'[d] = phase[d] /\ token'[d] = token[d] /\ began'[d] = began[d]
          /\ entry'[d] = entry[d] /\ document'[d] = document[d] /\ failed'[d] = failed[d]
          /\ fetchedAt' = fetchedAt /\ now' = now
      BY <1>2, <1>t DEF Respond, TypeOK, cacheVars
    <3> QED BY <1>t, <1>0, <3>1, OthersKept DEF CallsAreRecent, Recent
  <2>2. /\ phase[c] = "fetching" /\ phase'[c] = "answered" /\ document'[c] = published
        /\ token'[c] = token[c] /\ began'[c] = began[c] /\ entry'[c] = entry[c]
        /\ now' = now /\ lastListed' = lastListed /\ lastAbsent' = lastAbsent
        /\ began[c] \in 0..now
    BY <1>2, <1>t DEF Respond, TypeOK, history
  <2>3. Sound(c) /\ Recent(c)
    BY <1>t DEF CallsAreRecent
  <2>4. Sound(c)'
    BY <2>2, <2>3 DEF Sound, Fetching
  <2>5. Recent(c)'
    <3>1. now' <= began'[c] + Timeout
      BY <2>2, <2>3 DEF Recent, Fetching
    <3>2. /\ \A k \in Listed(published) : lastListed[k] >= began[c]
          /\ \A kid \in Absent(published) : lastAbsent[kid] >= began[c]
      BY <1>t, <1>0, <2>2 DEF HistoryIsCurrent
    <3> QED BY <2>2, <3>1, <3>2 DEF Recent
  <2> QED BY <2>1, <2>4, <2>5 DEF CallsAreRecent
<1>3. ASSUME NEW c \in Call, refresh(c) PROVE CallsAreRecent'
  <2>1. \A d \in Call \ {c} : Recent(d)' /\ Sound(d)'
    <3> TAKE d \in Call \ {c}
    <3>1. /\ phase'[d] = phase[d] /\ token'[d] = token[d] /\ began'[d] = began[d]
          /\ entry'[d] = entry[d] /\ document'[d] = document[d] /\ failed'[d] = failed[d]
          /\ fetchedAt' = now /\ now' = now
      BY <1>3, <1>t DEF refresh, TypeOK
    <3> QED BY <1>t, <1>0, <3>1, OthersKept DEF CallsAreRecent, Recent
  <2>2. /\ phase[c] = "answered" /\ phase'[c] = "reread" /\ fetchedAt' = now
        /\ token'[c] = token[c] /\ began'[c] = began[c] /\ entry'[c] = entry[c]
        /\ lastListed' = lastListed /\ began[c] \in 0..now
    BY <1>3, <1>t DEF refresh, TypeOK, history
  <2>3. Sound(c)
    BY <1>t DEF CallsAreRecent
  <2>4. Sound(c)' /\ Recent(c)'
    BY <1>0, <2>2, <2>3 DEF Sound, Recent, Fetching
  <2> QED BY <2>1, <2>4 DEF CallsAreRecent
<1>4. ASSUME NEW c \in Call, RefreshFails(c) PROVE CallsAreRecent'
  <2>1. \A d \in Call \ {c} : Recent(d)' /\ Sound(d)'
    <3> TAKE d \in Call \ {c}
    <3>1. /\ phase'[d] = phase[d] /\ token'[d] = token[d] /\ began'[d] = began[d]
          /\ entry'[d] = entry[d] /\ document'[d] = document[d] /\ failed'[d] = failed[d]
          /\ fetchedAt' = fetchedAt /\ now' = now
      BY <1>4, <1>t DEF RefreshFails, TypeOK, cacheVars
    <3> QED BY <1>t, <1>0, <3>1, OthersKept DEF CallsAreRecent, Recent
  <2>2. /\ phase[c] \in Fetching /\ phase'[c] \in {"verify", "rejected"} /\ failed'[c] = TRUE
        /\ token'[c] = token[c] /\ entry'[c] = entry[c] /\ lastListed' = lastListed
    BY <1>4, <1>t DEF RefreshFails, TypeOK, history, Fetching
  <2>3. Sound(c)
    BY <1>t DEF CallsAreRecent
  <2>4. Sound(c)' /\ Recent(c)'
    BY <2>2, <2>3 DEF Sound, Recent, Fetching
  <2> QED BY <2>1, <2>4 DEF CallsAreRecent
<1>5. ASSUME NEW c \in Call, Reread(c) PROVE CallsAreRecent'
  <2> DEFINE kid == token[c].kid
  <2>1. \A d \in Call \ {c} : Recent(d)' /\ Sound(d)'
    <3> TAKE d \in Call \ {c}
    <3>1. /\ phase'[d] = phase[d] /\ token'[d] = token[d] /\ began'[d] = began[d]
          /\ entry'[d] = entry[d] /\ document'[d] = document[d] /\ failed'[d] = failed[d]
          /\ fetchedAt' = fetchedAt /\ now' = now
      BY <1>5, <1>t DEF Reread, TypeOK, cacheVars
    <3> QED BY <1>t, <1>0, <3>1, OthersKept DEF CallsAreRecent, Recent
  <2>2. /\ phase[c] = "reread" /\ phase'[c] \in {"verify", "rejected"}
        /\ phase'[c] = "verify" => Cached(kid) # None
        /\ token'[c] = token[c] /\ began'[c] = began[c] /\ entry'[c] = Cached(kid)
        /\ lastListed' = lastListed /\ began[c] \in 0..now
    BY <1>5, <1>t DEF Reread, TypeOK, history
  <2>3. /\ kid \in Kid
        /\ Cached(kid) # None =>
             /\ lastListed[Cached(kid)] \in Int
             /\ lastListed[Cached(kid)] # Never
             /\ fetchedAt <= lastListed[Cached(kid)] + Timeout
    BY <1>t, TokenKids, CachedIsPublished DEF HistoryIsCurrent, TypeOK
  <2>4. token[c].alg = "RS256" /\ fetchedAt >= began[c]
    BY <1>t, <2>2 DEF CallsAreRecent, Sound, Recent
  <2> HIDE DEF kid
  <2>5. Sound(c)'
    BY <2>2, <2>3, <2>4 DEF Sound
  <2>6. phase'[c] = "verify" => began[c] < lastListed'[entry'[c]] + jwksCacheTTL + Timeout
    <3>1. ASSUME phase'[c] = "verify" PROVE began[c] < lastListed[Cached(kid)] + jwksCacheTTL + Timeout
      <4>1. /\ lastListed[Cached(kid)] \in Int
            /\ fetchedAt <= lastListed[Cached(kid)] + Timeout
        BY <2>2, <2>3, <3>1
      <4>2. began[c] \in Int /\ fetchedAt \in Int
        BY <1>0, <2>2
      <4> QED BY <2>4, <4>1, <4>2, TimesAddUp
    <3> QED BY <2>2, <3>1
  <2>7. Recent(c)'
    BY <2>2, <2>6 DEF Recent, Fetching
  <2> QED BY <2>1, <2>5, <2>7 DEF CallsAreRecent
<1>6. ASSUME NEW c \in Call, NewJWKSVerifier(c) PROVE CallsAreRecent'
  <2>1. \A d \in Call \ {c} : Recent(d)' /\ Sound(d)'
    <3> TAKE d \in Call \ {c}
    <3>1. /\ phase'[d] = phase[d] /\ token'[d] = token[d] /\ began'[d] = began[d]
          /\ entry'[d] = entry[d] /\ document'[d] = document[d] /\ failed'[d] = failed[d]
          /\ fetchedAt' = fetchedAt /\ now' = now
      BY <1>6, <1>t DEF NewJWKSVerifier, TypeOK, cacheVars
    <3> QED BY <1>t, <1>0, <3>1, OthersKept DEF CallsAreRecent, Recent
  <2>2. /\ phase[c] = "verify" /\ phase'[c] \in {"accepted", "rejected"} /\ entry'[c] = None
        /\ phase'[c] = "accepted" => token[c].key = entry[c]
        /\ token'[c] = token[c] /\ began'[c] = began[c] /\ failed'[c] = failed[c]
        /\ lastListed' = lastListed /\ entry[c] \in Key
    BY <1>6, <1>t DEF NewJWKSVerifier, TypeOK, history
  <2>3. Recent(c)
    BY <1>t DEF CallsAreRecent
  <2>4. Sound(c)' /\ Recent(c)'
    BY <2>2, <2>3 DEF Sound, Recent, Fetching
  <2> QED BY <2>1, <2>4 DEF CallsAreRecent
<1>7. CASE Rotate \/ Tick \/ UNCHANGED vars
  <2>1. UNCHANGED <<cacheVars, callVars>>
    BY <1>7 DEF Rotate, Tick, vars
  <2>2. UNCHANGED <<fetchedAt, phase, token, began, entry, document, failed>>
    BY <2>1 DEF cacheVars, callVars
  <2>3. \A d \in Call : phase[d] \in Fetching => now' <= began[d] + Timeout
    <3> TAKE d \in Call
    <3>1. began[d] \in Nat /\ (phase[d] \in Fetching => now <= began[d] + Timeout)
      BY <1>t DEF TypeOK, CallsAreRecent, Recent
    <3> QED BY <1>7, <1>0, <3>1 DEF Rotate, Tick, vars, Fetching
  <2>4. \A d \in Call : Recent(d)' /\ Sound(d)'
    BY <1>0, <2>2, <2>3, OthersKept
  <2> QED BY <2>4 DEF CallsAreRecent
<1> QED BY <1>1, <1>2, <1>3, <1>4, <1>5, <1>6, <1>7 DEF Next

LEMMA Inductive == Spec => []IInv
<1>1. IInv /\ [Next]_vars => IInv'
  BY TypesKept, HistoryGrows, CacheKept, CallsKept DEF IInv
<1> QED BY InitEstablishes, <1>1, PTL DEF Spec

\* The verifier's variables keep their types, and no request verifies without a key.
THEOREM TypeCorrect == Spec => []TypeOK
<1>1. IInv => TypeOK
  BY DEF IInv
<1> QED BY <1>1, Inductive, PTL

\* A withdrawn key runs out a lifetime and a fetch after its withdrawal, whatever
\* order the fetches store in (getKey, refresh): only a failed fetch prolongs it.
THEOREM WithdrawnKeysRunOut == Spec => []WithdrawnKeyRunsOut
<1>1. IInv => WithdrawnKeyRunsOut
  BY DEF IInv, CallsAreRecent, Recent, WithdrawnKeyRunsOut
<1> QED BY <1>1, Inductive, PTL

\* Whatever is accepted is signed with a published signing key and its claims are
\* right at the time they are checked (NewJWKSVerifier).
THEOREM OnlyValidIsAccepted == Spec => AcceptedIsValid
<1> DEFINE Valid(c) ==
      LET t == token'[c]
      IN  /\ t.key \in Key /\ lastListed[t.key] # Never
          /\ t.alg = "RS256" /\ t.iss /\ t.aud /\ t.sub
          /\ t.exp # None /\ now' < t.exp + Leeway
          /\ t.nbf = None \/ now' >= t.nbf - Leeway
<1>1. IInv /\ [Next]_vars
        => \A c \in Call : phase[c] # "accepted" /\ phase'[c] = "accepted" => Valid(c)
  <2> SUFFICES ASSUME IInv, [Next]_vars, NEW c \in Call,
                      phase[c] # "accepted", phase'[c] = "accepted"
               PROVE  Valid(c)
    OBVIOUS
  <2>1. phase \in [Call -> Phase]
    BY DEF IInv, TypeOK
  <2>2. NewJWKSVerifier(c)
    BY <2>1 DEF Next, vars, callVars, getKey, Respond, refresh, RefreshFails, Reread,
       NewJWKSVerifier, Rotate, Tick
  <2>3. /\ phase[c] = "verify" /\ token'[c] = token[c] /\ now' = now
        /\ token[c].key = entry[c] /\ token[c].iss /\ token[c].aud /\ token[c].sub
        /\ token[c].exp # None /\ now < token[c].exp + Leeway
        /\ token[c].nbf = None \/ now >= token[c].nbf - Leeway
    BY <2>1, <2>2 DEF NewJWKSVerifier
  <2>4. entry[c] \in Key /\ entry[c] # None
    BY <2>3 DEF IInv, TypeOK
  <2>5. token[c].alg = "RS256" /\ lastListed[entry[c]] # Never
    BY <2>3, <2>4 DEF IInv, CallsAreRecent, Sound
  <2> QED BY <2>3, <2>4, <2>5
<1> QED BY <1>1, Inductive, PTL DEF Spec, AcceptedIsValid

\* No cached document hides a new key for longer than a fetch takes (getKey).
THEOREM UnknownKeysAreNew == Spec => UnknownKeyIsNew
<1>1. IInv /\ [Next]_vars
        => \A c \in Call : phase[c] = "reread" /\ phase'[c] = "rejected"
              => lastAbsent[token[c].kid] >= began[c] - Timeout
  <2> SUFFICES ASSUME IInv, [Next]_vars, NEW c \in Call,
                      phase[c] = "reread", phase'[c] = "rejected"
               PROVE  lastAbsent[token[c].kid] >= began[c] - Timeout
    OBVIOUS
  <2>1. /\ TypeOK /\ CacheIsRecent /\ HistoryIsCurrent /\ phase \in [Call -> Phase]
        /\ began[c] \in Nat /\ fetchedAt \in Int
    BY Times DEF IInv, TypeOK
  <2>2. Reread(c)
    BY <2>1 DEF Next, vars, callVars, getKey, Respond, refresh, RefreshFails, Reread,
       NewJWKSVerifier, Rotate, Tick
  <2>3. Cached(token[c].kid) = None
    BY <2>1, <2>2 DEF Reread
  <2>4. token[c].kid \in Kid
    BY <2>1, TokenKids DEF TypeOK
  <2>5. fetchedAt <= lastAbsent[token[c].kid] + Timeout /\ lastAbsent[token[c].kid] \in Int
    BY <2>1, <2>3, <2>4, CachedIsPublished, Times DEF HistoryIsCurrent, TypeOK
  <2>6. fetchedAt >= began[c]
    BY DEF IInv, CallsAreRecent, Recent
  <2> QED BY <2>1, <2>5, <2>6, Times
<1> QED BY <1>1, Inductive, PTL DEF Spec, UnknownKeyIsNew
=============================================================================
