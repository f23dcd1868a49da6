-------------------------- MODULE BoardImagesProofs --------------------------
(***************************************************************************)
(* The render tokens and the images of a board image call, for every set   *)
(* of places, every lifetime of a token and every limit of a wait: the     *)
(* number of pages and the time that the call takes do not matter.         *)
(***************************************************************************)
EXTENDS BoardImages, WellFoundedInduction, FiniteSetTheorems, TLAPS

Refusals == {"invalid-token", "token-expired"}

\* A token on its way to a page.
Carried == phase \in {"devtools", "tab", "loading"}

TokenTypes ==
  /\ life \in Nat \cup {None}
  /\ waited \in 0..minTokenLife
  /\ "error" \in DOMAIN page

\* NoTokenRunsOut is not inductive: a token on its way to a page must have what the
\* margin leaves after the time since it was handed out.
Margin == Carried => life \in Nat /\ life + waited >= minTokenLife

TokenInv ==
  /\ TokenTypes
  /\ shared /\ ~excused => attempt = 0 /\ page.error \notin Refusals /\ Margin

LEMMA Blank == NoPage.error = ""
BY DEF NoPage

LEMMA BlankDomain == "error" \in DOMAIN NoPage
BY DEF NoPage

LEMMA Times == minTokenLife \in Nat /\ Lifetimes \subseteq Nat /\ None \notin Int
BY ImagesAssumption

LEMMA Refused == "" \notin Refusals
BY DEF Refusals

LEMMA InitTokenInv == Init => TokenInv
<1> SUFFICES ASSUME Init PROVE TokenInv
  OBVIOUS
<1>1. page.error = ""
  BY Blank DEF Init
<1>2. life = None /\ waited = 0 /\ attempt = 0 /\ ~Carried
  BY DEF Init, Carried
<1>3. TokenTypes
  <2>1. "error" \in DOMAIN page
    BY BlankDomain DEF Init
  <2> QED BY <2>1, <1>2, Times DEF TokenTypes
<1> QED BY <1>1, <1>2, <1>3, Refused DEF TokenInv, Margin

\* A call that ends holds nothing.
LEMMA AnswerKeeps ==
  ASSUME TokenInv, NEW code, Answer(code) PROVE TokenInv'
<1>1. page'.error = ""
  BY Blank DEF Answer
<1>2. life' = None /\ waited' = 0 /\ attempt' = 0 /\ ~Carried'
  BY DEF Answer, Carried
<1>3. TokenTypes'
  <2>1. "error" \in DOMAIN page'
    BY BlankDomain DEF Answer
  <2> QED BY <2>1, <1>2, Times DEF TokenTypes
<1> QED BY <1>1, <1>2, <1>3, Refused DEF TokenInv, Margin

\* A first attempt takes the token in hand only with the margin left.
LEMMA LoadKeeps ==
  ASSUME TokenInv, NEW k, Load(k, 0), UNCHANGED <<shared, excused>> PROVE TokenInv'
<1>1. \/ phase' = "mint"
      \/ phase' = "devtools" /\ life # None /\ ~(life < minTokenLife)
  BY DEF Load, get
<1>2. page' = NoPage /\ attempt' = 0 /\ waited' = 0 /\ life' = life
  BY DEF Load
<1>3. page'.error = ""
  BY <1>2, Blank
<1>4. TokenTypes'
  <2>1. "error" \in DOMAIN page'
    BY <1>2, BlankDomain
  <2> QED BY <2>1, <1>2, Times DEF TokenInv, TokenTypes
<1>5. Margin'
  BY <1>1, <1>2, Times DEF TokenInv, TokenTypes, Margin, Carried
<1> QED BY <1>2, <1>3, <1>4, <1>5, Refused DEF TokenInv

\* A page boots within the margin, or the call is excused.
LEMMA BootKeeps == TokenInv /\ Boot => TokenInv'
<1> SUFFICES ASSUME TokenInv, Boot PROVE TokenInv'
  OBVIOUS
<1>1. "error" \in DOMAIN page'
  BY BlankDomain DEF Boot, Pages, Drawn
<1>2. ASSUME shared, ~excused' PROVE page'.error \notin Refusals
  <2>1. life # 0
    <3>1. phase = "loading" /\ ~(waited >= minTokenLife) /\ ~excused /\ shared
      BY <1>2 DEF Boot, given
    <3>2. life \in Nat /\ life + waited >= minTokenLife /\ waited \in Nat
      BY <3>1 DEF TokenInv, TokenTypes, Margin, Carried
    <3> QED BY <3>1, <3>2, Times
  <2>2. /\ page' \in Pages /\ shared
    BY <1>2 DEF Boot, given
  <2>3. \/ page' \in {[NoPage EXCEPT !.error = e] :
                         e \in {"not-found", "empty-board", "unknown-focus", "focus-empty"}}
        \/ page' \in {[NoPage EXCEPT !.empty = TRUE], Drawn}
    BY <2>1, <2>2 DEF Pages
  <2>4. page'.error \in {"", "not-found", "empty-board", "unknown-focus", "focus-empty"}
    <3>1. \A e : [NoPage EXCEPT !.error = e].error = e
      BY BlankDomain
    <3>2. [NoPage EXCEPT !.empty = TRUE].error = ""
      BY Blank, BlankDomain
    <3>3. Drawn.error = ""
      BY Blank, BlankDomain DEF Drawn
    <3>4. CASE page' \in {[NoPage EXCEPT !.error = e] :
                            e \in {"not-found", "empty-board", "unknown-focus", "focus-empty"}}
      <4>1. PICK e \in {"not-found", "empty-board", "unknown-focus", "focus-empty"} :
              page' = [NoPage EXCEPT !.error = e]
        BY <3>4
      <4>2. page'.error = e
        BY <3>1, <4>1
      <4> QED BY <4>2
    <3>5. CASE page' \in {[NoPage EXCEPT !.empty = TRUE], Drawn}
      BY <3>2, <3>3, <3>5
    <3> QED BY <2>3, <3>4, <3>5
  <2> QED BY <2>4 DEF Refusals
<1> QED BY <1>1, <1>2 DEF Boot, TokenInv, TokenTypes, Margin, Carried, given

LEMMA CaptureKeeps == TokenInv /\ Capture => TokenInv'
<1> SUFFICES ASSUME TokenInv, Capture PROVE TokenInv'
  OBVIOUS
<1>1. "error" \in DOMAIN page' /\ page'.error = page.error
  BY DEF Capture, TokenInv, TokenTypes
<1> QED BY <1>1 DEF Capture, TokenInv, TokenTypes, Margin, Carried, given

LEMMA TickKeeps == TokenInv /\ Tick => TokenInv'
<1> SUFFICES ASSUME TokenInv, Tick PROVE TokenInv'
  OBVIOUS
<1> USE Times DEF TokenInv, TokenTypes, Margin, Carried
<1>1. life' \in Nat \cup {None} /\ waited' \in 0..minTokenLife
  BY DEF Tick
<1>2. Margin => Margin'
  BY DEF Tick
<1> QED BY <1>1, <1>2 DEF Tick, given

LEMMA StepKeeps == TokenInv /\ [Next]_vars => TokenInv'
<1> SUFFICES ASSUME TokenInv, [Next]_vars PROVE TokenInv'
  OBVIOUS
<1>1. CASE runBoardImage
  <2>1. CASE validateBoardImageArgs(request)
    BY <1>1, <2>1 DEF runBoardImage, TokenInv, TokenTypes, Margin, Carried, given
  <2>2. CASE ~validateBoardImageArgs(request)
    BY <1>1, <2>2, AnswerKeeps DEF runBoardImage
  <2> QED BY <2>1, <2>2
<1>2. CASE authorize
  <2>1. CASE there
    BY <1>2, <2>1 DEF authorize, TokenInv, TokenTypes, Margin, Carried, given
  <2>2. CASE ~there
    BY <1>2, <2>2, AnswerKeeps DEF authorize
  <2> QED BY <2>1, <2>2
<1>a. CASE AssertProjectAccess
  BY <1>a, AnswerKeeps, LoadKeeps DEF AssertProjectAccess, given
<1>q. CASE QueryFails
  BY <1>q, AnswerKeeps DEF QueryFails
<1>3. CASE MintRenderToken
  <2>1. PICK l \in Lifetimes : life' = l /\ excused' = (excused \/ l < minTokenLife)
    BY <1>3 DEF MintRenderToken
  <2>2. waited' = 0 /\ UNCHANGED <<attempt, page, shared>>
    BY <1>3 DEF MintRenderToken, given
  <2>3. ~excused' => ~excused /\ ~(l < minTokenLife)
    BY <2>1
  <2>4. l \in Nat /\ minTokenLife \in Nat
    BY Times
  <2>5. TokenTypes'
    BY <2>1, <2>2, <2>4 DEF TokenInv, TokenTypes
  <2>6. ~excused' => Margin'
    BY <2>1, <2>2, <2>3, <2>4 DEF Margin
  <2> QED BY <2>2, <2>3, <2>5, <2>6 DEF TokenInv
<1>4. CASE MintFails \/ CaptureFails
  BY <1>4, AnswerKeeps DEF MintFails, CaptureFails
<1>5. CASE debuggerWebSocketURL \/ OpenTab
  BY <1>5 DEF debuggerWebSocketURL, OpenTab, TokenInv, TokenTypes, Margin, Carried, given
<1>6. CASE loadAgain
  <2>1. CASE attempt = 0
    <3>1. ~(shared' /\ ~excused')
      BY <1>6 DEF loadAgain, TokenRefused, TokenInv, Refusals, given
    <3>2. page' = NoPage /\ waited' = 0 /\ life' = life
      BY <1>6, <2>1 DEF loadAgain, Load
    <3>3. "error" \in DOMAIN page'
      BY <3>2, BlankDomain
    <3> QED BY <3>1, <3>2, <3>3, Times DEF TokenInv, TokenTypes
  <2>2. CASE attempt # 0
    BY <1>6, <2>2, AnswerKeeps DEF loadAgain
  <2> QED BY <2>1, <2>2
<1>7. CASE Render
  BY <1>7, AnswerKeeps, LoadKeeps DEF Render, given
<1>8. CASE renderTiles
  <2>1. CASE page.error = "" /\ page.png /\ tile < Len(grid.occupied)
    BY <1>8, <2>1, LoadKeeps DEF renderTiles, given
  <2>2. CASE ~(page.error = "" /\ page.png /\ tile < Len(grid.occupied))
    BY <1>8, <2>2, AnswerKeeps DEF renderTiles
  <2> QED BY <2>1, <2>2
<1>9. CASE Meddle \/ UNCHANGED vars
  BY <1>9 DEF Meddle, vars, call, given, TokenInv, TokenTypes, Margin, Carried
<1> QED BY <1>1, <1>2, <1>a, <1>q, <1>3, <1>4, <1>5, <1>6, <1>7, <1>8, <1>9, BootKeeps, CaptureKeeps,
           TickKeeps DEF Next, Step

\* With a shared key, tokens minted long enough and pages that boot within the margin,
\* no page refuses its token and no load is repeated (load, tokenSource.get), whatever
\* the number of tiles and the time they take.
THEOREM TokensLast == Spec => []NoTokenRunsOut
<1>1. TokenInv => NoTokenRunsOut
  BY DEF TokenInv, NoTokenRunsOut, TokenRefused, Refusals
<1> QED BY <1>1, InitTokenInv, StepKeeps, PTL DEF Spec
-----------------------------------------------------------------------------
(* The tiles of a board: finite sets of integers can be listed in order.   *)

Less == {ss \in Nat \X Nat : ss[1] < ss[2]}

LEMMA LessWF == IsWellFoundedOn(Less, Nat)
BY NatLessThanWellFounded DEF OpToRel, Less

\* Induction over the naturals, for a set of them.
LEMMA SetInduction ==
  ASSUME NEW T, T \subseteq Nat, 0 \in T, \A n \in T : n + 1 \in T
  PROVE  T = Nat
<1> SUFFICES ASSUME Nat \ T # {} PROVE FALSE
  OBVIOUS
<1>1. PICK x \in Nat \ T : \A y \in Nat \ T : ~(<<y, x>> \in Less)
  BY LessWF, WFMin
<1>2. x # 0 /\ x - 1 \in Nat
  BY <1>1
<1>3. <<x - 1, x>> \in Less
  BY <1>2 DEF Less
<1>4. x - 1 \in T
  BY <1>1, <1>2, <1>3
<1>5. x - 1 + 1 \in T
  BY <1>4
<1> QED BY <1>1, <1>2, <1>5

\* A finite set of integers that is not empty has a least and a greatest element.
LEMMA Extremes ==
  ASSUME NEW S \in SUBSET Int, IsFiniteSet(S), S # {}
  PROVE  \E lo, hi \in S : \A q \in S : lo <= q /\ q <= hi
<1> DEFINE Bounded(X) == \E lo, hi \in X : \A q \in X : lo <= q /\ q <= hi
           T == {n \in Nat : \A X \in SUBSET Int :
                              IsFiniteSet(X) /\ Cardinality(X) = n + 1 => Bounded(X)}
<1>1. 0 \in T
  <2> SUFFICES ASSUME NEW X \in SUBSET Int, IsFiniteSet(X), Cardinality(X) = 1 PROVE Bounded(X)
    OBVIOUS
  <2>1. PICK x : X = {x}
    BY FS_Singleton
  <2> QED BY <2>1
<1>2. ASSUME NEW n \in T PROVE n + 1 \in T
  <2> SUFFICES ASSUME NEW X \in SUBSET Int, IsFiniteSet(X), Cardinality(X) = n + 1 + 1
               PROVE  Bounded(X)
    BY <1>2
  <2>1. PICK x : x \in X
    BY FS_EmptySet
  <2>2. IsFiniteSet(X \ {x}) /\ Cardinality(X \ {x}) = n + 1
    BY <2>1, FS_RemoveElement
  <2>3. PICK lo, hi \in X \ {x} : \A q \in X \ {x} : lo <= q /\ q <= hi
    BY <2>2
  <2> DEFINE l == IF x < lo THEN x ELSE lo
             h == IF x > hi THEN x ELSE hi
  <2>4. l \in X /\ h \in X /\ \A q \in X : l <= q /\ q <= h
    BY <2>1, <2>3
  <2> QED BY <2>4
<1>3. T = Nat
  <2> HIDE DEF T
  <2>1. T \subseteq Nat
    BY DEF T
  <2> QED BY <1>1, <1>2, <2>1, SetInduction
<1>4. Cardinality(S) \in Nat /\ Cardinality(S) # 0
  BY FS_CardinalityType, FS_EmptySet
<1>5. Cardinality(S) - 1 \in Nat /\ Cardinality(S) - 1 + 1 = Cardinality(S)
  BY <1>4
<1> QED BY <1>3, <1>4, <1>5

Increasing(s, n) == \A i, j \in 1..n : i < j => s[i] < s[j]

\* A finite set of integers can be listed in order.
LEMMA Enumeration ==
  ASSUME NEW S \in SUBSET Int, IsFiniteSet(S)
  PROVE  \E s \in [1..Cardinality(S) -> S] : Increasing(s, Cardinality(S))
<1> DEFINE T == {n \in Nat : \A X \in SUBSET Int :
                   IsFiniteSet(X) /\ Cardinality(X) = n => \E s \in [1..n -> X] : Increasing(s, n)}
<1>1. 0 \in T
  <2> SUFFICES ASSUME NEW X \in SUBSET Int PROVE \E s \in [1..0 -> X] : Increasing(s, 0)
    OBVIOUS
  <2>1. [i \in 1..0 |-> i] \in [1..0 -> X]
    OBVIOUS
  <2> QED BY <2>1 DEF Increasing
<1>2. ASSUME NEW n \in T PROVE n + 1 \in T
  <2> SUFFICES ASSUME NEW X \in SUBSET Int, IsFiniteSet(X), Cardinality(X) = n + 1
               PROVE  \E s \in [1..n + 1 -> X] : Increasing(s, n + 1)
    BY <1>2
  <2>1. X # {}
    BY FS_EmptySet
  <2>2. PICK x \in X : \A q \in X : q <= x
    BY <2>1, Extremes
  <2>3. IsFiniteSet(X \ {x}) /\ Cardinality(X \ {x}) = n
    BY <2>2, FS_RemoveElement
  <2>4. PICK s \in [1..n -> X \ {x}] : Increasing(s, n)
    BY <2>3
  <2> DEFINE e == [i \in 1..n + 1 |-> IF i = n + 1 THEN x ELSE s[i]]
  <2>5. \A i \in 1..n + 1 : i # n + 1 => i \in 1..n
    BY <1>2
  <2>6. e \in [1..n + 1 -> X]
    BY <2>2, <2>4, <2>5
  <2>7. ASSUME NEW i \in 1..n + 1, NEW j \in 1..n + 1, i < j PROVE e[i] < e[j]
    <3>1. i \in 1..n /\ e[i] = s[i]
      BY <2>7, <1>2
    <3>2. CASE j = n + 1
      <4>1. s[i] \in X \ {x}
        BY <3>1, <2>4
      <4>2. s[i] <= x /\ s[i] # x /\ x \in Int /\ s[i] \in Int
        BY <4>1, <2>2
      <4>3. e[j] = x
        BY <3>2
      <4> HIDE DEF e
      <4> QED BY <4>2, <4>3, <3>1
    <3>3. CASE j # n + 1
      <4>1. j \in 1..n /\ e[j] = s[j]
        BY <3>3, <2>5
      <4> QED BY <4>1, <3>1, <2>4, <2>7 DEF Increasing
    <3> QED BY <3>2, <3>3
  <2>8. Increasing(e, n + 1)
    BY <2>7 DEF Increasing
  <2> QED BY <2>6, <2>8
<1>3. T = Nat
  <2> HIDE DEF T
  <2>1. T \subseteq Nat
    BY DEF T
  <2> QED BY <1>1, <1>2, <2>1, SetInduction
<1>4. Cardinality(S) \in Nat
  BY FS_CardinalityType
<1> QED BY <1>3, <1>4

\* The first place of a board is one of its places.
LEMMA FirstIsFirst ==
  ASSUME NEW b \in Boards, b # {} PROVE First(b) \in b
<1>1. b \in SUBSET Int /\ IsFiniteSet(b)
  BY ImagesAssumption DEF Boards
<1>2. \E p \in b : \A q \in b : p <= q
  BY <1>1, Extremes
<1> QED BY <1>2 DEF First

\* The tiles of a board: as many as it has places, and every place is one of them.
LEMMA OccupiedIsTheBoard ==
  ASSUME NEW b \in Boards, b # {}
  PROVE  /\ Occupied(b) \in Seq(Int) /\ Len(Occupied(b)) = Cardinality(b)
         /\ Cardinality(b) \in Nat
         /\ \A p \in b : \E i \in 1..Cardinality(b) : First(b) + Occupied(b)[i] = p
<1> DEFINE f == First(b)
           n == Cardinality(b)
           D == {p - f : p \in b}
           shift == [p \in b |-> p - f]
           s == Occupied(b)
<1>1. b \in SUBSET Int /\ IsFiniteSet(b) /\ f \in Int /\ n \in Nat
  BY ImagesAssumption, FirstIsFirst, FS_CardinalityType DEF Boards
<1>2. D \in SUBSET Int /\ IsFiniteSet(D) /\ Cardinality(D) = n
  <2>1. shift \in Bijection(b, D)
    <3> HIDE DEF f
    <3>1. shift \in [b -> D]
      OBVIOUS
    <3>2. \A p, q \in b : shift[p] = shift[q] => p = q
      BY <1>1
    <3>3. \A d \in D : \E p \in b : shift[p] = d
      OBVIOUS
    <3> QED BY <3>1, <3>2, <3>3 DEF Bijection, Injection, Surjection, IsInjective
  <2>2. ExistsBijection(b, D)
    BY <2>1 DEF ExistsBijection
  <2> QED BY <1>1, <2>2, FS_Bijection
<1>3. \E e \in [1..n -> D] : Increasing(e, n)
  BY <1>2, Enumeration
<1>4. s \in [1..n -> D] /\ Increasing(s, n)
  BY <1>3 DEF Occupied, Increasing
<1> HIDE DEF s, n, f
<1>5. s \in Injection(1..n, D)
  <2>1. \A i, j \in 1..n : s[i] = s[j] => i = j
    <3> SUFFICES ASSUME NEW i \in 1..n, NEW j \in 1..n, s[i] = s[j], i # j PROVE FALSE
      OBVIOUS
    <3>1. i < j \/ j < i
      BY <1>1
    <3>2. s[i] \in Int /\ s[j] \in Int
      BY <1>2, <1>4
    <3> QED BY <3>1, <3>2, <1>4 DEF Increasing
  <2> QED BY <2>1, <1>4 DEF Injection, IsInjective
<1>6. s \in Surjection(1..n, D)
  <2>1. Cardinality(1..n) = n
    BY <1>1, FS_Interval
  <2> QED BY <2>1, <1>2, <1>5, FS_Injection
<1>7. ASSUME NEW p \in b PROVE \E i \in 1..n : f + s[i] = p
  <2>1. p - f \in D
    OBVIOUS
  <2>2. PICK i \in 1..n : s[i] = p - f
    BY <2>1, <1>6 DEF Surjection
  <2> QED BY <2>2, <1>1
<1>8. s \in Seq(Int) /\ Len(s) = n
  <2>1. s \in [1..n -> Int]
    BY <1>2, <1>4
  <2> QED BY <2>1, <1>1
<1> QED BY <1>1, <1>7, <1>8 DEF s, n, f
-----------------------------------------------------------------------------
(* What the images show.                                                   *)

Grids == [first : Int, occupied : Seq(Int)]

Probe == [first |-> First(board), occupied |-> Occupied(board)]

\* The place of the k-th tile of the board, and what a call for one picture asks.
PlaceOf(k) == {First(board) + Occupied(board)[k]}

Wanted == IF request.focus = {} THEN board ELSE request.focus

Images == [shows : SUBSET Int, rect : SUBSET Int]

Marker == {"", "invalid-token", "token-expired", "not-found", "empty-board", "unknown-focus",
           "focus-empty"}

PageType ==
  [error : Marker, empty : BOOLEAN, shows : SUBSET Int, rect : SUBSET Int,
   grid : Grids \cup {None}, png : BOOLEAN]

CallTypes ==
  /\ TypeOK
  /\ page \in PageType
  /\ grid \in Grids \cup {None}
  /\ images \in Seq(Images)

Phases ==
  /\ phase # "done" => answer = None
  /\ phase \in {"validate", "authorize", "gate", "done"} => tile = 0
  /\ phase \notin {"validate", "done"} => validateBoardImageArgs(request)
  /\ board = {} => emptied

Clean == page.error = "" /\ ~page.empty

PageIsTrue ==
  phase \in {"drawing", "loaded"} =>
    /\ page.empty \/ page.error = "empty-board" => emptied
    /\ page.png => Clean
    /\ Clean => IF tile = 0 \/ tellsRect THEN page.rect = page.shows /\ page.shows # {}
                                         ELSE page.rect = {}
    /\ Clean /\ ~moved =>
         /\ board # {}
         /\ IF tile = 0 THEN page.shows = Wanted /\ page.grid = Probe
                        ELSE page.shows = PlaceOf(tile)

GridIsTrue ==
  tile > 0 => request.mode = "tiles" /\ (~moved => board # {} /\ grid = Probe)

ImagesAreTrue ==
  /\ phase # "done" => Len(images) = IF tile = 0 THEN 0 ELSE tile - 1
  /\ tellsRect \/ ~moved => \A i \in DOMAIN images : images[i].rect = images[i].shows
  /\ tile > 0 /\ ~moved => \A i \in DOMAIN images : images[i].shows = PlaceOf(i)
  /\ answer = "ok" /\ ~moved =>
       IF request.mode = "tiles"
         THEN /\ board # {} /\ Len(images) = Cardinality(board)
              /\ \A i \in DOMAIN images : images[i].shows = PlaceOf(i)
         ELSE images[1].shows = Wanted
  /\ answer = "empty" => emptied

ImagesInv == CallTypes /\ Phases /\ PageIsTrue /\ GridIsTrue /\ ImagesAreTrue

LEMMA BlankPage ==
  /\ NoPage \in PageType
  /\ NoPage.error = "" /\ NoPage.empty = FALSE /\ NoPage.png = FALSE
<1>1. NoPage = [error |-> "", empty |-> FALSE, shows |-> {}, rect |-> {}, grid |-> None,
                png |-> FALSE]
  BY DEF NoPage
<1>2. NoPage \in PageType
  <2> DEFINE g == Grids \cup {None}
  <2>1. None \in g
    OBVIOUS
  <2>2. "" \in Marker /\ {} \in SUBSET Int
    <3>1. {} \in SUBSET Int
      OBVIOUS
    <3>2. "" \in Marker
      BY DEF Marker
    <3> QED BY <3>1, <3>2
  <2> HIDE DEF g
  <2>3. [error |-> "", empty |-> FALSE, shows |-> {}, rect |-> {}, grid |-> None, png |-> FALSE]
          \in [error : Marker, empty : BOOLEAN, shows : SUBSET Int, rect : SUBSET Int, grid : g,
              png : BOOLEAN]
    BY <2>1, <2>2, Zenon
  <2> QED BY <1>1, <2>3 DEF PageType, g
<1> QED BY <1>1, <1>2

LEMMA InitImagesInv == Init => ImagesInv
<1> SUFFICES ASSUME Init PROVE ImagesInv
  OBVIOUS
<1>1. TypeOK
  <2>1. /\ request \in Requests /\ board \in Boards /\ there \in BOOLEAN /\ standing \in Standings
        /\ shared \in BOOLEAN /\ tellsRect \in BOOLEAN /\ phase = "validate"
        /\ life = None /\ tile = 0 /\ answer = None /\ moved \in BOOLEAN
    BY Zenon DEF Init
  <2>2. spent \in Nat /\ attempt \in 0..1 /\ waited \in 0..minTokenLife /\ tile \in 0..MaxTiles /\ meddled \in 0..MaxMeddling
    BY ImagesAssumption DEF Init
  <2>3. emptied \in BOOLEAN /\ excused \in BOOLEAN
    BY DEF Init
  <2> QED BY <2>1, <2>2, <2>3 DEF TypeOK
<1>2. CallTypes
  <2>1. page \in PageType /\ grid \in Grids \cup {None} /\ images \in Seq(Images)
    <3>1. page = NoPage /\ grid = None /\ images = <<>>
      BY DEF Init
    <3>2. images \in Seq(Images)
      BY <3>1
    <3> QED BY <3>1, <3>2, BlankPage
  <2> QED BY <1>1, <2>1 DEF CallTypes
<1>3. Phases
  BY DEF Init, Phases
<1>4. PageIsTrue /\ GridIsTrue
  BY DEF Init, PageIsTrue, GridIsTrue
<1>5. ImagesAreTrue
  <2>1. Len(images) = 0 /\ DOMAIN images = {} /\ tile = 0 /\ answer = None
    BY DEF Init
  <2>2. answer # "ok" /\ answer # "empty"
    BY <2>1, ImagesAssumption DEF Code
  <2> QED BY <2>1, <2>2 DEF ImagesAreTrue
<1> QED BY <1>2, <1>3, <1>4, <1>5 DEF ImagesInv

\* A call that ends holds nothing, and keeps its images.
LEMMA AnswerImages ==
  ASSUME ImagesInv, phase # "done", NEW code \in Code, Answer(code),
         UNCHANGED <<world, given, excused>>, images' \in Seq(Images),
         code = "empty" => emptied,
         tellsRect \/ ~moved => \A i \in DOMAIN images' : images'[i].rect = images'[i].shows,
         code = "ok" /\ ~moved =>
           IF request.mode = "tiles"
             THEN /\ board # {} /\ Len(images') = Cardinality(board)
                  /\ \A i \in DOMAIN images' : images'[i].shows = PlaceOf(i)
             ELSE images'[1].shows = Wanted
  PROVE  ImagesInv'
<1>1. /\ UNCHANGED <<request, shared, tellsRect, board, there, standing, meddled, moved, emptied,
                     excused>>
      /\ phase' = "done" /\ answer' = code /\ tile' = 0 /\ attempt' = 0 /\ life' = None
      /\ waited' = 0 /\ spent' = 0 /\ page' = NoPage /\ grid' = None
  BY DEF Answer, world, given
<1>2. TypeOK'
  BY <1>1, ImagesAssumption DEF ImagesInv, CallTypes, TypeOK
<1>3. CallTypes'
  BY <1>1, <1>2, BlankPage DEF CallTypes
<1>4. Phases'
  BY <1>1 DEF ImagesInv, Phases
<1>5. PageIsTrue' /\ GridIsTrue'
  BY <1>1 DEF PageIsTrue, GridIsTrue
<1>6. PlaceOf(0)' = PlaceOf(0) /\ (\A i : PlaceOf(i)' = PlaceOf(i)) /\ Wanted' = Wanted
  BY <1>1 DEF PlaceOf, Wanted
<1>7. ImagesAreTrue'
  BY <1>1, <1>6 DEF ImagesAreTrue
<1> QED BY <1>3, <1>4, <1>5, <1>7 DEF ImagesInv

\* A load begins a page of the tiles that the probe found, or the first page.
LEMMA LoadImages ==
  ASSUME ImagesInv, phase \notin {"validate", "done"}, NEW k \in 0..MaxTiles, NEW n \in 0..1, Load(k, n),
         UNCHANGED <<world, given, excused>>,
         grid' \in Grids \cup {None}, images' \in Seq(Images),
         k > 0 => /\ grid' # None /\ k <= Len(grid'.occupied) /\ Len(grid'.occupied) <= MaxTiles
                  /\ request.mode = "tiles"
                  /\ ~moved => board # {} /\ grid' = Probe,
         Len(images') = IF k = 0 THEN 0 ELSE k - 1,
         tellsRect \/ ~moved => \A i \in DOMAIN images' : images'[i].rect = images'[i].shows,
         k > 0 /\ ~moved => \A i \in DOMAIN images' : images'[i].shows = PlaceOf(i)
  PROVE  ImagesInv'
<1>1. /\ UNCHANGED <<request, shared, tellsRect, board, there, standing, meddled, moved, emptied,
                     excused, life, answer>>
      /\ phase' \in {"mint", "devtools"} /\ tile' = k /\ attempt' = n
      /\ waited' = 0 /\ spent' = 0 /\ page' = NoPage
  BY DEF Load, get, world, given
<1>2. TypeOK'
  BY <1>1, ImagesAssumption DEF ImagesInv, CallTypes, TypeOK
<1>3. CallTypes'
  BY <1>1, <1>2, BlankPage DEF CallTypes
<1>4. answer = None /\ validateBoardImageArgs(request)
  BY DEF ImagesInv, Phases
<1>5. Phases'
  <2>1. validateBoardImageArgs(request)' = validateBoardImageArgs(request)
    BY <1>1 DEF validateBoardImageArgs
  <2> QED BY <1>1, <1>4, <2>1 DEF ImagesInv, Phases
<1>6. (\A i : PlaceOf(i)' = PlaceOf(i)) /\ Probe' = Probe
  BY <1>1 DEF PlaceOf, Probe
<1>7. PageIsTrue'
  BY <1>1 DEF PageIsTrue
<1>8. GridIsTrue'
  BY <1>1, <1>6 DEF GridIsTrue
<1>9. ImagesAreTrue'
  <2>1. answer' # "ok" /\ answer' # "empty"
    BY <1>1, <1>4, ImagesAssumption DEF Code
  <2> QED BY <1>1, <1>6, <2>1 DEF ImagesAreTrue
<1> QED BY <1>3, <1>5, <1>7, <1>8, <1>9 DEF ImagesInv

\* What changes neither the page nor the tile nor the images keeps their truth.
LEMMA OtherImages ==
  ASSUME ImagesInv, TypeOK', UNCHANGED <<page, tile, grid, images, answer, request, tellsRect>>,
         phase # "done", phase' # "done", phase = "validate" <=> phase' = "validate",
         phase' \in {"authorize", "gate"} => phase \in {"authorize", "gate"},
         phase' \in {"drawing", "loaded"} => phase' = phase,
         emptied => emptied', board' = {} => emptied',
         moved' \/ (moved' = moved /\ board' = board)
  PROVE  ImagesInv'
<1>1. CallTypes'
  BY DEF ImagesInv, CallTypes
<1>2. validateBoardImageArgs(request)' = validateBoardImageArgs(request)
  BY DEF validateBoardImageArgs
<1>3. Phases'
  BY <1>2 DEF ImagesInv, Phases
<1>4. ~moved' => ~moved /\ board' = board
  OBVIOUS
<1>5. ~moved' => (\A i : PlaceOf(i)' = PlaceOf(i)) /\ Probe' = Probe /\ Wanted' = Wanted
  BY <1>4 DEF PlaceOf, Probe, Wanted
<1>6. Clean' = Clean
  BY DEF Clean
<1>7. PageIsTrue'
  BY <1>4, <1>5, <1>6 DEF ImagesInv, PageIsTrue
<1>8. GridIsTrue'
  BY <1>4, <1>5 DEF ImagesInv, GridIsTrue
<1>9. ImagesAreTrue'
  <2>1. answer' # "ok" /\ answer' # "empty"
    BY ImagesAssumption DEF Code, ImagesInv, Phases
  <2> QED BY <1>4, <1>5, <2>1 DEF ImagesInv, ImagesAreTrue
<1> QED BY <1>1, <1>3, <1>7, <1>8, <1>9 DEF ImagesInv

LEMMA MintImages == ImagesInv /\ MintRenderToken => ImagesInv'
<1> SUFFICES ASSUME ImagesInv, MintRenderToken PROVE ImagesInv'
  OBVIOUS
<1>1. PICK l \in Lifetimes : life' = l /\ excused' = (excused \/ l < minTokenLife)
  BY DEF MintRenderToken
<1>2. /\ phase = "mint" /\ phase' = "devtools" /\ spent' = 0 /\ waited' = 0
      /\ UNCHANGED <<tile, attempt, page, grid, images, answer, request, shared, tellsRect,
                     board, there, standing, meddled, moved, emptied>>
  BY DEF MintRenderToken, world, given
<1>3. TypeOK'
  <2>1. life' \in Nat \cup {None} /\ waited' \in 0..minTokenLife /\ spent' \in Nat
    BY <1>1, <1>2, ImagesAssumption
  <2>2. excused' \in BOOLEAN
    BY <1>1
  <2> QED BY <1>2, <2>1, <2>2 DEF ImagesInv, CallTypes, TypeOK
<1> QED BY <1>2, <1>3, OtherImages DEF ImagesInv, Phases

LEMMA WaitImages == ImagesInv /\ (debuggerWebSocketURL \/ OpenTab) => ImagesInv'
<1> SUFFICES ASSUME ImagesInv, debuggerWebSocketURL \/ OpenTab PROVE ImagesInv'
  OBVIOUS
<1>1. /\ phase \in {"devtools", "tab"} /\ phase' \in {"tab", "loading"} /\ spent' = 0
      /\ UNCHANGED <<tile, attempt, life, waited, page, grid, images, answer, request, shared,
                     tellsRect, board, there, standing, meddled, moved, emptied, excused>>
  BY DEF debuggerWebSocketURL, OpenTab, world, given
<1>2. TypeOK'
  BY <1>1 DEF ImagesInv, CallTypes, TypeOK
<1> QED BY <1>1, <1>2, OtherImages DEF ImagesInv, Phases

LEMMA TickImages == ImagesInv /\ Tick => ImagesInv'
<1> SUFFICES ASSUME ImagesInv, Tick PROVE ImagesInv'
  OBVIOUS
<1>1. /\ phase \in {"tab", "mint", "devtools", "loading", "drawing"}
      /\ UNCHANGED <<phase, tile, attempt, page, grid, images, answer, request, shared,
                     tellsRect, board, there, standing, meddled, moved, emptied, excused>>
  BY ImagesAssumption DEF Tick, Waiting, world, given
<1>2. TypeOK'
  <2>1. life' \in Nat \cup {None} /\ waited' \in 0..minTokenLife /\ spent' \in Nat
    BY ImagesAssumption DEF Tick, ImagesInv, CallTypes, TypeOK
  <2> QED BY <1>1, <2>1 DEF ImagesInv, CallTypes, TypeOK
<1> QED BY <1>1, <1>2, OtherImages DEF ImagesInv, Phases

LEMMA MeddleImages == ImagesInv /\ Meddle => ImagesInv'
<1> SUFFICES ASSUME ImagesInv, Meddle PROVE ImagesInv'
  OBVIOUS
<1>1. /\ phase # "done" /\ meddled < MaxMeddling /\ meddled' = meddled + 1
      /\ UNCHANGED <<phase, tile, attempt, life, waited, spent, page, grid, images, answer, request,
                     shared, tellsRect, excused>>
  BY DEF Meddle, call, given
<1>2. /\ board' \in Boards /\ there' \in BOOLEAN /\ standing' \in Standings
      /\ moved' \in BOOLEAN /\ emptied' \in BOOLEAN
      /\ emptied => emptied'
      /\ board' = {} => emptied'
      /\ moved' \/ (moved' = moved /\ board' = board)
  <2>1. CASE board' \in Boards /\ moved' = TRUE /\ emptied' = (emptied \/ board' = {})
             /\ UNCHANGED <<there, standing>>
    BY <2>1 DEF ImagesInv, CallTypes, TypeOK
  <2>2. CASE there' = FALSE /\ moved' = TRUE /\ UNCHANGED <<board, standing, emptied>>
    BY <2>2 DEF ImagesInv, CallTypes, TypeOK, Phases
  <2>3. CASE standing' \in Standings /\ UNCHANGED <<board, there, moved, emptied>>
    BY <2>3 DEF ImagesInv, CallTypes, TypeOK, Phases
  <2> QED BY <2>1, <2>2, <2>3 DEF Meddle
<1>3. TypeOK'
  <2>1. meddled' \in 0..MaxMeddling
    BY <1>1, ImagesAssumption DEF ImagesInv, CallTypes, TypeOK
  <2> QED BY <1>1, <1>2, <2>1 DEF ImagesInv, CallTypes, TypeOK
<1> QED BY <1>1, <1>2, <1>3, OtherImages DEF ImagesInv, Phases

\* What the page draws of a board that is not empty.
LEMMA DrawnPage ==
  ASSUME ImagesInv, board # {}
  PROVE  /\ Drawn \in PageType /\ Drawn.error = "" /\ Drawn.empty = FALSE /\ Drawn.png = FALSE
         /\ Drawn.shows # {} /\ Drawn.grid = Probe
         /\ Drawn.shows = IF tile = 0 THEN Wanted ELSE {First(board) + grid.occupied[tile]}
         /\ Drawn.rect = IF tile = 0 \/ tellsRect THEN Drawn.shows ELSE {}
<1> DEFINE shown == IF tile > 0 THEN {First(board) + grid.occupied[tile]}
                    ELSE IF request.focus = {} THEN board ELSE request.focus
           told == IF tile > 0 /\ ~tellsRect THEN {} ELSE shown
<1>1. tile \in Nat /\ board \in Boards /\ request \in Requests
  BY ImagesAssumption DEF ImagesInv, CallTypes, TypeOK
<1>2. First(board) \in Int /\ Occupied(board) \in Seq(Int)
  BY <1>1, FirstIsFirst, OccupiedIsTheBoard, ImagesAssumption DEF Boards
<1>3. Probe \in Grids
  BY <1>2 DEF Probe, Grids
<1>4. shown \in SUBSET Int /\ shown # {}
  <2>1. CASE tile > 0
    <3>1. grid \in Grids /\ tile \in 1..Len(grid.occupied)
      BY <2>1, <1>1 DEF ImagesInv, CallTypes, TypeOK
    <3>2. grid.occupied[tile] \in Int
      BY <3>1 DEF Grids
    <3> QED BY <2>1, <3>2, <1>2
  <2>2. CASE ~(tile > 0)
    BY <2>2, <1>1, ImagesAssumption DEF Boards
  <2> QED BY <2>1, <2>2
<1>5. shown = IF tile = 0 THEN Wanted ELSE {First(board) + grid.occupied[tile]}
  BY <1>1 DEF Wanted
<1>6. told = IF tile = 0 \/ tellsRect THEN shown ELSE {}
  BY <1>1
<1>7. told \in SUBSET Int
  BY <1>4
<1>8. Drawn = [NoPage EXCEPT !.shows = shown, !.rect = told, !.grid = Probe]
  BY DEF Drawn, Probe
<1> HIDE DEF shown, told
<1>9. Drawn = [error |-> "", empty |-> FALSE, shows |-> shown, rect |-> told, grid |-> Probe,
               png |-> FALSE]
  BY <1>8 DEF NoPage
<1>10. Drawn \in PageType
  <2> DEFINE g == Grids \cup {None}
  <2>1. Probe \in g /\ "" \in Marker
    BY <1>3 DEF Marker
  <2> HIDE DEF g
  <2>2. [error |-> "", empty |-> FALSE, shows |-> shown, rect |-> told, grid |-> Probe,
         png |-> FALSE]
          \in [error : Marker, empty : BOOLEAN, shows : SUBSET Int, rect : SUBSET Int, grid : g,
              png : BOOLEAN]
    BY <2>1, <1>4, <1>7, Zenon
  <2> QED BY <1>9, <2>2 DEF PageType, g
<1>11. Drawn.error = "" /\ Drawn.empty = FALSE /\ Drawn.png = FALSE /\ Drawn.grid = Probe
  BY <1>9
<1>12. Drawn.shows = shown /\ Drawn.rect = told
  BY <1>9
<1> QED BY <1>4, <1>5, <1>6, <1>10, <1>11, <1>12

\* What a page may be when it has booted.
LEMMA BootedPage ==
  ASSUME ImagesInv, NEW p \in Pages
  PROVE  /\ p \in PageType /\ p.png = FALSE
         /\ p.empty \/ p.error = "empty-board" => board = {}
         /\ p.error = "" /\ ~p.empty => p = Drawn /\ board # {}
<1>1. ASSUME NEW e \in Marker \ {""}
      PROVE  /\ [NoPage EXCEPT !.error = e] \in PageType
             /\ [NoPage EXCEPT !.error = e].error = e
             /\ [NoPage EXCEPT !.error = e].png = FALSE
             /\ [NoPage EXCEPT !.error = e].empty = FALSE
  BY BlankPage DEF PageType
<1>2. /\ [NoPage EXCEPT !.empty = TRUE] \in PageType
      /\ [NoPage EXCEPT !.empty = TRUE].error = ""
      /\ [NoPage EXCEPT !.empty = TRUE].png = FALSE
      /\ [NoPage EXCEPT !.empty = TRUE].empty = TRUE
  BY BlankPage DEF PageType
<1>3. \/ \E e \in Marker \ {"", "empty-board"} : p = [NoPage EXCEPT !.error = e]
      \/ board = {} /\ p \in {[NoPage EXCEPT !.error = "empty-board"],
                              [NoPage EXCEPT !.empty = TRUE]}
      \/ board # {} /\ p = Drawn
  BY DEF Pages, Marker
<1>4. "empty-board" \in Marker \ {""}
  BY DEF Marker
<1>5. ASSUME NEW e \in Marker \ {"", "empty-board"}, p = [NoPage EXCEPT !.error = e]
      PROVE  p \in PageType /\ p.png = FALSE /\ p.error = e /\ p.empty = FALSE
  BY <1>1, <1>5
<1>6. CASE \E e \in Marker \ {"", "empty-board"} : p = [NoPage EXCEPT !.error = e]
  BY <1>5, <1>6
<1>7. CASE board = {} /\ p \in {[NoPage EXCEPT !.error = "empty-board"],
                                [NoPage EXCEPT !.empty = TRUE]}
  BY <1>1, <1>2, <1>4, <1>7
<1>8. CASE board # {} /\ p = Drawn
  BY <1>8, DrawnPage
<1> QED BY <1>3, <1>6, <1>7, <1>8

LEMMA BootImages == ImagesInv /\ Boot => ImagesInv'
<1> SUFFICES ASSUME ImagesInv, Boot PROVE ImagesInv'
  OBVIOUS
<1>1. /\ phase = "loading" /\ phase' = "drawing" /\ page' \in Pages
      /\ excused' = (excused \/ waited >= minTokenLife)
      /\ UNCHANGED <<tile, attempt, life, waited, spent, grid, images, answer, request, shared,
                     tellsRect, board, there, standing, meddled, moved, emptied>>
  BY DEF Boot, world, given
<1>2. CallTypes'
  <2>1. excused' \in BOOLEAN
    BY <1>1
  <2>2. TypeOK'
    BY <1>1, <2>1 DEF ImagesInv, CallTypes, TypeOK
  <2> QED BY <1>1, <2>2, BootedPage DEF ImagesInv, CallTypes
<1>3. Phases'
  <2>1. validateBoardImageArgs(request)' = validateBoardImageArgs(request)
    BY <1>1 DEF validateBoardImageArgs
  <2> QED BY <1>1, <2>1 DEF ImagesInv, Phases
<1>4. (\A i : PlaceOf(i)' = PlaceOf(i)) /\ Probe' = Probe /\ Wanted' = Wanted
  BY <1>1 DEF PlaceOf, Probe, Wanted
<1>5. GridIsTrue' /\ ImagesAreTrue'
  BY <1>1, <1>4 DEF ImagesInv, GridIsTrue, ImagesAreTrue
<1>6. PageIsTrue'
  <2>1. page'.png = FALSE /\ (page'.empty \/ page'.error = "empty-board" => emptied)
    BY <1>1, BootedPage DEF ImagesInv, Phases
  <2>2. ASSUME Clean'
        PROVE  /\ board # {} /\ page'.shows # {}
               /\ page'.rect = IF tile = 0 \/ tellsRect THEN page'.shows ELSE {}
               /\ page'.grid = Probe
               /\ page'.shows = IF tile = 0 THEN Wanted
                                ELSE {First(board) + grid.occupied[tile]}
    BY <2>2, <1>1, BootedPage, DrawnPage DEF Clean
  <2>3. ~moved /\ tile # 0 => {First(board) + grid.occupied[tile]} = PlaceOf(tile)
    <3>1. tile \in Nat
      BY ImagesAssumption DEF ImagesInv, CallTypes, TypeOK
    <3>2. ~moved /\ tile # 0 => grid = Probe
      BY <3>1 DEF ImagesInv, GridIsTrue
    <3>3. Probe.occupied = Occupied(board)
      BY DEF Probe
    <3> QED BY <3>2, <3>3 DEF PlaceOf
  <2> QED BY <1>1, <1>4, <2>1, <2>2, <2>3 DEF PageIsTrue
<1> QED BY <1>2, <1>3, <1>5, <1>6 DEF ImagesInv

LEMMA CaptureImages == ImagesInv /\ Capture => ImagesInv'
<1> SUFFICES ASSUME ImagesInv, Capture PROVE ImagesInv'
  OBVIOUS
<1>1. PICK png \in BOOLEAN :
        /\ png => page.error = "" /\ ~page.empty /\ (tile > 0 \/ request.mode = "fit")
        /\ page' = [page EXCEPT !.png = png]
  BY DEF Capture
<1>2. /\ phase = "drawing" /\ phase' = "loaded"
      /\ UNCHANGED <<tile, attempt, life, waited, spent, grid, images, answer, request, shared,
                     tellsRect, board, there, standing, meddled, moved, emptied, excused>>
  BY DEF Capture, world, given
<1>3. /\ page' \in PageType /\ page'.png = png
      /\ page'.error = page.error /\ page'.empty = page.empty /\ page'.shows = page.shows
      /\ page'.rect = page.rect /\ page'.grid = page.grid
  BY <1>1 DEF ImagesInv, CallTypes, PageType
<1>4. CallTypes'
  <2>1. TypeOK'
    BY <1>2 DEF ImagesInv, CallTypes, TypeOK
  <2> QED BY <1>2, <1>3, <2>1 DEF ImagesInv, CallTypes
<1>5. Phases'
  <2>1. validateBoardImageArgs(request)' = validateBoardImageArgs(request)
    BY <1>2 DEF validateBoardImageArgs
  <2> QED BY <1>2, <2>1 DEF ImagesInv, Phases
<1>6. (\A i : PlaceOf(i)' = PlaceOf(i)) /\ Probe' = Probe /\ Wanted' = Wanted
  BY <1>2 DEF PlaceOf, Probe, Wanted
<1>7. GridIsTrue' /\ ImagesAreTrue'
  BY <1>2, <1>6 DEF ImagesInv, GridIsTrue, ImagesAreTrue
<1>8. PageIsTrue'
  BY <1>1, <1>2, <1>3, <1>6 DEF ImagesInv, PageIsTrue, Clean
<1> QED BY <1>4, <1>5, <1>7, <1>8 DEF ImagesInv

LEMMA RunImages == ImagesInv /\ runBoardImage => ImagesInv'
<1> SUFFICES ASSUME ImagesInv, runBoardImage PROVE ImagesInv'
  OBVIOUS
<1>1. phase = "validate" /\ UNCHANGED <<images, world, given, excused>>
  BY DEF runBoardImage
<1>2. tile = 0 /\ Len(images) = 0 /\ images \in Seq(Images)
  BY <1>1 DEF ImagesInv, Phases, ImagesAreTrue, CallTypes
<1>3. DOMAIN images = {}
  BY <1>2
<1>4. CASE validateBoardImageArgs(request)
  <2>1. /\ phase' = "authorize"
        /\ UNCHANGED <<tile, attempt, life, waited, spent, page, grid, images, answer, request,
                       shared, tellsRect, board, there, standing, meddled, moved, emptied, excused>>
    BY <1>1, <1>4 DEF runBoardImage, world, given
  <2>2. CallTypes'
    <3>1. TypeOK'
      BY <2>1 DEF ImagesInv, CallTypes, TypeOK
    <3> QED BY <2>1, <3>1 DEF ImagesInv, CallTypes
  <2>3. Phases'
    <3>1. validateBoardImageArgs(request)' = validateBoardImageArgs(request)
      BY <2>1 DEF validateBoardImageArgs
    <3> QED BY <1>1, <1>4, <2>1, <3>1 DEF ImagesInv, Phases
  <2>4. PageIsTrue' /\ GridIsTrue'
    BY <1>2, <2>1 DEF PageIsTrue, GridIsTrue
  <2>5. ImagesAreTrue'
    <3>1. answer' # "ok" /\ answer' # "empty"
      BY <1>1, <2>1, ImagesAssumption DEF Code, ImagesInv, Phases
    <3> QED BY <1>2, <1>3, <2>1, <3>1 DEF ImagesAreTrue
  <2> QED BY <2>2, <2>3, <2>4, <2>5 DEF ImagesInv
<1>5. CASE ~validateBoardImageArgs(request)
  <2>1. Answer("VALIDATION_ERROR")
    BY <1>5 DEF runBoardImage
  <2>2. "VALIDATION_ERROR" \in Code
    BY DEF Code
  <2>3. images' \in Seq(Images) /\ DOMAIN images' = {}
    BY <1>1, <1>2, <1>3
  <2> QED BY <1>1, <2>1, <2>2, <2>3, AnswerImages
<1> QED BY <1>4, <1>5

\* A call that fails leaves its images as they are.
LEMMA FailImages ==
  ASSUME ImagesInv, phase # "done", NEW code \in Code \ {"ok"}, Answer(code),
         code = "empty" => emptied, UNCHANGED <<images, world, given, excused>>
  PROVE  ImagesInv'
<1>1. images' \in Seq(Images) /\ images' = images
  BY DEF ImagesInv, CallTypes
<1>2. tellsRect \/ ~moved => \A i \in DOMAIN images' : images'[i].rect = images'[i].shows
  BY <1>1 DEF ImagesInv, ImagesAreTrue
<1> QED BY <1>1, <1>2, AnswerImages

LEMMA Codes ==
  /\ {"SESSION_EXPIRED", "CONNECTION_ERROR", "INTERNAL_ERROR", "VALIDATION_ERROR", "NOT_FOUND",
      "FORBIDDEN"} \subseteq Code \ {"ok", "empty"}
  /\ "ok" \in Code /\ "empty" \in Code
  /\ \A m : pageError(m) \in Code \ {"ok", "empty"}
BY DEF Code, pageError

LEMMA AuthorizeImages == ImagesInv /\ authorize => ImagesInv'
<1> SUFFICES ASSUME ImagesInv, authorize PROVE ImagesInv'
  OBVIOUS
<1>1. phase = "authorize" /\ UNCHANGED <<images, world, given, excused>>
  BY DEF authorize
<1>2. CASE there
  <2>1. /\ phase' = "gate"
        /\ UNCHANGED <<tile, attempt, life, waited, spent, page, grid, images, answer, request,
                       shared, tellsRect, board, there, standing, meddled, moved, emptied, excused>>
    BY <1>1, <1>2 DEF authorize, world, given
  <2>2. TypeOK'
    BY <2>1 DEF ImagesInv, CallTypes, TypeOK
  <2>3. emptied => emptied'
    BY <2>1
  <2>4. board' = {} => emptied'
    BY <2>1 DEF ImagesInv, Phases
  <2> QED BY <1>1, <2>1, <2>2, <2>3, <2>4, OtherImages
<1>3. CASE ~there
  BY <1>1, <1>3, Codes, FailImages DEF authorize
<1> QED BY <1>2, <1>3

LEMMA GateImages == ImagesInv /\ AssertProjectAccess => ImagesInv'
<1> SUFFICES ASSUME ImagesInv, AssertProjectAccess PROVE ImagesInv'
  OBVIOUS
<1> DEFINE verdict == AssertAccess("access", TRUE, standing)
<1>1. phase = "gate" /\ UNCHANGED <<images, world, given, excused>>
  BY DEF AssertProjectAccess
<1>2. CASE verdict = "ok"
  <2>1. Load(0, 0) /\ UNCHANGED grid
    BY <1>2 DEF AssertProjectAccess
  <2>2. images' \in Seq(Images) /\ Len(images') = 0 /\ grid' \in Grids \cup {None}
    BY <1>1, <2>1 DEF ImagesInv, Phases, ImagesAreTrue, CallTypes
  <2>3. DOMAIN images' = {}
    BY <2>2
  <2>4. 0 \in 0..MaxTiles /\ 0 \in 0..1
    BY ImagesAssumption
  <2> QED BY <1>1, <2>1, <2>2, <2>3, <2>4, LoadImages
<1>3. CASE verdict # "ok"
  <2>1. verdict = "FORBIDDEN" /\ Answer(verdict)
    BY <1>3 DEF AssertProjectAccess, AssertAccess
  <2> QED BY <1>1, <2>1, Codes, FailImages
<1> QED BY <1>2, <1>3

LEMMA FailsImages == ImagesInv /\ (QueryFails \/ MintFails \/ CaptureFails) => ImagesInv'
<1> SUFFICES ASSUME ImagesInv, QueryFails \/ MintFails \/ CaptureFails PROVE ImagesInv'
  OBVIOUS
<1>1. PICK code \in {"INTERNAL_ERROR", "NOT_FOUND", "SESSION_EXPIRED", "CONNECTION_ERROR"} : Answer(code)
  BY DEF QueryFails, MintFails, CaptureFails
<1>2. phase # "done" /\ UNCHANGED <<images, world, given, excused>>
  BY DEF QueryFails, MintFails, CaptureFails
<1> QED BY <1>1, <1>2, Codes, FailImages

LEMMA LoadAgainImages == ImagesInv /\ loadAgain => ImagesInv'
<1> SUFFICES ASSUME ImagesInv, loadAgain PROVE ImagesInv'
  OBVIOUS
<1>1. phase = "loaded" /\ UNCHANGED <<images, world, given, excused>>
  BY DEF loadAgain
<1>2. CASE attempt = 0
  <2>1. Load(tile, 1) /\ UNCHANGED <<grid, images>>
    BY <1>1, <1>2 DEF loadAgain
  <2>2. /\ tile \in 0..MaxTiles /\ 1 \in 0..1
        /\ grid' \in Grids \cup {None} /\ images' \in Seq(Images)
        /\ tile > 0 => grid' # None /\ tile <= Len(grid'.occupied) /\ Len(grid'.occupied) <= MaxTiles
    BY <2>1 DEF ImagesInv, CallTypes, TypeOK
  <2>3. tile > 0 => request.mode = "tiles" /\ (~moved => board # {} /\ grid' = Probe)
    BY <2>1 DEF ImagesInv, GridIsTrue
  <2>4. /\ Len(images') = IF tile = 0 THEN 0 ELSE tile - 1
        /\ tellsRect \/ ~moved => \A i \in DOMAIN images' : images'[i].rect = images'[i].shows
        /\ tile > 0 /\ ~moved => \A i \in DOMAIN images' : images'[i].shows = PlaceOf(i)
    BY <1>1, <2>1 DEF ImagesInv, ImagesAreTrue
  <2> QED BY <1>1, <2>1, <2>2, <2>3, <2>4, LoadImages
<1>3. CASE attempt # 0
  BY <1>1, <1>3, Codes, FailImages DEF loadAgain
<1> QED BY <1>2, <1>3

LEMMA SomeTile ==
  ASSUME NEW s \in Seq(Int), s # <<>> PROVE Len(s) \in Nat /\ 1 <= Len(s)
<1>1. Len(s) \in Nat /\ (Len(s) = 0 => s = <<>>)
  OBVIOUS
<1> QED BY <1>1

\* The first page: an empty board, the picture, an error, or the tiles that the probe found.
LEMMA RenderImages == ImagesInv /\ Render => ImagesInv'
<1> SUFFICES ASSUME ImagesInv, Render PROVE ImagesInv'
  OBVIOUS
<1>1. phase = "loaded" /\ tile = 0 /\ UNCHANGED <<world, given, excused>>
  BY DEF Render
<1>2. /\ page \in PageType /\ grid \in Grids \cup {None} /\ images \in Seq(Images)
      /\ Len(images) = 0 /\ DOMAIN images = {}
  <2>1. images \in Seq(Images) /\ Len(images) = 0
    BY <1>1 DEF ImagesInv, CallTypes, ImagesAreTrue
  <2> QED BY <2>1 DEF ImagesInv, CallTypes
<1>3. validateBoardImageArgs(request)
  BY <1>1 DEF ImagesInv, Phases
<1>4. CASE FirstPageEnds = ""
  <2>1. /\ page.error = "" /\ ~page.empty /\ request.mode # "fit"
        /\ page.grid # None /\ page.grid.occupied # <<>> /\ ~(Len(page.grid.occupied) > MaxTiles)
    BY <1>4 DEF FirstPageEnds, pageError
  <2>2. grid' = page.grid /\ Load(1, 0) /\ images' = images
    BY <1>4 DEF Render
  <2>3. page.grid \in Grids
    BY <1>2, <2>1 DEF PageType
  <2>4. page.grid.occupied \in Seq(Int)
    BY <2>3 DEF Grids
  <2>5. 1 <= Len(page.grid.occupied) /\ Len(page.grid.occupied) \in Nat
    BY <2>1, <2>4, SomeTile
  <2> DEFINE n == Len(page.grid.occupied)
  <2>6. 1 \in 0..MaxTiles /\ n <= MaxTiles /\ 0 \in 0..1
    <3> HIDE DEF n
    <3>1. 1 <= n /\ n \in Nat /\ ~(n > MaxTiles)
      BY <2>1, <2>5 DEF n
    <3> QED BY <3>1, ImagesAssumption
  <2>7. ~moved => board # {} /\ grid' = Probe
    BY <1>1, <2>1, <2>2 DEF ImagesInv, PageIsTrue, Clean
  <2>8. request.mode = "tiles"
    BY <1>3, <2>1 DEF validateBoardImageArgs
  <2>9. grid' \in Grids \cup {None} /\ images' \in Seq(Images)
    BY <1>2, <2>2, <2>3
  <2>10. 1 > 0 => /\ grid' # None /\ 1 <= Len(grid'.occupied) /\ Len(grid'.occupied) <= MaxTiles
                  /\ request.mode = "tiles"
                  /\ ~moved => board # {} /\ grid' = Probe
    BY <2>1, <2>2, <2>5, <2>6, <2>7, <2>8
  <2>11. /\ Len(images') = IF 1 = 0 THEN 0 ELSE 1 - 1
         /\ DOMAIN images' = {}
    BY <1>2, <2>2
  <2>12. phase \notin {"validate", "done"} /\ 1 \in 0..MaxTiles /\ 0 \in 0..1
    BY <1>1, <2>6
  <2> QED BY <1>1, <2>2, <2>9, <2>10, <2>11, <2>12, LoadImages
<1>5. CASE FirstPageEnds = "ok"
  <2>1. page.error = "" /\ ~page.empty /\ request.mode = "fit" /\ page.rect # {}
    BY <1>5 DEF FirstPageEnds, pageError
  <2>2. Answer("ok") /\ images' = <<[shows |-> page.shows, rect |-> page.rect]>>
    BY <1>5 DEF Render
  <2>3. page.rect = page.shows /\ (~moved => page.shows = Wanted)
    BY <1>1, <2>1 DEF ImagesInv, PageIsTrue, Clean
  <2>4. images' \in Seq(Images)
    <3>1. [shows |-> page.shows, rect |-> page.rect] \in Images
      BY <1>2 DEF PageType, Images
    <3> QED BY <3>1, <2>2
  <2>5. /\ DOMAIN images' = {1} /\ images'[1].shows = page.shows /\ images'[1].rect = page.rect
    BY <2>2
  <2>6. \A i \in DOMAIN images' : images'[i].rect = images'[i].shows
    BY <2>3, <2>5
  <2>7. request.mode # "tiles"
    BY <2>1
  <2>8. ~moved => images'[1].shows = Wanted
    BY <2>3, <2>5
  <2>9. "ok" \in Code /\ phase # "done"
    BY <1>1, Codes
  <2> QED BY <1>1, <2>2, <2>4, <2>6, <2>7, <2>8, <2>9, AnswerImages
<1>6. CASE FirstPageEnds \notin {"", "ok"}
  <2>1. Answer(FirstPageEnds) /\ images' = images
    BY <1>6 DEF Render
  <2>2. FirstPageEnds \in Code \ {"ok"} /\ (FirstPageEnds = "empty" => emptied)
    <3>1. \/ FirstPageEnds = "empty" /\ (page.empty \/ page.error = "empty-board")
          \/ FirstPageEnds = pageError(page.error)
          \/ FirstPageEnds \in {"INTERNAL_ERROR", "VALIDATION_ERROR"}
      BY <1>6 DEF FirstPageEnds
    <3>2. page.empty \/ page.error = "empty-board" => emptied
      BY <1>1 DEF ImagesInv, PageIsTrue
    <3> QED BY <3>1, <3>2, Codes
  <2> QED BY <1>1, <2>1, <2>2, FailImages
<1> QED BY <1>4, <1>5, <1>6

\* A tile shows the place that the probe counted, if the board has not moved since.
LEMMA RenderTilesImages == ImagesInv /\ renderTiles => ImagesInv'
<1> SUFFICES ASSUME ImagesInv, renderTiles PROVE ImagesInv'
  OBVIOUS
<1> DEFINE image == [shows |-> page.shows, rect |-> tileRect]
           n == Len(grid.occupied)
<1>1. phase = "loaded" /\ tile > 0 /\ UNCHANGED <<world, given, excused>>
  BY DEF renderTiles
<1>2. CASE ~(page.error = "" /\ page.png)
  <2>1. /\ Answer(IF page.error # "" THEN pageError(page.error) ELSE "INTERNAL_ERROR")
        /\ UNCHANGED images
    BY <1>2 DEF renderTiles
  <2>2. (IF page.error # "" THEN pageError(page.error) ELSE "INTERNAL_ERROR")
          \in Code \ {"ok", "empty"}
    BY Codes
  <2> QED BY <1>1, <2>1, <2>2, FailImages
<1>3. CASE page.error = "" /\ page.png
  <2>1. images' = Append(images, image)
    BY <1>3 DEF renderTiles
  <2>2. Clean
    BY <1>1, <1>3 DEF ImagesInv, PageIsTrue
  <2>3. /\ grid \in Grids /\ tile \in 1..MaxTiles /\ tile <= n /\ n <= MaxTiles /\ n \in Nat
        /\ grid.occupied[tile] \in Int
    <3>1. grid \in Grids /\ tile \in 1..MaxTiles /\ tile <= n /\ n <= MaxTiles
      BY <1>1 DEF ImagesInv, CallTypes, TypeOK
    <3>2. grid.occupied \in Seq(Int)
      BY <3>1 DEF Grids
    <3>3. n \in Nat
      BY <3>2
    <3>4. tile \in 1..n
      BY <3>1, <3>3
    <3> QED BY <3>1, <3>2, <3>3, <3>4
  <2>4. image \in Images
    <3>1. page.shows \in SUBSET Int /\ page.rect \in SUBSET Int
      BY DEF ImagesInv, CallTypes, PageType
    <3>2. tileRect \in SUBSET Int
      BY <2>3, <3>1 DEF tileRect, Grids
    <3> QED BY <3>1, <3>2 DEF Images
  <2>5. images \in Seq(Images) /\ Len(images) = tile - 1
    BY <1>1 DEF ImagesInv, CallTypes, ImagesAreTrue
  <2>6. /\ images' \in Seq(Images) /\ Len(images') = tile
        /\ \A i \in DOMAIN images' : i = tile \/ i \in DOMAIN images
        /\ \A i \in DOMAIN images : images'[i] = images[i]
        /\ images'[tile] = image
    <3> HIDE DEF image
    <3>1. images' \in Seq(Images) /\ Len(images') = tile
      BY <2>1, <2>3, <2>4, <2>5
    <3>2. DOMAIN images' = 1..tile /\ DOMAIN images = 1..(tile - 1)
      BY <2>5, <3>1
    <3> QED BY <2>1, <2>3, <2>5, <3>1, <3>2
  <2>7. /\ request.mode = "tiles"
        /\ ~moved => board # {} /\ grid = Probe
    BY <1>1 DEF ImagesInv, GridIsTrue
  <2>8. ~moved => image.shows = PlaceOf(tile)
    BY <1>1, <2>2 DEF ImagesInv, PageIsTrue
  <2>9. tellsRect \/ ~moved => image.rect = image.shows
    <3>1. CASE tellsRect
      <4>1. page.rect = page.shows /\ page.shows # {}
        BY <1>1, <2>2, <3>1 DEF ImagesInv, PageIsTrue
      <4> QED BY <4>1 DEF tileRect
    <3>2. CASE ~tellsRect /\ ~moved
      <4>1. page.rect = {}
        BY <1>1, <2>2, <3>2 DEF ImagesInv, PageIsTrue
      <4>2. tileRect = {grid.first + grid.occupied[tile]}
        BY <4>1 DEF tileRect
      <4>3. grid.first = First(board) /\ grid.occupied = Occupied(board)
        BY <2>7, <3>2 DEF Probe
      <4> QED BY <2>8, <3>2, <4>2, <4>3 DEF PlaceOf
    <3> QED BY <3>1, <3>2
  <2>10. tellsRect \/ ~moved => \A i \in DOMAIN images' : images'[i].rect = images'[i].shows
    BY <2>6, <2>9 DEF ImagesInv, ImagesAreTrue
  <2>11. ~moved => \A i \in DOMAIN images' : images'[i].shows = PlaceOf(i)
    BY <1>1, <2>6, <2>8 DEF ImagesInv, ImagesAreTrue
  <2> HIDE DEF image, n
  <2>12. CASE tile < n
    <3>1. Load(tile + 1, 0) /\ UNCHANGED grid
      BY <1>3, <2>12 DEF renderTiles, n
    <3>2. tile + 1 \in 0..MaxTiles /\ 0 \in 0..1 /\ tile + 1 <= n /\ n <= MaxTiles
      BY <2>3, <2>12, ImagesAssumption
    <3>3. grid' # None /\ grid' \in Grids \cup {None} /\ Len(grid'.occupied) = n
      BY <1>1, <3>1 DEF ImagesInv, CallTypes, TypeOK, n
    <3>4. Len(images') = IF tile + 1 = 0 THEN 0 ELSE (tile + 1) - 1
      BY <2>3, <2>6
    <3>5. /\ grid' # None /\ tile + 1 <= Len(grid'.occupied) /\ Len(grid'.occupied) <= MaxTiles
          /\ request.mode = "tiles"
          /\ ~moved => board # {} /\ grid' = Probe
      BY <2>7, <3>1, <3>2, <3>3
    <3>6. phase \notin {"validate", "done"}
      BY <1>1
    <3> QED BY <1>1, <2>6, <2>10, <2>11, <3>1, <3>2, <3>3, <3>4, <3>5, <3>6, LoadImages
  <2>13. CASE ~(tile < n)
    <3>1. Answer("ok")
      BY <1>3, <2>13 DEF renderTiles, n
    <3>2. ~moved => Len(images') = Cardinality(board)
      <4> SUFFICES ASSUME ~moved PROVE Len(images') = Cardinality(board)
        OBVIOUS
      <4>1. board # {} /\ grid.occupied = Occupied(board)
        BY <2>7 DEF Probe
      <4>2. board \in Boards
        BY DEF ImagesInv, CallTypes, TypeOK
      <4>3. n = Cardinality(board)
        BY <4>1, <4>2, OccupiedIsTheBoard DEF n
      <4>4. tile = n
        BY <2>3, <2>13
      <4> QED BY <2>6, <4>3, <4>4
    <3>3. "ok" \in Code /\ phase # "done"
      BY <1>1, Codes
    <3> QED BY <1>1, <2>6, <2>7, <2>10, <2>11, <3>1, <3>2, <3>3, AnswerImages
  <2> QED BY <2>12, <2>13
<1> QED BY <1>2, <1>3

LEMMA NextImages == ImagesInv /\ [Next]_vars => ImagesInv'
<1> SUFFICES ASSUME ImagesInv, [Next]_vars PROVE ImagesInv'
  OBVIOUS
<1>1. CASE Step
  BY <1>1, RunImages, AuthorizeImages, GateImages, MintImages, FailsImages, WaitImages, BootImages,
     CaptureImages, LoadAgainImages, RenderImages, RenderTilesImages DEF Step
<1>2. CASE Meddle \/ Tick
  BY <1>2, MeddleImages, TickImages
<1>3. CASE UNCHANGED vars
  <2>1. UNCHANGED <<request, shared, tellsRect, board, there, standing, meddled, moved, emptied,
                    excused, phase, tile, attempt, life, waited, spent, page, grid, images, answer>>
    BY <1>3 DEF vars, call, world, given
  <2>2. TypeOK' = TypeOK
    BY <2>1 DEF TypeOK
  <2>3. CallTypes' = CallTypes
    BY <2>1, <2>2 DEF CallTypes
  <2>4. validateBoardImageArgs(request)' = validateBoardImageArgs(request)
    BY <2>1 DEF validateBoardImageArgs
  <2>5. Phases' = Phases
    BY <2>1, <2>4 DEF Phases
  <2>6. (\A i : PlaceOf(i)' = PlaceOf(i)) /\ Probe' = Probe /\ Wanted' = Wanted /\ Clean' = Clean
    BY <2>1 DEF PlaceOf, Probe, Wanted, Clean
  <2>7. PageIsTrue' = PageIsTrue /\ GridIsTrue' = GridIsTrue /\ ImagesAreTrue' = ImagesAreTrue
    BY <2>1, <2>6 DEF PageIsTrue, GridIsTrue, ImagesAreTrue
  <2> QED BY <2>3, <2>5, <2>7 DEF ImagesInv
<1> QED BY <1>1, <1>2, <1>3 DEF Next

\* A call never leaves its types: the tile being loaded is one that the probe found, there
\* are never more than MaxTiles, and a call ends with one of the codes it can end with
\* (Render, renderTiles, runBoardImage).
THEOREM ImageCallTypes == Spec => []TypeOK
<1>1. ImagesInv => TypeOK
  BY DEF ImagesInv, CallTypes
<1> QED BY <1>1, InitImagesInv, NextImages, PTL DEF Spec

\* The images of a call that succeeds tell the board, whatever others do meanwhile: every
\* rectangle is what its image shows, tiles of a board nobody touched show each of its
\* places once, and a board reported empty was empty (Render, renderTiles, tileRect).
THEOREM ImagesAreOfTheBoard == Spec => []ImagesTellTheBoard
<1>1. ImagesInv => ImagesTellTheBoard
  <2> SUFFICES ASSUME ImagesInv PROVE ImagesTellTheBoard
    OBVIOUS
  <2>1. answer = "ok" /\ (tellsRect \/ ~moved) =>
          \A i \in DOMAIN images : images[i].rect = images[i].shows
    BY DEF ImagesInv, ImagesAreTrue
  <2>2. answer = "empty" => emptied
    BY DEF ImagesInv, ImagesAreTrue
  <2>3. ASSUME answer = "ok", ~moved, request.mode = "tiles"
        PROVE  /\ \A p \in board : \E i \in DOMAIN images : images[i].shows = {p}
               /\ Len(images) = Cardinality(board)
    <3>1. /\ board # {} /\ Len(images) = Cardinality(board)
          /\ \A i \in DOMAIN images : images[i].shows = PlaceOf(i)
      BY <2>3 DEF ImagesInv, ImagesAreTrue
    <3>2. board \in Boards /\ images \in Seq(Images)
      BY DEF ImagesInv, CallTypes, TypeOK
    <3>3. DOMAIN images = 1..Cardinality(board)
      BY <3>1, <3>2
    <3>4. \A p \in board : \E i \in 1..Cardinality(board) : PlaceOf(i) = {p}
      BY <3>1, <3>2, OccupiedIsTheBoard DEF PlaceOf
    <3> QED BY <3>1, <3>3, <3>4
  <2>4. answer = "ok" /\ ~moved /\ request.mode # "tiles" => images[1].shows = Wanted
    BY DEF ImagesInv, ImagesAreTrue
  <2> QED BY <2>1, <2>2, <2>3, <2>4 DEF ImagesTellTheBoard, Wanted
<1> QED BY <1>1, InitImagesInv, NextImages, PTL DEF Spec
=============================================================================
