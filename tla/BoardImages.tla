----------------------------- MODULE BoardImages -----------------------------
(***************************************************************************)
(* One call of get_board_image or get_canvas_board_image                   *)
(* (internal/tools/board_image.go, internal/render): the caller is         *)
(* authorized, a render token is fetched from the application, and a       *)
(* headless browser loads the application's render page, once for the      *)
(* whole board or once per tile.                                           *)
(*                                                                         *)
(* A place is a tile of the world; the board occupies some.  The page of   *)
(* a tile counts tiles from the board's first place, as the board is when  *)
(* the page boots, and shows the board of that moment.                     *)
(***************************************************************************)
EXTENDS Integers, Sequences, FiniteSets, RoleGates

CONSTANTS
  Place,          \* a set of integers: where something can stand
  Requests,       \* [mode, focus]: the arguments tried
  Standings,      \* the roles tried (RoleGates)
  maxFocusIDs, MaxTiles,
  minTokenLife,   \* the life a token must have left when it is handed out
  Lifetimes,      \* the lives of the tokens that the application mints
  Limit,          \* how long a wait may last, by phase
  None,
  MaxMeddling     \* bounds the steps of others

\* What a call can end with.
Code == {"VALIDATION_ERROR", "NOT_FOUND", "FORBIDDEN", "SESSION_EXPIRED", "CONNECTION_ERROR",
         "INTERNAL_ERROR", "empty", "ok"}

ASSUME ImagesAssumption ==
  /\ Place \subseteq Int /\ Place # {} /\ None \notin Int /\ None \notin Code
  /\ \A r \in Requests : r.focus \subseteq Place
  /\ Standings \subseteq Standing
  /\ maxFocusIDs \in Nat /\ MaxTiles \in Nat /\ MaxMeddling \in Nat
  /\ minTokenLife \in Nat \ {0} /\ Lifetimes \subseteq Nat \ {0}
  /\ Limit \in [{"mint", "devtools", "loading", "drawing"} -> Nat]

VARIABLES
  request,
  board,          \* the occupied places
  there,          \* whether the board exists
  standing,       \* of the caller (RoleGates)
  shared,         \* whether application and browser agree on the signing key
  tellsRect,      \* whether the page of a tile tells which place it shows
  phase,
  tile,           \* 0: the page of the whole board; k: that of the k-th tile
  attempt,        \* of load
  life,           \* what is left of the token in hand, None without one
  waited,         \* the time since it was handed out, up to minTokenLife
  spent,          \* the time in this wait
  page,           \* what Capture reports
  grid,           \* the tile grid of the probe, or None
  images, answer,
  meddled,        \* how often others have interfered
  moved, emptied, \* whether the board has changed, whether it has been empty
  excused         \* whether a token was minted too short or a navigation was too slow

call == <<phase, tile, attempt, life, waited, spent, page, grid, images, answer>>
world == <<board, there, standing, meddled, moved, emptied>>
given == <<request, shared, tellsRect>>
vars == <<call, world, given, excused>>

\* Of a board, what the page draws: finitely many elements.
Boards == {b \in SUBSET Place : IsFiniteSet(b)}

\* A page that tells nothing: no place shown and no rectangle is the empty set.
NoPage == [error |-> "", empty |-> FALSE, shows |-> {}, rect |-> {}, grid |-> None,
           png |-> FALSE]

Init ==
  /\ request \in Requests
  /\ board \in Boards /\ there = TRUE /\ standing \in Standings
  /\ shared \in BOOLEAN /\ tellsRect \in BOOLEAN
  /\ phase = "validate" /\ tile = 0 /\ attempt = 0
  /\ life = None /\ waited = 0 /\ spent = 0
  /\ page = NoPage /\ grid = None /\ images = <<>> /\ answer = None
  /\ meddled = 0 /\ moved = FALSE /\ emptied = (board = {}) /\ excused = FALSE

\* The call ends with code; what it held goes.
Answer(code) ==
  /\ phase' = "done" /\ answer' = code
  /\ tile' = 0 /\ attempt' = 0 /\ life' = None /\ waited' = 0 /\ spent' = 0
  /\ page' = NoPage /\ grid' = None
-----------------------------------------------------------------------------
(* The token.                                                              *)

\* Mutant: any token in hand will do.
AnyToken(force) == IF force \/ life = None THEN "mint" ELSE "devtools"

\* Where a load begins: with the token in hand, unless a new one is forced or
\* the one in hand has too little life left.
get(force) ==
  IF force \/ life = None \/ life < minTokenLife THEN "mint" ELSE "devtools"

\* The next load of a page, with its first attempt or its second.
Load(k, n) ==
  /\ tile' = k /\ attempt' = n
  /\ phase' = get(n > 0)
  /\ spent' = 0 /\ waited' = 0
  /\ page' = NoPage
  /\ UNCHANGED <<life, answer>>

\* The application mints a token for a caller who may see the board.
MintRenderToken ==
  /\ phase = "mint"
  /\ there /\ Passes("access", standing)
  /\ \E l \in Lifetimes :
       /\ life' = l
       /\ excused' = (excused \/ l < minTokenLife)
  /\ phase' = "devtools" /\ spent' = 0 /\ waited' = 0
  /\ UNCHANGED <<tile, attempt, page, grid, images, answer, world, given>>

\* It answers 404 to others; 401, 429 and whatever else goes wrong, up to the
\* client's timeout, can happen to any request.
MintFails ==
  /\ phase = "mint"
  /\ \/ ~(there /\ Passes("access", standing)) /\ Answer("NOT_FOUND")
     \/ Answer("SESSION_EXPIRED")
     \/ Answer("CONNECTION_ERROR")
  /\ UNCHANGED <<images, world, given, excused>>
-----------------------------------------------------------------------------
(* Capture, and the page.                                                  *)

\* The browser's address is looked up; then a tab is opened, without a timeout.
debuggerWebSocketURL ==
  /\ phase = "devtools"
  /\ phase' = "tab" /\ spent' = 0
  /\ UNCHANGED <<tile, attempt, life, waited, page, grid, images, answer, world, given, excused>>

OpenTab ==
  /\ phase = "tab"
  /\ phase' = "loading" /\ spent' = 0
  /\ UNCHANGED <<tile, attempt, life, waited, page, grid, images, answer, world, given, excused>>

\* mapCaptureError: no browser, an error of the browser, and no marker within
\* ReadyTimeout are all CONNECTION_ERROR.
CaptureFails ==
  /\ phase \in {"devtools", "tab", "loading", "drawing"}
  /\ Answer("CONNECTION_ERROR")
  /\ UNCHANGED <<images, world, given, excused>>

First(b) == CHOOSE p \in b : \A q \in b : p <= q

\* The tiles that a board occupies, counted from its first place, in order.
Occupied(b) ==
  CHOOSE s \in [1..Cardinality(b) -> {p - First(b) : p \in b}] :
    \A i, j \in 1..Cardinality(b) : i < j => s[i] < s[j]

\* What the page draws of a board that is there and not empty.
Drawn ==
  LET shown == IF tile > 0 THEN {First(board) + grid.occupied[tile]}
               ELSE IF request.focus = {} THEN board ELSE request.focus
  IN  [NoPage EXCEPT
         !.shows = shown,
         !.rect = IF tile > 0 /\ ~tellsRect THEN {} ELSE shown,
         !.grid = [first |-> First(board), occupied |-> Occupied(board)]]

\* The page (external) checks its token when it boots, and reads the board.
Pages ==
  IF ~shared THEN {[NoPage EXCEPT !.error = "invalid-token"]}
  ELSE IF life = 0 THEN {[NoPage EXCEPT !.error = "token-expired"]}
  ELSE IF ~there THEN {[NoPage EXCEPT !.error = "not-found"]}
  ELSE IF board = {} THEN {[NoPage EXCEPT !.error = "empty-board"], [NoPage EXCEPT !.empty = TRUE]}
  ELSE IF ~ request.focus \subseteq board THEN {[NoPage EXCEPT !.error = "unknown-focus"]}
  ELSE {Drawn} \cup {[NoPage EXCEPT !.error = "focus-empty"] : f \in request.focus}

Boot ==
  /\ phase = "loading"
  /\ page' \in Pages
  /\ phase' = "drawing"
  /\ excused' = (excused \/ waited >= minTokenLife)
  /\ UNCHANGED <<tile, attempt, life, waited, spent, grid, images, answer, world, given>>

\* The markers are read, and a screenshot is taken of a page without an error,
\* except of the probe; it may turn out empty.
Capture ==
  /\ phase = "drawing"
  /\ \E png \in BOOLEAN :
       /\ png => page.error = "" /\ ~page.empty /\ (tile > 0 \/ request.mode = "fit")
       /\ page' = [page EXCEPT !.png = png]
  /\ phase' = "loaded"
  /\ UNCHANGED <<tile, attempt, life, waited, spent, grid, images, answer, world, given, excused>>
-----------------------------------------------------------------------------
(* The handler and the renderer.                                           *)

\* Bad arguments cost nothing: no query, no request.
validateBoardImageArgs(r) ==
  /\ r.mode \in {"fit", "tiles"}
  /\ Cardinality(r.focus) <= maxFocusIDs
  /\ r.focus # {} => r.mode = "fit"

runBoardImage ==
  /\ phase = "validate"
  /\ IF validateBoardImageArgs(request)
       THEN phase' = "authorize" /\ UNCHANGED <<tile, attempt, life, waited, spent, page, grid, answer>>
       ELSE Answer("VALIDATION_ERROR")
  /\ UNCHANGED <<images, world, given, excused>>

\* authorizeWhiteboard and authorizeCanvasBoard: first the project of the board.
authorize ==
  /\ phase = "authorize"
  /\ IF there
       THEN phase' = "gate" /\ UNCHANGED <<tile, attempt, life, waited, spent, page, grid, answer>>
       ELSE Answer("NOT_FOUND")
  /\ UNCHANGED <<images, world, given, excused>>

\* Then the caller's access to it; then Render loads the whole board.
AssertProjectAccess ==
  LET verdict == AssertAccess("access", TRUE, standing)
  IN  /\ phase = "gate"
      /\ IF verdict = "ok" THEN Load(0, 0) /\ UNCHANGED grid ELSE Answer(verdict)
      /\ UNCHANGED <<images, world, given, excused>>

\* The database fails a query.
QueryFails ==
  /\ phase \in {"authorize", "gate"}
  /\ Answer("INTERNAL_ERROR")
  /\ UNCHANGED <<images, world, given, excused>>

TokenRefused == page.error \in {"invalid-token", "token-expired"}

\* Mutant: the second attempt is not the last.
LoadWithoutEnd ==
  /\ phase = "loaded" /\ TokenRefused
  /\ Load(tile, 1) /\ UNCHANGED <<grid, images, world, given, excused>>

\* A page that refuses its token is loaded once more, with a fresh one.
loadAgain ==
  /\ phase = "loaded" /\ TokenRefused
  /\ IF attempt = 0 THEN Load(tile, 1) /\ UNCHANGED grid ELSE Answer("INTERNAL_ERROR")
  /\ UNCHANGED <<images, world, given, excused>>

pageError(marker) ==
  IF marker \in {"unknown-focus", "focus-empty"} THEN "VALIDATION_ERROR" ELSE "INTERNAL_ERROR"

\* Mutant: the limit on tiles is not checked.
FirstPageEndsOrTilesAll ==
  IF page.empty \/ page.error = "empty-board" THEN "empty"
  ELSE IF page.error # "" THEN pageError(page.error)
  ELSE IF request.mode = "fit" /\ page.png THEN "ok"
  ELSE IF request.mode = "fit" THEN "INTERNAL_ERROR" ELSE ""

\* What the first page of a call can end it with: "" if it can go on.
FirstPageEnds ==
  IF page.empty \/ page.error = "empty-board" THEN "empty"
  ELSE IF page.error # "" THEN pageError(page.error)
  ELSE IF request.mode = "fit"
    THEN IF page.png /\ page.rect # {} THEN "ok" ELSE "INTERNAL_ERROR"
  ELSE IF page.grid = None \/ page.grid.occupied = <<>> THEN "INTERNAL_ERROR"
  ELSE IF Len(page.grid.occupied) > MaxTiles THEN "VALIDATION_ERROR"
  ELSE ""

Render ==
  /\ phase = "loaded" /\ ~TokenRefused /\ tile = 0
  /\ IF FirstPageEnds = "" THEN grid' = page.grid /\ Load(1, 0) ELSE Answer(FirstPageEnds)
  /\ images' = IF FirstPageEnds = "ok" THEN <<[shows |-> page.shows, rect |-> page.rect]>> ELSE images
  /\ UNCHANGED <<world, given, excused>>

\* Mutant: the place of a tile is always computed from the probe.
ProbedRect == {grid.first + grid.occupied[tile]}

\* The place that the answer gives for a tile: the page's own, if it tells.
tileRect == IF page.rect # {} THEN page.rect ELSE {grid.first + grid.occupied[tile]}

\* A tile that cannot be shown ends the call; the last one completes it.
renderTiles ==
  /\ phase = "loaded" /\ ~TokenRefused /\ tile > 0
  /\ IF page.error = "" /\ page.png
       THEN /\ images' = Append(images, [shows |-> page.shows, rect |-> tileRect])
            /\ IF tile < Len(grid.occupied) THEN Load(tile + 1, 0) /\ UNCHANGED grid ELSE Answer("ok")
       ELSE /\ Answer(IF page.error # "" THEN pageError(page.error) ELSE "INTERNAL_ERROR")
            /\ UNCHANGED images
  /\ UNCHANGED <<world, given, excused>>
-----------------------------------------------------------------------------
(* Others, time, and the specification.                                    *)

\* Others redraw the board, delete it, or change the caller's role (external).
Meddle ==
  /\ phase # "done" /\ meddled < MaxMeddling
  /\ meddled' = meddled + 1
  /\ \/ /\ there
        /\ board' \in Boards /\ moved' = TRUE
        /\ emptied' = (emptied \/ board' = {})
        /\ UNCHANGED <<there, standing>>
     \/ there' = FALSE /\ moved' = TRUE /\ UNCHANGED <<board, standing, emptied>>
     \/ standing' \in Standings /\ UNCHANGED <<board, there, moved, emptied>>
  /\ UNCHANGED <<call, given, excused>>

Waiting ==
  \/ phase = "tab"
  \/ phase \in DOMAIN Limit /\ spent < Limit[phase]

\* Time passes while the call waits.
Tick ==
  /\ Waiting
  /\ life' = IF life \in {None, 0} THEN life ELSE life - 1
  /\ waited' = IF waited < minTokenLife THEN waited + 1 ELSE waited
  /\ spent' = IF phase = "tab" THEN spent ELSE spent + 1
  /\ UNCHANGED <<phase, tile, attempt, page, grid, images, answer, world, given, excused>>

Step ==
  \/ runBoardImage \/ authorize \/ AssertProjectAccess \/ QueryFails \/ MintRenderToken \/ MintFails
  \/ debuggerWebSocketURL \/ OpenTab \/ CaptureFails \/ Boot \/ Capture
  \/ loadAgain \/ Render \/ renderTiles

Next == Step \/ Meddle \/ Tick

Spec == Init /\ [][Next]_vars

\* What the code bounds ends by itself; the opening of a tab it does not bound.
FairSpec == Spec /\ WF_vars(phase # "tab" /\ Step)
-----------------------------------------------------------------------------
\* Types; a tile is one that the probe found, and there are never too many.
TypeOK ==
  /\ request \in Requests /\ board \in Boards /\ there \in BOOLEAN /\ standing \in Standings
  /\ shared \in BOOLEAN /\ tellsRect \in BOOLEAN
  /\ phase \in {"validate", "authorize", "gate", "mint", "devtools", "tab", "loading",
                "drawing", "loaded", "done"}
  /\ attempt \in 0..1 /\ life \in Nat \cup {None}
  /\ waited \in 0..minTokenLife /\ spent \in Nat
  /\ tile \in 0..MaxTiles
  /\ tile > 0 =>
       grid # None /\ tile <= Len(grid.occupied) /\ Len(grid.occupied) <= MaxTiles
  /\ answer \in Code \cup {None} /\ meddled \in 0..MaxMeddling
  /\ moved \in BOOLEAN /\ emptied \in BOOLEAN /\ excused \in BOOLEAN

\* The rectangle given with an image is what the image shows, even if the board
\* has moved under the tiles since the probe, as long as the pages tell it; the
\* tiles of a board that nobody touched show each of its places once; and a board
\* reported empty was empty at some time during the call.
ImagesTellTheBoard ==
  /\ answer = "ok" /\ (tellsRect \/ ~moved) =>
       \A i \in DOMAIN images : images[i].rect = images[i].shows
  /\ answer = "ok" /\ ~moved =>
       IF request.mode = "tiles"
         THEN /\ \A p \in board : \E i \in DOMAIN images : images[i].shows = {p}
              /\ Len(images) = Cardinality(board)
         ELSE images[1].shows = (IF request.focus = {} THEN board ELSE request.focus)
  /\ answer = "empty" => emptied

\* If the signing key is shared, no token is minted too short and each page boots
\* within the margin, then no page ever refuses its token, however long the whole
\* call takes: a token about to run out is replaced before it is used.
NoTokenRunsOut == shared /\ ~excused => attempt = 0 /\ ~TokenRefused

\* Every call answers, unless the browser never opens the tab: no other wait is
\* unbounded, and neither the tiles nor the retries go on for ever.
EveryCallAnswers == <>(phase = "done") \/ <>[](phase = "tab")
=============================================================================
