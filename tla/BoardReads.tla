------------------------------ MODULE BoardReads ------------------------------
(***************************************************************************)
(* The reading tools (internal/tools: discovery, read, canvas_read, ddl)   *)
(* over the readers of internal/data.  A tool makes several queries, one   *)
(* after the other and in no transaction, and assembles what they return,  *)
(* while other users create, refile and delete rows.                       *)
(*                                                                         *)
(* rows is a function from the ids in use to [kind, above, order, source,  *)
(* target]: above is the folder, board or table that a row hangs on, None  *)
(* at the root; order is what the readers sort by; source and target are   *)
(* the ends of a relationship, [table, column], None for all others.       *)
(***************************************************************************)
EXTENDS FolderTree, RoleGates

CONSTANTS
  Id, Spare,      \* ids of rows, and of those that are created meanwhile
  Elsewhere,      \* a folder of another project
  Scenario,       \* the initial states: [rows, request]
  NewRow,         \* the rows that other users create
  canvasMaxElementsDefault,
  MaxMeddling     \* bounds what other users do

VARIABLES
  rows, standing,
  request,        \* [tool, id], and maxElements for a canvas board
  phase,          \* "query" or "done"
  asked,          \* how many queries have been made
  seen,           \* what they returned, by query: of two of a kind, the second
  answer,         \* "none", "ok" or an error code
  stood,          \* the ids that have been in use since the call began
  ever,           \* <<id, row>>: the rows that were there at some time of the call
  meddled

vars == <<rows, standing, request, phase, asked, seen, answer, stood, ever, meddled>>

Kind ==
  {"folder", "whiteboard", "canvasBoard", "table", "column", "relationship", "area", "element"}

End == [table : Id, column : Id] \cup {None}

Row ==
  [kind : Kind, above : Id \cup {None, Elsewhere}, order : Int, source : End, target : End]

OfKind(state, kind) == {id \in DOMAIN state : state[id].kind = kind}

On(state, kind, above) == {id \in OfKind(state, kind) : state[id].above \in above}

\* What a query for rows returns: each id with its row.
Rows(state, S) == [id \in S |-> state[id]]

\* The rows that a row needs, and whether they are as they should be.
Needs(row) ==
  {row.above} \cup IF row.kind = "relationship"
                   THEN UNION {{end.table, end.column} : end \in {row.source, row.target}} ELSE {}

Hangs(state, row) ==
  CASE row.kind = "folder" -> row.above \in OfKind(state, "folder") \cup {None, Elsewhere}
    [] row.kind \in {"whiteboard", "canvasBoard"} ->
         row.above \in OfKind(state, "folder") \cup {None}
    [] row.kind \in {"table", "area"} -> row.above \in OfKind(state, "whiteboard")
    [] row.kind = "element" -> row.above \in OfKind(state, "canvasBoard")
    [] row.kind = "column"  -> row.above \in OfKind(state, "table")
    [] row.kind = "relationship" ->
         /\ row.above \in OfKind(state, "whiteboard")
         /\ \A end \in {row.source, row.target} :
              /\ end.table \in On(state, "table", {row.above})
              /\ end.column \in On(state, "column", {end.table})

CanvasReads == {"get_canvas_board", "get_canvas_summary"}

BoardTools == {"get_board", "get_schema_summary"}

Tools ==
  {"list_folders", "list_whiteboards", "list_canvas_boards", "get_project_tree", "get_table_ddl"}
  \cup BoardTools \cup CanvasReads

\* Finitely many rows, each hanging on rows that are there.
ASSUME ScenarioAssumption ==
  \A s \in Scenario :
    /\ s.request.tool \in Tools
    /\ s.request.tool \in CanvasReads => s.request.maxElements \in Int \cup {None}
    /\ DOMAIN s.rows \subseteq Id /\ IsFiniteSet(DOMAIN s.rows)
    /\ s.rows \in [DOMAIN s.rows -> Row]
    /\ \A id \in DOMAIN s.rows : Hangs(s.rows, s.rows[id])

ASSUME ReadsAssumption ==
  /\ canvasMaxElementsDefault \in Nat \ {0} /\ MaxMeddling \in Nat
  /\ None \notin Id \cup Int /\ Elsewhere \notin Id \cup {None} /\ Spare \subseteq Id
  /\ NewRow \subseteq Row
-----------------------------------------------------------------------------
(* The queries.                                                            *)

FindFoldersByProjectID == Rows(rows, OfKind(rows, "folder"))

FindWhiteboardsByProjectID == Rows(rows, OfKind(rows, "whiteboard"))

FindCanvasBoardsByProjectID == Rows(rows, OfKind(rows, "canvasBoard"))

FindAreasByWhiteboardID(id) == Rows(rows, On(rows, "area", {id}))

FindCanvasElementsByBoardID(id) == Rows(rows, On(rows, "element", {id}))

\* One grouped count: how many rows of a kind hang on each of some ids.
countByFolder(kind, ids) == [f \in ids |-> Cardinality(On(rows, kind, {f}))]

Find(id, kind) == IF id \in OfKind(rows, kind) THEN rows[id] ELSE None

\* The board that a tool reads: get_table_ddl takes the one that its table is on.
Board == IF request.tool = "get_table_ddl" THEN seen["table"].above ELSE request.id

\* What each query finds; some go over the ids that an earlier one has found.
Found(q) ==
  CASE q = "gate"           -> AssertAccess("access", TRUE, standing)
    [] q = "whiteboard"     -> Find(Board, "whiteboard")
    [] q = "canvasBoard"   -> Find(request.id, "canvasBoard")
    [] q = "table"          -> Find(request.id, "table")
    [] q = "folders"        -> FindFoldersByProjectID
    [] q = "whiteboards"    -> FindWhiteboardsByProjectID
    [] q = "canvasBoards"  -> FindCanvasBoardsByProjectID
    [] q = "areas"          -> FindAreasByWhiteboardID(Board)
    [] q = "elements"       -> FindCanvasElementsByBoardID(request.id)
    [] q = "tables"         -> Rows(rows, On(rows, "table", {Board}))
    [] q = "columns"        -> Rows(rows, On(rows, "column", DOMAIN seen["tables"]))
    [] q = "relationships"  -> Rows(rows, On(rows, "relationship", {Board}))
    [] q = "countFolders"       -> countByFolder("folder", DOMAIN seen["folders"])
    [] q = "countWhiteboards"   -> countByFolder("whiteboard", DOMAIN seen["folders"])
    [] q = "countCanvasBoards" -> countByFolder("canvasBoard", DOMAIN seen["folders"])
    [] q = "countTables"        -> countByFolder("table", DOMAIN seen["whiteboards"])
    [] q = "countElements"      -> countByFolder("element", DOMAIN seen["canvasBoards"])

\* The query whose ids such a query goes over: if there are none, the tool stops there.
Over ==
  [q \in {"columns", "countFolders", "countTables", "countElements"} |->
     CASE q = "columns"      -> "tables"
       [] q = "countFolders"  -> "folders"
       [] q = "countTables"   -> "whiteboards"
       [] q = "countElements" -> "canvasBoards"]

\* Mutant: only the first of two readings of a row can miss it.
MissingOnce(q, found, n) ==
  IF found = None /\ n = 1 THEN "NOT_FOUND" ELSE IF q = "gate" THEN found ELSE "ok"

\* Whether a call goes on with what its n-th query found.
Verdict(q, found, n) ==
  IF found = None THEN "NOT_FOUND" ELSE IF q = "gate" THEN found ELSE "ok"
-----------------------------------------------------------------------------
(* The queries of each tool, in their order.                               *)

ListFolders ==
  <<"gate", "folders", "countFolders", "countWhiteboards", "countCanvasBoards">>

ListWhiteboards == <<"gate", "whiteboards", "countTables">>

ListCanvasBoards == <<"gate", "canvasBoards", "countElements">>

projectTreeQueries == <<"gate", "folders", "whiteboards", "canvasBoards">>

FindWhiteboardByIDWithDiagram == <<"whiteboard", "tables", "areas", "columns", "relationships">>

\* The first query resolves the project, the second checks the caller's role in it.
loadAuthorizedBoard == <<"whiteboard", "gate">> \o FindWhiteboardByIDWithDiagram

loadAuthorizedCanvasBoardWithFns == <<"canvasBoard", "gate">>

FindCanvasBoardByIDWithElements == <<"canvasBoard", "elements">>

\* get_table_ddl reads the table again, then the board that it was on.
tableDDLQueries == <<"table", "gate", "table">> \o FindWhiteboardByIDWithDiagram

Queries ==
  CASE request.tool = "list_folders"       -> ListFolders
    [] request.tool = "list_whiteboards"   -> ListWhiteboards
    [] request.tool = "list_canvas_boards" -> ListCanvasBoards
    [] request.tool = "get_project_tree"   -> projectTreeQueries
    [] request.tool \in BoardTools         -> loadAuthorizedBoard
    [] request.tool \in CanvasReads        ->
         loadAuthorizedCanvasBoardWithFns \o FindCanvasBoardByIDWithElements
    [] request.tool = "get_table_ddl"      -> tableDDLQueries

\* Another query is to be made.
More ==
  /\ asked < Len(Queries)
  /\ LET q == Queries[asked + 1] IN q \in DOMAIN Over => DOMAIN seen[Over[q]] # {}
-----------------------------------------------------------------------------
(* The assembly, each piece as the set of the ids it shows.                *)

\* What a query has returned, nothing if it was not made.
Read(q) == IF q \in DOMAIN seen THEN seen[q] ELSE [id \in {} |-> None]

\* Mutant: a relationship of a table with itself goes to one list only.
OneList(tables, rels) ==
  [t \in DOMAIN tables |->
     [outgoing |-> {r \in DOMAIN rels : rels[r].source.table = t},
      incoming |-> {r \in DOMAIN rels : rels[r].target.table = t /\ rels[r].source.table # t}]]

\* Each relationship goes to the list of each end that was read as a table.
linked(tables, rels) ==
  [t \in DOMAIN tables |->
     [outgoing |-> {r \in DOMAIN rels : rels[r].source.table = t},
      incoming |-> {r \in DOMAIN rels : rels[r].target.table = t}]]

\* What get_board returns.
diagram ==
  [tables  |-> linked(Read("tables"), Read("relationships")),
   columns |-> [t \in DOMAIN Read("tables") |->
                  {k \in DOMAIN Read("columns") : Read("columns")[k].above = t}],
   areas   |-> DOMAIN Read("areas")]

\* The limit of a canvas board's elements; zero stands for the error.
resolveMaxElements(limit) ==
  IF limit = None THEN canvasMaxElementsDefault
  ELSE IF limit \in 1..canvasMaxElementsDefault THEN limit ELSE 0

\* The first elements in paint order, from the bottom.
truncateCanvasElements(elements, limit) ==
  IF Cardinality(DOMAIN elements) <= limit THEN DOMAIN elements
  ELSE CHOOSE S \in SUBSET DOMAIN elements :
         /\ Cardinality(S) = limit
         /\ \A a \in S, b \in DOMAIN elements \ S : elements[a].order <= elements[b].order

newCanvasBoardOut(elements, limit) ==
  [elements  |-> truncateCanvasElements(elements, limit),
   total     |-> Cardinality(DOMAIN elements),
   truncated |-> Cardinality(DOMAIN elements) > limit]

\* The summary of a board: its tables with their columns, and every relationship of
\* the lists of their ends, once.
FormatSchemaSummary(board) ==
  [tables |-> DOMAIN board.tables, columns |-> board.columns,
   relationships |-> UNION {board.tables[t].outgoing \cup board.tables[t].incoming :
                              t \in DOMAIN board.tables}]

\* The summary of a canvas board says of what it shows whether that is all.
FormatCanvasSummary(out) ==
  [lines |-> out.elements,
   of    |-> IF Cardinality(out.elements) < out.total THEN out.total ELSE None]

\* GenerateTableDDL fails if the table has left the board or has no columns.  A
\* relationship becomes a foreign key if all that it names was read.
GenerateTableDDL(board, rels, table) ==
  LET columns == UNION {board.columns[t] : t \in DOMAIN board.columns}
  IN  IF table \notin DOMAIN board.tables THEN [code |-> "NOT_FOUND"]
      ELSE IF board.columns[table] = {} THEN [code |-> "INTERNAL_ERROR"]
      ELSE [code |-> "ok", columns |-> board.columns[table],
            foreignKeys |->
              {r \in board.tables[table].outgoing :
                 /\ {rels[r].source.column, rels[r].target.column} \subseteq columns
                 /\ rels[r].target.table \in DOMAIN board.tables}]

TableDDL == GenerateTableDDL(diagram, Read("relationships"), request.id)
-----------------------------------------------------------------------------
(* A call.                                                                 *)

Init ==
  /\ \E s \in Scenario : rows = s.rows /\ request = s.request
  /\ standing \in {[owner |-> FALSE, member |-> role] : role \in {"VIEWER", "no row"}}
  /\ phase = "query" /\ asked = 0 /\ answer = "none"
  /\ seen = [q \in {} |-> None]
  /\ stood = DOMAIN rows
  /\ ever = {<<id, rows[id]>> : id \in DOMAIN rows}
  /\ meddled = 0

Answer(code) == answer' = code /\ phase' = "done"

\* A limit out of range is refused before anything is read.
OutOfRange ==
  /\ request.tool \in CanvasReads
  /\ resolveMaxElements(request.maxElements) = 0

Refuse ==
  /\ phase = "query" /\ OutOfRange
  /\ Answer("VALIDATION_ERROR")
  /\ UNCHANGED <<rows, standing, request, asked, seen, stood, ever, meddled>>

Query ==
  LET q == Queries[asked + 1]
      found == Found(q)
      verdict == Verdict(q, found, asked + 1)
  IN
  /\ phase = "query" /\ More /\ ~OutOfRange
  /\ asked' = asked + 1
  /\ seen' = [s \in DOMAIN seen \cup {q} |-> IF s = q THEN found ELSE seen[s]]
  /\ IF verdict = "ok" THEN UNCHANGED <<phase, answer>> ELSE Answer(verdict)
  /\ UNCHANGED <<rows, standing, request, stood, ever, meddled>>

\* The database fails a query: no part of a result is returned.
QueryFails ==
  /\ phase = "query" /\ More /\ ~OutOfRange
  /\ Answer("INTERNAL_ERROR")
  /\ UNCHANGED <<rows, standing, request, asked, seen, stood, ever, meddled>>

Assemble ==
  /\ phase = "query" /\ ~More
  /\ Answer(IF request.tool = "get_table_ddl" THEN TableDDL.code ELSE "ok")
  /\ UNCHANGED <<rows, standing, request, asked, seen, stood, ever, meddled>>

\* What is deleted with id: the rows that need it, the rows that need these, and so on.
Gone(id) ==
  LET reach[n \in 0 .. Cardinality(DOMAIN rows)] ==
        IF n = 0 THEN {id}
        ELSE LET nearer == reach[n - 1]
             IN  nearer \cup {k \in DOMAIN rows : Needs(rows[k]) \cap nearer # {}}
  IN  reach[Cardinality(DOMAIN rows)]

Create ==
  \E id \in Spare \ {e[1] : e \in ever}, r \in NewRow :
    /\ Hangs(rows, r)
    /\ rows' = [k \in DOMAIN rows \cup {id} |-> IF k = id THEN r ELSE rows[k]]

Refile ==
  \E id \in DOMAIN rows, f \in OfKind(rows, "folder") \cup {None} :
    /\ rows[id].kind \in {"folder", "whiteboard", "canvasBoard"}
    /\ rows' = [rows EXCEPT ![id].above = f]

Delete == \E id \in DOMAIN rows : rows' = [k \in DOMAIN rows \ Gone(id) |-> rows[k]]

\* Another user creates, refiles or deletes a row.
Meddle ==
  /\ meddled < MaxMeddling /\ phase = "query"
  /\ meddled' = meddled + 1
  /\ Create \/ Refile \/ Delete
  /\ stood' = stood \cap DOMAIN rows'
  /\ ever' = ever \cup {<<id, rows'[id]>> : id \in DOMAIN rows'}
  /\ UNCHANGED <<standing, request, phase, asked, seen, answer>>

Next == Refuse \/ Query \/ QueryFails \/ Assemble \/ Meddle

Spec == Init /\ [][Next]_vars
-----------------------------------------------------------------------------
(* Properties.                                                             *)

\* Every variable keeps its type; the call has answered exactly when it is done, and
\* goes on only over rows that were found, also when it reads one a second time.
TypeOK ==
  /\ DOMAIN rows \subseteq Id /\ rows \in [DOMAIN rows -> Row]
  /\ stood \subseteq DOMAIN rows
  /\ standing \in Standing
  /\ phase \in {"query", "done"}
  /\ (phase = "done") = (answer # "none")
  /\ asked \in 0..Len(Queries) /\ DOMAIN seen = {Queries[n] : n \in 1..asked}
  /\ phase = "query" => \A q \in DOMAIN seen : seen[q] # None
  /\ meddled \in 0..MaxMeddling

Done(tool) == phase = "done" /\ answer = "ok" /\ request.tool = tool

Tree == GetProjectTree(seen["folders"], seen["whiteboards"], seen["canvasBoards"])

\* No folder that was read is missing from the tree, whatever the parents are: none, a
\* folder of another project, itself, or one of a cycle.  Where no folder read lies on
\* a cycle each is there once.
EveryFolderShown ==
  Done("get_project_tree") =>
    LET folders == seen["folders"]
        nodes(id) == {p \in Tree.nodes : Last(p) = id}
    IN  /\ \A id \in DOMAIN folders : nodes(id) # {}
        /\ ~Circular(folders) =>
             \A id \in DOMAIN folders : \A p, q \in nodes(id) : p = q

CanvasOut == newCanvasBoardOut(Read("elements"), resolveMaxElements(request.maxElements))

\* What a result shows, each id with its place: a folder or board under its folder, a
\* column under its table, a relationship in a list of its table.
Placed(ids, place) == {<<id, place>> : id \in ids}

ShownTree ==
  {<<Last(p), IF Len(p) = 1 THEN None ELSE p[Len(p) - 1]>> : p \in Tree.nodes}
  \cup UNION {Placed(Tree.boards[f], f) : f \in {Last(p) : p \in Tree.nodes} \cup {None}}

ShownTables(d) ==
  Placed(DOMAIN d.tables, request.id)
  \cup UNION {Placed(d.columns[t], t) : t \in DOMAIN d.tables}

ShownBoard ==
  ShownTables(diagram) \cup Placed(diagram.areas, request.id)
  \cup UNION {Placed(diagram.tables[t].outgoing, <<t, "out">>)
              \cup Placed(diagram.tables[t].incoming, <<t, "in">>) : t \in DOMAIN diagram.tables}

Shown ==
  CASE request.tool = "get_project_tree"   -> ShownTree
    [] request.tool = "get_board"          -> ShownBoard
    [] request.tool = "get_schema_summary" ->
         ShownTables(diagram) \cup Placed(FormatSchemaSummary(diagram).relationships, request.id)
    [] request.tool = "get_canvas_board"   -> Placed(CanvasOut.elements, request.id)
    [] request.tool = "get_canvas_summary" ->
         Placed(FormatCanvasSummary(CanvasOut).lines, request.id)
    [] request.tool = "get_table_ddl"      ->
         Placed(TableDDL.columns, request.id)
         \cup Placed(TableDDL.foreignKeys, <<request.id, "out">>)
    [] request.tool = "list_folders"       -> Placed(DOMAIN seen["folders"], None)
    [] request.tool = "list_whiteboards"   -> Placed(DOMAIN seen["whiteboards"], None)
    [] request.tool = "list_canvas_boards" -> Placed(DOMAIN seen["canvasBoards"], None)

\* The places where a result should show a row.
Lists == {"list_folders", "list_whiteboards", "list_canvas_boards"}

Places(id, row) ==
  IF request.tool \in Lists THEN {None}
  ELSE IF row.kind = "relationship" /\ request.tool # "get_schema_summary"
  THEN {<<row.source.table, "out">>}
       \cup IF request.tool = "get_table_ddl" THEN {} ELSE {<<row.target.table, "in">>}
  ELSE {IF row.above \in {id, Elsewhere} THEN None ELSE row.above}

\* The rows that have been as they are since the call began.
Whole == {id \in stood : \A e \in ever : e[1] = id => e[2] = rows[id]}

\* The rows that a result should show if they are whole.
Due(id) ==
  LET row == rows[id] IN
  CASE request.tool = "list_folders"       -> row.kind = "folder"
    [] request.tool = "list_whiteboards"   -> row.kind = "whiteboard"
    [] request.tool = "list_canvas_boards" -> row.kind = "canvasBoard"
    [] request.tool = "get_project_tree"   -> row.kind \in {"folder", "whiteboard", "canvasBoard"}
    [] request.tool \in BoardTools ->
         \/ row.kind \in {"table", "relationship"} /\ row.above = request.id
         \/ row.kind = "area" /\ row.above = request.id /\ request.tool = "get_board"
         \/ row.kind = "column" /\ rows[row.above].above = request.id
    [] request.tool \in CanvasReads -> row.kind = "element" /\ row.above = request.id
    [] request.tool = "get_table_ddl" ->
         \/ row.kind = "column" /\ row.above = request.id
         \/ row.kind = "relationship" /\ row.source.table = request.id

\* A canvas board's answer says that it leaves out elements; then it shows as many as
\* it may, and none that lies over one left out.
SaidTruncated ==
  \/ request.tool = "get_canvas_board" /\ CanvasOut.truncated
  \/ request.tool = "get_canvas_summary" /\ FormatCanvasSummary(CanvasOut).of # None

LeftOut(id) ==
  /\ SaidTruncated
  /\ Cardinality(Shown) = resolveMaxElements(request.maxElements)
  /\ \A s \in Shown : seen["elements"][s[1]].order <= rows[id].order

\* What each count of a list counts.
Counted ==
  [q \in {"countFolders", "countWhiteboards", "countCanvasBoards",
          "countTables", "countElements"} |->
     CASE q = "countFolders"       -> "folder"
       [] q = "countWhiteboards"   -> "whiteboard"
       [] q = "countCanvasBoards" -> "canvasBoard"
       [] q = "countTables"        -> "table"
       [] q = "countElements"      -> "element"]

\* A result is read piece by piece while rows change.  A row that was there all the
\* time, unchanged, is in the result, in its place: a folder in its parent, a board in
\* its folder, a column in its table, a relationship in the lists of both its ends.
\* No result shows a row that never was there, or where it never was (but a folder may
\* be at the root), and counts lie between what was there all the time and what was
\* there at some time.
ReadsWhatIsThere ==
  answer = "ok" =>
    /\ \A s \in Shown : \E e \in ever :
         /\ e[1] = s[1]
         /\ s[2] \in Places(e[1], e[2]) \cup IF e[2].kind = "folder" THEN {None} ELSE {}
    /\ \A id \in Whole : Due(id) =>
         (\A place \in Places(id, rows[id]) : <<id, place>> \in Shown) \/ LeftOut(id)
    /\ \A q \in DOMAIN Counted \cap DOMAIN seen : \A f \in DOMAIN seen[q] :
         /\ seen[q][f] >= Cardinality({id \in Whole : rows[id].kind = Counted[q]
                                                      /\ rows[id].above = f})
         /\ seen[q][f] <= Cardinality({e[1] : e \in {x \in ever : x[2].kind = Counted[q]
                                                                /\ x[2].above = f}})
=============================================================================
