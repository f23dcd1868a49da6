------------------------------ MODULE BoardRows ------------------------------
(***************************************************************************)
(* The rows of diagram and canvas boards, the queries of internal/data     *)
(* that the editing tools make, and what the collaboration server          *)
(* (external) does with a write.                                           *)
(*                                                                         *)
(* rows is a function from the ids in use to [kind, board, f]; f maps the  *)
(* fields of the row to values.  None is SQL's NULL and an absent key.     *)
(* The boards belong to one project and are not deleted meanwhile.         *)
(***************************************************************************)
EXTENDS Integers, Sequences, FiniteSets, RoleGates

CONSTANTS Id,      \* ids of rows
          Spare,   \* those of rows that are created meanwhile
          Whiteboard, CanvasBoard,    \* ids of boards
          None

Board == Whiteboard \cup CanvasBoard

ASSUME IdAssumption ==
  Spare \subseteq Id /\ Id \cap Board = {} /\ Whiteboard \cap CanvasBoard = {}

ASSUME NoneAssumption == None \notin Id \cup Board

\* An unreadable row is listed as a connector, and its props are no JSON object.
Kind == {"table", "column", "area", "relationship", "element", "connector", "unreadable"}

\* A query by id: the row, or None.
Find(rows, kinds, id) ==
  IF id \in DOMAIN rows /\ rows[id].kind \in kinds THEN rows[id] ELSE None

FindDiagramTableByID(rows, id) == Find(rows, {"table"}, id)

FindColumnByID(rows, id) == Find(rows, {"column"}, id)

FindAreaByID(rows, id) == Find(rows, {"area"}, id)

FindRelationshipByID(rows, id) == Find(rows, {"relationship"}, id)

\* Connectors are elements: the reader does not tell the kinds apart.
FindCanvasElementByID(rows, id) == Find(rows, {"element", "connector", "unreadable"}, id)

CountColumnsByTableID(rows, id) ==
  Cardinality({k \in DOMAIN rows : rows[k].kind = "column" /\ rows[k].f.table = id})

\* The project of a row resolves exactly if the row is there, because its board
\* is.  A board of the other kind is not found.
GetWhiteboardProjectID(id) == id \in Whiteboard

GetCanvasBoardProjectID(id) == id \in CanvasBoard

GetTableProjectID(rows, id) == FindDiagramTableByID(rows, id) # None

GetRelationshipProjectID(rows, id) == FindRelationshipByID(rows, id) # None
-----------------------------------------------------------------------------
(* What a tool does before it writes is a sequence of steps.  Each is one  *)
(* query; the first that does not succeed is the tool's answer.            *)

Step(by, id, missing, board, elsewhere) ==
  [by |-> by, id |-> id, missing |-> missing, board |-> board, elsewhere |-> elsewhere]

\* A row that must exist; one that may have gone; one that must be on a board.
Must(by, id) == Step(by, id, "NOT_FOUND", None, "ok")

May(by, id) == Step(by, id, "ok", None, "ok")

OnBoard(by, id, board, elsewhere) == Step(by, id, "NOT_FOUND", board, elsewhere)

Gate(role) == Step("gate", role, "ok", None, "ok")

\* The row a step reads.  A member of an area is read with its column count, which
\* nobody uses if the table is missing; nothing depends on the two queries being apart.
RowOf(rows, s) ==
  CASE s.by = "table"        -> FindDiagramTableByID(rows, s.id)
    [] s.by = "column"       -> FindColumnByID(rows, s.id)
    [] s.by = "area"         -> FindAreaByID(rows, s.id)
    [] s.by = "relationship" -> FindRelationshipByID(rows, s.id)
    [] s.by = "element"      -> FindCanvasElementByID(rows, s.id)
    [] s.by = "member"       ->
         [table   |-> FindDiagramTableByID(rows, s.id),
          columns |-> CountColumnsByTableID(rows, s.id)]
    [] OTHER -> None

Resolves(rows, s) ==
  \/ s.by = "project of whiteboard"   /\ GetWhiteboardProjectID(s.id)
  \/ s.by = "project of canvas board" /\ GetCanvasBoardProjectID(s.id)
  \/ s.by = "project of table"        /\ GetTableProjectID(rows, s.id)
  \/ s.by = "project of relationship" /\ GetRelationshipProjectID(rows, s.id)

Resolver == {"project of whiteboard", "project of canvas board", "project of table",
             "project of relationship"}

\* What a step says: "ok", or the code of the tool's answer.
Verdict(rows, standing, s) ==
  IF s.by = "gate" THEN AssertAccess(s.id, TRUE, standing)
  ELSE IF s.by \in Resolver THEN IF Resolves(rows, s) THEN "ok" ELSE s.missing
  ELSE LET row == RowOf(rows, s)
       IN  IF row = None THEN s.missing
           ELSE IF s.board # None /\ row.board # s.board THEN s.elsewhere ELSE "ok"
-----------------------------------------------------------------------------
(* The server: rows are created under new ids, columns and relationships   *)
(* only where they hang; a field of an update replaces the stored one; a   *)
(* delete takes the rows that hang on it.                                  *)

\* The rows that a foreign key deletes with id.
Dependants(rows, id) ==
  LET columns == {k \in DOMAIN rows : rows[k].kind = "column" /\ rows[k].f.table = id}
      gone == columns \cup {id}
  IN  gone \cup {k \in DOMAIN rows :
                   rows[k].kind = "relationship"
                   /\ {rows[k].f.source, rows[k].f.target} \cap gone # {}}

Without(rows, ids) == [k \in DOMAIN rows \ ids |-> rows[k]]

\* f with the fields of g in place of its own.
Overwrite(f, g) == [k \in DOMAIN f |-> IF k \in DOMAIN g THEN g[k] ELSE f[k]]

\* A write: [event, board, id, kind, f, moves]; board is the socket's, f the fields
\* of the payload, moves the tables that an area:move carries, each with its place.
Accepts(rows, w) ==
  \/ /\ w.event = "create" /\ Spare \ DOMAIN rows # {}
     /\ w.kind = "column" => w.f.table \in DOMAIN rows
     /\ w.kind = "relationship" => {w.f.source, w.f.target} \subseteq DOMAIN rows
  \/ /\ w.event # "create"
     /\ w.id \in DOMAIN rows
     /\ rows[w.id].board = w.board

Store(rows, w) ==
  CASE w.event = "create" ->
         LET new == CHOOSE k \in Spare \ DOMAIN rows : TRUE
         IN  [k \in DOMAIN rows \cup {new} |->
                IF k = new THEN [kind |-> w.kind, board |-> w.board, f |-> w.f] ELSE rows[k]]
    [] w.event = "update" ->
         [k \in DOMAIN rows |->
            IF k = w.id THEN [rows[k] EXCEPT !.f = Overwrite(@, w.f)]
            ELSE IF k \in DOMAIN w.moves /\ rows[k].board = w.board
                 THEN [rows[k] EXCEPT !.f = Overwrite(@, w.moves[k])]
            ELSE rows[k]]
    [] w.event = "delete" -> Without(rows, Dependants(rows, w.id))
=============================================================================
