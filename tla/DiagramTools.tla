----------------------------- MODULE DiagramTools -----------------------------
(***************************************************************************)
(* The tools that edit a diagram board: internal/tools/area.go, table.go,  *)
(* column.go, relationship.go and positions.go, with internal/area.        *)
(*                                                                         *)
(* For a request r, "steps" are the queries of a handler in their order,   *)
(* given what the earlier ones have returned (seen), and "writes" the      *)
(* events it then emits.  Lengths and enumerations of single fields are    *)
(* left out; r.set maps the optional fields the caller named to values.    *)
(***************************************************************************)
EXTENDS BoardRows, FiniteSetsExt, Functions

CONSTANTS MaxMembers,     \* entries of an area:move (500)
          MaxPositions    \* entries of bulk_update_positions (500)

NoMoves == [k \in {} |-> None]

Write(event, board, id, kind, f) ==
  [event |-> event, board |-> board, id |-> id, kind |-> kind, f |-> f, moves |-> NoMoves]

Named(r, fields) == Restrict(r.set, fields \cap DOMAIN r.set)

\* A create stores NULL for what the caller leaves out.
WithDefaults(r, fields) ==
  [k \in fields |-> IF k \in DOMAIN r.set THEN r.set[k] ELSE None]

\* Creation on a whiteboard: its project, the role.
createSteps(r) == <<Must("project of whiteboard", r.board), Gate("edit")>>
-----------------------------------------------------------------------------
(* Areas.                                                                  *)

createAreaWrites(r) ==
  <<Write("create", r.board, None, "area", r.set)>>

\* Mutant: the padding below the columns is left out.
RowsOnly(columnCount) == 40 + 28 * columnCount

CalculateTableHeight(columnCount) == 40 + 28 * columnCount + 12

\* The box around the members, with padding 24, 32 for the label, at least
\* 160 by 120.
ComputeAreaBounds(members) ==
  LET width(m) == IF m.width = None \/ m.width <= 0 THEN 250 ELSE m.width
      minX == Min({m.x : m \in members})
      minY == Min({m.y : m \in members})
      maxX == Max({m.x + width(m) : m \in members})
      maxY == Max({m.y + CalculateTableHeight(m.columns) + 28 : m \in members})
  IN  [x |-> minX - 24,
       y |-> minY - 24 - 32,
       width |-> Max({maxX - minX + 2 * 24, 160}),
       height |-> Max({maxY - minY + 2 * 24 + 32, 120})]

Placed(table) == table.f.x # None /\ table.f.y # None

\* The members that bounds are computed of: those that exist and have a place.
areaBoundsMembers(reads) ==
  {[x |-> reads[n].table.f.x, y |-> reads[n].table.f.y,
    width |-> reads[n].table.f.width, columns |-> reads[n].columns] :
     n \in {m \in DOMAIN reads : reads[m].table # None /\ Placed(reads[m].table)}}

\* The list without an id, the other entries in their order.
ListWithout(current, tableID) ==
  LET kept  == {n \in DOMAIN current : current[n] # tableID}
      order == CHOOSE s \in [1..Cardinality(kept) -> kept] :
                 \A i, j \in 1..Cardinality(kept) : i < j => s[i] < s[j]
  IN  [k \in 1..Cardinality(kept) |-> current[order[k]]]

\* Mutant: a member is appended again.
AppendAlways(current, tableID, add) ==
  IF ~add THEN ListWithout(current, tableID) ELSE Append(current, tableID)

nextMemberTableIDs(current, tableID, add) ==
  IF ~add THEN ListWithout(current, tableID)
  ELSE IF \E n \in DOMAIN current : current[n] = tableID THEN current
  ELSE Append(current, tableID)

NextMembers(r, area) ==
  nextMemberTableIDs(area.f.members, r.member, r.tool = "add_table_to_area")

\* The area as it was first read, its board's project, the role.
areaSteps(r, area) ==
  <<Must("area", r.id), Must("project of whiteboard", area.board), Gate("edit")>>

mutateAreaMembershipSteps(r, seen) ==
  IF seen = <<>> THEN <<Must("area", r.id)>>
  ELSE LET next == NextMembers(r, seen[1])
       IN  areaSteps(r, seen[1])
           \o <<OnBoard("table", r.member, seen[1].board, "FORBIDDEN")>>
           \o [n \in DOMAIN next |-> May("member", next[n])]

mutateAreaMembershipWrites(r, seen) ==
  LET members == [members |-> NextMembers(r, seen[1])]
      placed  == areaBoundsMembers(SubSeq(seen, 5, Len(seen)))
      bounds  == ComputeAreaBounds(placed)
      f == IF placed = {} THEN members
           ELSE [k \in {"members"} \cup DOMAIN bounds |->
                   IF k = "members" THEN members.members ELSE bounds[k]]
  IN  <<Write("update", seen[1].board, r.id, "area", f)>>

moveAreaSteps(r, seen) ==
  IF seen = <<>> THEN <<Must("area", r.id)>>
  ELSE LET members == seen[1].f.members
       IN  areaSteps(r, seen[1]) \o [n \in DOMAIN members |-> May("table", members[n])]

\* Mutant: the displacement is taken for the place.
DeltaAsPlace(table, dx, dy) == [x |-> dx, y |-> dy]

areaMoveMemberFromTable(table, dx, dy) ==
  [x |-> table.f.x + dx, y |-> table.f.y + dy]

\* The members that move: those that were there, with a place.
MovedMembers(seen) ==
  {n \in DOMAIN seen[1].f.members : seen[n + 3] # None /\ Placed(seen[n + 3])}

\* One entry per member; of two entries for one table the server applies the last.
moveAreaRefusal(seen) ==
  IF Cardinality(MovedMembers(seen)) > MaxMembers THEN "VALIDATION_ERROR" ELSE "none"

moveAreaWrites(r, seen) ==
  LET dx == r.set.x - seen[1].f.x
      dy == r.set.y - seen[1].f.y
      members == seen[1].f.members
      at(id) == Max({n \in MovedMembers(seen) : members[n] = id})
      moves  == [id \in {members[n] : n \in MovedMembers(seen)} |->
                   areaMoveMemberFromTable(seen[at(id) + 3], dx, dy)]
  IN  <<[Write("update", seen[1].board, r.id, "area", [x |-> r.set.x, y |-> r.set.y])
           EXCEPT !.moves = moves]>>
-----------------------------------------------------------------------------
(* Tables and positions.                                                   *)

createTableWrites(r) ==
  <<Write("create", r.board, None, "table", WithDefaults(r, {"name", "x", "y", "width"}))>>

tableSteps(r) ==
  <<Must("project of table", r.id), Gate("edit"), Must("table", r.id)>>

updateTableValid(r) == DOMAIN r.set # {}

\* table:update with what is named of name and width, then table:move with both
\* axes: the one not named is the one read before the first write, NULL as 0.
updateTableWrites(r, seen) ==
  LET table == seen[3]
      final(axis) == IF axis \in DOMAIN r.set THEN r.set[axis]
                     ELSE IF table.f[axis] # None THEN table.f[axis] ELSE 0
      meta == Named(r, {"name", "width"})
      update == Write("update", table.board, r.id, "table", meta)
      move == Write("update", table.board, r.id, "table", [x |-> final("x"), y |-> final("y")])
  IN  (IF DOMAIN meta = {} THEN <<>> ELSE <<update>>)
      \o (IF {"x", "y"} \cap DOMAIN r.set = {} THEN <<>> ELSE <<move>>)

deleteTableWrites(r, seen) ==
  <<Write("delete", seen[3].board, r.id, "table", NoMoves)>>

\* bulk_update_positions asks for access only, and writes to the board it names.
positionsSteps(r) ==
  <<Must("project of whiteboard", r.board), Gate("access")>>

positionsValid(r) == Len(r.positions) \in 1..MaxPositions

positionsWrites(r) ==
  [n \in DOMAIN r.positions |->
     Write("update", r.board, r.positions[n].id, "table",
           [x |-> r.positions[n].x, y |-> r.positions[n].y])]
-----------------------------------------------------------------------------
(* Columns and relationships.                                              *)

\* The board of a column is that of its table, read again after the role check.
tableColumnSteps(table) ==
  <<Must("project of table", table), Gate("edit"), Must("table", table)>>

createColumnWrites(r, seen) ==
  <<Write("create", seen[3].board, None, "column",
          [WithDefaults(r, {"name", "order", "table"}) EXCEPT !.table = r.id])>>

columnSteps(r, seen) ==
  IF seen = <<>> THEN <<Must("column", r.id)>>
  ELSE <<Must("column", r.id)>> \o tableColumnSteps(seen[1].f.table)

updateColumnWrites(r, seen) ==
  <<Write("update", seen[4].board, r.id, "column", r.set)>>

deleteColumnWrites(r, seen) ==
  <<Write("delete", seen[4].board, r.id, "column", NoMoves)>>

\* column:reorder: each column takes its place in the list.
reorderColumnsValid(r) == Len(r.ordered) \in 1..500

reorderColumnsWrites(r, seen) ==
  <<[Write("update", seen[3].board, r.id, "table", NoMoves)
       EXCEPT !.moves = [k \in {r.ordered[n] : n \in DOMAIN r.ordered} |->
                           [order |-> Max({n \in DOMAIN r.ordered : r.ordered[n] = k})]]]>>

createRelationshipWrites(r) ==
  <<Write("create", r.board, None, "relationship", r.set)>>

relationshipSteps(r) ==
  <<Must("project of relationship", r.id), Gate("edit"), Must("relationship", r.id)>>

updateRelationshipWrites(r, seen) ==
  <<Write("update", seen[3].board, r.id, "relationship", r.set)>>

deleteRelationshipWrites(r, seen) ==
  <<Write("delete", seen[3].board, r.id, "relationship", NoMoves)>>
=============================================================================
