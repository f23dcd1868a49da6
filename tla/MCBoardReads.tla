----------------------------- MODULE MCBoardReads -----------------------------
(* A small instance of BoardReads: one call at a time of each reading tool,   *)
(* over a project with nested and with damaged folders, a whiteboard with two *)
(* tables, and a canvas board.                                                *)
EXTENDS BoardReads, TLC

CONSTANTS f1, f2, f3, f4, w1, v1, t1, t2, k1, k2, r1, r2, a1, e1, e2, e3, s1, s2

Put(kind, above, order) ==
  [kind |-> kind, above |-> above, order |-> order, source |-> None, target |-> None]

Join(order, from, to) ==
  [Put("relationship", w1, order) EXCEPT !.source = from, !.target = to]

Nested ==
  (f1 :> Put("folder", None, 2)) @@ (f2 :> Put("folder", f1, 1))
  @@ (f3 :> Put("folder", f3, 4)) @@ (f4 :> Put("folder", Elsewhere, 3))
  @@ (w1 :> Put("whiteboard", f2, 5)) @@ (v1 :> Put("canvasBoard", None, 6))

\* f2 and f3 hang on each other; f1 and f4 on them, one before them in name order.
Cyclic ==
  (f2 :> Put("folder", f3, 2)) @@ (f3 :> Put("folder", f2, 3)) @@ (f4 :> Put("folder", f2, 4))
  @@ (f1 :> Put("folder", None, 5)) @@ (w1 :> Put("whiteboard", f4, 6))

Diagram ==
  (w1 :> Put("whiteboard", None, 1)) @@ (a1 :> Put("area", w1, 2))
  @@ (t1 :> Put("table", w1, 3)) @@ (t2 :> Put("table", w1, 4))
  @@ (k1 :> Put("column", t1, 1)) @@ (k2 :> Put("column", t2, 2))
  @@ (r1 :> Join(1, [table |-> t1, column |-> k1], [table |-> t2, column |-> k2]))
  @@ (r2 :> Join(2, [table |-> t1, column |-> k1], [table |-> t1, column |-> k1]))

Canvas ==
  (v1 :> Put("canvasBoard", None, 1))
  @@ (e1 :> Put("element", v1, 3)) @@ (e2 :> Put("element", v1, 2)) @@ (e3 :> Put("element", v1, 1))

Ask(state, tool, id) == [rows |-> state, request |-> [tool |-> tool, id |-> id]]

Bounded(tool, limit) ==
  [rows |-> Canvas, request |-> [tool |-> tool, id |-> v1, maxElements |-> limit]]

Scenarios ==
  {Ask(Nested, "get_project_tree", None), Ask(Cyclic, "get_project_tree", None),
   Ask(Nested, "list_folders", None), Ask(Nested, "list_whiteboards", None),
   Ask(Diagram, "list_whiteboards", None), Ask(Canvas, "list_canvas_boards", None),
   Ask(Canvas, "list_whiteboards", None),
   Ask(Diagram, "get_board", w1), Ask(Diagram, "get_table_ddl", t1),
   Ask(Diagram, "get_schema_summary", w1),
   Bounded("get_canvas_board", None), Bounded("get_canvas_board", 0),
   Bounded("get_canvas_summary", 2)}

NewRows ==
  {Put("folder", None, 0), Put("folder", f1, 7), Put("whiteboard", f2, 7), Put("canvasBoard", None, 7),
   Put("table", w1, 7), Put("column", t1, 7), Put("area", w1, 7), Put("element", v1, 7),
   Join(7, [table |-> t1, column |-> k1], [table |-> t2, column |-> k2])}
-----------------------------------------------------------------------------
(* The recursive functions of GetProjectTree as they are written, one call at *)
(* a time, against the paths of FolderTree: the same nodes and the same marks *)
(* for every way to file four folders.                                        *)

RECURSIVE buildCall(_, _, _)
buildCall(path, building, below) ==
  LET id == Last(path) IN
  {path} \cup IF id \in building THEN {}
              ELSE UNION {buildCall(Append(path, child), building \cup {id}, below) :
                            child \in below[id]}

RECURSIVE markCalls(_, _, _)
markCalls(ids, below, emitted) ==
  IF ids = {} THEN emitted
  ELSE LET id == CHOOSE k \in ids : TRUE
           marked == IF id \in emitted THEN emitted
                     ELSE markCalls(below[id], below, emitted \cup {id})
       IN  markCalls(ids \ {id}, below, marked)

Filed == [{f1, f2, f3, f4} -> {None, f1, f2, f3, f4}]

ASSUME PathsAreTheCalls ==
  \A above \in Filed :
    LET below == children([f \in DOMAIN above |-> Put("folder", above[f], 1)])
    IN  \A id \in DOMAIN above :
          /\ build(id, below) = buildCall(<<id>>, {}, below)
          /\ \A emitted \in SUBSET DOMAIN above :
               markEmitted(id, below, emitted) = markCalls({id}, below, emitted)
=============================================================================
