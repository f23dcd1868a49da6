----------------------------- MODULE MCEditTools -----------------------------
(* A small instance of EditTools: two calls on two diagram boards or on a  *)
(* canvas board.                                                           *)
EXTENDS EditTools, TLC

CONSTANTS c1, c2, w1, w2, v1, t1, t2, t3, a1, k1, r1, e1, e2, l1, s1, s2, p1

Table(board, x, y) ==
  [kind |-> "table", board |-> board, f |-> [name |-> 1, x |-> x, y |-> y, width |-> None]]

Area(members) ==
  [kind |-> "area", board |-> w1,
   f |-> [x |-> 0, y |-> 0, width |-> 400, height |-> 300, members |-> members]]

\* Two tables of the area's board, one without a place on its y axis when NoY; one
\* table of another board.
Tables(y2) == (t1 :> Table(w1, 100, 200)) @@ (t2 :> Table(w1, 500, y2)) @@ (t3 :> Table(w2, 0, 0))

Diagram(members, y2) == Tables(y2) @@ (a1 :> Area(members))

JoinedRows ==
  Tables(0)
  @@ (k1 :> [kind |-> "column", board |-> w1, f |-> [table |-> t1, name |-> 1, order |-> 1]])
  @@ (r1 :> [kind |-> "relationship", board |-> w1,
             f |-> [source |-> k1, target |-> k1, label |-> None]])

Element(x) ==
  [kind |-> "element", board |-> v1,
   f |-> [x |-> x, y |-> 0, width |-> 10, height |-> 10, zIndex |-> 1, text |-> None, style |-> None]]

Nothing == [k \in {} |-> None]

Ends(source, target) ==
  [sourceElementId |-> source, sourcePoint |-> IF source = None THEN p1 ELSE None,
   targetElementId |-> target, targetPoint |-> IF target = None THEN p1 ELSE None,
   routing |-> "elbow", curvature |-> 1]

Canvas ==
  (e1 :> Element(0)) @@ (e2 :> Element(50))
  @@ (l1 :> [kind |-> "connector", board |-> v1, f |-> Ends(e1, None)])

\* The connector has no usable routing, and another one cannot be read.
DamagedCanvas ==
  (l1 :> [kind |-> "connector", board |-> v1, f |-> [Ends(e1, None) EXCEPT !.routing = None]])
  @@ (e2 :> [kind |-> "unreadable", board |-> v1, f |-> Nothing])
  @@ Canvas

On(tool, id, set) == [tool |-> tool, id |-> id, set |-> set]
New(tool, board, set) == [tool |-> tool, board |-> board, set |-> set]
Member(tool, id) == [tool |-> tool, id |-> a1, member |-> id]
Place(id, x, y) == [id |-> id, x |-> x, y |-> y]
Bulk(places) == [tool |-> "bulk_update_positions", board |-> w1, positions |-> places]
Line(id, set) == [tool |-> "update_canvas_connector", board |-> v1, id |-> id, set |-> set]
Shape(tool, id, set) == [tool |-> tool, board |-> v1, id |-> id, set |-> set]

Case(state, r, s) == [rows |-> state, request |-> (c1 :> r) @@ (c2 :> s)]

AreaCases ==
  {Case(Diagram(<<t1>>, 0), Member("add_table_to_area", t2), Member("add_table_to_area", t2)),
   Case(Diagram(<<t1>>, 0), Member("add_table_to_area", t3), On("delete_table", t1, Nothing)),
   Case(Diagram(<<t1, t2>>, 0), Member("remove_table_from_area", t1),
        On("update_table", t2, [x |-> 50])),
   Case(Diagram(<<t1>>, 0), Member("add_table_to_area", t2),
        Member("remove_table_from_area", t1)),
   Case(Diagram(<<t1, t1>>, 0), Member("add_table_to_area", t2),
        Member("remove_table_from_area", t1)),
   Case(Diagram(<<t1>>, 0), Member("add_table_to_area", t2),
        On("move_area", a1, [x |-> 10, y |-> 20])),
   Case(Diagram(<<t1, t2, t2>>, 0), On("move_area", a1, [x |-> 10, y |-> 20]),
        Bulk([n \in 1..3 |-> Place(t1, n, n)])),
   Case(Diagram(<<t1, t2>>, None), On("move_area", a1, [x |-> 10, y |-> 20]),
        Bulk(<<Place(t2, 1, 1), Place(t3, 1, 1)>>)),
   Case(Diagram(<<t1, t3>>, 0), On("move_area", a1, [x |-> 10, y |-> 20]),
        New("create_area", w1, [x |-> 0, y |-> 0, width |-> 200, height |-> 200,
                                members |-> <<t3, t3>>]))}

TableCases ==
  {Case(Tables(None), On("update_table", t1, [name |-> 2, x |-> 7]),
        On("update_table", t1, [y |-> 9])),
   Case(Tables(None), On("update_table", t2, [x |-> 7]), On("update_table", t2, Nothing)),
   Case(Tables(0), New("create_table", w1, [name |-> 3]), Bulk(<<>>)),
   Case(Tables(0), New("create_table", v1, [name |-> 3]), On("delete_table", t3, Nothing))}

JoinCases ==
  {Case(JoinedRows, On("update_column", k1, [name |-> 2]), On("delete_column", k1, Nothing)),
   Case(JoinedRows, On("create_column", t1, [name |-> 3]),
        [tool |-> "reorder_columns", id |-> t1, ordered |-> <<k1, k1>>]),
   Case(JoinedRows, On("update_relationship", r1, [label |-> 1]),
        On("delete_relationship", r1, Nothing)),
   Case(JoinedRows, New("create_relationship", w1, [source |-> k1, target |-> k1, label |-> None]),
        On("delete_table", t1, Nothing)),
   Case(JoinedRows, [tool |-> "reorder_columns", id |-> t1, ordered |-> <<>>],
        On("update_column", t1, Nothing))}

CanvasCases ==
  {Case(Canvas, Line(l1, [targetElementId |-> e2]), Line(l1, [sourceElementId |-> e2])),
   Case(Canvas, Line(l1, [targetElementId |-> e2, routing |-> "curved"]),
        Line(l1, [sourcePoint |-> p1, curvature |-> 0])),
   Case(Canvas, New("create_canvas_connector", v1,
                    [sourceElementId |-> e1, targetElementId |-> e2, routing |-> "elbow"]),
        Shape("delete_canvas_element", e1, Nothing)),
   Case(Canvas, New("create_canvas_connector", v1,
                    [sourceElementId |-> e1, targetElementId |-> e1, routing |-> "elbow"]),
        Line(e1, [routing |-> "straight"])),
   Case(DamagedCanvas, Line(l1, [targetElementId |-> e2]), Line(l1, [routing |-> "straight"])),
   Case(DamagedCanvas, Line(e2, [routing |-> "straight"]),
        Shape("delete_canvas_element", e2, Nothing)),
   Case(Canvas, Line(l1, [targetElementId |-> e1]), Line(l1, Nothing)),
   Case(Canvas, Shape("update_canvas_element", e1, [x |-> 5, style |-> 1]),
        Shape("update_canvas_element", e2, Nothing)),
   Case(Canvas, New("create_canvas_element", v1, [x |-> 1, y |-> 1, width |-> 5, height |-> 5]),
        New("create_canvas_element", w1, Nothing))}

Scenarios == AreaCases \cup TableCases \cup JoinCases \cup CanvasCases
=============================================================================
