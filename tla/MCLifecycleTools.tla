--------------------------- MODULE MCLifecycleTools ---------------------------
(* A small instance of LifecycleTools: two calls on one project with a     *)
(* folder, two whiteboards, a canvas board, a table and a reference to it. *)
EXTENDS LifecycleTools, TLC

CONSTANTS c1, c2, p1, f1, w1, w2, v1, t1, x1, s1, s2, n1, n2

Row(kind, name, above) ==
  [kind |-> kind, name |-> name, project |-> p1, above |-> above,
   sourceBoard |-> None, sourceTable |-> None]

World ==
  (p1 :> Row("project", n1, None)) @@ (f1 :> Row("folder", n1, p1))
  @@ (w1 :> Row("whiteboard", n1, f1)) @@ (w2 :> Row("whiteboard", n1, p1))
  @@ (v1 :> Row("canvas board", n1, f1)) @@ (t1 :> Row("table", n1, w1))
  @@ (x1 :> [Row("table", n2, w2) EXCEPT !.sourceBoard = w1, !.sourceTable = t1])

Nothing == [k \in {} |-> None]
Make(tool, set) == [tool |-> tool, id |-> None, set |-> set, confirm |-> Empty]
Change(tool, id, set) == [tool |-> tool, id |-> id, set |-> set, confirm |-> Empty]
Drop(tool, id, name) == [tool |-> tool, id |-> id, set |-> Nothing, confirm |-> name]
Named(name, above) == [project |-> p1, name |-> name, above |-> above]

Pairs ==
  {<<Make("create_project", [name |-> n2]), Change("update_project", p1, [name |-> n2])>>,
   <<Make("create_project", [name |-> Empty]), Drop("delete_project", p1, n1)>>,
   <<Drop("delete_project", p1, n2), Change("update_project", p1, Nothing)>>,
   <<Make("create_folder", Named(n1, f1)), Drop("delete_folder", f1, n1)>>,
   <<Change("update_folder", f1, [name |-> n2]), Drop("delete_folder", f1, n2)>>,
   <<Make("create_whiteboard", Named(n2, f1)), Drop("delete_whiteboard", w2, n1)>>,
   <<Change("update_whiteboard", w2, [above |-> f1]), Drop("delete_folder", f1, n1)>>,
   <<Change("update_whiteboard", v1, [name |-> n2]), Drop("delete_whiteboard", w1, Empty)>>,
   <<Make("create_canvas_board", Named(n2, p1)), Drop("delete_canvas_board", v1, n1)>>,
   <<Change("update_canvas_board", v1, [name |-> n2]), Drop("delete_canvas_board", v1, n2)>>,
   <<Make("create_table_reference", [above |-> w2, sourceBoard |-> w1, sourceTable |-> t1]),
     Drop("delete_table_reference", x1, n1)>>,
   <<Change("update_table_reference", x1, [sourceBoard |-> w1, sourceTable |-> t1]),
     Drop("delete_table_reference", x1, n2)>>,
   <<Change("list_table_references", w2, Nothing), Drop("delete_table_reference", t1, n1)>>,
   <<Change("update_table_reference", x1, Nothing), Drop("delete_project", p1, n1)>>}

Holders == {[owner |-> TRUE, member |-> "no row"], [owner |-> FALSE, member |-> "ADMIN"],
            [owner |-> FALSE, member |-> "EDITOR"], [owner |-> FALSE, member |-> "VIEWER"]}

Scenarios ==
  {[rows |-> World, request |-> (c1 :> pair[1]) @@ (c2 :> pair[2]),
    standing |-> [id \in Id |-> IF id = p1 THEN s ELSE [owner |-> FALSE, member |-> "no row"]]] :
     pair \in Pairs, s \in Holders}
=============================================================================
