--------------------------- MODULE LifecycleProofs ---------------------------
(***************************************************************************)
(* Proofs about the lifecycle tools, for any number of calls, any rows and *)
(* any requests.                                                           *)
(***************************************************************************)
EXTENDS LifecycleTools, SequenceTheorems, TLAPS

Deletes == {"delete_project", "delete_folder", "delete_whiteboard", "delete_canvas_board",
            "delete_table_reference"}

Last(r) == Stages(r)[Len(Stages(r))]

\* The kind of row that a delete is about.
DeletedKind(r) ==
  CASE r.tool = "delete_project"      -> "project"
    [] r.tool = "delete_folder"       -> "folder"
    [] r.tool = "delete_whiteboard"   -> "whiteboard"
    [] r.tool = "delete_canvas_board" -> "canvas board"
    [] OTHER                          -> "reference"
-----------------------------------------------------------------------------
(* The stages of each tool.                                                *)

LEMMA JoinedFour ==
  ASSUME NEW a, NEW b, NEW c, NEW d
  PROVE  LET q == <<a>> \o <<b, c>> \o <<d>>
         IN  Len(q) = 4 /\ q[1] = a /\ q[2] = b /\ q[3] = c /\ q[4] = d
<1> DEFINE S == {a, b, c, d}
<1>1. <<a>> \in Seq(S) /\ <<b, c>> \in Seq(S) /\ <<d>> \in Seq(S)
  OBVIOUS
<1> HIDE DEF S
<1> QED BY <1>1, ConcatProperties

LEMMA JoinedFive ==
  ASSUME NEW a, NEW b, NEW c, NEW d, NEW e
  PROVE  /\ LET q == <<a>> \o <<b, c>> \o <<d, e>>
            IN  Len(q) = 5 /\ q[1] = a /\ q[2] = b /\ q[3] = c /\ q[4] = d /\ q[5] = e
         /\ LET q == <<a, b>> \o <<c, d>> \o <<e>>
            IN  Len(q) = 5 /\ q[1] = a /\ q[2] = b /\ q[3] = c /\ q[4] = d /\ q[5] = e
<1> DEFINE S == {a, b, c, d, e}
<1>1. /\ <<a>> \in Seq(S) /\ <<b, c>> \in Seq(S) /\ <<d, e>> \in Seq(S)
      /\ <<a, b>> \in Seq(S) /\ <<c, d>> \in Seq(S) /\ <<e>> \in Seq(S)
  OBVIOUS
<1> HIDE DEF S
<1> QED BY <1>1, ConcatProperties

\* What a stage does, as a sequence of the same length.
LEMMA StageFields ==
  /\ \A ok : Check(ok).do = "check"
  /\ \A k : Resolve(k).do = "resolve"
  /\ \A k : Gate(k).do = "gate"
  /\ \A k : Confirm(k).do = "confirm" /\ Confirm(k).kind = k
  /\ \A b : Route(b).do = "route" /\ Route(b).body = b
BY DEF Check, Resolve, Gate, Confirm, Route

\* A delete: its last two stages are the comparison of the name and the request, which
\* deletes the row that was compared; before them only checks and queries.
DeleteShape(r) ==
  /\ Len(Stages(r)) \in {3, 4, 5}
  /\ Stages(r)[Len(Stages(r)) - 1] = Confirm(DeletedKind(r))
  /\ Last(r) = Route(Body("delete", DeletedKind(r), r.id, <<>>, "NOT_FOUND"))
  /\ \A i \in 1..(Len(Stages(r)) - 1) : Stages(r)[i].do # "route"

\* The deletes of what hangs in a project.
LEMMA ResolvedDelete ==
  ASSUME NEW r, NEW ok, NEW kind, NEW role, DeletedKind(r) = kind,
         Stages(r) = <<Check(ok)>> \o <<Resolve(kind), Gate(role)>>
                     \o <<Confirm(kind), Route(Body("delete", kind, r.id, <<>>, "NOT_FOUND"))>>
  PROVE  DeleteShape(r)
<1> DEFINE end == Route(Body("delete", kind, r.id, <<>>, "NOT_FOUND"))
<1>1. /\ Check(ok).do # "route" /\ Resolve(kind).do # "route"
      /\ Gate(role).do # "route" /\ Confirm(kind).do # "route"
  BY StageFields
<1>2. /\ Len(Stages(r)) = 5
      /\ Stages(r)[1] = Check(ok) /\ Stages(r)[2] = Resolve(kind) /\ Stages(r)[3] = Gate(role)
      /\ Stages(r)[4] = Confirm(kind) /\ Stages(r)[5] = end
  BY JoinedFive
<1> HIDE DEF end
<1>3. \A i \in 1..4 : Stages(r)[i].do # "route"
  BY <1>1, <1>2
<1> QED BY <1>2, <1>3 DEF DeleteShape, Last, end

LEMMA DeletesHaveShape ==
  ASSUME NEW r, r.tool \in Deletes PROVE DeleteShape(r)
<1>1. CASE r.tool = "delete_project"
  <2> DEFINE ok == Check(r.confirm # Empty)
             gate == Gate(prodProjectLifecycleFns.assertOwner)
             end == Route(Body("delete", "project", r.id, <<>>, "NOT_FOUND"))
  <2>1. Stages(r) = <<ok, gate, Confirm("project"), end>> /\ DeletedKind(r) = "project"
    BY <1>1 DEF Stages, deleteProjectWithFns, DeleteProject, prodProjectLifecycleFns, DeletedKind
  <2>2. ok.do # "route" /\ gate.do # "route" /\ Confirm("project").do # "route"
    BY StageFields
  <2> HIDE DEF ok, gate, end
  <2>3. Len(Stages(r)) = 4
    BY <2>1
  <2> QED BY <2>1, <2>2, <2>3 DEF DeleteShape, Last, end
<1>2. CASE r.tool = "delete_folder"
  BY <1>2, ResolvedDelete
     DEF Stages, deleteFolderWithFns, authorizeExistingFolder, prodFolderLifecycleFns,
         DeleteFolder, DeletedKind
<1>3. CASE r.tool = "delete_whiteboard"
  BY <1>3, ResolvedDelete
     DEF Stages, deleteWhiteboardWithFns, authorizeExistingWhiteboard,
         prodWhiteboardLifecycleFns, DeleteWhiteboard, DeletedKind
<1>4. CASE r.tool = "delete_canvas_board"
  BY <1>4, ResolvedDelete
     DEF Stages, deleteCanvasBoardWithFns, authorizeExistingCanvasBoard,
         prodCanvasBoardLifecycleFns, DeleteCanvasBoard, DeletedKind
<1>5. CASE r.tool = "delete_table_reference"
  <2> DEFINE ok == Check(r.confirm # Empty)
             end == Route(Body("delete", "reference", r.id, <<>>, "NOT_FOUND"))
  <2>1. Stages(r) = <<ok, Confirm("reference"), end>> /\ DeletedKind(r) = "reference"
    BY <1>5 DEF Stages, deleteTableReferenceWithFns, DeleteTableReference, DeletedKind
  <2>2. ok.do # "route" /\ Confirm("reference").do # "route"
    BY StageFields
  <2> HIDE DEF ok, end
  <2>3. Len(Stages(r)) = 3
    BY <2>1
  <2> QED BY <2>1, <2>2, <2>3 DEF DeleteShape, Last, end
<1> QED BY <1>1, <1>2, <1>3, <1>4, <1>5 DEF Deletes

\* A row that is updated keeps its kind and its project.
KeepsPlace(body) == DOMAIN body.f \cap {"kind", "project"} = {}

\* Any tool: its last stage is its request, and a 404 is never taken for success.
EndsWith(r, op) ==
  /\ Len(Stages(r)) \in Nat \ {0}
  /\ Last(r).do = "route"
  /\ Last(r).body.op = op
  /\ Last(r).body.missing \in {"NOT_FOUND", "CONNECTION_ERROR"}
  /\ op = "update" => KeepsPlace(Last(r).body)

LEMMA EndsWithRoute ==
  ASSUME NEW r, NEW b, NEW op, Len(Stages(r)) \in Nat \ {0}, Last(r) = Route(b),
         b.op = op, b.missing \in {"NOT_FOUND", "CONNECTION_ERROR"},
         op = "update" => KeepsPlace(b)
  PROVE  EndsWith(r, op)
BY StageFields DEF EndsWith

LEMMA BodyFields ==
  ASSUME NEW op, NEW kind, NEW id, NEW f, NEW missing
  PROVE  LET b == Body(op, kind, id, f, missing)
         IN  b.op = op /\ b.kind = kind /\ b.id = id /\ b.missing = missing
BY DEF Body

LEMMA FewIsSome ==
  ASSUME NEW n, n \in {3, 4, 5} PROVE n \in Nat \ {0}
OBVIOUS

LEMMA ToolsEndWithRoute ==
  ASSUME NEW r, r.tool \in Tool
  PROVE  \E op : EndsWith(r, op) /\ (op = "delete" <=> r.tool \in Deletes)
<1>1. CASE r.tool \in Deletes
  <2>1. DeleteShape(r)
    BY <1>1, DeletesHaveShape
  <2>2. Last(r) = Route(Body("delete", DeletedKind(r), r.id, <<>>, "NOT_FOUND"))
    BY <2>1 DEF DeleteShape
  <2>3. Len(Stages(r)) \in {3, 4, 5}
    BY <2>1 DEF DeleteShape
  <2>4. Len(Stages(r)) \in Nat \ {0}
    BY <2>3, FewIsSome
  <2> QED BY <1>1, <2>2, <2>4, BodyFields, EndsWithRoute
<1>2. CASE r.tool = "create_project"
  <2>1. Len(Stages(r)) \in Nat \ {0} /\ Last(r) = Route(CreateProject(r))
    BY <1>2 DEF Stages, createProjectWithFns, Last
  <2>2. CreateProject(r).op = "create" /\ CreateProject(r).missing \in {"NOT_FOUND", "CONNECTION_ERROR"}
    BY DEF CreateProject, Body
  <2>3. EndsWith(r, "create")
    BY <2>1, <2>2, EndsWithRoute
  <2> QED BY <1>2, <2>3 DEF Deletes
<1>3. CASE r.tool = "update_project"
  <2>1. Len(Stages(r)) \in Nat \ {0} /\ Last(r) = Route(UpdateProject(r))
    BY <1>3 DEF Stages, updateProjectWithFns, Last
  <2>2. /\ UpdateProject(r).op = "update" /\ UpdateProject(r).missing \in {"NOT_FOUND", "CONNECTION_ERROR"}
        /\ KeepsPlace(UpdateProject(r))
    BY DEF UpdateProject, Body, Only, KeepsPlace
  <2>3. EndsWith(r, "update")
    BY <2>1, <2>2, EndsWithRoute
  <2> QED BY <1>3, <2>3 DEF Deletes
<1>4. CASE r.tool = "create_folder"
  <2>1. Len(Stages(r)) \in Nat \ {0} /\ Last(r) = Route(CreateFolder(r))
    BY <1>4 DEF Stages, createFolderWithFns, Last
  <2>2. CreateFolder(r).op = "create" /\ CreateFolder(r).missing \in {"NOT_FOUND", "CONNECTION_ERROR"}
    BY DEF CreateFolder, Body
  <2>3. EndsWith(r, "create")
    BY <2>1, <2>2, EndsWithRoute
  <2> QED BY <1>4, <2>3 DEF Deletes
<1>5. CASE r.tool = "update_folder"
  <2>1. Len(Stages(r)) \in Nat \ {0} /\ Last(r) = Route(UpdateFolder(r))
    BY <1>5, JoinedFour DEF Stages, updateFolderWithFns, authorizeExistingFolder, Last
  <2>2. /\ UpdateFolder(r).op = "update" /\ UpdateFolder(r).missing \in {"NOT_FOUND", "CONNECTION_ERROR"}
        /\ KeepsPlace(UpdateFolder(r))
    BY DEF UpdateFolder, Body, Only, KeepsPlace
  <2>3. EndsWith(r, "update")
    BY <2>1, <2>2, EndsWithRoute
  <2> QED BY <1>5, <2>3 DEF Deletes
<1>6. CASE r.tool = "create_whiteboard"
  <2>1. Len(Stages(r)) \in Nat \ {0} /\ Last(r) = Route(CreateWhiteboard(r))
    BY <1>6 DEF Stages, createWhiteboardWithFns, Last
  <2>2. CreateWhiteboard(r).op = "create" /\ CreateWhiteboard(r).missing \in {"NOT_FOUND", "CONNECTION_ERROR"}
    BY DEF CreateWhiteboard, Body
  <2>3. EndsWith(r, "create")
    BY <2>1, <2>2, EndsWithRoute
  <2> QED BY <1>6, <2>3 DEF Deletes
<1>7. CASE r.tool = "update_whiteboard"
  <2>1. Len(Stages(r)) \in Nat \ {0} /\ Last(r) = Route(UpdateWhiteboard(r))
    BY <1>7, JoinedFive DEF Stages, updateWhiteboardWithFns, authorizeExistingWhiteboard, Last
  <2>2. /\ UpdateWhiteboard(r).op = "update" /\ UpdateWhiteboard(r).missing \in {"NOT_FOUND", "CONNECTION_ERROR"}
        /\ KeepsPlace(UpdateWhiteboard(r))
    BY DEF UpdateWhiteboard, Body, Only, KeepsPlace
  <2>3. EndsWith(r, "update")
    BY <2>1, <2>2, EndsWithRoute
  <2> QED BY <1>7, <2>3 DEF Deletes
<1>8. CASE r.tool = "create_canvas_board"
  <2>1. Len(Stages(r)) \in Nat \ {0} /\ Last(r) = Route(CreateCanvasBoard(r))
    BY <1>8 DEF Stages, createCanvasBoardWithFns, Last
  <2>2. CreateCanvasBoard(r).op = "create" /\ CreateCanvasBoard(r).missing \in {"NOT_FOUND", "CONNECTION_ERROR"}
    BY DEF CreateCanvasBoard, Body
  <2>3. EndsWith(r, "create")
    BY <2>1, <2>2, EndsWithRoute
  <2> QED BY <1>8, <2>3 DEF Deletes
<1>9. CASE r.tool = "update_canvas_board"
  <2>1. Len(Stages(r)) \in Nat \ {0} /\ Last(r) = Route(UpdateCanvasBoard(r))
    BY <1>9, JoinedFive DEF Stages, updateCanvasBoardWithFns, authorizeExistingCanvasBoard, Last
  <2>2. /\ UpdateCanvasBoard(r).op = "update" /\ UpdateCanvasBoard(r).missing \in {"NOT_FOUND", "CONNECTION_ERROR"}
        /\ KeepsPlace(UpdateCanvasBoard(r))
    BY DEF UpdateCanvasBoard, Body, Only, KeepsPlace
  <2>3. EndsWith(r, "update")
    BY <2>1, <2>2, EndsWithRoute
  <2> QED BY <1>9, <2>3 DEF Deletes
<1>10. CASE r.tool = "create_table_reference"
  <2>1. Len(Stages(r)) \in Nat \ {0} /\ Last(r) = Route(CreateTableReference(r))
    BY <1>10 DEF Stages, createTableReferenceWithFns, Last
  <2>2. CreateTableReference(r).op = "create" /\ CreateTableReference(r).missing \in {"NOT_FOUND", "CONNECTION_ERROR"}
    BY DEF CreateTableReference, Body
  <2>3. EndsWith(r, "create")
    BY <2>1, <2>2, EndsWithRoute
  <2> QED BY <1>10, <2>3 DEF Deletes
<1>11. CASE r.tool = "update_table_reference"
  <2>1. Len(Stages(r)) \in Nat \ {0} /\ Last(r) = Route(UpdateTableReference(r))
    BY <1>11 DEF Stages, updateTableReferenceWithFns, Last
  <2>2. /\ UpdateTableReference(r).op = "update" /\ UpdateTableReference(r).missing \in {"NOT_FOUND", "CONNECTION_ERROR"}
        /\ KeepsPlace(UpdateTableReference(r))
    BY DEF UpdateTableReference, Body, Only, KeepsPlace
  <2>3. EndsWith(r, "update")
    BY <2>1, <2>2, EndsWithRoute
  <2> QED BY <1>11, <2>3 DEF Deletes
<1>12. CASE r.tool = "list_table_references"
  <2>1. Len(Stages(r)) \in Nat \ {0} /\ Last(r) = Route(ListTableReferences(r))
    BY <1>12 DEF Stages, listTableReferencesWithFns, Last
  <2>2. ListTableReferences(r).op = "list" /\ ListTableReferences(r).missing \in {"NOT_FOUND", "CONNECTION_ERROR"}
    BY DEF ListTableReferences, Body
  <2>3. EndsWith(r, "list")
    BY <2>1, <2>2, EndsWithRoute
  <2> QED BY <1>12, <2>3 DEF Deletes
<1> QED BY <1>1, <1>2, <1>3, <1>4, <1>5, <1>6, <1>7, <1>8, <1>9, <1>10, <1>11, <1>12
        DEF Tool, Deletes
-----------------------------------------------------------------------------
(* What every tool is made of.                                             *)

LEMMA DeleteTarget ==
  ASSUME NEW body, body.op = "delete" PROVE Target(body) = body.id /\ TargetKind(body) = body.kind
<1>1. "delete" # "create" /\ "delete" \in {"update", "delete"}
  OBVIOUS
<1>2. Target(body) = body.id
  BY <1>1 DEF Target
<1>3. TargetKind(body) = body.kind
  BY <1>1 DEF TargetKind
<1> QED BY <1>2, <1>3

\* The tools that find the project of the row they are about.
Resolving == {"update_folder", "delete_folder", "update_whiteboard", "delete_whiteboard",
              "update_canvas_board", "delete_canvas_board"}

\* A stage before the request, of a tool whose request is body.
Fits(r, body, s) ==
  /\ s.do \in {"check", "resolve", "gate", "confirm"}
  /\ s.do = "check" /\ ~s.ok => Malformed(r, body)
  /\ s.do = "resolve" => r.tool \in Resolving /\ s.kind = body.kind
  /\ s.do = "gate" => /\ s.role = Role(body)
                      /\ \/ r.tool \in Resolving
                         \/ NamedProject(r) = Target(body) /\ TargetKind(body) = "project"
  /\ s.do = "confirm" => body.op = "delete" /\ body.id = r.id /\ s.kind = body.kind

BodyFits(r, body) ==
  /\ body.kind \in Kind \cup {"reference"}
  /\ r.tool \in Resolving => /\ body.op \in {"update", "delete"} /\ body.id = r.id
                             /\ body.kind \in {"folder", "whiteboard", "canvas board"}

\* A tool: stages that fit its request, and the request; nothing is gated before it is
\* resolved, and no name is compared first.
Shaped(r) ==
  LET n == Len(Stages(r))
      body == Last(r).body
  IN  /\ n \in 1..5
      /\ Stages(r)[n].do = "route"
      /\ BodyFits(r, body)
      /\ \A i \in 1..(n - 1) : Fits(r, body, Stages(r)[i])
      /\ r.tool \in Resolving =>
           \A i \in 1..(n - 1) : Stages(r)[i].do = "gate" => i > 1 /\ Stages(r)[i - 1].do = "resolve"
      /\ Stages(r)[1].do # "confirm"

LEMMA StageFits ==
  ASSUME NEW r, NEW body
  PROVE  /\ \A ok : ok \/ Malformed(r, body) => Fits(r, body, Check(ok))
         /\ r.tool \in Resolving => /\ Fits(r, body, Resolve(body.kind))
                                    /\ Fits(r, body, Gate(Role(body)))
         /\ NamedProject(r) = Target(body) /\ TargetKind(body) = "project"
              => Fits(r, body, Gate(Role(body)))
         /\ body.op = "delete" /\ body.id = r.id => Fits(r, body, Confirm(body.kind))
BY DEF Fits, Check, Resolve, Gate, Confirm

\* The tools that resolve nothing, by the number of their stages.
LEMMA PlainShape ==
  ASSUME NEW r, NEW body, r.tool \notin Resolving, BodyFits(r, body),
         \/ Stages(r) = <<Route(body)>>
         \/ \E a : /\ a.do # "confirm" /\ Fits(r, body, a)
                   /\ Stages(r) = <<a, Route(body)>>
         \/ \E a, b : /\ a.do # "confirm" /\ Fits(r, body, a) /\ Fits(r, body, b)
                      /\ Stages(r) = <<a, b, Route(body)>>
         \/ \E a, b, c : /\ a.do # "confirm" /\ Fits(r, body, a) /\ Fits(r, body, b) /\ Fits(r, body, c)
                         /\ Stages(r) = <<a, b, c, Route(body)>>
  PROVE  Shaped(r)
<1> DEFINE end == Route(body)
<1>1. end.do = "route" /\ end.body = body
  BY StageFields
<1> HIDE DEF end
<1> USE DEF Shaped, Last
<1>2. CASE Stages(r) = <<end>>
  BY <1>1, <1>2
<1>3. ASSUME NEW a, a.do # "confirm", Fits(r, body, a), Stages(r) = <<a, end>> PROVE Shaped(r)
  <2>1. Len(Stages(r)) = 2 /\ Stages(r)[1] = a /\ Stages(r)[2] = end
    BY <1>3
  <2> QED BY <1>1, <1>3, <2>1
<1>4. ASSUME NEW a, NEW b, a.do # "confirm", Fits(r, body, a), Fits(r, body, b),
             Stages(r) = <<a, b, end>>
      PROVE  Shaped(r)
  <2>1. Len(Stages(r)) = 3 /\ Stages(r)[1] = a /\ Stages(r)[2] = b /\ Stages(r)[3] = end
    BY <1>4
  <2>2. \A i \in 1..(3 - 1) : i = 1 \/ i = 2
    OBVIOUS
  <2> QED BY <1>1, <1>4, <2>1, <2>2
<1>5. ASSUME NEW a, NEW b, NEW c, a.do # "confirm", Fits(r, body, a), Fits(r, body, b),
             Fits(r, body, c), Stages(r) = <<a, b, c, end>>
      PROVE  Shaped(r)
  <2>1. /\ Len(Stages(r)) = 4 /\ Stages(r)[1] = a /\ Stages(r)[2] = b /\ Stages(r)[3] = c
        /\ Stages(r)[4] = end
    BY <1>5
  <2>2. \A i \in 1..(4 - 1) : i = 1 \/ i = 2 \/ i = 3
    OBVIOUS
  <2> QED BY <1>1, <1>5, <2>1, <2>2
<1> QED BY <1>2, <1>3, <1>4, <1>5 DEF end

\* Those that resolve their row's project: one or two checks, and the gate follows the
\* resolver at once.
Resolves(r, body, a, b) ==
  LET found == <<Resolve(body.kind), Gate(Role(body))>>
  IN  \/ Stages(r) = <<a>> \o found \o <<Route(body)>>
      \/ Stages(r) = <<a, b>> \o found \o <<Route(body)>>
      \/ /\ body.op = "delete"
         /\ Stages(r) = <<a>> \o found \o <<Confirm(body.kind), Route(body)>>

LEMMA ResolvingShape ==
  ASSUME NEW r, NEW body, r.tool \in Resolving, BodyFits(r, body),
         NEW a, a.do = "check", Fits(r, body, a),
         NEW b, b.do = "check", Fits(r, body, b), Resolves(r, body, a, b)
  PROVE  Shaped(r)
<1> DEFINE end == Route(body)
           resolve == Resolve(body.kind)
           gate == Gate(Role(body))
           confirm == Confirm(body.kind)
<1>1. /\ end.do = "route" /\ end.body = body
      /\ resolve.do = "resolve" /\ confirm.do = "confirm"
  BY StageFields
<1>2. /\ Fits(r, body, resolve) /\ Fits(r, body, gate)
      /\ body.op = "delete" => Fits(r, body, confirm)
  BY StageFits DEF BodyFits
<1> HIDE DEF end, resolve, gate, confirm
<1> USE DEF Shaped, Last
<1>3. CASE Stages(r) = <<a>> \o <<resolve, gate>> \o <<end>>
  <2> DEFINE q == <<a>> \o <<resolve, gate>> \o <<end>>
  <2>1. Len(q) = 4 /\ q[1] = a /\ q[2] = resolve /\ q[3] = gate /\ q[4] = end
    BY JoinedFour
  <2>2. /\ Len(Stages(r)) = 4 /\ Stages(r)[1] = a /\ Stages(r)[2] = resolve
        /\ Stages(r)[3] = gate /\ Stages(r)[4] = end
    BY <1>3, <2>1
  <2>3. \A i \in 1..(4 - 1) : i = 1 \/ i = 2 \/ i = 3
    OBVIOUS
  <2> QED BY <1>1, <1>2, <2>2, <2>3
<1>4. CASE Stages(r) = <<a, b>> \o <<resolve, gate>> \o <<end>>
  <2>1. /\ Len(Stages(r)) = 5 /\ Stages(r)[1] = a /\ Stages(r)[2] = b /\ Stages(r)[3] = resolve
        /\ Stages(r)[4] = gate /\ Stages(r)[5] = end
    BY <1>4, JoinedFive
  <2>2. \A i \in 1..(5 - 1) : i = 1 \/ i = 2 \/ i = 3 \/ i = 4
    OBVIOUS
  <2> QED BY <1>1, <1>2, <2>1, <2>2
<1>5. CASE body.op = "delete" /\ Stages(r) = <<a>> \o <<resolve, gate>> \o <<confirm, end>>
  <2>1. /\ Len(Stages(r)) = 5 /\ Stages(r)[1] = a /\ Stages(r)[2] = resolve
        /\ Stages(r)[3] = gate /\ Stages(r)[4] = confirm /\ Stages(r)[5] = end
    BY <1>5, JoinedFive
  <2>2. \A i \in 1..(5 - 1) : i = 1 \/ i = 2 \/ i = 3 \/ i = 4
    OBVIOUS
  <2> QED BY <1>1, <1>2, <1>5, <2>1, <2>2
<1> QED BY <1>3, <1>4, <1>5 DEF Resolves, end, resolve, gate, confirm

\* Every tool has this shape (the functions of each entity as they are wired).
LEMMA ToolShape ==
  ASSUME NEW r, r.tool \in Tool, NamesItsProject(r) PROVE Shaped(r)
<1> USE DEF Tool, Resolving, BodyFits, Kind, Malformed
<1>1. CASE r.tool \in {"delete_folder", "delete_whiteboard", "delete_canvas_board"}
  <2> DEFINE kind == DeletedKind(r)
  <2>1. PICK body : body = Body("delete", kind, r.id, <<>>, "NOT_FOUND")
    OBVIOUS
  <2>2. /\ body.op = "delete" /\ body.kind = kind /\ body.id = r.id
        /\ kind \in {"folder", "whiteboard", "canvas board"}
    BY <1>1, <2>1 DEF DeletedKind, Body
  <2>3. Role(body) = "edit"
    BY <2>2 DEF Role
  <2> DEFINE a == Check(r.confirm # Empty)
  <2>4. Resolves(r, body, a, a)
    <3>1. Stages(r) = <<Check(r.confirm # Empty)>> \o <<Resolve(kind), Gate("edit")>>
                      \o <<Confirm(kind), Route(Body("delete", kind, r.id, <<>>, "NOT_FOUND"))>>
      <4>1. CASE r.tool = "delete_folder"
        BY <4>1 DEF Stages, deleteFolderWithFns, authorizeExistingFolder,
                    prodFolderLifecycleFns, DeleteFolder, DeletedKind
      <4>2. CASE r.tool = "delete_whiteboard"
        BY <4>2 DEF Stages, deleteWhiteboardWithFns, authorizeExistingWhiteboard,
                    prodWhiteboardLifecycleFns, DeleteWhiteboard, DeletedKind
      <4>3. CASE r.tool = "delete_canvas_board"
        BY <4>3 DEF Stages, deleteCanvasBoardWithFns, authorizeExistingCanvasBoard,
                    prodCanvasBoardLifecycleFns, DeleteCanvasBoard, DeletedKind
      <4> QED BY <1>1, <4>1, <4>2, <4>3
    <3> HIDE DEF kind
    <3> QED BY <2>1, <2>2, <2>3, <3>1 DEF Resolves
  <2>5. a.do = "check" /\ Fits(r, body, a)
    BY <2>2, StageFields, StageFits
  <2>6. r.tool \in Resolving /\ BodyFits(r, body)
    BY <1>1, <2>2
  <2> HIDE DEF a, Resolving, BodyFits
  <2> QED BY <2>4, <2>5, <2>6, ResolvingShape
<1>2. CASE r.tool = "update_folder"
  <2>1. PICK body : body = UpdateFolder(r)
    OBVIOUS
  <2>2. body.op = "update" /\ body.kind = "folder" /\ body.id = r.id
    BY <2>1 DEF UpdateFolder, Body
  <2>3. Role(body) = "edit"
    BY <2>2 DEF Role
  <2> DEFINE a == Check(checkLen(r))
  <2>4. Resolves(r, body, a, a)
    BY <1>2, <2>1, <2>2, <2>3
       DEF Resolves, Stages, updateFolderWithFns, authorizeExistingFolder, prodFolderLifecycleFns
  <2>5. a.do = "check" /\ Fits(r, body, a)
    BY StageFields, StageFits
  <2>6. r.tool \in Resolving /\ BodyFits(r, body)
    BY <1>2, <2>2
  <2> HIDE DEF a, Resolving, BodyFits
  <2> QED BY <2>4, <2>5, <2>6, ResolvingShape
<1>3. CASE r.tool \in {"update_whiteboard", "update_canvas_board"}
  <2>1. PICK body : body = IF r.tool = "update_whiteboard" THEN UpdateWhiteboard(r)
                           ELSE UpdateCanvasBoard(r)
    OBVIOUS
  <2>2. /\ body.op = "update" /\ body.id = r.id
        /\ body.kind = IF r.tool = "update_whiteboard" THEN "whiteboard" ELSE "canvas board"
    BY <1>3, <2>1 DEF UpdateWhiteboard, UpdateCanvasBoard, Body
  <2>3. Role(body) = "edit"
    BY <2>2 DEF Role
  <2> DEFINE a == Check(NamesAField(r))
             b == Check(checkLen(r))
  <2>4. Resolves(r, body, a, b)
    BY <1>3, <2>1, <2>2, <2>3
       DEF Resolves, Stages, updateWhiteboardWithFns, authorizeExistingWhiteboard,
           prodWhiteboardLifecycleFns, updateCanvasBoardWithFns,
           authorizeExistingCanvasBoard, prodCanvasBoardLifecycleFns
  <2>5. a.do = "check" /\ Fits(r, body, a) /\ b.do = "check" /\ Fits(r, body, b)
    BY <2>2, StageFields, StageFits
  <2>6. r.tool \in Resolving /\ BodyFits(r, body)
    BY <1>3, <2>2
  <2> HIDE DEF a, b, Resolving, BodyFits
  <2> QED BY <2>4, <2>5, <2>6, ResolvingShape
<1>4. CASE r.tool = "delete_project"
  <2>1. PICK body : body = DeleteProject(r)
    OBVIOUS
  <2>2. body.op = "delete" /\ body.kind = "project" /\ body.id = r.id
    BY <2>1 DEF DeleteProject, Body
  <2>3. /\ Role(body) = "owner" /\ Target(body) = r.id /\ TargetKind(body) = "project"
        /\ NamedProject(r) = r.id
    BY <1>4, <2>2, DeleteTarget DEF Role, NamedProject
  <2>4. Stages(r) = <<Check(r.confirm # Empty), Gate(Role(body)), Confirm(body.kind), Route(body)>>
    BY <1>4, <2>1, <2>2, <2>3 DEF Stages, deleteProjectWithFns, prodProjectLifecycleFns
  <2>5. Check(r.confirm # Empty).do # "confirm" /\ Fits(r, body, Check(r.confirm # Empty))
    BY <2>2, StageFits, StageFields
  <2>6. Fits(r, body, Gate(Role(body))) /\ Fits(r, body, Confirm(body.kind))
    BY <2>2, <2>3, StageFits
  <2> QED BY <1>4, <2>2, <2>4, <2>5, <2>6, PlainShape
<1>5. CASE r.tool = "update_project"
  <2>1. PICK body : body = UpdateProject(r)
    OBVIOUS
  <2>2. body.op = "update" /\ body.kind = "project" /\ body.id = r.id
    BY <2>1 DEF UpdateProject, Body
  <2>3. /\ Role(body) = "admin" /\ Target(body) = r.id /\ TargetKind(body) = "project"
        /\ NamedProject(r) = r.id
    BY <1>5, <2>2 DEF Role, NamedProject, Target, TargetKind
  <2>4. Stages(r) = <<Check(NamesAField(r)), Check(checkLen(r)), Gate(Role(body)), Route(body)>>
    BY <1>5, <2>1, <2>3 DEF Stages, updateProjectWithFns, prodProjectLifecycleFns
  <2>5. /\ Check(NamesAField(r)).do # "confirm" /\ Fits(r, body, Check(NamesAField(r)))
        /\ Fits(r, body, Check(checkLen(r)))
    BY <2>2, StageFits, StageFields
  <2>6. Fits(r, body, Gate(Role(body)))
    BY <2>3, StageFits
  <2> QED BY <1>5, <2>2, <2>4, <2>5, <2>6, PlainShape
<1>6. CASE r.tool \in {"create_folder", "create_whiteboard", "create_canvas_board"}
  <2>1. PICK body : body = CASE r.tool = "create_folder" -> CreateFolder(r)
                             [] r.tool = "create_whiteboard" -> CreateWhiteboard(r)
                             [] OTHER -> CreateCanvasBoard(r)
    OBVIOUS
  <2>2. /\ body.op = "create" /\ body.kind \in {"folder", "whiteboard", "canvas board"}
        /\ body.f = Only({"project", "name", "above"}, r.set)
    BY <1>6, <2>1 DEF CreateFolder, CreateWhiteboard, CreateCanvasBoard, Body
  <2>3. body.f.project = r.set.project
    BY <1>6, <2>2 DEF NamesItsProject, Only
  <2>4. /\ Role(body) = "edit" /\ Target(body) = r.set.project /\ TargetKind(body) = "project"
        /\ NamedProject(r) = r.set.project
    BY <1>6, <2>2, <2>3 DEF Role, Target, TargetKind, NamedProject
  <2>5. Stages(r) = <<Check(checkLen(r)), Gate(Role(body)), Route(body)>>
    BY <1>6, <2>1, <2>4
       DEF Stages, createFolderWithFns, prodFolderLifecycleFns, createWhiteboardWithFns,
           prodWhiteboardLifecycleFns, createCanvasBoardWithFns, prodCanvasBoardLifecycleFns
  <2>6. /\ Check(checkLen(r)).do # "confirm" /\ Fits(r, body, Check(checkLen(r)))
        /\ Fits(r, body, Gate(Role(body)))
    BY <2>4, StageFits, StageFields
  <2> QED BY <1>6, <2>2, <2>5, <2>6, PlainShape
<1>7. CASE r.tool = "create_project"
  <2>1. PICK body : body = CreateProject(r)
    OBVIOUS
  <2>2. body.kind = "project" /\ Stages(r) = <<Check(checkLen(r)), Route(body)>>
    BY <1>7, <2>1 DEF CreateProject, Body, Stages, createProjectWithFns
  <2>3. Check(checkLen(r)).do # "confirm" /\ Fits(r, body, Check(checkLen(r)))
    BY StageFits, StageFields
  <2> QED BY <1>7, <2>2, <2>3, PlainShape
<1>8. CASE r.tool = "create_table_reference"
  <2>1. PICK body : body = CreateTableReference(r)
    OBVIOUS
  <2>2. /\ body.op = "create" /\ body.kind = "reference"
        /\ Stages(r) = <<Check(r.set.sourceBoard # r.set.above), Route(body)>>
    BY <1>8, <2>1 DEF CreateTableReference, Body, Stages, createTableReferenceWithFns
  <2>3. /\ Check(r.set.sourceBoard # r.set.above).do # "confirm" /\ Fits(r, body, Check(r.set.sourceBoard # r.set.above))
    BY <2>2, StageFits, StageFields
  <2> QED BY <1>8, <2>2, <2>3, PlainShape
<1>9. CASE r.tool = "update_table_reference"
  <2> DEFINE other == "sourceTable" \in DOMAIN r.set => r.set.sourceTable # r.id
  <2>1. PICK body : body = UpdateTableReference(r)
    OBVIOUS
  <2>2. body.op = "update" /\ body.kind = "reference"
    BY <2>1 DEF UpdateTableReference, Body
  <2>3. Stages(r) = <<Check(NamesAField(r)), Check(other), Route(body)>>
    BY <1>9, <2>1 DEF Stages, updateTableReferenceWithFns
  <2>4. /\ Check(NamesAField(r)).do # "confirm" /\ Fits(r, body, Check(NamesAField(r)))
        /\ Fits(r, body, Check(other))
    BY <2>2, StageFits, StageFields
  <2> HIDE DEF other
  <2> QED BY <1>9, <2>2, <2>3, <2>4, PlainShape
<1>10. CASE r.tool = "delete_table_reference"
  <2>1. PICK body : body = DeleteTableReference(r)
    OBVIOUS
  <2>2. body.op = "delete" /\ body.kind = "reference" /\ body.id = r.id
    BY <2>1 DEF DeleteTableReference, Body
  <2>3. Stages(r) = <<Check(r.confirm # Empty), Confirm(body.kind), Route(body)>>
    BY <1>10, <2>1, <2>2 DEF Stages, deleteTableReferenceWithFns
  <2>4. /\ Check(r.confirm # Empty).do # "confirm" /\ Fits(r, body, Check(r.confirm # Empty))
        /\ Fits(r, body, Confirm(body.kind))
    BY <2>2, StageFits, StageFields
  <2> QED BY <1>10, <2>2, <2>3, <2>4, PlainShape
<1>11. CASE r.tool = "list_table_references"
  <2>1. PICK body : body = ListTableReferences(r)
    OBVIOUS
  <2>2. body.kind = "reference" /\ Stages(r) = <<Route(body)>>
    BY <1>11, <2>1 DEF ListTableReferences, Body, Stages, listTableReferencesWithFns
  <2> QED BY <1>11, <2>2, PlainShape
<1> QED BY <1>1, <1>2, <1>3, <1>4, <1>5, <1>6, <1>7, <1>8, <1>9, <1>10, <1>11
-----------------------------------------------------------------------------
(* What an answer tells.                                                   *)

\* A request acts when the app answers 200 and at no other time; an answer is given
\* once, and not in spite of the response.
EffectInv ==
  /\ \A c \in Call : request[c].tool \in Tool /\ NamesItsProject(request[c])
  /\ DOMAIN phase = Call /\ DOMAIN answer = Call
  /\ route \in [Call -> Nat] /\ acts \in [Call -> Nat]
  /\ \A c \in Call :
       /\ acts[c] = IF route[c] = 200 THEN 1 ELSE 0
       /\ phase[c] \in {"run", "count"} => route[c] = Idle
       /\ phase[c] = "wait" => route[c] # Idle
       /\ phase[c] # "done" => answer[c] = "none"
       /\ answer[c] = "ok" => route[c] = 200
       /\ answer[c] \notin {"none", "ok", "CONNECTION_ERROR"} => route[c] \notin {Sent, 200}

LEMMA StatusValues ==
  ASSUME NEW state, NEW roles, NEW body, NEW status \in Statuses(state, roles, body)
  PROVE  status \in {200, 400, 401, 403, 404, 429, 500}
BY DEF Statuses

LEMMA OnlySuccessIsOk ==
  ASSUME NEW c \in Call, request[c].tool \in Tool, route[c] # 200
  PROVE  "ok" \notin Answers(c)
<1>1. PICK op : EndsWith(request[c], op)
  BY ToolsEndWithRoute
<1> DEFINE missing == Last(request[c]).body.missing
<1>2. missing # "ok"
  BY <1>1 DEF EndsWith
<1> HIDE DEF missing
<1>3. /\ lifecycleStatusError(route[c], missing) # "ok"
      /\ statusError(route[c], missing) # "ok"
      /\ referenceStatusError(route[c], missing) # "ok"
  BY <1>2 DEF lifecycleStatusError, statusError, referenceStatusError
<1>4. /\ "ok" \notin lifecycleAnswers(route[c], missing)
      /\ "ok" \notin canvasBoardAnswers(route[c], missing)
      /\ "ok" \notin referenceAnswers(route[c], missing)
  BY <1>3 DEF lifecycleAnswers, canvasBoardAnswers, referenceAnswers
<1> QED BY <1>4 DEF Answers, missing, Last

LEMMA EffectInit == Init => EffectInv
<1> SUFFICES ASSUME Init PROVE EffectInv
  OBVIOUS
<1>1. \A c \in Call : request[c].tool \in Tool /\ NamesItsProject(request[c])
  BY ScenarioAssumption DEF Init
<1> QED BY <1>1 DEF Init, EffectInv, Idle, Sent

LEMMA EffectStep == EffectInv /\ [Next]_vars => EffectInv'
<1> SUFFICES ASSUME EffectInv, [Next]_vars PROVE EffectInv'
  OBVIOUS
<1> USE DEF Answer, Idle, Sent
<1>1. ASSUME NEW c \in Call, RunStage(c) PROVE EffectInv'
  <2>1. /\ phase[c] = "run" /\ UNCHANGED <<request, route, acts>>
        /\ \/ UNCHANGED <<phase, answer>>
           \/ phase' = [phase EXCEPT ![c] = "count"] /\ answer' = answer
           \/ Verdict(c) # "ok" /\ Answer(c, Verdict(c))
    BY <1>1 DEF RunStage
  <2> QED BY <2>1 DEF EffectInv
<1>2. ASSUME NEW c \in Call, QueryFails(c) \/ cascadeWarning(c) PROVE EffectInv'
  <2>1. /\ phase[c] \in {"run", "count"} /\ UNCHANGED <<request, route, acts>>
        /\ \E code \in {"INTERNAL_ERROR", "VALIDATION_ERROR"} : Answer(c, code)
    BY <1>2 DEF QueryFails, cascadeWarning
  <2> QED BY <2>1 DEF EffectInv
<1>3. ASSUME NEW c \in Call, Post(c) PROVE EffectInv'
  <2>1. /\ phase[c] = "run" /\ UNCHANGED <<request, acts>>
        /\ \/ /\ route' = [route EXCEPT ![c] = Sent] /\ answer' = answer
              /\ phase' = [phase EXCEPT ![c] = "wait"]
           \/ Answer(c, "CONNECTION_ERROR") /\ route' = route
    BY <1>3 DEF Post
  <2> QED BY <2>1 DEF EffectInv
<1>4. ASSUME NEW c \in Call, Handle(c) PROVE EffectInv'
  <2>1. route[c] = Sent /\ UNCHANGED <<request, phase, answer>>
    BY <1>4 DEF Handle, callVars
  <2>2. PICK status \in Statuses(rows, standing, Last(request[c]).body) :
          /\ route' = [route EXCEPT ![c] = status]
          /\ status = 200 => acts' = [acts EXCEPT ![c] = @ + 1]
          /\ status # 200 => acts' = acts
    BY <1>4 DEF Handle, Last
  <2>3. status \in {200, 400, 401, 403, 404, 429, 500}
    BY StatusValues
  <2> QED BY <2>1, <2>2, <2>3 DEF EffectInv
<1>5. ASSUME NEW c \in Call, Receive(c) PROVE EffectInv'
  <2>1. PICK code \in Answers(c) : Answer(c, code)
    BY <1>5 DEF Receive
  <2>2. phase[c] = "wait" /\ route[c] # Sent /\ UNCHANGED <<request, route, acts>>
    BY <1>5 DEF Receive
  <2>3. route[c] = 200 => code \in {"ok", "CONNECTION_ERROR"}
    <3>1. \A missing : /\ lifecycleAnswers(200, missing) = {"ok", "CONNECTION_ERROR"}
                       /\ canvasBoardAnswers(200, missing) = {"ok", "CONNECTION_ERROR"}
                       /\ referenceAnswers(200, missing) = {"ok", "CONNECTION_ERROR"}
      BY DEF lifecycleAnswers, canvasBoardAnswers, referenceAnswers
    <3>2. ASSUME route[c] = 200 PROVE Answers(c) = {"ok", "CONNECTION_ERROR"}
      <4> DEFINE missing == Last(request[c]).body.missing
      <4>1. Answers(c) \in {referenceAnswers(route[c], missing), canvasBoardAnswers(route[c], missing),
                            lifecycleAnswers(route[c], missing)}
        BY DEF Answers, Last
      <4> QED BY <3>1, <3>2, <4>1
    <3> QED BY <2>1, <3>2
  <2>4. route[c] # 200 => code # "ok"
    BY <2>1, OnlySuccessIsOk DEF EffectInv
  <2> QED BY <2>1, <2>2, <2>3, <2>4 DEF EffectInv
<1>6. ASSUME NEW c \in Call, GiveUp(c) PROVE EffectInv'
  BY <1>6 DEF GiveUp, EffectInv
<1>7. ASSUME Meddle \/ UNCHANGED vars PROVE EffectInv'
  <2>1. UNCHANGED <<request, phase, answer, route, acts>>
    BY <1>7 DEF Meddle, callVars, vars
  <2> QED BY <2>1 DEF EffectInv
<1> QED BY <1>1, <1>2, <1>3, <1>4, <1>5, <1>6, <1>7 DEF Next, CallStep

\* Whatever the app, the other users and the timeouts do: "ok" is answered only for what
\* was done, once; a refusal only when nothing was done and nothing is left that could
\* do it (lifecycleStatusError and its like, the timeouts of the clients).
THEOREM AnswersTellTheTruth == Spec => []AnswerTellsEffect
<1>1. EffectInv => AnswerTellsEffect
  BY DEF EffectInv, AnswerTellsEffect
<1>2. Spec => []EffectInv
  BY EffectInit, EffectStep, PTL DEF Spec
<1> QED BY <1>1, <1>2, PTL
-----------------------------------------------------------------------------
(* What is deleted was confirmed.                                          *)

\* Some time of c's run its row had, as the listing tools report it, the name that
\* the caller confirms.
Confirmed(c) == \E s \in saw[c] : s.name = request[c].confirm

\* A delete is confirmed when it passes its last stage but one, and stays so.
ConfirmInv ==
  /\ DOMAIN rows \subseteq Id
  /\ at \in [Call -> Nat]
  /\ \A c \in Call : request[c].tool \in Deletes =>
       /\ phase[c] \in {"run", "count"} => at[c] < Len(Stages(request[c]))
       /\ route[c] # Idle => at[c] = Len(Stages(request[c]))
       /\ at[c] >= Len(Stages(request[c])) - 1 => Confirmed(c)

LEMMA LastButOne ==
  /\ \A n \in {3, 4, 5} : 0 < n /\ ~(0 >= n - 1)
  /\ \A n \in {3, 4, 5}, k \in Nat : k >= n - 1 => k # 0
OBVIOUS

LEMMA ListedIsConfirmName ==
  ASSUME NEW state, NEW id \in DOMAIN state, state[id].kind = "table"
  PROVE  ListedName(state, id) = FindReferenceConfirmName(state, id)
<1> DEFINE ref == state[id]
           sources == {k \in DOMAIN state :
                         /\ ref.kind = "table" /\ k = ref.sourceTable
                         /\ state[k].above = ref.sourceBoard /\ ref.sourceBoard \in DOMAIN state}
           live == /\ ref.sourceBoard \in DOMAIN state
                   /\ ref.sourceTable \in DOMAIN state
                   /\ state[ref.sourceTable].above = ref.sourceBoard
<1>1. CASE live
  <2>1. sources = {ref.sourceTable}
    BY <1>1
  <2> HIDE DEF sources
  <2>2. {state[k].name : k \in sources} = {state[ref.sourceTable].name}
    BY <2>1
  <2>3. (CHOOSE n \in {state[k].name : k \in sources} : TRUE) = state[ref.sourceTable].name
    BY <2>2
  <2>4. ListedName(state, id) = state[ref.sourceTable].name
    BY <2>1, <2>3 DEF ListedName, sources
  <2> QED BY <1>1, <2>4 DEF FindReferenceConfirmName
<1>2. CASE ~live
  <2>1. sources = {}
    BY <1>2
  <2> QED BY <1>2, <2>1 DEF ListedName, FindReferenceConfirmName
<1> QED BY <1>1, <1>2

LEMMA ComparedIsListed ==
  ASSUME NEW state, NEW roles, NEW r, DOMAIN state \subseteq Id, r.tool \in Deletes,
         Compared(state, r, DeletedKind(r)) = "ok"
  PROVE  Snapshot(state, roles, r).name = r.confirm
<1> DEFINE kind == DeletedKind(r)
           body == Last(r).body
<1>1. body.op = "delete" /\ body.kind = kind /\ body.id = r.id
  <2>1. Last(r) = Route(Body("delete", kind, r.id, <<>>, "NOT_FOUND"))
    BY DeletesHaveShape DEF DeleteShape
  <2>2. body = Body("delete", kind, r.id, <<>>, "NOT_FOUND")
    BY <2>1, StageFields
  <2> QED BY <2>2, BodyFields
<1>2. kind \in {"project", "folder", "whiteboard", "canvas board", "reference"}
  BY DEF DeletedKind
<1>3. IsA(state, r.id, kind) /\ ListedName(state, r.id) = r.confirm
  <2>1. CASE kind = "reference"
    <3>1. /\ IsA(state, r.id, "table") /\ state[r.id].sourceTable # None
          /\ FindReferenceConfirmName(state, r.id) = r.confirm
      BY <2>1 DEF Compared
    <3>2. r.id \in DOMAIN state /\ state[r.id].kind = "table"
      BY <3>1 DEF IsA
    <3> QED BY <2>1, <3>1, <3>2, ListedIsConfirmName DEF IsA
  <2>2. CASE kind # "reference"
    <3>1. \E row \in FindByID(state, r.id, kind) : row.name = r.confirm
      BY <2>2 DEF Compared
    <3>2. IsA(state, r.id, kind) /\ state[r.id].name = r.confirm
      BY <3>1 DEF FindByID
    <3>3. state[r.id].kind # "table"
      BY <1>2, <2>2, <3>2 DEF IsA
    <3> QED BY <3>2, <3>3 DEF ListedName
  <2> QED BY <2>1, <2>2
<1>4. r.id # None
  <2>1. r.id \in DOMAIN state
    BY <1>3 DEF IsA
  <2> QED BY <2>1, SpareAssumption
<1> HIDE DEF body, kind
<1>5. Target(body) = r.id /\ TargetKind(body) = kind
  BY <1>1, DeleteTarget
<1>6. Exists(state, body)
  BY <1>3, <1>5 DEF Exists
<1> QED BY <1>3, <1>4, <1>5, <1>6 DEF Snapshot, Last, body

LEMMA ConfirmInit == Init => ConfirmInv
<1> SUFFICES ASSUME Init PROVE ConfirmInv
  OBVIOUS
<1>1. DOMAIN rows \subseteq Id
  BY ScenarioAssumption DEF Init
<1>2. \A c \in Call : request[c].tool \in Deletes => Len(Stages(request[c])) \in {3, 4, 5}
  BY DeletesHaveShape DEF DeleteShape
<1>3. /\ at = [c \in Call |-> 0] /\ route = [c \in Call |-> Idle]
  BY DEF Init
<1>4. ASSUME NEW c \in Call, request[c].tool \in Deletes
      PROVE  /\ at[c] < Len(Stages(request[c])) /\ route[c] = Idle
             /\ ~(at[c] >= Len(Stages(request[c])) - 1)
  <2>1. at[c] = 0 /\ route[c] = Idle
    BY <1>3
  <2> QED BY <1>2, <1>4, <2>1, LastButOne
<1>5. at \in [Call -> Nat]
  BY <1>3
<1> QED BY <1>1, <1>4, <1>5 DEF ConfirmInv

\* What was seen stays seen, but for a call that has not taken a step.
LEMMA StaysConfirmed ==
  ASSUME Watch, request' = request, NEW c \in Call, at[c] # 0, Confirmed(c)
  PROVE  Confirmed(c)'
BY DEF Watch, Confirmed

LEMMA SeenNow ==
  ASSUME Watch, NEW c \in Call, phase[c] # "done"
  PROVE  Snapshot(rows', standing', request[c]) \in saw'[c]
BY DEF Watch

\* The part of the invariant about a call that takes no step.
LEMMA OthersStay ==
  ASSUME ConfirmInv, Watch, request' = request, NEW c \in Call, request[c].tool \in Deletes,
         at'[c] = at[c]
  PROVE  at'[c] >= Len(Stages(request'[c])) - 1 => Confirmed(c)'
<1>1. Len(Stages(request[c])) \in {3, 4, 5}
  BY DeletesHaveShape DEF DeleteShape
<1>2. at[c] \in Nat
  BY DEF ConfirmInv
<1>3. ASSUME at[c] >= Len(Stages(request[c])) - 1 PROVE Confirmed(c)'
  <2>1. Confirmed(c)
    BY <1>3 DEF ConfirmInv
  <2>2. at[c] # 0
    BY <1>1, <1>2, <1>3, LastButOne
  <2> QED BY <2>1, <2>2, StaysConfirmed
<1> QED BY <1>3

\* What the app does adds the id of a new row, or none.
LEMMA PerformedIds ==
  ASSUME NEW state, NEW roles, NEW body, DOMAIN state \subseteq Id,
         200 \in Statuses(state, roles, body)
  PROVE  DOMAIN Performed(state, body) \subseteq Id
<1>1. CASE body.op = "create"
  <2>1. ~(Spare \subseteq DOMAIN state)
    BY <1>1 DEF Statuses
  <2>2. New(state) \in Spare
    BY <2>1 DEF New
  <2>3. DOMAIN Performed(state, body) = DOMAIN state \cup {New(state)}
    BY <1>1 DEF Performed
  <2> QED BY <2>2, <2>3, SpareAssumption
<1>2. CASE body.op = "update"
  <2>1. DOMAIN Performed(state, body) = DOMAIN state
    BY <1>2 DEF Performed
  <2> QED BY <2>1
<1>3. CASE body.op = "delete"
  <2>1. Performed(state, body) = Without(state, Under(state, body.id))
    BY <1>3 DEF Performed
  <2>2. DOMAIN Performed(state, body) \subseteq DOMAIN state
    BY <2>1 DEF Without
  <2> QED BY <2>2
<1>4. CASE body.op \notin {"create", "update", "delete"}
  BY <1>4 DEF Performed
<1> QED BY <1>1, <1>2, <1>3, <1>4

\* A delete that passes its last stage but one has compared the name.
LEMMA ConfirmStage ==
  ASSUME EffectInv, ConfirmInv, Watch, NEW c \in Call, request[c].tool \in Deletes,
         RunStage(c), at'[c] = at[c] + 1, Verdict(c) = "ok"
  PROVE  /\ at'[c] < Len(Stages(request[c]))
         /\ at'[c] >= Len(Stages(request[c])) - 1 => Confirmed(c)'
<1> DEFINE r == request[c]
           n == Len(Stages(request[c]))
<1>1. DeleteShape(r)
  BY DeletesHaveShape
<1>2. /\ phase[c] = "run" /\ Stages(r)[at[c] + 1].do # "route"
      /\ UNCHANGED <<request, rows>>
  BY DEF RunStage, Stage
<1>3. n \in {3, 4, 5} /\ at[c] \in Nat /\ at[c] < n
  BY <1>1, <1>2 DEF ConfirmInv, DeleteShape
<1>4. Stages(r)[n].do = "route"
  BY <1>1, StageFields DEF DeleteShape, Last
<1> HIDE DEF n
<1>5. at[c] + 1 # n
  BY <1>2, <1>4
<1>6. at[c] + 1 < n
  BY <1>3, <1>5
<1>7. ASSUME at[c] + 1 >= n - 1 PROVE Confirmed(c)'
  <2>1. at[c] + 1 = n - 1
    BY <1>3, <1>6, <1>7
  <2>2. Stage(c) = Confirm(DeletedKind(r))
    BY <1>1, <2>1 DEF DeleteShape, Stage, n
  <2>3. Stage(c).do = "confirm" /\ Stage(c).kind = DeletedKind(r)
    BY <2>2, StageFields
  <2>4. Compared(rows, r, DeletedKind(r)) = "ok"
    BY <2>3 DEF Verdict
  <2>5. Snapshot(rows, standing', r).name = r.confirm
    BY <2>4, ComparedIsListed DEF ConfirmInv
  <2>6. Snapshot(rows, standing', r) \in saw'[c]
    BY <1>2, SeenNow
  <2> QED BY <1>2, <2>5, <2>6 DEF Confirmed
<1> QED BY <1>6, <1>7 DEF n

LEMMA ConfirmStep == EffectInv /\ ConfirmInv /\ [Next]_vars => ConfirmInv'
<1> SUFFICES ASSUME EffectInv, ConfirmInv, [Next]_vars PROVE ConfirmInv'
  OBVIOUS
<1> USE DEF Answer, Idle, Sent
<1> DEFINE Kept(c) == request[c].tool \in Deletes =>
             /\ phase'[c] \in {"run", "count"} => at'[c] < Len(Stages(request[c]))
             /\ route'[c] # Idle => at'[c] = Len(Stages(request[c]))
             /\ at'[c] >= Len(Stages(request[c])) - 1 => Confirmed(c)'
<1>1. ASSUME NEW c \in Call, RunStage(c), Watch PROVE ConfirmInv'
  <2>1. /\ phase[c] = "run" /\ UNCHANGED <<rows, request, route>>
        /\ at' = [at EXCEPT ![c] = IF Verdict(c) = "ok" THEN @ + 1 ELSE @]
        /\ \/ UNCHANGED phase
           \/ phase' = [phase EXCEPT ![c] = "count"]
           \/ phase' = [phase EXCEPT ![c] = "done"]
    BY <1>1 DEF RunStage
  <2>2. route[c] = Idle
    BY <2>1 DEF EffectInv
  <2>3. at' \in [Call -> Nat]
    BY <2>1 DEF ConfirmInv
  <2>4. ASSUME NEW d \in Call, d # c PROVE Kept(d)
    <3>1. at'[d] = at[d] /\ phase'[d] = phase[d] /\ route'[d] = route[d]
      BY <2>1, <2>4 DEF ConfirmInv, EffectInv
    <3> QED BY <1>1, <2>1, <3>1, OthersStay DEF ConfirmInv
  <2>5. CASE Verdict(c) = "ok"
    <3>1. at'[c] = at[c] + 1
      BY <2>1, <2>5 DEF ConfirmInv
    <3>2. Kept(c)
      BY <1>1, <2>1, <2>2, <2>5, <3>1, ConfirmStage
    <3> QED BY <2>1, <2>3, <2>4, <3>2 DEF ConfirmInv
  <2>6. CASE Verdict(c) # "ok"
    <3>1. at'[c] = at[c]
      BY <2>1, <2>6 DEF ConfirmInv
    <3>2. Kept(c)
      BY <1>1, <2>1, <2>2, <3>1, OthersStay DEF ConfirmInv
    <3> QED BY <2>1, <2>3, <2>4, <3>2 DEF ConfirmInv
  <2> QED BY <2>5, <2>6
<1>2. ASSUME NEW c \in Call, Watch, UNCHANGED <<rows, request, at, route>>,
             \E code : Answer(c, code)
      PROVE  ConfirmInv'
  <2>1. ASSUME NEW d \in Call PROVE Kept(d)
    <3>1. at'[d] = at[d] /\ phase'[d] \in {phase[d], "done"} /\ route'[d] = route[d]
      BY <1>2 DEF EffectInv
    <3> QED BY <1>2, <3>1, OthersStay DEF ConfirmInv
  <2> QED BY <1>2, <2>1 DEF ConfirmInv
<1>3. ASSUME NEW c \in Call, Post(c), Watch PROVE ConfirmInv'
  <2>1. /\ phase[c] = "run" /\ Stages(request[c])[at[c] + 1].do = "route"
        /\ UNCHANGED <<rows, request>>
        /\ at' = [at EXCEPT ![c] = @ + 1]
        /\ \/ route' = [route EXCEPT ![c] = Sent] /\ phase' = [phase EXCEPT ![c] = "wait"]
           \/ route' = route /\ phase' = [phase EXCEPT ![c] = "done"]
    BY <1>3 DEF Post, Stage
  <2>2. route[c] = Idle
    BY <2>1 DEF EffectInv
  <2>3. at' \in [Call -> Nat] /\ at'[c] = at[c] + 1 /\ at[c] \in Nat
    BY <2>1 DEF ConfirmInv
  <2>4. ASSUME NEW d \in Call, d # c PROVE Kept(d)
    <3>1. at'[d] = at[d] /\ phase'[d] = phase[d] /\ route'[d] = route[d]
      BY <2>1, <2>4 DEF ConfirmInv, EffectInv
    <3> QED BY <1>3, <2>1, <3>1, OthersStay DEF ConfirmInv
  <2>5. ASSUME request[c].tool \in Deletes PROVE Kept(c)
    <3> DEFINE n == Len(Stages(request[c]))
    <3>1. /\ n \in {3, 4, 5} /\ at[c] < n
          /\ \A i \in 1..(n - 1) : Stages(request[c])[i].do # "route"
      BY <2>1, <2>5, DeletesHaveShape DEF ConfirmInv, DeleteShape
    <3> HIDE DEF n
    <3>2. at[c] + 1 = n
      BY <2>1, <2>3, <3>1
    <3>3. at[c] # 0 /\ at[c] >= n - 1
      BY <2>3, <3>1, <3>2
    <3>4. Confirmed(c)
      BY <2>5, <3>3 DEF ConfirmInv, n
    <3>5. Confirmed(c)'
      BY <1>3, <2>1, <3>3, <3>4, StaysConfirmed
    <3>6. phase'[c] \in {"wait", "done"}
      BY <2>1 DEF EffectInv
    <3> QED BY <2>3, <3>2, <3>5, <3>6 DEF n
  <2> QED BY <2>1, <2>3, <2>4, <2>5 DEF ConfirmInv
<1>4. ASSUME NEW c \in Call, Handle(c), Watch PROVE ConfirmInv'
  <2>1. route[c] = Sent /\ UNCHANGED <<request, phase, at>>
    BY <1>4 DEF Handle, callVars
  <2>2. PICK status \in Statuses(rows, standing, Last(request[c]).body) :
          /\ route' = [route EXCEPT ![c] = status]
          /\ status = 200 => rows' = Performed(rows, Last(request[c]).body)
          /\ status # 200 => rows' = rows
    BY <1>4 DEF Handle, Last
  <2>3. DOMAIN rows' \subseteq Id
    BY <2>2, PerformedIds DEF ConfirmInv
  <2>4. ASSUME NEW d \in Call PROVE Kept(d)
    <3>1. at'[d] = at[d] /\ phase'[d] = phase[d] /\ (route'[d] # Idle => route[d] # Idle)
      BY <2>1, <2>2 DEF EffectInv
    <3> QED BY <1>4, <2>1, <3>1, OthersStay DEF ConfirmInv
  <2> QED BY <2>1, <2>3, <2>4 DEF ConfirmInv
<1>5. ASSUME Meddle, Watch PROVE ConfirmInv'
  <2>1. UNCHANGED <<request, phase, at, route>>
    BY <1>5 DEF Meddle, callVars
  <2>2. DOMAIN rows' \subseteq Id
    BY <1>5 DEF Meddle, ConfirmInv, Without
  <2>3. ASSUME NEW d \in Call PROVE Kept(d)
    BY <1>5, <2>1, OthersStay DEF ConfirmInv
  <2> QED BY <2>1, <2>2, <2>3 DEF ConfirmInv
<1>6. ASSUME UNCHANGED vars PROVE ConfirmInv'
  BY <1>6 DEF vars, callVars, ConfirmInv, Confirmed
<1>7. ASSUME NEW c \in Call, QueryFails(c) \/ cascadeWarning(c) \/ Receive(c) \/ GiveUp(c), Watch
      PROVE  ConfirmInv'
  <2>1. UNCHANGED <<rows, request, at, route>> /\ \E code : Answer(c, code)
    BY <1>7 DEF QueryFails, cascadeWarning, Receive, GiveUp
  <2> QED BY <1>2, <1>7, <2>1
<1> QED BY <1>1, <1>3, <1>4, <1>5, <1>6, <1>7 DEF Next, CallStep

\* A delete happens only after its row bore the confirmed name while the call ran,
\* whatever other users rename, move or delete in between (FindByID and
\* FindReferenceConfirmName against what the listing tools report).
THEOREM DeletesAreConfirmed == Spec => DeletedAsConfirmed
<1>1. EffectInv /\ ConfirmInv /\ [Next]_vars
        => [\A c \in Call : acts'[c] # acts[c] /\ LastBody(c).op = "delete"
                              => \E s \in saw[c] : s.name = request[c].confirm]_vars
  <2> SUFFICES ASSUME EffectInv, ConfirmInv, Next, NEW c \in Call,
                      acts'[c] # acts[c], LastBody(c).op = "delete"
               PROVE  \E s \in saw[c] : s.name = request[c].confirm
    OBVIOUS
  <2>1. \E d \in Call : Handle(d)
    BY DEF Next, CallStep, RunStage, QueryFails, cascadeWarning, Post, Receive, GiveUp, Meddle
  <2>2. Handle(c)
    <3>1. PICK d \in Call : Handle(d)
      BY <2>1
    <3>2. acts' = acts \/ acts' = [acts EXCEPT ![d] = @ + 1]
      BY <3>1 DEF Handle
    <3>3. d = c
      BY <3>2 DEF EffectInv
    <3> QED BY <3>1, <3>3
  <2>3. request[c].tool \in Deletes
    <3>1. PICK op : EndsWith(request[c], op) /\ (op = "delete" <=> request[c].tool \in Deletes)
      BY ToolsEndWithRoute DEF EffectInv
    <3> QED BY <3>1 DEF EndsWith, LastBody, Last
  <2>4. Len(Stages(request[c])) \in {3, 4, 5}
    BY <2>3, DeletesHaveShape DEF DeleteShape
  <2>5. at[c] = Len(Stages(request[c]))
    BY <2>2, <2>3 DEF Handle, Idle, Sent, ConfirmInv
  <2> QED BY <2>3, <2>4, <2>5 DEF ConfirmInv, Confirmed
<1>2. Spec => [](EffectInv /\ ConfirmInv)
  BY EffectInit, EffectStep, ConfirmInit, ConfirmStep, PTL DEF Spec
<1> QED BY <1>1, <1>2, PTL DEF Spec, DeletedAsConfirmed
-----------------------------------------------------------------------------
(* Who is told of a mismatch.                                              *)

\* The deletes that check a role before the name.
GatedDeletes == Deletes \ {"delete_table_reference"}

\* Their stages from the last gate on; a project is named, any other row's project
\* is resolved first.
GatedShape(r) ==
  LET n == Len(Stages(r))
  IN  /\ n \in {4, 5}
      /\ n = 4 => r.tool = "delete_project" /\ DeletedKind(r) = "project"
      /\ n = 4 => Stages(r)[1].do = "check"
      /\ n = 5 => Stages(r)[1].do = "check" /\ Stages(r)[2] = Resolve(DeletedKind(r))
      /\ Stages(r)[n - 2] = Gate(Role(Last(r).body))

LEMMA ResolvedGatedShape ==
  ASSUME NEW r, NEW ok, NEW kind, NEW b, DeletedKind(r) = kind, Role(b) = "edit",
         Stages(r) = <<Check(ok)>> \o <<Resolve(kind), Gate("edit")>>
                     \o <<Confirm(kind), Route(b)>>
  PROVE  GatedShape(r)
<1>1. /\ Len(Stages(r)) = 5 /\ Stages(r)[1] = Check(ok) /\ Stages(r)[2] = Resolve(kind)
      /\ Stages(r)[3] = Gate("edit") /\ Stages(r)[5] = Route(b)
  BY JoinedFive
<1>2. Last(r).body = b /\ Stages(r)[1].do = "check"
  BY <1>1, StageFields DEF Last
<1> QED BY <1>1, <1>2 DEF GatedShape

LEMMA GatedDeletesHaveShape ==
  ASSUME NEW r, r.tool \in GatedDeletes
  PROVE  GatedShape(r)
<1>1. CASE r.tool = "delete_project"
  <2> DEFINE ok == Check(r.confirm # Empty)
             b == DeleteProject(r)
  <2>1. /\ Stages(r) = <<ok, Gate("owner"), Confirm("project"), Route(b)>>
        /\ DeletedKind(r) = "project"
    BY <1>1 DEF Stages, deleteProjectWithFns, prodProjectLifecycleFns, DeletedKind
  <2>2. ok.do = "check" /\ Route(b).body = b
    BY StageFields
  <2>3. Role(b) = "owner"
    BY DEF DeleteProject, Body, Role
  <2> HIDE DEF ok, b
  <2>4. Len(Stages(r)) = 4 /\ Last(r).body = b
    BY <2>1, <2>2 DEF Last
  <2> QED BY <1>1, <2>1, <2>2, <2>3, <2>4 DEF GatedShape
<1>2. CASE r.tool = "delete_folder"
  <2>1. Role(DeleteFolder(r)) = "edit"
    BY DEF DeleteFolder, Body, Role
  <2> QED BY <1>2, <2>1, ResolvedGatedShape
          DEF Stages, deleteFolderWithFns, authorizeExistingFolder, prodFolderLifecycleFns,
              DeletedKind
<1>3. CASE r.tool = "delete_whiteboard"
  <2>1. Role(DeleteWhiteboard(r)) = "edit"
    BY DEF DeleteWhiteboard, Body, Role
  <2> QED BY <1>3, <2>1, ResolvedGatedShape
          DEF Stages, deleteWhiteboardWithFns, authorizeExistingWhiteboard,
              prodWhiteboardLifecycleFns, DeletedKind
<1>4. CASE r.tool = "delete_canvas_board"
  <2>1. Role(DeleteCanvasBoard(r)) = "edit"
    BY DEF DeleteCanvasBoard, Body, Role
  <2> QED BY <1>4, <2>1, ResolvedGatedShape
          DEF Stages, deleteCanvasBoardWithFns, authorizeExistingCanvasBoard,
              prodCanvasBoardLifecycleFns, DeletedKind
<1> QED BY <1>1, <1>2, <1>3, <1>4 DEF GatedDeletes, Deletes

\* A tool that deletes nothing compares no name.
LEMMA NothingConfirmed ==
  ASSUME NEW r, r.tool \in Tool \ Deletes, NEW i \in 1..Len(Stages(r))
  PROVE  Stages(r)[i].do # "confirm"
<1> DEFINE Apart(s) == s.do # "confirm"
<1> SUFFICES Apart(Stages(r)[i])
  OBVIOUS
<1>1. /\ \A ok : Apart(Check(ok))
      /\ \A k : Apart(Resolve(k)) /\ Apart(Gate(k))
      /\ \A b : Apart(Route(b))
  BY StageFields
<1> HIDE DEF Apart
<1>2. ASSUME NEW a, Apart(a), Stages(r) = <<a>> PROVE Apart(Stages(r)[i])
  BY <1>2
<1>3. ASSUME NEW a, NEW b, Apart(a), Apart(b), Stages(r) = <<a, b>> PROVE Apart(Stages(r)[i])
  BY <1>3
<1>4. ASSUME NEW a, NEW b, NEW c, Apart(a), Apart(b), Apart(c), Stages(r) = <<a, b, c>>
      PROVE  Apart(Stages(r)[i])
  BY <1>4
<1>5. ASSUME NEW a, NEW b, NEW c, NEW d, Apart(a), Apart(b), Apart(c), Apart(d),
             \/ Stages(r) = <<a, b, c, d>> \/ Stages(r) = <<a>> \o <<b, c>> \o <<d>>
      PROVE  Apart(Stages(r)[i])
  <2>1. /\ Len(Stages(r)) = 4 /\ Stages(r)[1] = a /\ Stages(r)[2] = b
        /\ Stages(r)[3] = c /\ Stages(r)[4] = d
    BY <1>5, JoinedFour
  <2> QED BY <1>5, <2>1
<1>6. ASSUME NEW a, NEW b, NEW c, NEW d, NEW e, Apart(a), Apart(b), Apart(c), Apart(d), Apart(e),
             Stages(r) = <<a, b>> \o <<c, d>> \o <<e>>
      PROVE  Apart(Stages(r)[i])
  <2>1. /\ Len(Stages(r)) = 5 /\ Stages(r)[1] = a /\ Stages(r)[2] = b
        /\ Stages(r)[3] = c /\ Stages(r)[4] = d /\ Stages(r)[5] = e
    BY <1>6, JoinedFive
  <2> QED BY <1>6, <2>1
<1>7. CASE r.tool = "create_project"
  BY <1>1, <1>3, <1>7 DEF Stages, createProjectWithFns
<1>8. CASE r.tool = "update_project"
  BY <1>1, <1>5, <1>8 DEF Stages, updateProjectWithFns
<1>9. CASE r.tool = "create_folder"
  BY <1>1, <1>4, <1>9 DEF Stages, createFolderWithFns
<1>10. CASE r.tool = "update_folder"
  BY <1>1, <1>5, <1>10 DEF Stages, updateFolderWithFns, authorizeExistingFolder
<1>11. CASE r.tool = "create_whiteboard"
  BY <1>1, <1>4, <1>11 DEF Stages, createWhiteboardWithFns
<1>12. CASE r.tool = "update_whiteboard"
  BY <1>1, <1>6, <1>12 DEF Stages, updateWhiteboardWithFns, authorizeExistingWhiteboard
<1>13. CASE r.tool = "create_canvas_board"
  BY <1>1, <1>4, <1>13 DEF Stages, createCanvasBoardWithFns
<1>14. CASE r.tool = "update_canvas_board"
  BY <1>1, <1>6, <1>14 DEF Stages, updateCanvasBoardWithFns, authorizeExistingCanvasBoard
<1>15. CASE r.tool = "create_table_reference"
  BY <1>1, <1>3, <1>15 DEF Stages, createTableReferenceWithFns
<1>16. CASE r.tool = "update_table_reference"
  BY <1>1, <1>4, <1>16 DEF Stages, updateTableReferenceWithFns
<1>17. CASE r.tool = "list_table_references"
  BY <1>1, <1>2, <1>17 DEF Stages, listTableReferencesWithFns
<1> QED BY <1>7, <1>8, <1>9, <1>10, <1>11, <1>12, <1>13, <1>14, <1>15, <1>16, <1>17
        DEF Tool, Deletes

\* Rows stay what and where they are; an id that comes back is a spare one.
Placed(state) ==
  /\ DOMAIN state \subseteq Id
  /\ \A id \in DOMAIN state : SoundRow(id, state[id])

SamePlaces(state, next) ==
  \A id \in DOMAIN next \ Spare :
    /\ id \in DOMAIN state
    /\ next[id].kind = state[id].kind /\ next[id].project = state[id].project

LEMMA PerformedPlaces ==
  ASSUME NEW state, NEW roles, NEW body, Placed(state), 200 \in Statuses(state, roles, body),
         body.op = "update" => KeepsPlace(body), body.kind \in Kind \cup {"reference"}
  PROVE  Placed(Performed(state, body)) /\ SamePlaces(state, Performed(state, body))
<1> DEFINE next == Performed(state, body)
<1>1. CASE body.op = "create"
  <2>1. Exists(state, body) /\ ~(Spare \subseteq DOMAIN state)
    BY <1>1 DEF Statuses
  <2>2. New(state) \in Spare /\ New(state) \notin DOMAIN state
    BY <2>1 DEF New
  <2>3. next = [k \in DOMAIN state \cup {New(state)} |->
                  IF k \in DOMAIN state THEN state[k] ELSE NewRow(state, body, k)]
    BY <1>1 DEF Performed
  <2>4. SoundRow(New(state), NewRow(state, body, New(state)))
    <3> DEFINE row == NewRow(state, body, New(state))
    <3>1. /\ {"kind", "project"} \subseteq DOMAIN row
          /\ row.kind = IF body.kind = "reference" THEN "table" ELSE body.kind
          /\ row.kind \in Kind
          /\ row.project = IF body.kind = "project" THEN New(state)
                           ELSE state[Target(body)].project
      BY DEF NewRow, Kind
    <3> SUFFICES SoundRow(New(state), row)
      OBVIOUS
    <3> HIDE DEF row
    <3>2. CASE body.kind = "project"
      BY <2>2, <3>1, <3>2, SpareAssumption DEF SoundRow
    <3>3. CASE body.kind # "project"
      <4>1. Target(body) \in DOMAIN state
        BY <2>1, <3>3 DEF Exists, HangsFree, IsA
      <4>2. state[Target(body)].project \in Id
        BY <4>1 DEF Placed, SoundRow
      <4> QED BY <3>1, <3>3, <4>2 DEF SoundRow
    <3> QED BY <3>2, <3>3
  <2>5. DOMAIN next = DOMAIN state \cup {New(state)}
    BY <2>3
  <2>6. \A id \in DOMAIN state : next[id] = state[id]
    BY <2>3
  <2>7. next[New(state)] = NewRow(state, body, New(state))
    BY <2>2, <2>3
  <2> HIDE DEF next
  <2>8. Placed(next)
    BY <2>2, <2>4, <2>5, <2>6, <2>7, SpareAssumption DEF Placed
  <2>9. SamePlaces(state, next)
    BY <2>2, <2>5, <2>6 DEF SamePlaces
  <2> QED BY <2>8, <2>9 DEF next
<1>2. CASE body.op = "update"
  <2> DEFINE changed(row) == [k \in DOMAIN row |-> IF k \in DOMAIN body.f THEN body.f[k] ELSE row[k]]
  <2>1. next = [state EXCEPT ![body.id] = changed(@)]
    BY <1>2 DEF Performed
  <2>2. \A row : {"kind", "project"} \subseteq DOMAIN row =>
          /\ DOMAIN changed(row) = DOMAIN row
          /\ changed(row).kind = row.kind /\ changed(row).project = row.project
    BY <1>2 DEF KeepsPlace
  <2> HIDE DEF changed
  <2>3. /\ DOMAIN next = DOMAIN state
        /\ \A id \in DOMAIN state : next[id] = IF id = body.id THEN changed(state[id]) ELSE state[id]
    BY <2>1
  <2> HIDE DEF next
  <2>4. ASSUME NEW id \in DOMAIN state
        PROVE  /\ DOMAIN next[id] = DOMAIN state[id]
               /\ next[id].kind = state[id].kind /\ next[id].project = state[id].project
    <3>1. {"kind", "project"} \subseteq DOMAIN state[id]
      BY DEF Placed, SoundRow
    <3> QED BY <2>2, <2>3, <3>1
  <2>5. Placed(next)
    BY <2>3, <2>4 DEF Placed, SoundRow
  <2>6. SamePlaces(state, next)
    BY <2>3, <2>4 DEF SamePlaces
  <2> QED BY <2>5, <2>6 DEF next
<1>3. CASE body.op = "delete"
  BY <1>3 DEF Performed, Without, Placed, SamePlaces
<1>4. CASE body.op \notin {"create", "update", "delete"}
  BY <1>4 DEF Performed, Placed, SamePlaces
<1> QED BY <1>1, <1>2, <1>3, <1>4

LEMMA MeddledPlaces ==
  ASSUME Placed(rows), Meddle
  PROVE  Placed(rows') /\ SamePlaces(rows, rows')
<1>1. ASSUME NEW id \in DOMAIN rows, NEW n, rows' = [rows EXCEPT ![id].name = n]
      PROVE  Placed(rows') /\ SamePlaces(rows, rows')
  BY <1>1 DEF Placed, SamePlaces, SoundRow
<1>2. ASSUME NEW id \in DOMAIN rows, NEW board, rows' = [rows EXCEPT ![id].above = board]
      PROVE  Placed(rows') /\ SamePlaces(rows, rows')
  BY <1>2 DEF Placed, SamePlaces, SoundRow
<1>3. ASSUME NEW ids, rows' = Without(rows, ids)
      PROVE  Placed(rows') /\ SamePlaces(rows, rows')
  BY <1>3 DEF Without, Placed, SamePlaces
<1>4. ASSUME rows' = rows PROVE Placed(rows') /\ SamePlaces(rows, rows')
  BY <1>4 DEF SamePlaces
<1> QED BY <1>1, <1>2, <1>3, <1>4 DEF Meddle

\* Some time of c's run its caller had the role that the delete asks for.
Entitled(c) == \E s \in saw[c] : Role(LastBody(c)) \in s.roles

Missing(c) == ~IsA(rows, request[c].id, DeletedKind(request[c]))

\* A gated delete: the project that it asks about is its row's, if the row is there; past
\* the gate its caller was entitled, or the row has gone and does not come back.
GateKept(c) ==
  LET n == Len(Stages(request[c]))
  IN  /\ at[c] < 2 => resolved[c] = None
      /\ n = 5 /\ at[c] = 2 =>
           /\ resolved[c] # None
           /\ ~Missing(c) => rows[request[c].id].project = resolved[c]
      /\ at[c] >= n - 2 => Entitled(c) \/ Missing(c)
      /\ phase[c] = "count" => at[c] = n - 2 /\ Entitled(c)
      /\ Mismatched(c) => Entitled(c)

GateInv ==
  /\ Placed(rows)
  /\ DOMAIN resolved = Call
  /\ \A c \in Call : request[c].id \notin Spare
  /\ \A c \in Call : request[c].tool \in GatedDeletes => GateKept(c)

\* Where the gate and the comparison may be.
LEMMA PastTheFirst ==
  \A n \in {4, 5} : /\ ~(0 >= n - 2)
                    /\ \A k \in Nat : k >= n - 2 \/ k = n - 2 => k # 0
OBVIOUS

LEMMA GateInit == Init => GateInv
<1> SUFFICES ASSUME Init PROVE GateInv
  OBVIOUS
<1>1. Placed(rows) /\ \A c \in Call : request[c].id \notin Spare
  BY ScenarioAssumption DEF Init, Placed
<1>2. DOMAIN resolved = Call /\ \A c \in Call :
        at[c] = 0 /\ resolved[c] = None /\ phase[c] = "run" /\ answer[c] = "none"
  BY DEF Init
<1>3. ASSUME NEW c \in Call, request[c].tool \in GatedDeletes PROVE GateKept(c)
  <2>1. Len(Stages(request[c])) \in {4, 5}
    BY <1>3, GatedDeletesHaveShape DEF GatedShape
  <2>2. ~(0 >= Len(Stages(request[c])) - 2)
    BY <2>1, PastTheFirst
  <2> QED BY <1>2, <2>2 DEF GateKept, Mismatched
<1> QED BY <1>1, <1>2, <1>3 DEF GateInv

LEMMA StaysEntitled ==
  ASSUME Watch, request' = request, NEW c \in Call, at[c] # 0, Entitled(c)
  PROVE  Entitled(c)'
BY DEF Watch, Entitled, LastBody

\* A row of the kind that is to be deleted, which was not there, is not there now.
LEMMA StaysMissing ==
  ASSUME SamePlaces(rows, rows'), request' = request, NEW c \in Call,
         request[c].id \notin Spare, request[c].tool \in GatedDeletes
  PROVE  /\ Missing(c) => Missing(c)'
         /\ ~Missing(c)' => rows'[request[c].id].project = rows[request[c].id].project
<1>1. DeletedKind(request[c]) # "reference"
  BY DEF GatedDeletes, Deletes, DeletedKind
<1> QED BY <1>1 DEF SamePlaces, Missing, IsA

\* Where a call compares the name.
LEMMA AtConfirm ==
  ASSUME NEW c \in Call, request[c].tool \in GatedDeletes, at[c] \in Nat,
         at[c] < Len(Stages(request[c]))
  PROVE  /\ Stage(c).do = "confirm" <=> at[c] = Len(Stages(request[c])) - 2
         /\ Stage(c).do = "resolve" <=> Len(Stages(request[c])) = 5 /\ at[c] = 1
         /\ Stage(c).do = "route" <=> at[c] = Len(Stages(request[c])) - 1
         /\ at[c] = Len(Stages(request[c])) - 3 => Stage(c) = Gate(Role(LastBody(c)))
         /\ at[c] = Len(Stages(request[c])) - 2 => Stage(c) = Confirm(DeletedKind(request[c]))
<1> DEFINE r == request[c]
           n == Len(Stages(r))
<1>1. GatedShape(r) /\ DeleteShape(r)
  BY GatedDeletesHaveShape, DeletesHaveShape DEF GatedDeletes
<1>2. /\ n \in {4, 5} /\ Stages(r)[1].do = "check"
      /\ n = 5 => Stages(r)[2] = Resolve(DeletedKind(r)) /\ Stages(r)[2].do = "resolve"
      /\ Stages(r)[n - 2] = Gate(Role(LastBody(c))) /\ Stages(r)[n - 2].do = "gate"
      /\ Stages(r)[n - 1] = Confirm(DeletedKind(r)) /\ Stages(r)[n - 1].do = "confirm"
      /\ Stages(r)[n].do = "route"
  BY <1>1, StageFields DEF GatedShape, DeleteShape, Last, LastBody
<1> HIDE DEF n
<1>3. Stage(c) = Stages(r)[at[c] + 1]
  BY DEF Stage
<1>4. CASE n = 4
  <2>1. at[c] \in {0, 1, 2, 3}
    BY <1>4 DEF n
  <2> QED BY <1>2, <1>3, <1>4, <2>1 DEF n
<1>5. CASE n = 5
  <2>1. at[c] \in {0, 1, 2, 3, 4}
    BY <1>5 DEF n
  <2> QED BY <1>2, <1>3, <1>5, <2>1 DEF n
<1> QED BY <1>2, <1>4, <1>5

\* A call that takes no step of its own.
LEMMA GateStays ==
  ASSUME GateInv, Watch, SamePlaces(rows, rows'), request' = request,
         NEW c \in Call, request[c].tool \in GatedDeletes, at[c] \in Nat,
         at'[c] = at[c], phase'[c] = phase[c], answer'[c] = answer[c],
         resolved'[c] = resolved[c]
  PROVE  GateKept(c)'
<1>1. Len(Stages(request[c])) \in {4, 5} /\ GateKept(c) /\ request[c].id \notin Spare
  BY GatedDeletesHaveShape DEF GateInv, GatedShape
<1>2. Mismatched(c)' = Mismatched(c)
  BY DEF Mismatched, Stage
<1>3. Mismatched(c) => at[c] # 0
  <2> SUFFICES ASSUME Mismatched(c) PROVE at[c] # 0
    OBVIOUS
  <2>1. at[c] = Len(Stages(request[c])) - 2
    BY AtConfirm DEF Mismatched
  <2> QED BY <1>1, <2>1, PastTheFirst
<1>4. /\ at[c] # 0 /\ Entitled(c) => Entitled(c)'
      /\ Missing(c) => Missing(c)'
      /\ ~Missing(c)' => rows'[request[c].id].project = rows[request[c].id].project
  BY <1>1, StaysEntitled, StaysMissing
<1> DEFINE n == Len(Stages(request[c]))
<1>5. (at[c] >= n - 2 => at[c] # 0) /\ (at[c] = n - 2 => at[c] # 0)
  BY <1>1, PastTheFirst
<1>6. n' = n
  OBVIOUS
<1> QED BY <1>1, <1>2, <1>3, <1>4, <1>5, <1>6 DEF GateKept

\* Passing the gate.
LEMMA GatePassed ==
  ASSUME GateInv, Watch, NEW c \in Call, request[c].tool \in GatedDeletes, at[c] \in Nat,
         RunStage(c), Verdict(c) = "ok", at[c] = Len(Stages(request[c])) - 3
  PROVE  Entitled(c)' \/ Missing(c)'
<1> DEFINE r == request[c]
           kind == DeletedKind(r)
           body == LastBody(c)
           project == IF resolved[c] = None THEN NamedProject(r) ELSE resolved[c]
<1> SUFFICES ASSUME ~Missing(c) PROVE Entitled(c)'
  BY DEF RunStage, Missing
<1>1. /\ phase[c] = "run" /\ UNCHANGED <<rows, standing, request>>
  BY DEF RunStage
<1>2. GatedShape(r) /\ DeleteShape(r) /\ GateKept(c)
  BY GatedDeletesHaveShape, DeletesHaveShape DEF GatedDeletes, GateInv
<1>3. Len(Stages(r)) \in {4, 5} /\ at[c] < Len(Stages(r))
  BY <1>2 DEF GatedShape
<1>4. Stage(c) = Gate(Role(body))
  BY <1>3, AtConfirm
<1>5. Gated(rows, standing, Role(body), project) = "ok"
  <2>1. Stage(c).do = "gate" /\ Stage(c).role = Role(body)
    BY <1>4 DEF Gate
  <2> QED BY <2>1 DEF Verdict
<1>6. project \in DOMAIN rows /\ Passes(Role(body), standing[project])
  BY <1>5 DEF Gated, AssertAccess
<1>7. body = Body("delete", kind, r.id, <<>>, "NOT_FOUND")
  BY <1>2, StageFields DEF DeleteShape, LastBody, Last
<1>8. body.op = "delete" /\ body.kind = kind /\ body.id = r.id
  BY <1>7, BodyFields
<1>9. kind # "reference"
  BY DEF GatedDeletes, Deletes, DeletedKind
<1>10. r.id \in DOMAIN rows /\ rows[r.id].kind = kind /\ IsA(rows, r.id, kind)
  BY <1>9 DEF Missing, IsA
<1>11. rows[r.id].project = project
  <2>1. CASE Len(Stages(r)) = 4
    <3>1. r.tool = "delete_project" /\ kind = "project" /\ resolved[c] = None
      BY <1>2, <2>1 DEF GatedShape, GateKept
    <3>2. project = r.id
      BY <3>1 DEF NamedProject
    <3>3. rows[r.id].project = r.id
      BY <1>10, <3>1 DEF GateInv, Placed, SoundRow
    <3> QED BY <3>2, <3>3
  <2>2. CASE Len(Stages(r)) = 5
    <3>1. at[c] = 2
      BY <2>2
    <3> QED BY <1>2, <2>2, <3>1 DEF GateKept
  <2> QED BY <1>3, <2>1, <2>2
<1>12. Role(body) \in {"access", "edit", "admin", "owner"}
  BY DEF Role
<1> HIDE DEF project
<1>13. Role(body) \in RolesIn(rows, standing, rows[r.id].project)
  BY <1>6, <1>11, <1>12 DEF RolesIn
<1>14. r.id # None
  BY <1>10, SpareAssumption DEF GateInv, Placed
<1>15. Target(body) = r.id /\ TargetKind(body) = kind
  BY <1>8, DeleteTarget
<1>16. Exists(rows, body)
  BY <1>10, <1>15 DEF Exists
<1>17. Snapshot(rows, standing, r).roles = RolesIn(rows, standing, rows[r.id].project)
  BY <1>14, <1>15, <1>16 DEF Snapshot, LastBody
<1>18. Snapshot(rows, standing, r) \in saw'[c]
  BY <1>1, SeenNow
<1> QED BY <1>1, <1>13, <1>17, <1>18 DEF Entitled, LastBody

\* A stage of a gated delete.
LEMMA GateRuns ==
  ASSUME EffectInv, ConfirmInv, GateInv, Watch, NEW c \in Call,
         request[c].tool \in GatedDeletes, RunStage(c)
  PROVE  GateKept(c)'
<1> DEFINE r == request[c]
           n == Len(Stages(r))
<1>1. /\ phase[c] = "run" /\ Stage(c).do # "route" /\ UNCHANGED <<rows, request>>
      /\ at' = [at EXCEPT ![c] = IF Verdict(c) = "ok" THEN @ + 1 ELSE @]
      /\ resolved' = [resolved EXCEPT ![c] =
           IF Verdict(c) = "ok" /\ Stage(c).do = "resolve" THEN rows[r.id].project ELSE @]
  BY DEF RunStage
<1>2. n \in {4, 5} /\ GateKept(c) /\ r.tool \in Deletes
  BY GatedDeletesHaveShape DEF GateInv, GatedShape, GatedDeletes
<1>3. at[c] \in Nat /\ at[c] < n /\ answer[c] = "none"
  BY <1>1, <1>2 DEF ConfirmInv, EffectInv
<1>4. Missing(c)' = Missing(c) /\ n' = n /\ DeletedKind(r) # "reference"
  BY <1>1 DEF Missing, GatedDeletes, Deletes, DeletedKind
<1>5. /\ Stage(c).do = "confirm" <=> at[c] = n - 2
      /\ Stage(c).do = "resolve" <=> n = 5 /\ at[c] = 1
      /\ at[c] = n - 2 => Stage(c) = Confirm(DeletedKind(r))
      /\ at[c] # n - 1
  BY <1>1, <1>3, AtConfirm
<1>6. at[c] # 0 /\ Entitled(c) => Entitled(c)'
  BY <1>1, StaysEntitled
<1>7. CASE Verdict(c) = "ok"
  <2>1. at'[c] = at[c] + 1 /\ phase'[c] = "run" /\ answer'[c] = "none"
    BY <1>1, <1>3, <1>7 DEF RunStage, ConfirmInv, EffectInv
  <2>2. ~Mismatched(c)'
    BY <2>1 DEF Mismatched
  <2>3. resolved'[c] = IF n = 5 /\ at[c] = 1 THEN rows[r.id].project ELSE resolved[c]
    BY <1>1, <1>5, <1>7 DEF GateInv
  <2>4. n = 5 /\ at[c] = 1 => rows[r.id].project # None
    <3> SUFFICES ASSUME n = 5, at[c] = 1 PROVE rows[r.id].project # None
      OBVIOUS
    <3>1. Stage(c).do = "resolve" /\ Stage(c).kind = DeletedKind(r)
      <4>1. Stage(c) = Resolve(DeletedKind(r))
        BY GatedDeletesHaveShape DEF Stage, GatedShape
      <4> QED BY <4>1 DEF Resolve
    <3>2. IsA(rows, r.id, DeletedKind(r))
      BY <1>7, <3>1 DEF Verdict
    <3> QED BY <3>2, SpareAssumption DEF IsA, GateInv, Placed, SoundRow
  <2>5. at[c] + 1 >= n - 2 => Entitled(c)' \/ Missing(c)'
    <3>1. CASE at[c] = n - 3
      BY <1>3, <1>7, <3>1, GatePassed
    <3>2. CASE at[c] >= n - 2
      <4>1. at[c] # 0
        BY <1>2, <1>3, <3>2, PastTheFirst
      <4> QED BY <1>2, <1>4, <1>6, <3>2, <4>1 DEF GateKept
    <3> HIDE DEF n
    <3> QED BY <1>2, <1>3, <3>1, <3>2
  <2>6. /\ at'[c] < 2 => resolved'[c] = None
        /\ n = 5 /\ at'[c] = 2 => /\ resolved'[c] # None
                                  /\ rows[r.id].project = resolved'[c]
    <3>1. at[c] < 2 => resolved[c] = None
      BY <1>2 DEF GateKept
    <3> HIDE DEF n
    <3> QED BY <1>3, <2>1, <2>3, <2>4, <3>1
  <2> HIDE DEF n
  <2> QED BY <1>1, <1>4, <2>1, <2>2, <2>5, <2>6 DEF GateKept, n
<1>8. CASE Verdict(c) # "ok"
  <2>1. at'[c] = at[c] /\ resolved'[c] = resolved[c]
    BY <1>1, <1>8 DEF ConfirmInv, GateInv
  <2>2. /\ phase'[c] = "count" => at[c] = n - 2 /\ Verdict(c) = "VALIDATION_ERROR"
        /\ Mismatched(c)' => at[c] = n - 2 /\ Verdict(c) = "VALIDATION_ERROR"
    <3> DEFINE counts == Stage(c) = Confirm("folder") /\ Verdict(c) = "VALIDATION_ERROR"
    <3>1. IF counts THEN phase' = [phase EXCEPT ![c] = "count"] /\ answer' = answer
          ELSE Answer(c, Verdict(c))
      BY <1>8 DEF RunStage
    <3>2. phase'[c] = "count" => Stage(c).do = "confirm" /\ Verdict(c) = "VALIDATION_ERROR"
      BY <3>1, StageFields DEF Answer, EffectInv
    <3>3. answer'[c] = "VALIDATION_ERROR" => Verdict(c) = "VALIDATION_ERROR"
      BY <1>3, <3>1 DEF Answer, EffectInv
    <3>4. Mismatched(c)' => answer'[c] = "VALIDATION_ERROR" /\ Stage(c).do = "confirm"
      BY <1>1, <2>1 DEF Mismatched, Stage
    <3> QED BY <1>5, <3>2, <3>3, <3>4
  <2>3. at[c] = n - 2 /\ Verdict(c) = "VALIDATION_ERROR" => Entitled(c)'
    <3> SUFFICES ASSUME at[c] = n - 2, Verdict(c) = "VALIDATION_ERROR" PROVE Entitled(c)'
      OBVIOUS
    <3>1. Stage(c).do = "confirm" /\ Stage(c).kind = DeletedKind(r)
      BY <1>5, StageFields
    <3>2. Compared(rows, r, DeletedKind(r)) = "VALIDATION_ERROR"
      BY <3>1 DEF Verdict
    <3>3. ~Missing(c)
      BY <1>4, <3>2 DEF Compared, FindByID, Missing
    <3>4. at[c] # 0 /\ at[c] >= n - 2
      <4> HIDE DEF n
      <4> QED BY <1>2, <1>3, PastTheFirst
    <3> QED BY <1>2, <1>6, <3>3, <3>4 DEF GateKept
  <2>4. at[c] >= n - 2 => Entitled(c)' \/ Missing(c)'
    <3> SUFFICES ASSUME at[c] >= n - 2 PROVE Entitled(c)' \/ Missing(c)'
      OBVIOUS
    <3>1. at[c] # 0
      BY <1>2, <1>3, PastTheFirst
    <3> QED BY <1>2, <1>4, <1>6, <3>1 DEF GateKept
  <2>5. /\ at'[c] < 2 => resolved'[c] = None
        /\ n = 5 /\ at'[c] = 2 => /\ resolved'[c] # None
                                  /\ ~Missing(c)' => rows'[r.id].project = resolved'[c]
    BY <1>1, <1>2, <1>4, <2>1 DEF GateKept
  <2> HIDE DEF n
  <2> QED BY <1>1, <1>4, <2>1, <2>2, <2>3, <2>4, <2>5 DEF GateKept, n
<1> QED BY <1>7, <1>8

\* A gated delete past its comparison: what it answers is not a mismatch.
LEMMA GateAnswers ==
  ASSUME ConfirmInv, GateInv, Watch, rows' = rows, request' = request,
         NEW c \in Call, request[c].tool \in GatedDeletes,
         resolved'[c] = resolved[c], at[c] # 0 \/ ~(at'[c] >= Len(Stages(request[c])) - 2),
         \/ at'[c] = at[c]
         \/ at[c] = Len(Stages(request[c])) - 1 /\ at'[c] = at[c] + 1,
         phase'[c] # "count",
         Mismatched(c)' => at[c] # 0 /\ Entitled(c)
  PROVE  GateKept(c)'
<1> DEFINE n == Len(Stages(request[c]))
<1>1. n \in {4, 5} /\ at[c] \in Nat /\ GateKept(c)
  BY GatedDeletesHaveShape DEF GateInv, GatedShape, ConfirmInv
<1>2. at[c] # 0 /\ Entitled(c) => Entitled(c)'
  BY StaysEntitled
<1>3. Missing(c)' = Missing(c) /\ n' = n
  BY DEF Missing
<1>4. /\ at[c] < 2 => resolved[c] = None
      /\ n = 5 /\ at[c] = 2 =>
           /\ resolved[c] # None
           /\ ~Missing(c) => rows[request[c].id].project = resolved[c]
      /\ at[c] >= n - 2 => Entitled(c) \/ Missing(c)
  BY <1>1 DEF GateKept
<1>5. /\ at'[c] < 2 => at[c] < 2
      /\ n = 5 /\ at'[c] = 2 => at[c] = 2
      /\ at'[c] >= n - 2 => at[c] >= n - 2 /\ at[c] # 0
  <2> HIDE DEF n
  <2>1. CASE at'[c] = at[c]
    BY <1>1, <2>1, PastTheFirst
  <2>2. CASE at[c] = n - 1 /\ at'[c] = at[c] + 1
    BY <1>1, <2>2
  <2> QED BY <2>1, <2>2 DEF n
<1> QED BY <1>2, <1>3, <1>4, <1>5 DEF GateKept

\* Where the rows are after a step.
LEMMA NextPlaces ==
  ASSUME EffectInv, GateInv, [Next]_vars
  PROVE  Placed(rows') /\ SamePlaces(rows, rows')
<1>1. CASE rows' = rows
  BY <1>1 DEF GateInv, SamePlaces
<1>2. ASSUME NEW c \in Call, Handle(c), rows' # rows PROVE Placed(rows') /\ SamePlaces(rows, rows')
  <2> DEFINE body == Last(request[c]).body
  <2>1. 200 \in Statuses(rows, standing, body) /\ rows' = Performed(rows, body)
    BY <1>2 DEF Handle, Last
  <2>2. body.op = "update" => KeepsPlace(body)
    <3>1. PICK op : EndsWith(request[c], op)
      BY ToolsEndWithRoute DEF EffectInv
    <3> QED BY <3>1 DEF EndsWith
  <2>3. body.kind \in Kind \cup {"reference"}
    BY ToolShape DEF EffectInv, Shaped, BodyFits
  <2> HIDE DEF body
  <2> QED BY <2>1, <2>2, <2>3, PerformedPlaces DEF GateInv
<1>3. CASE Meddle
  BY <1>3, MeddledPlaces DEF GateInv
<1> QED BY <1>1, <1>2, <1>3
        DEF Next, CallStep, RunStage, QueryFails, cascadeWarning, Post, Receive, GiveUp, vars

LEMMA GateStep == EffectInv /\ ConfirmInv /\ GateInv /\ [Next]_vars => GateInv'
<1> SUFFICES ASSUME EffectInv, ConfirmInv, GateInv, [Next]_vars PROVE GateInv'
  OBVIOUS
<1>1. ASSUME NEW c \in Call, Watch, rows' = rows, request' = request, DOMAIN resolved' = Call,
             request[c].tool \in GatedDeletes => GateKept(c)',
             \A d \in Call \ {c} : /\ at'[d] = at[d] /\ phase'[d] = phase[d]
                                   /\ answer'[d] = answer[d] /\ resolved'[d] = resolved[d]
      PROVE  GateInv'
  <2>1. Placed(rows') /\ SamePlaces(rows, rows')
    BY <1>1 DEF GateInv, SamePlaces
  <2>2. ASSUME NEW d \in Call, request[d].tool \in GatedDeletes PROVE GateKept(d)'
    <3>1. CASE d = c
      BY <1>1, <2>2, <3>1
    <3>2. CASE d # c
      BY <1>1, <2>1, <2>2, <3>2, GateStays DEF ConfirmInv
    <3> QED BY <3>1, <3>2
  <2> QED BY <1>1, <2>1, <2>2 DEF GateInv
<1>2. ASSUME Watch, Placed(rows'), SamePlaces(rows, rows'), UNCHANGED <<request, callVars>>
      PROVE  GateInv'
  <2>1. ASSUME NEW d \in Call, request[d].tool \in GatedDeletes PROVE GateKept(d)'
    BY <1>2, <2>1, GateStays DEF ConfirmInv, callVars
  <2> QED BY <1>2, <2>1 DEF GateInv, callVars
<1>3. ASSUME NEW c \in Call, RunStage(c), Watch PROVE GateInv'
  <2>1. /\ UNCHANGED <<rows, request>> /\ DOMAIN resolved' = Call
        /\ \A d \in Call \ {c} : at'[d] = at[d] /\ resolved'[d] = resolved[d]
    BY <1>3 DEF RunStage, ConfirmInv, GateInv
  <2>2. \A d \in Call \ {c} : phase'[d] = phase[d] /\ answer'[d] = answer[d]
    BY <1>3 DEF RunStage, Answer, EffectInv
  <2> QED BY <1>1, <1>3, <2>1, <2>2, GateRuns
<1>4. ASSUME NEW c \in Call, NEW code, Answer(c, code), Watch,
             UNCHANGED <<rows, request, at, resolved>>,
             phase[c] # "count" => code # "VALIDATION_ERROR" \/ phase[c] = "wait"
      PROVE  GateInv'
  <2>1. /\ phase'[c] = "done" /\ answer'[c] = code
        /\ \A d \in Call \ {c} : phase'[d] = phase[d] /\ answer'[d] = answer[d]
    BY <1>4 DEF Answer, EffectInv
  <2>2. ASSUME request[c].tool \in GatedDeletes PROVE GateKept(c)'
    <3> DEFINE n == Len(Stages(request[c]))
    <3>1. n \in {4, 5} /\ at[c] \in Nat /\ GateKept(c) /\ request[c].tool \in Deletes
      BY <2>2, GatedDeletesHaveShape DEF GateInv, GatedShape, ConfirmInv, GatedDeletes
    <3>2. Mismatched(c)' => code = "VALIDATION_ERROR" /\ at[c] < n
      BY <1>4, <2>1 DEF Mismatched
    <3>3. phase[c] = "wait" => at[c] = n
      BY <3>1 DEF EffectInv, ConfirmInv
    <3>4. phase[c] = "count" => at[c] = n - 2 /\ Entitled(c)
      BY <3>1 DEF GateKept
    <3>5. Mismatched(c)' => phase[c] = "count"
      <4> HIDE DEF n
      <4> QED BY <1>4, <3>1, <3>2, <3>3
    <3>6. at[c] = n - 2 => at[c] # 0
      BY <3>1, PastTheFirst
    <3>7. at[c] # 0 \/ ~(at'[c] >= n - 2)
      BY <1>4, <3>1, PastTheFirst
    <3> QED BY <1>4, <2>1, <2>2, <3>4, <3>5, <3>6, <3>7, GateAnswers
  <2> QED BY <1>1, <1>4, <2>1, <2>2 DEF GateInv
<1>5. ASSUME NEW c \in Call, QueryFails(c) \/ cascadeWarning(c) \/ Receive(c) \/ GiveUp(c), Watch
      PROVE  GateInv'
  <2>1. /\ UNCHANGED <<rows, request, at, resolved>>
        /\ \E code : /\ Answer(c, code)
                     /\ phase[c] # "count" => code # "VALIDATION_ERROR" \/ phase[c] = "wait"
    BY <1>5 DEF QueryFails, cascadeWarning, Receive, GiveUp
  <2> QED BY <1>4, <1>5, <2>1
<1>6. ASSUME NEW c \in Call, Post(c), Watch PROVE GateInv'
  <2>1. /\ phase[c] = "run" /\ Stage(c).do = "route" /\ UNCHANGED <<rows, request, resolved>>
        /\ at' = [at EXCEPT ![c] = @ + 1]
        /\ \/ phase' = [phase EXCEPT ![c] = "wait"] /\ answer' = answer
           \/ Answer(c, "CONNECTION_ERROR")
    BY <1>6 DEF Post
  <2>2. \A d \in Call \ {c} : /\ at'[d] = at[d] /\ phase'[d] = phase[d]
                              /\ answer'[d] = answer[d]
    BY <2>1 DEF Answer, ConfirmInv, EffectInv
  <2>3. ASSUME request[c].tool \in GatedDeletes PROVE GateKept(c)'
    <3> DEFINE n == Len(Stages(request[c]))
    <3>1. n \in {4, 5} /\ at[c] \in Nat /\ at[c] < n
      BY <2>1, <2>3, GatedDeletesHaveShape DEF GatedShape, ConfirmInv, GatedDeletes
    <3>2. at[c] = n - 1
      BY <2>1, <2>3, <3>1, AtConfirm
    <3>3. at'[c] = at[c] + 1 /\ phase'[c] \in {"wait", "done"}
      BY <2>1 DEF Answer, ConfirmInv, EffectInv
    <3>4. ~Mismatched(c)'
      BY <2>1 DEF Mismatched, Answer, EffectInv
    <3>5. at[c] # 0
      <4> HIDE DEF n
      <4> QED BY <3>1, <3>2
    <3> QED BY <1>6, <2>1, <2>3, <3>2, <3>3, <3>4, <3>5, GateAnswers
  <2> QED BY <1>1, <1>6, <2>1, <2>2, <2>3 DEF GateInv
<1>7. ASSUME NEW c \in Call, Handle(c), Watch PROVE GateInv'
  <2>1. UNCHANGED <<request, callVars>>
    BY <1>7 DEF Handle
  <2> QED BY <1>2, <1>7, <2>1, NextPlaces
<1>8. ASSUME Meddle, Watch PROVE GateInv'
  <2>1. Placed(rows') /\ SamePlaces(rows, rows') /\ UNCHANGED <<request, callVars>>
    BY <1>8, NextPlaces DEF Meddle
  <2> QED BY <1>2, <1>8, <2>1
<1>9. ASSUME UNCHANGED vars PROVE GateInv'
  BY <1>9 DEF vars, callVars, GateInv, GateKept, Placed, Missing, Entitled, Mismatched,
              LastBody, Stage
<1> QED BY <1>3, <1>5, <1>6, <1>7, <1>8, <1>9 DEF Next, CallStep

\* Only a caller who held, while the call ran, the role that the delete asks for is told
\* that a name does not match: the gate stands before the comparison in every delete but
\* that of a reference, and what it let through is what it was asked about, however the
\* rows and the roles change in between (authorizeExistingFolder and its like).
THEOREM MismatchesAreForEditors == Spec => []MismatchOnlyToEditors
<1>1. EffectInv /\ ConfirmInv /\ GateInv => MismatchOnlyToEditors
  <2> SUFFICES ASSUME EffectInv, ConfirmInv, GateInv, NEW c \in Call, Mismatched(c),
                      request[c].tool # "delete_table_reference"
               PROVE  Entitled(c)
    BY DEF MismatchOnlyToEditors, Entitled
  <2>1. request[c].tool \in Tool /\ at[c] \in Nat
    BY DEF EffectInv, ConfirmInv
  <2>2. at[c] < Len(Stages(request[c])) /\ Stages(request[c])[at[c] + 1].do = "confirm"
    BY DEF Mismatched, Stage
  <2>3. Len(Stages(request[c])) \in Nat
    BY <2>1, ToolsEndWithRoute DEF EndsWith
  <2>4. at[c] + 1 \in 1..Len(Stages(request[c]))
    BY <2>1, <2>2, <2>3
  <2>5. request[c].tool \in GatedDeletes
    BY <2>1, <2>2, <2>4, NothingConfirmed DEF GatedDeletes
  <2> QED BY <2>5 DEF GateInv, GateKept
<1>2. Spec => [](EffectInv /\ ConfirmInv /\ GateInv)
  BY EffectInit, EffectStep, ConfirmInit, ConfirmStep, GateInit, GateStep, PTL DEF Spec
<1> QED BY <1>1, <1>2, PTL
-----------------------------------------------------------------------------
(* A refusal was right.                                                    *)

Resolved(c) ==
  LET r == request[c]
      body == Last(r).body
  IN  /\ resolved[c] # None => r.tool \in Resolving
      /\ \A i \in 1..Len(Stages(r)) : i <= at[c] /\ Stages(r)[i].do = "resolve" => resolved[c] # None
      /\ resolved[c] # None /\ IsA(rows, r.id, body.kind) => rows[r.id].project = resolved[c]

\* Where every call is in its stages, and what it has resolved: the project of its row,
\* wherever that row still is.
StageInv ==
  \A c \in Call :
    /\ at[c] \in 0..Len(Stages(request[c]))
    /\ phase[c] \in {"run", "count"} => at[c] < Len(Stages(request[c]))
    /\ route[c] # Idle => at[c] = Len(Stages(request[c]))
    /\ Resolved(c)

LEMMA ShapeOf ==
  ASSUME EffectInv, NEW c \in Call
  PROVE  Shaped(request[c]) /\ Len(Stages(request[c])) \in 1..5
BY ToolShape DEF EffectInv, Shaped

\* A stage that is not the request fits the tool, and is not the last.
LEMMA StageNow ==
  ASSUME EffectInv, StageInv, NEW c \in Call, phase[c] = "run", Stage(c).do # "route"
  PROVE  /\ at[c] \in Nat /\ at[c] + 1 < Len(Stages(request[c]))
         /\ Fits(request[c], LastBody(c), Stage(c))
         /\ Stage(c).do = "confirm" => at[c] # 0
         /\ Stage(c).do = "gate" /\ request[c].tool \in Resolving => resolved[c] # None
<1> DEFINE r == request[c]
           n == Len(Stages(r))
<1>1. Shaped(r) /\ n \in 1..5
  BY ShapeOf DEF StageInv
<1>2. /\ at[c] \in 0..n /\ at[c] < n /\ Stages(r)[n].do = "route" /\ Resolved(c)
      /\ Stage(c) = Stages(r)[at[c] + 1] /\ LastBody(c) = Last(r).body
  BY <1>1 DEF StageInv, Shaped, Stage, LastBody, Last
<1>3. /\ \A i \in 1..(n - 1) : Fits(r, Last(r).body, Stages(r)[i])
      /\ r.tool \in Resolving =>
           \A i \in 1..(n - 1) : Stages(r)[i].do = "gate" => i > 1 /\ Stages(r)[i - 1].do = "resolve"
      /\ Stages(r)[1].do # "confirm"
  BY <1>1 DEF Shaped
<1>4. \A i \in 1..n : i <= at[c] /\ Stages(r)[i].do = "resolve" => resolved[c] # None
  BY <1>2 DEF Resolved
<1> HIDE DEF n
<1>5. PICK i \in Nat : i = at[c] + 1
  BY <1>1, <1>2
<1>6. i # n /\ i \in 1..(n - 1)
  BY <1>1, <1>2, <1>5
<1>7. at[c] \in Nat /\ at[c] + 1 < n /\ Fits(r, LastBody(c), Stage(c))
  BY <1>1, <1>2, <1>3, <1>5, <1>6
<1>8. Stage(c).do = "confirm" => at[c] # 0
  BY <1>2, <1>3, <1>7
<1>9. ASSUME Stage(c).do = "gate", r.tool \in Resolving PROVE resolved[c] # None
  <2>1. i > 1 /\ Stages(r)[i - 1].do = "resolve"
    BY <1>2, <1>3, <1>5, <1>6, <1>9
  <2>2. i - 1 \in 1..n /\ i - 1 <= at[c]
    BY <1>1, <1>5, <1>6, <2>1, <1>2
  <2> QED BY <1>4, <2>1, <2>2
<1> QED BY <1>7, <1>8, <1>9 DEF n

LEMMA StageInit == Init => StageInv
<1> SUFFICES ASSUME Init PROVE StageInv
  OBVIOUS
<1>1. \A c \in Call : at[c] = 0 /\ route[c] = Idle /\ resolved[c] = None
  BY DEF Init
<1>2. EffectInv
  BY EffectInit
<1>3. ASSUME NEW c \in Call
      PROVE  /\ at[c] \in 0..Len(Stages(request[c])) /\ at[c] < Len(Stages(request[c]))
             /\ Resolved(c)
  <2>1. Len(Stages(request[c])) \in 1..5
    BY <1>1, <1>2, ShapeOf
  <2>2. \A n \in 1..5 : 0 \in 0..n /\ 0 < n /\ \A i \in 1..n : ~(i <= 0)
    OBVIOUS
  <2> QED BY <1>1, <2>1, <2>2 DEF Resolved
<1> QED BY <1>1, <1>3 DEF StageInv

\* A call that resolves nothing now.
LEMMA StaysResolved ==
  ASSUME EffectInv, GateInv, StageInv, SamePlaces(rows, rows'), request' = request,
         NEW c \in Call, resolved'[c] = resolved[c],
         \/ at'[c] = at[c]
         \/ /\ at[c] \in Nat /\ at'[c] = at[c] + 1
            /\ Stage(c).do # "resolve" \/ resolved[c] # None
  PROVE  Resolved(c)'
<1> DEFINE r == request[c]
           body == Last(r).body
<1>1. /\ Resolved(c) /\ r.id \notin Spare
      /\ r.tool \in Resolving => body.kind \in {"folder", "whiteboard", "canvas board"}
  BY ShapeOf DEF StageInv, GateInv, Shaped, BodyFits
<1>2. ASSUME resolved[c] # None, IsA(rows', r.id, body.kind)
      PROVE  rows'[r.id].project = resolved[c]
  <2>1. body.kind # "reference"
    BY <1>1, <1>2 DEF Resolved
  <2>2. IsA(rows, r.id, body.kind) /\ rows'[r.id].project = rows[r.id].project
    BY <1>1, <1>2, <2>1 DEF SamePlaces, IsA
  <2> QED BY <1>1, <1>2, <2>2 DEF Resolved
<1>3. ASSUME NEW i \in 1..Len(Stages(r)), i <= at'[c], Stages(r)[i].do = "resolve"
      PROVE  resolved[c] # None
  <2>1. CASE i <= at[c]
    BY <1>1, <1>3, <2>1 DEF Resolved
  <2>2. CASE ~(i <= at[c])
    <3>1. at[c] \in Nat /\ at'[c] = at[c] + 1
      BY <1>3, <2>2
    <3>2. i = at[c] + 1
      BY <1>3, <2>2, <3>1
    <3> QED BY <1>3, <2>2, <3>2 DEF Stage
  <2> QED BY <2>1, <2>2
<1> QED BY <1>1, <1>2, <1>3 DEF Resolved

LEMMA StageStep == EffectInv /\ ConfirmInv /\ GateInv /\ StageInv /\ [Next]_vars => StageInv'
<1> SUFFICES ASSUME EffectInv, ConfirmInv, GateInv, StageInv, [Next]_vars PROVE StageInv'
  OBVIOUS
<1> USE DEF Answer, Idle, Sent
<1> DEFINE Kept(c) == /\ at'[c] \in 0..Len(Stages(request[c]))
                      /\ phase'[c] \in {"run", "count"} => at'[c] < Len(Stages(request[c]))
                      /\ route'[c] # Idle => at'[c] = Len(Stages(request[c]))
                      /\ Resolved(c)'
<1>1. Placed(rows') /\ SamePlaces(rows, rows')
  BY NextPlaces
<1>2. request' = request
  BY DEF Next, CallStep, RunStage, QueryFails, cascadeWarning, Post, Handle, Receive, GiveUp,
         Meddle, vars
<1>3. SUFFICES ASSUME NEW c \in Call PROVE Kept(c)
  BY <1>2, <1>3 DEF StageInv
<1>4. CASE UNCHANGED <<at, resolved, phase>> /\ (route'[c] # Idle => route[c] # Idle)
  <2>1. at'[c] = at[c] /\ resolved'[c] = resolved[c] /\ phase'[c] = phase[c]
    BY <1>4
  <2> QED BY <1>1, <1>2, <1>4, <2>1, StaysResolved DEF StageInv
<1>5. ASSUME NEW d \in Call, NEW code, Answer(d, code), UNCHANGED <<at, resolved, route>>
      PROVE  Kept(c)
  <2>1. at'[c] = at[c] /\ resolved'[c] = resolved[c] /\ route'[c] = route[c]
        /\ phase'[c] \in {phase[c], "done"}
    BY <1>5 DEF EffectInv
  <2> QED BY <1>1, <1>2, <2>1, StaysResolved DEF StageInv
<1>6. ASSUME NEW d \in Call, RunStage(d) \/ Post(d), d # c PROVE Kept(c)
  <2>1. at'[c] = at[c] /\ resolved'[c] = resolved[c] /\ route'[c] = route[c] /\ phase'[c] = phase[c]
    BY <1>6 DEF RunStage, Post, EffectInv, ConfirmInv, GateInv
  <2> QED BY <1>1, <1>2, <2>1, StaysResolved DEF StageInv
<1>7. CASE RunStage(c)
  <2> DEFINE r == request[c]
             n == Len(Stages(r))
             ok == Verdict(c) = "ok"
  <2>1. /\ phase[c] = "run" /\ Stage(c).do # "route" /\ rows' = rows /\ route' = route
        /\ at' = [at EXCEPT ![c] = IF ok THEN @ + 1 ELSE @]
        /\ resolved' = [resolved EXCEPT ![c] =
             IF ok /\ Stage(c).do = "resolve" THEN rows[r.id].project ELSE @]
    BY <1>7 DEF RunStage
  <2>2. /\ at[c] \in Nat /\ at[c] + 1 < n /\ Fits(r, LastBody(c), Stage(c))
        /\ n \in 1..5 /\ route[c] = Idle
    BY <2>1, StageNow, ShapeOf DEF StageInv, EffectInv
  <2>3. /\ at'[c] = IF ok THEN at[c] + 1 ELSE at[c]
        /\ resolved'[c] = IF ok /\ Stage(c).do = "resolve" THEN rows[r.id].project ELSE resolved[c]
    BY <2>1 DEF ConfirmInv, GateInv
  <2>4. at'[c] \in 0..n /\ at'[c] < n
    <3> HIDE DEF n, ok
    <3> QED BY <2>2, <2>3
  <2>5. Resolved(c)'
    <3>1. CASE ~ok \/ Stage(c).do # "resolve"
      <4>1. resolved'[c] = resolved[c]
        BY <2>3, <3>1
      <4>2. at'[c] = at[c] \/ (at'[c] = at[c] + 1 /\ Stage(c).do # "resolve")
        BY <2>3, <3>1
      <4> HIDE DEF n, ok
      <4> QED BY <1>1, <1>2, <2>2, <4>1, <4>2, StaysResolved
    <3>2. CASE ok /\ Stage(c).do = "resolve"
      <4>1. /\ r.tool \in Resolving /\ Stage(c).kind = Last(r).body.kind
            /\ resolved'[c] = rows[r.id].project
        BY <2>2, <2>3, <3>2 DEF Fits, LastBody, Last
      <4>2. IsA(rows, r.id, Stage(c).kind)
        BY <3>2 DEF Verdict
      <4>3. resolved'[c] # None
        BY <4>1, <4>2, SpareAssumption DEF IsA, GateInv, Placed, SoundRow
      <4> QED BY <1>2, <2>1, <4>1, <4>3 DEF Resolved
    <3> QED BY <3>1, <3>2
  <2> QED BY <2>1, <2>2, <2>4, <2>5
<1>8. CASE Post(c)
  <2> DEFINE n == Len(Stages(request[c]))
  <2>1. /\ phase[c] = "run" /\ Stage(c).do = "route" /\ rows' = rows
        /\ at' = [at EXCEPT ![c] = @ + 1] /\ resolved' = resolved
        /\ phase'[c] \notin {"run", "count"}
    BY <1>8 DEF Post, EffectInv
  <2>2. /\ at[c] \in 0..n /\ at[c] < n /\ n \in 1..5
        /\ \A i \in 1..(n - 1) : Fits(request[c], LastBody(c), Stages(request[c])[i])
    BY <2>1, ShapeOf DEF StageInv, Shaped, LastBody, Last
  <2>3. at'[c] = at[c] + 1 /\ resolved'[c] = resolved[c] /\ at[c] \in Nat
    BY <2>1, <2>2 DEF ConfirmInv
  <2>4. at[c] + 1 = n
    <3> SUFFICES ASSUME at[c] + 1 \in 1..(n - 1) PROVE FALSE
      <4> HIDE DEF n
      <4> QED BY <2>2
    <3>1. Fits(request[c], LastBody(c), Stage(c))
      BY <2>2 DEF Stage
    <3> QED BY <2>1, <3>1 DEF Fits
  <2>5. Resolved(c)'
    <3>1. Stage(c).do # "resolve"
      BY <2>1
    <3> QED BY <1>1, <1>2, <2>3, <3>1, StaysResolved
  <2> HIDE DEF n
  <2>6. at'[c] = n /\ at'[c] \in 0..n
    BY <2>2, <2>3, <2>4
  <2> QED BY <2>1, <2>5, <2>6 DEF n
<1>9. ASSUME NEW d \in Call, Handle(d) PROVE Kept(c)
  <2>1. UNCHANGED <<at, resolved, phase>> /\ (route'[c] # Idle => route[c] # Idle)
    BY <1>9 DEF Handle, callVars, EffectInv
  <2> QED BY <1>4, <2>1
<1>10. ASSUME NEW d \in Call, QueryFails(d) \/ cascadeWarning(d) \/ Receive(d) \/ GiveUp(d)
       PROVE  Kept(c)
  BY <1>5, <1>10 DEF QueryFails, cascadeWarning, Receive, GiveUp
<1>11. CASE Meddle \/ UNCHANGED vars
  BY <1>4, <1>11 DEF Meddle, callVars, vars
<1> QED BY <1>6, <1>7, <1>8, <1>9, <1>10, <1>11 DEF Next, CallStep

\* What a call may have seen.
Gone(c) == \E s \in saw[c] : ~s.there
Lacking(c) == \E s \in saw[c] : Role(LastBody(c)) \notin s.roles
Misnamed(c) ==
  /\ LastBody(c).op = "delete"
  /\ \E s \in saw[c] : ~s.there \/ s.name # request[c].confirm
Unsound(c) == \E s \in saw[c] : s.there /\ ~s.sound

\* What a call that has answered with a code may say of what it saw.
Right(c, code) ==
  /\ code = "NOT_FOUND" => Gone(c)
  /\ code = "FORBIDDEN" => Lacking(c)
  /\ code = "VALIDATION_ERROR" =>
       \/ Malformed(request[c], LastBody(c)) \/ Misnamed(c)
       \/ LastBody(c).kind = "reference" /\ Unsound(c)

\* The status of a refusal was right when the app gave it, and a mismatch when the names
\* were compared.
RefusalInv ==
  \A c \in Call :
    /\ phase[c] \in {"count", "wait"} => at[c] # 0
    /\ phase[c] = "count" => Misnamed(c)
    /\ phase[c] = "wait" => /\ route[c] = 404 => Gone(c)
                            /\ route[c] = 403 => Lacking(c)
                            /\ route[c] = 400 => Unsound(c)
    /\ Right(c, answer[c])

LEMMA SnapshotFields ==
  ASSUME NEW state, NEW roles, NEW r
  PROVE  LET body == Last(r).body
             s == Snapshot(state, roles, r)
         IN  /\ s.there = Exists(state, body)
             /\ s.name = IF s.there /\ Target(body) # None THEN ListedName(state, Target(body))
                         ELSE None
             /\ s.roles = IF s.there /\ Target(body) # None
                          THEN RolesIn(state, roles, state[Target(body)].project) ELSE {}
             /\ s.sound = (s.there /\ SourceStands(state, body))
BY DEF Snapshot, Last

\* Nobody holds a role on what is not there, and none is reported that a gate refuses.
LEMMA RefusedRole ==
  ASSUME NEW state, NEW roles, NEW r, NEW body, body = Last(r).body,
         /\ Exists(state, body) /\ Target(body) # None
            /\ state[Target(body)].project \in DOMAIN state
         => ~Passes(Role(body), roles[state[Target(body)].project])
  PROVE  Role(body) \notin Snapshot(state, roles, r).roles
<1> PICK s : s = Snapshot(state, roles, r)
  OBVIOUS
<1>1. /\ s.there <=> Exists(state, body)
      /\ s.roles = IF s.there /\ Target(body) # None
                   THEN RolesIn(state, roles, state[Target(body)].project) ELSE {}
  BY SnapshotFields
<1>2. CASE s.there /\ Target(body) # None
  <2> PICK project : project = state[Target(body)].project
    OBVIOUS
  <2>1. s.roles = RolesIn(state, roles, project)
    BY <1>1, <1>2
  <2>2. Exists(state, body) /\ (project \in DOMAIN state => ~Passes(Role(body), roles[project]))
    BY <1>1, <1>2
  <2>3. Role(body) \notin RolesIn(state, roles, project)
    BY <2>2 DEF RolesIn
  <2> QED BY <2>1, <2>3
<1>3. CASE ~(s.there /\ Target(body) # None)
  BY <1>1, <1>3
<1> QED BY <1>2, <1>3

\* What the app refuses with a status of its own.
LEMMA RefusedByApp ==
  ASSUME NEW state, NEW roles, NEW r, NEW body, body = Last(r).body,
         NEW status \in Statuses(state, roles, body),
         NEW s, s = Snapshot(state, roles, r)
  PROVE  /\ status = 404 => ~s.there
         /\ status = 403 => Role(body) \notin s.roles
         /\ status = 400 => s.there /\ ~s.sound
<1>1. /\ s.there <=> Exists(state, body)
      /\ s.sound <=> s.there /\ SourceStands(state, body)
  BY SnapshotFields
<1>2. /\ status = 404 => ~Exists(state, body)
      /\ status = 403 => ~Exists(state, body) \/ ~Permits(state, roles, body)
      /\ status = 400 => Exists(state, body) /\ ~SourceStands(state, body)
  BY DEF Statuses
<1>3. status = 403 => Role(body) \notin s.roles
  <2> SUFFICES ASSUME status = 403 PROVE Role(body) \notin s.roles
    OBVIOUS
  <2>1. Exists(state, body) => ~Passes(Role(body), roles[state[Target(body)].project])
    BY <1>2 DEF Permits
  <2> QED BY <2>1, RefusedRole
<1> QED BY <1>1, <1>2, <1>3

\* What the server refuses by itself.
LEMMA RefusedByServer ==
  ASSUME EffectInv, GateInv, StageInv, NEW c \in Call, phase[c] = "run",
         Stage(c).do # "route", Verdict(c) # "ok"
  PROVE  LET s == Snapshot(rows, standing, request[c])
         IN  \/ Verdict(c) = "NOT_FOUND" /\ ~s.there
             \/ Verdict(c) = "FORBIDDEN" /\ Role(LastBody(c)) \notin s.roles
             \/ /\ Verdict(c) = "VALIDATION_ERROR"
                /\ \/ Stage(c).do # "confirm" /\ Malformed(request[c], LastBody(c))
                   \/ LastBody(c).op = "delete" /\ (~s.there \/ s.name # request[c].confirm)
<1> DEFINE r == request[c]
           stage == Stage(c)
           s == Snapshot(rows, standing, r)
<1>1. PICK body : body = LastBody(c)
  OBVIOUS
<1>2. /\ Fits(r, body, stage) /\ Last(r).body = body
      /\ stage.do = "gate" /\ r.tool \in Resolving => resolved[c] # None
      /\ BodyFits(r, body) /\ Resolved(c)
  BY <1>1, StageNow, ShapeOf DEF LastBody, Last, Shaped, StageInv
<1>3. /\ s.there <=> Exists(rows, body)
      /\ s.name = IF s.there /\ Target(body) # None THEN ListedName(rows, Target(body)) ELSE None
  BY <1>2, SnapshotFields
<1> HIDE DEF s, stage
<1>4. CASE stage.do = "check"
  <2>1. ~stage.ok /\ Verdict(c) = "VALIDATION_ERROR"
    BY <1>4 DEF Verdict, stage
  <2> QED BY <1>1, <1>2, <1>4, <2>1 DEF Fits, stage
<1>5. CASE stage.do = "resolve"
  <2>1. Verdict(c) = "NOT_FOUND" /\ ~IsA(rows, r.id, stage.kind)
    BY <1>5 DEF Verdict, stage
  <2>2. /\ stage.kind = body.kind /\ body.id = r.id /\ body.op \in {"update", "delete"}
    BY <1>2, <1>5 DEF Fits, BodyFits
  <2>3. ~Exists(rows, body)
    BY <2>1, <2>2 DEF Exists, HangsFree, Target, TargetKind
  <2> QED BY <1>3, <2>1, <2>3 DEF s
<1>6. CASE stage.do = "gate"
  <2> DEFINE project == IF resolved[c] = None THEN NamedProject(r) ELSE resolved[c]
  <2>1. Verdict(c) = Gated(rows, standing, Role(body), project)
    BY <1>2, <1>6 DEF Verdict, Fits, stage
  <2>2. /\ Verdict(c) = "FORBIDDEN"
        /\ project \in DOMAIN rows => ~Passes(Role(body), standing[project])
    BY <2>1 DEF Gated, AssertAccess
  <2>3. ASSUME Exists(rows, body), Target(body) # None PROVE rows[Target(body)].project = project
    <3>1. CASE r.tool \in Resolving
      <4>1. /\ body.id = r.id /\ body.op \in {"update", "delete"} /\ resolved[c] # None
        BY <1>2, <1>6, <3>1 DEF BodyFits
      <4>2. Target(body) = r.id /\ IsA(rows, r.id, body.kind)
        BY <2>3, <4>1 DEF Exists, HangsFree, Target, TargetKind
      <4> QED BY <1>2, <4>1, <4>2 DEF Resolved
    <3>2. CASE r.tool \notin Resolving
      <4>1. NamedProject(r) = Target(body) /\ TargetKind(body) = "project" /\ resolved[c] = None
        BY <1>2, <1>6, <3>2 DEF Fits, Resolved
      <4>2. ~HangsFree(body)
        BY <2>3 DEF HangsFree, Target
      <4>3. Target(body) \in DOMAIN rows /\ rows[Target(body)].kind = "project"
        BY <2>3, <4>1, <4>2 DEF Exists, IsA
      <4> QED BY <4>1, <4>3 DEF GateInv, Placed, SoundRow
    <3> QED BY <3>1, <3>2
  <2> HIDE DEF project
  <2>4. Role(body) \notin s.roles
    BY <1>2, <2>2, <2>3, RefusedRole DEF s
  <2> QED BY <1>1, <2>2, <2>4 DEF s
<1>7. CASE stage.do = "confirm"
  <2>1. /\ body.op = "delete" /\ body.id = r.id /\ stage.kind = body.kind
        /\ Verdict(c) = Compared(rows, r, body.kind)
    BY <1>2, <1>7 DEF Fits, Verdict, stage
  <2>2. Target(body) = r.id /\ TargetKind(body) = body.kind /\ ~HangsFree(body)
    BY <2>1, DeleteTarget DEF HangsFree
  <2>3. Exists(rows, body) <=> IsA(rows, r.id, body.kind)
    BY <2>2 DEF Exists
  <2>4. r.id \in DOMAIN rows => r.id # None /\ rows[r.id].kind # "reference"
    BY SpareAssumption DEF GateInv, Placed, SoundRow, Kind
  <2>5. CASE Verdict(c) = "NOT_FOUND"
    <3>1. ~IsA(rows, r.id, body.kind)
      BY <2>1, <2>4, <2>5 DEF Compared, FindByID, IsA
    <3> QED BY <1>3, <2>3, <2>5, <3>1 DEF s
  <2>6. CASE Verdict(c) # "NOT_FOUND"
    <3>1. Verdict(c) = "VALIDATION_ERROR"
      BY <2>1, <2>6 DEF Compared
    <3>2. ASSUME IsA(rows, r.id, body.kind) PROVE ListedName(rows, r.id) # r.confirm
      <4>1. CASE body.kind = "reference"
        <5>1. /\ r.id \in DOMAIN rows /\ rows[r.id].kind = "table" /\ IsA(rows, r.id, "table")
              /\ rows[r.id].sourceTable # None
          BY <2>4, <3>2, <4>1 DEF IsA
        <5>2. FindReferenceConfirmName(rows, r.id) # r.confirm
          BY <2>1, <3>1, <4>1, <5>1 DEF Compared
        <5> QED BY <5>1, <5>2, ListedIsConfirmName
      <4>2. CASE body.kind # "reference"
        <5>1. FindByID(rows, r.id, body.kind) = {rows[r.id]} /\ rows[r.id].name # r.confirm
          BY <2>1, <3>1, <3>2, <4>2 DEF Compared, FindByID
        <5>2. rows[r.id].kind # "table"
          <6>1. rows[r.id].kind = body.kind
            BY <3>2, <4>2 DEF IsA
          <6>2. body.kind # "table"
            <7>1. r.tool \in Deletes /\ body.kind = DeletedKind(r)
              <8>1. PICK op : EndsWith(r, op) /\ (op = "delete" <=> r.tool \in Deletes)
                BY ToolsEndWithRoute DEF EffectInv
              <8>2. r.tool \in Deletes
                BY <1>2, <2>1, <8>1 DEF EndsWith
              <8>3. Last(r).body.kind = DeletedKind(r)
                BY <8>2, DeletesHaveShape, StageFields, BodyFields DEF DeleteShape
              <8> QED BY <1>2, <8>2, <8>3
            <7> QED BY <7>1 DEF DeletedKind
          <6> QED BY <6>1, <6>2
        <5> QED BY <5>1, <5>2 DEF ListedName
      <4> QED BY <4>1, <4>2
    <3> QED BY <1>1, <1>3, <2>1, <2>2, <2>3, <2>4, <3>1, <3>2 DEF s, IsA
  <2> QED BY <2>5, <2>6
<1> QED BY <1>2, <1>4, <1>5, <1>6, <1>7 DEF Fits

-----------------------------------------------------------------------------
(* Types.                                                                  *)

\* An answer of the app becomes a code.
LEMMA AnswerOf ==
  ASSUME EffectInv, NEW c \in Call, phase[c] = "wait", NEW code \in Answers(c)
  PROVE  /\ code = "NOT_FOUND" => route[c] = 404
         /\ code = "FORBIDDEN" => route[c] = 403
         /\ code = "VALIDATION_ERROR" => route[c] = 400 /\ LastBody(c).kind = "reference"
         /\ code \in Code \ {"none"}
<1> DEFINE body == LastBody(c)
           missing == body.missing
<1>1. missing \in {"NOT_FOUND", "CONNECTION_ERROR"}
  <2>1. PICK op : EndsWith(request[c], op)
    BY ToolsEndWithRoute DEF EffectInv
  <2> QED BY <2>1 DEF EndsWith, LastBody, Last
<1>2. code \in IF body.kind = "reference" THEN referenceAnswers(route[c], missing)
               ELSE IF body.kind = "canvas board" THEN canvasBoardAnswers(route[c], missing)
               ELSE lifecycleAnswers(route[c], missing)
  BY DEF Answers, LastBody
<1>3. PICK kind, status : kind = body.kind /\ status = route[c]
  OBVIOUS
<1> HIDE DEF body, missing
<1>4. CASE status = 200
  <2>1. code \in {"ok", "CONNECTION_ERROR"}
    BY <1>2, <1>3, <1>4 DEF referenceAnswers, canvasBoardAnswers, lifecycleAnswers
  <2> QED BY <2>1 DEF Code
<1>5. CASE status # 200
  <2>1. code = IF kind = "reference" THEN referenceStatusError(status, missing)
               ELSE IF kind = "canvas board" THEN statusError(status, missing)
               ELSE lifecycleStatusError(status, missing)
    BY <1>2, <1>3, <1>5 DEF referenceAnswers, canvasBoardAnswers, lifecycleAnswers
  <2> QED BY <1>1, <1>3, <2>1
          DEF referenceStatusError, statusError, lifecycleStatusError, Code, body
<1> QED BY <1>4, <1>5

TypesInv ==
  /\ standing \in [Id -> Standing]
  /\ phase \in [Call -> {"run", "count", "wait", "done"}]
  /\ answer \in [Call -> Code]
  /\ \A c \in Call : (phase[c] = "done") = (answer[c] # "none")
  /\ meddled \in 0..MaxMeddling

LEMMA TypesInit == Init => TypesInv
BY ScenarioAssumption, BoundAssumption DEF Init, TypesInv, Code

LEMMA VerdictCodes ==
  ASSUME EffectInv, GateInv, StageInv, NEW c \in Call, phase[c] = "run", Stage(c).do # "route"
  PROVE  Verdict(c) \in {"ok", "VALIDATION_ERROR", "NOT_FOUND", "FORBIDDEN"}
BY RefusedByServer

LEMMA TypesStep == EffectInv /\ GateInv /\ StageInv /\ TypesInv /\ [Next]_vars => TypesInv'
<1> SUFFICES ASSUME EffectInv, GateInv, StageInv, TypesInv, [Next]_vars PROVE TypesInv'
  OBVIOUS
<1>1. ASSUME NEW c \in Call, NEW code, Answer(c, code), code \in Code \ {"none"},
             standing' = standing, meddled' = meddled
      PROVE  TypesInv'
  BY <1>1 DEF Answer, TypesInv
<1>2. ASSUME UNCHANGED <<standing, answer, meddled>>,
             \/ phase' = phase
             \/ \E c \in Call, p \in {"count", "wait"} :
                  phase[c] # "done" /\ phase' = [phase EXCEPT ![c] = p]
      PROVE  TypesInv'
  BY <1>2 DEF TypesInv
<1>3. ASSUME NEW c \in Call, RunStage(c) PROVE TypesInv'
  <2>1. /\ Verdict(c) \in {"ok", "VALIDATION_ERROR", "NOT_FOUND", "FORBIDDEN"}
        /\ phase[c] = "run" /\ UNCHANGED <<standing, meddled>>
    BY <1>3, VerdictCodes DEF RunStage
  <2>2. \/ UNCHANGED <<phase, answer>>
        \/ phase' = [phase EXCEPT ![c] = "count"] /\ answer' = answer
        \/ Verdict(c) # "ok" /\ Answer(c, Verdict(c))
    BY <1>3 DEF RunStage
  <2>3. ASSUME Verdict(c) # "ok", Answer(c, Verdict(c)) PROVE TypesInv'
    <3>1. Verdict(c) \in Code \ {"none"}
      BY <2>1, <2>3 DEF Code
    <3> QED BY <1>1, <2>1, <2>3, <3>1
  <2> QED BY <1>2, <2>1, <2>2, <2>3
<1>4. ASSUME NEW c \in Call, QueryFails(c) \/ cascadeWarning(c) \/ GiveUp(c) PROVE TypesInv'
  BY <1>1, <1>4 DEF QueryFails, cascadeWarning, GiveUp, Code
<1>5. ASSUME NEW c \in Call, Post(c) PROVE TypesInv'
  <2>1. /\ phase[c] = "run" /\ UNCHANGED <<standing, meddled>>
        /\ \/ phase' = [phase EXCEPT ![c] = "wait"] /\ answer' = answer
           \/ Answer(c, "CONNECTION_ERROR")
    BY <1>5 DEF Post
  <2> QED BY <1>1, <1>2, <2>1 DEF Code
<1>6. ASSUME NEW c \in Call, Receive(c) PROVE TypesInv'
  <2>1. PICK code \in Answers(c) : Answer(c, code)
    BY <1>6 DEF Receive
  <2>2. phase[c] = "wait" /\ standing' = standing /\ meddled' = meddled
    BY <1>6 DEF Receive
  <2> QED BY <1>1, <2>1, <2>2, AnswerOf
<1>7. ASSUME NEW c \in Call, Handle(c) PROVE TypesInv'
  <2>1. /\ UNCHANGED <<phase, answer, meddled>>
        /\ standing' = standing \/ \E p : standing' = [standing EXCEPT ![p].owner = TRUE]
    BY <1>7 DEF Handle, callVars
  <2>2. standing' \in [Id -> Standing]
    BY <2>1 DEF TypesInv, Standing
  <2> QED BY <2>1, <2>2 DEF TypesInv
<1>8. CASE Meddle
  <2>1. UNCHANGED <<phase, answer>> /\ meddled < MaxMeddling /\ meddled' = meddled + 1
    BY <1>8 DEF Meddle, callVars
  <2>2. ASSUME NEW p, NEW role \in {"no row", "VIEWER", "ADMIN"},
               standing' = [standing EXCEPT ![p].member = role]
        PROVE  standing' \in [Id -> Standing]
    BY <2>2 DEF TypesInv, Standing, MemberRole
  <2>3. standing' \in [Id -> Standing]
    <3>1. CASE UNCHANGED standing
      BY <3>1 DEF TypesInv
    <3>2. CASE \E p \in DOMAIN rows, role \in {"no row", "VIEWER", "ADMIN"} :
                 rows[p].kind = "project" /\ standing' = [standing EXCEPT ![p].member = role]
      BY <2>2, <3>2
    <3> QED BY <1>8, <3>1, <3>2 DEF Meddle
  <2>4. meddled' \in 0..MaxMeddling
    BY <2>1, BoundAssumption DEF TypesInv
  <2> QED BY <2>1, <2>3, <2>4 DEF TypesInv
<1>9. CASE UNCHANGED vars
  BY <1>9 DEF vars, callVars, TypesInv
<1> QED BY <1>3, <1>4, <1>5, <1>6, <1>7, <1>8, <1>9 DEF Next, CallStep

\* Rows, roles, calls and answers keep their types; a call has answered, with a code of
\* the taxonomy, exactly when it is done, and has passed every stage when it posts.
THEOREM LifecycleTypes == Spec => []TypeOK
<1>1. EffectInv /\ GateInv /\ StageInv /\ TypesInv => TypeOK
  <2> SUFFICES ASSUME EffectInv, GateInv, StageInv, TypesInv PROVE TypeOK
    OBVIOUS
  <2>1. /\ DOMAIN rows \subseteq Id
        /\ \A id \in DOMAIN rows : rows[id].kind \in Kind /\ rows[id].project \in Id
    BY DEF GateInv, Placed, SoundRow
  <2>2. acts \in [Call -> Nat]
    BY DEF EffectInv
  <2> QED BY <2>1, <2>2 DEF StageInv, TypesInv, TypeOK
<1>2. Spec => [](EffectInv /\ ConfirmInv /\ GateInv /\ StageInv /\ TypesInv)
  BY EffectInit, EffectStep, ConfirmInit, ConfirmStep, GateInit, GateStep, StageInit, StageStep,
     TypesInit, TypesStep, PTL DEF Spec
<1> QED BY <1>1, <1>2, PTL
-----------------------------------------------------------------------------
(* A refusal, from the app or from a stage.                                *)

LEMMA RefusalInit == Init => RefusalInv
BY DEF Init, RefusalInv, Right

\* What was seen stays seen by a call that has passed a stage, or has answered.
LEMMA StaysSeen ==
  ASSUME Watch, request' = request, NEW c \in Call, at[c] # 0 \/ phase[c] = "done"
  PROVE  /\ saw[c] \subseteq saw'[c]
         /\ Gone(c) => Gone(c)'
         /\ Lacking(c) => Lacking(c)'
         /\ Misnamed(c) => Misnamed(c)'
         /\ Unsound(c) => Unsound(c)'
<1>1. saw[c] \subseteq saw'[c]
  BY DEF Watch
<1>2. LastBody(c)' = LastBody(c)
  BY DEF LastBody
<1> QED BY <1>1, <1>2 DEF Gone, Lacking, Misnamed, Unsound

LEMMA StaysRight ==
  ASSUME Watch, request' = request, NEW c \in Call, at[c] # 0 \/ phase[c] = "done",
         NEW code, Right(c, code)
  PROVE  Right(c, code)'
<1>1. LastBody(c)' = LastBody(c)
  BY DEF LastBody
<1> QED BY <1>1, StaysSeen DEF Right, Malformed, checkLen, NamesAField

LEMMA RefusalStep ==
  EffectInv /\ ConfirmInv /\ GateInv /\ StageInv /\ TypesInv /\ RefusalInv /\ [Next]_vars
    => RefusalInv'
<1> SUFFICES ASSUME EffectInv, ConfirmInv, GateInv, StageInv, TypesInv, RefusalInv, [Next]_vars
             PROVE  RefusalInv'
  OBVIOUS
<1> USE DEF Answer, Idle, Sent
<1> DEFINE Kept(c) == /\ phase'[c] \in {"count", "wait"} => at'[c] # 0
                      /\ phase'[c] = "count" => Misnamed(c)'
                      /\ phase'[c] = "wait" => /\ route'[c] = 404 => Gone(c)'
                                               /\ route'[c] = 403 => Lacking(c)'
                                               /\ route'[c] = 400 => Unsound(c)'
                      /\ Right(c, answer[c])'
<1>1. request' = request
  BY DEF Next, CallStep, RunStage, QueryFails, cascadeWarning, Post, Handle, Receive, GiveUp,
         Meddle, vars
<1>2. CASE UNCHANGED vars
  BY <1>2 DEF vars, callVars, RefusalInv, Right, Gone, Lacking, Misnamed, Unsound, LastBody
<1>3. SUFFICES ASSUME Next, Watch, NEW c \in Call PROVE Kept(c)
  BY <1>2, <1>3 DEF RefusalInv, Next
<1>4. /\ Right(c, answer[c])
      /\ phase[c] # "done" => answer[c] = "none"
      /\ phase[c] \in {"count", "wait"} => at[c] # 0
  BY DEF RefusalInv, EffectInv
<1>5. Right(c, "none")' /\ Right(c, "ok")' /\ Right(c, "INTERNAL_ERROR")' /\ Right(c, "CONNECTION_ERROR")'
  BY DEF Right
<1>6. CASE at'[c] = at[c] /\ phase'[c] = phase[c] /\ answer'[c] = answer[c] /\ route'[c] = route[c]
  <2>1. Right(c, answer[c])'
    <3>1. CASE phase[c] = "done"
      BY <1>1, <1>3, <1>4, <1>6, <3>1, StaysRight DEF Right
    <3>2. CASE phase[c] # "done"
      BY <1>4, <1>5, <1>6, <3>2
    <3> QED BY <3>1, <3>2
  <2>2. phase[c] \in {"count", "wait"} =>
          /\ Gone(c) => Gone(c)'
          /\ Lacking(c) => Lacking(c)'
          /\ Misnamed(c) => Misnamed(c)'
          /\ Unsound(c) => Unsound(c)'
    BY <1>1, <1>3, <1>4, StaysSeen
  <2> QED BY <1>4, <1>6, <2>1, <2>2 DEF RefusalInv
<1>7. ASSUME NEW code, phase'[c] = "done", answer'[c] = code, Right(c, code)' PROVE Kept(c)
  BY <1>7
<1>8. ASSUME NEW d \in Call, NEW code, Answer(d, code), d # c, UNCHANGED <<at, route>>
      PROVE  Kept(c)
  BY <1>6, <1>8 DEF EffectInv
<1>9. ASSUME NEW d \in Call, RunStage(d) \/ Post(d) \/ Handle(d), d # c PROVE Kept(c)
  <2>1. /\ at'[c] = at[c] /\ phase'[c] = phase[c] /\ answer'[c] = answer[c]
        /\ route'[c] = route[c]
    BY <1>9 DEF RunStage, Post, Handle, callVars, EffectInv, ConfirmInv
  <2> QED BY <1>6, <2>1
<1>10. CASE RunStage(c)
  <2>1. /\ phase[c] = "run" /\ Stage(c).do # "route" /\ UNCHANGED <<rows, standing>>
        /\ DOMAIN phase = Call /\ DOMAIN answer = Call
    BY <1>10 DEF RunStage, EffectInv
  <2>2. Snapshot(rows, standing, request[c]) \in saw'[c]
    BY <1>3, <2>1, SeenNow
  <2>3. LastBody(c)' = LastBody(c)
    BY <1>1 DEF LastBody
  <2>4. CASE Verdict(c) = "ok"
    <3>1. phase'[c] = "run" /\ answer'[c] = "none"
      BY <1>4, <1>10, <2>1, <2>4 DEF RunStage
    <3> QED BY <1>5, <3>1
  <2>5. CASE Verdict(c) # "ok"
    <3> PICK code : code = Verdict(c)
      OBVIOUS
    <3>1. Right(c, code)'
      <4>1. CASE code = "NOT_FOUND"
        BY <2>1, <2>2, <2>5, <4>1, RefusedByServer DEF Right, Gone
      <4>2. CASE code = "FORBIDDEN"
        BY <2>1, <2>2, <2>3, <2>5, <4>2, RefusedByServer DEF Right, Lacking
      <4>3. CASE code = "VALIDATION_ERROR"
        <5>1. \/ Malformed(request[c], LastBody(c))
              \/ /\ LastBody(c).op = "delete"
                 /\ \E s \in saw'[c] : ~s.there \/ s.name # request[c].confirm
          BY <2>1, <2>2, <2>5, <4>3, RefusedByServer
        <5>2. Malformed(request[c], LastBody(c)) \/ Misnamed(c)'
          BY <1>1, <2>3, <5>1 DEF Misnamed
        <5> QED BY <1>1, <2>3, <4>3, <5>2 DEF Right, Malformed, checkLen, NamesAField
      <4> QED BY <2>1, <2>5, <4>1, <4>2, <4>3, RefusedByServer
    <3>2. CASE Stage(c) = Confirm("folder") /\ Verdict(c) = "VALIDATION_ERROR"
      <4>1. phase'[c] = "count" /\ answer'[c] = "none" /\ at'[c] = at[c]
        BY <1>4, <1>10, <2>1, <2>5, <3>2 DEF RunStage, ConfirmInv
      <4>2. Stage(c).do = "confirm" /\ at[c] # 0
        BY <2>1, <3>2, StageFields, StageNow
      <4>3. Misnamed(c)'
        BY <1>1, <2>1, <2>2, <2>3, <2>5, <3>2, <4>2, RefusedByServer DEF Misnamed
      <4> QED BY <1>5, <4>1, <4>2, <4>3
    <3>3. CASE ~(Stage(c) = Confirm("folder") /\ Verdict(c) = "VALIDATION_ERROR")
      <4>1. phase'[c] = "done" /\ answer'[c] = Verdict(c)
        BY <1>10, <2>1, <2>5, <3>3 DEF RunStage
      <4> QED BY <1>7, <3>1, <4>1
    <3> QED BY <3>2, <3>3
  <2> QED BY <2>4, <2>5
<1>11. CASE QueryFails(c) \/ GiveUp(c)
  <2>1. phase'[c] = "done" /\ answer'[c] \in {"INTERNAL_ERROR", "CONNECTION_ERROR"}
    BY <1>11 DEF QueryFails, GiveUp, EffectInv
  <2> QED BY <1>5, <1>7, <2>1
<1>12. CASE cascadeWarning(c)
  <2>1. phase[c] = "count" /\ phase'[c] = "done" /\ answer'[c] = "VALIDATION_ERROR"
    BY <1>12 DEF cascadeWarning, EffectInv
  <2>2. Misnamed(c)'
    BY <1>1, <1>3, <1>4, <2>1, StaysSeen DEF RefusalInv
  <2>3. Right(c, "VALIDATION_ERROR")'
    BY <2>2 DEF Right
  <2> QED BY <1>7, <2>1, <2>3
<1>13. CASE Post(c)
  <2>1. /\ phase[c] = "run" /\ at'[c] = at[c] + 1 /\ at[c] \in Nat
        /\ \/ phase'[c] = "wait" /\ route'[c] = 1 /\ answer'[c] = "none"
           \/ phase'[c] = "done" /\ answer'[c] = "CONNECTION_ERROR"
    BY <1>4, <1>13 DEF Post, EffectInv, ConfirmInv
  <2> QED BY <1>5, <2>1
<1>14. CASE Handle(c)
  <2> DEFINE body == Last(request[c]).body
  <2>1. /\ at'[c] = at[c] /\ phase'[c] = phase[c] /\ answer'[c] = answer[c] /\ route[c] = 1
    BY <1>14 DEF Handle, callVars
  <2>2. PICK status \in Statuses(rows, standing, body) :
          /\ route'[c] = status
          /\ status # 200 => UNCHANGED <<rows, standing>>
    BY <1>14 DEF Handle, Last, EffectInv
  <2>3. CASE phase[c] = "done"
    BY <1>1, <1>3, <1>4, <2>1, <2>3, StaysRight DEF Right
  <2>4. CASE phase[c] # "done"
    <3>1. phase[c] = "wait" /\ at[c] # 0
      BY <1>4, <2>1, <2>4 DEF EffectInv, TypesInv
    <3>2. PICK s : s = Snapshot(rows', standing', request[c])
      OBVIOUS
    <3>3. s \in saw'[c]
      BY <1>3, <2>4, <3>2, SeenNow
    <3>4. /\ status = 404 => ~s.there
          /\ status = 403 => Role(body) \notin s.roles
          /\ status = 400 => s.there /\ ~s.sound
      BY <2>2, <3>2, RefusedByApp
    <3>5. LastBody(c)' = body
      BY <1>1 DEF LastBody, Last
    <3>6. /\ route'[c] = 404 => Gone(c)'
          /\ route'[c] = 403 => Lacking(c)'
          /\ route'[c] = 400 => Unsound(c)'
      BY <2>2, <3>3, <3>4, <3>5 DEF Gone, Lacking, Unsound
    <3> QED BY <1>4, <1>5, <2>1, <2>4, <3>1, <3>6
  <2> QED BY <2>3, <2>4
<1>15. CASE Receive(c)
  <2>1. PICK code \in Answers(c) : phase'[c] = "done" /\ answer'[c] = code
    BY <1>15 DEF Receive, EffectInv
  <2>2. phase[c] = "wait"
    BY <1>15 DEF Receive
  <2>3. /\ code = "NOT_FOUND" => Gone(c)
        /\ code = "FORBIDDEN" => Lacking(c)
        /\ code = "VALIDATION_ERROR" => LastBody(c).kind = "reference" /\ Unsound(c)
    BY <2>2, AnswerOf DEF RefusalInv
  <2>4. Right(c, code)
    BY <2>3 DEF Right
  <2>5. Right(c, code)'
    BY <1>1, <1>3, <1>4, <2>2, <2>4, StaysRight
  <2> QED BY <1>7, <2>1, <2>5
<1>16. ASSUME NEW d \in Call, QueryFails(d) \/ cascadeWarning(d) \/ Receive(d) \/ GiveUp(d), d # c
       PROVE  Kept(c)
  BY <1>8, <1>16 DEF QueryFails, cascadeWarning, Receive, GiveUp
<1>17. CASE Meddle
  BY <1>6, <1>17 DEF Meddle, callVars
<1> HIDE DEF Kept
<1>18. ASSUME NEW d \in Call, CallStep(d) \/ Handle(d) PROVE Kept(c)
  <2>1. CASE d = c
    BY <1>10, <1>11, <1>12, <1>13, <1>14, <1>15, <1>18, <2>1 DEF CallStep
  <2>2. CASE d # c
    BY <1>9, <1>16, <1>18, <2>2 DEF CallStep
  <2> QED BY <2>1, <2>2
<1> QED BY <1>3, <1>17, <1>18 DEF Next

\* A refusal was true of some moment of the call, however the rows and the roles change
\* while it runs and whoever made it (the resolvers and gates of each entity's functions,
\* FindByID and FindReferenceConfirmName, postLifecycle and postReference).
THEOREM RefusalsAreTrue == Spec => []RefusalIsTrue
<1>1. EffectInv /\ RefusalInv => RefusalIsTrue
  BY DEF RefusalInv, RefusalIsTrue, Right, Gone, Lacking, Misnamed, Unsound
<1>2. Spec => [](EffectInv /\ ConfirmInv /\ GateInv /\ StageInv /\ TypesInv /\ RefusalInv)
  BY EffectInit, EffectStep, ConfirmInit, ConfirmStep, GateInit, GateStep, StageInit, StageStep,
     TypesInit, TypesStep, RefusalInit, RefusalStep, PTL DEF Spec
<1> QED BY <1>1, <1>2, PTL
=============================================================================
