----------------------------- MODULE CanvasTools -----------------------------
(***************************************************************************)
(* The tools that edit a canvas board: internal/tools/canvas_write.go and  *)
(* canvas_connector.go.                                                    *)
(*                                                                         *)
(* A connector is an element whose props hold its routing and, for each    *)
(* end, an element id (null for a free end) or a point: exactly one.  No   *)
(* foreign key ties the ids to elements.  Ranges of coordinates, sizes and *)
(* style values are left out.                                              *)
(***************************************************************************)
EXTENDS DiagramTools

End == {"source", "target"}

IdKey(end) == IF end = "source" THEN "sourceElementId" ELSE "targetElementId"

PointKey(end) == IF end = "source" THEN "sourcePoint" ELSE "targetPoint"

EndKeys == {IdKey(end) : end \in End} \cup {PointKey(end) : end \in End}

PropKeys == EndKeys \cup {"routing", "curvature"}

\* What the caller gave for a key: a value, or None.
Given(r, key) == IF key \in DOMAIN r.set THEN r.set[key] ELSE None

\* The gate of every canvas edit: the board's project, then the editor role.
authorizeCanvasEdit(r) == <<Must("project of canvas board", r.board), Gate("edit")>>
-----------------------------------------------------------------------------
(* Shapes and texts.                                                       *)

ElementFields == {"x", "y", "width", "height", "zIndex", "text", "style"}

createElementWrites(r) ==
  <<Write("create", r.board, None, "element", WithDefaults(r, ElementFields))>>

\* An update that names no field is refused before anything is sent.
updateElementValid(r) == DOMAIN r.set # {}

\* Only the named fields are sent; style is one field, written whole.  The row
\* itself is not read: the server says whether it is on the board.
updateElementWrites(r) ==
  <<Write("update", r.board, r.id, "element", Named(r, ElementFields))>>

deleteElementWrites(r) ==
  <<Write("delete", r.board, r.id, "element", NoMoves)>>
-----------------------------------------------------------------------------
(* Connectors.                                                             *)

checkCanvasConnectorEnd(r, end) ==
  (Given(r, IdKey(end)) = None) # (Given(r, PointKey(end)) = None)

NamesEnd(r, end) == Given(r, IdKey(end)) # None \/ Given(r, PointKey(end)) # None

checkCanvasConnectorNotSelf(source, target) ==
  source = None \/ target = None \/ source # target

\* Mutant: the point of an end that is attached to an element stays.
PointStays(props, r, end) ==
  IF Given(r, IdKey(end)) # None
  THEN [props EXCEPT ![IdKey(end)] = Given(r, IdKey(end))]
  ELSE [props EXCEPT ![IdKey(end)] = None, ![PointKey(end)] = Given(r, PointKey(end))]

\* Setting one form of an end removes the other.
applyCanvasConnectorEnd(props, r, end) ==
  IF Given(r, IdKey(end)) # None
  THEN [props EXCEPT ![IdKey(end)] = Given(r, IdKey(end)), ![PointKey(end)] = None]
  ELSE [props EXCEPT ![IdKey(end)] = None, ![PointKey(end)] = Given(r, PointKey(end))]

\* The request alone decides whether a create is well formed.
createConnectorValid(r) ==
  /\ Given(r, "routing") # None
  /\ \A end \in End : checkCanvasConnectorEnd(r, end)
  /\ checkCanvasConnectorNotSelf(Given(r, "sourceElementId"), Given(r, "targetElementId"))

loadCanvasElementOnBoard(board, id) == OnBoard("element", id, board, "NOT_FOUND")

\* The gate first; then each end that is attached must name an element of the board.
createConnectorSteps(r) ==
  LET attached(end) == IF Given(r, IdKey(end)) = None THEN <<>>
                       ELSE <<loadCanvasElementOnBoard(r.board, Given(r, IdKey(end)))>>
  IN  authorizeCanvasEdit(r) \o attached("source") \o attached("target")

buildCanvasConnectorProps(r) ==
  applyCanvasConnectorEnd(
    applyCanvasConnectorEnd([k \in PropKeys |-> Given(r, k)], r, "source"), r, "target")

createConnectorWrites(r) ==
  <<Write("create", r.board, None, "connector", buildCanvasConnectorProps(r))>>

updateConnectorSteps(r) ==
  authorizeCanvasEdit(r) \o <<loadCanvasElementOnBoard(r.board, r.id)>>

\* Mutant: what the request does not name of routing and curvature is reset.
TypedRoundTrip(stored, r) ==
  LET props == [k \in PropKeys |-> IF k \in {"routing", "curvature"} THEN Given(r, k)
                                   ELSE stored[k]]
      source == IF NamesEnd(r, "source") THEN applyCanvasConnectorEnd(props, r, "source")
                ELSE props
  IN  IF NamesEnd(r, "target") THEN applyCanvasConnectorEnd(source, r, "target") ELSE source

\* The stored props with what the request names in place of its own; whatever it
\* does not name is written back as it was read.
mergeCanvasConnectorProps(stored, r) ==
  LET props == [k \in PropKeys |->
                  IF k \in {"routing", "curvature"} /\ Given(r, k) # None THEN Given(r, k)
                  ELSE stored[k]]
      source == IF NamesEnd(r, "source") THEN applyCanvasConnectorEnd(props, r, "source")
                ELSE props
  IN  IF NamesEnd(r, "target") THEN applyCanvasConnectorEnd(source, r, "target") ELSE source

\* Checked of the merged props: an end, or the routing, may be the stored one (None
\* if that is not a routing).  The new ends are not looked up.  The row and its props
\* must both say that they are a connector's.
updateConnectorRefusal(r, el) ==
  LET merged == mergeCanvasConnectorProps(el.f, r)
  IN  IF el.kind = "unreadable" THEN "INTERNAL_ERROR"
      ELSE IF
         /\ el.kind = "connector"
         /\ \A end \in End : NamesEnd(r, end) => checkCanvasConnectorEnd(r, end)
         /\ \E k \in PropKeys : Given(r, k) # None
         /\ checkCanvasConnectorNotSelf(merged.sourceElementId, merged.targetElementId)
         /\ merged.routing # None
      THEN "none" ELSE "VALIDATION_ERROR"

updateConnectorWrites(r, el) ==
  <<Write("update", r.board, r.id, "connector", mergeCanvasConnectorProps(el.f, r))>>
=============================================================================
