------------------------------ MODULE EditTools ------------------------------
(***************************************************************************)
(* Calls of the editing tools, side by side, on one project's boards: each *)
(* validates its request, makes its queries, and sends its writes one by   *)
(* one, while other calls and other users change the same rows.            *)
(*                                                                         *)
(* DiagramTools and CanvasTools say what each tool does.  A write goes out *)
(* through SocketEmitWithAck, of which WriteDelivery says what may be      *)
(* relied on; this module takes its steps.                                 *)
(***************************************************************************)
EXTENDS CanvasTools

CONSTANTS
  Call,
  Scenario,       \* the initial states: [rows, request], request a function on Call
  MaxWrites,      \* bounds the writes of a call
  MaxMeddling     \* bounds what other users do

VARIABLES
  rows,           \* the boards' rows
  standing,       \* the caller's role in the project
  request,        \* request[c]
  phase,          \* phase[c]: "validate", "query", "emit", "wait", "done"
  seen,           \* seen[c]: what c's queries returned
  sent,           \* sent[c]: how many of its writes c has sent
  results,        \* results[c]: how each of them ended
  answer,         \* answer[c]: the code c answered, "ok" or "none"
  outcome,        \* outcome[w], handled[w]: those of WriteDelivery, a write being
  handled,        \*   <<c, n>>
  reply,          \* reply[w]: what the server said of w each time it handled it
  meddled

Sending == Call \X (1..MaxWrites)

Delivery == INSTANCE WriteDelivery WITH Call <- Sending

callVars  == <<phase, seen, sent, results, answer>>
writeVars == <<outcome, handled, reply>>
vars == <<rows, standing, request, callVars, writeVars, meddled>>
-----------------------------------------------------------------------------
(* The tools by name.                                                      *)

Valid(r) ==
  CASE r.tool = "update_table"            -> updateTableValid(r)
    [] r.tool = "bulk_update_positions"   -> positionsValid(r)
    [] r.tool = "reorder_columns"         -> reorderColumnsValid(r)
    [] r.tool = "update_canvas_element"   -> updateElementValid(r)
    [] r.tool = "create_canvas_connector" -> createConnectorValid(r)
    [] OTHER -> TRUE

Steps(r, read) ==
  CASE r.tool \in {"create_area", "create_table", "create_relationship"} -> createSteps(r)
    [] r.tool \in {"add_table_to_area", "remove_table_from_area"} ->
         mutateAreaMembershipSteps(r, read)
    [] r.tool = "move_area" -> moveAreaSteps(r, read)
    [] r.tool \in {"update_table", "delete_table"} -> tableSteps(r)
    [] r.tool = "bulk_update_positions" -> positionsSteps(r)
    [] r.tool \in {"create_column", "reorder_columns"} -> tableColumnSteps(r.id)
    [] r.tool \in {"update_column", "delete_column"} -> columnSteps(r, read)
    [] r.tool \in {"update_relationship", "delete_relationship"} -> relationshipSteps(r)
    [] r.tool = "create_canvas_connector" -> createConnectorSteps(r)
    [] r.tool = "update_canvas_connector" -> updateConnectorSteps(r)
    [] OTHER -> authorizeCanvasEdit(r)

\* What a tool refuses after it has read.
Refusal(r, read) ==
  CASE r.tool = "move_area" -> moveAreaRefusal(read)
    [] r.tool = "update_canvas_connector" -> updateConnectorRefusal(r, read[3])
    [] OTHER -> "none"

Writes(r, read) ==
  CASE r.tool = "create_area"             -> createAreaWrites(r)
    [] r.tool \in {"add_table_to_area", "remove_table_from_area"} ->
         mutateAreaMembershipWrites(r, read)
    [] r.tool = "move_area"               -> moveAreaWrites(r, read)
    [] r.tool = "create_table"            -> createTableWrites(r)
    [] r.tool = "update_table"            -> updateTableWrites(r, read)
    [] r.tool = "delete_table"            -> deleteTableWrites(r, read)
    [] r.tool = "bulk_update_positions"   -> positionsWrites(r)
    [] r.tool = "create_column"           -> createColumnWrites(r, read)
    [] r.tool = "update_column"           -> updateColumnWrites(r, read)
    [] r.tool = "delete_column"           -> deleteColumnWrites(r, read)
    [] r.tool = "reorder_columns"         -> reorderColumnsWrites(r, read)
    [] r.tool = "create_relationship"     -> createRelationshipWrites(r)
    [] r.tool = "update_relationship"     -> updateRelationshipWrites(r, read)
    [] r.tool = "delete_relationship"     -> deleteRelationshipWrites(r, read)
    [] r.tool = "create_canvas_element"   -> createElementWrites(r)
    [] r.tool = "update_canvas_element"   -> updateElementWrites(r)
    [] r.tool = "delete_canvas_element"   -> deleteElementWrites(r)
    [] r.tool = "create_canvas_connector" -> createConnectorWrites(r)
    [] r.tool = "update_canvas_connector" -> updateConnectorWrites(r, read[3])

Payload(c, n) == Writes(request[c], seen[c])[n]

\* What the schema of a tool's parameters lets through.
Tool ==
  {"create_area", "add_table_to_area", "remove_table_from_area", "move_area", "create_table",
   "update_table", "delete_table", "bulk_update_positions", "create_column", "update_column",
   "delete_column", "reorder_columns", "create_relationship", "update_relationship",
   "delete_relationship", "create_canvas_element", "update_canvas_element",
   "delete_canvas_element", "create_canvas_connector", "update_canvas_connector"}

\* The fields a tool lets its caller name.
FieldsOf(tool) ==
  CASE tool = "create_area" -> {"x", "y", "width", "height", "members"}
    [] tool = "move_area" -> {"x", "y"}
    [] tool \in {"create_table", "update_table"} -> {"name", "width", "x", "y"}
    [] tool = "create_column" -> {"name", "order", "table"}
    [] tool = "update_column" -> {"name"}
    [] tool \in {"create_relationship", "update_relationship"} -> {"source", "target", "label"}
    [] tool \in {"create_canvas_element", "update_canvas_element"} -> ElementFields
    [] tool \in {"create_canvas_connector", "update_canvas_connector"} -> PropKeys
    [] OTHER -> {}

Measure == {"x", "y", "width", "height"}

\* Places and sizes are numbers, and the members of an area a list of ids.
TypedFields(f) ==
  /\ \A k \in Measure \cap DOMAIN f : f[k] \in Int
  /\ "members" \in DOMAIN f => f.members \in Seq(Id)

MembershipTool == {"add_table_to_area", "remove_table_from_area"}

Accepted(r) ==
  /\ r.tool \in Tool
  /\ r.tool \notin MembershipTool \cup {"bulk_update_positions", "reorder_columns"} =>
       DOMAIN r.set \subseteq FieldsOf(r.tool) /\ TypedFields(r.set)
  /\ r.tool \in {"create_area", "move_area", "create_relationship"} =>
       DOMAIN r.set = FieldsOf(r.tool)
  /\ r.tool = "update_canvas_connector" => \A k \in DOMAIN r.set : r.set[k] # None
  /\ r.tool \in MembershipTool => r.member \in Id
  /\ r.tool = "bulk_update_positions" => r.positions \in Seq([id : Id, x : Int, y : Int])

\* The rows one may begin with: each on a board of its kind, connectors with ends
\* of one form and apart.
CanvasKind == {"element", "connector", "unreadable"}

WellFormedEnds(f) ==
  /\ \A end \in End : (f[IdKey(end)] = None) # (f[PointKey(end)] = None)
  /\ checkCanvasConnectorNotSelf(f.sourceElementId, f.targetElementId)

SoundRow(row) ==
  /\ row.kind \in Kind
  /\ row.board \in (IF row.kind \in CanvasKind THEN CanvasBoard ELSE Whiteboard)
  /\ row.kind = "connector" => DOMAIN row.f = PropKeys /\ WellFormedEnds(row.f)

\* What a row is, and what it stores in the fields that are computed with.
TypedRow(row) ==
  /\ DOMAIN row = {"kind", "board", "f"}
  /\ row.kind = "table" =>
       \A k \in {"x", "y", "width"} : k \in DOMAIN row.f /\ row.f[k] \in Int \cup {None}
  /\ row.kind = "area" => Measure \cup {"members"} \subseteq DOMAIN row.f /\ TypedFields(row.f)

\* Nobody names a row before it has its id: a new row's id is drawn by the server.
NamesNoSpare(r) ==
  /\ r.tool \in MembershipTool => r.id \notin Spare /\ r.member \notin Spare
  /\ r.tool = "create_area" => r.set.members \in Seq(Id \ Spare)

ASSUME ScenarioAssumption ==
  \A s \in Scenario :
    /\ \A c \in Call : Accepted(s.request[c])
    /\ DOMAIN s.rows \subseteq Id /\ IsFiniteSet(DOMAIN s.rows)
    /\ \A id \in DOMAIN s.rows : SoundRow(s.rows[id]) /\ TypedRow(s.rows[id])

ASSUME NamesAssumption ==
  \A s \in Scenario :
    /\ \A c \in Call : NamesNoSpare(s.request[c])
    /\ \A id \in DOMAIN s.rows :
         s.rows[id].kind = "area" => s.rows[id].f.members \in Seq(Id \ Spare)

ASSUME BoundsAssumption ==
  /\ MaxPositions \in Nat /\ MaxWrites \in Nat /\ MaxMeddling \in Nat
  /\ 2 <= MaxWrites /\ MaxPositions <= MaxWrites
-----------------------------------------------------------------------------
(* A call.                                                                 *)

Init ==
  /\ \E s \in Scenario : rows = s.rows /\ request = s.request
  /\ standing = [owner |-> FALSE, member |-> "EDITOR"]
  /\ phase = [c \in Call |-> "validate"]
  /\ seen = [c \in Call |-> <<>>]
  /\ sent = [c \in Call |-> 0]
  /\ results = [c \in Call |-> <<>>]
  /\ answer = [c \in Call |-> "none"]
  /\ Delivery!Init
  /\ reply = [w \in Sending |-> {}]
  /\ meddled = 0

Answer(c, code) ==
  /\ answer' = [answer EXCEPT ![c] = code]
  /\ phase' = [phase EXCEPT ![c] = "done"]

Validate(c) ==
  /\ phase[c] = "validate"
  /\ IF Valid(request[c])
     THEN phase' = [phase EXCEPT ![c] = "query"] /\ UNCHANGED answer
     ELSE Answer(c, "VALIDATION_ERROR")
  /\ UNCHANGED <<rows, standing, request, seen, sent, results, writeVars, meddled>>

\* The next query, or, when there is none, the tool's last check.
Query(c) ==
  LET steps == Steps(request[c], seen[c])
      n     == Len(seen[c]) + 1
      verdict == Verdict(rows, standing, steps[n])
  IN
  /\ phase[c] = "query" /\ n <= Len(steps)
  /\ seen' = [seen EXCEPT ![c] = Append(@, RowOf(rows, steps[n]))]
  /\ IF verdict = "ok" THEN UNCHANGED <<phase, answer>> ELSE Answer(c, verdict)
  /\ UNCHANGED <<rows, standing, request, sent, results, writeVars, meddled>>

\* The database fails a query.
QueryFails(c) ==
  /\ phase[c] = "query" /\ Len(seen[c]) < Len(Steps(request[c], seen[c]))
  /\ Answer(c, "INTERNAL_ERROR")
  /\ UNCHANGED <<rows, standing, request, seen, sent, results, writeVars, meddled>>

Prepare(c) ==
  LET refusal == Refusal(request[c], seen[c])
  IN
  /\ phase[c] = "query" /\ Len(seen[c]) = Len(Steps(request[c], seen[c]))
  /\ IF refusal = "none"
     THEN phase' = [phase EXCEPT ![c] = "emit"] /\ UNCHANGED answer
     ELSE Answer(c, refusal)
  /\ UNCHANGED <<rows, standing, request, seen, sent, results, writeVars, meddled>>

Emit(c) ==
  /\ phase[c] = "emit"
  /\ sent' = [sent EXCEPT ![c] = @ + 1]
  /\ phase' = [phase EXCEPT ![c] = "wait"]
  /\ UNCHANGED <<rows, standing, request, seen, results, answer, writeVars, meddled>>

\* Mutant: update_table moves the table whatever became of its update.
MovesAnyway(r, result) == result = "ok" \/ r.tool \in {"bulk_update_positions", "update_table"}

\* One write has ended.  A tool stops at the first that fails; only
\* bulk_update_positions goes on, and answers with the list.
GoesOn(r, result) == result = "ok" \/ r.tool = "bulk_update_positions"

Proceed(c, result) ==
  /\ results' = [results EXCEPT ![c] = Append(@, result)]
  /\ IF ~GoesOn(request[c], result) THEN Answer(c, result)
     ELSE IF sent[c] < Len(Writes(request[c], seen[c]))
     THEN phase' = [phase EXCEPT ![c] = "emit"] /\ UNCHANGED answer
     ELSE Answer(c, "ok")
  /\ UNCHANGED <<rows, standing, request, seen, sent, handled, reply, meddled>>

Acked(c) ==
  LET w == <<c, sent[c]>>
  IN
  /\ phase[c] = "wait"
  /\ Delivery!Succeed(w)
  /\ \E result \in reply[w] : Proceed(c, result)

\* Mutant: a failed write of a list is sent once more and has two results.
FailsTwice(c) ==
  LET w == <<c, sent[c]>>
  IN
  /\ phase[c] = "wait"
  /\ Delivery!Fail({w})
  /\ results' = [results EXCEPT ![c] = @ \o <<outcome'[w], outcome'[w]>>]
  /\ Answer(c, outcome'[w])
  /\ UNCHANGED <<rows, standing, request, seen, sent, handled, reply, meddled>>

EmitFails(c) ==
  LET w == <<c, sent[c]>>
  IN
  /\ phase[c] = "wait"
  /\ Delivery!Fail({w})
  /\ Proceed(c, outcome'[w])

\* The server handles a write: it stores it, or refuses it (external; it may refuse
\* any write, and does so if the row is not on the board).
Handle(c, n) ==
  LET w == <<c, n>>
  IN
  /\ n <= sent[c]
  /\ Delivery!Handle(w)
  /\ \/ /\ Accepts(rows, Payload(c, n))
        /\ rows' = Store(rows, Payload(c, n))
        /\ reply' = [reply EXCEPT ![w] = @ \cup {"ok"}]
     \/ /\ reply' = [reply EXCEPT ![w] = @ \cup {"refused"}]
        /\ UNCHANGED rows
  /\ UNCHANGED <<standing, request, callVars, meddled>>

\* Another user deletes a row, or an administrator changes the caller's role.
Meddle ==
  /\ meddled < MaxMeddling
  /\ meddled' = meddled + 1
  /\ \/ /\ \E id \in DOMAIN rows \ Spare : rows' = Without(rows, Dependants(rows, id))
        /\ UNCHANGED standing
     \/ /\ \E role \in {"no row", "VIEWER"} : standing' = [standing EXCEPT !.member = role]
        /\ UNCHANGED rows
  /\ UNCHANGED <<request, callVars, writeVars>>

CallStep(c) ==
  Validate(c) \/ Query(c) \/ QueryFails(c) \/ Prepare(c) \/ Emit(c) \/ Acked(c) \/ EmitFails(c)

Next ==
  \/ \E c \in Call : CallStep(c)
  \/ \E c \in Call, n \in 1..MaxWrites : Handle(c, n)
  \/ Meddle

Spec == Init /\ [][Next]_vars
-----------------------------------------------------------------------------
(* Properties.                                                             *)

Result == {"ok", "refused", "connErr", "expired"}

\* Every variable keeps its type; a call answers once, with one result for each
\* write it has sent and awaited.
TypeOK ==
  /\ DOMAIN rows \subseteq Id
  /\ \A id \in DOMAIN rows : rows[id].kind \in Kind /\ rows[id].board \in Board
  /\ standing \in Standing
  /\ phase \in [Call -> {"validate", "query", "emit", "wait", "done"}]
  /\ sent \in [Call -> 0..MaxWrites]
  /\ \A c \in Call : /\ results[c] \in Seq(Result)
                     /\ Len(results[c]) = sent[c] - (IF phase[c] = "wait" THEN 1 ELSE 0)
                     /\ (phase[c] = "done") = (answer[c] # "none")
  /\ Delivery!TypeOK
  /\ reply \in [Sending -> SUBSET {"ok", "refused"}]
  /\ meddled \in 0..MaxMeddling

\* The step handles write n of call c and stores it.
Stores(c, n) ==
  /\ handled'[<<c, n>>] # handled[<<c, n>>]
  /\ rows' # rows

\* update_table and update_canvas_connector send values that the caller did not
\* name: the other axis, the other end, the whole props.  Those were read before.
\* Where the row still has what was read when the write is stored, the write changes
\* exactly what the caller named (an axis that was NULL becomes 0).
Touched(r) ==
  DOMAIN r.set \cup UNION {{IdKey(end), PointKey(end)} :
                             end \in {e \in End : {IdKey(e), PointKey(e)} \cap DOMAIN r.set # {}}}

AsRead(c, w) == \A k \in DOMAIN w.f : rows[w.id].f[k] = seen[c][3].f[k]

NamedChange(c, n) ==
  LET w == Payload(c, n)
  IN  /\ Stores(c, n)
      /\ request[c].tool \in {"update_table", "update_canvas_connector"}
      /\ AsRead(c, w)
      => \A k \in DOMAIN rows[w.id].f :
           /\ k \in DOMAIN w.f \cap DOMAIN request[c].set
                => rows'[w.id].f[k] = request[c].set[k]
           /\ k \notin Touched(request[c])
                => \/ rows'[w.id].f[k] = rows[w.id].f[k]
                   \/ k \in {"x", "y"} /\ rows[w.id].f[k] = None

ChangesOnlyWhatIsNamed == [][\A c \in Call, n \in 1..MaxWrites : NamedChange(c, n)]_vars

\* The members of an area are distinct and, as far as they exist, tables of its
\* board.  Calls read the list, change it and write it back whole, and writes may be
\* stored late, twice and out of order; none of this makes a sound area unsound, if
\* the lists that were read are sound.  (create_area writes the caller's list as it
\* is.  A call that read an unsound one writes it back over a repair made meanwhile.)
Sound(state, area) ==
  LET members == area.f.members
  IN  /\ \A m, n \in DOMAIN members : members[m] = members[n] => m = n
      /\ \A n \in DOMAIN members :
           members[n] \in DOMAIN state =>
             /\ state[members[n]].kind = "table"
             /\ state[members[n]].board = area.board

Areas(state) == {id \in DOMAIN state : state[id].kind = "area"}

\* What the calls that change the list of area id have read of it.
ReadAreas(id) ==
  {seen[c][1] : c \in {d \in Call :
     /\ request[d].tool \in MembershipTool
     /\ request[d].id = id /\ seen[d] # <<>>}} \ {None}

StaysSound(id) ==
  (\A area \in ReadAreas(id) \cup {rows[id]} : Sound(rows, area)) => Sound(rows', rows'[id])

SoundAreasStaySound == [][\A id \in Areas(rows) \cap Areas(rows') : StaysSound(id)]_vars

\* The tables that a query finds, with a place.
PlacedTables(state) ==
  {id \in DOMAIN state : LET table == FindDiagramTableByID(state, id)
                         IN  table # None /\ Placed(table)}

\* Adding a table to an area or removing one fits the area to its members: if they
\* are stored as they were read, every placed member lies inside, below the label and
\* with the padding around it.
Inside(state, table, area) ==
  LET t == state[table].f
      a == state[area].f
      width == IF t.width = None THEN 250 ELSE t.width
      lines == CountColumnsByTableID(state, table) + 1
  IN  /\ a.x + 24 <= t.x /\ t.x + width + 24 <= a.x + a.width
      /\ a.y + 32 + 24 <= t.y /\ t.y + 40 + 28 * lines + 12 + 24 <= a.y + a.height

MembersAsRead(c) ==
  LET steps == Steps(request[c], seen[c])
  IN  \A n \in 5..Len(steps) : RowOf(rows, steps[n]) = seen[c][n]

Encloses(c) ==
  LET id == request[c].id
      members == rows'[id].f.members
  IN  /\ Stores(c, 1)
      /\ request[c].tool \in MembershipTool
      /\ MembersAsRead(c)
      => \A n \in DOMAIN members :
           members[n] \in PlacedTables(rows') => Inside(rows', members[n], id)

AreaEnclosesMembers == [][\A c \in Call : Encloses(c)]_vars

\* move_area is a rigid translation: if the area and its members are stored as they
\* were read, the placed members on its board move by its own displacement, and no other
\* placed table moves.
\* The tables that move with area a.
Joined(a) ==
  {id \in PlacedTables(rows) :
     /\ rows[id].board = rows[a].board
     /\ \E n \in DOMAIN rows[a].f.members : rows[a].f.members[n] = id}

Displaced(id, dx, dy) ==
  /\ rows'[id].f.x = rows[id].f.x + dx
  /\ rows'[id].f.y = rows[id].f.y + dy

MovesAsOne(c) ==
  LET r == request[c]
      dx == rows'[r.id].f.x - rows[r.id].f.x
      dy == rows'[r.id].f.y - rows[r.id].f.y
  IN  /\ Stores(c, 1) /\ r.tool = "move_area"
      /\ \A n \in DOMAIN seen[c] \ {2, 3} : RowOf(rows, Steps(r, seen[c])[n]) = seen[c][n]
      => \A id \in PlacedTables(rows) :
           IF id \in Joined(r.id) THEN Displaced(id, dx, dy) ELSE Displaced(id, 0, 0)

MovesRigidly == [][\A c \in Call : MovesAsOne(c)]_vars

\* A stored connector has exactly one form for each end and does not join an element
\* to itself, whatever ends two updates set at the same time: props are written whole.
ConnectorsWellFormed ==
  \A id \in DOMAIN rows : rows[id].kind = "connector" => WellFormedEnds(rows[id].f)

\* What a call answers is true of the server: "ok" means that each of its writes was
\* stored (bulk_update_positions: each one listed as updated, and every position is
\* listed), its own refusal that none was ever sent.  update_table moves a table only
\* once its update is stored: a write follows stored ones only.
AnswerTellsStored ==
  \A c \in Call :
    /\ \A n \in DOMAIN results[c] : results[c][n] = "ok" => "ok" \in reply[<<c, n>>]
    /\ request[c].tool # "bulk_update_positions" =>
         \A n \in 1..(sent[c] - 1) : "ok" \in reply[<<c, n>>]
    /\ answer[c] = "ok" => Len(results[c]) = Len(Writes(request[c], seen[c]))
    /\ answer[c] \in {"VALIDATION_ERROR", "NOT_FOUND", "FORBIDDEN", "INTERNAL_ERROR"} =>
         \A n \in 1..MaxWrites : handled[<<c, n>>] = 0
=============================================================================
