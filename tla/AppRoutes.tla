------------------------------ MODULE AppRoutes ------------------------------
(***************************************************************************)
(* The clients of the app's HTTP routes (internal/appapi): the body each   *)
(* operation posts and the code each status becomes; and the rows of       *)
(* projects, folders, boards and table references that the routes (which   *)
(* are external) change.                                                   *)
(*                                                                         *)
(* rows is a function from the ids in use to [kind, name, project, above,  *)
(* sourceBoard, sourceTable]: above is the row that this one hangs on, the *)
(* last two are None for all but references.                               *)
(***************************************************************************)
EXTENDS Integers, Sequences, FiniteSets, RoleGates

CONSTANTS Id,      \* ids of rows
          Spare,   \* those of rows that are created meanwhile
          None

ASSUME SpareAssumption == Spare \subseteq Id /\ None \notin Id

Kind == {"project", "folder", "whiteboard", "canvas board", "table"}

\* A body: the fields f that the caller gave, the others being left out of it; and
\* the code that the operation makes of a 404.
Body(op, kind, id, f, missing) == [op |-> op, kind |-> kind, id |-> id, f |-> f, missing |-> missing]

Only(keys, f) == [k \in keys \cap DOMAIN f |-> f[k]]

CreateProject(r) == Body("create", "project", None, Only({"name"}, r.set), "CONNECTION_ERROR")

UpdateProject(r) == Body("update", "project", r.id, Only({"name"}, r.set), "NOT_FOUND")

DeleteProject(r) == Body("delete", "project", r.id, <<>>, "NOT_FOUND")

CreateFolder(r) ==
  Body("create", "folder", None, Only({"project", "name", "above"}, r.set), "CONNECTION_ERROR")

\* A folder is renamed and never moved.
UpdateFolder(r) == Body("update", "folder", r.id, Only({"name"}, r.set), "NOT_FOUND")

DeleteFolder(r) == Body("delete", "folder", r.id, <<>>, "NOT_FOUND")

CreateWhiteboard(r) ==
  Body("create", "whiteboard", None, Only({"project", "name", "above"}, r.set), "CONNECTION_ERROR")

UpdateWhiteboard(r) ==
  Body("update", "whiteboard", r.id, Only({"name", "above"}, r.set), "NOT_FOUND")

DeleteWhiteboard(r) == Body("delete", "whiteboard", r.id, <<>>, "NOT_FOUND")

CreateCanvasBoard(r) ==
  Body("create", "canvas board", None, Only({"project", "name", "above"}, r.set), "NOT_FOUND")

UpdateCanvasBoard(r) ==
  Body("update", "canvas board", r.id, Only({"name", "above"}, r.set), "NOT_FOUND")

DeleteCanvasBoard(r) == Body("delete", "canvas board", r.id, <<>>, "NOT_FOUND")

CreateTableReference(r) ==
  Body("create", "reference", None, Only({"above", "sourceBoard", "sourceTable"}, r.set),
       "CONNECTION_ERROR")

UpdateTableReference(r) ==
  Body("update", "reference", r.id, Only({"sourceBoard", "sourceTable"}, r.set), "NOT_FOUND")

DeleteTableReference(r) == Body("delete", "reference", r.id, <<>>, "NOT_FOUND")

ListTableReferences(r) == Body("list", "reference", r.id, <<>>, "NOT_FOUND")
-----------------------------------------------------------------------------
(* The code of a status that is not in the 200s.                           *)

\* Mutant: only the statuses with a message of their own are errors.
NamedStatusOnly(status, missing) ==
  CASE status = 401 -> "SESSION_EXPIRED"
    [] status = 403 -> "FORBIDDEN"
    [] status = 404 -> missing
    [] status = 429 -> "CONNECTION_ERROR"
    [] OTHER -> "none"

lifecycleStatusError(status, missing) ==
  CASE status = 401 -> "SESSION_EXPIRED"
    [] status = 403 -> "FORBIDDEN"
    [] status = 404 -> missing
    [] OTHER -> "CONNECTION_ERROR"

\* The canvas board route gives no status a limit of its own: a 429 is any other.
statusError(status, missing) ==
  CASE status = 401 -> "SESSION_EXPIRED"
    [] status = 403 -> "FORBIDDEN"
    [] status = 404 -> missing
    [] OTHER -> "CONNECTION_ERROR"

\* The reference route says in a 400 what is wrong with the source.
referenceStatusError(status, missing) ==
  CASE status = 400 -> "VALIDATION_ERROR"
    [] status = 401 -> "SESSION_EXPIRED"
    [] status = 403 -> "FORBIDDEN"
    [] status = 404 -> missing
    [] OTHER -> "CONNECTION_ERROR"

\* What a call answers to a response: a 2xx is "ok" if the row can be read in it.
lifecycleAnswers(status, missing) ==
  IF status = 200 THEN {"ok", "CONNECTION_ERROR"} ELSE {lifecycleStatusError(status, missing)}

canvasBoardAnswers(status, missing) ==
  IF status = 200 THEN {"ok", "CONNECTION_ERROR"} ELSE {statusError(status, missing)}

referenceAnswers(status, missing) ==
  IF status = 200 THEN {"ok", "CONNECTION_ERROR"} ELSE {referenceStatusError(status, missing)}
-----------------------------------------------------------------------------
(* The routes.  They check the role again and do what the body says.       *)

\* id and the rows that hang on it: what a foreign key deletes with it.
Under(rows, id) ==
  LET reach[n \in 0..Cardinality(DOMAIN rows)] ==
        IF n = 0 THEN {id}
        ELSE LET nearer == reach[n - 1]
             IN  nearer \cup {k \in DOMAIN rows : rows[k].above \in nearer}
  IN  reach[Cardinality(DOMAIN rows)]

Without(rows, ids) == [k \in DOMAIN rows \ ids |-> rows[k]]

IsA(rows, id, kind) ==
  /\ id \in DOMAIN rows
  /\ \/ rows[id].kind = kind
     \/ kind = "reference" /\ rows[id].kind = "table" /\ rows[id].sourceTable # None

\* What the body is about: the row it names or the one the new row is to hang on.
Target(body) ==
  IF body.op # "create" THEN body.id
  ELSE CASE body.kind = "project"   -> None
         [] body.kind = "reference" -> body.f.above
         [] OTHER                   -> body.f.project

TargetKind(body) ==
  IF body.op \in {"update", "delete"} THEN body.kind
  ELSE IF body.kind = "reference" THEN "whiteboard" ELSE "project"

Role(body) ==
  CASE body.op = "list" -> "access"
    [] body.kind = "project" /\ body.op = "update" -> "admin"
    [] body.kind = "project" /\ body.op = "delete" -> "owner"
    [] OTHER -> "edit"

\* A new project hangs on nothing.
HangsFree(body) == body.op = "create" /\ body.kind = "project"

Exists(rows, body) == HangsFree(body) \/ IsA(rows, Target(body), TargetKind(body))

Permits(rows, standing, body) ==
  HangsFree(body) \/ Passes(Role(body), standing[rows[Target(body)].project])

\* A reference is of a table that lives on the board it names, in the same project.
SourceStands(rows, body) ==
  "sourceTable" \in DOMAIN body.f =>
    /\ body.f.sourceTable \in DOMAIN rows
    /\ rows[body.f.sourceTable].above = body.f.sourceBoard
    /\ rows[body.f.sourceTable].project = rows[Target(body)].project

NewRow(rows, body, new) ==
  [kind |-> IF body.kind = "reference" THEN "table" ELSE body.kind,
   name |-> IF body.kind = "reference" THEN rows[body.f.sourceTable].name ELSE body.f.name,
   project |-> IF body.kind = "project" THEN new ELSE rows[Target(body)].project,
   above |-> IF "above" \in DOMAIN body.f THEN body.f.above ELSE Target(body),
   sourceBoard |-> IF body.kind = "reference" THEN body.f.sourceBoard ELSE None,
   sourceTable |-> IF body.kind = "reference" THEN body.f.sourceTable ELSE None]

New(rows) == CHOOSE k \in Spare \ DOMAIN rows : TRUE

Performed(rows, body) ==
  CASE body.op = "create" ->
         [k \in DOMAIN rows \cup {New(rows)} |->
            IF k \in DOMAIN rows THEN rows[k] ELSE NewRow(rows, body, k)]
    [] body.op = "update" ->
         [rows EXCEPT ![body.id] =
            [k \in DOMAIN @ |-> IF k \in DOMAIN body.f THEN body.f[k] ELSE @[k]]]
    [] body.op = "delete" -> Without(rows, Under(rows, body.id))
    [] OTHER -> rows

\* The statuses the route may answer with, 200 standing for having done it.
Statuses(rows, standing, body) ==
  {401, 429, 500}
  \cup (IF ~Exists(rows, body) THEN {403, 404}
        ELSE IF ~Permits(rows, standing, body) THEN {403}
        ELSE IF ~SourceStands(rows, body) THEN {400}
        ELSE IF body.op = "create" /\ Spare \subseteq DOMAIN rows THEN {500}
        ELSE {200})
=============================================================================
