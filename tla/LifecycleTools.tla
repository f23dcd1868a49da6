---------------------------- MODULE LifecycleTools ----------------------------
(***************************************************************************)
(* Calls of the tools that create, change and delete projects, folders,    *)
(* boards and table references, side by side.  A tool checks its request,  *)
(* asks the database for the caller's role, a delete compares the name     *)
(* that its caller confirms, and then one request goes to the app, which   *)
(* checks again and does it.  Other users act in between, and the answer   *)
(* to the request may be late or lost.                                     *)
(***************************************************************************)
EXTENDS AppRoutes

CONSTANTS
  Call,
  Name,           \* names
  Empty,          \* the empty name
  Scenario,       \* the initial states: [rows, standing, request]
  MaxMeddling     \* bounds what other users do

ASSUME EmptyAssumption == Empty \notin Name

ASSUME BoundAssumption == MaxMeddling \in Nat

Tool == {"create_project", "update_project", "delete_project",
         "create_folder", "update_folder", "delete_folder",
         "create_whiteboard", "update_whiteboard", "delete_whiteboard",
         "create_canvas_board", "update_canvas_board", "delete_canvas_board",
         "create_table_reference", "update_table_reference", "delete_table_reference",
         "list_table_references"}

\* A project is its own project; any other row is of one.
SoundRow(id, row) ==
  /\ {"kind", "project"} \subseteq DOMAIN row
  /\ row.kind \in Kind /\ row.project \in Id
  /\ row.kind = "project" => row.project = id

\* What a new row hangs in is a field that no request may leave out.
NamesItsProject(r) ==
  r.tool \in {"create_folder", "create_whiteboard", "create_canvas_board"}
    => "project" \in DOMAIN r.set

\* The id of a row that is yet to be created is known to nobody.
ASSUME ScenarioAssumption ==
  \A s \in Scenario :
    /\ DOMAIN s.rows \subseteq Id
    /\ \A id \in DOMAIN s.rows : SoundRow(id, s.rows[id])
    /\ s.standing \in [Id -> Standing]
    /\ \A c \in Call : /\ s.request[c].tool \in Tool /\ s.request[c].id \notin Spare
                        /\ NamesItsProject(s.request[c])

VARIABLES
  rows,           \* the rows of the database
  standing,       \* standing[p]: the caller's in project p
  request,        \* request[c]
  phase,          \* phase[c]: "run", "count", "wait", "done"
  at,             \* at[c]: how many of its stages c has passed
  resolved,       \* resolved[c]: the project that c resolved
  answer,         \* answer[c]: the code c answered, "ok" or "none"
  route,          \* route[c]: c's request to the app: Idle, Sent, or its status
  acts,           \* acts[c]: how often the app did what c asked
  saw,            \* saw[c]: what was true while c ran (see Snapshot)
  meddled

\* No status has these numbers.
Idle == 0
Sent == 1

callVars == <<phase, at, resolved, answer>>
vars == <<rows, standing, request, callVars, route, acts, saw, meddled>>
-----------------------------------------------------------------------------
(* A tool is a sequence of stages.                                         *)

Check(ok) == [do |-> "check", ok |-> ok]

Resolve(kind) == [do |-> "resolve", kind |-> kind]

\* The role in a project that the request names, or in the resolved one.
Gate(role) == [do |-> "gate", role |-> role]

Confirm(kind) == [do |-> "confirm", kind |-> kind]

Route(body) == [do |-> "route", body |-> body]

\* checkLen: no name is empty.  (Ids are well-formed.)
checkLen(r) == "name" \in DOMAIN r.set => r.set.name # Empty

NamesAField(r) == DOMAIN r.set # {}

\* The stages of each entity's functions as they are wired: the resolver, the gates
\* and the reader.
prodProjectLifecycleFns == [assertAdmin |-> "admin", assertOwner |-> "owner", find |-> "project"]

prodFolderLifecycleFns == [resolve |-> "folder", assertEdit |-> "edit", find |-> "folder"]

prodWhiteboardLifecycleFns ==
  [resolve |-> "whiteboard", assertEdit |-> "edit", find |-> "whiteboard"]

prodCanvasBoardLifecycleFns ==
  [resolve |-> "canvas board", assertEdit |-> "edit", find |-> "canvas board"]

\* There is nothing to hold a role on before a project exists.
createProjectWithFns(r) == <<Check(checkLen(r)), Route(CreateProject(r))>>

\* Mutant: the two gates of projects are wired to each other.
GatesSwapped(r) ==
  <<Check(NamesAField(r)), Check(checkLen(r)),
    Gate(prodProjectLifecycleFns.assertOwner), Route(UpdateProject(r))>>

updateProjectWithFns(r) ==
  <<Check(NamesAField(r)), Check(checkLen(r)),
    Gate(prodProjectLifecycleFns.assertAdmin), Route(UpdateProject(r))>>

deleteProjectWithFns(r) ==
  <<Check(r.confirm # Empty), Gate(prodProjectLifecycleFns.assertOwner),
    Confirm(prodProjectLifecycleFns.find), Route(DeleteProject(r))>>

authorizeExistingFolder ==
  <<Resolve(prodFolderLifecycleFns.resolve), Gate(prodFolderLifecycleFns.assertEdit)>>

createFolderWithFns(r) ==
  <<Check(checkLen(r)), Gate(prodFolderLifecycleFns.assertEdit), Route(CreateFolder(r))>>

updateFolderWithFns(r) ==
  <<Check(checkLen(r))>> \o authorizeExistingFolder \o <<Route(UpdateFolder(r))>>

\* Mutant: the name is compared before the role is checked.
NameFirst(r) ==
  <<Check(r.confirm # Empty), Confirm(prodFolderLifecycleFns.find)>>
  \o authorizeExistingFolder \o <<Route(DeleteFolder(r))>>

deleteFolderWithFns(r) ==
  <<Check(r.confirm # Empty)>> \o authorizeExistingFolder
  \o <<Confirm(prodFolderLifecycleFns.find), Route(DeleteFolder(r))>>

authorizeExistingWhiteboard ==
  <<Resolve(prodWhiteboardLifecycleFns.resolve), Gate(prodWhiteboardLifecycleFns.assertEdit)>>

createWhiteboardWithFns(r) ==
  <<Check(checkLen(r)), Gate(prodWhiteboardLifecycleFns.assertEdit), Route(CreateWhiteboard(r))>>

updateWhiteboardWithFns(r) ==
  <<Check(NamesAField(r)), Check(checkLen(r))>> \o authorizeExistingWhiteboard
  \o <<Route(UpdateWhiteboard(r))>>

deleteWhiteboardWithFns(r) ==
  <<Check(r.confirm # Empty)>> \o authorizeExistingWhiteboard
  \o <<Confirm(prodWhiteboardLifecycleFns.find), Route(DeleteWhiteboard(r))>>

authorizeExistingCanvasBoard ==
  <<Resolve(prodCanvasBoardLifecycleFns.resolve), Gate(prodCanvasBoardLifecycleFns.assertEdit)>>

createCanvasBoardWithFns(r) ==
  <<Check(checkLen(r)), Gate(prodCanvasBoardLifecycleFns.assertEdit), Route(CreateCanvasBoard(r))>>

updateCanvasBoardWithFns(r) ==
  <<Check(NamesAField(r)), Check(checkLen(r))>> \o authorizeExistingCanvasBoard
  \o <<Route(UpdateCanvasBoard(r))>>

deleteCanvasBoardWithFns(r) ==
  <<Check(r.confirm # Empty)>> \o authorizeExistingCanvasBoard
  \o <<Confirm(prodCanvasBoardLifecycleFns.find), Route(DeleteCanvasBoard(r))>>

\* The roles of the reference tools are the app's to check.
createTableReferenceWithFns(r) ==
  <<Check(r.set.sourceBoard # r.set.above), Route(CreateTableReference(r))>>

updateTableReferenceWithFns(r) ==
  <<Check(NamesAField(r)),
    Check("sourceTable" \in DOMAIN r.set => r.set.sourceTable # r.id),
    Route(UpdateTableReference(r))>>

deleteTableReferenceWithFns(r) ==
  <<Check(r.confirm # Empty), Confirm("reference"), Route(DeleteTableReference(r))>>

listTableReferencesWithFns(r) == <<Route(ListTableReferences(r))>>

Stages(r) ==
  CASE r.tool = "create_project"      -> createProjectWithFns(r)
    [] r.tool = "update_project"      -> updateProjectWithFns(r)
    [] r.tool = "delete_project"      -> deleteProjectWithFns(r)
    [] r.tool = "create_folder"       -> createFolderWithFns(r)
    [] r.tool = "update_folder"       -> updateFolderWithFns(r)
    [] r.tool = "delete_folder"       -> deleteFolderWithFns(r)
    [] r.tool = "create_whiteboard"   -> createWhiteboardWithFns(r)
    [] r.tool = "update_whiteboard"   -> updateWhiteboardWithFns(r)
    [] r.tool = "delete_whiteboard"   -> deleteWhiteboardWithFns(r)
    [] r.tool = "create_canvas_board" -> createCanvasBoardWithFns(r)
    [] r.tool = "update_canvas_board" -> updateCanvasBoardWithFns(r)
    [] r.tool = "delete_canvas_board" -> deleteCanvasBoardWithFns(r)
    [] r.tool = "create_table_reference" -> createTableReferenceWithFns(r)
    [] r.tool = "update_table_reference" -> updateTableReferenceWithFns(r)
    [] r.tool = "delete_table_reference" -> deleteTableReferenceWithFns(r)
    [] r.tool = "list_table_references"  -> listTableReferencesWithFns(r)

Stage(c) == Stages(request[c])[at[c] + 1]

\* The project that the request names, for a gate that nothing is resolved before.
NamedProject(r) ==
  IF r.tool \in {"update_project", "delete_project"} THEN r.id ELSE r.set.project
-----------------------------------------------------------------------------
(* The readers.                                                            *)

\* The row, if there is one.
FindByID(state, id, kind) == IF IsA(state, id, kind) THEN {state[id]} ELSE {}

\* Mutant: a source that was moved to another board still gives its name.
MovedSourceNames(state, id) ==
  LET ref == state[id]
  IN  IF ref.sourceTable \in DOMAIN state /\ ref.sourceBoard \in DOMAIN state
      THEN state[ref.sourceTable].name ELSE ref.name

\* The name that confirms the deletion of a reference: its source's while the source
\* lives on the board that the reference names, else its own.
FindReferenceConfirmName(state, id) ==
  LET ref == state[id]
      live == /\ ref.sourceBoard \in DOMAIN state
              /\ ref.sourceTable \in DOMAIN state
              /\ state[ref.sourceTable].above = ref.sourceBoard
  IN  IF live THEN state[ref.sourceTable].name ELSE ref.name

\* The comparison of a delete: an ordinary table is not taken for a reference.
Compared(state, r, kind) ==
  IF kind = "reference"
  THEN IF ~IsA(state, r.id, "table") THEN "NOT_FOUND"
       ELSE IF /\ state[r.id].sourceTable # None
               /\ FindReferenceConfirmName(state, r.id) = r.confirm
       THEN "ok" ELSE "VALIDATION_ERROR"
  ELSE LET found == FindByID(state, r.id, kind)
       IN  IF found = {} THEN "NOT_FOUND"
           ELSE IF \E row \in found : row.name = r.confirm THEN "ok" ELSE "VALIDATION_ERROR"

\* A role query finds nothing where the project has gone.
Gated(state, roles, role, project) ==
  IF project \in DOMAIN state THEN AssertAccess(role, TRUE, roles[project]) ELSE "FORBIDDEN"

\* What a stage other than the route says: "ok", or the code of the answer.
Verdict(c) ==
  LET s == Stage(c)
      r == request[c]
  IN  CASE s.do = "check"   -> IF s.ok THEN "ok" ELSE "VALIDATION_ERROR"
        [] s.do = "resolve" -> IF IsA(rows, r.id, s.kind) THEN "ok" ELSE "NOT_FOUND"
        [] s.do = "gate"    ->
             Gated(rows, standing, s.role,
                   IF resolved[c] = None THEN NamedProject(r) ELSE resolved[c])
        [] s.do = "confirm" -> Compared(rows, r, s.kind)
-----------------------------------------------------------------------------
(* What was true at one time of the calls: the name that confirms a        *)
(* deletion as the listing tools report it, whether the row was there, and *)
(* the roles that the caller had there.                                    *)

\* The app reports a reference by its source, or by its own name when the source or
\* its board is missing, and any other row by its name (external).
ListedName(state, id) ==
  LET ref == state[id]
      sources == {k \in DOMAIN state :
                    /\ ref.kind = "table" /\ k = ref.sourceTable
                    /\ state[k].above = ref.sourceBoard /\ ref.sourceBoard \in DOMAIN state}
  IN  IF sources = {} THEN ref.name ELSE (CHOOSE n \in {state[k].name : k \in sources} : TRUE)

RolesIn(state, roles, project) ==
  IF project \in DOMAIN state
  THEN {role \in {"access", "edit", "admin", "owner"} : Passes(role, roles[project])} ELSE {}

Snapshot(state, roles, r) ==
  LET body == Stages(r)[Len(Stages(r))].body
      there == Exists(state, body)
      id == Target(body)
  IN  [there |-> there,
       name  |-> IF there /\ id # None THEN ListedName(state, id) ELSE None,
       roles |-> IF there /\ id # None THEN RolesIn(state, roles, state[id].project) ELSE {},
       sound |-> there /\ SourceStands(state, body)]

\* What is seen counts from the first step of a call to its answer.
Watch ==
  saw' = [c \in Call |->
            IF phase[c] = "done" THEN saw[c]
            ELSE (IF at[c] = 0 THEN {} ELSE saw[c])
                 \cup {Snapshot(rows', standing', request[c])}]
-----------------------------------------------------------------------------
(* A call.                                                                 *)

Init ==
  /\ \E s \in Scenario : rows = s.rows /\ standing = s.standing /\ request = s.request
  /\ phase = [c \in Call |-> "run"]
  /\ at = [c \in Call |-> 0]
  /\ resolved = [c \in Call |-> None]
  /\ answer = [c \in Call |-> "none"]
  /\ route = [c \in Call |-> Idle]
  /\ acts = [c \in Call |-> 0]
  /\ saw = [c \in Call |-> {}]
  /\ meddled = 0

Answer(c, code) ==
  /\ answer' = [answer EXCEPT ![c] = code]
  /\ phase' = [phase EXCEPT ![c] = "done"]

\* A check, a query or the comparison of names.  The folder tool counts what a
\* mismatched delete would have taken before it refuses.
RunStage(c) ==
  /\ phase[c] = "run" /\ Stage(c).do # "route"
  /\ LET verdict == Verdict(c)
         ok == verdict = "ok"
         counts == Stage(c) = Confirm("folder") /\ verdict = "VALIDATION_ERROR"
     IN  /\ at' = [at EXCEPT ![c] = IF ok THEN @ + 1 ELSE @]
         /\ resolved' = [resolved EXCEPT ![c] =
              IF ok /\ Stage(c).do = "resolve" THEN rows[request[c].id].project ELSE @]
         /\ IF ok THEN UNCHANGED <<phase, answer>>
            ELSE IF counts THEN phase' = [phase EXCEPT ![c] = "count"] /\ UNCHANGED answer
            ELSE Answer(c, verdict)
  /\ UNCHANGED <<rows, standing, request, route, acts, meddled>>

\* The database fails a query.
QueryFails(c) ==
  /\ phase[c] = "run" /\ Stage(c).do \in {"resolve", "gate", "confirm"}
  /\ Answer(c, "INTERNAL_ERROR")
  /\ UNCHANGED <<rows, standing, request, at, resolved, route, acts, meddled>>

\* Counted or not, the delete is refused for its name.
cascadeWarning(c) ==
  /\ phase[c] = "count"
  /\ Answer(c, "VALIDATION_ERROR")
  /\ UNCHANGED <<rows, standing, request, at, resolved, route, acts, meddled>>

\* The request to the app needs a collaboration token first.
Post(c) ==
  /\ phase[c] = "run" /\ Stage(c).do = "route"
  /\ at' = [at EXCEPT ![c] = @ + 1]
  /\ \/ /\ route' = [route EXCEPT ![c] = Sent]
        /\ phase' = [phase EXCEPT ![c] = "wait"]
        /\ UNCHANGED answer
     \/ Answer(c, "CONNECTION_ERROR") /\ UNCHANGED route
  /\ UNCHANGED <<rows, standing, request, resolved, acts, meddled>>

\* The app handles the request, whether c still waits or not.
Handle(c) ==
  /\ route[c] = Sent
  /\ LET body == Stages(request[c])[Len(Stages(request[c]))].body
     IN  \E status \in Statuses(rows, standing, body) :
           /\ route' = [route EXCEPT ![c] = status]
           /\ IF status = 200
              THEN /\ rows' = Performed(rows, body)
                   /\ standing' = IF body.op = "create" /\ body.kind = "project"
                                  THEN [standing EXCEPT ![New(rows)].owner = TRUE] ELSE standing
                   /\ acts' = [acts EXCEPT ![c] = @ + 1]
              ELSE UNCHANGED <<rows, standing, acts>>
  /\ UNCHANGED <<request, callVars, meddled>>

Answers(c) ==
  LET body == Stages(request[c])[Len(Stages(request[c]))].body
  IN  CASE body.kind = "reference"    -> referenceAnswers(route[c], body.missing)
        [] body.kind = "canvas board" -> canvasBoardAnswers(route[c], body.missing)
        [] OTHER                      -> lifecycleAnswers(route[c], body.missing)

Receive(c) ==
  /\ phase[c] = "wait" /\ route[c] # Sent
  /\ \E code \in Answers(c) : Answer(c, code)
  /\ UNCHANGED <<rows, standing, request, at, resolved, route, acts, meddled>>

\* Mutant: a request that was not answered is sent once more.
SentAgain(c) ==
  /\ phase[c] = "wait"
  /\ \/ Answer(c, "CONNECTION_ERROR") /\ UNCHANGED route
     \/ acts[c] = 1 /\ route' = [route EXCEPT ![c] = Sent] /\ UNCHANGED <<phase, answer>>
  /\ UNCHANGED <<rows, standing, request, at, resolved, acts, meddled>>

\* Mutant: the client has no timeout; a call ends when it is answered.
WaitsForever(c) ==
  /\ phase[c] = "wait" /\ route[c] # Sent
  /\ Answer(c, "CONNECTION_ERROR")
  /\ UNCHANGED <<rows, standing, request, at, resolved, route, acts, meddled>>

\* The client gives up: the app cannot be reached, or has not answered for as long
\* as the client waits, 5 seconds.
GiveUp(c) ==
  /\ phase[c] = "wait"
  /\ Answer(c, "CONNECTION_ERROR")
  /\ UNCHANGED <<rows, standing, request, at, resolved, route, acts, meddled>>

\* Another user renames a row, moves a table to another board, deletes a row or
\* changes the caller's role in a project.
Meddle ==
  /\ meddled < MaxMeddling
  /\ meddled' = meddled + 1
  /\ \/ /\ \/ \E id \in DOMAIN rows, n \in Name : rows' = [rows EXCEPT ![id].name = n]
           \/ \E id, board \in DOMAIN rows :
                /\ rows[id].kind = "table" /\ rows[board].kind = "whiteboard"
                /\ rows' = [rows EXCEPT ![id].above = board]
           \/ \E id \in DOMAIN rows : rows' = Without(rows, Under(rows, id))
        /\ UNCHANGED standing
     \/ /\ \E p \in DOMAIN rows, role \in {"no row", "VIEWER", "ADMIN"} :
             rows[p].kind = "project" /\ standing' = [standing EXCEPT ![p].member = role]
        /\ UNCHANGED rows
  /\ UNCHANGED <<request, callVars, route, acts>>

CallStep(c) ==
  RunStage(c) \/ QueryFails(c) \/ cascadeWarning(c) \/ Post(c) \/ Receive(c) \/ GiveUp(c)

Next ==
  /\ \/ \E c \in Call : CallStep(c) \/ Handle(c)
     \/ Meddle
  /\ Watch

Spec == Init /\ [][Next]_vars

\* A goroutine with a step to take takes it, and the client's timeout runs whatever
\* the app does.  Nothing is assumed of the app.
Fairness == \A c \in Call : WF_callVars(CallStep(c))

FairSpec == Spec /\ Fairness
-----------------------------------------------------------------------------
(* Properties.                                                             *)

Code == {"none", "ok", "VALIDATION_ERROR", "NOT_FOUND", "FORBIDDEN", "INTERNAL_ERROR",
         "SESSION_EXPIRED", "CONNECTION_ERROR"}

\* Every variable keeps its type; a call has answered, with a code of the taxonomy,
\* exactly when it is done, and has passed every stage when it posts.
TypeOK ==
  /\ DOMAIN rows \subseteq Id
  /\ \A id \in DOMAIN rows : rows[id].kind \in Kind /\ rows[id].project \in Id
  /\ standing \in [Id -> Standing]
  /\ phase \in [Call -> {"run", "count", "wait", "done"}]
  /\ answer \in [Call -> Code]
  /\ \A c \in Call : /\ at[c] \in 0..Len(Stages(request[c]))
                     /\ (phase[c] = "done") = (answer[c] # "none")
                     /\ route[c] # Idle => at[c] = Len(Stages(request[c]))
  /\ acts \in [Call -> Nat]
  /\ meddled \in 0..MaxMeddling

\* What a call answers is true of the app: "ok" means that it did once what the
\* caller asked; a refusal or SESSION_EXPIRED that it did nothing and no request is
\* left that could still make it.  Only after CONNECTION_ERROR may it have happened,
\* or happen later; and never twice.
AnswerTellsEffect ==
  \A c \in Call :
    /\ acts[c] <= 1
    /\ answer[c] = "ok" => acts[c] = 1
    /\ answer[c] \notin {"none", "ok", "CONNECTION_ERROR"} => acts[c] = 0 /\ route[c] # Sent

Mismatched(c) ==
  /\ answer[c] = "VALIDATION_ERROR"
  /\ at[c] < Len(Stages(request[c])) /\ Stage(c).do = "confirm"

LastBody(c) == Stages(request[c])[Len(Stages(request[c]))].body

\* What is deleted bore, while the call ran, the name that its caller confirmed, as
\* the listing tools report it: another user may rename it between the comparison and
\* the delete, but a row that never had the name is not deleted.
DeletedAsConfirmed ==
  [][\A c \in Call :
       acts'[c] # acts[c] /\ LastBody(c).op = "delete"
         => \E s \in saw[c] : s.name = request[c].confirm]_vars

\* A delete tells a caller that a name does not match only if that caller had, while
\* the call ran, the role that the delete asks for: whoever may not delete cannot try
\* names.  (The delete of a reference compares first; its role is the app's to check.)
MismatchOnlyToEditors ==
  \A c \in Call :
    Mismatched(c) /\ request[c].tool # "delete_table_reference"
      => \E s \in saw[c] : Role(LastBody(c)) \in s.roles

\* A request that is wrong by itself: an empty name, an update of nothing, a delete that
\* confirms no name, a reference to its own board or to itself.
Malformed(r, body) ==
  \/ ~checkLen(r)
  \/ body.op = "update" /\ ~NamesAField(r)
  \/ body.op = "delete" /\ r.confirm = Empty
  \/ /\ body.kind = "reference"
     /\ \/ body.op = "create" /\ r.set.sourceBoard = r.set.above
        \/ body.op = "update" /\ "sourceTable" \in DOMAIN r.set /\ r.set.sourceTable = r.id

\* A refusal was right at some time of the call, whichever of the server's own checks
\* and the app's made it: NOT_FOUND, the row was not there, or not of this kind;
\* FORBIDDEN, the caller lacked the role the app asks for; VALIDATION_ERROR, the
\* request is wrong by itself, the row to delete does not bear the confirmed name (or
\* is no reference), or the source of a reference does not stand.
RefusalIsTrue ==
  \A c \in Call :
    /\ answer[c] = "NOT_FOUND" => \E s \in saw[c] : ~s.there
    /\ answer[c] = "FORBIDDEN" => \E s \in saw[c] : Role(LastBody(c)) \notin s.roles
    /\ answer[c] = "VALIDATION_ERROR" =>
         \/ Malformed(request[c], LastBody(c))
         \/ /\ LastBody(c).op = "delete"
            /\ \E s \in saw[c] : ~s.there \/ s.name # request[c].confirm
         \/ LastBody(c).kind = "reference" /\ \E s \in saw[c] : s.there /\ ~s.sound

\* Every call is answered, also when the app never answers.
EveryCallAnswers == \A c \in Call : <>(phase[c] = "done")
=============================================================================
