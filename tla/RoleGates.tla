------------------------------ MODULE RoleGates ------------------------------
(***************************************************************************)
(* The role checks of internal/auth (querier.go, auth.go).  A project has  *)
(* an owner, a column of its row; any other user's role is a ProjectMember *)
(* row, or there is none.  A tool asks one of four queries, each of which  *)
(* finds the project's row or nothing.                                     *)
(***************************************************************************)

\* What the database says of the caller: whether the caller owns the project,
\* and the role of the caller's member row.
MemberRole == {"no row", "VIEWER", "EDITOR", "ADMIN"}

Standing == [owner : BOOLEAN, member : MemberRole]

projectAccessSQL(s) == s.owner \/ s.member # "no row"

schemaEditAccessSQL(s) == s.owner \/ s.member \in {"EDITOR", "ADMIN"}

projectAdminAccessSQL(s) == s.owner \/ s.member = "ADMIN"

\* The query has no member arm: no role makes an owner.
projectOwnerAccessSQL(s) == s.owner

\* The projects of list_projects: those some row ties to the caller.
listProjectsSQL(Project, standing) ==
  {p \in Project : standing[p].owner \/ standing[p].member # "no row"}

\* The check behind each assertion, by the role it asks for.
Passes(gate, s) ==
  \/ gate = "access" /\ projectAccessSQL(s)
  \/ gate = "edit"   /\ schemaEditAccessSQL(s)
  \/ gate = "admin"  /\ projectAdminAccessSQL(s)
  \/ gate = "owner"  /\ projectOwnerAccessSQL(s)

\* assertAccessWithFn with its error: an id that resolved to no project is
\* NOT_FOUND, a query that finds no row is FORBIDDEN, whether the project is gone
\* or the role is missing.
AssertAccess(gate, resolved, s) ==
  IF ~resolved THEN "NOT_FOUND"
  ELSE IF Passes(gate, s) THEN "ok" ELSE "FORBIDDEN"
=============================================================================
