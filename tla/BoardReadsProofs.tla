--------------------------- MODULE BoardReadsProofs ---------------------------
(***************************************************************************)
(* Proofs about BoardReads and FolderTree, for every set of rows, every    *)
(* request and any number of things that other users do.                   *)
(***************************************************************************)
EXTENDS BoardReads, TLAPS, FiniteSetTheorems, SequenceTheorems, WellFoundedInduction

(* The queries of each tool, written out. *)

QueryName ==
  {"gate", "whiteboard", "canvasBoard", "table", "folders", "whiteboards", "canvasBoards",
   "areas", "elements", "tables", "columns", "relationships", "countFolders",
   "countWhiteboards", "countCanvasBoards", "countTables", "countElements"}

LEMMA Joined ==
  ASSUME NEW S, NEW s \in Seq(S), NEW t \in Seq(S), NEW u \in Seq(S),
         Len(u) = Len(s) + Len(t),
         \A i \in 1..Len(s) : u[i] = s[i], \A i \in 1..Len(t) : u[Len(s) + i] = t[i]
  PROVE  s \o t = u
<1>1. /\ s \o t \in Seq(S) /\ Len(s \o t) = Len(s) + Len(t)
      /\ \A i \in 1 .. Len(s) + Len(t) :
           (s \o t)[i] = IF i <= Len(s) THEN s[i] ELSE t[i - Len(s)]
  BY ConcatProperties
<1>2. Len(s) \in Nat /\ Len(t) \in Nat
  BY LenProperties
<1>3. ASSUME NEW i \in 1..Len(s \o t) PROVE (s \o t)[i] = u[i]
  <2>1. CASE i <= Len(s)
    BY <1>1, <1>2, <1>3, <2>1
  <2>2. CASE ~(i <= Len(s))
    <3>1. i - Len(s) \in 1..Len(t) /\ Len(s) + (i - Len(s)) = i
      BY <1>1, <1>2, <1>3, <2>2
    <3>2. u[Len(s) + (i - Len(s))] = t[i - Len(s)]
      BY <3>1
    <3> QED BY <1>1, <1>2, <1>3, <2>2, <3>1, <3>2
  <2> QED BY <2>1, <2>2
<1> QED BY <1>1, <1>3, SeqEqual

LEMMA BoardQueries ==
  loadAuthorizedBoard =
    <<"whiteboard", "gate", "whiteboard", "tables", "areas", "columns", "relationships">>
<1> DEFINE s == <<"whiteboard", "gate">>
           t == FindWhiteboardByIDWithDiagram
           u == <<"whiteboard", "gate", "whiteboard", "tables", "areas", "columns",
                  "relationships">>
<1>1. s \in Seq(QueryName)
  BY DEF QueryName
<1>6. t \in Seq(QueryName)
  BY DEF QueryName, FindWhiteboardByIDWithDiagram
<1>7. u \in Seq(QueryName)
  BY DEF QueryName
<1>2. Len(u) = Len(s) + Len(t)
  BY DEF FindWhiteboardByIDWithDiagram
<1>3. \A i \in 1..Len(s) : u[i] = s[i]
  OBVIOUS
<1>4. \A i \in 1..Len(t) : u[Len(s) + i] = t[i]
  BY DEF FindWhiteboardByIDWithDiagram
<1>5. s \o t = u
  <2> HIDE DEF s, t, u
  <2> QED BY <1>1, <1>2, <1>3, <1>4, <1>6, <1>7, Joined
<1> QED BY <1>5 DEF loadAuthorizedBoard

LEMMA CanvasQueries ==
  loadAuthorizedCanvasBoardWithFns \o FindCanvasBoardByIDWithElements =
    <<"canvasBoard", "gate", "canvasBoard", "elements">>
<1> DEFINE s == <<"canvasBoard", "gate">>
           t == <<"canvasBoard", "elements">>
           u == <<"canvasBoard", "gate", "canvasBoard", "elements">>
<1>1. s \in Seq(QueryName) /\ t \in Seq(QueryName) /\ u \in Seq(QueryName)
  BY DEF QueryName
<1>2. Len(u) = Len(s) + Len(t)
  OBVIOUS
<1>3. \A i \in 1..Len(s) : u[i] = s[i]
  OBVIOUS
<1>4. \A i \in 1..Len(t) : u[Len(s) + i] = t[i]
  OBVIOUS
<1>5. s \o t = u
  <2> HIDE DEF s, t, u
  <2> QED BY <1>1, <1>2, <1>3, <1>4, Joined
<1> QED BY <1>5 DEF loadAuthorizedCanvasBoardWithFns, FindCanvasBoardByIDWithElements

LEMMA DDLQueries ==
  tableDDLQueries =
    <<"table", "gate", "table", "whiteboard", "tables", "areas", "columns", "relationships">>
<1> DEFINE s == <<"table", "gate", "table">>
           t == FindWhiteboardByIDWithDiagram
           u == <<"table", "gate", "table", "whiteboard", "tables", "areas", "columns",
                  "relationships">>
<1>1. s \in Seq(QueryName)
  BY DEF QueryName
<1>6. t \in Seq(QueryName)
  BY DEF QueryName, FindWhiteboardByIDWithDiagram
<1>7. u \in Seq(QueryName)
  BY DEF QueryName
<1>2. Len(u) = Len(s) + Len(t)
  BY DEF FindWhiteboardByIDWithDiagram
<1>3. \A i \in 1..Len(s) : u[i] = s[i]
  OBVIOUS
<1>4. \A i \in 1..Len(t) : u[Len(s) + i] = t[i]
  BY DEF FindWhiteboardByIDWithDiagram
<1>5. s \o t = u
  <2> HIDE DEF s, t, u
  <2> QED BY <1>1, <1>2, <1>3, <1>4, <1>6, <1>7, Joined
<1> QED BY <1>5 DEF tableDDLQueries

\* What a query for rows is called, and one for counts.
RowsName ==
  {"folders", "whiteboards", "canvasBoards", "areas", "elements", "tables", "columns",
   "relationships"}

CountName ==
  {"countFolders", "countWhiteboards", "countCanvasBoards", "countTables", "countElements"}

Asked == {Queries[n] : n \in 1..asked}

\* No rows and no counts are asked for twice; nothing but the gate comes between the two
\* readings of a table, the columns come after the tables, and the counts after what they
\* go over.
LEMMA QueryOrder ==
  ASSUME request.tool \in Tools, asked \in Nat, asked < Len(Queries)
  PROVE  LET q == Queries[asked + 1] IN
         /\ q \in QueryName
         /\ q \in RowsName \cup CountName => q \notin Asked
         /\ q = "table" => Asked \cap (RowsName \cup CountName) = {}
         /\ q = "tables" => "columns" \notin Asked
         /\ q = "columns" => "tables" \in Asked
         /\ request.tool = "get_table_ddl" /\ q # "table" => "table" \in Asked
<1> USE DEF QueryName, RowsName, CountName, Asked
<1>1. CASE request.tool = "list_folders"
  <2>1. Queries = <<"gate", "folders", "countFolders", "countWhiteboards", "countCanvasBoards">>
    BY <1>1 DEF Queries, ListFolders, CanvasReads, BoardTools
  <2> QED BY <1>1, <2>1 DEF CanvasReads, BoardTools
<1>2. CASE request.tool = "list_whiteboards"
  <2>1. Queries = <<"gate", "whiteboards", "countTables">>
    BY <1>2 DEF Queries, ListWhiteboards, CanvasReads, BoardTools
  <2> QED BY <1>2, <2>1 DEF CanvasReads, BoardTools
<1>3. CASE request.tool = "list_canvas_boards"
  <2>1. Queries = <<"gate", "canvasBoards", "countElements">>
    BY <1>3 DEF Queries, ListCanvasBoards, CanvasReads, BoardTools
  <2> QED BY <1>3, <2>1 DEF CanvasReads, BoardTools
<1>4. CASE request.tool = "get_project_tree"
  <2>1. Queries = <<"gate", "folders", "whiteboards", "canvasBoards">>
    BY <1>4 DEF Queries, projectTreeQueries, CanvasReads, BoardTools
  <2> QED BY <1>4, <2>1 DEF CanvasReads, BoardTools
<1>5. CASE request.tool \in BoardTools
  <2>1. Queries = <<"whiteboard", "gate", "whiteboard", "tables", "areas", "columns",
                    "relationships">>
    BY <1>5, BoardQueries DEF Queries, CanvasReads, BoardTools
  <2> QED BY <1>5, <2>1 DEF CanvasReads, BoardTools
<1>6. CASE request.tool \in CanvasReads
  <2>1. Queries = <<"canvasBoard", "gate", "canvasBoard", "elements">>
    BY <1>6, CanvasQueries DEF Queries, CanvasReads, BoardTools
  <2> QED BY <1>6, <2>1 DEF CanvasReads, BoardTools
<1>7. CASE request.tool = "get_table_ddl"
  <2>1. Queries = <<"table", "gate", "table", "whiteboard", "tables", "areas", "columns",
                    "relationships">>
    BY <1>7, DDLQueries DEF Queries, CanvasReads, BoardTools
  <2> QED BY <1>7, <2>1 DEF CanvasReads, BoardTools
<1> QED BY <1>1, <1>2, <1>3, <1>4, <1>5, <1>6, <1>7 DEF Tools

\* What has been read when no query is left to be made.
LEMMA ReadAll ==
  ASSUME request.tool \in Tools, asked \in 0..Len(Queries), DOMAIN seen = Asked, ~More
  PROVE  /\ request.tool = "list_folders" => "folders" \in DOMAIN seen
         /\ request.tool = "list_whiteboards" => "whiteboards" \in DOMAIN seen
         /\ request.tool = "list_canvas_boards" => "canvasBoards" \in DOMAIN seen
         /\ request.tool = "get_project_tree"
              => {"folders", "whiteboards", "canvasBoards"} \subseteq DOMAIN seen
         /\ request.tool \in CanvasReads => "elements" \in DOMAIN seen
         /\ request.tool \in BoardTools \cup {"get_table_ddl"} =>
              /\ {"tables", "areas"} \subseteq DOMAIN seen
              /\ DOMAIN seen["tables"] # {}
                   => {"columns", "relationships"} \subseteq DOMAIN seen
         /\ request.tool = "get_table_ddl" => "table" \in DOMAIN seen
<1> USE DEF Asked, More, CanvasReads, BoardTools
<1>0. /\ DOMAIN Over = {"columns", "countFolders", "countTables", "countElements"}
      /\ Over["columns"] = "tables"
  BY DEF Over
<1>1. CASE request.tool = "list_folders"
  <2>1. Queries = <<"gate", "folders", "countFolders", "countWhiteboards", "countCanvasBoards">>
    BY <1>1 DEF Queries, ListFolders
  <2> QED BY <1>0, <1>1, <2>1
<1>2. CASE request.tool = "list_whiteboards"
  <2>1. Queries = <<"gate", "whiteboards", "countTables">>
    BY <1>2 DEF Queries, ListWhiteboards
  <2> QED BY <1>0, <1>2, <2>1
<1>3. CASE request.tool = "list_canvas_boards"
  <2>1. Queries = <<"gate", "canvasBoards", "countElements">>
    BY <1>3 DEF Queries, ListCanvasBoards
  <2> QED BY <1>0, <1>3, <2>1
<1>4. CASE request.tool = "get_project_tree"
  <2>1. Queries = <<"gate", "folders", "whiteboards", "canvasBoards">>
    BY <1>4 DEF Queries, projectTreeQueries
  <2>2. asked = 4
    BY <1>0, <2>1
  <2> QED BY <1>4, <2>1, <2>2
<1>5. CASE request.tool \in BoardTools
  <2>1. Queries = <<"whiteboard", "gate", "whiteboard", "tables", "areas", "columns",
                    "relationships">>
    BY <1>5, BoardQueries DEF Queries
  <2>2. asked = 7 \/ (asked = 5 /\ DOMAIN seen["tables"] = {})
    <3>1. Len(Queries) = 7 /\ Queries[5 + 1] = "columns"
      BY <2>1
    <3>2. asked < 7 => Queries[asked + 1] \in DOMAIN Over
      BY <3>1
    <3>3. ASSUME asked < 7 PROVE asked = 5
      BY <1>0, <2>1, <3>2, <3>3
    <3>4. ASSUME asked = 5 PROVE DOMAIN seen["tables"] = {}
      <4>1. Queries[asked + 1] \in DOMAIN Over => DOMAIN seen[Over[Queries[asked + 1]]] = {}
        BY <3>1, <3>4
      <4>2. Queries[asked + 1] = "columns"
        BY <3>1, <3>4
      <4> HIDE DEF More, Asked
      <4> QED BY <1>0, <4>1, <4>2
    <3> HIDE DEF Asked, More
    <3> QED BY <3>1, <3>3, <3>4
  <2>3. CASE asked = 7
    BY <1>5, <2>1, <2>3
  <2>4. CASE asked = 5 /\ DOMAIN seen["tables"] = {}
    BY <1>5, <2>1, <2>4
  <2> QED BY <2>2, <2>3, <2>4
<1>6. CASE request.tool \in CanvasReads
  <2>1. Queries = <<"canvasBoard", "gate", "canvasBoard", "elements">>
    BY <1>6, CanvasQueries DEF Queries
  <2>2. asked = 4
    BY <1>0, <2>1
  <2> QED BY <1>6, <2>1, <2>2
<1>7. CASE request.tool = "get_table_ddl"
  <2>1. Queries = <<"table", "gate", "table", "whiteboard", "tables", "areas", "columns",
                    "relationships">>
    BY <1>7, DDLQueries DEF Queries
  <2>2. asked = 8 \/ (asked = 6 /\ DOMAIN seen["tables"] = {})
    <3>1. Len(Queries) = 8 /\ Queries[6 + 1] = "columns"
      BY <2>1
    <3>2. asked < 8 => Queries[asked + 1] \in DOMAIN Over
      BY <3>1
    <3>3. ASSUME asked < 8 PROVE asked = 6
      BY <1>0, <2>1, <3>2, <3>3
    <3>4. ASSUME asked = 6 PROVE DOMAIN seen["tables"] = {}
      <4>1. Queries[asked + 1] \in DOMAIN Over => DOMAIN seen[Over[Queries[asked + 1]]] = {}
        BY <3>1, <3>4
      <4>2. Queries[asked + 1] = "columns"
        BY <3>1, <3>4
      <4> HIDE DEF More, Asked
      <4> QED BY <1>0, <4>1, <4>2
    <3> HIDE DEF Asked, More
    <3> QED BY <3>1, <3>3, <3>4
  <2>3. CASE asked = 8
    BY <1>7, <2>1, <2>3
  <2>4. CASE asked = 6 /\ DOMAIN seen["tables"] = {}
    BY <1>7, <2>1, <2>4
  <2> QED BY <2>2, <2>3, <2>4
<1> QED BY <1>1, <1>2, <1>3, <1>4, <1>5, <1>6, <1>7 DEF Tools
-----------------------------------------------------------------------------
(* Types.                                                                  *)

TypeInv ==
  /\ TypeOK
  /\ request.tool \in Tools
  /\ request.tool \in CanvasReads => request.maxElements \in Int \cup {None}
  /\ answer = "ok" => ~More /\ (request.tool = "get_table_ddl" => TableDDL.code = "ok")

LEMMA QueriesLength == request.tool \in Tools => Len(Queries) \in Nat
<1> SUFFICES ASSUME request.tool \in Tools PROVE Len(Queries) \in Nat
  OBVIOUS
<1> USE DEF Queries, CanvasReads, BoardTools
<1>1. CASE request.tool \in {"list_folders", "list_whiteboards", "list_canvas_boards",
                             "get_project_tree"}
  BY <1>1 DEF ListFolders, ListWhiteboards, ListCanvasBoards, projectTreeQueries
<1>2. CASE request.tool \in BoardTools
  BY <1>2, BoardQueries
<1>3. CASE request.tool \in CanvasReads
  BY <1>3, CanvasQueries
<1>4. CASE request.tool = "get_table_ddl"
  BY <1>4, DDLQueries
<1> QED BY <1>1, <1>2, <1>3, <1>4 DEF Tools

LEMMA VerdictCodes ==
  ASSUME NEW q \in QueryName, NEW n
  PROVE  /\ Verdict(q, Found(q), n) \in {"NOT_FOUND", "FORBIDDEN", "ok"}
         /\ Verdict(q, Found(q), n) = "ok" => Found(q) # None
BY DEF Verdict, Found, AssertAccess

LEMMA DDLCodes == TableDDL.code \in {"NOT_FOUND", "INTERNAL_ERROR", "ok"}
BY DEF TableDDL, GenerateTableDDL

-----------------------------------------------------------------------------
(* Functions that are defined by recursion over an interval.               *)

Less == {ss \in Nat \X Nat : ss[1] < ss[2]}

LEMMA LessWF == IsWellFoundedOn(Less, Nat)
BY NatLessThanWellFounded DEF OpToRel, Less

\* Induction over the naturals, for a set of them.
LEMMA SetInduction ==
  ASSUME NEW T, T \subseteq Nat, 0 \in T, \A n \in T : n + 1 \in T
  PROVE  T = Nat
<1> SUFFICES ASSUME Nat \ T # {} PROVE FALSE
  OBVIOUS
<1>1. PICK x \in Nat \ T : \A y \in Nat \ T : ~(<<y, x>> \in Less)
  BY LessWF, WFMin
<1>2. x # 0 /\ x - 1 \in Nat
  BY <1>1
<1>3. <<x - 1, x>> \in Less
  BY <1>2 DEF Less
<1>4. x - 1 \in T
  BY <1>1, <1>2, <1>3
<1>5. x - 1 + 1 \in T
  BY <1>4
<1> QED BY <1>1, <1>2, <1>5

\* g is the repetition of a step from x.
Repeats(g, X, x, step, m) ==
  /\ g \in [0..m -> X]
  /\ g[0] = x
  /\ \A n \in 0..m : n # 0 => n - 1 \in 0..m /\ g[n] = step[g[n - 1]]

\* A step can be repeated any number of times.
LEMMA Iteration ==
  ASSUME NEW X, NEW x \in X, NEW step \in [X -> X], NEW m \in Nat
  PROVE  \E g : Repeats(g, X, x, step, m)
<1> USE DEF Repeats
<1> DEFINE Runs(g, k) == Repeats(g, X, x, step, k)
           T == {k \in Nat : \E g : Runs(g, k)}
<1>1. 0 \in T
  <2>1. Runs([n \in 0..0 |-> x], 0)
    OBVIOUS
  <2> QED BY <2>1
<1>2. ASSUME NEW k \in T PROVE k + 1 \in T
  <2>0. k \in Nat
    BY <1>2
  <2>1. PICK g : Runs(g, k)
    BY <1>2
  <2> DEFINE h == [n \in 0 .. k + 1 |-> IF n = k + 1 THEN step[g[k]] ELSE g[n]]
  <2>2. \A n \in 0 .. k + 1 : n # k + 1 => n \in 0..k
    BY <2>0
  <2>3. g[k] \in X
    BY <2>0, <2>1
  <2>4. h \in [0 .. k + 1 -> X]
    BY <2>1, <2>2, <2>3
  <2>5. h[0] = x
    BY <2>0, <2>1
  <2>6. ASSUME NEW n \in 0 .. k + 1, n # 0 PROVE n - 1 \in 0 .. k + 1 /\ h[n] = step[h[n - 1]]
    <3>1. n - 1 \in 0..k /\ n - 1 \in 0 .. k + 1 /\ n - 1 # k + 1
      BY <2>0, <2>6
    <3>2. h[n - 1] = g[n - 1]
      BY <3>1
    <3>3. CASE n = k + 1
      BY <2>0, <3>1, <3>2, <3>3
    <3>4. CASE n # k + 1
      <4>1. n \in 0..k
        BY <2>2, <3>4
      <4>2. h[n] = g[n]
        BY <3>4
      <4>3. g[n] = step[g[n - 1]]
        BY <2>1, <2>6, <4>1
      <4> QED BY <3>1, <3>2, <4>2, <4>3
    <3> QED BY <3>3, <3>4
  <2>7. Runs(h, k + 1)
    <3> HIDE DEF h
    <3> QED BY <2>4, <2>5, <2>6
  <2>8. \E f : Runs(f, k + 1)
    <3> HIDE DEF h, Runs
    <3> QED BY <2>7
  <2> QED BY <2>0, <2>8
<1>3. m \in T
  <2> HIDE DEF T
  <2>1. T \subseteq Nat
    BY DEF T
  <2> QED BY <1>1, <1>2, <2>1, SetInduction
<1> QED BY <1>3
-----------------------------------------------------------------------------
(* What a deletion takes with it.                                          *)

Nearer(S) == S \cup {k \in DOMAIN rows : Needs(rows[k]) \cap S # {}}

LEMMA GoneIsReached ==
  ASSUME NEW id \in DOMAIN rows, Cardinality(DOMAIN rows) \in Nat
  PROVE  \E reach :
           /\ reach[0] = {id}
           /\ \A n \in 0 .. Cardinality(DOMAIN rows) : n # 0 => reach[n] = Nearer(reach[n - 1])
           /\ Gone(id) = reach[Cardinality(DOMAIN rows)]
<1> DEFINE C == Cardinality(DOMAIN rows)
           X == SUBSET DOMAIN rows
           step == [S \in X |-> Nearer(S)]
           Body(f, n) == IF n = 0 THEN {id}
                         ELSE LET nearer == f[n - 1]
                              IN  nearer \cup {k \in DOMAIN rows : Needs(rows[k]) \cap nearer # {}}
           Eq(f) == f = [n \in 0..C |-> Body(f, n)]
           r == CHOOSE f : Eq(f)
<1>1. Gone(id) = r[C]
  BY DEF Gone
<1>2. step \in [X -> X] /\ {id} \in X
  BY DEF Nearer
<1>3. PICK g : Repeats(g, X, {id}, step, C)
  <2>1. C \in Nat
    OBVIOUS
  <2> HIDE DEF step, X, C
  <2> QED BY <1>2, <2>1, Iteration
<1>4. \A f, n : n # 0 => Body(f, n) = Nearer(f[n - 1])
  BY DEF Nearer
<1>5. \A f : Body(f, 0) = {id}
  OBVIOUS
<1>6. \A n \in 0..C : g[n] = Body(g, n)
  <2>1. \A n \in 0..C : n # 0 => g[n] = Nearer(g[n - 1])
    BY <1>3 DEF Repeats
  <2> HIDE DEF Body
  <2> QED BY <1>3, <1>4, <1>5, <2>1 DEF Repeats
<1>7. Eq(g)
  <2> HIDE DEF Body
  <2> QED BY <1>3, <1>6 DEF Repeats
<1>8. Eq(r)
  <2> HIDE DEF Eq
  <2> QED BY <1>7
<1>9. \A n \in 0..C : r[n] = Body(r, n)
  <2> HIDE DEF r, Body
  <2> QED BY <1>8
<1>10. r[0] = {id} /\ \A n \in 0..C : n # 0 => r[n] = Nearer(r[n - 1])
  <2> HIDE DEF r, Body
  <2> QED BY <1>4, <1>5, <1>9
<1> QED
  <2> HIDE DEF r
  <2> QED BY <1>1, <1>10

\* With a row go all rows that need one that goes.
LEMMA GoneClosed ==
  ASSUME NEW id \in DOMAIN rows, IsFiniteSet(DOMAIN rows)
  PROVE  /\ Gone(id) \subseteq DOMAIN rows
         /\ id \in Gone(id)
         /\ \A k \in DOMAIN rows : Needs(rows[k]) \cap Gone(id) # {} => k \in Gone(id)
<1> DEFINE C == Cardinality(DOMAIN rows)
<1>1. C \in Nat
  BY FS_CardinalityType
<1>2. PICK r : /\ r[0] = {id}
               /\ \A n \in 0..C : n # 0 => r[n] = Nearer(r[n - 1])
               /\ Gone(id) = r[C]
  BY <1>1, GoneIsReached
<1> DEFINE T == {n \in Nat : n <= C => /\ r[n] \subseteq DOMAIN rows
                                       /\ id \in r[n]
                                       /\ Nearer(r[n]) = r[n] \/ Cardinality(r[n]) > n}
<1>3. 0 \in T
  BY <1>2, FS_Singleton
<1>4. ASSUME NEW n \in T PROVE n + 1 \in T
  <2> SUFFICES ASSUME n + 1 <= C
               PROVE  /\ r[n + 1] \subseteq DOMAIN rows
                      /\ id \in r[n + 1]
                      /\ Nearer(r[n + 1]) = r[n + 1] \/ Cardinality(r[n + 1]) > n + 1
    BY <1>4
  <2>0. n \in Nat /\ n <= C /\ n + 1 \in 0..C /\ n + 1 # 0 /\ (n + 1) - 1 = n
    BY <1>1, <1>4
  <2>1. /\ r[n] \subseteq DOMAIN rows
        /\ id \in r[n]
        /\ Nearer(r[n]) = r[n] \/ Cardinality(r[n]) > n
    BY <1>4, <2>0
  <2>2. r[n + 1] = Nearer(r[n])
    BY <1>2, <2>0
  <2>3. r[n + 1] \subseteq DOMAIN rows /\ r[n] \subseteq r[n + 1]
    BY <2>1, <2>2 DEF Nearer
  <2>4. CASE Nearer(r[n]) = r[n]
    BY <2>2, <2>3, <2>1, <2>4
  <2>5. CASE Nearer(r[n]) # r[n]
    <3>1. IsFiniteSet(r[n + 1])
      BY <2>3, FS_Subset
    <3>2. IsFiniteSet(r[n])
      BY <2>1, FS_Subset
    <3>3. Cardinality(r[n]) <= Cardinality(r[n + 1]) /\ Cardinality(r[n]) # Cardinality(r[n + 1])
      BY <2>2, <2>3, <2>5, <3>1, FS_Subset
    <3>4. Cardinality(r[n]) \in Nat /\ Cardinality(r[n + 1]) \in Nat
      BY <3>1, <3>2, FS_CardinalityType
    <3>5. Cardinality(r[n + 1]) > n + 1
      BY <2>0, <2>1, <2>5, <3>3, <3>4
    <3> QED BY <2>1, <2>3, <3>5
  <2> QED BY <2>4, <2>5
<1>5. C \in T
  <2>1. T \subseteq Nat
    OBVIOUS
  <2> HIDE DEF T
  <2> QED BY <1>1, <1>3, <1>4, <2>1, SetInduction
<1>6. Nearer(r[C]) = r[C]
  <2>1. r[C] \subseteq DOMAIN rows
    BY <1>1, <1>5
  <2>2. Cardinality(r[C]) <= C /\ IsFiniteSet(r[C])
    BY <2>1, FS_Subset
  <2>3. Cardinality(r[C]) \in Nat
    BY <2>2, FS_CardinalityType
  <2> QED BY <1>1, <1>5, <2>2, <2>3
<1>7. r[C] \subseteq DOMAIN rows /\ id \in r[C]
  BY <1>1, <1>5
<1> QED BY <1>2, <1>6, <1>7 DEF Nearer

-----------------------------------------------------------------------------
(* What other users do to the rows.                                        *)

\* A row hangs on nothing but the rows it needs: it still does where these are.
LEMMA StillHangs ==
  ASSUME NEW state, NEW later, NEW row, row.kind \in Kind, Hangs(state, row),
         \A k \in Needs(row) \cap DOMAIN state :
           /\ k \in DOMAIN later
           /\ later[k].kind = state[k].kind
           /\ state[k].kind \in {"table", "column"} => later[k].above = state[k].above
  PROVE  Hangs(later, row)
<1>0. row.above \in Needs(row)
  BY DEF Needs
<1>1. ASSUME NEW kind, row.above \in OfKind(state, kind) PROVE row.above \in OfKind(later, kind)
  BY <1>0, <1>1 DEF OfKind
<1>2. CASE row.kind = "folder"
  BY <1>1, <1>2 DEF Hangs
<1>3. CASE row.kind \in {"whiteboard", "canvasBoard"}
  BY <1>1, <1>3 DEF Hangs
<1>4. CASE row.kind \in {"table", "area"}
  BY <1>1, <1>4 DEF Hangs
<1>5. CASE row.kind = "element"
  BY <1>1, <1>5 DEF Hangs
<1>6. CASE row.kind = "column"
  BY <1>1, <1>6 DEF Hangs
<1>7. CASE row.kind = "relationship"
  <2>1. /\ row.above \in OfKind(state, "whiteboard")
        /\ \A end \in {row.source, row.target} :
             /\ end.table \in On(state, "table", {row.above})
             /\ end.column \in On(state, "column", {end.table})
    BY <1>7 DEF Hangs
  <2>2. ASSUME NEW end \in {row.source, row.target}
        PROVE  /\ end.table \in On(later, "table", {row.above})
               /\ end.column \in On(later, "column", {end.table})
    <3>1. end.table \in Needs(row) /\ end.column \in Needs(row)
      BY <1>7 DEF Needs
    <3>2. /\ end.table \in On(state, "table", {row.above})
          /\ end.column \in On(state, "column", {end.table})
      BY <2>1
    <3> QED BY <3>1, <3>2 DEF On, OfKind
  <2>3. row.above \in OfKind(later, "whiteboard")
    BY <1>1, <2>1
  <2> QED BY <1>7, <2>2, <2>3 DEF Hangs
<1> QED BY <1>2, <1>3, <1>4, <1>5, <1>6, <1>7 DEF Kind

\* Finitely many rows, each of its type and hanging on rows that are there.
Sound(state) ==
  /\ DOMAIN state \subseteq Id /\ IsFiniteSet(DOMAIN state)
  /\ state \in [DOMAIN state -> Row]
  /\ \A k \in DOMAIN state : Hangs(state, state[k])

LEMMA RowKind == ASSUME NEW row \in Row PROVE row.kind \in Kind
BY DEF Row

LEMMA CreateSound ==
  ASSUME Sound(rows), NEW id \in Spare, id \notin DOMAIN rows, NEW r \in NewRow, Hangs(rows, r),
         NEW later, later = [k \in DOMAIN rows \cup {id} |-> IF k = id THEN r ELSE rows[k]]
  PROVE  Sound(later)
<1>1. DOMAIN later = DOMAIN rows \cup {id} /\ later[id] = r
  OBVIOUS
<1>2. \A k \in DOMAIN rows : later[k] = rows[k]
  OBVIOUS
<1>3. DOMAIN later \subseteq Id /\ IsFiniteSet(DOMAIN later)
  BY <1>1, FS_AddElement, ReadsAssumption DEF Sound
<1>4. r \in Row /\ \A k \in DOMAIN rows : rows[k] \in Row
  BY ReadsAssumption DEF Sound
<1>5. later \in [DOMAIN later -> Row]
  BY <1>1, <1>2, <1>4
<1>6. ASSUME NEW k \in DOMAIN later PROVE Hangs(later, later[k])
  <2>1. Hangs(rows, later[k]) /\ later[k].kind \in Kind
    BY <1>1, <1>2, <1>4, RowKind DEF Sound
  <2>2. \A j \in DOMAIN rows : j \in DOMAIN later /\ later[j] = rows[j]
    BY <1>1, <1>2
  <2> QED BY <2>1, <2>2, StillHangs
<1> QED BY <1>3, <1>5, <1>6 DEF Sound

Movable == {"folder", "whiteboard", "canvasBoard"}

LEMMA KindsHang ==
  ASSUME NEW state, NEW later, DOMAIN later = DOMAIN state,
         \A j \in DOMAIN state : later[j].kind = state[j].kind,
         \A j \in DOMAIN state : state[j].kind \in {"table", "column"} => later[j].above = state[j].above,
         NEW row \in Row, Hangs(state, row)
  PROVE  Hangs(later, row)
BY RowKind, StillHangs

LEMMA RefileSound ==
  ASSUME Sound(rows), NEW id \in DOMAIN rows, NEW f \in OfKind(rows, "folder") \cup {None},
         rows[id].kind \in Movable, NEW later, later = [rows EXCEPT ![id].above = f]
  PROVE  /\ Sound(later) /\ DOMAIN later = DOMAIN rows
         /\ later[id].kind = rows[id].kind /\ \A k \in DOMAIN rows \ {id} : later[k] = rows[k]
<1>1. DOMAIN later = DOMAIN rows /\ \A k \in DOMAIN rows \ {id} : later[k] = rows[k]
  OBVIOUS
<1>2. rows[id] \in Row /\ f \in Id \cup {None}
  BY DEF Sound, OfKind
<1>3. later[id] = [rows[id] EXCEPT !.above = f]
  OBVIOUS
<1>4. later[id] \in Row /\ later[id].kind = rows[id].kind /\ later[id].above = f
  BY <1>2, <1>3 DEF Row
<1>5. later \in [DOMAIN later -> Row]
  BY <1>1, <1>4 DEF Sound
<1>6. \A j \in DOMAIN rows : later[j].kind = rows[j].kind
  BY <1>1, <1>4
<1>7. \A j \in DOMAIN rows : rows[j].kind \in {"table", "column"} => later[j].above = rows[j].above
  BY <1>1 DEF Movable
<1>8. ASSUME NEW k \in DOMAIN later PROVE Hangs(later, later[k])
  <2>1. CASE k = id
    <3>1. f \in OfKind(later, "folder") \cup {None}
      BY <1>1, <1>6 DEF OfKind
    <3> QED BY <1>4, <2>1, <3>1 DEF Hangs, Movable
  <2>2. CASE k # id
    <3>1. Hangs(rows, rows[k]) /\ rows[k] \in Row
      BY <1>1 DEF Sound
    <3>2. Hangs(later, rows[k])
      BY <1>1, <1>6, <1>7, <3>1, KindsHang
    <3> QED BY <1>1, <2>2, <3>2
  <2> QED BY <2>1, <2>2
<1> QED BY <1>1, <1>4, <1>5, <1>8 DEF Sound

LEMMA DeleteSound ==
  ASSUME Sound(rows), NEW id \in DOMAIN rows,
         NEW later, later = [k \in DOMAIN rows \ Gone(id) |-> rows[k]]
  PROVE  Sound(later) /\ DOMAIN later \subseteq DOMAIN rows
<1>1. DOMAIN later \subseteq DOMAIN rows /\ \A k \in DOMAIN later : later[k] = rows[k]
  OBVIOUS
<1>2. IsFiniteSet(DOMAIN rows)
  BY DEF Sound
<1>3. IsFiniteSet(DOMAIN later)
  BY <1>1, <1>2, FS_Subset
<1>4. later \in [DOMAIN later -> Row]
  BY <1>1 DEF Sound
<1>5. ASSUME NEW k \in DOMAIN later PROVE Hangs(later, later[k])
  <2>1. Hangs(rows, rows[k]) /\ rows[k].kind \in Kind
    BY <1>1, RowKind DEF Sound
  <2>2. Needs(rows[k]) \cap Gone(id) = {}
    BY <1>1, <1>2, GoneClosed
  <2>3. \A j \in Needs(rows[k]) \cap DOMAIN rows : j \in DOMAIN later /\ later[j] = rows[j]
    BY <2>2
  <2>4. Hangs(later, rows[k])
    BY <2>1, <2>3, StillHangs
  <2> QED BY <1>1, <2>4
<1> QED BY <1>1, <1>3, <1>4, <1>5 DEF Sound

LEMMA MeddlingSound ==
  ASSUME Sound(rows), \A id \in DOMAIN rows : \E e \in ever : e[1] = id, Create \/ Refile \/ Delete
  PROVE  Sound(rows')
<1>1. CASE Create
  <2>1. PICK id \in Spare \ {e[1] : e \in ever}, r \in NewRow :
          /\ Hangs(rows, r)
          /\ rows' = [k \in DOMAIN rows \cup {id} |-> IF k = id THEN r ELSE rows[k]]
    BY <1>1 DEF Create
  <2> QED BY <2>1, CreateSound
<1>2. CASE Refile
  <2>1. PICK id \in DOMAIN rows, f \in OfKind(rows, "folder") \cup {None} :
          rows[id].kind \in Movable /\ rows' = [rows EXCEPT ![id].above = f]
    BY <1>2 DEF Refile, Movable
  <2> QED BY <2>1, RefileSound
<1>3. CASE Delete
  BY <1>3, DeleteSound DEF Delete
<1> QED BY <1>1, <1>2, <1>3

\* The rows that are there have been seen to be there.
BaseInv ==
  /\ TypeInv
  /\ Sound(rows)
  /\ \A id \in DOMAIN rows : <<id, rows[id]>> \in ever

LEMMA BaseInit == Init => BaseInv
<1> SUFFICES ASSUME Init PROVE BaseInv
  OBVIOUS
<1>1. PICK s \in Scenario : rows = s.rows /\ request = s.request
  BY DEF Init
<1>2. /\ request.tool \in Tools
      /\ request.tool \in CanvasReads => request.maxElements \in Int \cup {None}
      /\ Sound(rows)
  BY <1>1, ScenarioAssumption DEF Sound
<1>3. \A id \in DOMAIN rows : <<id, rows[id]>> \in ever
  BY DEF Init
<1>4. Len(Queries) \in Nat
  BY <1>2, QueriesLength
<1>5. /\ phase = "query" /\ asked = 0 /\ answer = "none" /\ seen = [q \in {} |-> None]
      /\ stood = DOMAIN rows /\ meddled = 0
  BY Zenon DEF Init
<1>6. DOMAIN seen = {Queries[n] : n \in 1..asked}
  <2>1. DOMAIN seen = {} /\ 1..0 = {}
    BY <1>5
  <2> QED BY <1>5, <2>1
<1>7. standing \in Standing
  <2>1. PICK role \in {"VIEWER", "no row"} : standing = [owner |-> FALSE, member |-> role]
    BY Zenon DEF Init
  <2> QED BY <2>1 DEF Standing, MemberRole
<1>8. TypeOK
  BY <1>2, <1>4, <1>5, <1>6, <1>7, ReadsAssumption DEF TypeOK, Sound
<1> QED BY <1>2, <1>3, <1>5, <1>8 DEF BaseInv, TypeInv

LEMMA SameQueries == request' = request => Queries' = Queries
BY DEF Queries

LEMMA SameMore == UNCHANGED <<request, asked, seen>> => More' = More
BY SameQueries DEF More

LEMMA BaseRefuse == BaseInv /\ Refuse => BaseInv'
<1> SUFFICES ASSUME BaseInv, Refuse PROVE BaseInv'
  OBVIOUS
<1>1. UNCHANGED <<rows, standing, request, asked, seen, stood, ever, meddled>>
  BY DEF Refuse
<1>2. answer' = "VALIDATION_ERROR" /\ phase' = "done"
  BY DEF Refuse, Answer
<1>3. Queries' = Queries
  BY <1>1, SameQueries
<1>4. TypeOK'
  BY <1>1, <1>2, <1>3 DEF BaseInv, TypeInv, TypeOK
<1> QED BY <1>1, <1>2, <1>4 DEF BaseInv, TypeInv

LEMMA BaseQueryFails == BaseInv /\ QueryFails => BaseInv'
<1> SUFFICES ASSUME BaseInv, QueryFails PROVE BaseInv'
  OBVIOUS
<1>1. UNCHANGED <<rows, standing, request, asked, seen, stood, ever, meddled>>
  BY DEF QueryFails
<1>2. answer' = "INTERNAL_ERROR" /\ phase' = "done"
  BY DEF QueryFails, Answer
<1>3. Queries' = Queries
  BY <1>1, SameQueries
<1>4. TypeOK'
  BY <1>1, <1>2, <1>3 DEF BaseInv, TypeInv, TypeOK
<1> QED BY <1>1, <1>2, <1>4 DEF BaseInv, TypeInv

LEMMA BaseQuery == BaseInv /\ Query => BaseInv'
<1> SUFFICES ASSUME BaseInv, Query PROVE BaseInv'
  OBVIOUS
<1> DEFINE q == Queries[asked + 1]
           found == Found(q)
           verdict == Verdict(q, found, asked + 1)
<1>1. /\ phase = "query" /\ More /\ asked' = asked + 1
      /\ seen' = [s \in DOMAIN seen \cup {q} |-> IF s = q THEN found ELSE seen[s]]
      /\ IF verdict = "ok" THEN UNCHANGED <<phase, answer>> ELSE Answer(verdict)
      /\ UNCHANGED <<rows, standing, request, stood, ever, meddled>>
  BY DEF Query
<1>2. TypeOK /\ request.tool \in Tools /\ asked \in Nat /\ asked < Len(Queries)
  <2>1. TypeOK /\ request.tool \in Tools
    BY DEF BaseInv, TypeInv
  <2>2. Len(Queries) \in Nat
    BY <2>1, QueriesLength
  <2> QED BY <1>1, <2>1, <2>2 DEF TypeOK, More
<1>3. q \in QueryName
  BY <1>2, QueryOrder
<1>4. /\ verdict \in {"NOT_FOUND", "FORBIDDEN", "ok"}
      /\ verdict = "ok" => found # None
  <2> HIDE DEF q
  <2> QED BY <1>3, VerdictCodes
<1>5. Queries' = Queries
  BY <1>1, SameQueries
<1>6. asked' \in 0..Len(Queries') /\ DOMAIN seen' = {Queries'[n] : n \in 1..asked'}
  <2>1. Len(Queries) \in Nat
    BY <1>2, QueriesLength
  <2>2. asked + 1 \in 0..Len(Queries) /\ 1 .. asked + 1 = 1..asked \cup {asked + 1}
    BY <1>2, <2>1
  <2>3. DOMAIN seen' = DOMAIN seen \cup {q}
    BY <1>1
  <2>4. DOMAIN seen = {Queries[n] : n \in 1..asked}
    BY <1>2 DEF TypeOK
  <2>5. DOMAIN seen' = {Queries[n] : n \in 1 .. asked + 1}
    BY <2>2, <2>3, <2>4
  <2> QED BY <1>1, <1>5, <2>2, <2>5
<1>7. /\ phase' \in {"query", "done"} /\ (phase' = "done") = (answer' # "none")
      /\ answer' # "ok"
      /\ phase' = "query" => verdict = "ok"
  <2> HIDE DEF verdict
  <2> QED BY <1>1, <1>2, <1>4 DEF Answer, TypeOK
<1>8. phase' = "query" => \A s \in DOMAIN seen' : seen'[s] # None
  <2> SUFFICES ASSUME phase' = "query", NEW s \in DOMAIN seen' PROVE seen'[s] # None
    OBVIOUS
  <2>1. found # None
    BY <1>4, <1>7
  <2> HIDE DEF q, found
  <2> QED BY <1>1, <1>2, <2>1 DEF TypeOK
<1>9. /\ DOMAIN rows' \subseteq Id /\ rows' \in [DOMAIN rows' -> Row]
      /\ stood' \subseteq DOMAIN rows' /\ standing' \in Standing /\ meddled' \in 0..MaxMeddling
  BY <1>1, <1>2 DEF TypeOK
<1>10. TypeOK'
  BY <1>6, <1>7, <1>8, <1>9 DEF TypeOK
<1>11. Sound(rows') /\ \A id \in DOMAIN rows' : <<id, rows'[id]>> \in ever'
  BY <1>1 DEF BaseInv
<1>12. request'.tool \in Tools /\ (request'.tool \in CanvasReads => request'.maxElements \in Int \cup {None})
  BY <1>1 DEF BaseInv, TypeInv
<1> QED BY <1>7, <1>10, <1>11, <1>12 DEF BaseInv, TypeInv

LEMMA SameDDL == UNCHANGED <<request, seen>> => TableDDL' = TableDDL
BY DEF TableDDL, GenerateTableDDL, diagram, linked, Read

LEMMA BaseAssemble == BaseInv /\ Assemble => BaseInv'
<1> SUFFICES ASSUME BaseInv, Assemble PROVE BaseInv'
  OBVIOUS
<1>1. /\ phase = "query" /\ ~More /\ phase' = "done"
      /\ answer' = IF request.tool = "get_table_ddl" THEN TableDDL.code ELSE "ok"
      /\ UNCHANGED <<rows, standing, request, asked, seen, stood, ever, meddled>>
  BY DEF Assemble, Answer
<1>2. Queries' = Queries /\ More' = More /\ TableDDL' = TableDDL
  BY <1>1, SameQueries, SameMore, SameDDL
<1>3. answer' \in {"NOT_FOUND", "INTERNAL_ERROR", "ok"}
  BY <1>1, DDLCodes
<1>4. TypeOK'
  BY <1>1, <1>2, <1>3 DEF BaseInv, TypeInv, TypeOK
<1>5. answer' = "ok" => ~More' /\ (request'.tool = "get_table_ddl" => TableDDL'.code = "ok")
  BY <1>1, <1>2
<1> QED BY <1>1, <1>4, <1>5 DEF BaseInv, TypeInv

LEMMA BaseMeddle == BaseInv /\ Meddle => BaseInv'
<1> SUFFICES ASSUME BaseInv, Meddle PROVE BaseInv'
  OBVIOUS
<1>1. /\ meddled < MaxMeddling /\ phase = "query" /\ meddled' = meddled + 1
      /\ Create \/ Refile \/ Delete
      /\ stood' = stood \cap DOMAIN rows'
      /\ ever' = ever \cup {<<id, rows'[id]>> : id \in DOMAIN rows'}
      /\ UNCHANGED <<standing, request, phase, asked, seen, answer>>
  BY DEF Meddle
<1>2. Sound(rows')
  <2>1. \A id \in DOMAIN rows : <<id, rows[id]>>[1] = id
    OBVIOUS
  <2>2. \A id \in DOMAIN rows : \E e \in ever : e[1] = id
    BY <2>1 DEF BaseInv
  <2>3. Create \/ Refile \/ Delete
    BY <1>1
  <2> QED BY <2>2, <2>3, MeddlingSound DEF BaseInv
<1>3. Queries' = Queries
  BY <1>1, SameQueries
<1>4. meddled' \in 0..MaxMeddling
  BY <1>1, ReadsAssumption DEF BaseInv, TypeInv, TypeOK
<1>5. TypeOK'
  BY <1>1, <1>2, <1>3, <1>4 DEF BaseInv, TypeInv, TypeOK, Sound
<1>6. answer' # "ok"
  BY <1>1 DEF BaseInv, TypeInv, TypeOK
<1>7. \A id \in DOMAIN rows' : <<id, rows'[id]>> \in ever'
  BY <1>1
<1> QED BY <1>1, <1>2, <1>5, <1>6, <1>7 DEF BaseInv, TypeInv

LEMMA BaseStep == BaseInv /\ [Next]_vars => BaseInv'
<1> SUFFICES ASSUME BaseInv, [Next]_vars PROVE BaseInv'
  OBVIOUS
<1>1. CASE UNCHANGED vars
  <2>1. /\ UNCHANGED <<rows, standing, request, phase, asked, seen, answer, stood, ever, meddled>>
        /\ Queries' = Queries /\ More' = More /\ TableDDL' = TableDDL
    BY <1>1, SameQueries, SameMore, SameDDL DEF vars
  <2>2. TypeOK'
    BY <2>1 DEF BaseInv, TypeInv, TypeOK
  <2> QED BY <2>1, <2>2 DEF BaseInv, TypeInv
<1> QED
  BY <1>1, BaseRefuse, BaseQuery, BaseQueryFails, BaseAssemble, BaseMeddle DEF Next

LEMMA BaseAlways == Spec => []BaseInv
BY BaseInit, BaseStep, PTL DEF Spec

\* Every variable keeps its type; a call has answered exactly when it is done, and goes
\* on only over rows that were found.
THEOREM ReadTypes == Spec => []TypeOK
<1>1. BaseInv => TypeOK
  BY DEF BaseInv, TypeInv
<1> QED BY <1>1, BaseAlways, PTL

-----------------------------------------------------------------------------
(* What has been there since the call began.                               *)

Past ==
  /\ IsFiniteSet(ever) /\ ever \subseteq Id \X Row
  /\ \A e, x \in ever : e[1] = x[1] => /\ e[2].kind = x[2].kind
                                       /\ e[2].kind \notin Movable => e[2] = x[2]
  /\ \A e \in ever : e[2].kind # "folder" => e[2].above \notin {e[1], Elsewhere}
  /\ \A id \in Whole : Needs(rows[id]) \subseteq stood \cup {None, Elsewhere}

LEMMA Pair == \A a, b : <<a, b>>[1] = a /\ <<a, b>>[2] = b
OBVIOUS

\* Nothing that hangs needs a row that is not there.
LEMMA NeedsAreThere ==
  ASSUME NEW state, NEW row, row.kind \in Kind, Hangs(state, row)
  PROVE  Needs(row) \subseteq DOMAIN state \cup {None, Elsewhere}
<1>1. row.above \in DOMAIN state \cup {None, Elsewhere}
  BY DEF Kind, Hangs, OfKind
<1>2. CASE row.kind = "relationship"
  <2>1. \A end \in {row.source, row.target} :
          end.table \in DOMAIN state /\ end.column \in DOMAIN state
    BY <1>2 DEF Hangs, On, OfKind
  <2> QED BY <1>1, <1>2, <2>1 DEF Needs
<1>3. CASE row.kind # "relationship"
  BY <1>1, <1>3 DEF Needs
<1> QED BY <1>2, <1>3

LEMMA FiniteHistory ==
  ASSUME NEW state, IsFiniteSet(DOMAIN state)
  PROVE  IsFiniteSet({<<id, state[id]>> : id \in DOMAIN state})
<1> DEFINE T == {<<id, state[id]>> : id \in DOMAIN state}
           f == [id \in DOMAIN state |-> <<id, state[id]>>]
<1>1. f \in Surjection(DOMAIN state, T)
  BY DEF Surjection
<1>2. IsFiniteSet(T)
  <2> HIDE DEF f, T
  <2> QED BY <1>1, FS_Surjection
<1> QED BY <1>2

\* Nothing but a folder hangs on itself or elsewhere.
LEMMA HangsHere ==
  ASSUME NEW state, Sound(state), NEW k \in DOMAIN state, state[k].kind # "folder"
  PROVE  state[k].above \notin {k, Elsewhere}
<1>1. state[k].kind \in Kind /\ Hangs(state, state[k]) /\ DOMAIN state \subseteq Id
  BY RowKind DEF Sound
<1>2. k # None /\ \A j \in DOMAIN state : j # Elsewhere
  BY <1>1, ReadsAssumption
<1>3. \/ state[k].above = None
      \/ state[k].above \in DOMAIN state /\ state[state[k].above].kind # state[k].kind
  BY <1>1 DEF Hangs, Kind, OfKind
<1> QED BY <1>2, <1>3, ReadsAssumption

LEMMA PastInit == Init => Past
<1> SUFFICES ASSUME Init PROVE Past
  OBVIOUS
<1>1. BaseInv
  BY BaseInit
<1>2. Sound(rows)
  BY <1>1 DEF BaseInv
<1>3. stood = DOMAIN rows /\ ever = {<<id, rows[id]>> : id \in DOMAIN rows}
  BY Zenon DEF Init
<1>4. IsFiniteSet(ever)
  BY <1>2, <1>3, FiniteHistory DEF Sound
<1>5. ever \subseteq Id \X Row
  BY <1>2, <1>3 DEF Sound
<1>6. \A e, x \in ever : e[1] = x[1] => e[2] = x[2]
  BY <1>3, Pair
<1>7. \A id \in DOMAIN rows : Needs(rows[id]) \subseteq stood \cup {None, Elsewhere}
  BY <1>2, <1>3, NeedsAreThere, RowKind DEF Sound
<1>8. \A e \in ever : e[2].kind # "folder" => e[2].above \notin {e[1], Elsewhere}
  BY <1>2, <1>3, HangsHere, Pair
<1> QED BY <1>3, <1>4, <1>5, <1>6, <1>7, <1>8 DEF Past, Whole

\* Rows keep their kind, and all but those that can be filed keep everything.
LEMMA MeddlingKeeps ==
  ASSUME Sound(rows), Create \/ Refile \/ Delete,
         \A id \in DOMAIN rows : <<id, rows[id]>> \in ever, NEW id \in DOMAIN rows'
  PROVE  \/ id \notin {e[1] : e \in ever}
         \/ /\ id \in DOMAIN rows
            /\ rows'[id].kind = rows[id].kind
            /\ rows[id].kind \notin Movable => rows'[id] = rows[id]
<1>1. CASE Create
  BY <1>1 DEF Create
<1>2. CASE Refile
  <2>1. PICK k \in DOMAIN rows, f \in OfKind(rows, "folder") \cup {None} :
          rows[k].kind \in Movable /\ rows' = [rows EXCEPT ![k].above = f]
    BY <1>2 DEF Refile, Movable
  <2>2. /\ DOMAIN rows' = DOMAIN rows /\ rows'[k].kind = rows[k].kind
        /\ \A j \in DOMAIN rows \ {k} : rows'[j] = rows[j]
    BY <2>1, RefileSound
  <2> QED BY <2>1, <2>2
<1>3. CASE Delete
  BY <1>3 DEF Delete
<1> QED BY <1>1, <1>2, <1>3

LEMMA WholeShrinks ==
  ASSUME BaseInv, Past, Meddle
  PROVE  /\ Whole' \subseteq Whole /\ Whole \subseteq DOMAIN rows
         /\ \A id \in Whole' : rows'[id] = rows[id]
<1>1. /\ stood' = stood \cap DOMAIN rows' /\ ever \subseteq ever'
      /\ stood \subseteq DOMAIN rows /\ \A id \in DOMAIN rows : <<id, rows[id]>> \in ever
  BY DEF Meddle, BaseInv, TypeInv, TypeOK
<1>2. ASSUME NEW id \in Whole' PROVE id \in stood /\ rows'[id] = rows[id]
  <2>1. id \in stood' /\ \A e \in ever' : e[1] = id => e[2] = rows'[id]
    BY DEF Whole
  <2>2. id \in stood /\ <<id, rows[id]>> \in ever'
    BY <1>1, <2>1
  <2> QED BY <2>1, <2>2, Pair
<1>3. ASSUME NEW id \in Whole' PROVE id \in Whole
  <2>1. \A e \in ever' : e[1] = id => e[2] = rows'[id]
    BY DEF Whole
  <2> QED BY <1>1, <1>2, <2>1 DEF Whole
<1> QED BY <1>1, <1>2, <1>3 DEF Whole

LEMMA PastMeddle == BaseInv /\ Past /\ Meddle => Past'
<1> SUFFICES ASSUME BaseInv, Past, Meddle PROVE Past'
  OBVIOUS
<1>1. /\ Create \/ Refile \/ Delete
      /\ stood' = stood \cap DOMAIN rows'
      /\ ever' = ever \cup {<<id, rows'[id]>> : id \in DOMAIN rows'}
  BY DEF Meddle
<1>2. Sound(rows) /\ Sound(rows') /\ \A id \in DOMAIN rows : <<id, rows[id]>> \in ever
  BY BaseMeddle DEF BaseInv
<1>3. IsFiniteSet(ever')
  BY <1>1, <1>2, FiniteHistory, FS_Union DEF Past, Sound
<1>4. ever' \subseteq Id \X Row
  BY <1>1, <1>2 DEF Past, Sound
<1>5. ASSUME NEW e \in ever', NEW x \in ever', e[1] = x[1]
      PROVE  e[2].kind = x[2].kind /\ (e[2].kind \notin Movable => e[2] = x[2])
  <2>1. ASSUME NEW id \in DOMAIN rows', NEW y \in ever, y[1] = id
        PROVE  y[2].kind = rows'[id].kind /\ (y[2].kind \notin Movable => y[2] = rows'[id])
    <3>1. /\ id \in DOMAIN rows /\ rows'[id].kind = rows[id].kind
          /\ rows[id].kind \notin Movable => rows'[id] = rows[id]
      BY <1>1, <1>2, <2>1, MeddlingKeeps
    <3>2. y[2].kind = rows[id].kind /\ (y[2].kind \notin Movable => y[2] = rows[id])
      BY <1>2, <2>1, <3>1, Pair DEF Past
    <3> QED BY <3>1, <3>2
  <2>2. CASE e \in ever /\ x \in ever
    BY <1>5, <2>2 DEF Past
  <2>3. CASE e \in ever /\ x \notin ever
    <3>1. PICK id \in DOMAIN rows' : x = <<id, rows'[id]>>
      BY <1>1, <2>3
    <3> QED BY <1>5, <2>1, <2>3, <3>1, Pair
  <2>4. CASE e \notin ever /\ x \in ever
    <3>1. PICK id \in DOMAIN rows' : e = <<id, rows'[id]>>
      BY <1>1, <2>4
    <3> QED BY <1>5, <2>1, <2>4, <3>1, Pair
  <2>5. CASE e \notin ever /\ x \notin ever
    <3>1. PICK id \in DOMAIN rows' : x = <<id, rows'[id]>>
      BY <1>1, <2>5
    <3>2. PICK k \in DOMAIN rows' : e = <<k, rows'[k]>>
      BY <1>1, <2>5
    <3> QED BY <1>5, <3>1, <3>2, Pair
  <2> QED BY <2>2, <2>3, <2>4, <2>5
<1>6. ASSUME NEW id \in Whole' PROVE Needs(rows'[id]) \subseteq stood' \cup {None, Elsewhere}
  <2>1. id \in Whole /\ rows'[id] = rows[id] /\ id \in DOMAIN rows'
    BY <1>1, WholeShrinks DEF Whole
  <2>2. Needs(rows[id]) \subseteq stood \cup {None, Elsewhere}
    BY <2>1 DEF Past
  <2>3. Needs(rows'[id]) \subseteq DOMAIN rows' \cup {None, Elsewhere}
    BY <1>2, <2>1, NeedsAreThere, RowKind DEF Sound
  <2> QED BY <1>1, <2>1, <2>2, <2>3
<1>7. ASSUME NEW e \in ever', e[2].kind # "folder" PROVE e[2].above \notin {e[1], Elsewhere}
  <2>1. CASE e \in ever
    BY <1>7, <2>1 DEF Past
  <2>2. CASE e \notin ever
    <3>1. PICK id \in DOMAIN rows' : e = <<id, rows'[id]>>
      BY <1>1, <2>2
    <3> QED BY <1>2, <1>7, <3>1, HangsHere, Pair
  <2> QED BY <2>1, <2>2
<1> QED BY <1>3, <1>4, <1>5, <1>6, <1>7 DEF Past

LEMMA PastStep == BaseInv /\ Past /\ [Next]_vars => Past'
<1> SUFFICES ASSUME BaseInv, Past, [Next]_vars PROVE Past'
  OBVIOUS
<1>1. CASE Meddle
  BY <1>1, PastMeddle
<1>2. CASE UNCHANGED <<rows, stood, ever>>
  BY <1>2 DEF Past, Whole
<1> QED BY <1>1, <1>2 DEF Next, vars, Refuse, Query, QueryFails, Assemble

-----------------------------------------------------------------------------
(* What the queries have returned.                                         *)

\* Which rows a query for rows returns.
Selected(q, row) ==
  CASE q = "folders"       -> row.kind = "folder"
    [] q = "whiteboards"   -> row.kind = "whiteboard"
    [] q = "canvasBoards"  -> row.kind = "canvasBoard"
    [] q = "areas"         -> row.kind = "area" /\ row.above = Board
    [] q = "elements"      -> row.kind = "element" /\ row.above = request.id
    [] q = "tables"        -> row.kind = "table" /\ row.above = Board
    [] q = "columns"       -> row.kind = "column" /\ row.above \in DOMAIN seen["tables"]
    [] q = "relationships" -> row.kind = "relationship" /\ row.above = Board

LEMMA FoundRows ==
  ASSUME NEW q \in RowsName
  PROVE  /\ DOMAIN Found(q) = {k \in DOMAIN rows : Selected(q, rows[k])}
         /\ \A k \in DOMAIN Found(q) : Found(q)[k] = rows[k]
<1> USE DEF Found, Rows, Selected, On, OfKind
<1>1. CASE q = "folders"
  BY <1>1 DEF FindFoldersByProjectID
<1>2. CASE q = "whiteboards"
  BY <1>2 DEF FindWhiteboardsByProjectID
<1>3. CASE q = "canvasBoards"
  BY <1>3 DEF FindCanvasBoardsByProjectID
<1>4. CASE q = "areas"
  BY <1>4 DEF FindAreasByWhiteboardID
<1>5. CASE q = "elements"
  BY <1>5 DEF FindCanvasElementsByBoardID
<1>6. CASE q = "tables"
  BY <1>6
<1>7. CASE q = "columns"
  BY <1>7
<1>8. CASE q = "relationships"
  BY <1>8
<1> QED BY <1>1, <1>2, <1>3, <1>4, <1>5, <1>6, <1>7, <1>8 DEF RowsName

\* The rows of a kind that hang on f: those that were whole, and those of the past.
WholeOn(kind, f) == {id \in Whole : rows[id].kind = kind /\ rows[id].above = f}

IdsOn(past, kind, f) == {e[1] : e \in {x \in past : x[2].kind = kind /\ x[2].above = f}}

PastOn(kind, f) == IdsOn(ever, kind, f)

\* What rows a query returned were there at some time, and of those that were there all
\* the time it missed none.
RowsRead(q) ==
  /\ \A k \in DOMAIN seen[q] : <<k, seen[q][k]>> \in ever /\ Selected(q, seen[q][k])
  /\ \A k \in stood : (\A e \in ever : e[1] = k => Selected(q, e[2])) => k \in DOMAIN seen[q]

CountsRead(q) ==
  \A f \in DOMAIN seen[q] :
    /\ seen[q][f] \in Nat
    /\ seen[q][f] >= Cardinality(WholeOn(Counted[q], f))
    /\ seen[q][f] <= Cardinality(PastOn(Counted[q], f))

Readings ==
  /\ \A q \in DOMAIN seen \cap RowsName : RowsRead(q)
  /\ \A q \in DOMAIN seen \cap CountName : CountsRead(q)
  /\ "columns" \in DOMAIN seen => "tables" \in DOMAIN seen
  /\ request.tool = "get_table_ddl" /\ DOMAIN seen # {} => "table" \in DOMAIN seen

LEMMA ReadingsInit == Init => Readings
<1> SUFFICES ASSUME Init PROVE Readings
  OBVIOUS
<1>1. seen = [q \in {} |-> None]
  BY Zenon DEF Init
<1>2. DOMAIN seen = {}
  BY <1>1
<1> QED BY <1>2 DEF Readings

\* What a query selects does not change while nothing else is read of what it goes by.
LEMMA SameSelected ==
  ASSUME request' = request,
         request.tool = "get_table_ddl" => seen'["table"] = seen["table"],
         NEW q \in RowsName, q = "columns" => seen'["tables"] = seen["tables"], NEW row
  PROVE  Selected(q, row)' <=> Selected(q, row)
<1>1. Board' = Board
  BY DEF Board
<1>2. request'.id = request.id
  OBVIOUS
<1> QED BY <1>1, <1>2 DEF RowsName, Selected

LEMMA FiniteOn ==
  ASSUME NEW past, IsFiniteSet(past), NEW kind, NEW f
  PROVE  IsFiniteSet(IdsOn(past, kind, f))
<1> DEFINE S == {x \in past : x[2].kind = kind /\ x[2].above = f}
           T == {e[1] : e \in S}
           g == [e \in S |-> e[1]]
<1>1. IsFiniteSet(S)
  BY FS_Subset
<1>2. g \in Surjection(S, T)
  BY DEF Surjection
<1>3. IsFiniteSet(T)
  <2> HIDE DEF S, T, g
  <2> QED BY <1>1, <1>2, FS_Surjection
<1> QED BY <1>3 DEF IdsOn

LEMMA CountBounds ==
  ASSUME BaseInv, Past, NEW kind, NEW f
  PROVE  /\ WholeOn(kind, f) \subseteq On(rows, kind, {f})
         /\ On(rows, kind, {f}) \subseteq PastOn(kind, f)
         /\ IsFiniteSet(PastOn(kind, f))
<1>1. Whole \subseteq DOMAIN rows /\ \A id \in DOMAIN rows : <<id, rows[id]>> \in ever
  BY DEF BaseInv, TypeInv, TypeOK, Whole
<1>2. WholeOn(kind, f) \subseteq On(rows, kind, {f})
  BY <1>1 DEF WholeOn, On, OfKind
<1>3. On(rows, kind, {f}) \subseteq PastOn(kind, f)
  <2> SUFFICES ASSUME NEW k \in On(rows, kind, {f}) PROVE k \in PastOn(kind, f)
    OBVIOUS
  <2>1. k \in DOMAIN rows /\ rows[k].kind = kind /\ rows[k].above = f
    BY DEF On, OfKind
  <2>2. <<k, rows[k]>> \in {x \in ever : x[2].kind = kind /\ x[2].above = f}
    BY <1>1, <2>1, Pair
  <2> QED BY <2>2, Pair, Zenon DEF PastOn, IdsOn
<1>4. IsFiniteSet(PastOn(kind, f))
  BY FiniteOn DEF PastOn, Past
<1> QED BY <1>2, <1>3, <1>4

LEMMA FoundCounts ==
  ASSUME BaseInv, Past, NEW q \in CountName, NEW f \in DOMAIN Found(q)
  PROVE  /\ Found(q)[f] \in Nat
         /\ Found(q)[f] >= Cardinality(WholeOn(Counted[q], f))
         /\ Found(q)[f] <= Cardinality(PastOn(Counted[q], f))
<1>1. Found(q)[f] = Cardinality(On(rows, Counted[q], {f}))
  BY DEF CountName, Found, countByFolder, Counted
<1> DEFINE kind == Counted[q]
<1>2. /\ WholeOn(kind, f) \subseteq On(rows, kind, {f})
      /\ On(rows, kind, {f}) \subseteq PastOn(kind, f)
      /\ IsFiniteSet(PastOn(kind, f))
  BY CountBounds
<1> HIDE DEF kind
<1>3. IsFiniteSet(On(rows, kind, {f}))
  BY <1>2, FS_Subset
<1>4. Cardinality(On(rows, kind, {f})) \in Nat
  BY <1>3, FS_CardinalityType
<1>5. Cardinality(WholeOn(kind, f)) <= Cardinality(On(rows, kind, {f}))
  BY <1>2, <1>3, FS_Subset
<1>6. Cardinality(On(rows, kind, {f})) <= Cardinality(PastOn(kind, f))
  BY <1>2, FS_Subset
<1>7. Cardinality(WholeOn(kind, f)) \in Nat
  BY <1>2, <1>3, FS_Subset, FS_CardinalityType
<1> QED
  BY <1>1, <1>4, <1>5, <1>6, <1>7 DEF kind

LEMMA ReadingsQuery == BaseInv /\ Past /\ Readings /\ Query => Readings'
<1> SUFFICES ASSUME BaseInv, Past, Readings, Query PROVE Readings'
  OBVIOUS
<1> DEFINE q == Queries[asked + 1]
<1>1. /\ More /\ seen' = [s \in DOMAIN seen \cup {q} |-> IF s = q THEN Found(q) ELSE seen[s]]
      /\ UNCHANGED <<rows, request, stood, ever>>
  BY DEF Query
<1>2. TypeOK /\ request.tool \in Tools /\ asked \in Nat /\ asked < Len(Queries)
  <2>1. TypeOK /\ request.tool \in Tools
    BY DEF BaseInv, TypeInv
  <2>2. Len(Queries) \in Nat
    BY <2>1, QueriesLength
  <2> QED BY <1>1, <2>1, <2>2 DEF TypeOK, More
<1>3. DOMAIN seen = Asked
  BY <1>2 DEF TypeOK, Asked
<1>4. /\ q \in QueryName
      /\ q = "table" => DOMAIN seen \cap (RowsName \cup CountName) = {}
      /\ q = "tables" => "columns" \notin DOMAIN seen
      /\ q = "columns" => "tables" \in DOMAIN seen
      /\ request.tool = "get_table_ddl" /\ q # "table" => "table" \in DOMAIN seen
  BY <1>2, <1>3, QueryOrder
<1> HIDE DEF q
<1>5. DOMAIN seen' = DOMAIN seen \cup {q} /\ seen'[q] = Found(q)
  BY <1>1
<1>6. \A s \in DOMAIN seen : s # q => seen'[s] = seen[s]
  BY <1>1
<1>7. /\ "columns" \in DOMAIN seen => "tables" \in DOMAIN seen
      /\ request.tool = "get_table_ddl" /\ DOMAIN seen # {} => "table" \in DOMAIN seen
  BY DEF Readings
<1>8. ASSUME NEW s \in DOMAIN seen' \cap RowsName PROVE RowsRead(s)'
  <2>1. s \in DOMAIN seen \/ s = q
    BY <1>5
  <2>2. request.tool = "get_table_ddl" => seen'["table"] = seen["table"]
    <3>1. q # "table"
      BY <1>4, <2>1 DEF RowsName
    <3> QED BY <1>4, <1>6, <3>1
  <2>3. s = "columns" => seen'["tables"] = seen["tables"]
    <3>1. s = "columns" => q # "tables" /\ "tables" \in DOMAIN seen
      BY <1>4, <1>7, <2>1
    <3> QED BY <1>6, <3>1
  <2>4. \A row : Selected(s, row)' <=> Selected(s, row)
    BY <1>1, <2>2, <2>3, SameSelected
  <2>5. CASE s = q
    <3>1. /\ DOMAIN seen'[s] = {k \in DOMAIN rows : Selected(s, rows[k])}
          /\ \A k \in DOMAIN seen'[s] : seen'[s][k] = rows[k]
      BY <1>5, <2>5, FoundRows
    <3>2. \A k \in DOMAIN rows : <<k, rows[k]>> \in ever
      BY DEF BaseInv
    <3>3. stood \subseteq DOMAIN rows
      BY <1>2 DEF TypeOK
    <3>4. ASSUME NEW k \in DOMAIN seen'[s]
          PROVE  <<k, seen'[s][k]>> \in ever /\ Selected(s, seen'[s][k])
      BY <3>1, <3>2
    <3>5. ASSUME NEW k \in stood, \A e \in ever : e[1] = k => Selected(s, e[2])
          PROVE  k \in DOMAIN seen'[s]
      BY <3>1, <3>2, <3>3, <3>5, Pair
    <3> QED BY <1>1, <2>4, <3>4, <3>5 DEF RowsRead
  <2>6. CASE s # q
    <3>1. s \in DOMAIN seen /\ seen'[s] = seen[s]
      BY <1>6, <2>1, <2>6
    <3>2. RowsRead(s)
      BY <3>1 DEF Readings
    <3> QED BY <1>1, <2>4, <3>1, <3>2 DEF RowsRead
  <2> QED BY <2>5, <2>6
<1>9. ASSUME NEW s \in DOMAIN seen' \cap CountName PROVE CountsRead(s)'
  <2>1. Whole' = Whole /\ \A kind, f : WholeOn(kind, f)' = WholeOn(kind, f)
    BY <1>1 DEF Whole, WholeOn
  <2>2. \A kind, f : PastOn(kind, f)' = PastOn(kind, f)
    BY <1>1 DEF PastOn
  <2>3. CASE s = q
    BY <1>5, <2>1, <2>2, <2>3, FoundCounts DEF CountsRead
  <2>4. CASE s # q
    BY <1>5, <1>6, <2>1, <2>2, <2>4 DEF CountsRead, Readings
  <2> QED BY <2>3, <2>4
<1>10. "columns" \in DOMAIN seen' => "tables" \in DOMAIN seen'
  BY <1>4, <1>5, <1>7
<1>11. request'.tool = "get_table_ddl" => "table" \in DOMAIN seen'
  BY <1>1, <1>4, <1>5
<1> QED BY <1>8, <1>9, <1>10, <1>11 DEF Readings

LEMMA ReadingsMeddle == BaseInv /\ Past /\ Readings /\ Meddle => Readings'
<1> SUFFICES ASSUME BaseInv, Past, Readings, Meddle PROVE Readings'
  OBVIOUS
<1>1. /\ stood' \subseteq stood /\ ever \subseteq ever' /\ UNCHANGED <<request, seen>>
  BY DEF Meddle
<1>2. Past'
  BY PastMeddle
<1>4. ASSUME NEW s \in DOMAIN seen' \cap RowsName PROVE RowsRead(s)'
  <2>1. \A row : Selected(s, row)' <=> Selected(s, row)
    BY <1>1, SameSelected
  <2>2. RowsRead(s)
    BY <1>1 DEF Readings
  <2> QED BY <1>1, <2>1, <2>2 DEF RowsRead
<1>5. ASSUME NEW s \in DOMAIN seen' \cap CountName PROVE CountsRead(s)'
  <2> SUFFICES ASSUME NEW f \in DOMAIN seen'[s]
               PROVE  /\ seen'[s][f] \in Nat
                      /\ seen'[s][f] >= Cardinality(WholeOn(Counted[s], f)')
                      /\ seen'[s][f] <= Cardinality(PastOn(Counted[s], f)')
    BY DEF CountsRead
  <2> DEFINE kind == Counted[s]
  <2>1. /\ seen'[s][f] \in Nat
        /\ seen'[s][f] >= Cardinality(WholeOn(kind, f))
        /\ seen'[s][f] <= Cardinality(PastOn(kind, f))
    BY <1>1 DEF Readings, CountsRead
  <2> HIDE DEF kind
  <2>2. WholeOn(kind, f)' \subseteq WholeOn(kind, f)
    BY WholeShrinks DEF WholeOn
  <2>3. PastOn(kind, f) \subseteq PastOn(kind, f)'
    BY <1>1 DEF PastOn, IdsOn
  <2>4. /\ WholeOn(kind, f) \subseteq PastOn(kind, f)
        /\ IsFiniteSet(PastOn(kind, f))
    BY CountBounds
  <2>5. IsFiniteSet(PastOn(kind, f)')
    BY <1>2, FiniteOn DEF PastOn, Past
  <2>6. IsFiniteSet(WholeOn(kind, f))
    BY <2>4, FS_Subset
  <2>7. /\ Cardinality(WholeOn(kind, f)') <= Cardinality(WholeOn(kind, f))
        /\ IsFiniteSet(WholeOn(kind, f)')
    BY <2>2, <2>6, FS_Subset
  <2>8. Cardinality(PastOn(kind, f)) <= Cardinality(PastOn(kind, f)')
    BY <2>3, <2>5, FS_Subset
  <2>9. /\ Cardinality(WholeOn(kind, f)) \in Nat /\ Cardinality(WholeOn(kind, f)') \in Nat
        /\ Cardinality(PastOn(kind, f)) \in Nat /\ Cardinality(PastOn(kind, f)') \in Nat
    BY <2>4, <2>5, <2>6, <2>7, FS_CardinalityType
  <2>10. /\ seen'[s][f] >= Cardinality(WholeOn(kind, f)')
         /\ seen'[s][f] <= Cardinality(PastOn(kind, f)')
    BY <2>1, <2>7, <2>8, <2>9
  <2> QED BY <2>1, <2>10 DEF kind
<1> QED BY <1>1, <1>4, <1>5 DEF Readings

LEMMA ReadingsStep == BaseInv /\ Past /\ Readings /\ [Next]_vars => Readings'
<1> SUFFICES ASSUME BaseInv, Past, Readings, [Next]_vars PROVE Readings'
  OBVIOUS
<1>1. CASE Query
  BY <1>1, ReadingsQuery
<1>2. CASE Meddle
  BY <1>2, ReadingsMeddle
<1>3. CASE UNCHANGED <<rows, request, seen, stood, ever>>
  <2>1. \A q \in RowsName : \A row : Selected(q, row)' <=> Selected(q, row)
    BY <1>3, SameSelected
  <2>2. Whole' = Whole
    BY <1>3 DEF Whole
  <2>3. \A q \in RowsName : RowsRead(q) => RowsRead(q)'
    BY <1>3, <2>1 DEF RowsRead
  <2>4. \A q : CountsRead(q) => CountsRead(q)'
    BY <1>3, <2>2 DEF CountsRead, WholeOn, PastOn
  <2> QED BY <1>3, <2>3, <2>4 DEF Readings
<1> QED BY <1>1, <1>2, <1>3 DEF Next, vars, Refuse, QueryFails, Assemble

ReadInv == BaseInv /\ Past /\ Readings

LEMMA ReadAlways == Spec => []ReadInv
<1>1. Init => ReadInv
  BY BaseInit, PastInit, ReadingsInit DEF ReadInv
<1>2. ReadInv /\ [Next]_vars => ReadInv'
  BY BaseStep, PastStep, ReadingsStep DEF ReadInv
<1> QED BY <1>1, <1>2, PTL DEF Spec

-----------------------------------------------------------------------------
(* The paths of the folder tree.                                           *)

\* A path down from id: each folder is in the one before it, and none but the last is
\* on it twice.
IsPath(p, id, below) ==
  /\ p \in Seq(DOMAIN below) /\ Len(p) >= 1 /\ p[1] = id
  /\ \A n \in 2..Len(p) : p[n] \in below[p[n - 1]]
  /\ \A m, n \in 1 .. Len(p) - 1 : p[m] = p[n] => m = n

Deeper(S, below) ==
  UNION {{Append(p, child) : child \in below[Last(p)]} : p \in {q \in S : Distinct(q)}}

LEMMA SinglePath ==
  ASSUME NEW below, NEW id \in DOMAIN below
  PROVE  IsPath(<<id>>, id, below) /\ Len(<<id>>) = 1 /\ Last(<<id>>) = id /\ Distinct(<<id>>)
BY DEF IsPath, Last, Distinct

\* A path without repetition can be continued.
LEMMA LongerPath ==
  ASSUME NEW below, below \in [DOMAIN below -> SUBSET DOMAIN below], NEW id, NEW p,
         IsPath(p, id, below), Distinct(p), NEW child \in below[Last(p)]
  PROVE  LET q == Append(p, child) IN
         IsPath(q, id, below) /\ Len(q) = Len(p) + 1 /\ Last(q) = child /\ q[Len(p)] = Last(p)
<1> DEFINE q == Append(p, child)
           F == DOMAIN below
<1>1. p \in Seq(F) /\ Len(p) \in Nat /\ Len(p) >= 1 /\ p[1] = id
  BY LenProperties DEF IsPath
<1>2. Last(p) \in F /\ Last(p) = p[Len(p)]
  BY <1>1, ElementOfSeq DEF Last
<1>3. child \in F
  BY <1>2
<1>4. /\ q \in Seq(F) /\ Len(q) = Len(p) + 1
      /\ \A i \in 1..Len(p) : q[i] = p[i]
      /\ q[Len(p) + 1] = child
  BY <1>1, <1>3, AppendProperties
<1>5. DOMAIN p = 1..Len(p)
  BY <1>1, LenProperties
<1> HIDE DEF q
<1>6. ASSUME NEW n \in 2..Len(q) PROVE q[n] \in below[q[n - 1]]
  <2>1. n - 1 \in 1..Len(p) /\ q[n - 1] = p[n - 1]
    BY <1>1, <1>4
  <2>2. CASE n = Len(p) + 1
    BY <1>1, <1>2, <1>4, <2>1, <2>2
  <2>3. CASE n # Len(p) + 1
    <3>1. n \in 2..Len(p) /\ n \in 1..Len(p)
      BY <1>1, <1>4, <2>3
    <3>2. p[n] \in below[p[n - 1]]
      BY <3>1 DEF IsPath
    <3> QED BY <1>4, <2>1, <3>1, <3>2
  <2> QED BY <2>2, <2>3
<1>7. \A m, n \in 1 .. Len(q) - 1 : q[m] = q[n] => m = n
  <2>1. Len(q) - 1 = Len(p)
    BY <1>1, <1>4
  <2>2. \A m, n \in 1..Len(p) : p[m] = p[n] => m = n
    BY <1>5 DEF Distinct
  <2> QED BY <1>4, <2>1, <2>2
<1>8. 1 \in 1..Len(p) /\ Len(p) \in 1..Len(p)
  BY <1>1
<1>9. q[1] = id /\ q[Len(p)] = Last(p) /\ Last(q) = child /\ Len(q) >= 1
  BY <1>1, <1>2, <1>4, <1>8 DEF Last
<1>10. IsPath(q, id, below)
  BY <1>4, <1>6, <1>7, <1>9 DEF IsPath
<1> QED BY <1>4, <1>9, <1>10 DEF q

Upto(p, n) == SubSeq(p, 1, n)

\* The beginning of a path is one, and without repetition if it is not all of it.
LEMMA ShorterPath ==
  ASSUME NEW below, NEW id, NEW p, IsPath(p, id, below), NEW n \in 1..Len(p)
  PROVE  /\ IsPath(Upto(p, n), id, below)
         /\ Len(Upto(p, n)) = n
         /\ Last(Upto(p, n)) = p[n]
         /\ \A i \in 1..n : Upto(p, n)[i] = p[i]
         /\ n < Len(p) => Distinct(Upto(p, n))
<1> DEFINE q == Upto(p, n)
           F == DOMAIN below
<1>1. p \in Seq(F) /\ Len(p) \in Nat /\ Len(p) >= 1 /\ p[1] = id
  BY LenProperties DEF IsPath
<1>2. n \in Int /\ n >= 1 /\ n <= Len(p)
  BY <1>1
<1>3. \A i \in 1..n : p[i] \in F
  BY <1>1, <1>2, ElementOfSeq
<1>4. /\ q \in Seq(F)
      /\ Len(q) = IF 1 <= n THEN n - 1 + 1 ELSE 0
      /\ \A i \in 1 .. n - 1 + 1 : q[i] = p[1 + i - 1]
  BY <1>2, <1>3, SubSeqProperties DEF Upto
<1> HIDE DEF q
<1>5. Len(q) = n /\ \A i \in 1..n : q[i] = p[i]
  BY <1>2, <1>4
<1>6. DOMAIN q = 1..n
  BY <1>4, <1>5, LenProperties
<1>7. ASSUME NEW i \in 2..Len(q) PROVE q[i] \in below[q[i - 1]]
  <2>1. i \in 2..Len(p) /\ i \in 1..n /\ i - 1 \in 1..n
    BY <1>1, <1>2, <1>5
  <2>2. p[i] \in below[p[i - 1]]
    BY <2>1 DEF IsPath
  <2> QED BY <1>5, <2>1, <2>2
<1>8. \A m, i \in 1 .. Len(p) - 1 : p[m] = p[i] => m = i
  BY DEF IsPath
<1>9. \A m, i \in 1 .. Len(q) - 1 : q[m] = q[i] => m = i
  <2>1. \A i \in 1 .. n - 1 : i \in 1..n /\ i \in 1 .. Len(p) - 1
    BY <1>1, <1>2
  <2> QED BY <1>5, <1>8, <2>1
<1>10. n < Len(p) => Distinct(q)
  <2>1. n < Len(p) => \A i \in 1..n : i \in 1 .. Len(p) - 1
    BY <1>1, <1>2
  <2> QED BY <1>5, <1>6, <1>8, <2>1 DEF Distinct
<1>11. q[1] = id /\ Last(q) = p[n]
  BY <1>1, <1>2, <1>5 DEF Last
<1>12. IsPath(q, id, below)
  BY <1>2, <1>4, <1>5, <1>7, <1>9, <1>11 DEF IsPath
<1> QED BY <1>5, <1>10, <1>11, <1>12 DEF q

\* A longer path is one without repetition and a folder in its last.
LEMMA PathFront ==
  ASSUME NEW below, NEW id, NEW p, IsPath(p, id, below), Len(p) > 1
  PROVE  LET q == Upto(p, Len(p) - 1) IN
         /\ IsPath(q, id, below) /\ Distinct(q) /\ Len(q) = Len(p) - 1
         /\ Last(q) = p[Len(p) - 1] /\ Last(p) \in below[Last(q)]
         /\ p = Append(q, Last(p))
<1> DEFINE q == Upto(p, Len(p) - 1)
           F == DOMAIN below
<1>1. p \in Seq(F) /\ Len(p) \in Nat
  BY LenProperties DEF IsPath
<1>2. Len(p) - 1 \in 1..Len(p) /\ Len(p) \in 1..Len(p) /\ Len(p) - 1 < Len(p)
  BY <1>1
<1>3. /\ IsPath(q, id, below) /\ Len(q) = Len(p) - 1 /\ Last(q) = p[Len(p) - 1]
      /\ \A i \in 1 .. Len(p) - 1 : q[i] = p[i]
      /\ Distinct(q)
  BY <1>2, ShorterPath
<1>4. Last(p) = p[Len(p)] /\ Last(p) \in F
  BY <1>1, <1>2, ElementOfSeq DEF Last
<1>5. p[Len(p)] \in below[p[Len(p) - 1]]
  <2>1. Len(p) \in 2..Len(p)
    BY <1>1
  <2> QED BY <2>1 DEF IsPath
<1> HIDE DEF q
<1>6. q \in Seq(F)
  BY <1>3 DEF IsPath
<1>7. /\ Append(q, Last(p)) \in Seq(F)
      /\ Len(Append(q, Last(p))) = Len(q) + 1
      /\ \A i \in 1..Len(q) : Append(q, Last(p))[i] = q[i]
      /\ Append(q, Last(p))[Len(q) + 1] = Last(p)
  BY <1>4, <1>6, AppendProperties
<1>8. ASSUME NEW i \in 1..Len(p) PROVE p[i] = Append(q, Last(p))[i]
  <2>1. CASE i = Len(p)
    <3>1. Len(q) + 1 = Len(p)
      BY <1>1, <1>3
    <3> QED BY <1>4, <1>7, <2>1, <3>1
  <2>2. CASE i # Len(p)
    <3>1. i \in 1 .. Len(p) - 1 /\ i \in 1..Len(q)
      BY <1>1, <1>3, <2>2
    <3> QED BY <1>3, <1>7, <3>1
  <2> QED BY <2>1, <2>2
<1>9. p = Append(q, Last(p))
  <2>1. Len(p) = Len(Append(q, Last(p)))
    BY <1>1, <1>3, <1>7
  <2> QED BY <1>1, <1>7, <1>8, <2>1, SeqEqual
<1> QED BY <1>3, <1>4, <1>5, <1>9 DEF q

\* A folder that is reached is reached without repetition.
LEMMA ReachedOnce ==
  ASSUME NEW below, NEW id, NEW p, IsPath(p, id, below)
  PROVE  \E q : IsPath(q, id, below) /\ Distinct(q) /\ Last(q) = Last(p)
<1>1. p \in Seq(DOMAIN below) /\ Len(p) \in Nat /\ Len(p) >= 1 /\ DOMAIN p = 1..Len(p)
  BY LenProperties DEF IsPath
<1>2. CASE Distinct(p)
  BY <1>2
<1>3. CASE ~Distinct(p)
  <2>0. Len(p) \in Nat
    BY <1>1
  <2>1. PICK m \in 1..Len(p), n \in 1..Len(p) : p[m] = p[n] /\ m # n
    BY <1>1, <1>3 DEF Distinct
  <2>2. m = Len(p) \/ n = Len(p)
    <3>1. ~(m \in 1 .. Len(p) - 1 /\ n \in 1 .. Len(p) - 1)
      BY <2>1 DEF IsPath
    <3>2. \A k \in 1..Len(p) : k # Len(p) => k \in 1 .. Len(p) - 1
      BY <2>0
    <3> QED BY <3>1, <3>2
  <2>3. \E k \in 1..Len(p) : k < Len(p) /\ p[k] = Last(p)
    <3>1. \A k \in 1..Len(p) : k # Len(p) => k < Len(p)
      BY <2>0
    <3>2. CASE m = Len(p)
      <4>1. n < Len(p) /\ p[n] = Last(p)
        BY <2>1, <3>1, <3>2 DEF Last
      <4> QED BY <4>1
    <3>3. CASE n = Len(p)
      <4>1. m < Len(p) /\ p[m] = Last(p)
        BY <2>1, <3>1, <3>3 DEF Last
      <4> QED BY <4>1
    <3> QED BY <2>2, <3>2, <3>3
  <2>4. PICK k \in 1..Len(p) : k < Len(p) /\ p[k] = Last(p)
    BY <2>3
  <2> QED BY <2>4, ShorterPath
<1> QED BY <1>2, <1>3

LEMMA PathLength ==
  ASSUME NEW below, IsFiniteSet(DOMAIN below), NEW id, NEW p, IsPath(p, id, below)
  PROVE  Len(p) \in 1 .. Cardinality(DOMAIN below) + 1
<1> DEFINE F == DOMAIN below
           n == Len(p) - 1
           f == [i \in 1..n |-> p[i]]
<1>1. p \in Seq(F) /\ Len(p) \in Nat /\ Len(p) >= 1
  BY LenProperties DEF IsPath
<1>2. \A i \in 1..n : p[i] \in F
  BY <1>1, ElementOfSeq
<1>3. \A i, j \in 1..n : p[i] = p[j] => i = j
  BY DEF IsPath
<1>4. f \in Injection(1..n, F)
  BY <1>2, <1>3 DEF Injection, IsInjective
<1>5. Cardinality(1..n) <= Cardinality(F)
  <2> HIDE DEF f, n, F
  <2>1. IsFiniteSet(F)
    BY DEF F
  <2> QED BY <1>4, <2>1, FS_Injection
<1>6. Cardinality(1..n) = n
  BY <1>1, FS_Interval
<1>7. Cardinality(F) \in Nat
  BY FS_CardinalityType
<1> QED BY <1>1, <1>5, <1>6, <1>7

\* One level after the other.
LEMMA LevelsAreBuilt ==
  ASSUME NEW below, below \in [DOMAIN below -> SUBSET DOMAIN below], NEW id \in DOMAIN below,
         Cardinality(DOMAIN below) \in Nat
  PROVE  \E r : /\ r[1] = {<<id>>}
                /\ \A n \in 2 .. Cardinality(DOMAIN below) + 1 : r[n] = Deeper(r[n - 1], below)
                /\ build(id, below) = UNION {r[n] : n \in 1 .. Cardinality(DOMAIN below) + 1}
<1> DEFINE F == DOMAIN below
           C == Cardinality(F)
           D == 1 .. C + 1
           X == SUBSET (Seq(F) \ {<<>>})
           step == [S \in X |-> Deeper(S, below)]
           Body(f, n) ==
             IF n = 1 THEN {<<id>>}
             ELSE UNION {{Append(p, child) : child \in below[Last(p)]} :
                           p \in {q \in f[n - 1] : Distinct(q)}}
           Eq(f) == f = [n \in D |-> Body(f, n)]
           r == CHOOSE f : Eq(f)
<1>1. build(id, below) = UNION {r[n] : n \in D}
  BY DEF build
<1>2. {<<id>>} \in X
  OBVIOUS
<1>3. ASSUME NEW S \in X PROVE Deeper(S, below) \in X
  <2> SUFFICES ASSUME NEW q \in Deeper(S, below) PROVE q \in Seq(F) \ {<<>>}
    OBVIOUS
  <2>1. PICK p \in S : \E child \in below[Last(p)] : q = Append(p, child)
    BY DEF Deeper
  <2>2. PICK child \in below[Last(p)] : q = Append(p, child)
    BY <2>1
  <2>3. p \in Seq(F) /\ Len(p) \in Nat /\ Len(p) # 0
    BY EmptySeq, LenProperties
  <2>4. Last(p) \in F
    BY <2>3, ElementOfSeq DEF Last
  <2>5. child \in F
    BY <2>4
  <2> QED BY <2>2, <2>3, <2>5, AppendProperties
<1>4. step \in [X -> X]
  BY <1>3
<1>5. PICK g : Repeats(g, X, {<<id>>}, step, C)
  <2>1. C \in Nat
    OBVIOUS
  <2> HIDE DEF step, X, C
  <2> QED BY <1>2, <1>4, <2>1, Iteration
<1>6. \A f, n : n # 1 => Body(f, n) = Deeper(f[n - 1], below)
  BY DEF Deeper
<1>7. \A f : Body(f, 1) = {<<id>>}
  OBVIOUS
<1> HIDE DEF Body
<1> DEFINE h == [n \in D |-> g[n - 1]]
<1>8. ASSUME NEW n \in D PROVE h[n] = Body(h, n)
  <2>1. C \in Nat /\ n \in Int /\ n >= 1 /\ n <= C + 1
    OBVIOUS
  <2>2. CASE n = 1
    <3>1. h[1] = g[0]
      BY <2>1
    <3>2. g[0] = {<<id>>}
      BY <1>5 DEF Repeats
    <3> HIDE DEF h
    <3> QED BY <1>7, <2>2, <3>1, <3>2
  <2>3. CASE n # 1
    <3>1. n - 1 \in D /\ n - 1 \in 0..C /\ n - 1 # 0
      BY <2>1, <2>3
    <3>2. h[n] = g[n - 1] /\ h[n - 1] = g[(n - 1) - 1]
      BY <3>1
    <3>3. g[n - 1] = step[g[(n - 1) - 1]] /\ (n - 1) - 1 \in 0..C
      <4> HIDE DEF step
      <4> QED BY <1>5, <3>1 DEF Repeats
    <3>4. g[(n - 1) - 1] \in X
      BY <1>5, <3>3 DEF Repeats
    <3>5. step[g[(n - 1) - 1]] = Deeper(g[(n - 1) - 1], below)
      BY <3>4
    <3> HIDE DEF h, step
    <3> QED BY <1>6, <2>3, <3>2, <3>3, <3>5
  <2> QED BY <2>2, <2>3
<1>9. Eq(h)
  <2>1. h = [n \in D |-> h[n]]
    OBVIOUS
  <2> HIDE DEF h
  <2> QED BY <1>8, <2>1
<1>10. Eq(r)
  <2> HIDE DEF Eq
  <2> QED BY <1>9
<1>11. \A n \in D : r[n] = Body(r, n)
  <2> HIDE DEF r
  <2> QED BY <1>10
<1>12. r[1] = {<<id>>}
  <2>1. 1 \in D
    OBVIOUS
  <2> HIDE DEF r, D
  <2> QED BY <1>7, <1>11, <2>1
<1>13. \A n \in 2 .. C + 1 : r[n] = Deeper(r[n - 1], below)
  <2>1. \A n \in 2 .. C + 1 : n \in D /\ n # 1
    OBVIOUS
  <2> HIDE DEF r, D
  <2> QED BY <1>6, <1>11, <2>1
<1> QED
  <2> HIDE DEF r
  <2> QED BY <1>1, <1>12, <1>13

\* The nodes from id down are the paths down from it.
LEMMA BuildIsPaths ==
  ASSUME NEW below, below \in [DOMAIN below -> SUBSET DOMAIN below], NEW id \in DOMAIN below,
         IsFiniteSet(DOMAIN below), NEW p
  PROVE  p \in build(id, below) <=> IsPath(p, id, below)
<1> DEFINE F == DOMAIN below
           C == Cardinality(F)
<1>1. C \in Nat
  BY FS_CardinalityType
<1>2. PICK r : /\ r[1] = {<<id>>}
               /\ \A n \in 2 .. C + 1 : r[n] = Deeper(r[n - 1], below)
               /\ build(id, below) = UNION {r[n] : n \in 1 .. C + 1}
  BY <1>1, LevelsAreBuilt
<1> DEFINE T == {n \in Nat : n <= C => \A q : q \in r[n + 1] <=> IsPath(q, id, below) /\ Len(q) = n + 1}
<1>3. 0 \in T
  <2> SUFFICES ASSUME NEW q PROVE q \in r[1] <=> IsPath(q, id, below) /\ Len(q) = 1
    OBVIOUS
  <2>1. q \in r[1] => IsPath(q, id, below) /\ Len(q) = 1
    BY <1>2, SinglePath
  <2>2. ASSUME IsPath(q, id, below), Len(q) = 1 PROVE q = <<id>>
    <3>1. q \in Seq(F) /\ q[1] = id
      BY <2>2 DEF IsPath
    <3>2. <<id>> \in Seq(F) /\ Len(<<id>>) = 1 /\ <<id>>[1] = id
      OBVIOUS
    <3>3. \A i \in 1..1 : i = 1
      OBVIOUS
    <3> QED BY <2>2, <3>1, <3>2, <3>3, SeqEqual
  <2> QED BY <1>2, <2>1, <2>2
<1>4. ASSUME NEW n \in T PROVE n + 1 \in T
  <2>0. n \in Nat
    BY <1>4
  <2> SUFFICES ASSUME n + 1 <= C, NEW q
               PROVE  q \in r[n + 2] <=> IsPath(q, id, below) /\ Len(q) = n + 2
    BY <2>0
  <2>1. \A s : s \in r[n + 1] <=> IsPath(s, id, below) /\ Len(s) = n + 1
    BY <1>1, <1>4, <2>0
  <2>2. r[n + 2] = Deeper(r[n + 1], below)
    <3>1. n + 2 \in 2 .. C + 1 /\ (n + 2) - 1 = n + 1
      BY <1>1, <2>0
    <3> QED BY <1>2, <3>1
  <2>3. ASSUME q \in r[n + 2] PROVE IsPath(q, id, below) /\ Len(q) = n + 2
    <3>1. PICK s \in r[n + 1] : Distinct(s) /\ \E child \in below[Last(s)] : q = Append(s, child)
      BY <2>2, <2>3 DEF Deeper
    <3>2. IsPath(s, id, below) /\ Len(s) = n + 1
      BY <2>1
    <3>3. IsPath(q, id, below) /\ Len(q) = Len(s) + 1
      BY <3>1, <3>2, LongerPath
    <3> QED BY <2>0, <3>2, <3>3
  <2>4. ASSUME IsPath(q, id, below), Len(q) = n + 2 PROVE q \in r[n + 2]
    <3> DEFINE s == Upto(q, Len(q) - 1)
    <3>1. Len(q) > 1
      BY <2>0, <2>4
    <3>2. /\ IsPath(s, id, below) /\ Distinct(s) /\ Len(s) = Len(q) - 1
          /\ Last(q) \in below[Last(s)] /\ q = Append(s, Last(q))
      BY <2>4, <3>1, PathFront
    <3>3. Len(s) = n + 1
      BY <2>0, <2>4, <3>2
    <3> HIDE DEF s
    <3>4. s \in r[n + 1]
      BY <2>1, <3>2, <3>3
    <3> QED BY <2>2, <3>2, <3>4 DEF Deeper
  <2> QED BY <2>3, <2>4
<1>5. \A n \in 0..C : \A q : q \in r[n + 1] <=> IsPath(q, id, below) /\ Len(q) = n + 1
  <2>1. T \subseteq Nat
    OBVIOUS
  <2>2. T = Nat
    <3> HIDE DEF T
    <3> QED BY <1>3, <1>4, <2>1, SetInduction
  <2>3. \A n \in 0..C : n \in T /\ n <= C
    BY <1>1, <2>2
  <2> QED BY <2>3
<1>6. \A n \in 1 .. C + 1 : \A q : q \in r[n] <=> IsPath(q, id, below) /\ Len(q) = n
  <2>1. \A n \in 1 .. C + 1 : n - 1 \in 0..C /\ (n - 1) + 1 = n
    BY <1>1
  <2> QED BY <1>5, <2>1
<1>7. p \in build(id, below) => IsPath(p, id, below)
  BY <1>2, <1>6
<1>8. IsPath(p, id, below) => p \in build(id, below)
  <2>1. IsPath(p, id, below) => Len(p) \in 1 .. C + 1
    BY PathLength
  <2> QED BY <1>2, <1>6, <2>1
<1> QED BY <1>7, <1>8

\* Of finitely many rows one comes first.
LEMMA OneIsFirst ==
  ASSUME NEW U, IsFiniteSet(U), NEW found, \A k \in U : found[k].order \in Int
  PROVE  \A S \in SUBSET U : S # {} => \E k \in S : \A j \in S : found[k].order <= found[j].order
<1> DEFINE HasFirst(S) == \E k \in S : \A j \in S : found[k].order <= found[j].order
           T == {n \in Nat : \A S \in SUBSET U : Cardinality(S) = n /\ S # {} => HasFirst(S)}
<1>1. \A S \in SUBSET U : IsFiniteSet(S)
  BY FS_Subset
<1>2. 0 \in T
  BY <1>1, FS_EmptySet
<1>3. ASSUME NEW n \in T PROVE n + 1 \in T
  <2> SUFFICES ASSUME NEW S \in SUBSET U, Cardinality(S) = n + 1, S # {} PROVE HasFirst(S)
    BY <1>3
  <2>1. PICK x \in S : TRUE
    OBVIOUS
  <2> DEFINE R == S \ {x}
  <2>2. R \in SUBSET U
    OBVIOUS
  <2>3. Cardinality(R) = n
    <3>1. IsFiniteSet(S) /\ x \in S
      BY <1>1
    <3>2. Cardinality(R) = Cardinality(S) - 1
      <4> HIDE DEF HasFirst, T
      <4> QED BY <3>1, FS_RemoveElement
    <3> QED BY <3>2, <1>3
  <2>4. CASE R = {}
    <3>1. \A j \in S : j = x
      BY <2>4
    <3>2. found[x].order <= found[x].order
      OBVIOUS
    <3> QED BY <3>1, <3>2
  <2>5. CASE R # {}
    <3>1. HasFirst(R)
      <4> HIDE DEF HasFirst, R
      <4> QED BY <1>3, <2>2, <2>3, <2>5
    <3>2. PICK k \in R : \A j \in R : found[k].order <= found[j].order
      BY <3>1
    <3>3. found[k].order \in Int /\ found[x].order \in Int
      BY <2>2
    <3>4. \A j \in S : j = x \/ j \in R
      OBVIOUS
    <3>5. CASE found[k].order <= found[x].order
      <4>1. \A j \in S : found[k].order <= found[j].order
        BY <3>2, <3>4, <3>5
      <4> QED BY <4>1
    <3>6. CASE ~(found[k].order <= found[x].order)
      <4>1. \A j \in S : found[j].order \in Int
        OBVIOUS
      <4>2. \A j \in S : found[x].order <= found[j].order
        BY <3>2, <3>3, <3>4, <3>6, <4>1
      <4> QED BY <4>2
    <3> QED BY <3>5, <3>6
  <2> QED BY <2>4, <2>5
<1>4. T = Nat
  <2>1. T \subseteq Nat
    OBVIOUS
  <2> HIDE DEF T
  <2> QED BY <1>2, <1>3, <2>1, SetInduction
<1>5. ASSUME NEW S \in SUBSET U, S # {} PROVE HasFirst(S)
  <2>1. Cardinality(S) \in T
    BY <1>1, <1>4, FS_CardinalityType
  <2> QED BY <1>5, <2>1
<1> QED BY <1>5

LEMMA FirstIsFirst ==
  ASSUME NEW S, IsFiniteSet(S), S # {}, NEW found, \A k \in S : found[k].order \in Int
  PROVE  First(S, found) \in S
<1>1. \E k \in S : \A j \in S : found[k].order <= found[j].order
  BY OneIsFirst
<1> QED BY <1>1 DEF First

\* A folder that is not marked marks itself, and marks are of folders that are shown.
LEMMA EmitMarks ==
  ASSUME NEW below, below \in [DOMAIN below -> SUBSET DOMAIN below], IsFiniteSet(DOMAIN below),
         NEW id \in DOMAIN below, NEW emitted \in SUBSET DOMAIN below
  PROVE  /\ emitted \subseteq markEmitted(id, below, emitted)
         /\ id \in markEmitted(id, below, emitted)
         /\ \A f \in markEmitted(id, below, emitted) :
              f \in emitted \/ \E p \in build(id, below) : Last(p) = f
         /\ markEmitted(id, below, emitted) \subseteq DOMAIN below
<1>1. <<id>> \in build(id, below) /\ Last(<<id>>) = id
  BY BuildIsPaths, SinglePath
<1>2. id \notin emitted => \A n \in DOMAIN <<id>> : <<id>>[n] \notin emitted
  OBVIOUS
<1>3. id \in markEmitted(id, below, emitted)
  BY <1>1, <1>2 DEF markEmitted
<1>4. \A p \in build(id, below) : Last(p) \in DOMAIN below
  <2> SUFFICES ASSUME NEW p \in build(id, below) PROVE Last(p) \in DOMAIN below
    OBVIOUS
  <2>1. IsPath(p, id, below)
    BY BuildIsPaths
  <2>2. p \in Seq(DOMAIN below) /\ Len(p) \in 1..Len(p)
    BY <2>1, LenProperties DEF IsPath
  <2> QED BY <2>2, ElementOfSeq DEF Last
<1> QED BY <1>3, <1>4 DEF markEmitted

\* What is shown is what is built from some folders, the roots among them.
Grown(a, roots, below) ==
  /\ a \in [nodes : SUBSET Seq(DOMAIN below), emitted : SUBSET DOMAIN below]
  /\ \E R \in SUBSET DOMAIN below : roots \subseteq R /\ a.nodes = UNION {build(r, below) : r \in R}
  /\ \A f \in a.emitted : \E p \in a.nodes : Last(p) = f

Sweep(a, folders, below) ==
  IF DOMAIN folders \ a.emitted = {} THEN a
  ELSE emit(a, First(DOMAIN folders \ a.emitted, folders), below)

LEMMA SweepGrows ==
  ASSUME NEW folders, IsFiniteSet(DOMAIN folders), \A k \in DOMAIN folders : folders[k].order \in Int,
         NEW below, below \in [DOMAIN folders -> SUBSET DOMAIN folders],
         NEW roots, NEW a, Grown(a, roots, below)
  PROVE  LET b == Sweep(a, folders, below) IN
         /\ Grown(b, roots, below) /\ a.emitted \subseteq b.emitted
         /\ a.emitted # DOMAIN folders => b.emitted # a.emitted
<1> DEFINE F == DOMAIN folders
           left == F \ a.emitted
           b == Sweep(a, folders, below)
<1>0. DOMAIN below = F /\ a.nodes \subseteq Seq(F) /\ a.emitted \subseteq F
  BY DEF Grown
<1>1. CASE left = {}
  BY <1>0, <1>1 DEF Sweep
<1>2. CASE left # {}
  <2> DEFINE id == First(left, folders)
  <2>1. id \in F /\ id \notin a.emitted
    <3>1. IsFiniteSet(left)
      BY FS_Subset
    <3>2. id \in left
      BY <1>2, <3>1, FirstIsFirst
    <3> QED BY <3>2
  <2>2. b = emit(a, id, below)
    BY <1>2 DEF Sweep
  <2> HIDE DEF id, b
  <2>3. b.nodes = a.nodes \cup build(id, below) /\ b.emitted = markEmitted(id, below, a.emitted)
    BY <2>2 DEF emit
  <2>4. /\ a.emitted \subseteq b.emitted /\ id \in b.emitted
        /\ \A f \in b.emitted : f \in a.emitted \/ \E p \in build(id, below) : Last(p) = f
        /\ b.emitted \subseteq F
    BY <1>0, <2>1, <2>3, EmitMarks
  <2>5. b.nodes \subseteq Seq(F)
    <3>1. \A p \in build(id, below) : IsPath(p, id, below)
      BY <1>0, <2>1, BuildIsPaths
    <3> QED BY <1>0, <2>3, <3>1 DEF IsPath
  <2>6. b \in [nodes : SUBSET Seq(DOMAIN below), emitted : SUBSET DOMAIN below]
    BY <1>0, <2>2, <2>3, <2>4, <2>5 DEF emit
  <2>7. \E R \in SUBSET F : roots \subseteq R /\ b.nodes = UNION {build(r, below) : r \in R}
    <3>1. PICK R \in SUBSET F : roots \subseteq R /\ a.nodes = UNION {build(r, below) : r \in R}
      BY <1>0 DEF Grown
    <3>2. /\ R \cup {id} \in SUBSET F /\ roots \subseteq R \cup {id}
          /\ b.nodes = UNION {build(r, below) : r \in R \cup {id}}
      BY <2>1, <2>3, <3>1
    <3> QED BY <3>2
  <2>8. \A f \in b.emitted : \E p \in b.nodes : Last(p) = f
    BY <2>3, <2>4 DEF Grown
  <2>9. Grown(b, roots, below)
    BY <1>0, <2>6, <2>7, <2>8 DEF Grown
  <2>10. b.emitted # a.emitted
    BY <2>1, <2>4
  <2> QED BY <2>4, <2>9, <2>10 DEF b
<1> QED BY <1>1, <1>2

LEMMA SweepsRepeat ==
  ASSUME NEW folders, IsFiniteSet(DOMAIN folders), \A k \in DOMAIN folders : folders[k].order \in Int,
         NEW below, below \in [DOMAIN folders -> SUBSET DOMAIN folders],
         NEW roots, NEW acc, Grown(acc, roots, below)
  PROVE  \E r : /\ r[0] = acc
                /\ \A n \in 0 .. Cardinality(DOMAIN folders) :
                     n # 0 => r[n] = Sweep(r[n - 1], folders, below)
                /\ sweep(acc, folders, below) = r[Cardinality(DOMAIN folders)]
<1> DEFINE F == DOMAIN folders
           C == Cardinality(F)
           X == {a \in [nodes : SUBSET Seq(F), emitted : SUBSET F] : Grown(a, roots, below)}
           step == [a \in X |-> Sweep(a, folders, below)]
           Body(f, n) ==
             IF n = 0 THEN acc
             ELSE LET a == f[n - 1]
                      left == DOMAIN folders \ a.emitted
                  IN  IF left = {} THEN a ELSE emit(a, First(left, folders), below)
           Eq(f) == f = [n \in 0..C |-> Body(f, n)]
           r == CHOOSE f : Eq(f)
<1>0. C \in Nat
  BY FS_CardinalityType
<1>1. sweep(acc, folders, below) = r[C]
  BY DEF sweep
<1>2. \A a : Grown(a, roots, below) => a \in X
  BY DEF Grown
<1>3. step \in [X -> X] /\ acc \in X
  <2>1. \A a \in X : Sweep(a, folders, below) \in X
    BY <1>2, SweepGrows
  <2> HIDE DEF X
  <2> QED BY <1>2, <2>1
<1>4. PICK g : Repeats(g, X, acc, step, C)
  <2> HIDE DEF step, X, C
  <2> QED BY <1>0, <1>3, Iteration
<1>5. \A f, n : n # 0 => Body(f, n) = Sweep(f[n - 1], folders, below)
  BY DEF Sweep
<1>6. \A f : Body(f, 0) = acc
  OBVIOUS
<1> HIDE DEF Body
<1>7. \A n \in 0..C : g[n] = Body(g, n)
  <2>1. \A n \in 0..C : n # 0 => g[n] = Sweep(g[n - 1], folders, below)
    <3> HIDE DEF X
    <3> QED BY <1>4 DEF Repeats
  <2>2. g[0] = acc
    <3> HIDE DEF X, step, C
    <3> QED BY <1>4 DEF Repeats
  <2> QED BY <1>5, <1>6, <2>1, <2>2, Zenon
<1>8. Eq(g)
  <2> HIDE DEF X, step
  <2> QED BY <1>4, <1>7 DEF Repeats
<1>9. Eq(r)
  <2> HIDE DEF Eq
  <2> QED BY <1>8
<1>10. \A n \in 0..C : r[n] = Body(r, n)
  <2> HIDE DEF r
  <2> QED BY <1>9
<1>11. r[0] = acc /\ \A n \in 0..C : n # 0 => r[n] = Sweep(r[n - 1], folders, below)
  <2> HIDE DEF r
  <2> QED BY <1>0, <1>5, <1>6, <1>10
<1> QED
  <2> HIDE DEF r
  <2> QED BY <1>1, <1>11

\* The sweep ends with every folder shown; where all are already, it adds nothing.
LEMMA SweepShowsAll ==
  ASSUME NEW folders, IsFiniteSet(DOMAIN folders), \A k \in DOMAIN folders : folders[k].order \in Int,
         NEW below, below \in [DOMAIN folders -> SUBSET DOMAIN folders],
         NEW roots, NEW acc, Grown(acc, roots, below)
  PROVE  /\ Grown(sweep(acc, folders, below), roots, below)
         /\ sweep(acc, folders, below).emitted = DOMAIN folders
         /\ acc.emitted = DOMAIN folders => sweep(acc, folders, below) = acc
<1> DEFINE F == DOMAIN folders
           C == Cardinality(F)
<1>0. C \in Nat
  BY FS_CardinalityType
<1>1. PICK r : /\ r[0] = acc
               /\ \A n \in 0..C : n # 0 => r[n] = Sweep(r[n - 1], folders, below)
               /\ sweep(acc, folders, below) = r[C]
  BY SweepsRepeat
<1>2. \A a : Grown(a, roots, below) => a.emitted \subseteq F
  BY DEF Grown
<1> DEFINE T == {n \in Nat : n <= C => /\ Grown(r[n], roots, below)
                                       /\ r[n].emitted = F \/ Cardinality(r[n].emitted) >= n
                                       /\ acc.emitted = F => r[n] = acc}
<1>3. 0 \in T
  <2>1. IsFiniteSet(acc.emitted)
    BY <1>2, FS_Subset
  <2>2. Cardinality(acc.emitted) >= 0
    BY <2>1, FS_CardinalityType
  <2> QED BY <1>1, <2>2
<1>4. ASSUME NEW n \in T PROVE n + 1 \in T
  <2>0. n \in Nat
    BY <1>4
  <2> SUFFICES ASSUME n + 1 <= C
               PROVE  /\ Grown(r[n + 1], roots, below)
                      /\ r[n + 1].emitted = F \/ Cardinality(r[n + 1].emitted) >= n + 1
                      /\ acc.emitted = F => r[n + 1] = acc
    BY <2>0
  <2>1. /\ Grown(r[n], roots, below)
        /\ r[n].emitted = F \/ Cardinality(r[n].emitted) >= n
        /\ acc.emitted = F => r[n] = acc
    BY <1>0, <1>4, <2>0
  <2>2. r[n + 1] = Sweep(r[n], folders, below)
    <3>1. n + 1 \in 0..C /\ n + 1 # 0 /\ (n + 1) - 1 = n
      BY <1>0, <2>0
    <3> QED BY <1>1, <3>1
  <2>3. /\ Grown(r[n + 1], roots, below) /\ r[n].emitted \subseteq r[n + 1].emitted
        /\ r[n].emitted # F => r[n + 1].emitted # r[n].emitted
    <3> DEFINE a == r[n]
               b == Sweep(a, folders, below)
    <3>1. Grown(a, roots, below)
      BY <2>1
    <3>2. /\ Grown(b, roots, below) /\ a.emitted \subseteq b.emitted
          /\ a.emitted # F => b.emitted # a.emitted
      <4> HIDE DEF a
      <4> QED BY <3>1, SweepGrows
    <3> QED BY <2>2, <3>2
  <2>4. acc.emitted = F => r[n + 1] = acc
    BY <2>1, <2>2 DEF Sweep
  <2>5. CASE r[n].emitted = F
    BY <1>2, <2>3, <2>4, <2>5
  <2>6. CASE r[n].emitted # F
    <3>1. r[n + 1].emitted \subseteq F
      BY <1>2, <2>3
    <3>2. IsFiniteSet(r[n + 1].emitted) /\ IsFiniteSet(r[n].emitted)
      BY <2>3, <3>1, FS_Subset
    <3>3. Cardinality(r[n].emitted) <= Cardinality(r[n + 1].emitted)
          /\ Cardinality(r[n].emitted) # Cardinality(r[n + 1].emitted)
      BY <2>3, <2>6, <3>2, FS_Subset
    <3>4. Cardinality(r[n].emitted) \in Nat /\ Cardinality(r[n + 1].emitted) \in Nat
      BY <3>2, FS_CardinalityType
    <3>5. Cardinality(r[n + 1].emitted) >= n + 1
      BY <2>0, <2>1, <2>6, <3>3, <3>4
    <3> QED BY <2>3, <2>4, <3>5
  <2> QED BY <2>5, <2>6
<1>5. C \in T
  <2>1. T \subseteq Nat
    OBVIOUS
  <2> HIDE DEF T
  <2> QED BY <1>0, <1>3, <1>4, <2>1, SetInduction
<1>6. /\ Grown(r[C], roots, below)
      /\ r[C].emitted = F \/ Cardinality(r[C].emitted) >= C
      /\ acc.emitted = F => r[C] = acc
  BY <1>0, <1>5
<1>7. r[C].emitted = F
  <2>1. r[C].emitted \subseteq F
    BY <1>2, <1>6
  <2>2. Cardinality(r[C].emitted) <= C /\ IsFiniteSet(r[C].emitted)
    BY <2>1, FS_Subset
  <2>3. Cardinality(r[C].emitted) \in Nat
    BY <2>2, FS_CardinalityType
  <2>4. Cardinality(r[C].emitted) >= C => Cardinality(F) = Cardinality(r[C].emitted)
    BY <1>0, <2>2, <2>3
  <2> QED BY <1>6, <2>1, <2>4, FS_Subset
<1> QED BY <1>1, <1>6, <1>7

-----------------------------------------------------------------------------
(* The tree.                                                               *)

Roots(folders) == {f \in DOMAIN folders : ~isChild(f, folders)}

LEMMA ChildrenType ==
  ASSUME NEW folders
  PROVE  /\ children(folders) \in [DOMAIN folders -> SUBSET DOMAIN folders]
         /\ DOMAIN children(folders) = DOMAIN folders
         /\ \A f, g \in DOMAIN folders :
              f \in children(folders)[g] <=> isChild(f, folders) /\ folders[f].above = g
BY DEF children

Planted(folders) ==
  [nodes   |-> UNION {build(r, children(folders)) : r \in Roots(folders)},
   emitted |-> UNION {markEmitted(r, children(folders), {}) : r \in Roots(folders)}]

LEMMA TreeIsSwept ==
  ASSUME NEW folders, NEW w, NEW c
  PROVE  /\ GetProjectTree(folders, w, c).nodes
              = sweep(Planted(folders), folders, children(folders)).nodes
         /\ GetProjectTree(folders, w, c).boards
              = [f \in DOMAIN folders \cup {None} |-> boardsIn(w, f) \cup boardsIn(c, f)]
BY DEF GetProjectTree, Planted, Roots

LEMMA PlantedGrows ==
  ASSUME NEW folders, IsFiniteSet(DOMAIN folders)
  PROVE  Grown(Planted(folders), Roots(folders), children(folders))
<1> DEFINE below == children(folders)
           F == DOMAIN folders
           R == Roots(folders)
           a == Planted(folders)
<1>1. below \in [F -> SUBSET F] /\ DOMAIN below = F
  BY ChildrenType
<1>2. R \subseteq F
  BY DEF Roots
<1>3. /\ a.nodes = UNION {build(r, below) : r \in R}
      /\ a.emitted = UNION {markEmitted(r, below, {}) : r \in R}
      /\ a = [nodes |-> a.nodes, emitted |-> a.emitted]
  BY DEF Planted
<1> HIDE DEF below, a, R
<1>4. \A r \in R : build(r, below) \subseteq Seq(F)
  <2> SUFFICES ASSUME NEW r \in R, NEW p \in build(r, below) PROVE p \in Seq(F)
    OBVIOUS
  <2>1. IsPath(p, r, below)
    BY <1>1, <1>2, BuildIsPaths
  <2> QED BY <1>1, <2>1 DEF IsPath
<1>5. \A r \in R : /\ markEmitted(r, below, {}) \subseteq F
                   /\ \A f \in markEmitted(r, below, {}) : \E p \in build(r, below) : Last(p) = f
  BY <1>1, <1>2, EmitMarks
<1>6. a.nodes \subseteq Seq(F) /\ a.emitted \subseteq F
  BY <1>3, <1>4, <1>5
<1>7. a \in [nodes : SUBSET Seq(F), emitted : SUBSET F]
  BY <1>3, <1>6
<1>8. \A f \in a.emitted : \E p \in a.nodes : Last(p) = f
  BY <1>3, <1>5
<1>9. Grown(a, R, below)
  BY <1>1, <1>2, <1>3, <1>7, <1>8 DEF Grown
<1> QED BY <1>9 DEF a, R, below

\* What no root reaches is circular.
LEMMA RootsReachAll ==
  ASSUME NEW folders, IsFiniteSet(DOMAIN folders), ~Circular(folders)
  PROVE  Planted(folders).emitted = DOMAIN folders
<1> DEFINE below == children(folders)
           F == DOMAIN folders
           R == Roots(folders)
           U == F \ Planted(folders).emitted
<1>1. below \in [F -> SUBSET F] /\ DOMAIN below = F /\ R \subseteq F
  BY ChildrenType DEF Roots
<1>2. Planted(folders).emitted = UNION {markEmitted(r, below, {}) : r \in R}
  BY DEF Planted
<1>3. Planted(folders).emitted \subseteq F
  BY PlantedGrows, <1>1 DEF Grown
<1>4. ASSUME NEW r \in R, NEW p, IsPath(p, r, below) PROVE Last(p) \in Planted(folders).emitted
  <2>1. p \in build(r, below)
    BY <1>1, <1>4, BuildIsPaths
  <2>2. Last(p) \in markEmitted(r, below, {})
    BY <2>1 DEF markEmitted
  <2> QED BY <1>2, <2>2
<1>5. ASSUME NEW f \in U PROVE isChild(f, folders) /\ folders[f].above \in U
  <2>1. isChild(f, folders)
    <3>1. f \in R => IsPath(<<f>>, f, below) /\ Last(<<f>>) = f
      BY <1>1, SinglePath
    <3>2. f \notin R
      BY <1>4, <3>1
    <3> QED BY <3>2 DEF Roots
  <2> DEFINE g == folders[f].above
  <2>2. g \in F /\ f \in below[g]
    BY <2>1, ChildrenType DEF isChild
  <2>3. ASSUME g \in Planted(folders).emitted PROVE FALSE
    <3>1. PICK r \in R : g \in markEmitted(r, below, {})
      BY <1>2, <2>3
    <3>2. PICK p \in build(r, below) : Last(p) = g
      BY <3>1 DEF markEmitted
    <3>3. IsPath(p, r, below)
      BY <1>1, BuildIsPaths
    <3>4. PICK q : IsPath(q, r, below) /\ Distinct(q) /\ Last(q) = g
      BY <3>2, <3>3, ReachedOnce
    <3>5. IsPath(Append(q, f), r, below) /\ Last(Append(q, f)) = f
      <4> HIDE DEF below, g
      <4> QED BY <1>1, <2>2, <3>4, LongerPath
    <3> QED BY <1>4, <3>5
  <2> QED BY <2>1, <2>2, <2>3
<1>6. U = {}
  <2> HIDE DEF U
  <2>1. U \in SUBSET F
    BY DEF U
  <2> QED BY <1>5, <2>1 DEF Circular
<1> QED BY <1>3, <1>6

LEMMA LastReached ==
  ASSUME NEW below, NEW id, NEW p, IsPath(p, id, below)
  PROVE  Last(p) \in DOMAIN below /\ Len(p) \in Nat /\ Len(p) >= 1 /\ (Len(p) = 1 => p = <<id>>)
<1>1. p \in Seq(DOMAIN below) /\ Len(p) \in Nat /\ Len(p) >= 1 /\ p[1] = id
  BY LenProperties DEF IsPath
<1>2. Last(p) \in DOMAIN below
  BY <1>1, ElementOfSeq DEF Last
<1>3. Len(p) = 1 => p = <<id>>
  <2> SUFFICES ASSUME Len(p) = 1 PROVE p = <<id>>
    OBVIOUS
  <2>1. id \in DOMAIN below
    BY <1>1, ElementOfSeq
  <2>2. <<id>> \in Seq(DOMAIN below) /\ Len(<<id>>) = 1 /\ <<id>>[1] = id
    BY <2>1
  <2>3. \A i \in 1..1 : i = 1
    OBVIOUS
  <2> QED BY <1>1, <2>2, <2>3, SeqEqual
<1> QED BY <1>1, <1>2, <1>3

\* A folder with two nodes below roots has a parent with two.
LEMMA ReachedOneWay ==
  ASSUME NEW folders, ~Circular(folders), NEW p, NEW q,
         \E r \in Roots(folders) : IsPath(p, r, children(folders)),
         \E r \in Roots(folders) : IsPath(q, r, children(folders)),
         Last(p) = Last(q)
  PROVE  p = q
<1> DEFINE below == children(folders)
           F == DOMAIN folders
           Node(s) == \E r \in Roots(folders) : IsPath(s, r, below)
           U == {f \in F : \E s, t : Node(s) /\ Node(t) /\ s # t /\ Last(s) = f /\ Last(t) = f}
<1>1. below \in [F -> SUBSET F] /\ DOMAIN below = F
  BY ChildrenType
<1>2. ASSUME NEW s, Node(s) PROVE Last(s) \in F
  BY <1>1, <1>2, LastReached
<1>3. ASSUME NEW s, Node(s), Len(s) > 1
      PROVE  LET t == Upto(s, Len(s) - 1) IN
             /\ Node(t) /\ s = Append(t, Last(s))
             /\ isChild(Last(s), folders) /\ Last(t) = folders[Last(s)].above
  <2> DEFINE t == Upto(s, Len(s) - 1)
  <2>1. PICK r \in Roots(folders) : IsPath(s, r, below)
    BY <1>3
  <2>2. IsPath(t, r, below) /\ Last(s) \in below[Last(t)] /\ s = Append(t, Last(s))
    BY <1>3, <2>1, PathFront
  <2>3. Last(t) \in F /\ Last(s) \in F
    BY <1>1, <2>1, <2>2, LastReached
  <2>4. isChild(Last(s), folders) /\ Last(t) = folders[Last(s)].above
    BY <2>2, <2>3, ChildrenType
  <2> QED BY <2>2, <2>4
<1>4. ASSUME NEW s, Node(s), ~(Len(s) > 1)
      PROVE  s = <<Last(s)>> /\ ~isChild(Last(s), folders)
  <2>1. PICK r \in Roots(folders) : IsPath(s, r, below)
    BY <1>4
  <2>2. s = <<r>>
    <3>1. Len(s) \in Nat /\ Len(s) >= 1 /\ (Len(s) = 1 => s = <<r>>)
      BY <2>1, LastReached
    <3>2. ~(Len(s) > 1)
      BY <1>4
    <3>3. Len(s) = 1
      <4>1. \A n \in Nat : n >= 1 /\ ~(n > 1) => n = 1
        OBVIOUS
      <4> QED BY <3>1, <3>2, <4>1, Zenon
    <3> QED BY <3>1, <3>3
  <2>3. Last(s) = r
    BY <2>2 DEF Last
  <2> QED BY <2>2, <2>3 DEF Roots
<1> HIDE DEF below, Node
<1>5. ASSUME NEW f \in U PROVE isChild(f, folders) /\ folders[f].above \in U
  <2>1. PICK s, t : Node(s) /\ Node(t) /\ s # t /\ Last(s) = f /\ Last(t) = f
    OBVIOUS
  <2>2. isChild(f, folders)
    <3>1. CASE Len(s) > 1
      BY <1>3, <2>1, <3>1
    <3>2. CASE Len(t) > 1
      BY <1>3, <2>1, <3>2
    <3>3. CASE ~(Len(s) > 1) /\ ~(Len(t) > 1)
      BY <1>4, <2>1, <3>3
    <3> QED BY <3>1, <3>2, <3>3
  <2>3. Len(s) > 1 /\ Len(t) > 1
    BY <1>4, <2>1, <2>2
  <2> DEFINE u == Upto(s, Len(s) - 1)
             v == Upto(t, Len(t) - 1)
  <2>4. Node(u) /\ s = Append(u, f) /\ Last(u) = folders[f].above
    BY <1>3, <2>1, <2>3
  <2>5. Node(v) /\ t = Append(v, f) /\ Last(v) = folders[f].above
    BY <1>3, <2>1, <2>3
  <2> HIDE DEF u, v
  <2>6. u # v
    BY <2>1, <2>4, <2>5
  <2>7. folders[f].above \in F
    BY <2>2 DEF isChild
  <2> QED BY <2>2, <2>4, <2>5, <2>6, <2>7
<1>6. U = {}
  <2>1. U \in SUBSET F
    OBVIOUS
  <2> HIDE DEF U
  <2> QED BY <1>5, <2>1 DEF Circular
<1>7. Node(p) /\ Node(q)
  BY DEF Node, below
<1>8. Last(p) \in F
  BY <1>2, <1>7
<1> QED BY <1>6, <1>7, <1>8

\* What the tree shows of the folders.
LEMMA TreeNodes ==
  ASSUME NEW folders, IsFiniteSet(DOMAIN folders), \A k \in DOMAIN folders : folders[k].order \in Int,
         NEW w, NEW c
  PROVE  LET nodes == GetProjectTree(folders, w, c).nodes
             below == children(folders)
         IN  /\ \E R \in SUBSET DOMAIN folders :
                  /\ Roots(folders) \subseteq R
                  /\ \A p : p \in nodes <=> \E r \in R : IsPath(p, r, below)
                  /\ ~Circular(folders) => R = Roots(folders)
             /\ \A f \in DOMAIN folders : \E p \in nodes : Last(p) = f
<1> DEFINE F == DOMAIN folders
           below == children(folders)
           nodes == GetProjectTree(folders, w, c).nodes
           swept == sweep(Planted(folders), folders, below)
<1>1. below \in [F -> SUBSET F] /\ DOMAIN below = F
  BY ChildrenType
<1>2. nodes = swept.nodes
  BY TreeIsSwept
<1>3. /\ Grown(swept, Roots(folders), below)
      /\ swept.emitted = F
      /\ Planted(folders).emitted = F => swept = Planted(folders)
  <2> DEFINE roots == Roots(folders)
             acc == Planted(folders)
  <2>1. Grown(acc, roots, below)
    BY PlantedGrows
  <2> HIDE DEF roots, acc, below
  <2>2. /\ Grown(sweep(acc, folders, below), roots, below)
        /\ sweep(acc, folders, below).emitted = DOMAIN folders
        /\ acc.emitted = DOMAIN folders => sweep(acc, folders, below) = acc
    BY <1>1, <2>1, SweepShowsAll
  <2> QED BY <2>2 DEF roots, acc, below
<1> HIDE DEF swept, below
<1>4. \A f \in F : \E p \in nodes : Last(p) = f
  BY <1>2, <1>3 DEF Grown
<1>5. Roots(folders) \in SUBSET F
  BY DEF Roots
<1>6. \E R \in SUBSET F : /\ Roots(folders) \subseteq R
                          /\ nodes = UNION {build(r, below) : r \in R}
                          /\ ~Circular(folders) => R = Roots(folders)
  <2>1. CASE Circular(folders)
    BY <1>1, <1>2, <1>3, <2>1 DEF Grown
  <2>2. CASE ~Circular(folders)
    <3>1. nodes = UNION {build(r, below) : r \in Roots(folders)}
      <4>1. Planted(folders).emitted = F
        BY <2>2, RootsReachAll
      <4>2. Planted(folders).nodes = UNION {build(r, below) : r \in Roots(folders)}
        BY DEF Planted, below
      <4> QED BY <1>2, <1>3, <4>1, <4>2
    <3> QED BY <1>5, <3>1
  <2> QED BY <2>1, <2>2
<1>7. \A r \in F : \A p : p \in build(r, below) <=> IsPath(p, r, below)
  BY <1>1, BuildIsPaths
<1>8. \E R \in SUBSET F : /\ Roots(folders) \subseteq R
                          /\ \A p : p \in nodes <=> \E r \in R : IsPath(p, r, below)
                          /\ ~Circular(folders) => R = Roots(folders)
  BY <1>6, <1>7
<1> QED BY <1>4, <1>8 DEF below

LEMMA DoneReads ==
  ASSUME ReadInv, answer = "ok"
  PROVE  /\ request.tool \in Tools
         /\ request.tool = "list_folders" => "folders" \in DOMAIN seen
         /\ request.tool = "list_whiteboards" => "whiteboards" \in DOMAIN seen
         /\ request.tool = "list_canvas_boards" => "canvasBoards" \in DOMAIN seen
         /\ request.tool = "get_project_tree"
              => {"folders", "whiteboards", "canvasBoards"} \subseteq DOMAIN seen
         /\ request.tool \in CanvasReads => "elements" \in DOMAIN seen
         /\ request.tool \in BoardTools \cup {"get_table_ddl"} =>
              /\ {"tables", "areas"} \subseteq DOMAIN seen
              /\ DOMAIN seen["tables"] # {}
                   => {"columns", "relationships"} \subseteq DOMAIN seen
<1>1. TypeInv
  BY DEF ReadInv, BaseInv
<1>2. request.tool \in Tools /\ ~More
  BY <1>1 DEF TypeInv
<1>3. asked \in 0..Len(Queries) /\ DOMAIN seen = Asked
  BY <1>1 DEF TypeInv, TypeOK, Asked
<1> QED BY <1>2, <1>3, ReadAll

\* What a query for rows has returned is finite, and of the rows' type.
LEMMA ReadRows ==
  ASSUME ReadInv, NEW q \in DOMAIN seen \cap RowsName
  PROVE  /\ IsFiniteSet(DOMAIN seen[q]) /\ DOMAIN seen[q] \subseteq Id
         /\ \A k \in DOMAIN seen[q] :
              <<k, seen[q][k]>> \in ever /\ seen[q][k] \in Row /\ Selected(q, seen[q][k])
<1>1. RowsRead(q) /\ IsFiniteSet(ever) /\ ever \subseteq Id \X Row
  BY DEF ReadInv, Readings, Past
<1>2. \A k \in DOMAIN seen[q] : <<k, seen[q][k]>> \in ever /\ Selected(q, seen[q][k])
  BY <1>1 DEF RowsRead
<1>3. \A k \in DOMAIN seen[q] : k \in Id /\ seen[q][k] \in Row
  BY <1>1, <1>2
<1>4. IsFiniteSet(DOMAIN seen[q])
  <2> DEFINE f == [k \in DOMAIN seen[q] |-> <<k, seen[q][k]>>]
  <2>1. f \in Injection(DOMAIN seen[q], ever)
    <3>1. \A j, k \in DOMAIN seen[q] : f[j] = f[k] => j = k
      BY Pair
    <3> QED BY <1>2, <3>1 DEF Injection, IsInjective
  <2> HIDE DEF f
  <2> QED BY <1>1, <2>1, FS_Injection
<1> QED BY <1>2, <1>3, <1>4

\* No folder that was read is missing from the tree, whatever the parents are; where no
\* folder read lies on a cycle each is there once.
THEOREM FoldersAreShown == Spec => []EveryFolderShown
<1>1. ReadInv => EveryFolderShown
  <2> DEFINE folders == seen["folders"]
             nodes(id) == {p \in Tree.nodes : Last(p) = id}
  <2> SUFFICES ASSUME ReadInv, Done("get_project_tree")
               PROVE  /\ \A id \in DOMAIN folders : nodes(id) # {}
                      /\ ~Circular(folders) =>
                           \A id \in DOMAIN folders : \A p, q \in nodes(id) : p = q
    BY DEF EveryFolderShown
  <2>1. "folders" \in DOMAIN seen \cap RowsName
    BY DoneReads DEF Done, RowsName
  <2>2. IsFiniteSet(DOMAIN folders) /\ \A k \in DOMAIN folders : folders[k].order \in Int
    BY <2>1, ReadRows DEF Row
  <2> HIDE DEF folders
  <2> DEFINE below == children(folders)
  <2>3. Tree.nodes = GetProjectTree(folders, seen["whiteboards"], seen["canvasBoards"]).nodes
    BY DEF Tree, folders
  <2>4. /\ \E R \in SUBSET DOMAIN folders :
             /\ Roots(folders) \subseteq R
             /\ \A p : p \in Tree.nodes <=> \E r \in R : IsPath(p, r, below)
             /\ ~Circular(folders) => R = Roots(folders)
        /\ \A f \in DOMAIN folders : \E p \in Tree.nodes : Last(p) = f
    BY <2>2, <2>3, TreeNodes
  <2>5. ASSUME ~Circular(folders), NEW id, NEW p \in nodes(id), NEW q \in nodes(id) PROVE p = q
    <3>1. /\ \E r \in Roots(folders) : IsPath(p, r, below)
          /\ \E r \in Roots(folders) : IsPath(q, r, below)
          /\ Last(p) = Last(q)
      BY <2>4, <2>5
    <3> QED BY <2>5, <3>1, ReachedOneWay
  <2> QED BY <2>4, <2>5
<1> QED BY <1>1, ReadAlways, PTL

-----------------------------------------------------------------------------
(* What a result shows.                                                    *)

\* What a result shows was there, in that place.
ShowsReal ==
  \A s \in Shown : \E e \in ever :
    /\ e[1] = s[1]
    /\ s[2] \in Places(e[1], e[2]) \cup IF e[2].kind = "folder" THEN {None} ELSE {}

\* What was there all the time is shown, in its place, or said to be left out.
ShowsDue ==
  \A id \in Whole : Due(id) =>
    (\A place \in Places(id, rows[id]) : <<id, place>> \in Shown) \/ LeftOut(id)

LEMMA ReadIsReal ==
  ASSUME ReadInv, NEW q \in RowsName, NEW k \in DOMAIN Read(q)
  PROVE  /\ q \in DOMAIN seen /\ Read(q) = seen[q]
         /\ <<k, Read(q)[k]>> \in ever /\ Read(q)[k] \in Row /\ Selected(q, Read(q)[k])
<1>1. DOMAIN [id \in {} |-> None] = {}
  OBVIOUS
<1>2. q \in DOMAIN seen /\ Read(q) = seen[q]
  BY <1>1 DEF Read
<1>3. q \in DOMAIN seen \cap RowsName /\ k \in DOMAIN seen[q]
  BY <1>2
<1> QED BY <1>2, <1>3, ReadRows

\* A row that is whole is returned as it is.
LEMMA WholeIsRead ==
  ASSUME ReadInv, NEW q \in RowsName, q \in DOMAIN seen, NEW id \in Whole, Selected(q, rows[id])
  PROVE  id \in DOMAIN Read(q) /\ Read(q)[id] = rows[id]
<1>1. RowsRead(q) /\ Read(q) = seen[q]
  BY DEF ReadInv, Readings, Read
<1>2. id \in stood /\ \A e \in ever : e[1] = id => e[2] = rows[id]
  BY DEF Whole
<1>3. id \in DOMAIN seen[q]
  BY <1>1, <1>2 DEF RowsRead
<1>4. <<id, seen[q][id]>> \in ever
  BY <1>1, <1>3 DEF RowsRead
<1> QED BY <1>1, <1>2, <1>3, <1>4, Pair

LEMMA WholeRow ==
  ASSUME ReadInv, NEW id \in Whole
  PROVE  /\ id \in DOMAIN rows /\ id \in Id /\ rows[id] \in Row /\ Hangs(rows, rows[id])
         /\ <<id, rows[id]>> \in ever
         /\ Needs(rows[id]) \subseteq stood \cup {None, Elsewhere}
         /\ rows[id].kind # "folder" => rows[id].above \notin {id, Elsewhere}
<1>1. id \in DOMAIN rows
  BY DEF ReadInv, BaseInv, TypeInv, TypeOK, Whole
<1> QED BY <1>1, HangsHere DEF ReadInv, BaseInv, Sound, Past

\* All but what can be filed is whole while it is there.
LEMMA FixedIsWhole ==
  ASSUME ReadInv, NEW id \in stood, rows[id].kind \notin Movable
  PROVE  id \in Whole
<1>1. id \in DOMAIN rows /\ <<id, rows[id]>> \in ever
  BY DEF ReadInv, BaseInv, TypeInv, TypeOK
<1> QED BY <1>1, Pair DEF ReadInv, Past, Whole

\* What a whole row needs of the rows that cannot be filed is whole too.
LEMMA NeedIsWhole ==
  ASSUME ReadInv, NEW id \in Whole, NEW k \in Needs(rows[id]),
         NEW kind \in Kind \ Movable, k \in OfKind(rows, kind)
  PROVE  k \in Whole
<1>1. k \in stood \cup {None, Elsewhere} /\ k \in DOMAIN rows /\ rows[k].kind = kind
  BY WholeRow DEF OfKind
<1>2. k \in Id
  BY <1>1 DEF ReadInv, BaseInv, Sound
<1>3. k \in stood
  BY <1>1, <1>2, ReadsAssumption
<1> QED BY <1>1, <1>3, FixedIsWhole

LEMMA RealPlace ==
  ASSUME ReadInv, NEW q \in RowsName, NEW k \in DOMAIN Read(q), NEW place,
         place \in Places(k, Read(q)[k]) \cup IF Read(q)[k].kind = "folder" THEN {None} ELSE {}
  PROVE  \E e \in ever :
           /\ e[1] = k
           /\ place \in Places(e[1], e[2]) \cup IF e[2].kind = "folder" THEN {None} ELSE {}
<1>1. <<k, Read(q)[k]>> \in ever
  BY ReadIsReal
<1> HIDE DEF Places
<1> QED BY <1>1, Pair

LEMMA OnePlace ==
  ASSUME request.tool \notin Lists, NEW id, NEW row, row.above \notin {id, Elsewhere},
         row.kind # "relationship" \/ request.tool = "get_schema_summary"
  PROVE  Places(id, row) = {row.above}
BY DEF Places

LEMMA TwoPlaces ==
  ASSUME request.tool = "get_board", NEW id, NEW row, row.kind = "relationship"
  PROVE  Places(id, row) = {<<row.source.table, "out">>, <<row.target.table, "in">>}
BY DEF Places, Lists
-----------------------------------------------------------------------------
(* The lists.                                                              *)

LEMMA ListsShow ==
  ASSUME ReadInv, answer = "ok", request.tool \in Lists
  PROVE  ShowsReal /\ ShowsDue
<1> DEFINE q == IF request.tool = "list_folders" THEN "folders"
                ELSE IF request.tool = "list_whiteboards" THEN "whiteboards" ELSE "canvasBoards"
<1>1. q \in RowsName /\ q \in DOMAIN seen
  BY DoneReads DEF RowsName, Lists
<1>2. Shown = Placed(DOMAIN Read(q), None)
  BY <1>1 DEF Shown, Lists, Read, CanvasReads, BoardTools
<1>3. \A id : Due(id) => Selected(q, rows[id])
  BY DEF Due, Lists, Selected, CanvasReads, BoardTools
<1>4. \A id, row : Places(id, row) = {None}
  BY DEF Places
<1> HIDE DEF q
<1>5. ShowsReal
  <2> SUFFICES ASSUME NEW k \in DOMAIN Read(q)
               PROVE  \E e \in ever :
                        /\ e[1] = k
                        /\ None \in Places(e[1], e[2])
                             \cup IF e[2].kind = "folder" THEN {None} ELSE {}
    BY <1>2, Pair DEF ShowsReal, Placed
  <2> QED BY <1>1, <1>4, RealPlace
<1>6. ShowsDue
  <2> SUFFICES ASSUME NEW id \in Whole, Due(id) PROVE <<id, None>> \in Shown
    BY <1>4 DEF ShowsDue
  <2>1. id \in DOMAIN Read(q)
    BY <1>1, <1>3, WholeIsRead
  <2> QED BY <1>2, <2>1 DEF Placed
<1> QED BY <1>5, <1>6

-----------------------------------------------------------------------------
(* The project tree.                                                       *)

\* The folder that a whole folder or board is in was read with the folders.
LEMMA FolderIsRead ==
  ASSUME ReadInv, "folders" \in DOMAIN seen, NEW id \in Whole,
         rows[id].above \in OfKind(rows, "folder")
  PROVE  rows[id].above \in DOMAIN seen["folders"]
<1> DEFINE f == rows[id].above
<1>1. f \in DOMAIN rows /\ rows[f].kind = "folder" /\ <<f, rows[f]>> \in ever
  BY DEF OfKind, ReadInv, BaseInv
<1>2. f \in stood
  <2>1. f \in Needs(rows[id])
    BY DEF Needs
  <2>2. f \in Id
    BY <1>1 DEF ReadInv, BaseInv, Sound
  <2> QED BY <2>1, <2>2, WholeRow, ReadsAssumption
<1>3. \A e \in ever : e[1] = f => e[2].kind = "folder"
  BY <1>1, Pair DEF ReadInv, Past
<1>4. RowsRead("folders")
  BY DEF ReadInv, Readings, RowsName
<1> QED BY <1>2, <1>3, <1>4 DEF RowsRead, Selected

LEMMA ShownTreeParts ==
  ASSUME request.tool = "get_project_tree",
         DOMAIN Tree.boards = DOMAIN seen["folders"] \cup {None}
  PROVE  /\ Shown = ShownTree
         /\ \A p \in Tree.nodes :
              <<Last(p), IF Len(p) = 1 THEN None ELSE p[Len(p) - 1]>> \in ShownTree
         /\ \A f \in {Last(p) : p \in Tree.nodes} \cup {None} :
              \A b \in Tree.boards[f] : <<b, f>> \in ShownTree
         /\ \A s \in ShownTree :
              \/ \E p \in Tree.nodes : s = <<Last(p), IF Len(p) = 1 THEN None ELSE p[Len(p) - 1]>>
              \/ \E f \in {Last(p) : p \in Tree.nodes} \cup {None} : \E b \in Tree.boards[f] : s = <<b, f>>
<1>1. Shown = ShownTree
  BY DEF Shown, CanvasReads, BoardTools
<1> QED BY <1>1 DEF ShownTree, Placed

LEMMA TreeShows ==
  ASSUME ReadInv, answer = "ok", request.tool = "get_project_tree"
  PROVE  ShowsReal /\ ShowsDue
<1> DEFINE folders == seen["folders"]
           F == DOMAIN folders
           below == children(folders)
           nodes == Tree.nodes
           boards == Tree.boards
<1>1. /\ {"folders", "whiteboards", "canvasBoards"} \subseteq DOMAIN seen
      /\ {"folders", "whiteboards", "canvasBoards"} \subseteq RowsName
      /\ Read("folders") = folders /\ Read("whiteboards") = seen["whiteboards"]
      /\ Read("canvasBoards") = seen["canvasBoards"]
  BY DoneReads DEF RowsName, Read
<1>2. /\ IsFiniteSet(F) /\ F \subseteq Id
      /\ \A k \in F : /\ folders[k].order \in Int /\ folders[k].kind = "folder"
                      /\ <<k, folders[k]>> \in ever
  BY <1>1, ReadRows DEF Row, Selected
<1>3. boards = [f \in F \cup {None} |->
                  boardsIn(seen["whiteboards"], f) \cup boardsIn(seen["canvasBoards"], f)]
  BY TreeIsSwept DEF Tree
<1> HIDE DEF folders
<1>4. nodes = GetProjectTree(folders, seen["whiteboards"], seen["canvasBoards"]).nodes
  BY DEF Tree, folders
<1>t. /\ \E R \in SUBSET F :
           /\ Roots(folders) \subseteq R
           /\ \A p : p \in nodes <=> \E r \in R : IsPath(p, r, below)
           /\ ~Circular(folders) => R = Roots(folders)
      /\ \A f \in F : \E p \in nodes : Last(p) = f
  <2>1. IsFiniteSet(F) /\ \A k \in F : folders[k].order \in Int
    BY <1>2
  <2> QED BY <1>4, <2>1, TreeNodes
<1>5. PICK R \in SUBSET F :
        /\ Roots(folders) \subseteq R
        /\ \A p : p \in nodes <=> \E r \in R : IsPath(p, r, below)
  BY <1>t
<1>6. \A f \in F : \E p \in nodes : Last(p) = f
  BY <1>t
<1>7. below \in [F -> SUBSET F] /\ DOMAIN below = F
  BY ChildrenType
<1>8. \A p \in nodes : Last(p) \in F
  BY <1>5, <1>7, LastReached
<1>9. None \notin F /\ Elsewhere \notin F
  BY <1>2, ReadsAssumption
<1>10. DOMAIN boards = F \cup {None}
  BY <1>3
<1>11. /\ Shown = ShownTree
       /\ \A p \in nodes : <<Last(p), IF Len(p) = 1 THEN None ELSE p[Len(p) - 1]>> \in ShownTree
       /\ \A f \in F \cup {None} : \A b \in boards[f] : <<b, f>> \in ShownTree
       /\ \A s \in ShownTree :
            \/ \E p \in nodes : s = <<Last(p), IF Len(p) = 1 THEN None ELSE p[Len(p) - 1]>>
            \/ \E f \in F \cup {None} : \E b \in boards[f] : s = <<b, f>>
  <2>1. {Last(p) : p \in nodes} = F
    BY <1>6, <1>8
  <2> HIDE DEF nodes, boards
  <2> QED BY <1>10, <2>1, ShownTreeParts DEF folders, nodes, boards
<1>12. request.tool \notin Lists
  BY DEF Lists
<1> HIDE DEF nodes, boards
<1>13. ASSUME NEW p \in nodes
       PROVE  LET place == IF Len(p) = 1 THEN None ELSE p[Len(p) - 1] IN
              place \in Places(Last(p), folders[Last(p)]) \cup {None}
  <2>1. PICK r \in R : IsPath(p, r, below)
    BY <1>5
  <2>2. CASE Len(p) = 1
    BY <2>2
  <2>3. CASE Len(p) # 1
    <3> DEFINE q == Upto(p, Len(p) - 1)
               f == Last(p)
    <3>1. Len(p) > 1
      <4>1. \A n \in Nat : n >= 1 /\ n # 1 => n > 1
        OBVIOUS
      <4>2. Len(p) \in Nat /\ Len(p) >= 1
        BY <2>1, LastReached
      <4> QED BY <2>3, <4>1, <4>2, Zenon
    <3>2. IsPath(q, r, below) /\ Last(q) = p[Len(p) - 1] /\ f \in below[Last(q)]
      BY <2>1, <3>1, PathFront
    <3>3. Last(q) \in F /\ f \in F
      BY <1>7, <2>1, <3>2, LastReached
    <3> HIDE DEF q
    <3>4. folders[f].above = Last(q) /\ Last(q) # f
      BY <3>2, <3>3, ChildrenType DEF isChild
    <3>5. Places(f, folders[f]) = {Last(q)}
      <4>1. folders[f].kind # "relationship" /\ folders[f].above \notin {f, Elsewhere}
        BY <1>2, <1>9, <3>3, <3>4
      <4> QED BY <1>12, <3>4, <4>1, OnePlace
    <3> QED BY <2>3, <3>2, <3>5
  <2> QED BY <2>2, <2>3
<1>14. ShowsReal
  <2> SUFFICES ASSUME NEW s \in ShownTree
               PROVE  \E e \in ever :
                        /\ e[1] = s[1]
                        /\ s[2] \in Places(e[1], e[2]) \cup IF e[2].kind = "folder" THEN {None} ELSE {}
    BY <1>11 DEF ShowsReal
  <2>1. ASSUME NEW p \in nodes, s = <<Last(p), IF Len(p) = 1 THEN None ELSE p[Len(p) - 1]>>
        PROVE  \E e \in ever :
                 /\ e[1] = s[1]
                 /\ s[2] \in Places(e[1], e[2]) \cup IF e[2].kind = "folder" THEN {None} ELSE {}
    <3> DEFINE f == Last(p)
               place == IF Len(p) = 1 THEN None ELSE p[Len(p) - 1]
    <3>1. f \in F /\ <<f, folders[f]>> \in ever /\ folders[f].kind = "folder"
      BY <1>2, <1>8
    <3>2. place \in Places(f, folders[f]) \cup {None}
      BY <1>13
    <3>3. s[1] = f /\ s[2] = place
      BY <2>1, Pair
    <3> HIDE DEF f, place
    <3> QED BY <3>1, <3>2, <3>3, Pair
  <2>2. ASSUME NEW f \in F \cup {None}, NEW b \in boards[f], s = <<b, f>>
        PROVE  \E e \in ever :
                 /\ e[1] = s[1]
                 /\ s[2] \in Places(e[1], e[2]) \cup IF e[2].kind = "folder" THEN {None} ELSE {}
    <3>1. PICK q \in {"whiteboards", "canvasBoards"} :
            b \in DOMAIN Read(q) /\ Read(q)[b].above = f
      BY <1>1, <1>3 DEF boardsIn
    <3>2. /\ <<b, Read(q)[b]>> \in ever /\ Selected(q, Read(q)[b]) /\ q \in RowsName
      BY <1>1, <3>1, ReadIsReal
    <3>3. Read(q)[b].kind \in {"whiteboard", "canvasBoard"}
      BY <3>2 DEF Selected
    <3>4. Read(q)[b].above \notin {b, Elsewhere}
      BY <3>2, <3>3, Pair DEF ReadInv, Past
    <3>5. Places(b, Read(q)[b]) = {f}
      BY <1>12, <3>1, <3>3, <3>4, OnePlace
    <3>6. s[1] = b /\ s[2] = f
      BY <2>2, Pair
    <3> QED BY <3>2, <3>5, <3>6, Pair
  <2> QED BY <1>11, <2>1, <2>2
<1>15. ASSUME NEW id \in Whole, rows[id].kind = "folder", NEW place \in Places(id, rows[id])
       PROVE  <<id, place>> \in ShownTree
  <2> DEFINE f == rows[id].above
  <2>1. id \in F /\ folders[id] = rows[id]
    BY <1>1, <1>15, WholeIsRead DEF Selected, RowsName
  <2>2. CASE f \in {id, Elsewhere, None}
    <3>1. place = None
      BY <1>12, <1>15, <2>2 DEF Places
    <3>2. ~isChild(id, folders)
      BY <1>9, <2>1, <2>2 DEF isChild
    <3>3. IsPath(<<id>>, id, below) /\ Len(<<id>>) = 1 /\ Last(<<id>>) = id
      BY <1>7, <2>1, SinglePath
    <3>4. id \in R
      BY <1>5, <2>1, <3>2 DEF Roots
    <3>5. <<id>> \in nodes
      BY <1>5, <3>3, <3>4
    <3> QED BY <1>11, <3>1, <3>3, <3>5
  <2>3. CASE f \notin {id, Elsewhere, None}
    <3>1. place = f
      BY <1>12, <1>15, <2>3 DEF Places
    <3>2. f \in F
      <4>1. f \in OfKind(rows, "folder")
        BY <1>15, <2>3, WholeRow DEF Hangs
      <4> QED BY <1>1, <4>1, FolderIsRead DEF folders
    <3>3. id \in below[f]
      BY <2>1, <2>3, <3>2, ChildrenType DEF isChild
    <3>4. PICK p \in nodes : Last(p) = f
      BY <1>6, <3>2
    <3>5. PICK r \in R : IsPath(p, r, below)
      BY <1>5
    <3>6. PICK q : IsPath(q, r, below) /\ Distinct(q) /\ Last(q) = f
      BY <3>4, <3>5, ReachedOnce
    <3> DEFINE t == Append(q, id)
    <3>7. IsPath(t, r, below) /\ Len(t) = Len(q) + 1 /\ Last(t) = id /\ t[Len(q)] = f
      <4>1. id \in below[Last(q)]
        BY <3>3, <3>6
      <4>2. below \in [DOMAIN below -> SUBSET DOMAIN below]
        BY <1>7
      <4>3. IsPath(t, r, below) /\ Len(t) = Len(q) + 1 /\ Last(t) = id /\ t[Len(q)] = Last(q)
        <5> HIDE DEF below
        <5>1. IsPath(Append(q, id), r, below)
          BY <3>6, <4>1, <4>2, LongerPath
        <5>2. Len(Append(q, id)) = Len(q) + 1
          BY <3>6, <4>1, <4>2, LongerPath
        <5>3. Last(Append(q, id)) = id
          BY <3>6, <4>1, <4>2, LongerPath
        <5>4. Append(q, id)[Len(q)] = Last(q)
          <6>1. q \in Seq(DOMAIN below) /\ Len(q) \in Nat /\ Len(q) >= 1
            BY <3>6, LenProperties DEF IsPath
          <6>2. id \in DOMAIN below /\ Len(q) \in 1..Len(q)
            BY <2>1, <1>7, <6>1 DEF below
          <6>3. Append(q, id)[Len(q)] = q[Len(q)]
            BY <6>1, <6>2, AppendProperties
          <6> QED BY <6>3 DEF Last
        <5> QED BY <5>1, <5>2, <5>3, <5>4
      <4> QED BY <3>6, <4>3
    <3> HIDE DEF t
    <3>8. t \in nodes
      BY <1>5, <3>7
    <3>9. Len(t) # 1 /\ Len(t) - 1 = Len(q)
      <4>1. \A n \in Nat : n >= 1 => n + 1 # 1 /\ (n + 1) - 1 = n
        OBVIOUS
      <4>2. Len(q) \in Nat /\ Len(q) >= 1
        BY <3>6, LastReached
      <4> QED BY <3>7, <4>1, <4>2
    <3>10. <<Last(t), IF Len(t) = 1 THEN None ELSE t[Len(t) - 1]>> \in ShownTree
      BY <1>11, <3>8
    <3> QED BY <3>1, <3>7, <3>9, <3>10
  <2> QED BY <2>2, <2>3
<1>16. ASSUME NEW id \in Whole, rows[id].kind \in {"whiteboard", "canvasBoard"},
              NEW place \in Places(id, rows[id])
       PROVE  <<id, place>> \in ShownTree
  <2> DEFINE f == rows[id].above
  <2>1. PICK q \in {"whiteboards", "canvasBoards"} : Selected(q, rows[id])
    BY <1>16 DEF Selected
  <2>2. id \in DOMAIN Read(q) /\ Read(q)[id] = rows[id]
    BY <1>1, <2>1, WholeIsRead
  <2>3. f \notin {id, Elsewhere} /\ f \in OfKind(rows, "folder") \cup {None}
    BY <1>16, WholeRow DEF Hangs
  <2>4. place = f
    BY <1>12, <1>16, <2>3, OnePlace
  <2>5. f \in F \cup {None}
    BY <1>1, <2>3, FolderIsRead DEF folders
  <2>6. id \in boards[f]
    BY <1>1, <1>3, <2>2, <2>5 DEF boardsIn
  <2> QED BY <1>11, <2>4, <2>5, <2>6
<1>17. ShowsDue
  <2>1. \A id : Due(id) => rows[id].kind \in {"folder", "whiteboard", "canvasBoard"}
    BY DEF Due, CanvasReads, BoardTools
  <2> QED BY <1>11, <1>15, <1>16, <2>1 DEF ShowsDue
<1> QED BY <1>14, <1>17

-----------------------------------------------------------------------------
(* Boards and their tables.                                                *)

LEMMA DiagramParts ==
  /\ DOMAIN diagram.tables = DOMAIN Read("tables")
  /\ DOMAIN diagram.columns = DOMAIN Read("tables")
  /\ diagram.areas = DOMAIN Read("areas")
  /\ \A t \in DOMAIN Read("tables") :
       /\ diagram.columns[t] = {k \in DOMAIN Read("columns") : Read("columns")[k].above = t}
       /\ diagram.tables[t].outgoing
            = {r \in DOMAIN Read("relationships") : Read("relationships")[r].source.table = t}
       /\ diagram.tables[t].incoming
            = {r \in DOMAIN Read("relationships") : Read("relationships")[r].target.table = t}
<1> HIDE DEF Read
<1> QED BY DEF diagram, linked

BoardRows == {"tables", "areas", "columns", "relationships"}

\* Where the rows of a board are shown, other than its relationships.
LEMMA BoardPlaces ==
  ASSUME ReadInv, request.tool \notin Lists, NEW q \in BoardRows, NEW k \in DOMAIN Read(q),
         q # "relationships" \/ request.tool = "get_schema_summary"
  PROVE  /\ Places(k, Read(q)[k]) = {Read(q)[k].above}
         /\ q # "columns" => Read(q)[k].above = Board
<1>1. q \in RowsName
  BY DEF RowsName, BoardRows
<1>2. <<k, Read(q)[k]>> \in ever /\ Selected(q, Read(q)[k])
  BY <1>1, ReadIsReal
<1>3. /\ Read(q)[k].kind # "folder"
      /\ q # "relationships" => Read(q)[k].kind # "relationship"
      /\ q # "columns" => Read(q)[k].above = Board
  BY <1>2 DEF Selected, BoardRows
<1>4. Read(q)[k].above \notin {k, Elsewhere}
  BY <1>2, <1>3, Pair DEF ReadInv, Past
<1>5. Places(k, Read(q)[k]) = {Read(q)[k].above}
  BY <1>3, <1>4, OnePlace
<1> QED BY <1>3, <1>5

\* A whole relationship of the board that is read, and both its ends, are read.
LEMMA RelationshipIsRead ==
  ASSUME ReadInv, answer = "ok", request.tool \in BoardTools \cup {"get_table_ddl"},
         NEW r \in Whole, rows[r].kind = "relationship", rows[r].above = Board
  PROVE  /\ r \in DOMAIN Read("relationships") /\ Read("relationships")[r] = rows[r]
         /\ \A end \in {rows[r].source, rows[r].target} :
              /\ end.table \in DOMAIN Read("tables")
              /\ end.column \in DOMAIN Read("columns")
              /\ Read("columns")[end.column].above = end.table
<1>1. /\ {"tables", "areas"} \subseteq DOMAIN seen
      /\ DOMAIN seen["tables"] # {} => {"columns", "relationships"} \subseteq DOMAIN seen
      /\ Read("tables") = seen["tables"]
  BY DoneReads DEF Read
<1>2. \A end \in {rows[r].source, rows[r].target} :
        /\ end.table \in On(rows, "table", {Board})
        /\ end.column \in On(rows, "column", {end.table})
        /\ end.table \in Needs(rows[r]) /\ end.column \in Needs(rows[r])
  <2>1. Hangs(rows, rows[r])
    BY WholeRow
  <2>2. \A end \in {rows[r].source, rows[r].target} :
          end.table \in On(rows, "table", {Board}) /\ end.column \in On(rows, "column", {end.table})
    BY <2>1 DEF Hangs
  <2>3. \A end \in {rows[r].source, rows[r].target} :
          {end.table, end.column} \subseteq Needs(rows[r])
    <3> TAKE end \in {rows[r].source, rows[r].target}
    <3> QED BY Zenon DEF Needs
  <2> QED BY <2>2, <2>3
<1>3. {"table", "column"} \subseteq Kind \ Movable
  BY DEF Kind, Movable
<1>4. ASSUME NEW end \in {rows[r].source, rows[r].target}
      PROVE  end.table \in Whole /\ end.column \in Whole
  BY <1>2, <1>3, NeedIsWhole DEF On
<1>5. ASSUME NEW end \in {rows[r].source, rows[r].target}
      PROVE  end.table \in DOMAIN Read("tables")
  <2>1. Selected("tables", rows[end.table])
    BY <1>2 DEF Selected, On, OfKind
  <2> QED BY <1>1, <1>4, <2>1, WholeIsRead DEF RowsName
<1>6. {"columns", "relationships"} \subseteq DOMAIN seen
  BY <1>1, <1>5
<1>7. ASSUME NEW end \in {rows[r].source, rows[r].target}
      PROVE  /\ end.column \in DOMAIN Read("columns")
             /\ Read("columns")[end.column].above = end.table
  <2>1. rows[end.column].kind = "column" /\ rows[end.column].above = end.table
    BY <1>2 DEF On, OfKind
  <2>2. Selected("columns", rows[end.column])
    BY <1>1, <1>5, <2>1 DEF Selected
  <2> QED BY <1>4, <1>6, <2>1, <2>2, WholeIsRead DEF RowsName
<1>8. Selected("relationships", rows[r])
  BY DEF Selected
<1>9. r \in DOMAIN Read("relationships") /\ Read("relationships")[r] = rows[r]
  BY <1>6, <1>8, WholeIsRead DEF RowsName
<1> QED BY <1>5, <1>7, <1>9

\* A whole column of a table of the board that is read, and its table, are read.
LEMMA ColumnIsRead ==
  ASSUME ReadInv, answer = "ok", request.tool \in BoardTools \cup {"get_table_ddl"},
         NEW k \in Whole, rows[k].kind = "column", rows[rows[k].above].above = Board
  PROVE  /\ rows[k].above \in DOMAIN Read("tables")
         /\ k \in DOMAIN Read("columns") /\ Read("columns")[k] = rows[k]
<1> DEFINE t == rows[k].above
<1>1. /\ {"tables", "areas"} \subseteq DOMAIN seen
      /\ DOMAIN seen["tables"] # {} => {"columns", "relationships"} \subseteq DOMAIN seen
      /\ Read("tables") = seen["tables"]
  BY DoneReads DEF Read
<1>2. t \in OfKind(rows, "table") /\ t \in Needs(rows[k])
  BY WholeRow DEF Hangs, Needs
<1>3. "table" \in Kind \ Movable
  BY DEF Kind, Movable
<1>4. t \in Whole
  BY <1>2, <1>3, NeedIsWhole
<1>5. Selected("tables", rows[t])
  BY <1>2 DEF Selected, OfKind
<1>6. t \in DOMAIN seen["tables"]
  BY <1>1, <1>4, <1>5, WholeIsRead DEF RowsName
<1>7. Selected("columns", rows[k])
  BY <1>6 DEF Selected
<1> QED BY <1>1, <1>6, <1>7, WholeIsRead DEF RowsName

\* A whole table or area of the board that is read is read.
LEMMA TableIsRead ==
  ASSUME ReadInv, answer = "ok", request.tool \in BoardTools \cup {"get_table_ddl"},
         NEW k \in Whole, rows[k].above = Board
  PROVE  /\ rows[k].kind = "table" => k \in DOMAIN Read("tables")
         /\ rows[k].kind = "area" => k \in DOMAIN Read("areas")
<1>1. {"tables", "areas"} \subseteq DOMAIN seen
  BY DoneReads
<1>2. rows[k].kind = "table" => Selected("tables", rows[k])
  BY DEF Selected
<1>3. rows[k].kind = "area" => Selected("areas", rows[k])
  BY DEF Selected
<1> QED BY <1>1, <1>2, <1>3, WholeIsRead DEF RowsName

Real(s) ==
  \E e \in ever :
    /\ e[1] = s[1]
    /\ s[2] \in Places(e[1], e[2]) \cup IF e[2].kind = "folder" THEN {None} ELSE {}

LEMMA RealRow ==
  ASSUME ReadInv, NEW q \in RowsName, NEW k \in DOMAIN Read(q),
         NEW place \in Places(k, Read(q)[k])
  PROVE  Real(<<k, place>>)
<1>1. \E e \in ever :
        /\ e[1] = k
        /\ place \in Places(e[1], e[2]) \cup IF e[2].kind = "folder" THEN {None} ELSE {}
  BY RealPlace
<1> QED BY <1>1, Pair DEF Real

\* Tables and columns are shown in their places, and all that were there all the time.
LEMMA TablesShow ==
  ASSUME ReadInv, answer = "ok", request.tool \in BoardTools
  PROVE  /\ \A s \in ShownTables(diagram) : Real(s)
         /\ \A k \in Whole :
              /\ rows[k].kind = "table" /\ rows[k].above = request.id
                   => <<k, request.id>> \in ShownTables(diagram)
              /\ rows[k].kind = "column" /\ rows[rows[k].above].above = request.id
                   => <<k, rows[k].above>> \in ShownTables(diagram)
<1>1. Board = request.id /\ request.tool \notin Lists
  BY DEF Board, BoardTools, Lists
<1> DEFINE T == Read("tables")
           K == Read("columns")
<1>2. /\ DOMAIN diagram.tables = DOMAIN T
      /\ \A t \in DOMAIN T : diagram.columns[t] = {k \in DOMAIN K : K[k].above = t}
  BY DiagramParts
<1>3. \A s : s \in ShownTables(diagram) <=>
               \/ \E t \in DOMAIN T : s = <<t, request.id>>
               \/ \E t \in DOMAIN T : \E k \in DOMAIN K : K[k].above = t /\ s = <<k, t>>
  <2> HIDE DEF T, K
  <2> QED BY <1>2 DEF ShownTables, Placed
<1>4. ASSUME NEW t \in DOMAIN T PROVE Real(<<t, request.id>>)
  <2>1. Places(t, T[t]) = {request.id}
    BY <1>1, BoardPlaces DEF BoardRows
  <2> QED BY <2>1, RealRow DEF RowsName
<1>5. ASSUME NEW k \in DOMAIN K PROVE Real(<<k, K[k].above>>)
  <2>1. Places(k, K[k]) = {K[k].above}
    BY <1>1, BoardPlaces DEF BoardRows
  <2> QED BY <2>1, RealRow DEF RowsName
<1>6. ASSUME NEW k \in Whole, rows[k].kind = "table", rows[k].above = request.id
      PROVE  <<k, request.id>> \in ShownTables(diagram)
  <2>1. k \in DOMAIN T
    BY <1>1, <1>6, TableIsRead
  <2> QED BY <1>3, <2>1
<1>7. ASSUME NEW k \in Whole, rows[k].kind = "column", rows[rows[k].above].above = request.id
      PROVE  <<k, rows[k].above>> \in ShownTables(diagram)
  <2>1. rows[k].above \in DOMAIN T /\ k \in DOMAIN K /\ K[k] = rows[k]
    BY <1>1, <1>7, ColumnIsRead
  <2> QED BY <1>3, <2>1
<1>8. ASSUME NEW s \in ShownTables(diagram) PROVE Real(s)
  BY <1>3, <1>4, <1>5
<1> QED BY <1>6, <1>7, <1>8

\* What is due of a board, by kind.
LEMMA BoardDue ==
  ASSUME request.tool \in BoardTools, NEW k, Due(k)
  PROVE  \/ rows[k].kind = "table" /\ rows[k].above = request.id
         \/ rows[k].kind = "relationship" /\ rows[k].above = request.id
         \/ rows[k].kind = "area" /\ rows[k].above = request.id /\ request.tool = "get_board"
         \/ rows[k].kind = "column" /\ rows[rows[k].above].above = request.id
BY DEF Due, BoardTools, CanvasReads

\* A board is shown as it was read.
LEMMA BoardShows ==
  ASSUME ReadInv, answer = "ok", request.tool = "get_board"
  PROVE  ShowsReal /\ ShowsDue
<1>1. /\ Board = request.id /\ request.tool \notin Lists /\ request.tool \in BoardTools
      /\ request.tool # "get_schema_summary"
  BY DEF Board, BoardTools, Lists
<1> DEFINE T == Read("tables")
           R == Read("relationships")
           A == Read("areas")
<1>2. Shown = ShownBoard
  BY DEF Shown
<1>3. /\ diagram.areas = DOMAIN A /\ DOMAIN diagram.tables = DOMAIN T
      /\ \A t \in DOMAIN T :
           /\ diagram.tables[t].outgoing = {r \in DOMAIN R : R[r].source.table = t}
           /\ diagram.tables[t].incoming = {r \in DOMAIN R : R[r].target.table = t}
  BY DiagramParts
<1>4. \A s : s \in Shown <=>
         \/ s \in ShownTables(diagram)
         \/ \E k \in DOMAIN A : s = <<k, request.id>>
         \/ \E t \in DOMAIN T : \E r \in DOMAIN R : R[r].source.table = t /\ s = <<r, <<t, "out">>>>
         \/ \E t \in DOMAIN T : \E r \in DOMAIN R : R[r].target.table = t /\ s = <<r, <<t, "in">>>>
  <2> HIDE DEF T, R, A
  <2>1. \A s : s \in ShownBoard <=>
          \/ s \in ShownTables(diagram)
          \/ s \in Placed(diagram.areas, request.id)
          \/ \E t \in DOMAIN diagram.tables :
               \/ s \in Placed(diagram.tables[t].outgoing, <<t, "out">>)
               \/ s \in Placed(diagram.tables[t].incoming, <<t, "in">>)
    BY DEF ShownBoard
  <2> QED BY <1>2, <1>3, <2>1 DEF Placed
<1>5. ASSUME NEW k \in DOMAIN A PROVE Real(<<k, request.id>>)
  <2>1. Places(k, A[k]) = {request.id}
    BY <1>1, BoardPlaces DEF BoardRows
  <2> QED BY <2>1, RealRow DEF RowsName
<1>6. ASSUME NEW r \in DOMAIN R
      PROVE  Real(<<r, <<R[r].source.table, "out">>>>) /\ Real(<<r, <<R[r].target.table, "in">>>>)
  <2>1. R[r].kind = "relationship"
    BY ReadIsReal DEF RowsName, Selected
  <2>2. Places(r, R[r]) = {<<R[r].source.table, "out">>, <<R[r].target.table, "in">>}
    BY <2>1, TwoPlaces
  <2> QED BY <2>2, RealRow DEF RowsName
<1>7. ShowsReal
  <2>1. \A s \in ShownTables(diagram) : Real(s)
    BY <1>1, TablesShow
  <2> HIDE DEF T, R, A
  <2>2. ASSUME NEW s \in Shown PROVE Real(s)
    <3>1. CASE s \in ShownTables(diagram)
      BY <2>1, <3>1
    <3>2. CASE \E k \in DOMAIN A : s = <<k, request.id>>
      BY <1>5, <3>2
    <3>3. CASE \E t \in DOMAIN T : \E r \in DOMAIN R :
                 R[r].source.table = t /\ s = <<r, <<t, "out">>>>
      BY <1>6, <3>3, Zenon
    <3>4. CASE \E t \in DOMAIN T : \E r \in DOMAIN R :
                 R[r].target.table = t /\ s = <<r, <<t, "in">>>>
      BY <1>6, <3>4, Zenon
    <3> QED BY <1>4, <2>2, <3>1, <3>2, <3>3, <3>4, Zenon
  <2> QED BY <2>2 DEF ShowsReal, Real
<1>8. ASSUME NEW k \in Whole, Due(k), NEW place \in Places(k, rows[k])
      PROVE  <<k, place>> \in Shown
  <2>1. rows[k].kind # "folder" => rows[k].above \notin {k, Elsewhere}
    BY WholeRow
  <2>2. rows[k].kind \in {"table", "column", "area"} => place = rows[k].above
    BY <1>1, <1>8, <2>1, OnePlace
  <2>3. CASE rows[k].kind \in {"table", "column"}
    <3>1. <<k, place>> \in ShownTables(diagram)
      BY <1>1, <1>8, <2>2, <2>3, BoardDue, TablesShow
    <3> QED BY <1>4, <3>1
  <2>4. CASE rows[k].kind = "area"
    <3>1. rows[k].above = Board /\ place = request.id
      BY <1>1, <1>8, <2>2, <2>4, BoardDue
    <3>2. k \in DOMAIN A
      BY <1>1, <2>4, <3>1, TableIsRead
    <3> QED BY <1>4, <3>1, <3>2
  <2>5. CASE rows[k].kind = "relationship"
    <3>1. rows[k].above = Board
      BY <1>1, <1>8, <2>5, BoardDue
    <3>2. /\ k \in DOMAIN R /\ R[k] = rows[k]
          /\ \A end \in {rows[k].source, rows[k].target} : end.table \in DOMAIN T
      BY <1>1, <2>5, <3>1, RelationshipIsRead
    <3>3. place \in {<<rows[k].source.table, "out">>, <<rows[k].target.table, "in">>}
      BY <1>8, <2>5, TwoPlaces
    <3> QED BY <1>4, <3>2, <3>3
  <2> QED BY <1>1, <1>8, <2>3, <2>4, <2>5, BoardDue
<1>9. ShowsDue
  BY <1>8 DEF ShowsDue
<1> QED BY <1>7, <1>9

\* The summary of a board shows what its relationships are with it.
LEMMA SummaryShows ==
  ASSUME ReadInv, answer = "ok", request.tool = "get_schema_summary"
  PROVE  ShowsReal /\ ShowsDue
<1>1. /\ Board = request.id /\ request.tool \notin Lists /\ request.tool \in BoardTools
  BY DEF Board, BoardTools, Lists
<1> DEFINE T == Read("tables")
           R == Read("relationships")
<1>3. /\ DOMAIN diagram.tables = DOMAIN T
      /\ \A t \in DOMAIN T :
           /\ diagram.tables[t].outgoing = {r \in DOMAIN R : R[r].source.table = t}
           /\ diagram.tables[t].incoming = {r \in DOMAIN R : R[r].target.table = t}
  BY DiagramParts
<1>4. \A s : s \in Shown <=>
         \/ s \in ShownTables(diagram)
         \/ \E r \in DOMAIN R :
              s = <<r, request.id>> /\ {R[r].source.table, R[r].target.table} \cap DOMAIN T # {}
  <2> HIDE DEF T, R
  <2>1. Shown = ShownTables(diagram)
                  \cup Placed(FormatSchemaSummary(diagram).relationships, request.id)
    BY DEF Shown
  <2>2. \A r : r \in FormatSchemaSummary(diagram).relationships <=>
          \E t \in DOMAIN diagram.tables :
            r \in diagram.tables[t].outgoing \cup diagram.tables[t].incoming
    BY DEF FormatSchemaSummary
  <2>3. \A r : r \in FormatSchemaSummary(diagram).relationships <=>
          r \in DOMAIN R /\ {R[r].source.table, R[r].target.table} \cap DOMAIN T # {}
    BY <1>3, <2>2
  <2> QED BY <2>1, <2>3 DEF Placed
<1>5. ASSUME NEW r \in DOMAIN R PROVE Real(<<r, request.id>>)
  <2>1. Places(r, R[r]) = {request.id}
    BY <1>1, BoardPlaces DEF BoardRows
  <2> QED BY <2>1, RealRow DEF RowsName
<1>6. ShowsReal
  <2>1. \A s \in ShownTables(diagram) : Real(s)
    BY <1>1, TablesShow
  <2> HIDE DEF T, R
  <2>2. \A s \in Shown : Real(s)
    BY <1>4, <1>5, <2>1
  <2> QED BY <2>2 DEF ShowsReal, Real
<1>7. ASSUME NEW k \in Whole, Due(k), NEW place \in Places(k, rows[k])
      PROVE  <<k, place>> \in Shown
  <2>1. rows[k].kind # "folder" => rows[k].above \notin {k, Elsewhere}
    BY WholeRow
  <2>2. rows[k].kind # "folder" => place = rows[k].above
    BY <1>1, <1>7, <2>1, OnePlace
  <2>3. CASE rows[k].kind \in {"table", "column"}
    <3>1. <<k, place>> \in ShownTables(diagram)
      BY <1>1, <1>7, <2>2, <2>3, BoardDue, TablesShow
    <3> QED BY <1>4, <3>1
  <2>4. CASE rows[k].kind = "relationship"
    <3>1. rows[k].above = Board /\ place = request.id
      BY <1>1, <1>7, <2>2, <2>4, BoardDue
    <3>2. /\ k \in DOMAIN R /\ R[k] = rows[k]
          /\ \A end \in {rows[k].source, rows[k].target} : end.table \in DOMAIN T
      BY <1>1, <2>4, <3>1, RelationshipIsRead
    <3> QED BY <1>4, <3>1, <3>2
  <2> QED BY <1>1, <1>7, <2>3, <2>4, BoardDue
<1>8. ShowsDue
  BY <1>7 DEF ShowsDue
<1> QED BY <1>6, <1>8

-----------------------------------------------------------------------------
(* The DDL of a table.                                                     *)

\* What the DDL is made of, if there is one.
LEMMA DDLParts ==
  ASSUME ReadInv, answer = "ok", request.tool = "get_table_ddl"
  PROVE  /\ request.id \in DOMAIN Read("tables")
         /\ \A k : k \in TableDDL.columns <=>
              k \in DOMAIN Read("columns") /\ Read("columns")[k].above = request.id
         /\ \A r : r \in TableDDL.foreignKeys <=>
              /\ r \in DOMAIN Read("relationships")
              /\ Read("relationships")[r].source.table = request.id
              /\ \A c \in {Read("relationships")[r].source.column,
                           Read("relationships")[r].target.column} :
                   c \in DOMAIN Read("columns")
                     /\ Read("columns")[c].above \in DOMAIN Read("tables")
              /\ Read("relationships")[r].target.table \in DOMAIN Read("tables")
<1> DEFINE T == Read("tables")
           K == Read("columns")
           R == Read("relationships")
           columns == UNION {diagram.columns[t] : t \in DOMAIN diagram.columns}
<1>1. TableDDL.code = "ok"
  BY DEF ReadInv, BaseInv, TypeInv
<1>2. /\ request.id \in DOMAIN diagram.tables
      /\ TableDDL = [code |-> "ok", columns |-> diagram.columns[request.id],
                     foreignKeys |->
                       {r \in diagram.tables[request.id].outgoing :
                          /\ {R[r].source.column, R[r].target.column} \subseteq columns
                          /\ R[r].target.table \in DOMAIN diagram.tables}]
  <2> HIDE DEF R
  <2>1. TableDDL = GenerateTableDDL(diagram, R, request.id)
    BY DEF TableDDL, R
  <2> QED BY <1>1, <2>1 DEF GenerateTableDDL
<1>3. /\ DOMAIN diagram.tables = DOMAIN T /\ DOMAIN diagram.columns = DOMAIN T
      /\ \A t \in DOMAIN T :
           /\ diagram.columns[t] = {k \in DOMAIN K : K[k].above = t}
           /\ diagram.tables[t].outgoing = {r \in DOMAIN R : R[r].source.table = t}
  BY DiagramParts
<1> HIDE DEF T, K, R
<1>4. \A c : c \in columns <=> c \in DOMAIN K /\ K[c].above \in DOMAIN T
  BY <1>3
<1> HIDE DEF columns
<1>5. \A k : k \in TableDDL.columns <=> k \in DOMAIN K /\ K[k].above = request.id
  BY <1>2, <1>3
<1>6. \A r : r \in TableDDL.foreignKeys <=>
        /\ r \in DOMAIN R /\ R[r].source.table = request.id
        /\ \A c \in {R[r].source.column, R[r].target.column} :
             c \in DOMAIN K /\ K[c].above \in DOMAIN T
        /\ R[r].target.table \in DOMAIN T
  <2>1. \A r : r \in TableDDL.foreignKeys <=>
          /\ r \in diagram.tables[request.id].outgoing
          /\ {R[r].source.column, R[r].target.column} \subseteq columns
          /\ R[r].target.table \in DOMAIN diagram.tables
    BY <1>2
  <2> QED BY <1>2, <1>3, <1>4, <2>1
<1>7. request.id \in DOMAIN T
  BY <1>2, <1>3
<1> QED BY <1>5, <1>6, <1>7 DEF T, K, R

\* The DDL of a table has the columns and the foreign keys that the table has.
LEMMA DDLShows ==
  ASSUME ReadInv, answer = "ok", request.tool = "get_table_ddl"
  PROVE  ShowsReal /\ ShowsDue
<1> DEFINE t == request.id
           T == Read("tables")
           K == Read("columns")
           R == Read("relationships")
<1>1. request.tool \notin Lists /\ request.tool \in BoardTools \cup {"get_table_ddl"}
  BY DEF Lists
<1>2. \A s : s \in Shown <=>
         \/ \E k \in TableDDL.columns : s = <<k, t>>
         \/ \E r \in TableDDL.foreignKeys : s = <<r, <<t, "out">>>>
  BY DEF Shown, Placed, CanvasReads, BoardTools, Lists
<1>3. /\ t \in DOMAIN T
      /\ \A k : k \in TableDDL.columns <=> k \in DOMAIN K /\ K[k].above = t
      /\ \A r : r \in TableDDL.foreignKeys <=>
           /\ r \in DOMAIN R /\ R[r].source.table = t
           /\ \A c \in {R[r].source.column, R[r].target.column} :
                c \in DOMAIN K /\ K[c].above \in DOMAIN T
           /\ R[r].target.table \in DOMAIN T
  BY DDLParts
<1>4. \A k, row : row.kind = "relationship" => Places(k, row) = {<<row.source.table, "out">>}
  BY DEF Places, Lists
<1>5. ASSUME NEW k \in TableDDL.columns PROVE Real(<<k, t>>)
  <2>1. k \in DOMAIN K /\ K[k].above = t
    BY <1>3
  <2>2. Places(k, K[k]) = {t}
    BY <1>1, <2>1, BoardPlaces DEF BoardRows
  <2> QED BY <2>1, <2>2, RealRow DEF RowsName
<1>6. ASSUME NEW r \in TableDDL.foreignKeys PROVE Real(<<r, <<t, "out">>>>)
  <2>1. r \in DOMAIN R /\ R[r].source.table = t
    BY <1>3
  <2>2. R[r].kind = "relationship"
    BY <2>1, ReadIsReal DEF RowsName, Selected
  <2>3. Places(r, R[r]) = {<<t, "out">>}
    BY <1>4, <2>1, <2>2
  <2> QED BY <2>1, <2>3, RealRow DEF RowsName
<1>7. ShowsReal
  <2>1. \A s \in Shown : Real(s)
    BY <1>2, <1>5, <1>6, Zenon
  <2> QED BY <2>1 DEF ShowsReal, Real
<1>8. ASSUME t \in OfKind(rows, "table") PROVE rows[t].above = Board
  <2>1. <<t, T[t]>> \in ever /\ T[t].kind = "table" /\ T[t].above = Board
    BY <1>3, ReadIsReal DEF RowsName, Selected
  <2>2. <<t, rows[t]>> \in ever
    BY <1>8 DEF OfKind, ReadInv, BaseInv
  <2>3. T[t] = rows[t]
    BY <2>1, <2>2, Pair DEF ReadInv, Past, Movable
  <2> QED BY <2>1, <2>3
<1>9. ASSUME NEW k \in Whole, Due(k), NEW place \in Places(k, rows[k])
      PROVE  <<k, place>> \in Shown
  <2>1. \/ rows[k].kind = "column" /\ rows[k].above = t
        \/ rows[k].kind = "relationship" /\ rows[k].source.table = t
    BY <1>9 DEF Due, CanvasReads, BoardTools
  <2>2. Hangs(rows, rows[k]) /\ (rows[k].kind # "folder" => rows[k].above \notin {k, Elsewhere})
    BY WholeRow
  <2>3. CASE rows[k].kind = "column" /\ rows[k].above = t
    <3>1. t \in OfKind(rows, "table")
      BY <2>2, <2>3 DEF Hangs
    <3>2. rows[rows[k].above].above = Board
      BY <1>8, <2>3, <3>1
    <3>3. k \in DOMAIN K /\ K[k] = rows[k]
      BY <1>1, <2>3, <3>2, ColumnIsRead
    <3>4. place = t
      BY <1>1, <1>9, <2>2, <2>3, OnePlace
    <3> QED BY <1>2, <1>3, <2>3, <3>3, <3>4
  <2>4. CASE rows[k].kind = "relationship" /\ rows[k].source.table = t
    <3>1. t \in On(rows, "table", {rows[k].above})
      BY <2>2, <2>4 DEF Hangs
    <3>2. rows[k].above = Board
      BY <1>8, <3>1 DEF On
    <3>3. /\ k \in DOMAIN R /\ R[k] = rows[k]
          /\ \A end \in {rows[k].source, rows[k].target} :
               /\ end.table \in DOMAIN T /\ end.column \in DOMAIN K
               /\ K[end.column].above = end.table
      BY <1>1, <2>4, <3>2, RelationshipIsRead
    <3>4. place = <<t, "out">>
      BY <1>4, <1>9, <2>4
    <3>5. k \in TableDDL.foreignKeys
      BY <1>3, <2>4, <3>3
    <3> QED BY <1>2, <3>4, <3>5
  <2> QED BY <2>1, <2>3, <2>4
<1>10. ShowsDue
  BY <1>9 DEF ShowsDue
<1> QED BY <1>7, <1>10

-----------------------------------------------------------------------------
(* The elements of a canvas board.                                         *)

\* S is as many of some elements, none of them over one that is left out.
Lowest(S, elements, n) ==
  /\ S \in SUBSET DOMAIN elements /\ Cardinality(S) = n
  /\ \A a \in S, b \in DOMAIN elements \ S : elements[a].order <= elements[b].order

LEMMA LowestGrows ==
  ASSUME NEW elements, IsFiniteSet(DOMAIN elements),
         \A k \in DOMAIN elements : elements[k].order \in Int,
         NEW n \in Nat, n + 1 <= Cardinality(DOMAIN elements), NEW S, Lowest(S, elements, n)
  PROVE  \E k \in DOMAIN elements : Lowest(S \cup {k}, elements, n + 1)
<1> DEFINE U == DOMAIN elements
<1>1. S \subseteq U /\ Cardinality(S) = n /\ IsFiniteSet(S)
  BY FS_Subset DEF Lowest
<1>2. U \ S # {}
  <2> SUFFICES ASSUME U \ S = {} PROVE FALSE
    OBVIOUS
  <2>1. S = U
    BY <1>1
  <2> QED BY <1>1, <2>1
<1>3. PICK k \in U \ S : \A j \in U \ S : elements[k].order <= elements[j].order
  BY <1>2, OneIsFirst
<1>4. Cardinality(S \cup {k}) = n + 1
  BY <1>1, <1>3, FS_AddElement
<1>5. \A a \in S \cup {k}, b \in U \ (S \cup {k}) : elements[a].order <= elements[b].order
  BY <1>3 DEF Lowest
<1>6. S \cup {k} \in SUBSET U
  BY <1>1, <1>3
<1>7. Lowest(S \cup {k}, elements, n + 1)
  BY <1>4, <1>5, <1>6, Zenon DEF Lowest
<1> QED BY <1>3, <1>7

LEMMA LowestExists ==
  ASSUME NEW elements, IsFiniteSet(DOMAIN elements),
         \A k \in DOMAIN elements : elements[k].order \in Int,
         NEW n \in Nat, n <= Cardinality(DOMAIN elements)
  PROVE  \E S : Lowest(S, elements, n)
<1> DEFINE C == Cardinality(DOMAIN elements)
           T == {m \in Nat : m <= C => \E S : Lowest(S, elements, m)}
<1>1. C \in Nat
  BY FS_CardinalityType
<1>2. Lowest({}, elements, 0)
  BY FS_EmptySet DEF Lowest
<1>3. ASSUME NEW m \in T PROVE m + 1 \in T
  <2> SUFFICES ASSUME m + 1 <= C PROVE \E S : Lowest(S, elements, m + 1)
    OBVIOUS
  <2> HIDE DEF C
  <2>1. m \in Nat /\ m <= C
    BY <1>1
  <2>2. PICK S : Lowest(S, elements, m)
    BY <2>1
  <2>3. \E k \in DOMAIN elements : Lowest(S \cup {k}, elements, m + 1)
    BY <2>1, <2>2, LowestGrows DEF C
  <2> QED BY <2>3
<1>4. 0 \in T
  BY <1>2
<1>5. T \subseteq Nat
  OBVIOUS
<1>6. T = Nat
  <2> HIDE DEF T
  <2> QED BY <1>3, <1>4, <1>5, SetInduction
<1> QED BY <1>6

\* What is left of a canvas board's elements when there are too many.
LEMMA LowestAreKept ==
  ASSUME NEW elements, IsFiniteSet(DOMAIN elements),
         \A k \in DOMAIN elements : elements[k].order \in Int, NEW limit \in Nat
  PROVE  /\ Cardinality(DOMAIN elements) <= limit
              => truncateCanvasElements(elements, limit) = DOMAIN elements
         /\ Cardinality(DOMAIN elements) > limit
              => Lowest(truncateCanvasElements(elements, limit), elements, limit)
<1>1. Cardinality(DOMAIN elements) \in Nat
  BY FS_CardinalityType
<1>2. CASE Cardinality(DOMAIN elements) > limit
  <2>1. \E S : Lowest(S, elements, limit)
    BY <1>1, <1>2, LowestExists
  <2>2. ~(Cardinality(DOMAIN elements) <= limit)
    BY <1>1, <1>2
  <2>3. truncateCanvasElements(elements, limit)
          = CHOOSE S \in SUBSET DOMAIN elements :
              /\ Cardinality(S) = limit
              /\ \A a \in S, b \in DOMAIN elements \ S : elements[a].order <= elements[b].order
    BY <2>2, Zenon DEF truncateCanvasElements
  <2>4. Lowest(truncateCanvasElements(elements, limit), elements, limit)
    BY <2>1, <2>3, Zenon DEF Lowest
  <2> QED BY <2>2, <2>4
<1> QED BY <1>1, <1>2 DEF truncateCanvasElements

LEMMA PlacedSize ==
  ASSUME NEW S, IsFiniteSet(S), NEW place
  PROVE  Cardinality(Placed(S, place)) = Cardinality(S)
<1> DEFINE f == [k \in S |-> <<k, place>>]
<1>1. f \in Bijection(S, Placed(S, place))
  <2>1. \A j, k \in S : f[j] = f[k] => j = k
    BY Pair
  <2>2. \A s \in Placed(S, place) : \E k \in S : f[k] = s
    BY DEF Placed
  <2>3. f \in [S -> Placed(S, place)]
    BY DEF Placed
  <2> HIDE DEF f
  <2> QED BY <2>1, <2>2, <2>3 DEF Bijection, Injection, Surjection, IsInjective
<1> HIDE DEF f
<1>2. ExistsBijection(S, Placed(S, place))
  BY <1>1 DEF ExistsBijection
<1> QED BY <1>2, FS_Bijection

\* A canvas board is shown as it was read; of too many elements the lowest are, and its
\* answer says so.
LEMMA CanvasShows ==
  ASSUME ReadInv, answer = "ok", request.tool \in CanvasReads
  PROVE  ShowsReal /\ ShowsDue
<1> DEFINE E == Read("elements")
           limit == resolveMaxElements(request.maxElements)
           X == truncateCanvasElements(E, limit)
<1>1. request.tool \notin Lists
  BY DEF Lists, CanvasReads
<1>2. limit \in Nat
  BY ReadsAssumption DEF resolveMaxElements
<1>3. "elements" \in DOMAIN seen /\ E = seen["elements"]
  BY DoneReads DEF Read
<1>4. /\ IsFiniteSet(DOMAIN E)
      /\ \A k \in DOMAIN E : /\ <<k, E[k]>> \in ever /\ E[k] \in Row
                             /\ E[k].kind = "element" /\ E[k].above = request.id
  <2>1. "elements" \in DOMAIN seen \cap RowsName
    BY <1>3 DEF RowsName
  <2>2. \A row : Selected("elements", row) => row.kind = "element" /\ row.above = request.id
    BY DEF Selected
  <2>3. IsFiniteSet(DOMAIN E)
    BY <1>3, <2>1, ReadRows
  <2>4. \A k \in DOMAIN E : <<k, E[k]>> \in ever /\ E[k] \in Row /\ Selected("elements", E[k])
    BY <1>3, <2>1, ReadRows
  <2> QED BY <2>2, <2>3, <2>4
<1>5. \A k \in DOMAIN E : E[k].order \in Int
  BY <1>4 DEF Row
<1>6. Shown = Placed(X, request.id)
  BY DEF Shown, CanvasReads, CanvasOut, newCanvasBoardOut, FormatCanvasSummary
<1>7. /\ CanvasOut.elements = X /\ CanvasOut.total = Cardinality(DOMAIN E)
      /\ CanvasOut.truncated = (Cardinality(DOMAIN E) > limit)
  BY DEF CanvasOut, newCanvasBoardOut
<1>8. Cardinality(DOMAIN E) \in Nat
  BY <1>4, FS_CardinalityType
<1> HIDE DEF E, limit, X
<1>9. /\ Cardinality(DOMAIN E) <= limit => X = DOMAIN E
      /\ Cardinality(DOMAIN E) > limit => Lowest(X, E, limit)
  BY <1>2, <1>4, <1>5, LowestAreKept DEF X
<1>10. X \subseteq DOMAIN E
  BY <1>2, <1>8, <1>9 DEF Lowest
<1>11. ShowsReal
  <2>1. ASSUME NEW k \in X PROVE Real(<<k, request.id>>)
    <3>1. k \in DOMAIN Read("elements")
      BY <1>10 DEF E
    <3>2. request.id \notin {k, Elsewhere}
      <4>1. <<k, E[k]>> \in ever /\ E[k].kind # "folder" /\ E[k].above = request.id
        BY <1>4, <1>10
      <4> QED BY <4>1, Pair DEF ReadInv, Past
    <3>3. Places(k, Read("elements")[k]) = {request.id}
      <4>1. E[k].above = request.id /\ E[k].kind # "relationship"
        BY <1>4, <1>10
      <4>2. Places(k, E[k]) = {E[k].above}
        BY <1>1, <3>2, <4>1, OnePlace
      <4> QED BY <4>1, <4>2 DEF E
    <3> QED BY <3>1, <3>3, RealRow DEF RowsName
  <2>2. \A s \in Shown : Real(s)
    BY <1>6, <2>1 DEF Placed
  <2> QED BY <2>2 DEF ShowsReal, Real
<1>12. ASSUME NEW k \in Whole, Due(k)
       PROVE  (\A place \in Places(k, rows[k]) : <<k, place>> \in Shown) \/ LeftOut(k)
  <2>1. rows[k].kind = "element" /\ rows[k].above = request.id
    BY <1>12 DEF Due, CanvasReads, BoardTools
  <2>2. Places(k, rows[k]) = {request.id}
    <3>1. rows[k].above \notin {k, Elsewhere}
      BY <2>1, WholeRow
    <3> QED BY <1>1, <2>1, <3>1, OnePlace
  <2>3. k \in DOMAIN E /\ E[k] = rows[k]
    <3>1. Selected("elements", rows[k])
      BY <2>1 DEF Selected
    <3> QED BY <1>3, <3>1, WholeIsRead DEF RowsName, E
  <2>4. CASE k \in X
    BY <1>6, <2>2, <2>4 DEF Placed
  <2>5. CASE k \notin X
    <3>1. Cardinality(DOMAIN E) > limit /\ Lowest(X, E, limit)
      BY <1>2, <1>8, <1>9, <2>3, <2>5
    <3>2. SaidTruncated
      <4>1. CASE request.tool = "get_canvas_board"
        BY <1>7, <3>1, <4>1 DEF SaidTruncated
      <4>2. CASE request.tool = "get_canvas_summary"
        <5>1. Cardinality(X) < Cardinality(DOMAIN E)
          BY <1>2, <1>8, <3>1 DEF Lowest
        <5>2. FormatCanvasSummary(CanvasOut).of = Cardinality(DOMAIN E)
          BY <1>7, <5>1 DEF FormatCanvasSummary
        <5>3. Cardinality(DOMAIN E) # None
          BY <1>8, ReadsAssumption
        <5> QED BY <4>2, <5>2, <5>3 DEF SaidTruncated
      <4> QED BY <4>1, <4>2 DEF CanvasReads
    <3>3. Cardinality(Shown) = limit
      <4>1. IsFiniteSet(X) /\ Cardinality(X) = limit
        BY <1>4, <1>10, <3>1, FS_Subset DEF Lowest
      <4> QED BY <1>6, <4>1, PlacedSize
    <3>4. ASSUME NEW s \in Shown PROVE seen["elements"][s[1]].order <= rows[k].order
      <4>1. s[1] \in X
        BY <1>6, <3>4, Pair DEF Placed
      <4>2. E[s[1]].order <= E[k].order
        BY <2>3, <2>5, <3>1, <4>1 DEF Lowest
      <4> QED BY <1>3, <2>3, <4>2
    <3> QED BY <3>2, <3>3, <3>4 DEF LeftOut, limit
  <2> QED BY <2>4, <2>5
<1>13. ShowsDue
  BY <1>12 DEF ShowsDue
<1> QED BY <1>11, <1>13

-----------------------------------------------------------------------------
(* The counts, and all together.                                           *)

LEMMA CountsShow ==
  ASSUME ReadInv
  PROVE  \A q \in DOMAIN Counted \cap DOMAIN seen : \A f \in DOMAIN seen[q] :
           /\ seen[q][f] >= Cardinality({id \in Whole : rows[id].kind = Counted[q]
                                                        /\ rows[id].above = f})
           /\ seen[q][f] <= Cardinality({e[1] : e \in {x \in ever : x[2].kind = Counted[q]
                                                                  /\ x[2].above = f}})
<1>1. DOMAIN Counted = CountName
  BY DEF Counted, CountName
<1>2. \A q \in DOMAIN seen \cap CountName : CountsRead(q)
  BY DEF ReadInv, Readings
<1>3. \A q \in DOMAIN Counted \cap DOMAIN seen : \A f \in DOMAIN seen[q] :
        /\ seen[q][f] >= Cardinality(WholeOn(Counted[q], f))
        /\ seen[q][f] <= Cardinality(PastOn(Counted[q], f))
  BY <1>1, <1>2 DEF CountsRead
<1> QED BY <1>3, Zenon DEF WholeOn, PastOn, IdsOn

LEMMA AllShow ==
  ASSUME ReadInv, answer = "ok"
  PROVE  ShowsReal /\ ShowsDue
<1>1. request.tool \in Tools
  BY DoneReads
<1> QED BY <1>1, ListsShow, TreeShows, BoardShows, SummaryShows, DDLShows, CanvasShows
        DEF Tools, Lists, BoardTools

\* A row that was there all the time, unchanged, is in the result, in its place; no result
\* shows a row that never was there, or where it never was; counts lie between what was
\* there all the time and what was there at some time.
THEOREM ResultsAreTrue == Spec => []ReadsWhatIsThere
<1>1. ReadInv => ReadsWhatIsThere
  <2> SUFFICES ASSUME ReadInv, answer = "ok" PROVE ReadsWhatIsThere
    BY DEF ReadsWhatIsThere
  <2> QED BY AllShow, CountsShow DEF ReadsWhatIsThere, ShowsReal, ShowsDue
<1> QED BY <1>1, ReadAlways, PTL
=============================================================================
