----------------------------- MODULE BatchUpdate -----------------------------
(***************************************************************************)
(* batch_schema_update of internal/tools/batch.go: one call creates tables *)
(* with inline columns, adds columns to existing tables and creates        *)
(* relations, one write at a time, and reports what was created and what   *)
(* failed.                                                                 *)
(*                                                                         *)
(* A write goes out through SocketEmitWithAck, of which WriteDelivery says *)
(* what may be relied on: an acknowledged write was stored at least once,  *)
(* and up to two copies of any write may be stored, one of them after the  *)
(* caller was answered.  Lengths, sizes and enumerations are left out.     *)
(***************************************************************************)
EXTENDS Naturals, Sequences, FiniteSets

CONSTANTS
  Batch,        \* the inputs of a call
  Name,         \* names of tables and columns
  None,         \* an absent field, a missing id
  MaxSurplus    \* bounds the copies stored that no ack accounts for

End ==
  [tableId : Nat \cup {None}, tableName : Name \cup {None},
   columnId : Nat \cup {None}, columnName : Name \cup {None}]

ASSUME BatchAssumption ==
  \A b \in Batch :
    /\ b.tables \in Seq([name : Name, columns : Seq(Name)])
    /\ b.addColumns \in Seq([table : Nat, name : Name])
    /\ b.relations \in Seq([source : End, target : End])
ASSUME NoneAssumption == None \notin Nat
ASSUME MaxSurplusAssumption == MaxSurplus \in Nat

VARIABLES
  in,           \* the input
  phase,        \* where the handler is
  i, j,         \* the next item: in.tables[i] or its column j, in.addColumns[i], ...
  tableIDs,     \* nameIndex: table name -> id
  columnIDs,    \* nameIndex: table name -> column name -> id
  created,      \* reported as created: [item, id]
  failed,       \* reported as failed: [kind, index], with the item (history)
  rows,         \* what the server stored: [id, of]
  late,         \* copies still on the wire after their write was answered
  surplus

handlerVars == <<in, phase, i, j, tableIDs, columnIDs, created, failed>>
vars == <<handlerVars, rows, late, surplus>>

Item(array, m, n) == [array |-> array, i |-> m, j |-> n]

\* The handler's loops, in their order; in.tables[i] itself is item (i, 0).
Items(b) ==
  {Item("tables", m, 0) : m \in DOMAIN b.tables}
  \cup (UNION {{Item("tables", m, n) : n \in DOMAIN b.tables[m].columns} : m \in DOMAIN b.tables})
  \cup {Item("addColumns", m, 0) : m \in DOMAIN b.addColumns}
  \cup {Item("relations", m, 0) : m \in DOMAIN b.relations}

NoId == [n \in Name |-> None]
-----------------------------------------------------------------------------
(* Validation.                                                             *)

OneOf(x, y) == (x = None) # (y = None)

ValidEndpoint(e) ==
  /\ OneOf(e.tableId, e.tableName)
  /\ OneOf(e.columnId, e.columnName)
  /\ e.tableId # None => e.columnId # None

ValidButNames(b) ==
  /\ b.tables # <<>> \/ b.addColumns # <<>> \/ b.relations # <<>>
  /\ \A m \in DOMAIN b.relations :
       ValidEndpoint(b.relations[m].source) /\ ValidEndpoint(b.relations[m].target)

Valid(b) ==
  /\ b.tables # <<>> \/ b.addColumns # <<>> \/ b.relations # <<>>
  /\ \A m, n \in DOMAIN b.tables : b.tables[m].name = b.tables[n].name => m = n
  /\ \A m \in DOMAIN b.relations :
       ValidEndpoint(b.relations[m].source) /\ ValidEndpoint(b.relations[m].target)
-----------------------------------------------------------------------------
(* The server.                                                             *)

TableRow(m) ==
  [kind |-> "table", item |-> Item("tables", m, 0), parents |-> <<>>]

ColumnRow(item, table) ==
  [kind |-> "column", item |-> item, parents |-> <<table>>]

\* The parents of a relation: source table, source column, target table, column.
RelationRow(m, ends) ==
  [kind |-> "relation", item |-> Item("relations", m, 0), parents |-> ends]

\* A foreign key to a row that is not there is refused.
Storable(r) == \A p \in DOMAIN r.parents : \E s \in rows : s.id = r.parents[p]

\* What every caller's board holds before the call: a table and its column.
Existing ==
  {[id |-> 1, of |-> [kind |-> "table", item |-> Item("existing", 1, 0), parents |-> <<>>]],
   [id |-> 2, of |-> [kind |-> "column", item |-> Item("existing", 1, 1), parents |-> <<1>>]]}

\* emit: some copies of r are stored now and perhaps one later.  The answer is
\* "ok" with the id of a stored row, "noId" (an ack whose entity has no id) or
\* "error" (refused, timed out, disconnected).
emit(r, answer, id) ==
  \E now \in 0..2, later \in SUBSET {r} :
    LET copies == now + Cardinality(later)
        acked == IF answer = "error" THEN 0 ELSE 1
    IN
    /\ now > 0 => Storable(r)
    /\ acked <= now /\ copies <= 2
    /\ surplus' = surplus + copies - acked
    /\ surplus' <= MaxSurplus
    /\ rows' = rows \cup {[id |-> Cardinality(rows) + n, of |-> r] : n \in 1..now}
    /\ late' = late \cup later
    /\ id = IF answer = "ok" THEN Cardinality(rows) + now ELSE None

Answer == {"ok", "noId", "error"}

\* A late copy is stored, or lost with its socket.
LateCopy(r) ==
  /\ r \in late
  /\ late' = late \ {r}
  /\ \/ Storable(r) /\ rows' = rows \cup {[id |-> Cardinality(rows) + 1, of |-> r]}
     \/ UNCHANGED rows
  /\ UNCHANGED <<handlerVars, surplus>>
-----------------------------------------------------------------------------
(* The handler.                                                            *)

Init ==
  /\ in \in Batch
  /\ phase = "validate"
  /\ i = 1 /\ j = 0
  /\ tableIDs = NoId
  /\ columnIDs = [n \in Name |-> NoId]
  /\ created = <<>> /\ failed = <<>>
  /\ rows = Existing
  /\ late = {}
  /\ surplus = 0

Created(item, id) ==
  /\ created' = Append(created, [item |-> item, id |-> id])
  /\ UNCHANGED failed

Failed(item, kind, index) ==
  /\ failed' = Append(failed, [kind |-> kind, index |-> index, item |-> item])
  /\ UNCHANGED created

Refuse ==
  /\ phase = "validate"
  /\ phase' = "refused"
  /\ UNCHANGED <<in, i, j, tableIDs, columnIDs, created, failed, rows, late, surplus>>

\* The input is valid, the whiteboard exists and the caller may edit it; the
\* role is not looked at again.
Accept ==
  /\ phase = "validate"
  /\ Valid(in)
  /\ phase' = "tables"
  /\ UNCHANGED <<in, i, j, tableIDs, columnIDs, created, failed, rows, late, surplus>>

CreateTableWithoutId(answer, id) ==
  LET name == in.tables[i].name IN
  /\ phase = "tables" /\ i <= Len(in.tables) /\ j = 0
  /\ emit(TableRow(i), answer, id)
  /\ \/ /\ answer # "error"
        /\ tableIDs' = [tableIDs EXCEPT ![name] = id]
        /\ columnIDs' = [columnIDs EXCEPT ![name] = NoId]
        /\ Created(Item("tables", i, 0), id)
        /\ j' = 1 /\ UNCHANGED i
     \/ /\ answer = "error"
        /\ Failed(Item("tables", i, 0), "table", i - 1)
        /\ i' = i + 1
        /\ UNCHANGED <<j, tableIDs, columnIDs>>
  /\ UNCHANGED <<in, phase>>

CreateTableFallsThrough(answer, id) ==
  LET name == in.tables[i].name IN
  /\ phase = "tables" /\ i <= Len(in.tables) /\ j = 0
  /\ emit(TableRow(i), answer, id)
  /\ \/ /\ id # None
        /\ tableIDs' = [tableIDs EXCEPT ![name] = id]
        /\ Created(Item("tables", i, 0), id)
     \/ /\ id = None
        /\ tableIDs' = [tableIDs EXCEPT ![name] =
                          IF i > 1 THEN tableIDs[in.tables[i - 1].name] ELSE None]
        /\ Failed(Item("tables", i, 0), "table", i - 1)
  /\ columnIDs' = [columnIDs EXCEPT ![name] = NoId]
  /\ j' = 1 /\ UNCHANGED i
  /\ UNCHANGED <<in, phase>>

\* A table that was not created takes its inline columns with it: the loop goes
\* on with the next table.
CreateTable(answer, id) ==
  LET name == in.tables[i].name IN
  /\ phase = "tables" /\ i <= Len(in.tables) /\ j = 0
  /\ emit(TableRow(i), answer, id)
  /\ \/ /\ id # None
        /\ tableIDs' = [tableIDs EXCEPT ![name] = id]
        /\ columnIDs' = [columnIDs EXCEPT ![name] = NoId]
        /\ Created(Item("tables", i, 0), id)
        /\ j' = 1 /\ UNCHANGED i
     \/ /\ id = None
        /\ Failed(Item("tables", i, 0), "table", i - 1)
        /\ i' = i + 1
        /\ UNCHANGED <<j, tableIDs, columnIDs>>
  /\ UNCHANGED <<in, phase>>

CreateInlineColumnOrBreak(answer, id) ==
  LET table == in.tables[i]
      item == Item("tables", i, j)
  IN
  /\ phase = "tables" /\ i <= Len(in.tables) /\ j \in 1..Len(table.columns)
  /\ emit(ColumnRow(item, tableIDs[table.name]), answer, id)
  /\ \/ /\ id # None
        /\ columnIDs' = [columnIDs EXCEPT ![table.name][table.columns[j]] = id]
        /\ Created(item, id)
        /\ j' = j + 1
     \/ /\ id = None
        /\ Failed(item, "column", j - 1)
        /\ j' = Len(table.columns) + 1
        /\ UNCHANGED columnIDs
  /\ UNCHANGED <<in, phase, i, tableIDs>>

CreateInlineColumn(answer, id) ==
  LET table == in.tables[i]
      item == Item("tables", i, j)
  IN
  /\ phase = "tables" /\ i <= Len(in.tables) /\ j \in 1..Len(table.columns)
  /\ emit(ColumnRow(item, tableIDs[table.name]), answer, id)
  /\ \/ /\ id # None
        /\ columnIDs' = [columnIDs EXCEPT ![table.name][table.columns[j]] = id]
        /\ Created(item, id)
     \/ /\ id = None
        /\ Failed(item, "column", j - 1)
        /\ UNCHANGED columnIDs
  /\ j' = j + 1
  /\ UNCHANGED <<in, phase, i, tableIDs>>

NextTable ==
  /\ phase = "tables" /\ i <= Len(in.tables) /\ j > Len(in.tables[i].columns)
  /\ i' = i + 1 /\ j' = 0
  /\ UNCHANGED <<in, phase, tableIDs, columnIDs, created, failed, rows, late, surplus>>

AddColumn(answer, id) ==
  LET item == Item("addColumns", i, 0) IN
  /\ phase = "addColumns" /\ i <= Len(in.addColumns)
  /\ emit(ColumnRow(item, in.addColumns[i].table), answer, id)
  /\ \/ id # None /\ Created(item, id)
     \/ id = None /\ Failed(item, "column", i - 1)
  /\ i' = i + 1
  /\ UNCHANGED <<in, phase, j, tableIDs, columnIDs>>

\* resolveEndpoint, after validation: NOT_FOUND is a None in the result.
resolveEndpoint(e) ==
  IF e.tableId # None THEN <<e.tableId, e.columnId>>
  ELSE LET tid == tableIDs[e.tableName] IN
       <<tid, IF tid = None THEN None
              ELSE IF e.columnId # None THEN e.columnId
              ELSE columnIDs[e.tableName][e.columnName]>>

CreateRelation(answer, id) ==
  LET spec == in.relations[i]
      item == Item("relations", i, 0)
      ends == resolveEndpoint(spec.source) \o resolveEndpoint(spec.target)
  IN
  /\ phase = "relations" /\ i <= Len(in.relations)
  /\ \/ /\ \E p \in 1..4 : ends[p] = None
        /\ answer = "error" /\ id = None
        /\ UNCHANGED <<rows, late, surplus>>
     \/ /\ \A p \in 1..4 : ends[p] # None
        /\ emit(RelationRow(i, ends), answer, id)
  /\ \/ id # None /\ Created(item, id)
     \/ id = None /\ Failed(item, "relation", i - 1)
  /\ i' = i + 1
  /\ UNCHANGED <<in, phase, j, tableIDs, columnIDs>>

NextPhase ==
  /\ \/ phase = "tables" /\ i > Len(in.tables) /\ phase' = "addColumns"
     \/ phase = "addColumns" /\ i > Len(in.addColumns) /\ phase' = "relations"
     \/ phase = "relations" /\ i > Len(in.relations) /\ phase' = "done"
  /\ i' = 1 /\ j' = 0
  /\ UNCHANGED <<in, tableIDs, columnIDs, created, failed, rows, late, surplus>>

\* The ids the server has given out or gives out next.
Id == 1..(Cardinality(rows) + 2)

HandlerStep ==
  \/ Refuse \/ Accept \/ NextTable \/ NextPhase
  \/ \E answer \in Answer, id \in Id \cup {None} :
       \/ CreateTable(answer, id) \/ CreateInlineColumn(answer, id)
       \/ AddColumn(answer, id) \/ CreateRelation(answer, id)

Next == HandlerStep \/ \E r \in late : LateCopy(r)

Spec == Init /\ [][Next]_vars
-----------------------------------------------------------------------------
(* Properties.                                                             *)

TypeOK ==
  /\ in \in Batch
  /\ phase \in {"validate", "tables", "addColumns", "relations", "done", "refused"}
  /\ i \in Nat \ {0} /\ j \in Nat
  /\ tableIDs \in [Name -> Nat \cup {None}]
  /\ columnIDs \in [Name -> [Name -> Nat \cup {None}]]
  /\ \A n \in DOMAIN created : created[n].item \in Items(in) /\ created[n].id \in Nat
  /\ \A n \in DOMAIN failed : failed[n].item \in Items(in) /\ failed[n].index \in Nat
  /\ \A r \in rows \ Existing : r.id \in Nat /\ r.of.item \in Items(in)
  /\ \A r \in late : r.item \in Items(in)
  /\ surplus \in 0..MaxSurplus

\* How often the result lists an item.
Listed(item) ==
  Cardinality({n \in DOMAIN created : created[n].item = item})
    + Cardinality({n \in DOMAIN failed : failed[n].item = item})

IsCreated(item) == \E n \in DOMAIN created : created[n].item = item

Inline(item) == item.array = "tables" /\ item.j > 0

\* The result lists every item once, as created or as failed, but for the inline
\* columns of a table that was not created, which it does not list at all.
EveryItemAccounted ==
  phase = "done" =>
    \A item \in Items(in) :
      Listed(item) =
        IF Inline(item) /\ ~IsCreated([item EXCEPT !.j = 0]) THEN 0 ELSE 1

\* The result lists the table of an inline column, under the id its row refers to.
TableListed(r) ==
  \E n \in DOMAIN created :
    created[n] = [item |-> Item("tables", r.item.i, 0), id |-> r.parents[1]]

\* Whatever is lost, late or stored twice, an inline column is only stored in the
\* table that the result lists for it, and so never for a table listed as failed.
InlineColumnsInListedTable ==
  \A r \in rows : Inline(r.of.item) => TableListed(r.of)

\* What the result lists as created is stored, under that id, for that item.
CreatedIsStored ==
  \A n \in DOMAIN created :
    \E r \in rows : r.id = created[n].id /\ r.of.item = created[n].item

\* The end <<t, c>> of a stored relation is the one its spec names: the one table
\* of the batch with that name, and a column with that name of the same table.
Names(e, t, c) ==
  /\ e.tableName # None =>
       \E n \in DOMAIN created :
         LET item == created[n].item IN
         /\ created[n].id = t
         /\ {m \in DOMAIN in.tables : in.tables[m].name = e.tableName} = {item.i}
         /\ item = Item("tables", item.i, 0)
  /\ e.columnName # None =>
       \E n \in DOMAIN created :
         LET item == created[n].item IN
         /\ created[n].id = c
         /\ Inline(item)
         /\ in.tables[item.i].name = e.tableName
         /\ in.tables[item.i].columns[item.j] = e.columnName

\* No stored relation, late or twice as it may be, joins anything but what its
\* spec names (resolveEndpoint and the name index).
RelationsJoinNamedEnds ==
  \A r \in rows : r.of.kind = "relation" =>
    LET spec == in.relations[r.of.item.i]
        p == r.of.parents
    IN  Names(spec.source, p[1], p[2]) /\ Names(spec.target, p[3], p[4])

\* While the columns of a table are created, the name index holds the id that the
\* result lists for the table.
CurrentTableListed ==
  phase = "tables" /\ i <= Len(in.tables) /\ j # 0 =>
    \E n \in DOMAIN created :
      created[n] = [item |-> Item("tables", i, 0), id |-> tableIDs[in.tables[i].name]]

LateColumnsInListedTable ==
  \A r \in late : Inline(r.item) => TableListed(r)

\* The handler starts with the first table itself.
StartsAtTable == phase = "validate" => j = 0

AnyItem == [array : {"tables", "addColumns", "relations"}, i : Nat, j : Nat]

StateTypes ==
  /\ in \in Batch
  /\ i \in Nat \ {0} /\ j \in Nat
  /\ tableIDs \in [Name -> Nat \cup {None}]
  /\ created \in Seq([item : AnyItem, id : Nat])

\* The inductive strengthening of InlineColumnsInListedTable.
ColumnInv ==
  /\ StateTypes /\ StartsAtTable /\ CurrentTableListed
  /\ LateColumnsInListedTable /\ InlineColumnsInListedTable
=============================================================================
