-------------------------- MODULE BatchUpdateProofs --------------------------
(***************************************************************************)
(* Proofs about BatchUpdate, for any inputs, names and number of surplus   *)
(* copies.  The first invariant is ColumnInv: what is on the wire keeps to *)
(* the listed tables as well as what is stored, and so does the name index *)
(* while the columns of a table are created.  The second, JoinInv, adds    *)
(* that the whole index holds listed ids, so that what a name resolves to  *)
(* is what the result lists under it.  The third, AccountInv, says which   *)
(* items the result lists before the loops are over.                       *)
(***************************************************************************)
EXTENDS BatchUpdate, FiniteSetTheorems, SequenceTheorems, TLAPS

\* What appending an element does to a list.
LEMMA Appended ==
  ASSUME NEW T, NEW s \in Seq(T), NEW e \in T, NEW t, t = Append(s, e)
  PROVE  /\ t \in Seq(T)
         /\ \A n \in DOMAIN s : n \in DOMAIN t /\ t[n] = s[n]
         /\ \A n \in DOMAIN t : n \in DOMAIN s \/ t[n] = e
         /\ \E n \in DOMAIN t : t[n] = e
<1>1. t \in Seq(T) /\ Len(t) = Len(s) + 1 /\ Len(s) \in Nat
  OBVIOUS
<1>2. (\A n \in 1..Len(s) : t[n] = s[n]) /\ t[Len(s) + 1] = e
  OBVIOUS
<1>3. DOMAIN s = 1..Len(s) /\ DOMAIN t = 1..Len(t)
  BY <1>1
<1>. QED
  BY <1>1, <1>2, <1>3

\* The handler lists what it has created by appending: what is listed stays so.
LEMMA StaysListed ==
  ASSUME StateTypes, NEW item \in AnyItem, NEW id \in Nat,
         Created(item, id)
  PROVE  /\ created' \in Seq([item : AnyItem, id : Nat])
         /\ \A n \in DOMAIN created : n \in DOMAIN created' /\ created'[n] = created[n]
         /\ \A n \in DOMAIN created' :
              n \in DOMAIN created \/ created'[n] = [item |-> item, id |-> id]
         /\ \E n \in DOMAIN created' : created'[n] = [item |-> item, id |-> id]
<1> DEFINE T == [item : AnyItem, id : Nat]
           e == [item |-> item, id |-> id]
<1>1. created \in Seq(T) /\ e \in T /\ created' = Append(created, e)
  BY DEF StateTypes, Created
<1>. HIDE DEF T, e
<1>2. /\ created' \in Seq(T)
      /\ \A n \in DOMAIN created : n \in DOMAIN created' /\ created'[n] = created[n]
      /\ \A n \in DOMAIN created' : n \in DOMAIN created \/ created'[n] = e
      /\ \E n \in DOMAIN created' : created'[n] = e
  BY <1>1, Appended
<1>. QED
  BY <1>2 DEF T, e

\* Whatever the answer, the rows stored and the copies left on the wire are copies
\* of what was emitted; an answer that names a row names it by a number.
LEMMA EmittedRows ==
  ASSUME NEW r, NEW answer, NEW id, emit(r, answer, id)
  PROVE  /\ \A s \in rows' : s \in rows \/ s.of = r
         /\ \A s \in late' : s \in late \/ s = r
BY DEF emit

\* A row of a table, an added column or a relation is no inline column.
LEMMA OtherRows ==
  /\ \A m : ~Inline(TableRow(m).item)
  /\ \A m, ends : ~Inline(RelationRow(m, ends).item)
  /\ \A m, table : ~Inline(ColumnRow(Item("addColumns", m, 0), table).item)
BY DEF Inline, TableRow, RelationRow, ColumnRow, Item

\* The two conjuncts about rows survive a step that emits r, lists no less than
\* before, and lists the table of r if r is an inline column.
LEMMA RowsKept ==
  ASSUME ColumnInv, NEW r, NEW answer, NEW id, emit(r, answer, id),
         \A n \in DOMAIN created : n \in DOMAIN created' /\ created'[n] = created[n],
         Inline(r.item) => TableListed(r)
  PROVE  LateColumnsInListedTable' /\ InlineColumnsInListedTable'
<1>1. \A s : TableListed(s) => TableListed(s)'
  BY DEF TableListed
<1>2. /\ \A s \in rows' : s \in rows \/ s.of = r
      /\ \A s \in late' : s \in late \/ s = r
  BY EmittedRows
<1>. QED
  BY <1>1, <1>2
  DEF ColumnInv, LateColumnsInListedTable, InlineColumnsInListedTable, Inline

\* A step that leaves the lists, the rows and the wire alone.
LEMMA RowsUntouched ==
  ASSUME ColumnInv, UNCHANGED <<created, rows, late>>
  PROVE  LateColumnsInListedTable' /\ InlineColumnsInListedTable'
BY DEF ColumnInv, LateColumnsInListedTable, InlineColumnsInListedTable, TableListed

\* After an answer the handler lists the item as created or as failed.
LEMMA ListsTyped ==
  ASSUME StateTypes, NEW item \in AnyItem, NEW id,
         NEW kind, NEW index,
         \/ id \in Nat /\ Created(item, id)
         \/ Failed(item, kind, index)
  PROVE  /\ created' \in Seq([item : AnyItem, id : Nat])
         /\ \A n \in DOMAIN created : n \in DOMAIN created' /\ created'[n] = created[n]
<1>1. CASE id \in Nat /\ Created(item, id)
  BY <1>1, StaysListed
<1>2. CASE Failed(item, kind, index)
  BY <1>2 DEF Failed, StateTypes
<1>. QED
  BY <1>1, <1>2

\* The tables of an input have names.
LEMMA NamesOfInput ==
  ASSUME StateTypes, NEW m \in 1..Len(in.tables)
  PROVE  in.tables[m].name \in Name
<1>. DEFINE R == [name : Name, columns : Seq(Name)]
<1>1. in.tables \in Seq(R)
  BY BatchAssumption DEF StateTypes
<1>. HIDE DEF R
<1>2. in.tables[m] \in R
  BY <1>1
<1>. QED
  BY <1>2 DEF R

LEMMA IdsAreNumbers ==
  ASSUME NEW id \in Id \cup {None}, id # None
  PROVE  id \in Nat
BY DEF Id
-----------------------------------------------------------------------------
LEMMA StepKeepsColumns ==
  ASSUME ColumnInv, [Next]_vars
  PROVE  ColumnInv'
<1>. USE NoneAssumption
<1>t. StateTypes
  BY DEF ColumnInv
<1>m. StartsAtTable /\ CurrentTableListed
  BY DEF ColumnInv
<1>1. CASE Refuse
  <2>1. UNCHANGED <<created, rows, late>>
    BY <1>1 DEF Refuse
  <2>2. StateTypes' /\ StartsAtTable' /\ CurrentTableListed'
    BY <1>1, <1>t, <1>m DEF Refuse, StateTypes, StartsAtTable, CurrentTableListed
  <2>. QED
    BY <2>1, <2>2, RowsUntouched DEF ColumnInv
<1>2. CASE Accept
  <2>1. UNCHANGED <<created, rows, late>>
    BY <1>2 DEF Accept
  <2>2. StateTypes' /\ StartsAtTable' /\ CurrentTableListed'
    BY <1>2, <1>t, <1>m DEF Accept, StateTypes, StartsAtTable, CurrentTableListed
  <2>. QED
    BY <2>1, <2>2, RowsUntouched DEF ColumnInv
<1>3. CASE NextTable
  <2>1. UNCHANGED <<created, rows, late>>
    BY <1>3 DEF NextTable
  <2>2. StateTypes' /\ StartsAtTable' /\ CurrentTableListed'
    BY <1>3, <1>t, <1>m DEF NextTable, StateTypes, StartsAtTable, CurrentTableListed
  <2>. QED
    BY <2>1, <2>2, RowsUntouched DEF ColumnInv
<1>4. CASE NextPhase
  <2>1. UNCHANGED <<created, rows, late>>
    BY <1>4 DEF NextPhase
  <2>2. StateTypes' /\ StartsAtTable' /\ CurrentTableListed'
    BY <1>4, <1>t, <1>m DEF NextPhase, StateTypes, StartsAtTable, CurrentTableListed
  <2>. QED
    BY <2>1, <2>2, RowsUntouched DEF ColumnInv
<1>5. ASSUME NEW answer \in Answer, NEW id \in Id \cup {None}, CreateTable(answer, id)
      PROVE  ColumnInv'
  <2> DEFINE item == Item("tables", i, 0)
  <2>0. Len(in.tables) \in Nat
    BY <1>t, BatchAssumption DEF StateTypes
  <2>1. /\ item \in AnyItem
        /\ i \in 1..Len(in.tables)
    BY <1>5, <1>t, <2>0 DEF CreateTable, Item, AnyItem, StateTypes
  <2>2. in.tables[i].name \in Name
    BY <2>1, <1>t, NamesOfInput
  <2>3. emit(TableRow(i), answer, id) /\ in' = in /\ phase' = phase
    BY <1>5 DEF CreateTable
  <2>4. CASE id # None
    <3>1. id \in Nat
      BY <2>4, IdsAreNumbers
    <3>2. /\ tableIDs' = [tableIDs EXCEPT ![in.tables[i].name] = id]
          /\ Created(item, id) /\ j' = 1 /\ i' = i
      BY <1>5, <2>4 DEF CreateTable
    <3>3. /\ created' \in Seq([item : AnyItem, id : Nat])
          /\ \A n \in DOMAIN created : n \in DOMAIN created' /\ created'[n] = created[n]
          /\ \E n \in DOMAIN created' : created'[n] = [item |-> item, id |-> id]
      BY <1>t, <2>1, <3>1, <3>2, StaysListed
    <3>4. StateTypes' /\ StartsAtTable'
      BY <1>5, <1>t, <2>3, <3>1, <3>2, <3>3 DEF CreateTable, StateTypes, StartsAtTable
    <3>5. tableIDs'[in'.tables[i'].name] = id
      BY <1>t, <2>2, <2>3, <3>2 DEF StateTypes
    <3>6. CurrentTableListed'
      BY <3>2, <3>3, <3>5 DEF CurrentTableListed
    <3>7. LateColumnsInListedTable' /\ InlineColumnsInListedTable'
      BY <2>3, <3>3, OtherRows, RowsKept
    <3>. QED
      BY <3>4, <3>6, <3>7 DEF ColumnInv
  <2>5. CASE id = None
    <3>1. Failed(item, "table", i - 1) /\ i' = i + 1 /\ UNCHANGED <<j, tableIDs>> /\ j = 0
      BY <1>5, <2>5 DEF CreateTable
    <3>2. StateTypes' /\ StartsAtTable' /\ CurrentTableListed'
      BY <1>t, <2>3, <3>1 DEF Failed, StateTypes, StartsAtTable, CurrentTableListed
    <3>3. LateColumnsInListedTable' /\ InlineColumnsInListedTable'
      BY <2>3, <3>1, OtherRows, RowsKept DEF Failed
    <3>. QED
      BY <3>2, <3>3 DEF ColumnInv
  <2>. QED
    BY <2>4, <2>5
<1>6. ASSUME NEW answer \in Answer, NEW id \in Id \cup {None}, CreateInlineColumn(answer, id)
      PROVE  ColumnInv'
  <2> DEFINE item == Item("tables", i, j)
             table == tableIDs[in.tables[i].name]
  <2>1. /\ phase = "tables" /\ i <= Len(in.tables) /\ j # 0
        /\ emit(ColumnRow(item, table), answer, id)
        /\ j' = j + 1 /\ UNCHANGED <<in, phase, i, tableIDs>>
        /\ \/ id # None /\ Created(item, id)
           \/ id = None /\ Failed(item, "column", j - 1)
    BY <1>6, <1>t DEF CreateInlineColumn, StateTypes
  <2>2. item \in AnyItem
    BY <1>t DEF StateTypes, Item, AnyItem
  <2>3. /\ created' \in Seq([item : AnyItem, id : Nat])
        /\ \A n \in DOMAIN created : n \in DOMAIN created' /\ created'[n] = created[n]
    BY <1>t, <2>1, <2>2, IdsAreNumbers, ListsTyped
  <2>4. StateTypes' /\ StartsAtTable'
    BY <1>t, <2>1, <2>3 DEF StateTypes, StartsAtTable
  <2>5. CurrentTableListed'
    BY <2>1, <2>3 DEF ColumnInv, CurrentTableListed
  <2>6. TableListed(ColumnRow(item, table))
    BY <2>1 DEF ColumnInv, CurrentTableListed, TableListed, ColumnRow, Item
  <2>7. LateColumnsInListedTable' /\ InlineColumnsInListedTable'
    BY <2>1, <2>3, <2>6, RowsKept
  <2>. QED
    BY <2>4, <2>5, <2>7 DEF ColumnInv
<1>7. ASSUME NEW answer \in Answer, NEW id \in Id \cup {None}, AddColumn(answer, id)
      PROVE  ColumnInv'
  <2> DEFINE item == Item("addColumns", i, 0)
  <2>1. /\ phase = "addColumns"
        /\ emit(ColumnRow(item, in.addColumns[i].table), answer, id)
        /\ i' = i + 1 /\ UNCHANGED <<in, phase, j, tableIDs>>
        /\ \/ id # None /\ Created(item, id)
           \/ id = None /\ Failed(item, "column", i - 1)
    BY <1>7 DEF AddColumn
  <2>2. item \in AnyItem
    BY <1>t DEF StateTypes, Item, AnyItem
  <2>3. /\ created' \in Seq([item : AnyItem, id : Nat])
        /\ \A n \in DOMAIN created : n \in DOMAIN created' /\ created'[n] = created[n]
    BY <1>t, <2>1, <2>2, IdsAreNumbers, ListsTyped
  <2>4. StateTypes' /\ StartsAtTable' /\ CurrentTableListed'
    BY <1>t, <2>1, <2>3 DEF StateTypes, StartsAtTable, CurrentTableListed
  <2>5. LateColumnsInListedTable' /\ InlineColumnsInListedTable'
    BY <2>1, <2>3, OtherRows, RowsKept
  <2>. QED
    BY <2>4, <2>5 DEF ColumnInv
<1>8. ASSUME NEW answer \in Answer, NEW id \in Id \cup {None}, CreateRelation(answer, id)
      PROVE  ColumnInv'
  <2> DEFINE item == Item("relations", i, 0)
  <2>1. /\ phase = "relations"
        /\ i' = i + 1 /\ UNCHANGED <<in, phase, j, tableIDs>>
        /\ \/ id # None /\ Created(item, id)
           \/ id = None /\ Failed(item, "relation", i - 1)
    BY <1>8 DEF CreateRelation
  <2>2. item \in AnyItem
    BY <1>t DEF StateTypes, Item, AnyItem
  <2>3. /\ created' \in Seq([item : AnyItem, id : Nat])
        /\ \A n \in DOMAIN created : n \in DOMAIN created' /\ created'[n] = created[n]
    BY <1>t, <2>1, <2>2, IdsAreNumbers, ListsTyped
  <2>4. StateTypes' /\ StartsAtTable' /\ CurrentTableListed'
    BY <1>t, <2>1, <2>3 DEF StateTypes, StartsAtTable, CurrentTableListed
  <2>5. \/ id = None /\ UNCHANGED <<rows, late>>
        \/ \E ends : emit(RelationRow(i, ends), answer, id)
    BY <1>8 DEF CreateRelation
  <2>6. CASE id = None /\ UNCHANGED <<rows, late>>
    <3>1. UNCHANGED <<created, rows, late>>
      BY <2>1, <2>6 DEF Failed
    <3>. QED
      BY <2>4, <3>1, RowsUntouched DEF ColumnInv
  <2>7. CASE \E ends : emit(RelationRow(i, ends), answer, id)
    <3>1. PICK ends : emit(RelationRow(i, ends), answer, id)
      BY <2>7
    <3>2. LateColumnsInListedTable' /\ InlineColumnsInListedTable'
      BY <2>3, <3>1, OtherRows, RowsKept
    <3>. QED
      BY <2>4, <3>2 DEF ColumnInv
  <2>. QED
    BY <2>5, <2>6, <2>7
<1>9. ASSUME NEW r \in late, LateCopy(r)
      PROVE  ColumnInv'
  <2>1. /\ UNCHANGED handlerVars /\ late' \subseteq late
        /\ \A s \in rows' : s \in rows \/ s.of = r
    BY <1>9 DEF LateCopy
  <2>2. StateTypes' /\ StartsAtTable' /\ CurrentTableListed'
    BY <1>t, <1>m, <2>1 DEF StateTypes, StartsAtTable, CurrentTableListed, handlerVars
  <2>3. LateColumnsInListedTable' /\ InlineColumnsInListedTable'
    BY <2>1 DEF ColumnInv, LateColumnsInListedTable, InlineColumnsInListedTable, TableListed,
       Inline, handlerVars
  <2>. QED
    BY <2>2, <2>3 DEF ColumnInv
<1>10. CASE UNCHANGED vars
  <2>1. UNCHANGED <<created, rows, late>>
    BY <1>10 DEF vars, handlerVars
  <2>2. StateTypes' /\ StartsAtTable' /\ CurrentTableListed'
    BY <1>10, <1>t, <1>m DEF vars, handlerVars, StateTypes, StartsAtTable, CurrentTableListed
  <2>. QED
    BY <2>1, <2>2, RowsUntouched DEF ColumnInv
<1>. QED
  BY <1>1, <1>2, <1>3, <1>4, <1>5, <1>6, <1>7, <1>8, <1>9, <1>10 DEF Next, HandlerStep

LEMMA InitColumns ==
  ASSUME Init
  PROVE  ColumnInv
<1>1. StateTypes
  BY DEF Init, StateTypes, NoId
<1>2. StartsAtTable /\ CurrentTableListed /\ LateColumnsInListedTable
  BY DEF Init, StartsAtTable, CurrentTableListed, LateColumnsInListedTable
<1>3. InlineColumnsInListedTable
  BY DEF Init, InlineColumnsInListedTable, Existing, Inline, Item
<1>. QED
  BY <1>1, <1>2, <1>3 DEF ColumnInv

\* Inline columns are only ever stored in the table that the result lists for them
\* (the continue in executeBatchSchema's loop over the tables).
THEOREM ColumnsFollowTheirTable == Spec => []InlineColumnsInListedTable
<1>1. Init => ColumnInv
  BY InitColumns
<1>2. ColumnInv /\ [Next]_vars => ColumnInv'
  BY StepKeepsColumns
<1>3. ColumnInv => InlineColumnsInListedTable
  BY DEF ColumnInv
<1>. QED
  BY <1>1, <1>2, <1>3, PTL DEF Spec
-----------------------------------------------------------------------------
\* Every name in the index stands for an id that the result lists, under an item of
\* that name.
IndexListed ==
  \A name \in Name :
    /\ tableIDs[name] # None =>
         \E k \in DOMAIN created : \E m \in DOMAIN in.tables :
           /\ created[k] = [item |-> Item("tables", m, 0), id |-> tableIDs[name]]
           /\ in.tables[m].name = name
    /\ \A c \in Name : columnIDs[name][c] # None =>
         \E k \in DOMAIN created : \E m \in DOMAIN in.tables :
           \E q \in DOMAIN in.tables[m].columns :
             /\ created[k] = [item |-> Item("tables", m, q), id |-> columnIDs[name][c]]
             /\ in.tables[m].name = name /\ in.tables[m].columns[q] = c

OnlyValidRuns == phase \notin {"validate", "refused"} => Valid(in)

\* What RelationsJoinNamedEnds says of one row.
Joins(r) ==
  r.kind = "relation" =>
    LET spec == in.relations[r.item.i]
    IN  /\ Names(spec.source, r.parents[1], r.parents[2])
        /\ Names(spec.target, r.parents[3], r.parents[4])

RowsJoin == (\A r \in rows : Joins(r.of)) /\ (\A r \in late : Joins(r))

Failure == [kind : {"table", "column", "relation"}, index : Nat, item : AnyItem]

JoinInv ==
  /\ ColumnInv /\ TypeOK /\ IsFiniteSet(rows) /\ failed \in Seq(Failure)
  /\ IndexListed /\ OnlyValidRuns /\ RowsJoin /\ CreatedIsStored

\* The parts of an input.
LEMMA InputParts ==
  ASSUME NEW b \in Batch
  PROVE  /\ Len(b.tables) \in Nat /\ DOMAIN b.tables = 1..Len(b.tables)
         /\ Len(b.addColumns) \in Nat /\ DOMAIN b.addColumns = 1..Len(b.addColumns)
         /\ Len(b.relations) \in Nat /\ DOMAIN b.relations = 1..Len(b.relations)
         /\ \A m \in DOMAIN b.tables :
              /\ b.tables[m].name \in Name
              /\ Len(b.tables[m].columns) \in Nat
              /\ DOMAIN b.tables[m].columns = 1..Len(b.tables[m].columns)
              /\ \A n \in DOMAIN b.tables[m].columns : b.tables[m].columns[n] \in Name
         /\ \A m \in DOMAIN b.relations :
              b.relations[m].source \in End /\ b.relations[m].target \in End
<1> DEFINE T == [name : Name, columns : Seq(Name)]
           R == [source : End, target : End]
<1>1. /\ b.tables \in Seq(T) /\ b.relations \in Seq(R)
      /\ b.addColumns \in Seq([table : Nat, name : Name])
  BY BatchAssumption
<1> HIDE DEF T, R
<1>2. \A m \in DOMAIN b.tables : b.tables[m] \in T
  BY <1>1
<1>3. \A m \in DOMAIN b.relations : b.relations[m].source \in End /\ b.relations[m].target \in End
  <2>1. \A m \in DOMAIN b.relations : b.relations[m] \in R
    BY <1>1
  <2> QED BY <2>1 DEF R
<1>4. ASSUME NEW m \in DOMAIN b.tables
      PROVE  /\ b.tables[m].name \in Name
             /\ Len(b.tables[m].columns) \in Nat
             /\ DOMAIN b.tables[m].columns = 1..Len(b.tables[m].columns)
             /\ \A n \in DOMAIN b.tables[m].columns : b.tables[m].columns[n] \in Name
  <2>1. b.tables[m].name \in Name /\ b.tables[m].columns \in Seq(Name)
    BY <1>2 DEF T
  <2> QED BY <2>1
<1>5. /\ Len(b.tables) \in Nat /\ DOMAIN b.tables = 1..Len(b.tables)
      /\ Len(b.addColumns) \in Nat /\ DOMAIN b.addColumns = 1..Len(b.addColumns)
      /\ Len(b.relations) \in Nat /\ DOMAIN b.relations = 1..Len(b.relations)
  BY <1>1
<1> QED BY <1>3, <1>4, <1>5

\* What one write leaves behind.
LEMMA Emitted ==
  ASSUME TypeOK, IsFiniteSet(rows), NEW r, r.item \in Items(in), NEW answer, NEW id,
         emit(r, answer, id)
  PROVE  /\ rows \subseteq rows'
         /\ IsFiniteSet(rows')
         /\ \A s \in rows' \ rows : s.id \in Nat /\ s.of = r
         /\ \A s \in late' : s \in late \/ s = r
         /\ surplus' \in 0..MaxSurplus
         /\ id # None => \E s \in rows' : s.id = id /\ s.of = r
<1>1. PICK now \in 0..2, later \in SUBSET {r} :
        LET copies == now + Cardinality(later)
            acked == IF answer = "error" THEN 0 ELSE 1
        IN  /\ acked <= now
            /\ surplus' = surplus + copies - acked
            /\ surplus' <= MaxSurplus
            /\ rows' = rows \cup {[id |-> Cardinality(rows) + n, of |-> r] : n \in 1..now}
            /\ late' = late \cup later
            /\ id = IF answer = "ok" THEN Cardinality(rows) + now ELSE None
  BY DEF emit
<1> DEFINE c == Cardinality(rows)
           row(n) == [id |-> c + n, of |-> r]
<1>2. c \in Nat
  BY FS_CardinalityType DEF TypeOK
<1>3. Cardinality(later) \in Nat
  BY FS_Singleton, FS_Subset, FS_CardinalityType
<1>4. IsFiniteSet(rows')
  <2>1. CASE now = 0
    <3>1. rows' = rows
      BY <1>1, <2>1
    <3> QED BY <3>1
  <2>2. CASE now = 1
    <3>1. rows' = rows \cup {row(1)}
      BY <1>1, <2>2
    <3> QED BY <3>1, FS_AddElement
  <2>3. CASE now = 2
    <3>1. rows' = (rows \cup {row(1)}) \cup {row(2)}
      BY <1>1, <2>3
    <3> QED BY <3>1, FS_AddElement
  <2> QED BY <2>1, <2>2, <2>3
<1>5. surplus' \in 0..MaxSurplus
  <2>1. surplus \in Nat /\ MaxSurplus \in Int
    BY MaxSurplusAssumption DEF TypeOK
  <2> QED BY <1>1, <1>3, <2>1
<1>6. \A s \in rows' \ rows : s.id \in Nat /\ s.of = r
  BY <1>1, <1>2
<1>7. id # None => \E s \in rows' : s.id = id /\ s.of = r
  <2> SUFFICES ASSUME id # None PROVE row(now) \in rows' /\ id = c + now
    OBVIOUS
  <2>1. answer = "ok" /\ id = c + now /\ now \in 1..now
    BY <1>1
  <2> QED BY <1>1, <2>1
<1> QED BY <1>1, <1>4, <1>5, <1>6, <1>7

\* What is listed stays listed, so a row keeps joining what it joined.
LEMMA JoinsKept ==
  ASSUME in' = in,
         \A n \in DOMAIN created : n \in DOMAIN created' /\ created'[n] = created[n],
         NEW r, Joins(r)
  PROVE  Joins(r)'
<1>1. \A e, t, c : Names(e, t, c) => Names(e, t, c)'
  BY DEF Names
<1> QED BY <1>1 DEF Joins

\* A step that answers for item keeps what is not about the name index or the loops.
Kept(item, id) ==
  /\ \A n \in DOMAIN created : n \in DOMAIN created' /\ created'[n] = created[n]
  /\ \A n \in DOMAIN created' : created'[n].item \in Items(in) /\ created'[n].id \in Nat
  /\ \A n \in DOMAIN failed' : failed'[n].item \in Items(in) /\ failed'[n].index \in Nat
  /\ \A s \in rows' \ Existing : s.id \in Nat /\ s.of.item \in Items(in)
  /\ \A s \in late' : s.item \in Items(in)
  /\ surplus' \in 0..MaxSurplus
  /\ IsFiniteSet(rows') /\ failed' \in Seq(Failure)
  /\ CreatedIsStored' /\ RowsJoin'
  /\ id # None =>
       /\ id \in Nat
       /\ \E n \in DOMAIN created' : created'[n] = [item |-> item, id |-> id]

\* A step that writes at most r, the row of an item, and lists the item as the answer
\* says, keeps every conjunct that is not about the name index or the loops.
LEMMA Answered ==
  ASSUME JoinInv, in' = in, NEW item \in Items(in) \cap AnyItem,
         NEW answer, NEW id \in Id \cup {None}, NEW r, r.item = item, Joins(r),
         NEW kind \in {"table", "column", "relation"}, NEW index \in Nat,
         \/ emit(r, answer, id)
         \/ id = None /\ UNCHANGED <<rows, late, surplus>>,
         \/ id # None /\ Created(item, id)
         \/ id = None /\ Failed(item, kind, index)
  PROVE  Kept(item, id)
<1>t. StateTypes /\ TypeOK
  BY DEF JoinInv, ColumnInv
<1>1. /\ rows \subseteq rows' /\ IsFiniteSet(rows')
      /\ \A s \in rows' \ rows : s.id \in Nat /\ s.of = r
      /\ \A s \in late' : s \in late \/ s = r
      /\ surplus' \in 0..MaxSurplus
      /\ id # None => \E s \in rows' : s.id = id /\ s.of = r
  <2>1. CASE emit(r, answer, id)
    BY <2>1, <1>t, Emitted DEF JoinInv
  <2>2. CASE id = None /\ UNCHANGED <<rows, late, surplus>>
    BY <2>2, <1>t DEF JoinInv, TypeOK
  <2> QED BY <2>1, <2>2
<1>2. id # None => id \in Nat
  BY NoneAssumption DEF Id
<1>3. /\ \A n \in DOMAIN created : n \in DOMAIN created' /\ created'[n] = created[n]
      /\ \A n \in DOMAIN created' :
           \/ n \in DOMAIN created /\ created'[n] = created[n]
           \/ id # None /\ created'[n] = [item |-> item, id |-> id]
      /\ id # None => \E n \in DOMAIN created' : created'[n] = [item |-> item, id |-> id]
  <2>1. CASE id # None /\ Created(item, id)
    BY <2>1, <1>t, <1>2, StaysListed
  <2>2. CASE id = None /\ Failed(item, kind, index)
    BY <2>2 DEF Failed
  <2> QED BY <2>1, <2>2
<1>4. /\ failed' \in Seq(Failure)
      /\ \A n \in DOMAIN failed' :
           \/ n \in DOMAIN failed /\ failed'[n] = failed[n]
           \/ failed'[n].item = item /\ failed'[n].index = index
  <2>1. CASE id # None /\ Created(item, id)
    BY <2>1 DEF Created, JoinInv
  <2>2. CASE id = None /\ Failed(item, kind, index)
    <3> DEFINE e == [kind |-> kind, index |-> index, item |-> item]
    <3>1. e \in Failure
      BY DEF Failure
    <3>2. failed' = Append(failed, e) /\ failed \in Seq(Failure)
      BY <2>2 DEF Failed, JoinInv
    <3>3. e.item = item /\ e.index = index
      OBVIOUS
    <3> HIDE DEF e
    <3> QED BY <3>1, <3>2, <3>3, Appended
  <2> QED BY <2>1, <2>2
<1>5. \A n \in DOMAIN created' : created'[n].item \in Items(in) /\ created'[n].id \in Nat
  BY <1>t, <1>2, <1>3 DEF TypeOK
<1>6. \A n \in DOMAIN failed' : failed'[n].item \in Items(in) /\ failed'[n].index \in Nat
  BY <1>t, <1>4 DEF TypeOK
<1>7. /\ \A s \in rows' \ Existing : s.id \in Nat /\ s.of.item \in Items(in)
      /\ \A s \in late' : s.item \in Items(in)
  BY <1>t, <1>1 DEF TypeOK
<1>8. CreatedIsStored'
  BY <1>1, <1>3 DEF JoinInv, CreatedIsStored
<1>9. RowsJoin'
  <2>1. \A s : Joins(s) => Joins(s)'
    BY <1>3, JoinsKept
  <2> QED BY <1>1, <2>1 DEF JoinInv, RowsJoin
<1> QED BY <1>1, <1>2, <1>3, <1>4, <1>5, <1>6, <1>7, <1>8, <1>9 DEF Kept

\* A step of the handler that sends nothing, lists nothing and leaves the index alone.
LEMMA NothingAnswered ==
  ASSUME JoinInv, UNCHANGED <<in, tableIDs, columnIDs, created, failed, rows, late, surplus>>,
         phase' \in {"validate", "tables", "addColumns", "relations", "done", "refused"},
         i' \in Nat \ {0}, j' \in Nat, OnlyValidRuns', ColumnInv'
  PROVE  JoinInv'
<1>1. TypeOK'
  BY DEF JoinInv, TypeOK
<1>2. IndexListed' /\ CreatedIsStored'
  BY DEF JoinInv, IndexListed, CreatedIsStored
<1>3. RowsJoin'
  <2>1. \A s : Joins(s) => Joins(s)'
    BY JoinsKept
  <2> QED BY <2>1 DEF JoinInv, RowsJoin
<1> QED BY <1>1, <1>2, <1>3 DEF JoinInv

\* What is listed stays listed, so a name the index already knew stays right.
LEMMA IndexKept ==
  ASSUME IndexListed, UNCHANGED <<in, tableIDs, columnIDs>>,
         \A n \in DOMAIN created : n \in DOMAIN created' /\ created'[n] = created[n]
  PROVE  IndexListed'
BY DEF IndexListed

\* An end that resolves joins what it names: a name has one table in a valid input.
LEMMA Resolved ==
  ASSUME JoinInv, Valid(in), NEW e \in End, ValidEndpoint(e),
         resolveEndpoint(e)[1] # None, resolveEndpoint(e)[2] # None
  PROVE  Names(e, resolveEndpoint(e)[1], resolveEndpoint(e)[2])
<1>1. CASE e.tableId # None
  <2>1. e.tableName = None /\ e.columnName = None
    BY <1>1 DEF ValidEndpoint, OneOf
  <2> QED BY <2>1 DEF Names
<1>2. CASE e.tableId = None
  <2> DEFINE tid == tableIDs[e.tableName]
  <2>1. e.tableName \in Name
    BY <1>2 DEF ValidEndpoint, OneOf, End
  <2>2. tid # None /\ resolveEndpoint(e)[1] = tid
    BY <1>2 DEF resolveEndpoint
  <2>3. PICK k \in DOMAIN created, m \in DOMAIN in.tables :
          /\ created[k] = [item |-> Item("tables", m, 0), id |-> tid]
          /\ in.tables[m].name = e.tableName
    BY <2>1, <2>2 DEF JoinInv, IndexListed
  <2>4. \A x \in DOMAIN in.tables, y \in DOMAIN in.tables :
          in.tables[x].name = e.tableName /\ in.tables[y].name = e.tableName => x = y
    BY DEF Valid
  <2>5. {x \in DOMAIN in.tables : in.tables[x].name = e.tableName} = {m}
    BY <2>3, <2>4
  <2>6. \E n \in DOMAIN created :
          LET item == created[n].item IN
          /\ created[n].id = tid
          /\ {x \in DOMAIN in.tables : in.tables[x].name = e.tableName} = {item.i}
          /\ item = Item("tables", item.i, 0)
    BY <2>3, <2>5 DEF Item
  <2>7. ASSUME e.columnName # None
        PROVE  \E n \in DOMAIN created :
                 LET item == created[n].item IN
                 /\ created[n].id = resolveEndpoint(e)[2]
                 /\ Inline(item)
                 /\ in.tables[item.i].name = e.tableName
                 /\ in.tables[item.i].columns[item.j] = e.columnName
    <3>1. e.columnId = None /\ e.columnName \in Name
      BY <2>7 DEF ValidEndpoint, OneOf, End
    <3>2. resolveEndpoint(e)[2] = columnIDs[e.tableName][e.columnName]
      BY <1>2, <2>2, <3>1 DEF resolveEndpoint
    <3>3. PICK n \in DOMAIN created, x \in DOMAIN in.tables :
            \E q \in DOMAIN in.tables[x].columns :
              /\ created[n] = [item |-> Item("tables", x, q), id |-> resolveEndpoint(e)[2]]
              /\ in.tables[x].name = e.tableName /\ in.tables[x].columns[q] = e.columnName
      BY <2>1, <3>1, <3>2 DEF JoinInv, IndexListed
    <3>4. DOMAIN in.tables[x].columns = 1..Len(in.tables[x].columns)
          /\ Len(in.tables[x].columns) \in Nat
      BY InputParts DEF JoinInv, TypeOK
    <3> QED BY <3>3, <3>4 DEF Item, Inline
  <2> QED BY <2>2, <2>6, <2>7 DEF Names
<1> QED BY <1>1, <1>2

LEMMA OtherItems ==
  ASSUME NEW b
  PROVE  /\ \A m \in DOMAIN b.addColumns : Item("addColumns", m, 0) \in Items(b)
         /\ \A m \in DOMAIN b.relations : Item("relations", m, 0) \in Items(b)
<1> DEFINE T == {Item("tables", m, 0) : m \in DOMAIN b.tables}
           I == UNION {{Item("tables", m, n) : n \in DOMAIN b.tables[m].columns} :
                         m \in DOMAIN b.tables}
           A == {Item("addColumns", m, 0) : m \in DOMAIN b.addColumns}
           R == {Item("relations", m, 0) : m \in DOMAIN b.relations}
<1>1. Items(b) = T \cup I \cup A \cup R
  BY DEF Items
<1>2. /\ \A m \in DOMAIN b.addColumns : Item("addColumns", m, 0) \in A
      /\ \A m \in DOMAIN b.relations : Item("relations", m, 0) \in R
  OBVIOUS
<1> HIDE DEF T, I, A, R
<1> QED BY <1>1, <1>2

LEMMA PairsJoined ==
  ASSUME NEW a, NEW b, NEW c, NEW d
  PROVE  LET s == <<a, b>> \o <<c, d>> IN s[1] = a /\ s[2] = b /\ s[3] = c /\ s[4] = d
<1> DEFINE S == {a, b, c, d}
           t == <<a, b>>
           u == <<c, d>>
<1>1. t \in Seq(S) /\ u \in Seq(S) /\ Len(t) = 2 /\ Len(u) = 2
  OBVIOUS
<1>2. t[1] = a /\ t[2] = b /\ u[1] = c /\ u[2] = d
  OBVIOUS
<1> DEFINE w == t \o u
<1> HIDE DEF S, t, u
<1>3. \A n \in 1..(Len(t) + Len(u)) : w[n] = IF n <= Len(t) THEN t[n] ELSE u[n - Len(t)]
  BY <1>1, ConcatProperties
<1> HIDE DEF w
<1>4. \A n \in 1..4 : w[n] = IF n <= 2 THEN t[n] ELSE u[n - 2]
  BY <1>1, <1>3
<1>5. w[1] = t[1] /\ w[2] = t[2] /\ w[3] = u[3 - 2] /\ w[4] = u[4 - 2]
  BY <1>4
<1>6. 3 - 2 = 1 /\ 4 - 2 = 2
  OBVIOUS
<1> QED BY <1>2, <1>5, <1>6 DEF t, u, w

LEMMA StepKeepsJoins ==
  ASSUME JoinInv, [Next]_vars
  PROVE  JoinInv'
<1>. USE NoneAssumption
<1>t. ColumnInv /\ StateTypes /\ TypeOK /\ IndexListed /\ OnlyValidRuns /\ in \in Batch
  BY DEF JoinInv, ColumnInv, TypeOK
<1>c. ColumnInv'
  BY <1>t, StepKeepsColumns
<1>b. /\ Len(in.tables) \in Nat /\ DOMAIN in.tables = 1..Len(in.tables)
      /\ Len(in.addColumns) \in Nat /\ DOMAIN in.addColumns = 1..Len(in.addColumns)
      /\ Len(in.relations) \in Nat /\ DOMAIN in.relations = 1..Len(in.relations)
      /\ \A m \in DOMAIN in.tables :
           /\ in.tables[m].name \in Name
           /\ Len(in.tables[m].columns) \in Nat
           /\ DOMAIN in.tables[m].columns = 1..Len(in.tables[m].columns)
           /\ \A n \in DOMAIN in.tables[m].columns : in.tables[m].columns[n] \in Name
      /\ \A m \in DOMAIN in.relations :
           in.relations[m].source \in End /\ in.relations[m].target \in End
  BY <1>t, InputParts
<1>i. i \in Nat \ {0} /\ j \in Nat
  BY <1>t DEF TypeOK
<1>1. CASE Refuse
  <2>1. UNCHANGED <<in, tableIDs, columnIDs, created, failed, rows, late, surplus>>
        /\ phase' = "refused" /\ UNCHANGED <<i, j>>
    BY <1>1 DEF Refuse
  <2> QED BY <2>1, <1>c, <1>i, NothingAnswered DEF OnlyValidRuns
<1>2. CASE Accept
  <2>1. UNCHANGED <<in, tableIDs, columnIDs, created, failed, rows, late, surplus>>
        /\ phase' = "tables" /\ UNCHANGED <<i, j>> /\ Valid(in)
    BY <1>2 DEF Accept
  <2>2. Valid(in)'
    BY <2>1 DEF Valid
  <2> QED BY <2>1, <2>2, <1>c, <1>i, NothingAnswered DEF OnlyValidRuns
<1>v. ASSUME phase \notin {"validate", "refused"}, in' = in
      PROVE  Valid(in) /\ OnlyValidRuns'
  <2>1. Valid(in)
    BY <1>v, <1>t DEF OnlyValidRuns
  <2>2. Valid(in)'
    BY <1>v, <2>1 DEF Valid
  <2> QED BY <2>1, <2>2 DEF OnlyValidRuns
<1>3. CASE NextTable
  <2>1. UNCHANGED <<in, tableIDs, columnIDs, created, failed, rows, late, surplus>>
        /\ phase = "tables" /\ phase' = "tables" /\ i' = i + 1 /\ j' = 0
    BY <1>3 DEF NextTable
  <2> QED BY <2>1, <1>v, <1>c, <1>i, NothingAnswered
<1>4. CASE NextPhase
  <2>1. UNCHANGED <<in, tableIDs, columnIDs, created, failed, rows, late, surplus>>
        /\ phase \in {"tables", "addColumns", "relations"}
        /\ phase' \in {"addColumns", "relations", "done"} /\ i' = 1 /\ j' = 0
    BY <1>4 DEF NextPhase
  <2> QED BY <2>1, <1>v, <1>c, <1>i, NothingAnswered
<1>5. ASSUME NEW answer \in Answer, NEW id \in Id \cup {None}, CreateTable(answer, id)
      PROVE  JoinInv'
  <2> DEFINE item == Item("tables", i, 0)
             name == in.tables[i].name
  <2>1. /\ phase = "tables" /\ i \in DOMAIN in.tables /\ j = 0 /\ name \in Name
        /\ emit(TableRow(i), answer, id) /\ in' = in /\ phase' = phase
        /\ \/ /\ id # None
              /\ tableIDs' = [tableIDs EXCEPT ![name] = id]
              /\ columnIDs' = [columnIDs EXCEPT ![name] = NoId]
              /\ Created(item, id)
              /\ j' = 1 /\ UNCHANGED i
           \/ /\ id = None
              /\ Failed(item, "table", i - 1)
              /\ i' = i + 1
              /\ UNCHANGED <<j, tableIDs, columnIDs>>
    BY <1>5, <1>b, <1>i DEF CreateTable
  <2>2. item \in Items(in) \cap AnyItem
    <3>1. item \in AnyItem
      BY <1>i DEF Item, AnyItem
    <3>2. item \in {Item("tables", m, 0) : m \in DOMAIN in.tables}
      BY <2>1
    <3> QED BY <3>1, <3>2 DEF Items
  <2>3. TableRow(i).item = item /\ Joins(TableRow(i))
    BY DEF TableRow, Joins
  <2>4. i - 1 \in Nat
    BY <1>i
  <2> HIDE DEF item, name
  <2>5. Kept(item, id)
    <3>1. emit(TableRow(i), answer, id)
      BY <2>1
    <3>2. \/ id # None /\ Created(item, id)
          \/ id = None /\ Failed(item, "table", i - 1)
      BY <2>1
    <3> QED BY <2>1, <2>2, <2>3, <2>4, <3>1, <3>2, Answered
  <2>6. tableIDs' \in [Name -> Nat \cup {None}] /\ columnIDs' \in [Name -> [Name -> Nat \cup {None}]]
    <3>1. NoId \in [Name -> Nat \cup {None}]
      BY DEF NoId
    <3>2. CASE id # None
      <4>1. id \in Nat
        BY <2>5, <3>2 DEF Kept
      <4>2. /\ tableIDs' = [tableIDs EXCEPT ![name] = id]
            /\ columnIDs' = [columnIDs EXCEPT ![name] = NoId]
        BY <2>1, <3>2
      <4> QED BY <1>t, <3>1, <4>1, <4>2 DEF TypeOK
    <3>3. CASE id = None
      BY <1>t, <2>1, <3>3 DEF TypeOK
    <3> QED BY <3>2, <3>3
  <2>7. TypeOK'
    BY <1>t, <1>i, <2>1, <2>5, <2>6 DEF Kept, TypeOK
  <2>8. IndexListed'
    <3>1. CASE id = None
      BY <3>1, <1>t, <2>1, <2>5, IndexKept DEF Kept
    <3>2. CASE id # None
      <4>1. \A a \in Name : tableIDs'[a] = (IF a = name THEN id ELSE tableIDs[a])
                           /\ columnIDs'[a] = (IF a = name THEN NoId ELSE columnIDs[a])
        BY <1>t, <2>1, <3>2 DEF TypeOK
      <4>2. \E k \in DOMAIN created' : \E m \in DOMAIN in'.tables :
              /\ created'[k] = [item |-> Item("tables", m, 0), id |-> id]
              /\ in'.tables[m].name = name
        BY <2>1, <2>5, <3>2 DEF Kept, item, name
      <4>3. \A c \in Name : NoId[c] = None
        BY DEF NoId
      <4> QED BY <1>t, <2>1, <2>5, <4>1, <4>2, <4>3 DEF Kept, IndexListed
    <3> QED BY <3>1, <3>2
  <2>9. OnlyValidRuns'
    BY <1>v, <2>1
  <2> QED BY <1>c, <2>5, <2>7, <2>8, <2>9 DEF Kept, JoinInv
<1>6. ASSUME NEW answer \in Answer, NEW id \in Id \cup {None}, CreateInlineColumn(answer, id)
      PROVE  JoinInv'
  <2> DEFINE item == Item("tables", i, j)
             name == in.tables[i].name
             column == in.tables[i].columns[j]
             row == ColumnRow(item, tableIDs[name])
  <2>1. /\ phase = "tables" /\ i \in DOMAIN in.tables /\ j \in DOMAIN in.tables[i].columns
        /\ name \in Name /\ column \in Name
        /\ emit(row, answer, id) /\ in' = in /\ phase' = phase
        /\ j' = j + 1 /\ UNCHANGED <<i, tableIDs>>
        /\ \/ /\ id # None
              /\ columnIDs' = [columnIDs EXCEPT ![name][column] = id]
              /\ Created(item, id)
           \/ /\ id = None
              /\ Failed(item, "column", j - 1)
              /\ UNCHANGED columnIDs
    <3>1. i \in DOMAIN in.tables
      BY <1>6, <1>b, <1>i DEF CreateInlineColumn
    <3>2. j \in DOMAIN in.tables[i].columns
      BY <1>6, <1>b, <3>1 DEF CreateInlineColumn
    <3>3. name \in Name /\ column \in Name
      BY <1>b, <3>1, <3>2
    <3> QED BY <1>6, <3>1, <3>2, <3>3 DEF CreateInlineColumn
  <2>2. item \in Items(in) \cap AnyItem
    <3>1. item \in AnyItem
      BY <1>i DEF Item, AnyItem
    <3>2. item \in UNION {{Item("tables", m, n) : n \in DOMAIN in.tables[m].columns} : m \in DOMAIN in.tables}
      BY <2>1
    <3> QED BY <3>1, <3>2 DEF Items
  <2>3. row.item = item /\ Joins(row)
    BY DEF ColumnRow, Joins
  <2>4. j - 1 \in Nat
    BY <1>b, <2>1
  <2> HIDE DEF item, name, column, row
  <2>5. Kept(item, id)
    <3>1. emit(row, answer, id)
      BY <2>1
    <3>2. \/ id # None /\ Created(item, id)
          \/ id = None /\ Failed(item, "column", j - 1)
      BY <2>1
    <3> QED BY <2>1, <2>2, <2>3, <2>4, <3>1, <3>2, Answered
  <2>6. columnIDs' \in [Name -> [Name -> Nat \cup {None}]]
    <3>1. CASE id # None
      <4>1. id \in Nat
        BY <2>5, <3>1 DEF Kept
      <4>2. columnIDs' = [columnIDs EXCEPT ![name] = [columnIDs[name] EXCEPT ![column] = id]]
        BY <2>1, <3>1
      <4>3. [columnIDs[name] EXCEPT ![column] = id] \in [Name -> Nat \cup {None}]
        BY <1>t, <2>1, <4>1 DEF TypeOK
      <4> QED BY <1>t, <4>2, <4>3 DEF TypeOK
    <3>2. CASE id = None
      BY <1>t, <2>1, <3>2 DEF TypeOK
    <3> QED BY <3>1, <3>2
  <2>7. TypeOK'
    BY <1>t, <1>i, <2>1, <2>5, <2>6 DEF Kept, TypeOK
  <2>8. IndexListed'
    <3>1. CASE id = None
      BY <3>1, <1>t, <2>1, <2>5, IndexKept DEF Kept
    <3>2. CASE id # None
      <4>1. \A a, c \in Name : columnIDs'[a][c] =
                IF a = name /\ c = column THEN id ELSE columnIDs[a][c]
        BY <1>t, <2>1, <3>2 DEF TypeOK
      <4>2. \E k \in DOMAIN created' : \E m \in DOMAIN in'.tables :
              \E q \in DOMAIN in'.tables[m].columns :
                /\ created'[k] = [item |-> Item("tables", m, q), id |-> id]
                /\ in'.tables[m].name = name /\ in'.tables[m].columns[q] = column
        BY <2>1, <2>5, <3>2 DEF Kept, item, name, column
      <4> QED BY <1>t, <2>1, <2>5, <4>1, <4>2 DEF Kept, IndexListed
    <3> QED BY <3>1, <3>2
  <2>9. OnlyValidRuns'
    BY <1>v, <2>1
  <2> QED BY <1>c, <2>5, <2>7, <2>8, <2>9 DEF Kept, JoinInv
<1>7. ASSUME NEW answer \in Answer, NEW id \in Id \cup {None}, AddColumn(answer, id)
      PROVE  JoinInv'
  <2> DEFINE item == Item("addColumns", i, 0)
             row == ColumnRow(item, in.addColumns[i].table)
  <2>1. /\ phase = "addColumns" /\ i \in DOMAIN in.addColumns
        /\ emit(row, answer, id)
        /\ i' = i + 1 /\ UNCHANGED <<in, phase, j, tableIDs, columnIDs>>
        /\ \/ id # None /\ Created(item, id)
           \/ id = None /\ Failed(item, "column", i - 1)
    <3>1. i \in DOMAIN in.addColumns
      BY <1>7, <1>b, <1>i DEF AddColumn
    <3> QED BY <1>7, <3>1 DEF AddColumn
  <2>2. item \in Items(in) \cap AnyItem
    <3>1. item \in AnyItem
      BY <1>i DEF Item, AnyItem
    <3> QED BY <2>1, <3>1, OtherItems
  <2>3. row.item = item /\ Joins(row)
    BY DEF ColumnRow, Joins
  <2>4. i - 1 \in Nat
    BY <1>i
  <2> HIDE DEF item, row
  <2>5. Kept(item, id)
    BY <2>1, <2>2, <2>3, <2>4, Answered
  <2>6. TypeOK'
    BY <1>t, <1>i, <2>1, <2>5 DEF Kept, TypeOK
  <2>7. IndexListed'
    BY <1>t, <2>1, <2>5, IndexKept DEF Kept
  <2>8. OnlyValidRuns'
    BY <1>v, <2>1
  <2> QED BY <1>c, <2>5, <2>6, <2>7, <2>8 DEF Kept, JoinInv
<1>8. ASSUME NEW answer \in Answer, NEW id \in Id \cup {None}, CreateRelation(answer, id)
      PROVE  JoinInv'
  <2> DEFINE item == Item("relations", i, 0)
             source == in.relations[i].source
             target == in.relations[i].target
             ends == resolveEndpoint(source) \o resolveEndpoint(target)
             row == RelationRow(i, ends)
  <2>1. /\ phase = "relations" /\ i \in DOMAIN in.relations
        /\ i' = i + 1 /\ UNCHANGED <<in, phase, j, tableIDs, columnIDs>>
        /\ \/ id # None /\ Created(item, id)
           \/ id = None /\ Failed(item, "relation", i - 1)
        /\ \/ id = None /\ UNCHANGED <<rows, late, surplus>>
           \/ (\A p \in 1..4 : ends[p] # None) /\ emit(row, answer, id)
    <3>1. i \in DOMAIN in.relations
      BY <1>8, <1>b, <1>i DEF CreateRelation
    <3> QED BY <1>8, <3>1 DEF CreateRelation
  <2>2. item \in Items(in) \cap AnyItem
    <3>1. item \in AnyItem
      BY <1>i DEF Item, AnyItem
    <3> QED BY <2>1, <3>1, OtherItems
  <2>3. row.item = item
    BY DEF RelationRow
  <2>4. i - 1 \in Nat
    BY <1>i
  <2>5. ends[1] = resolveEndpoint(source)[1] /\ ends[2] = resolveEndpoint(source)[2]
        /\ ends[3] = resolveEndpoint(target)[1] /\ ends[4] = resolveEndpoint(target)[2]
    <3>1. /\ \E a, b : resolveEndpoint(source) = <<a, b>>
          /\ \E a, b : resolveEndpoint(target) = <<a, b>>
      BY DEF resolveEndpoint
    <3> QED BY <3>1, PairsJoined
  <2>6. \/ id = None /\ UNCHANGED <<rows, late, surplus>>
        \/ Joins(row) /\ emit(row, answer, id)
    <3>1. Valid(in) /\ source \in End /\ target \in End
      BY <1>v, <1>b, <2>1
    <3>2. ValidEndpoint(source) /\ ValidEndpoint(target)
      BY <2>1, <3>1 DEF Valid
    <3>3. ASSUME \A p \in 1..4 : ends[p] # None
          PROVE  Joins(row)
      <4> HIDE DEF ends, source, target
      <4>1. ends[1] # None /\ ends[2] # None /\ ends[3] # None /\ ends[4] # None
        BY <3>3
      <4>2. Names(source, ends[1], ends[2]) /\ Names(target, ends[3], ends[4])
        BY <2>5, <3>1, <3>2, <4>1, Resolved
      <4>3. row.parents = ends /\ row.item.i = i
        BY DEF RelationRow, Item
      <4> QED BY <4>2, <4>3 DEF Joins, source, target
    <3> QED BY <2>1, <3>3
  <2>7. \E r : /\ r.item = item /\ Joins(r)
               /\ \/ emit(r, answer, id)
                  \/ id = None /\ UNCHANGED <<rows, late, surplus>>
    <3>1. CASE id = None /\ UNCHANGED <<rows, late, surplus>>
      <4>1. Joins([kind |-> "none", item |-> item])
        BY DEF Joins
      <4> QED BY <3>1, <4>1
    <3>2. CASE Joins(row) /\ emit(row, answer, id)
      BY <2>3, <3>2
    <3> QED BY <2>6, <3>1, <3>2
  <2> HIDE DEF item, source, target, ends, row
  <2>8. Kept(item, id)
    BY <2>1, <2>2, <2>4, <2>7, Answered
  <2>9. TypeOK'
    BY <1>t, <1>i, <2>1, <2>8 DEF Kept, TypeOK
  <2>10. IndexListed'
    BY <1>t, <2>1, <2>8, IndexKept DEF Kept
  <2>11. OnlyValidRuns'
    BY <1>v, <2>1
  <2> QED BY <1>c, <2>8, <2>9, <2>10, <2>11 DEF Kept, JoinInv
<1>9. ASSUME NEW r \in late, LateCopy(r)
      PROVE  JoinInv'
  <2>1. /\ UNCHANGED handlerVars /\ UNCHANGED surplus /\ late' \subseteq late
        /\ \/ rows' = rows \cup {[id |-> Cardinality(rows) + 1, of |-> r]}
           \/ rows' = rows
    BY <1>9 DEF LateCopy
  <2>2. UNCHANGED <<in, phase, i, j, tableIDs, columnIDs, created, failed, surplus>>
    BY <2>1 DEF handlerVars
  <2>3. IsFiniteSet(rows') /\ Cardinality(rows) \in Nat
    <3>1. IsFiniteSet(rows)
      BY DEF JoinInv
    <3>2. CASE rows' = rows
      BY <3>1, <3>2, FS_CardinalityType
    <3>3. CASE rows' = rows \cup {[id |-> Cardinality(rows) + 1, of |-> r]}
      BY <3>1, <3>3, FS_AddElement, FS_CardinalityType
    <3> QED BY <2>1, <3>2, <3>3
  <2>4. /\ rows \subseteq rows'
        /\ \A s \in rows' \ rows : s.id \in Nat /\ s.of = r
    BY <2>1, <2>3
  <2>5. TypeOK'
    BY <1>t, <2>1, <2>2, <2>4 DEF TypeOK
  <2>6. CreatedIsStored' /\ IndexListed'
    BY <2>2, <2>4 DEF JoinInv, CreatedIsStored, IndexListed
  <2>7. RowsJoin'
    <3>1. \A s : Joins(s) => Joins(s)'
      BY <2>2, JoinsKept
    <3> QED BY <2>1, <2>4, <3>1 DEF JoinInv, RowsJoin
  <2>8. OnlyValidRuns' /\ failed' \in Seq(Failure)
    BY <2>2 DEF JoinInv, OnlyValidRuns, Valid
  <2> QED BY <1>c, <2>3, <2>5, <2>6, <2>7, <2>8 DEF JoinInv
<1>10. CASE UNCHANGED vars
  <2>1. UNCHANGED <<in, phase, i, j, tableIDs, columnIDs, created, failed, rows, late, surplus>>
    BY <1>10 DEF vars, handlerVars
  <2>2. OnlyValidRuns' /\ phase' \in {"validate", "tables", "addColumns", "relations", "done", "refused"}
    BY <1>t, <2>1 DEF OnlyValidRuns, Valid, TypeOK
  <2> QED BY <1>c, <1>i, <2>1, <2>2, NothingAnswered
<1>. QED
  BY <1>1, <1>2, <1>3, <1>4, <1>5, <1>6, <1>7, <1>8, <1>9, <1>10 DEF Next, HandlerStep

LEMMA JoinInvInductive == Spec => []JoinInv
<1>1. Init => JoinInv
  <2>. SUFFICES ASSUME Init PROVE JoinInv
    OBVIOUS
  <2>1. ColumnInv
    BY InitColumns
  <2>2. TypeOK /\ failed \in Seq(Failure)
    BY MaxSurplusAssumption DEF Init, TypeOK, NoId
  <2>3. IsFiniteSet(rows)
    <3>1. Existing = ({} \cup {[id |-> 1, of |-> [kind |-> "table", item |-> Item("existing", 1, 0), parents |-> <<>>]]})
            \cup {[id |-> 2, of |-> [kind |-> "column", item |-> Item("existing", 1, 1), parents |-> <<1>>]]}
      BY DEF Existing
    <3> QED BY <3>1, FS_EmptySet, FS_AddElement DEF Init
  <2>4. IndexListed /\ OnlyValidRuns /\ CreatedIsStored
    BY DEF Init, IndexListed, NoId, OnlyValidRuns, CreatedIsStored
  <2>5. RowsJoin
    BY DEF Init, RowsJoin, Joins, Existing
  <2> QED BY <2>1, <2>2, <2>3, <2>4, <2>5 DEF JoinInv
<1>2. JoinInv /\ [Next]_vars => JoinInv'
  BY StepKeepsJoins
<1> QED BY <1>1, <1>2, PTL DEF Spec

\* The handler's variables keep their types (executeBatchSchema's accumulators).
THEOREM TypeCorrect == Spec => []TypeOK
<1>1. JoinInv => TypeOK
  BY DEF JoinInv
<1> QED BY <1>1, JoinInvInductive, PTL

\* What the report lists as created is stored under that id, for that item (the test
\* of the answered id before every append to the result).
THEOREM ReportedIsStored == Spec => []CreatedIsStored
<1>1. JoinInv => CreatedIsStored
  BY DEF JoinInv
<1> QED BY <1>1, JoinInvInductive, PTL

\* A stored relation joins the tables and columns its spec names, for any batch and
\* however many copies are lost, late or stored twice (the name index and the
\* uniqueness of table names that validation enforces).
THEOREM RelationsJoinWhatTheyName == Spec => []RelationsJoinNamedEnds
<1>1. JoinInv => RelationsJoinNamedEnds
  BY DEF JoinInv, RowsJoin, Joins, RelationsJoinNamedEnds
<1> QED BY <1>1, JoinInvInductive, PTL
-----------------------------------------------------------------------------
\* The handler has come past an item: everything before (i, j) in the loops' order.
Past(item) ==
  \/ phase = "done"
  \/ phase = "relations" /\ (item.array # "relations" \/ item.i < i)
  \/ phase = "addColumns" /\ (item.array = "tables" \/ (item.array = "addColumns" /\ item.i < i))
  \/ phase = "tables" /\ item.array = "tables" /\ (item.i < i \/ (item.i = i /\ item.j < j))

IsFailed(item) == \E n \in DOMAIN failed : failed[n].item = item

TableOf(item) == [item EXCEPT !.j = 0]

\* The result leaves out the inline columns of a table that was not created.
Unlisted(item) == Inline(item) /\ ~IsCreated(TableOf(item))

ListedOnce ==
  /\ \A m, n \in DOMAIN created : created[m].item = created[n].item => m = n
  /\ \A m, n \in DOMAIN failed : failed[m].item = failed[n].item => m = n
  /\ \A item \in Items(in) : ~(IsCreated(item) /\ IsFailed(item))

ListedPast == \A item \in Items(in) : IsCreated(item) \/ IsFailed(item) => Past(item)

PastListed ==
  \A item \in Items(in) :
    Past(item) => (IsCreated(item) \/ IsFailed(item) <=> ~Unlisted(item))

\* EveryItemAccounted speaks of the end of the loops; before, what the handler has come
\* past is listed once, and nothing else is.
AccountInv ==
  /\ phase = "validate" => i = 1 /\ j = 0
  /\ ListedOnce /\ ListedPast /\ PastListed


\* What an item of an input is.
ItemShape(b, y) ==
  \/ y = Item("tables", y.i, y.j) /\ y.i \in DOMAIN b.tables /\ y.j = 0
  \/ /\ y = Item("tables", y.i, y.j) /\ y.i \in DOMAIN b.tables
     /\ y.j \in DOMAIN b.tables[y.i].columns
  \/ y = Item("addColumns", y.i, 0) /\ y.i \in DOMAIN b.addColumns
  \/ y = Item("relations", y.i, 0) /\ y.i \in DOMAIN b.relations

LEMMA ItemsHaveShape ==
  ASSUME NEW b, NEW y PROVE y \in Items(b) <=> ItemShape(b, y)
<1> DEFINE T == {Item("tables", m, 0) : m \in DOMAIN b.tables}
           I == UNION {{Item("tables", m, n) : n \in DOMAIN b.tables[m].columns} :
                         m \in DOMAIN b.tables}
           A == {Item("addColumns", m, 0) : m \in DOMAIN b.addColumns}
           R == {Item("relations", m, 0) : m \in DOMAIN b.relations}
<1>1. Items(b) = T \cup I \cup A \cup R
  BY DEF Items
<1>2. \A a, m, n : Item(a, m, n).array = a /\ Item(a, m, n).i = m /\ Item(a, m, n).j = n
  BY DEF Item
<1>3. y \in T <=> y = Item("tables", y.i, y.j) /\ y.i \in DOMAIN b.tables /\ y.j = 0
  BY <1>2
<1>4. y \in I <=> /\ y = Item("tables", y.i, y.j) /\ y.i \in DOMAIN b.tables
                  /\ y.j \in DOMAIN b.tables[y.i].columns
  <2>1. y \in I <=> \E m \in DOMAIN b.tables : \E n \in DOMAIN b.tables[m].columns :
                      y = Item("tables", m, n)
    OBVIOUS
  <2> QED BY <1>2, <2>1
<1>5. y \in A <=> y = Item("addColumns", y.i, 0) /\ y.i \in DOMAIN b.addColumns
  BY <1>2
<1>6. y \in R <=> y = Item("relations", y.i, 0) /\ y.i \in DOMAIN b.relations
  BY <1>2
<1> HIDE DEF T, I, A, R
<1> QED BY <1>1, <1>3, <1>4, <1>5, <1>6 DEF ItemShape

\* The items of an input that the handler has taken: where they are in its loops.
LEMMA ItemsOfInput ==
  ASSUME in \in Batch, NEW y \in Items(in)
  PROVE  /\ y.i \in Nat /\ y.j \in Nat
         /\ \/ /\ y.array = "tables" /\ y.i \in 1..Len(in.tables)
               /\ y.j \in 0..Len(in.tables[y.i].columns)
            \/ y.array = "addColumns" /\ y.i \in 1..Len(in.addColumns) /\ y.j = 0
            \/ y.array = "relations" /\ y.i \in 1..Len(in.relations) /\ y.j = 0
         /\ y = Item(y.array, y.i, y.j)
         /\ TableOf(y) = Item(y.array, y.i, 0)
<1>1. ItemShape(in, y)
  BY ItemsHaveShape
<1>2. \A a, m, n : Item(a, m, n).array = a /\ Item(a, m, n).i = m /\ Item(a, m, n).j = n
  BY DEF Item
<1>3. y = Item(y.array, y.i, y.j)
  BY <1>1, <1>2 DEF ItemShape
<1>4. TableOf(y) = Item(y.array, y.i, 0)
  <2>1. TableOf(y) = [Item(y.array, y.i, y.j) EXCEPT !.j = 0]
    BY <1>3 DEF TableOf
  <2> QED BY <2>1 DEF Item
<1>5. /\ \/ /\ y.array = "tables" /\ y.i \in 1..Len(in.tables)
            /\ y.j \in 0..Len(in.tables[y.i].columns)
         \/ y.array = "addColumns" /\ y.i \in 1..Len(in.addColumns) /\ y.j = 0
         \/ y.array = "relations" /\ y.i \in 1..Len(in.relations) /\ y.j = 0
      /\ y.i \in Nat /\ y.j \in Nat
  BY <1>1, <1>2, InputParts DEF ItemShape
<1> QED BY <1>3, <1>4, <1>5

\* A step that lists nothing comes past nothing.
LEMMA AccountUntouched ==
  ASSUME AccountInv, UNCHANGED <<in, created, failed>>,
         phase' # "validate" \/ UNCHANGED <<phase, i, j>>,
         \A y \in Items(in) : Past(y)' <=> Past(y)
  PROVE  AccountInv'
<1>1. \A y : (IsCreated(y)' <=> IsCreated(y)) /\ (IsFailed(y)' <=> IsFailed(y))
  BY DEF IsCreated, IsFailed
<1>2. \A y : Unlisted(y)' <=> Unlisted(y)
  BY <1>1 DEF Unlisted, Inline, TableOf
<1>3. Items(in') = Items(in)
  OBVIOUS
<1>4. ListedOnce'
  BY <1>1, <1>3 DEF AccountInv, ListedOnce
<1>5. ListedPast' /\ PastListed'
  BY <1>1, <1>2, <1>3 DEF AccountInv, ListedPast, PastListed
<1> QED BY <1>4, <1>5 DEF AccountInv

\* What appending one entry does to a list of items.
LEMMA AppendedOnce ==
  ASSUME NEW T, NEW s \in Seq(T), NEW e \in T, NEW t, t = Append(s, e),
         \A m, n \in DOMAIN s : s[m].item = s[n].item => m = n,
         \A n \in DOMAIN s : s[n].item # e.item
  PROVE  /\ \A m, n \in DOMAIN t : t[m].item = t[n].item => m = n
         /\ \A y : (\E n \in DOMAIN t : t[n].item = y)
                     <=> (\E n \in DOMAIN s : s[n].item = y) \/ y = e.item
<1>1. t \in Seq(T) /\ Len(t) = Len(s) + 1 /\ Len(s) \in Nat
  OBVIOUS
<1>2. (\A n \in 1..Len(s) : t[n] = s[n]) /\ t[Len(s) + 1] = e
  OBVIOUS
<1>3. DOMAIN s = 1..Len(s) /\ DOMAIN t = 1..(Len(s) + 1)
  BY <1>1
<1> DEFINE k == Len(s) + 1
<1>4. /\ \A n \in DOMAIN t : n = k \/ n \in DOMAIN s
      /\ k \in DOMAIN t /\ DOMAIN s \subseteq DOMAIN t
  BY <1>1, <1>3
<1>5. (\A n \in DOMAIN s : t[n] = s[n]) /\ t[k] = e
  BY <1>2, <1>3
<1> HIDE DEF k
<1> QED BY <1>4, <1>5

\* The step that answers for the item at (i, j): it was not listed, and now it is, or
\* the inline columns of a table that was not created are left out with it.
LEMMA AccountAnswered ==
  ASSUME JoinInv, AccountInv, in' = in, phase # "validate", phase' = phase,
         NEW item \in Items(in) \cap AnyItem, NEW id \in Id \cup {None},
         NEW kind \in {"table", "column", "relation"}, NEW index \in Nat,
         \/ id # None /\ Created(item, id)
         \/ id = None /\ Failed(item, kind, index),
         ~Past(item), Past(item)',
         Inline(item) => IsCreated(TableOf(item)),
         \A y \in Items(in) : Past(y) => Past(y)',
         \A y \in Items(in) : Past(y)' =>
           Past(y) \/ y = item \/ (id = None /\ Inline(y) /\ TableOf(y) = item),
         \A y \in Items(in) : Inline(y) /\ TableOf(y) = item => ~Past(y) /\ y # item
  PROVE  AccountInv'
<1>0. ~IsCreated(item) /\ ~IsFailed(item)
  BY DEF AccountInv, ListedPast
<1>1. /\ \A m, n \in DOMAIN created' : created'[m].item = created'[n].item => m = n
      /\ \A y : IsCreated(y)' <=> IsCreated(y) \/ (id # None /\ y = item)
  <2>1. CASE id # None /\ Created(item, id)
    <3> DEFINE e == [item |-> item, id |-> id]
               T == [item : AnyItem, id : Nat]
    <3>1. id \in Nat
      BY <2>1, IdsAreNumbers
    <3>2. created \in Seq(T) /\ e \in T /\ created' = Append(created, e) /\ e.item = item
      BY <2>1, <3>1 DEF Created, JoinInv, ColumnInv, StateTypes
    <3>3. /\ \A m, n \in DOMAIN created : created[m].item = created[n].item => m = n
          /\ \A n \in DOMAIN created : created[n].item # e.item
      BY <1>0, <3>2 DEF AccountInv, ListedOnce, IsCreated
    <3> HIDE DEF e, T
    <3>4. /\ \A m, n \in DOMAIN created' : created'[m].item = created'[n].item => m = n
          /\ \A y : (\E n \in DOMAIN created' : created'[n].item = y)
                      <=> (\E n \in DOMAIN created : created[n].item = y) \/ y = e.item
      BY <3>2, <3>3, AppendedOnce
    <3> QED BY <2>1, <3>2, <3>4 DEF IsCreated
  <2>2. CASE id = None /\ Failed(item, kind, index)
    BY <2>2 DEF Failed, IsCreated, AccountInv, ListedOnce
  <2> QED BY <2>1, <2>2
<1>2. /\ \A m, n \in DOMAIN failed' : failed'[m].item = failed'[n].item => m = n
      /\ \A y : IsFailed(y)' <=> IsFailed(y) \/ (id = None /\ y = item)
  <2>1. CASE id # None /\ Created(item, id)
    BY <2>1 DEF Created, IsFailed, AccountInv, ListedOnce
  <2>2. CASE id = None /\ Failed(item, kind, index)
    <3> DEFINE e == [kind |-> kind, index |-> index, item |-> item]
    <3>1. e \in Failure
      BY DEF Failure
    <3>2. failed \in Seq(Failure) /\ failed' = Append(failed, e) /\ e.item = item
      BY <2>2 DEF Failed, JoinInv
    <3>3. /\ \A m, n \in DOMAIN failed : failed[m].item = failed[n].item => m = n
          /\ \A n \in DOMAIN failed : failed[n].item # e.item
      BY <1>0, <3>2 DEF AccountInv, ListedOnce, IsFailed
    <3> HIDE DEF e
    <3>4. /\ \A m, n \in DOMAIN failed' : failed'[m].item = failed'[n].item => m = n
          /\ \A y : (\E n \in DOMAIN failed' : failed'[n].item = y)
                      <=> (\E n \in DOMAIN failed : failed[n].item = y) \/ y = e.item
      BY <3>1, <3>2, <3>3, AppendedOnce
    <3> QED BY <2>2, <3>2, <3>4 DEF IsFailed
  <2> QED BY <2>1, <2>2
<1>3. ListedOnce'
  BY <1>0, <1>1, <1>2 DEF AccountInv, ListedOnce
<1>4. ListedPast'
  BY <1>1, <1>2 DEF AccountInv, ListedPast
<1>5. ASSUME NEW y \in Items(in), Past(y)'
      PROVE  IsCreated(y)' \/ IsFailed(y)' <=> ~Unlisted(y)'
  <2>0. Unlisted(y)' <=> Inline(y) /\ ~(IsCreated(TableOf(y)) \/ (id # None /\ TableOf(y) = item))
    <3>1. Unlisted(y)' <=> Inline(y) /\ ~IsCreated(TableOf(y))'
      BY DEF Unlisted, Inline, TableOf
    <3> QED BY <1>1, <3>1
  <2>1. CASE y = item
    <3>1. ~Unlisted(y)'
      BY <2>0, <2>1
    <3> QED BY <1>1, <1>2, <2>1, <3>1
  <2>2. CASE Past(y) /\ y # item
    <3>1. ~(Inline(y) /\ TableOf(y) = item)
      BY <2>2
    <3>2. Unlisted(y)' <=> Unlisted(y)
      BY <2>0, <3>1 DEF Unlisted
    <3> QED BY <1>1, <1>2, <2>2, <3>2 DEF AccountInv, PastListed
  <2>3. CASE ~Past(y) /\ id = None /\ Inline(y) /\ TableOf(y) = item
    <3>1. y # item /\ ~IsCreated(y) /\ ~IsFailed(y)
      BY <2>3 DEF AccountInv, ListedPast
    <3> QED BY <1>0, <1>1, <1>2, <2>0, <2>3, <3>1
  <2> QED BY <1>5, <2>1, <2>2, <2>3
<1>6. PastListed'
  BY <1>5 DEF PastListed
<1> QED BY <1>3, <1>4, <1>6 DEF AccountInv

LEMMA StepKeepsAccount ==
  ASSUME JoinInv, AccountInv, [Next]_vars
  PROVE  AccountInv'
<1>t. TypeOK /\ in \in Batch /\ i \in Nat \ {0} /\ j \in Nat
  BY DEF JoinInv, TypeOK
<1>b. /\ Len(in.tables) \in Nat /\ DOMAIN in.tables = 1..Len(in.tables)
      /\ Len(in.addColumns) \in Nat /\ DOMAIN in.addColumns = 1..Len(in.addColumns)
      /\ Len(in.relations) \in Nat /\ DOMAIN in.relations = 1..Len(in.relations)
      /\ \A m \in DOMAIN in.tables :
           /\ Len(in.tables[m].columns) \in Nat
           /\ DOMAIN in.tables[m].columns = 1..Len(in.tables[m].columns)
  BY <1>t, InputParts
<1>p. ASSUME NEW a, NEW m, NEW n
      PROVE  Item(a, m, n).array = a /\ Item(a, m, n).i = m /\ Item(a, m, n).j = n
  BY DEF Item
<1>y. ASSUME NEW y \in Items(in)
      PROVE  /\ y.i \in Nat /\ y.j \in Nat
             /\ \/ /\ y.array = "tables" /\ y.i \in 1..Len(in.tables)
                   /\ y.j \in 0..Len(in.tables[y.i].columns)
                \/ y.array = "addColumns" /\ y.i \in 1..Len(in.addColumns) /\ y.j = 0
                \/ y.array = "relations" /\ y.i \in 1..Len(in.relations) /\ y.j = 0
             /\ y = Item(y.array, y.i, y.j)
             /\ TableOf(y) = Item(y.array, y.i, 0)
  BY <1>t, ItemsOfInput
<1>1. CASE Refuse
  BY <1>1, AccountUntouched DEF Refuse, Past
<1>2. CASE Accept
  <2>1. i = 1 /\ j = 0 /\ phase = "validate" /\ phase' = "tables"
        /\ UNCHANGED <<in, i, j, created, failed>>
    BY <1>2 DEF Accept, AccountInv
  <2>2. \A y \in Items(in) : ~Past(y) /\ ~Past(y)'
    BY <1>y, <2>1 DEF Past
  <2> QED BY <2>1, <2>2, AccountUntouched
<1>3. CASE NextTable
  <2>1. /\ phase = "tables" /\ i <= Len(in.tables) /\ j > Len(in.tables[i].columns)
        /\ i' = i + 1 /\ j' = 0 /\ UNCHANGED <<in, phase, created, failed>>
    BY <1>3 DEF NextTable
  <2>2. ASSUME NEW y \in Items(in) PROVE Past(y)' <=> Past(y)
    <3> DEFINE n == Len(in.tables[y.i].columns)
    <3>1. y.array = "tables" => y.i \in 1..Len(in.tables) /\ n \in Nat /\ y.j <= n
      BY <1>b, <1>y
    <3>2. y.i = i => j > n
      BY <2>1
    <3> HIDE DEF n
    <3>3. y.i \in Nat /\ y.j \in Nat
      BY <1>y
    <3>4. y.array = "tables" /\ y.i = i => y.j < j
      BY <3>1, <3>2, <3>3, <1>t
    <3>5. Past(y) <=> y.array = "tables" /\ (y.i < i \/ (y.i = i /\ y.j < j))
      BY <2>1 DEF Past
    <3>6. Past(y)' <=> y.array = "tables" /\ (y.i < i + 1 \/ (y.i = i + 1 /\ y.j < 0))
      BY <2>1 DEF Past
    <3>7. (y.i < i + 1 <=> y.i < i \/ y.i = i) /\ ~(y.j < 0)
      BY <3>3, <1>t
    <3> QED BY <3>4, <3>5, <3>6, <3>7
  <2>3. phase' # "validate"
    BY <2>1
  <2> QED BY <2>1, <2>2, <2>3, AccountUntouched
<1>4. CASE NextPhase
  <2>1. /\ i' = 1 /\ j' = 0 /\ UNCHANGED <<in, created, failed>>
        /\ \/ phase = "tables" /\ i > Len(in.tables) /\ phase' = "addColumns"
           \/ phase = "addColumns" /\ i > Len(in.addColumns) /\ phase' = "relations"
           \/ phase = "relations" /\ i > Len(in.relations) /\ phase' = "done"
    BY <1>4 DEF NextPhase
  <2>2. ASSUME NEW y \in Items(in) PROVE Past(y)' <=> Past(y)
    <3>1. y.i \in Nat \ {0} /\ ~(y.i < 1)
      BY <1>y, <1>b
    <3>2. CASE phase = "tables"
      <4>1. i > Len(in.tables) /\ phase' = "addColumns"
        BY <2>1, <3>2
      <4>2. y.array = "tables" => y.i < i
        BY <1>y, <1>b, <1>t, <4>1
      <4> QED BY <2>1, <3>1, <3>2, <4>1, <4>2 DEF Past
    <3>3. CASE phase = "addColumns"
      <4>1. i > Len(in.addColumns) /\ phase' = "relations"
        BY <2>1, <3>3
      <4>2. y.array = "addColumns" => y.i < i
        BY <1>y, <1>b, <1>t, <4>1
      <4>3. y.array \in {"tables", "addColumns", "relations"}
        BY <1>y
      <4>4. Past(y)' <=> y.array # "relations"
        BY <2>1, <3>1, <4>1 DEF Past
      <4>5. Past(y) <=> y.array \in {"tables", "addColumns"}
        BY <3>3, <4>2 DEF Past
      <4> QED BY <4>3, <4>4, <4>5
    <3>4. CASE phase = "relations"
      <4>1. i > Len(in.relations) /\ phase' = "done"
        BY <2>1, <3>4
      <4>2. y.array = "relations" => y.i < i
        BY <1>y, <1>b, <1>t, <4>1
      <4> QED BY <3>4, <4>1, <4>2 DEF Past
    <3> QED BY <2>1, <3>2, <3>3, <3>4
  <2>3. phase' # "validate"
    BY <2>1
  <2> QED BY <2>1, <2>2, <2>3, AccountUntouched
<1>5. ASSUME NEW answer \in Answer, NEW id \in Id \cup {None}, CreateTable(answer, id)
      PROVE  AccountInv'
  <2>0. PICK item : item = Item("tables", i, 0)
    OBVIOUS
  <2>1. /\ phase = "tables" /\ i <= Len(in.tables) /\ j = 0 /\ UNCHANGED <<in, phase>>
        /\ \/ id # None /\ Created(item, id) /\ j' = 1 /\ i' = i
           \/ id = None /\ Failed(item, "table", i - 1) /\ i' = i + 1 /\ j' = 0
    BY <1>5, <2>0 DEF CreateTable
  <2>2. item \in Items(in) \cap AnyItem /\ i - 1 \in Nat
    <3>1. ItemShape(in, item)
      BY <1>t, <1>b, <1>p, <2>0, <2>1 DEF ItemShape
    <3>2. item \in AnyItem
      BY <1>t, <2>0 DEF Item, AnyItem
    <3> QED BY <1>t, <3>1, <3>2, ItemsHaveShape
  <2>3. ~Inline(item)
    BY <1>p, <2>0 DEF Inline
  <2>4. ASSUME NEW y \in Items(in)
        PROVE  /\ Past(y) <=> y.array = "tables" /\ y.i < i
               /\ id # None => (Past(y)' <=> Past(y) \/ y = item)
               /\ id = None => (Past(y)' <=> y.array = "tables" /\ (y.i < i \/ y.i = i))
    <3>1. y.i \in Nat /\ y.j \in Nat
      BY <1>y
    <3>2. Past(y) <=> y.array = "tables" /\ y.i < i
      BY <2>1, <3>1 DEF Past
    <3>3. ASSUME id # None PROVE Past(y)' <=> Past(y) \/ y = item
      <4>1. Past(y)' <=> y.array = "tables" /\ (y.i < i \/ (y.i = i /\ y.j < 1))
        BY <2>1, <3>3 DEF Past
      <4>2. y = item <=> y.array = "tables" /\ y.i = i /\ y.j = 0
        BY <1>y, <1>p, <2>0
      <4> QED BY <3>1, <3>2, <4>1, <4>2
    <3>4. ASSUME id = None PROVE Past(y)' <=> y.array = "tables" /\ (y.i < i \/ y.i = i)
      <4>1. Past(y)' <=> y.array = "tables" /\ (y.i < i + 1 \/ (y.i = i + 1 /\ y.j < 0))
        BY <2>1, <3>4 DEF Past
      <4> QED BY <3>1, <4>1, <1>t
    <3> QED BY <3>2, <3>3, <3>4
  <2>5. ASSUME NEW y \in Items(in), y.array = "tables", y.i = i
        PROVE  y = item \/ (Inline(y) /\ TableOf(y) = item)
    <3>1. y = Item("tables", i, y.j) /\ y.j \in Nat /\ TableOf(y) = item
      BY <1>y, <2>0, <2>5
    <3> QED BY <2>0, <2>5, <3>1 DEF Inline
  <2>6. ASSUME NEW y \in Items(in), Inline(y), TableOf(y) = item PROVE ~Past(y) /\ y # item
    <3>1. y.i = i
      BY <1>y, <1>p, <2>0, <2>6
    <3> QED BY <1>t, <2>3, <2>4, <2>6, <3>1
  <2>7. ~Past(item) /\ Past(item)'
    <3>1. item.array = "tables" /\ item.i = i
      BY <1>p, <2>0
    <3> QED BY <1>t, <2>2, <2>4, <3>1
  <2>8. \A y \in Items(in) : /\ Past(y) => Past(y)'
                             /\ Past(y)' => \/ Past(y) \/ y = item
                                            \/ id = None /\ Inline(y) /\ TableOf(y) = item
    BY <2>4, <2>5
  <2> QED BY <2>1, <2>2, <2>3, <2>6, <2>7, <2>8, AccountAnswered
<1>6. ASSUME NEW answer \in Answer, NEW id \in Id \cup {None}, CreateInlineColumn(answer, id)
      PROVE  AccountInv'
  <2>0. PICK item : item = Item("tables", i, j)
    OBVIOUS
  <2>1. /\ phase = "tables" /\ i <= Len(in.tables) /\ j \in 1..Len(in.tables[i].columns)
        /\ j' = j + 1 /\ UNCHANGED <<in, phase, i>>
        /\ \/ id # None /\ Created(item, id)
           \/ id = None /\ Failed(item, "column", j - 1)
    BY <1>6, <2>0 DEF CreateInlineColumn
  <2>2. item \in Items(in) \cap AnyItem /\ j - 1 \in Nat
    <3>1. i \in DOMAIN in.tables /\ j \in DOMAIN in.tables[i].columns
      BY <1>t, <1>b, <2>1
    <3>2. ItemShape(in, item)
      BY <1>p, <2>0, <3>1 DEF ItemShape
    <3>3. item \in AnyItem
      BY <1>t, <2>0 DEF Item, AnyItem
    <3>4. j - 1 \in Nat
      BY <1>t, <1>b, <2>1, <3>1
    <3> QED BY <3>2, <3>3, <3>4, ItemsHaveShape
  <2>3. TableOf(item) = Item("tables", i, 0) /\ item.j = j /\ j \in Nat \ {0}
    BY <1>t, <1>b, <2>0, <2>1 DEF TableOf, Item
  <2>4. IsCreated(TableOf(item))
    BY <2>1, <2>3 DEF JoinInv, ColumnInv, CurrentTableListed, IsCreated
  <2>5. ASSUME NEW y \in Items(in)
        PROVE  /\ Past(y) <=> y.array = "tables" /\ (y.i < i \/ (y.i = i /\ y.j < j))
               /\ Past(y)' <=> Past(y) \/ y = item
    <3>1. Past(y) <=> y.array = "tables" /\ (y.i < i \/ (y.i = i /\ y.j < j))
      BY <2>1 DEF Past
    <3>2. Past(y)' <=> y.array = "tables" /\ (y.i < i \/ (y.i = i /\ y.j < j + 1))
      BY <2>1 DEF Past
    <3>3. y = item <=> y.array = "tables" /\ y.i = i /\ y.j = j
      BY <1>y, <1>p, <2>0
    <3>4. y.j < j + 1 <=> y.j < j \/ y.j = j
      BY <1>y, <1>t
    <3> QED BY <3>1, <3>2, <3>3, <3>4
  <2>6. \A y \in Items(in) : TableOf(y) # item
    BY <1>y, <1>p, <2>0, <2>3
  <2>7. ~Past(item) /\ Past(item)'
    BY <1>p, <1>t, <2>0, <2>2, <2>5
  <2> QED BY <2>1, <2>2, <2>4, <2>5, <2>6, <2>7, AccountAnswered
<1>7. ASSUME NEW answer \in Answer, NEW id \in Id \cup {None}, AddColumn(answer, id)
      PROVE  AccountInv'
  <2>0. PICK item : item = Item("addColumns", i, 0)
    OBVIOUS
  <2>1. /\ phase = "addColumns" /\ i <= Len(in.addColumns)
        /\ i' = i + 1 /\ UNCHANGED <<in, phase>>
        /\ \/ id # None /\ Created(item, id)
           \/ id = None /\ Failed(item, "column", i - 1)
    BY <1>7, <2>0 DEF AddColumn
  <2>2. item \in Items(in) \cap AnyItem /\ i - 1 \in Nat
    <3>1. item \in Items(in)
      BY <1>t, <1>b, <2>0, <2>1, OtherItems
    <3>2. item \in AnyItem
      BY <1>t, <2>0 DEF Item, AnyItem
    <3> QED BY <1>t, <3>1, <3>2
  <2>3. ASSUME NEW y \in Items(in)
        PROVE  /\ Past(y) <=> y.array = "tables" \/ (y.array = "addColumns" /\ y.i < i)
               /\ Past(y)' <=> Past(y) \/ y = item
               /\ ~(Inline(y) /\ TableOf(y) = item)
    <3>1. Past(y) <=> y.array = "tables" \/ (y.array = "addColumns" /\ y.i < i)
      BY <2>1 DEF Past
    <3>2. Past(y)' <=> y.array = "tables" \/ (y.array = "addColumns" /\ y.i < i + 1)
      BY <2>1 DEF Past
    <3>3. y = item <=> y.array = "addColumns" /\ y.i = i
      BY <1>y, <1>p, <2>0
    <3>4. y.i < i + 1 <=> y.i < i \/ y.i = i
      BY <1>y, <1>t
    <3>5. ~(Inline(y) /\ TableOf(y) = item)
      BY <1>y, <1>p, <2>0 DEF Inline
    <3> QED BY <3>1, <3>2, <3>3, <3>4, <3>5
  <2>4. ~Past(item) /\ Past(item)' /\ ~Inline(item)
    BY <1>p, <1>t, <2>0, <2>2, <2>3 DEF Inline
  <2> QED BY <2>1, <2>2, <2>3, <2>4, AccountAnswered
<1>8. ASSUME NEW answer \in Answer, NEW id \in Id \cup {None}, CreateRelation(answer, id)
      PROVE  AccountInv'
  <2>0. PICK item : item = Item("relations", i, 0)
    OBVIOUS
  <2>1. /\ phase = "relations" /\ i <= Len(in.relations)
        /\ i' = i + 1 /\ UNCHANGED <<in, phase>>
        /\ \/ id # None /\ Created(item, id)
           \/ id = None /\ Failed(item, "relation", i - 1)
    BY <1>8, <2>0 DEF CreateRelation
  <2>2. item \in Items(in) \cap AnyItem /\ i - 1 \in Nat
    <3>1. item \in Items(in)
      BY <1>t, <1>b, <2>0, <2>1, OtherItems
    <3>2. item \in AnyItem
      BY <1>t, <2>0 DEF Item, AnyItem
    <3> QED BY <1>t, <3>1, <3>2
  <2>3. ASSUME NEW y \in Items(in)
        PROVE  /\ Past(y) <=> y.array # "relations" \/ y.i < i
               /\ Past(y)' <=> Past(y) \/ y = item
               /\ ~(Inline(y) /\ TableOf(y) = item)
    <3>1. Past(y) <=> y.array # "relations" \/ y.i < i
      BY <2>1 DEF Past
    <3>2. Past(y)' <=> y.array # "relations" \/ y.i < i + 1
      BY <2>1 DEF Past
    <3>3. y = item <=> y.array = "relations" /\ y.i = i
      BY <1>y, <1>p, <2>0
    <3>4. y.i < i + 1 <=> y.i < i \/ y.i = i
      BY <1>y, <1>t
    <3>5. ~(Inline(y) /\ TableOf(y) = item)
      BY <1>y, <1>p, <2>0 DEF Inline
    <3> QED BY <3>1, <3>2, <3>3, <3>4, <3>5
  <2>4. ~Past(item) /\ Past(item)' /\ ~Inline(item)
    BY <1>p, <1>t, <2>0, <2>2, <2>3 DEF Inline
  <2> QED BY <2>1, <2>2, <2>3, <2>4, AccountAnswered
<1>9. CASE UNCHANGED handlerVars
  BY <1>9, AccountUntouched DEF handlerVars, Past
<1>10. CASE \E r \in late : LateCopy(r)
  BY <1>9, <1>10 DEF LateCopy
<1>11. CASE UNCHANGED vars
  BY <1>9, <1>11 DEF vars
<1> QED BY <1>1, <1>2, <1>3, <1>4, <1>5, <1>6, <1>7, <1>8, <1>10, <1>11 DEF Next, HandlerStep

\* A list with one entry per item has one place for an item it holds, and none for others.
LEMMA CountOnce ==
  ASSUME NEW s, \A m, n \in DOMAIN s : s[m].item = s[n].item => m = n, NEW y
  PROVE  Cardinality({n \in DOMAIN s : s[n].item = y})
           = IF \E n \in DOMAIN s : s[n].item = y THEN 1 ELSE 0
<1>1. CASE \E n \in DOMAIN s : s[n].item = y
  <2>1. PICK k \in DOMAIN s : s[k].item = y
    BY <1>1
  <2>2. {n \in DOMAIN s : s[n].item = y} = {k}
    BY <2>1
  <2> QED BY <1>1, <2>2, FS_Singleton
<1>2. CASE ~(\E n \in DOMAIN s : s[n].item = y)
  <2>1. {n \in DOMAIN s : s[n].item = y} = {}
    BY <1>2
  <2> QED BY <1>2, <2>1, FS_EmptySet
<1> QED BY <1>1, <1>2

\* The report of a batch accounts for every item of its input once, as created or as
\* failed, but for the inline columns of a table that was not created: whatever the
\* sizes of the arrays, and whichever writes fail (the loops of executeBatchSchema).
THEOREM EveryItemIsAccounted == Spec => []EveryItemAccounted
<1>1. Init => AccountInv
  <2> SUFFICES ASSUME Init PROVE AccountInv
    OBVIOUS
  <2>1. i = 1 /\ j = 0 /\ phase = "validate" /\ DOMAIN created = {} /\ DOMAIN failed = {}
    BY DEF Init
  <2> QED BY <2>1 DEF AccountInv, ListedOnce, ListedPast, PastListed, Past, IsCreated, IsFailed
<1>2. JoinInv /\ AccountInv /\ [Next]_vars => AccountInv'
  BY StepKeepsAccount
<1>3. AccountInv => EveryItemAccounted
  <2> SUFFICES ASSUME AccountInv, phase = "done", NEW item \in Items(in)
               PROVE  Listed(item) = IF Inline(item) /\ ~IsCreated([item EXCEPT !.j = 0])
                                     THEN 0 ELSE 1
    BY DEF EveryItemAccounted
  <2>1. /\ Cardinality({n \in DOMAIN created : created[n].item = item})
             = IF IsCreated(item) THEN 1 ELSE 0
        /\ Cardinality({n \in DOMAIN failed : failed[n].item = item})
             = IF IsFailed(item) THEN 1 ELSE 0
    BY CountOnce DEF AccountInv, ListedOnce, IsCreated, IsFailed
  <2>2. IsCreated(item) \/ IsFailed(item) <=> ~Unlisted(item)
    BY DEF AccountInv, PastListed, Past
  <2>3. ~(IsCreated(item) /\ IsFailed(item))
    BY DEF AccountInv, ListedOnce
  <2>4. Listed(item) = IF Unlisted(item) THEN 0 ELSE 1
    BY <2>1, <2>2, <2>3 DEF Listed
  <2> QED BY <2>4 DEF Unlisted, TableOf
<1> QED BY <1>1, <1>2, <1>3, JoinInvInductive, PTL DEF Spec
=============================================================================
