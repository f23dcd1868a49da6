---------------------------- MODULE MCBatchUpdate ----------------------------
(* Small instances of BatchUpdate.                                         *)
EXTENDS BatchUpdate

CONSTANTS users, orders, key

Table(name, columns) == [name |-> name, columns |-> columns]

ByName(t, c) == [tableId |-> None, tableName |-> t, columnId |-> None, columnName |-> c]
ById(t, c) == [tableId |-> t, tableName |-> None, columnId |-> c, columnName |-> None]
Mixed(t, c) == [tableId |-> None, tableName |-> t, columnId |-> c, columnName |-> None]
NameInId(t, c) == [tableId |-> t, tableName |-> None, columnId |-> None, columnName |-> c]

Input(tables, addColumns, relations) ==
  [tables |-> tables, addColumns |-> addColumns, relations |-> relations]

Relation(source, target) == <<[source |-> source, target |-> target]>>

Inputs == {
  \* Two tables with a column of the same name, joined by name.
  Input(<<Table(users, <<key>>), Table(orders, <<key>>)>>, <<>>,
        Relation(ByName(orders, key), ByName(users, key))),
  \* A column name used twice, an existing table, and one that does not exist.
  Input(<<Table(users, <<key, key>>)>>,
        <<[table |-> 1, name |-> key], [table |-> 99, name |-> key]>>,
        Relation(ById(1, 2), ByName(users, key))),
  \* An existing column with a table of the batch, and a table that is nowhere.
  Input(<<Table(users, <<>>)>>, <<>>,
        Relation(Mixed(users, 2), ById(1, 2)) \o Relation(ByName(orders, key), ById(1, 2))),
  \* Refused: nothing to do, a table name used twice, a column name in a table
  \* given by id, an end given twice.
  Input(<<>>, <<>>, <<>>),
  Input(<<Table(users, <<key>>), Table(users, <<key>>)>>, <<>>,
        Relation(ByName(users, key), ById(1, 2))),
  Input(<<>>, <<>>, Relation(NameInId(1, key), ById(1, 2))),
  Input(<<Table(users, <<key>>)>>, <<>>,
        Relation([ByName(users, key) EXCEPT !.tableId = 1, !.columnId = 2], ById(1, 2)))}
=============================================================================
