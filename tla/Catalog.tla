------------------------------ MODULE Catalog ------------------------------
(***************************************************************************)
(* planner/catalog.rs: a table's columns and its keys, which name columns   *)
(* by position (counted from 1 here), built from what the parser made of a  *)
(* CREATE TABLE statement.                                                  *)
(***************************************************************************)
EXTENDS SqlParser

\* column_index, 0 for a column the table does not have.
ColumnIndex(columns, name) == SelectInSeq(columns, LAMBDA c : Folded(c.name) = Folded(name))

\* TableSchema::new: the keys are those of the columns.
NewTable(columns) ==
    LET marked(option) == SetToSortSeq({i \in DOMAIN columns : IsIn(option, columns[i].constraints)}, <)
    IN  IF \E i, j \in DOMAIN columns : i < j /\ Folded(columns[i].name) = Folded(columns[j].name)
        THEN Error("DuplicateColumn")
        ELSE [columns |-> columns, primary_key |-> marked("PrimaryKey"),
              unique_keys |-> [k \in DOMAIN marked("Unique") |-> <<marked("Unique")[k]>>]]

ResolveKey(columns, names) == [i \in DOMAIN names |-> ColumnIndex(columns, names[i])]

\* with_keys: the keys of the statement in the place of those of the columns.
WithKeys(table, primary_key, unique_keys) ==
    LET keys == {ResolveKey(table.columns, primary_key)}
                    \cup {ResolveKey(table.columns, unique_keys[k]) : k \in DOMAIN unique_keys}
    IN  IF \E key \in keys : IsIn(0, key) THEN Error("ColumnNotFound")
        ELSE [table EXCEPT !.primary_key = ResolveKey(table.columns, primary_key),
                           !.unique_keys = [k \in DOMAIN unique_keys |->
                                                ResolveKey(table.columns, unique_keys[k])]]

\* from_create.
FromCreate(create) ==
    LET table == NewTable(create.columns)
    IN  IF Failed(table) THEN table ELSE WithKeys(table, create.primary_key, create.unique_keys)

IsNullable(table, i) ==
    ~IsIn("NotNull", table.columns[i].constraints)
    /\ ~IsIn("PrimaryKey", table.columns[i].constraints) /\ ~IsIn(i, table.primary_key)

\* integer_key_column, 0 if the table has no such key.
IntegerKeyColumn(table) ==
    IF Len(table.primary_key) = 1 /\ table.columns[table.primary_key[1]].type = "Integer"
    THEN table.primary_key[1] ELSE 0
=============================================================================
