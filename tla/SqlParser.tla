----------------------------- MODULE SqlParser -----------------------------
(***************************************************************************)
(* sql/parser.rs: from the syntax tree of the sqlparser crate to the        *)
(* statements of sql/ast.rs.                                                *)
(*                                                                          *)
(* The conversion decides which statements run and with which of their      *)
(* parts.  Its input is the crate's tree, cut down to what decides: the     *)
(* columns and constraints of CREATE TABLE, the FROM list, the parts of a   *)
(* statement that pick rows, and numerals.  A conversion returns its result *)
(* or an error.                                                             *)
(***************************************************************************)
EXTENDS Expressions

CONSTANTS Folded(_)  \* to_ascii_lowercase of a name

Failed(r) == "error" \in DOMAIN r
IsIn(x, seq) == \E i \in DOMAIN seq : seq[i] = x
\* The list with x at the end, unless x is in it.
Add(seq, x) == IF IsIn(x, seq) THEN seq ELSE Append(seq, x)
-----------------------------------------------------------------------------
(* CREATE TABLE. *)

\* Where a name is in a list of columns, 0 if it is not.
Named(columns, name) == SelectInSeq(columns, LAMBDA c : Folded(c.name) = Folded(name))

\* convert_data_type; a type the engine does not have is an error.
SqlDataType(written) ==
    CASE written \in {"TEXT", "VARCHAR"} -> "Text"
      [] written \in {"INT", "BIGINT"} -> "Integer"
      [] written \in {"REAL", "DECIMAL"} -> "Float"
      [] written \in {"DATE", "TIMESTAMP"} -> "Timestamp"
      [] OTHER -> NoType

\* convert_column_option keeps these, drops NULL and COMMENT and refuses the rest.
KeptOptions == {"NotNull", "Unique", "PrimaryKey", "Default"}
DroppedOptions == {"Null", "Comment"}

\* convert_column_def.
ColumnDef(c) ==
    IF SqlDataType(c.written) = NoType
       \/ ~(Range(c.options) \subseteq KeptOptions \cup DroppedOptions)
    THEN Error("Unsupported")
    ELSE [name |-> c.name, type |-> SqlDataType(c.written),
          constraints |-> FoldLeft(Add, <<>>, SelectSeq(c.options, LAMBDA o : o \in KeptOptions))]

\* constraint_columns: the columns' own spellings, each once.
\* Mutant: the spelling of the constraint.
ConstraintColumnsAsWritten(names, columns) ==
    IF \E i \in DOMAIN names : Named(columns, names[i]) = 0 THEN Error("InvalidIdentifier")
    ELSE [key |-> names]
ConstraintColumns(names, columns) ==
    IF \E i \in DOMAIN names : Named(columns, names[i]) = 0 THEN Error("InvalidIdentifier")
    ELSE LET own == [i \in DOMAIN names |-> columns[Named(columns, names[i])].name]
         IN  IF Cardinality(Range(own)) # Len(own) THEN Error("InvalidIdentifier")
             ELSE [key |-> own]

\* One table constraint, after the ones before it.
AddConstraint(keys, constraint, columns) ==
    LET own == ConstraintColumns(constraint.names, columns)
    IN  IF Failed(keys) THEN keys
        ELSE IF \/ constraint.kind \notin {"PrimaryKey", "Unique"}
                \/ constraint.kind = "PrimaryKey" /\ keys.primary_key # <<>>
             THEN Error("Unsupported")
        ELSE IF Failed(own) THEN own
        ELSE IF constraint.kind = "PrimaryKey" THEN [keys EXCEPT !.primary_key = own.key]
        ELSE [keys EXCEPT !.unique_keys = Add(@, own.key)]

With(columns, option) == SelectSeq(columns, LAMBDA c : IsIn(option, c.constraints))

\* The constraints a column has through the keys.
MarkKeys(c, keys) ==
    LET pk == IF IsIn(c.name, keys.primary_key) THEN Add(c.constraints, "PrimaryKey")
                                                ELSE c.constraints
    IN  [c EXCEPT !.constraints = IF IsIn(<<c.name>>, keys.unique_keys) THEN Add(pk, "Unique") ELSE pk]

\* convert_create_table; flags are the clauses CREATE TABLE does not take.
ConvertCreateTable(create) ==
    LET columns == [i \in DOMAIN create.columns |-> ColumnDef(create.columns[i])]
        names(option) == [i \in DOMAIN With(columns, option) |-> With(columns, option)[i].name]
        start == [primary_key |-> names("PrimaryKey"),
                  unique_keys |-> [i \in DOMAIN names("Unique") |-> <<names("Unique")[i]>>]]
        keys == FoldLeft(LAMBDA k, c : AddConstraint(k, c, columns), start, create.constraints)
    IN  IF create.flags # {} \/ \E i \in DOMAIN columns : Failed(columns[i])
        THEN Error("Unsupported")
        ELSE IF Len(start.primary_key) > 1 THEN Error("Unsupported")
        ELSE IF Failed(keys) THEN keys
        ELSE [columns |-> [i \in DOMAIN columns |-> MarkKeys(columns[i], keys)],
              primary_key |-> keys.primary_key, unique_keys |-> keys.unique_keys]
-----------------------------------------------------------------------------
(* FROM. *)

JoinType(op) == CASE op \in {"Join", "Inner"} -> "Inner"
                  [] op \in {"Left", "LeftOuter"} -> "Left"
                  [] op \in {"Right", "RightOuter"} -> "Right"
                  [] op = "FullOuter" -> "Full"
                  [] op = "CrossJoin" -> "Cross"
                  [] OTHER -> NoType

\* extract_table_factor: table functions, derived tables and column aliases are
\* errors; TABLESAMPLE, a version or partitions after the name ("Partition") are
\* not looked at.
TableFactor(factor) ==
    IF factor.clause \in {"Args", "Derived", "ColumnAliases"} THEN Error("Unsupported")
    ELSE [table |-> factor.table]

\* convert_join.
ConvertJoin(j) ==
    LET type == JoinType(j.op)
    IN  IF \/ Failed(TableFactor(j.factor))
           \/ type = NoType
           \/ j.constraint.kind \in {"Using", "Natural"}
           \/ (type = "Cross") = (j.constraint.kind = "On")
        THEN Error("Unsupported")
        ELSE [table |-> j.factor.table, type |-> type, on |-> j.constraint.with]

CrossWith(factor) ==
    ConvertJoin([op |-> "CrossJoin", factor |-> factor, constraint |-> [kind |-> "None", with |-> ""]])

\* convert_from: every table after a comma is cross joined to what comes before it.
\* Mutant: the joins of the later items are forgotten.
ConvertFromFirst(from) ==
    IF from = <<>> THEN Error("MissingClause")
    ELSE LET joins == [i \in DOMAIN from[1].joins |-> ConvertJoin(from[1].joins[i])]
                          \o [i \in DOMAIN Tail(from) |-> CrossWith(from[i + 1].factor)]
         IN  IF Failed(TableFactor(from[1].factor)) \/ \E i \in DOMAIN joins : Failed(joins[i])
             THEN Error("Unsupported")
             ELSE [base |-> from[1].factor.table, joins |-> joins]
ConvertFrom(from) ==
    IF from = <<>> THEN Error("MissingClause")
    ELSE LET own(item) == [i \in DOMAIN item.joins |-> ConvertJoin(item.joins[i])]
             joins == FoldLeft(LAMBDA js, item : js \o <<CrossWith(item.factor)>> \o own(item),
                               own(from[1]), Tail(from))
         IN  IF Failed(TableFactor(from[1].factor)) \/ \E i \in DOMAIN joins : Failed(joins[i])
             THEN Error("Unsupported")
             ELSE [base |-> from[1].factor.table, joins |-> joins]
-----------------------------------------------------------------------------
(* The rows a statement picks. *)

\* What stands after LIMIT or OFFSET: nothing, a numeral, or something else.
NotGiven == -1
IsUsize(n) == n >= 0

\* Whether convert_query takes the rest of the query: clause is what it has besides,
\* WITH, ORDER BY, FOR clauses and locks ("Locks"), SETTINGS and FORMAT ("Settings"),
\* or a clause every statement of the kind refuses ("Other").
QueryTaken(s) == {s.fetch, s.pipe} = {NotGiven} /\ s.clause \in {"None", "OrderBy", "Settings"}

\* The limit and the offset of a query.
Window(l) == IF l.form = "OffsetCommaLimit" THEN [limit |-> l.second, offset |-> l.first]
                                            ELSE [limit |-> l.first, offset |-> l.second]

\* convert_query, for what picks rows.
ConvertQuery(s) ==
    LET w == Window(s.window)
    IN  IF \/ ~QueryTaken(s)
           \/ s.window.form = "LimitBy"
           \/ \E n \in {w.limit, w.offset} : n # NotGiven /\ ~IsUsize(n)
        THEN Error("Unsupported")
        ELSE [where |-> s.where, limit |-> w.limit, offset |-> w.offset]

\* convert_insert: VALUES take no ORDER BY, LIMIT or WITH; FETCH, FOR clauses, pipe
\* operators and SETTINGS after them are not looked at.  A query is converted as one.
ConvertInsert(s) ==
    IF s.source = "Select" THEN ConvertQuery(s)
    ELSE IF s.window.form # "None" \/ s.clause \in {"OrderBy", "With", "Other"}
         THEN Error("Unsupported")
    ELSE [where |-> s.where, limit |-> NotGiven, offset |-> NotGiven]

\* convert_update and convert_delete: one table, no LIMIT, no other clause.
AllRows(s) ==
    IF s.window.form # "None" \/ s.clause # "None" THEN Error("Unsupported")
    ELSE [where |-> s.where, limit |-> NotGiven, offset |-> NotGiven]
ConvertUpdate(s) == AllRows(s)
ConvertDelete(s) == AllRows(s)

\* convert_statement.
ConvertRowStatement(s) ==
    CASE s.kind = "Select" -> ConvertQuery(s)
      [] s.kind = "Insert" -> ConvertInsert(s)
      [] s.kind = "Update" -> ConvertUpdate(s)
      [] s.kind = "Delete" -> ConvertDelete(s)
-----------------------------------------------------------------------------
(* Numerals: digits, with a point or without.  as is the number in halves. *)

\* convert_value.
LiteralOf(numeral) ==
    IF ~numeral.point /\ numeral.as \div 2 \in Ints THEN Integer(numeral.as \div 2)
    ELSE Float(Number(Nearest(numeral.as, 1), FALSE))
=============================================================================
