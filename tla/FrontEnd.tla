------------------------------ MODULE FrontEnd ------------------------------
(***************************************************************************)
(* What the parts of the SQL front end promise one another, from the text   *)
(* of a statement to the values of its expressions.  They are functions:    *)
(* each step asks one of them one question, and a promise is checked in the *)
(* state that holds the question.                                           *)
(*                                                                          *)
(* The repository has no executor yet.  Eval, Aggregate, the meaning of a   *)
(* FROM list and the rows a statement picks are written here from SQL, as   *)
(* the reference the planner's and the parser's answers are compared with.  *)
(***************************************************************************)
EXTENDS Catalog

CONSTANTS
    SomeValues,        \* values that are compared and computed with
    RowValues,         \* values of the columns of a row
    Schemas,           \* [left, right]: the schemas of two sides of a join
    Exprs(_),          \* expressions over the columns of such a pair
    Subs,              \* functions from column ids to expressions of the column's type
    Strings, Patterns, \* sequences of characters
    Creates,           \* CREATE TABLE statements
    Froms,             \* FROM lists
    Contents,          \* what may be in the tables: table -> the values of its column
    RowStatements,     \* statements and the rows their WHERE holds for
    Numerals

VARIABLE question

None == [ask |-> "nothing"]
Init == question = None

Idle == question = None
Ask(q) == question' = q

\* The values of SomeValues that a column of the type can hold.
Inhabits(v, t) == v = Null \/ v.type = t \/ (v.type = "Text" /\ IsTextual(t))
ValuesOf(t) == {v \in SomeValues : Inhabits(v, t)}

CompareValues == Idle /\ \E u, v, w \in SomeValues : Ask([ask |-> "compare", values |-> <<u, v, w>>])
Convert == Idle /\ \E v \in SomeValues : Ask([ask |-> "convert", value |-> v])
Compute == Idle /\ \E op \in Arithmetic, v, w \in SomeValues :
    Ask([ask |-> "compute", op |-> op, left |-> v, right |-> w])
CommonType == Idle /\ \E s, t, u \in Types : Ask([ask |-> "types", types |-> <<s, t, u>>])
MatchPattern == Idle /\ \E s \in Strings, p \in Patterns, ci \in BOOLEAN :
    Ask([ask |-> "like", text |-> s, pattern |-> p, ci |-> ci])
Plan == Idle /\ \E sc \in Schemas : \E e \in Exprs(sc) :
    Ask([ask |-> "plan", schemas |-> sc, expr |-> e])
AggregateGroup == Idle /\ \E func \in Aggregates, t \in Types :
    \E group \in UNION {[1 .. n -> ValuesOf(t)] : n \in 0 .. 2} :
        Ask([ask |-> "aggregate", func |-> func, type |-> t, group |-> group])
CreateTable == Idle /\ \E c \in Creates : Ask([ask |-> "create", create |-> c])
ParseFrom == Idle /\ \E f \in Froms : Ask([ask |-> "from", from |-> f])
ParseRows == Idle /\ \E s \in RowStatements : Ask([ask |-> "rows", statement |-> s])
ReadNumerals == Idle /\ \E m, n \in Numerals : Ask([ask |-> "numerals", numerals |-> <<m, n>>])
Forget == question # None /\ question' = None

Next == \/ CompareValues \/ Convert \/ Compute \/ CommonType \/ MatchPattern \/ Plan
        \/ AggregateGroup \/ CreateTable \/ ParseFrom \/ ParseRows \/ ReadNumerals \/ Forget

Spec == Init /\ [][Next]_question

Asked(what) == question.ask = what
-----------------------------------------------------------------------------
(* Values. *)

\* Ord::cmp is a total order of the values, and equal in it means equal by
\* PartialEq: sorting and ordered maps rely on both, through the rounding that a
\* comparison of an integer with a float does.
OrderIsTotal == Asked("compare") =>
    LET u == question.values[1]  v == question.values[2]  w == question.values[3]
    IN  /\ Cmp(v, u) = -Cmp(u, v)
        /\ (Cmp(u, v) = Equal) = Eq(u, v)
        /\ Cmp(u, v) # Greater /\ Cmp(v, w) # Greater => Cmp(u, w) # Greater

\* Values that are equal by PartialEq have the same hash, -0.0 and 0.0 and every
\* NaN among them, so a hash table of groups keeps them together.
HashAgrees == Asked("compare") =>
    (Eq(question.values[1], question.values[2]) =>
        Hash(question.values[1]) = Hash(question.values[2]))

\* Where SQL puts one value before another, so does the order that sorts, and a
\* comparison flipped with its operands says the same.
ComparisonAgrees == Asked("compare") =>
    LET v == question.values[1]  w == question.values[2]
    IN  /\ Binary("Lt", v, w) = Boolean(TRUE) => Cmp(v, w) = Less
        /\ \A op \in Comparisons : Binary(Flip(op), w, v) = Binary(op, v, w)

\* One order for sorting, ordered maps, hash tables and comparisons.
OrderAgrees == OrderIsTotal /\ HashAgrees /\ ComparisonAgrees

\* Types are comparable by is_comparable_with exactly when no two of their values
\* fail to compare.  The common type of a list (COALESCE) does not depend on the
\* list's order, and every value of the list's types can be cast to it.
TypesAgree == Asked("types") =>
    LET s == question.types[1]  t == question.types[2]  u == question.types[3]
        OrNone(x, y) == IF NoType \in {x, y} THEN NoType ELSE Unify(x, y)
    IN  /\ "Timestamp" \notin {s, t} =>
              (IsComparableWith(s, t) <=> \A v \in ValuesOf(s), w \in ValuesOf(t) :
                                              IsValue(Binary("Eq", v, w)))
        /\ Unify(s, t) = Unify(t, s)
        /\ OrNone(Unify(s, t), u) = OrNone(s, Unify(t, u))
        /\ Unify(s, t) # NoType => \A v \in ValuesOf(s) : IsValue(Cast(v, Unify(s, t)))

\* What can_assign_to lets into a column without a question can be cast to the
\* column's type, and what a cast gives is NULL exactly for NULL and else of the type.
AssignmentsSucceed == Asked("convert") =>
    LET v == question.value
    IN  \A t \in Types :
            /\ CanAssignTo(v.type, t) => IsValue(Cast(v, t))
            /\ IsValue(Cast(v, t)) => /\ Inhabits(Cast(v, t), t)
                                      /\ Cast(v, t) = Null <=> v = Null

\* A value comes back from its text; a float comes back from an integer but for its
\* fraction, i64::MAX as f64, which is above i64::MAX, included; and an integer can
\* always be cast to a float and back, to the same float.
ConversionsComeBack == Asked("convert") =>
    LET v == question.value
    IN  /\ v.type \in {"Boolean", "Integer", "Float"} => Eq(Cast(Cast(v, "Text"), v.type), v)
        /\ v.type = "Float" /\ IsValue(Cast(v, "Integer")) =>
              SqlCmp(Cast(Cast(v, "Integer"), "Float"), Float(Number(2 * RoundHalf(v.float.at), FALSE))) = Equal
        /\ v.type = "Integer" =>
              LET f == Cast(v, "Float")
              IN  IsValue(Cast(f, "Integer")) /\ Eq(Cast(Cast(f, "Integer"), "Float"), f)

\* Arithmetic gives a value of the type the planner computes, an integer within i64,
\* never an infinite float or a NaN; what division leaves is what % gives; and two
\* integers only fail to give a result that is no integer of 64 bits, but for
\* i64::MIN % -1.
ArithmeticSound == Asked("compute") =>
    LET v == question.left  w == question.right  r == Binary(question.op, v, w)
        Div == Binary("Divide", v, w)
    IN  /\ IsValue(r) => Inhabits(r, NumericResult(v.type, w.type)) \/ r = Null
        /\ IsValue(r) /\ r.type = "Integer" => r.int \in Ints
        /\ IsValue(r) /\ r.type = "Float" => Finite(r.float)
        /\ question.op = "Modulo" /\ v.type = "Integer" /\ w.type = "Integer" /\ IsValue(r) =>
              /\ IsValue(Div) /\ v.int = w.int * Div.int + r.int
              /\ Abs(r.int) < Abs(w.int) /\ (r.int = 0 \/ (r.int < 0) = (v.int < 0))
        /\ v.type = "Integer" /\ w.type = "Integer" /\ ~IsValue(r) =>
              \/ w.int = 0 /\ question.op \in {"Divide", "Modulo"}
              \/ question.op = "Plus" /\ v.int + w.int \notin Ints
              \/ question.op = "Minus" /\ v.int - w.int \notin Ints
              \/ question.op = "Multiply" /\ v.int * w.int \notin Ints
              \/ question.op \in {"Divide", "Modulo"} /\ v.int = MinInt /\ w.int = -1

\* LIKE, by its definition.
RECURSIVE Like(_, _)
Like(text, pat) ==
    IF pat = <<>> THEN text = <<>>
    ELSE IF Head(pat) = Percent
         THEN \E i \in 0 .. Len(text) : Like(SubSeq(text, i + 1, Len(text)), Tail(pat))
    ELSE text # <<>> /\ Head(pat) \in {Underscore, Head(text)} /\ Like(Tail(text), Tail(pat))

\* The loop of like_match, which goes back to the last % only, finds a match whenever
\* there is one.
LikeMatches == Asked("like") =>
    (LikeMatch(question.text, question.pattern, question.ci)
        <=> Like(FoldCase(question.text, question.ci), FoldCase(question.pattern, question.ci)))

\* The operators that are computed step by step come to what SQL defines.
OperatorsSound == ArithmeticSound /\ LikeMatches
-----------------------------------------------------------------------------
(* Expressions. *)

Apply(func, vs) ==
    CASE func = "Coalesce" -> IF \E i \in DOMAIN vs : vs[i] # Null
                              THEN vs[SelectInSeq(vs, LAMBDA v : v # Null)] ELSE Null
      [] func # "Coalesce" /\ Len(vs) # 1 -> Error("TypeMismatch")
      [] func # "Coalesce" /\ vs = <<Null>> -> Null
      [] func \in {"Upper", "Lower"} /\ Len(vs) = 1 /\ vs[1].type = "Text" -> vs[1]
      [] func = "Length" /\ Len(vs) = 1 /\ vs[1].type = "Text" -> Integer(1)
      [] func = "Abs" /\ Len(vs) = 1 /\ IsNumeric(vs[1].type) ->
            IF vs[1].type = "Integer" THEN Checked(Abs(vs[1].int))
            ELSE Float([vs[1].float EXCEPT !.at = Abs(@), !.neg = FALSE])
      [] OTHER -> Error("TypeMismatch")

FirstError(vs) == vs[SelectInSeq(vs, LAMBDA r : ~IsValue(r))]
Strict(vs, Result(_)) == IF \A i \in DOMAIN vs : IsValue(vs[i]) THEN Result(vs) ELSE FirstError(vs)

\* The value of an expression in a row, by SQL.
RECURSIVE Eval(_, _, _)
Eval(e, schema, row) ==
    Strict([i \in DOMAIN e.kids |-> Eval(e.kids[i], schema, row)], LAMBDA vs :
        CASE e.node = "Column" ->
                IF SchemaContains(schema, e.id) THEN row[IndexOf(schema, e.id)]
                ELSE Error("ColumnOutOfRange")
          [] e.node = "Literal" -> e.value
          [] e.node = "Unary" -> Unary(e.op, vs[1])
          [] e.node = "Binary" -> Binary(e.op, vs[1], vs[2])
          [] e.node = "IsNull" -> Boolean((vs[1] = Null) # e.negated)
          [] e.node = "InList" ->
                Strict([i \in DOMAIN Tail(vs) |-> Binary("Eq", vs[1], vs[i + 1])],
                       LAMBDA eqs : LET found == FoldLeft(Or3, Boolean(FALSE), eqs)
                                    IN  IF e.negated THEN Unary("Not", found) ELSE found)
          [] e.node = "Like" ->
                IF vs[1] = Null THEN Null
                ELSE IF vs[1].type # "Text" THEN Error("TypeMismatch")
                ELSE Boolean((vs[1].text = Joined) # e.negated)
          [] e.node = "Function" -> Apply(e.func, vs)
          [] e.node = "Cast" -> Cast(vs[1], e.to))

\* The rows a schema describes.
RowsOf(schema) ==
    {row \in [DOMAIN schema -> RowValues] :
        \A i \in DOMAIN schema : /\ Inhabits(row[i], schema[i].type)
                                 /\ row[i] = Null => schema[i].nullable}
NoRow(schema) == [i \in DOMAIN schema |-> Null]

\* A left join: the rows of both sides, and rows of the left with none of the right.
JoinSchema == Concat(question.schemas.left, WithNullable(question.schemas.right, TRUE))
LeftRows == RowsOf(question.schemas.left)
RightRows == RowsOf(question.schemas.right) \cup {NoRow(question.schemas.right)}
ValueIn(l, r) == Eval(question.expr, JoinSchema, l \o r)

\* data_type: the value of an expression has the type the planner computed before it
\* saw any row, through functions, casts and COALESCE of several types.
DataTypeSound == Asked("plan") =>
    \A l \in LeftRows, r \in RightRows :
        IsValue(ValueIn(l, r)) => Inhabits(ValueIn(l, r), DataTypeOf(question.expr))

\* nullable: an expression the planner calls not nullable is never NULL, in the rows
\* an outer join fills up either.
NullableSound == Asked("plan") /\ ~Nullable(question.expr, JoinSchema) =>
    \A l \in LeftRows, r \in RightRows : ValueIn(l, r) # Null

\* is_bound_by: a predicate bound by one side of a join says the same of that side's
\* row as of the joined row: it has the same value on both sides of the join.  A
\* constant one needs no row at all.  Whether a filter may change sides is more than
\* this: over an outer join it may not.
BoundSideSuffices == Asked("plan") =>
    \A l \in LeftRows, r \in RightRows :
        /\ IsBoundBy(question.expr, question.schemas.left) =>
              Eval(question.expr, question.schemas.left, l) = ValueIn(l, r)
        /\ IsBoundBy(question.expr, question.schemas.right) =>
              Eval(question.expr, question.schemas.right, r) = ValueIn(l, r)
        /\ IsConstant(question.expr) => Eval(question.expr, <<>>, <<>>) = ValueIn(l, r)

\* transform_up and transform_down: a column replaced by an expression, of which it
\* may be a part, is replaced once and everywhere: the result has in a row the value
\* the expression has when the column holds the value of the replacement.
SubstitutionSound == Asked("plan") =>
    \A sub \in Subs : LET e == TransformDown(question.expr, sub) IN
        /\ e = TransformUp(question.expr, sub)
        /\ DataTypeOf(e) = DataTypeOf(question.expr)
        /\ \A l \in LeftRows, r \in RightRows :
               LET held == [id \in DOMAIN sub |-> Eval(sub[id], JoinSchema, l \o r)]
                   row == [i \in DOMAIN JoinSchema |->
                              IF JoinSchema[i].id \in DOMAIN sub THEN held[JoinSchema[i].id]
                                                                 ELSE (l \o r)[i]]
               IN  (\A id \in DOMAIN sub : IsValue(held[id])) =>
                       Eval(e, JoinSchema, l \o r) = Eval(question.expr, JoinSchema, row)

\* split_conjunction and conjunction: a row passes a filter exactly when it passes
\* each part of it, and the parts put together again have the filter's value.
SplitFilters == Asked("plan") =>
    LET parts == SplitConjunction(question.expr)
        again == Conjunction(parts)
    IN  \A l \in LeftRows, r \in RightRows :
            /\ ValueIn(l, r) = Boolean(TRUE) <=>
                  \/ Len(parts) = 1 /\ ValueIn(l, r) = Boolean(TRUE)
                  \/ Len(parts) > 1 /\ \A i \in DOMAIN parts :
                                          Eval(parts[i], JoinSchema, l \o r) = Boolean(TRUE)
            /\ \/ Eval(again, JoinSchema, l \o r) = ValueIn(l, r)
               \/ ~IsValue(Eval(again, JoinSchema, l \o r)) /\ ~IsValue(ValueIn(l, r))

\* Evaluated below a join, substituted into, or split and joined, an expression keeps
\* its value.
RewritesSound == BoundSideSuffices /\ SubstitutionSound /\ SplitFilters

\* The value of an aggregate of a group, by SQL.
Aggregate(func, group) ==
    LET vs == SelectSeq(group, LAMBDA v : v # Null)
        sum == FoldLeft(LAMBDA s, v : IF IsValue(s) THEN Binary("Plus", s, v) ELSE s, Head(vs), Tail(vs))
        Before(v, w) == IF func = "Max" THEN Cmp(v, w) = Greater ELSE Cmp(v, w) = Less
    IN  IF func = "Count" THEN Checked(Len(vs))
        ELSE IF vs = <<>> THEN Null
        ELSE CASE func = "Sum" -> sum
               [] func = "Avg" -> IF IsValue(sum) THEN Binary("Divide", Cast(sum, "Float"), Integer(Len(vs)))
                                                  ELSE sum
               [] OTHER -> FoldLeft(LAMBDA m, v : IF Before(v, m) THEN v ELSE m, Head(vs), Tail(vs))

\* The type and the nullability the planner gives an aggregate are those of its
\* value, in an empty group and a group of NULLs too.
AggregateSound == Asked("aggregate") =>
    LET t == AggregateType(question.func, question.type)
        v == Aggregate(question.func, question.group)
    IN  t # NoType /\ IsValue(v) => Inhabits(v, t) /\ (v = Null => AggregateNullable(question.func))

\* What the planner says of expressions and aggregates before it sees a row, type
\* and nullability, is true of every row.
AnalysisSound == DataTypeSound /\ NullableSound /\ AggregateSound
-----------------------------------------------------------------------------
(* Statements. *)

Positions(create, names) == [i \in DOMAIN names |-> Named(create.columns, names[i])]
\* The keys a CREATE TABLE declares, at columns and as constraints of the table.
Declared(create, kind) ==
    {<<i>> : i \in {j \in DOMAIN create.columns : IsIn(kind, create.columns[j].options)}}
        \cup {Positions(create, create.constraints[k].names) :
                 k \in {k \in DOMAIN create.constraints : create.constraints[k].kind = kind}}

\* A table that is created has exactly the keys its statement declares, whatever case
\* the names are written in, a composite key in the order written; its columns' own
\* constraints say the same as its keys, and its columns are nullable accordingly.
\* The catalog refuses no statement the parser took, but for a repeated column.
KeysAsDeclared == Asked("create") =>
    LET create == question.create
        parsed == ConvertCreateTable(create)
        table == FromCreate(parsed)
    IN  ~Failed(parsed) =>
            IF Failed(table)
            THEN \E i, j \in DOMAIN create.columns :
                     i # j /\ Folded(create.columns[i].name) = Folded(create.columns[j].name)
            ELSE /\ Declared(create, "PrimaryKey") = {table.primary_key} \ {<<>>}
                 /\ Declared(create, "Unique") = Range(table.unique_keys)
                 /\ \A key \in {table.primary_key} \cup Range(table.unique_keys) :
                        Cardinality(Range(key)) = Len(key)
                 /\ \A i \in DOMAIN table.columns :
                       LET marks == table.columns[i].constraints
                       IN  /\ IsIn("PrimaryKey", marks) <=> IsIn(i, table.primary_key)
                           /\ IsIn("Unique", marks) <=> IsIn(<<i>>, table.unique_keys)
                           /\ IsNullable(table, i) <=> /\ ~IsIn("NotNull", create.columns[i].options)
                                                       /\ ~IsIn(i, table.primary_key)
                 /\ IntegerKeyColumn(table) # 0 => ~IsNullable(table, IntegerKeyColumn(table))

\* Rows of joined tables: table -> value, 0 for NULL.  The rows of the tables in
\* scope, joined with one more.
JoinRows(scope, rows, j, contents) ==
    LET Match2(r, v) == j.on = "" \/ (r[j.on] # 0 /\ r[j.on] = v)
        vs == contents[j.table]
        both == {r @@ (j.table :> v) : <<r, v>> \in {p \in rows \X vs : Match2(p[1], p[2])}}
        leftOnly == {r @@ (j.table :> 0) : r \in {x \in rows : \A v \in vs : ~Match2(x, v)}}
        rightOnly == {[t \in scope |-> 0] @@ (j.table :> v) :
                          v \in {x \in vs : \A r \in rows : ~Match2(r, x)}}
    IN  both \cup (IF j.type \in {"Left", "Full"} THEN leftOnly ELSE {})
             \cup (IF j.type \in {"Right", "Full"} THEN rightOnly ELSE {})

\* Joins apply from left to right.
JoinAll(base, joins, contents) ==
    FoldLeft(LAMBDA acc, j : [scope |-> acc.scope \cup {j.table},
                              rows |-> JoinRows(acc.scope, acc.rows, j, contents)],
             [scope |-> {base}, rows |-> {(base :> v) : v \in contents[base]}], joins).rows

\* SQL joins the tables of each item, then takes the product of the items.  Of a table
\* with a partition named, the rows with 1 are in it.
ItemRows(item, contents) ==
    LET factors == {item.factor} \cup {item.joins[i].factor : i \in DOMAIN item.joins}
        inPart == {f.table : f \in {g \in factors : g.clause = "Partition"}}
    IN  JoinAll(item.factor.table,
                [i \in DOMAIN item.joins |-> [table |-> item.joins[i].factor.table,
                                              type |-> JoinType(item.joins[i].op),
                                              on |-> item.joins[i].constraint.with]],
                [t \in DOMAIN contents |-> IF t \in inPart THEN contents[t] \cap {1}
                                                             ELSE contents[t]])
FromRows(from, contents) ==
    FoldLeft(LAMBDA rows, item : {l @@ r : l \in rows, r \in ItemRows(item, contents)},
             ItemRows(from[1], contents), Tail(from))

\* Whether the list of joins that convert_from makes of a FROM list gives, joined from
\* left to right, the rows of the FROM list, whatever the tables hold.
SameRows(from) ==
    LET ref == ConvertFrom(from)
    IN  ~Failed(ref) => \A contents \in Contents :
            JoinAll(ref.base, ref.joins, contents) = FromRows(from, contents)

\* What the conversion is known to get wrong: a RIGHT or FULL join in an item after a
\* comma, which fills up rows of all items before it; and what extract_table_factor drops.
OuterAfterComma(from) ==
    \E i \in 2 .. Len(from) : \E j \in DOMAIN from[i].joins :
        JoinType(from[i].joins[j].op) \in {"Right", "Full"}
DropsClause(from) ==
    \E i \in DOMAIN from : \/ from[i].factor.clause = "Partition"
                            \/ \E j \in DOMAIN from[i].joins :
                                  from[i].joins[j].factor.clause = "Partition"

\* The rows a limit and an offset leave of some rows, which are numbered in their order.
Limited(rows, limit, offset) ==
    LET skip == IF offset = NotGiven THEN 0 ELSE offset
        Rank2(r) == Cardinality({x \in rows : x <= r})
    IN  {r \in rows : Rank2(r) > skip /\ (limit = NotGiven \/ Rank2(r) <= skip + limit)}

\* Whether a statement, if it is accepted, reads, inserts, changes or deletes the rows its
\* text picks and no others: no LIMIT, OFFSET, FETCH or |> LIMIT is passed over, and none
\* is taken for another.
SameRowsPicked(s) ==
    LET c == ConvertRowStatement(s)
        w == s.window
        windowed == CASE w.form = "LimitOffset" -> Limited(s.where, w.first, w.second)
                      [] w.form = "OffsetCommaLimit" -> Limited(s.where, w.second, w.first)
                      [] OTHER -> s.where
    IN  ~Failed(c) => /\ s.clause \notin {"With", "Other"}
                      /\ w.form # "LimitBy" /\ {w.first, w.second} \subseteq -1 .. 9
                      /\ Limited(c.where, c.limit, c.offset)
                             = Limited(Limited(windowed, s.fetch, NotGiven), s.pipe, NotGiven)

\* convert_insert passes over FETCH and pipe operators after VALUES.
FewerValues(s) == s.source = "Values" /\ {s.fetch, s.pipe} # {NotGiven}

\* A statement that is accepted means what its text says: convert_from and convert_join
\* give the rows of its FROM list, and the conversion of the statement picks of those the
\* rows its text picks.  Three forms that are accepted are excluded; CommasMean and
\* ValuesMean speak of two of them.
StatementsMean ==
    /\ Asked("from") => \/ SameRows(question.from)
                        \/ OuterAfterComma(question.from) \/ DropsClause(question.from)
    /\ Asked("rows") => SameRowsPicked(question.statement) \/ FewerValues(question.statement)

\* A FROM list with commas means the product of its items, RIGHT and FULL joins in them
\* included, as the cross join says that convert_from makes of a comma.
CommasMean == Asked("from") => SameRows(question.from) \/ DropsClause(question.from)

\* A statement with VALUES, and no pipe operator, inserts the rows its text picks of
\* them or is refused, as convert_insert refuses a LIMIT and convert_query a FETCH.
ValuesMean == Asked("rows") /\ question.statement.pipe = NotGiven => SameRowsPicked(question.statement)

\* convert_value: a whole numeral is the integer it writes as long as i64 has it, with
\* its minus too, but for i64::MIN; and of two numerals the larger is not the smaller
\* value, one being an integer and the other a float among them.
LiteralsMean == Asked("numerals") =>
    LET m == question.numerals[1]  n == question.numerals[2]
    IN  /\ ~m.point /\ m.as \div 2 <= MaxInt =>
              /\ LiteralOf(m) = Integer(m.as \div 2)
              /\ Unary("Minus", LiteralOf(m)) = Integer(-(m.as \div 2))
        /\ m.as <= n.as => SqlCmp(LiteralOf(m), LiteralOf(n)) # Greater

\* A value keeps what it means from the numeral of the text through the types and
\* casts of the plan.
ConversionsSound == TypesAgree /\ AssignmentsSucceed /\ ConversionsComeBack /\ LiteralsMean
=============================================================================
