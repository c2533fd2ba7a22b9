---------------------------- MODULE Expressions ----------------------------
(***************************************************************************)
(* Scalar expressions, aggregates and row schemas of the planner:           *)
(* planner/expr.rs and planner/schema.rs, and like_match of value.rs.       *)
(*                                                                          *)
(* An expression is a node with the fields of its variant and its children  *)
(* in the order children() lists them.  The closures transform_up and       *)
(* transform_down are given put expressions in the place of columns.        *)
(***************************************************************************)
EXTENDS Values, SequencesExt

Column(id, type) == [node |-> "Column", id |-> id, type |-> type, kids |-> <<>>]
Literal(v) == [node |-> "Literal", value |-> v, kids |-> <<>>]
UnaryNode(op, e) == [node |-> "Unary", op |-> op, kids |-> <<e>>]
BinaryNode(op, l, r) == [node |-> "Binary", op |-> op, kids |-> <<l, r>>]
IsNullNode(e, negated) == [node |-> "IsNull", negated |-> negated, kids |-> <<e>>]
InListNode(e, list, negated) == [node |-> "InList", negated |-> negated, kids |-> <<e>> \o list]
LikeNode(e, negated) == [node |-> "Like", negated |-> negated, kids |-> <<e>>]
FunctionNode(func, args) == [node |-> "Function", func |-> func, kids |-> args]
CastNode(e, to) == [node |-> "Cast", to |-> to, kids |-> <<e>>]
-----------------------------------------------------------------------------
(* Schemas: the fields of a row, each with its column id. *)

Field(id, type, nullable) == [id |-> id, type |-> type, nullable |-> nullable]

\* index_of: the first field with the id, 0 if there is none.
IndexOf(schema, id) == SelectInSeq(schema, LAMBDA f : f.id = id)
SchemaContains(schema, id) == IndexOf(schema, id) # 0
Concat(left, right) == left \o right

\* The side of an outer join that may be missing.  Mutant: nullable as it was.
WithNullableKept(schema, nullable) == schema
WithNullable(schema, nullable) ==
    [i \in DOMAIN schema |-> [schema[i] EXCEPT !.nullable = @ \/ nullable]]
-----------------------------------------------------------------------------
(* Types. *)

AllOf(types, Test(_)) == Len(types) = 1 /\ Test(types[1])

\* ScalarFunction::return_type.
ReturnType(func, types) ==
    CASE func \in {"Upper", "Lower"} /\ AllOf(types, LAMBDA t : IsTextual(t) \/ t = NullType) -> "Text"
      [] func = "Length" /\ AllOf(types, LAMBDA t : IsTextual(t) \/ t = NullType) -> "Integer"
      [] func = "Abs" /\ AllOf(types, LAMBDA t : IsNumeric(t) \/ t = NullType) -> types[1]
      [] func = "Coalesce" /\ types # <<>> ->
            FoldLeft(LAMBDA s, t : IF s = NoType THEN s ELSE Unify(s, t), NullType, types)
      [] OTHER -> NoType

Aggregates == {"Count", "Sum", "Avg", "Max", "Min"}
Star == "*"

\* AggregateFunction::return_type, of an argument's type or of *.
AggregateType(func, t) ==
    CASE func = "Count" -> "Integer"
      [] func = "Sum" /\ IsNumeric(t) -> t
      [] func = "Sum" /\ t = NullType -> "Integer"
      [] func = "Avg" /\ (IsNumeric(t) \/ t = NullType) -> "Float"
      [] func \in {"Min", "Max"} /\ t \notin {Star, "Boolean"} -> t
      [] OTHER -> NoType

\* AggregateCall::nullable.
AggregateNullable(func) == func # "Count"

OrNull(t) == IF t = NoType THEN NullType ELSE t

RECURSIVE DataTypeOf(_)
DataTypeOf(e) ==
    CASE e.node = "Column" -> e.type
      [] e.node = "Literal" -> e.value.type
      [] e.node = "Unary" /\ e.op = "Not" -> "Boolean"
      [] e.node = "Unary" /\ e.op # "Not" -> DataTypeOf(e.kids[1])
      [] e.node = "Binary" /\ e.op \in Comparisons \cup Logical -> "Boolean"
      [] e.node = "Binary" /\ e.op = "Concat" -> "Text"
      [] e.node = "Binary" /\ e.op \in Arithmetic ->
            OrNull(NumericResult(DataTypeOf(e.kids[1]), DataTypeOf(e.kids[2])))
      [] e.node \in {"IsNull", "InList", "Like"} -> "Boolean"
      [] e.node = "Function" ->
            OrNull(ReturnType(e.func, [i \in DOMAIN e.kids |-> DataTypeOf(e.kids[i])]))
      [] e.node = "Cast" -> e.to

\* ScalarExpr::cast.
CastTo(e, to) ==
    IF DataTypeOf(e) = to \/ e = Literal(Null) THEN e ELSE CastNode(e, to)

\* Whether the value may be NULL in a row of the schema.
RECURSIVE Nullable(_, _)
Nullable(e, schema) ==
    CASE e.node = "Column" ->
            SchemaContains(schema, e.id) => schema[IndexOf(schema, e.id)].nullable
      [] e.node = "Literal" -> e.value = Null
      [] e.node = "IsNull" -> FALSE
      [] e.node = "Function" /\ e.func = "Coalesce" ->
            \A i \in DOMAIN e.kids : Nullable(e.kids[i], schema)
      [] OTHER -> \E i \in DOMAIN e.kids : Nullable(e.kids[i], schema)
-----------------------------------------------------------------------------
(* Columns. *)

RECURSIVE ColumnIds(_)
ColumnIds(e) == (IF e.node = "Column" THEN {e.id} ELSE {})
                    \cup UNION {ColumnIds(e.kids[i]) : i \in DOMAIN e.kids}

\* Mutant: bound when some column is in the schema.
IsBoundBySome(e, schema) == \E id \in ColumnIds(e) : SchemaContains(schema, id)
IsBoundBy(e, schema) == \A id \in ColumnIds(e) : SchemaContains(schema, id)

RECURSIVE HasColumn(_)
HasColumn(e) == e.node = "Column" \/ \E i \in DOMAIN e.kids : HasColumn(e.kids[i])
IsConstant(e) == ~HasColumn(e)

\* transform_up: the children first, then the node that has the new children.
RECURSIVE TransformUp(_, _)
TransformUp(e, sub) ==
    LET mapped == [e EXCEPT !.kids = [i \in DOMAIN @ |-> TransformUp(@[i], sub)]]
    IN  IF mapped.node = "Column" /\ mapped.id \in DOMAIN sub THEN sub[mapped.id] ELSE mapped

\* transform_down: a node that is replaced is not entered.
RECURSIVE TransformDown(_, _)
TransformDown(e, sub) ==
    IF e.node = "Column" /\ e.id \in DOMAIN sub THEN sub[e.id]
    ELSE [e EXCEPT !.kids = [i \in DOMAIN @ |-> TransformDown(@[i], sub)]]
-----------------------------------------------------------------------------
(* Conjunctions. *)

RECURSIVE SplitConjunction(_)
SplitConjunction(e) ==
    IF e.node = "Binary" /\ e.op = "And"
    THEN SplitConjunction(e.kids[1]) \o SplitConjunction(e.kids[2])
    ELSE <<e>>

\* conjunction, of a list that is not empty.
Conjunction(es) == FoldLeft(LAMBDA l, r : BinaryNode("And", l, r), Head(es), Tail(es))
-----------------------------------------------------------------------------
(* like_match: the pattern is matched from the left; when it no longer fits, *)
(* the last % passed takes one more character.  Positions count from 0.      *)

Percent == "%"
Underscore == "_"

\* to_lowercase of each character.
FoldCase(cs, ci) == IF ci THEN [i \in DOMAIN cs |-> IF cs[i] = "A" THEN "a" ELSE cs[i]] ELSE cs

\* What is left of the pattern matches no characters.  Mutant: nothing may be left.
NothingLeft(pat, p) == p = Len(pat)
OnlyPercents(pat, p) == \A i \in (p + 1) .. Len(pat) : pat[i] = Percent

RECURSIVE Match(_, _, _, _, _)
Match(text, pat, t, p, back) ==
    IF t = Len(text) THEN OnlyPercents(pat, p)
    ELSE IF p < Len(pat) /\ pat[p + 1] = Percent THEN Match(text, pat, t, p + 1, <<p, t>>)
    ELSE IF p < Len(pat) /\ pat[p + 1] \in {Underscore, text[t + 1]} THEN Match(text, pat, t + 1, p + 1, back)
    ELSE /\ back # <<>>
         /\ Match(text, pat, back[2] + 1, back[1] + 1, <<back[1], back[2] + 1>>)

LikeMatch(text, pat, ci) == Match(FoldCase(text, ci), FoldCase(pat, ci), 0, 0, <<>>)
=============================================================================
