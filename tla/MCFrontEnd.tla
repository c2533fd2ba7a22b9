---------------------------- MODULE MCFrontEnd ----------------------------
EXTENDS FrontEnd

\* i64 has four bits, so -8..7; f64 a mantissa of two bits: 5 and 7 are no floats,
\* and i64::MAX as f64 is above i64::MAX.  Positions are halves: 24 is the float 12.0.
MCMinInt == -8
MCMagnitudes == {0, 1, 2, 3, 4, 6, 8, 12, 16, 24}
MCInfinity == 32
MCFloatPositions == MCMagnitudes \cup {-m : m \in MCMagnitudes}
\* Round to nearest, a tie to the float of even mantissa, which is every second one.
MCNearest(p, q) ==
    LET grid == MCMagnitudes \cup {MCInfinity}
        a == Abs(p)
        low == Max({g \in grid : g * q <= a})
        high == Min({g \in grid : g * q >= a} \cup {MCInfinity})
        even(g) == Cardinality({h \in grid : h < g}) % 2 = 0
        m == IF a - low * q < high * q - a \/ (a - low * q = high * q - a /\ even(low))
             THEN low ELSE high
    IN  IF p < 0 THEN -m ELSE m

MCTextRank(t) ==
    CASE t.spells = "number" -> 10 + t.as [] t.spells = "-0" -> 100 [] t.spells = "inf" -> 101
      [] t.spells = "-inf" -> 102 [] t.spells = "NaN" -> 103 [] t.spells = "true" -> 104
      [] t.spells = "false" -> 105 [] t.spells = "nothing" -> IF t.as = "x" THEN 106 ELSE 107
MCFolded(name) == IF name = "A" THEN "a" ELSE name

NaN(neg) == [nan |-> TRUE, at |-> 0, neg |-> neg]
Spells(s, as) == Text([spells |-> s, as |-> as])
MCValues ==
    {Null, Boolean(FALSE), Boolean(TRUE)} \cup {Integer(i) : i \in {-8, -3, -1, 0, 2, 4, 5, 6, 7}}
    \cup {Float(Number(at, at < 0)) : at \in {-16, -1, 0, 3, 8, 12, 16, 24, 32, -32}}
    \cup {Float(Number(0, TRUE)), Float(NaN(FALSE)), Float(NaN(TRUE))}
    \cup {Spells("number", 10), Spells("-0", 0), Spells("true", 0), Spells("nothing", "x")}
MCRowValues == {Null, Integer(0), Integer(5), Boolean(FALSE), Boolean(TRUE),
                Float(Number(3, FALSE)), Float(NaN(FALSE))}

\* Expressions of two columns of one side of a join and one of the other.
MCSchemas == {[left |-> <<Field(1, "Integer", FALSE), Field(2, "Boolean", TRUE)>>,
               right |-> <<Field(3, "Float", FALSE)>>]}
C1 == Column(1, "Integer")
C2 == Column(2, "Boolean")
C3 == Column(3, "Float")
Leaves == {C1, C2, C3} \cup {Literal(v) : v \in {Null, Integer(7), Boolean(TRUE), Spells("number", 10),
                                                Spells("nothing", "x")}}
UnaryOver(es) == {UnaryNode(op, e) : op \in UnaryOps, e \in es}
BinaryOver(ops, ls, rs) == {BinaryNode(op, l, r) : op \in ops, l \in ls, r \in rs}
CastsOver(es) == {CastNode(e, t) : e \in es, t \in Types \ {NullType}}
TestsOver(es) == {IsNullNode(e, neg) : e \in es, neg \in BOOLEAN}
                     \cup {LikeNode(e, neg) : e \in es, neg \in BOOLEAN}
                     \cup {InListNode(e, <<Literal(Integer(0)), f>>, neg) : e \in es, f \in Leaves, neg \in BOOLEAN}
\* COALESCE casts its arguments to their common type.
CoalesceOver(es) ==
    LET type(args) == ReturnType("Coalesce", [i \in DOMAIN args |-> DataTypeOf(args[i])])
    IN  {FunctionNode("Coalesce", [i \in DOMAIN args |-> CastTo(args[i], type(args))]) :
            args \in {p \in es \X es : type(p) # NoType}}
FunctionsOver(es) == {FunctionNode(f, <<e>>) : f \in {"Upper", "Lower", "Length", "Abs"}, e \in es}
                         \cup CoalesceOver(es)
Flat == UnaryOver(Leaves) \cup BinaryOver(BinaryOps, Leaves, Leaves) \cup CastsOver(Leaves)
            \cup TestsOver(Leaves) \cup FunctionsOver(Leaves)
Some == {BinaryNode("Plus", C1, C3), BinaryNode("Divide", C1, C1), BinaryNode("Lt", C1, C3),
         BinaryNode("Or", C2, Literal(Null)), BinaryNode("And", C2, Literal(Boolean(TRUE))),
         UnaryNode("Not", C2), UnaryNode("Minus", C3), IsNullNode(C3, FALSE), CastNode(C3, "Integer"),
         FunctionNode("Coalesce", <<C3, CastNode(C1, "Float")>>), C2, C3}
MCExprs(schemas) ==
    Leaves \cup Flat \cup UnaryOver(Some) \cup TestsOver(Some) \cup CastsOver(Some)
        \cup FunctionsOver(Some \cup Leaves) \cup BinaryOver(BinaryOps, Some, Some)
        \cup BinaryOver(Logical, BinaryOver(Logical, Some, {C2}), Some)
        \cup BinaryOver(Logical, Some, BinaryOver({"And"}, Some, {C2, IsNullNode(C3, FALSE)}))
MCSubs == {(1 :> BinaryNode("Plus", C1, Literal(Integer(1)))),
           (2 :> IsNullNode(C3, TRUE)) @@ (3 :> CastNode(C1, "Float"))}

SeqsUpTo(s, n) == UNION {[1 .. k -> s] : k \in 0 .. n}
MCStrings == SeqsUpTo({"a", "A", "%"}, 3)
MCPatterns == SeqsUpTo({"a", "%", "_"}, 4) \cup SeqsUpTo({"A", "b", "%"}, 2)

\* Two columns, written in any case, and up to two constraints.
MCColumns == {[name |-> name, written |-> "INT", options |-> o] :
                 name \in {"a", "A", "b"},
                 o \in {<<>>, <<"PrimaryKey">>, <<"Unique">>, <<"Null", "NotNull">>}}
                 \cup {[name |-> "b", written |-> "TEXT", options |-> <<"Unique", "Unique">>],
                       [name |-> "b", written |-> "BLOB", options |-> <<>>],
                       [name |-> "b", written |-> "DATE", options |-> <<"Check">>]}
MCConstraints == {[kind |-> k, names |-> ns] : k \in {"PrimaryKey", "Unique"},
                     ns \in {<<"a">>, <<"A">>, <<"b">>, <<"z">>, <<"a", "b">>, <<"b", "A">>, <<"a", "A">>}}
                     \cup {[kind |-> "Check", names |-> <<>>]}
MCCreates == {[columns |-> cs, constraints |-> ks, flags |-> {}] :
                 cs \in MCColumns \X MCColumns, ks \in SeqsUpTo(MCConstraints, 2)}
             \cup {[columns |-> <<c>>, constraints |-> <<>>, flags |-> {"TEMPORARY"}] : c \in MCColumns}

Factor(t, clause) == [table |-> t, clause |-> clause]
Plain(t) == Factor(t, "None")
Clauses == {"Args", "Derived", "ColumnAliases", "Partition"}
Joins(factor, earlier) ==
    {[op |-> op, factor |-> factor, constraint |-> c] :
        op \in {"Join", "LeftOuter", "Right", "FullOuter", "CrossJoin", "LeftSemi"},
        c \in {[kind |-> k, with |-> ""] : k \in {"None", "Using"}}
                  \cup {[kind |-> "On", with |-> t] : t \in earlier}}
Item(t, joins) == [factor |-> Plain(t), joins |-> joins]
MCFroms ==
    {<<>>, <<Item("a", <<>>)>>, <<Item("a", <<>>), Item("b", <<>>), Item("c", <<>>)>>,
     <<Item("a", <<>>), [factor |-> Factor("b", "Partition"), joins |-> <<>>]>>}
    \cup {<<[factor |-> Factor("a", c), joins |-> <<>>]>> : c \in Clauses}
    \cup {<<Item("a", <<j, k>>)>> : j \in Joins(Plain("b"), {"a"}), k \in Joins(Plain("c"), {"a", "b"})}
    \cup {<<Item("a", <<>>), Item("b", <<j>>)>> : j \in Joins(Plain("c"), {"b"})}
    \cup {<<Item("a", <<j>>), Item("c", <<>>)>> : j \in Joins(Plain("b"), {"a"})}
    \cup UNION {{<<Item("a", <<j>>)>> : j \in Joins(Factor("b", c), {"a"})} : c \in Clauses}
MCContents == [{"a", "b", "c"} -> SUBSET {1, 2}]

MCWindows == {[form |-> "None", first |-> NotGiven, second |-> NotGiven],
              [form |-> "LimitBy", first |-> 1, second |-> NotGiven]}
    \cup {[form |-> "LimitOffset", first |-> n, second |-> m] : n, m \in {-2, NotGiven, 0, 1, 2}}
    \cup {[form |-> "OffsetCommaLimit", first |-> n, second |-> m] : n, m \in {-2, 0, 1, 2}}
\* Only a query has WITH, locks, SETTINGS, FETCH and pipe operators.
MCRowStatements ==
    [kind : {"Select"}, source : {""}, where : SUBSET (1 .. 3), window : MCWindows,
     fetch : {NotGiven, 1}, pipe : {NotGiven, 1},
     clause : {"None", "With", "OrderBy", "Locks", "Settings", "Other"}]
    \cup [kind : {"Insert"}, source : {"Values", "Select"}, where : SUBSET (1 .. 3), window : MCWindows,
          fetch : {NotGiven, 1}, pipe : {NotGiven, 1},
          clause : {"None", "With", "OrderBy", "Locks", "Settings", "Other"}]
    \cup [kind : {"Update", "Delete"}, source : {""}, where : SUBSET (1 .. 3), window : MCWindows,
          fetch : {NotGiven}, pipe : {NotGiven}, clause : {"None", "OrderBy", "Other"}]

MCNumerals == {[as |-> 2 * n, point |-> FALSE] : n \in 0 .. 18}
                  \cup {[as |-> n, point |-> TRUE] : n \in 0 .. 34}
=============================================================================
