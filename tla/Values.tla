------------------------------- MODULE Values -------------------------------
(***************************************************************************)
(* SQL values and types: planner/value.rs and planner/types.rs, with the    *)
(* operators of sql/ast.rs.                                                 *)
(*                                                                          *)
(* Integers keep their width (MinInt..MaxInt is i64).  A float is its       *)
(* position on the number line counted in halves (enough for what rounding  *)
(* to an integer does), the sign bit that tells -0.0 from 0.0, and whether  *)
(* it is a NaN; which positions are floats, and how a result is rounded to  *)
(* one, is given by Nearest, the arithmetic of IEEE 754.  A text is what    *)
(* the conversions read in it.  An operation returns a value or an error.   *)
(***************************************************************************)
EXTENDS Integers

CONSTANTS
    MinInt, MaxInt,  \* i64::MIN, i64::MAX
    Infinity,        \* position of +inf, beyond every finite float
    FloatPositions,  \* positions of the finite floats
    Nearest(_, _),   \* the position the quotient of two integers rounds to
    Words,           \* texts that spell no number and no boolean
    TextRank(_)      \* place of a text in the order of strings

Ints == MinInt .. MaxInt

ASSUME IntAssumption == MaxInt \in Nat /\ MinInt = -MaxInt - 1

ASSUME FloatAssumption ==
    /\ Infinity \in Nat /\ FloatPositions \subseteq (-Infinity + 1) .. (Infinity - 1)
    /\ \A i \in Ints : Nearest(2 * i, 1) \in FloatPositions

\* A larger integer is not rounded to a smaller float.
ASSUME RoundingMonotone ==
    \A i, j \in Ints : i <= j => Nearest(2 * i, 1) <= Nearest(2 * j, 1)

NullType == "Null"
Types == {NullType, "Boolean", "Integer", "Float", "Text", "Json", "Timestamp", "Uuid"}

Null == [type |-> "Null"]
Boolean(b) == [type |-> "Boolean", bool |-> b]
Integer(i) == [type |-> "Integer", int |-> i]
Float(x) == [type |-> "Float", float |-> x]
Text(t) == [type |-> "Text", text |-> t]

Number(at, neg) == [nan |-> FALSE, at |-> at, neg |-> neg]
Floats == {x \in [nan : BOOLEAN, at : FloatPositions \cup {Infinity, -Infinity}, neg : BOOLEAN] :
              /\ x.nan => x.at = 0
              /\ x.at # 0 => (x.neg <=> x.at < 0)}

\* What a text spells: n / 2 as a decimal numeral, -0, inf, NaN, a boolean, or nothing.
Texts == [spells : {"number"}, as : FloatPositions \cup {2 * i : i \in Ints}]
             \cup [spells : {"-0", "inf", "-inf", "NaN", "true", "false"}, as : {0}]
             \cup [spells : {"nothing"}, as : Words]

ASSUME TextAssumption ==
    \A s, t \in Texts : TextRank(s) \in Int /\ (TextRank(s) = TextRank(t) => s = t)

Values == {Null} \cup [type : {"Boolean"}, bool : BOOLEAN] \cup [type : {"Integer"}, int : Ints]
              \cup [type : {"Float"}, float : Floats] \cup [type : {"Text"}, text : Texts]

Error(kind) == [error |-> kind]
IsValue(r) == "type" \in DOMAIN r
-----------------------------------------------------------------------------
(* Orders. *)

Less == -1
Equal == 0
Greater == 1
Compare(x, y) == IF x < y THEN Less ELSE IF x = y THEN Equal ELSE Greater
\* Ordering::then.
Then(o, p) == IF o = Equal THEN p ELSE o
AsBit(b) == IF b THEN 1 ELSE 0

AsF64(i) == Number(Nearest(2 * i, 1), i < 0)

\* cmp_f64: a NaN is greater than every other float and equal to a NaN.
CmpF64(x, y) == IF x.nan \/ y.nan THEN Compare(AsBit(x.nan), AsBit(y.nan))
                                  ELSE Compare(x.at, y.at)

Rank(v) == IF v.type = "Null" THEN 0 ELSE IF v.type = "Boolean" THEN 1
           ELSE IF v.type \in {"Integer", "Float"} THEN 2 ELSE 3

\* Ord::cmp: an integer comes just before the floats that compare equal to it.
Cmp(v, w) ==
    IF v.type = "Boolean" /\ w.type = "Boolean" THEN Compare(AsBit(v.bool), AsBit(w.bool))
    ELSE IF v.type = "Integer" /\ w.type = "Integer" THEN Compare(v.int, w.int)
    ELSE IF v.type = "Float" /\ w.type = "Float" THEN CmpF64(v.float, w.float)
    ELSE IF v.type = "Integer" /\ w.type = "Float" THEN Then(CmpF64(AsF64(v.int), w.float), Less)
    ELSE IF v.type = "Float" /\ w.type = "Integer" THEN Then(CmpF64(v.float, AsF64(w.int)), Greater)
    ELSE IF v.type = "Text" /\ w.type = "Text" THEN Compare(TextRank(v.text), TextRank(w.text))
    ELSE Compare(Rank(v), Rank(w))

\* PartialEq::eq.
Eq(v, w) == /\ v.type = w.type
            /\ v.type = "Float" => CmpF64(v.float, w.float) = Equal
            /\ v.type # "Float" => v = w

\* Hash::hash feeds the discriminant and the value, a float by canonical_f64_bits.
\* Mutant: the bits as they are.
Bits(x) == x
CanonicalBits(x) == IF x.nan THEN [x EXCEPT !.neg = FALSE]
                    ELSE IF x.at = 0 THEN Number(0, FALSE) ELSE x
Hash(v) == IF v.type = "Float" THEN [v EXCEPT !.float = CanonicalBits(v.float)] ELSE v
-----------------------------------------------------------------------------
(* Types. *)

IsNumeric(t) == t \in {"Integer", "Float"}
IsTextual(t) == t \in {"Text", "Json", "Uuid"}
NoType == "none"

NumericResult(s, t) ==
    CASE s = NullType /\ t = NullType -> NullType
      [] s = NullType /\ IsNumeric(t) -> t
      [] t = NullType /\ IsNumeric(s) -> s
      [] s = "Integer" /\ t = "Integer" -> "Integer"
      [] IsNumeric(s) /\ IsNumeric(t) /\ {s, t} # {"Integer"} -> "Float"
      [] OTHER -> NoType

IsComparableWith(s, t) ==
    \/ NullType \in {s, t} \/ s = t
    \/ IsNumeric(s) /\ IsNumeric(t)
    \/ IsTextual(s) /\ IsTextual(t)

CanAssignTo(s, t) ==
    s \in {t, NullType} \/ (s = "Integer" /\ t = "Float") \/ (s = "Text" /\ IsTextual(t))

Unify(s, t) ==
    CASE s = t -> s [] s = NullType -> t [] t = NullType -> s
      [] s # t /\ IsNumeric(s) /\ IsNumeric(t) -> "Float"
      [] s # t /\ IsTextual(s) /\ IsTextual(t) -> "Text"
      [] OTHER -> NoType
-----------------------------------------------------------------------------
(* Conversions. *)

Abs(n) == IF n < 0 THEN -n ELSE n
\* f64::round: to the nearest whole number, halves away from zero.
RoundHalf(at) == IF at >= 0 THEN (at + 1) \div 2 ELSE -((1 - at) \div 2)

\* A float that rounds into the range of the integers; i64::MAX as f64 is above
\* i64::MAX, and the conversion saturates.  Mutant: the range is not checked.
ToIntegerUnchecked(x) ==
    IF x.nan THEN Integer(0)
    ELSE Integer(IF RoundHalf(x.at) > MaxInt THEN MaxInt
                 ELSE IF RoundHalf(x.at) < MinInt THEN MinInt ELSE RoundHalf(x.at))
ToInteger(x) ==
    LET r == RoundHalf(x.at)
    IN  IF ~x.nan /\ Abs(x.at) # Infinity
              /\ 2 * r >= Nearest(2 * MinInt, 1) /\ 2 * r <= Nearest(2 * MaxInt, 1)
        THEN Integer(IF r > MaxInt THEN MaxInt ELSE IF r < MinInt THEN MinInt ELSE r)
        ELSE Error("InvalidCast")

\* to_string, the shortest decimal that reads back as the same float.
Spelling(v) ==
    CASE v.type = "Boolean" -> [spells |-> IF v.bool THEN "true" ELSE "false", as |-> 0]
      [] v.type = "Integer" -> [spells |-> "number", as |-> 2 * v.int]
      [] v.type = "Float" /\ v.float.nan -> [spells |-> "NaN", as |-> 0]
      [] v.type = "Float" /\ v.float.at = Infinity -> [spells |-> "inf", as |-> 0]
      [] v.type = "Float" /\ v.float.at = -Infinity -> [spells |-> "-inf", as |-> 0]
      [] v.type = "Float" /\ ~v.float.nan /\ Abs(v.float.at) # Infinity ->
            IF v.float = Number(0, TRUE) THEN [spells |-> "-0", as |-> 0]
            ELSE [spells |-> "number", as |-> v.float.at]
      [] OTHER -> v.text

ParseInteger(t) ==
    CASE t.spells = "-0" -> Integer(0)
      [] t.spells = "number" /\ t.as % 2 = 0 /\ t.as \div 2 \in Ints -> Integer(t.as \div 2)
      [] OTHER -> Error("InvalidCast")
ParseFloat(t) ==
    CASE t.spells = "number" -> Float(Number(Nearest(t.as, 1), t.as < 0))
      [] t.spells = "-0" -> Float(Number(0, TRUE))
      [] t.spells = "inf" -> Float(Number(Infinity, FALSE))
      [] t.spells = "-inf" -> Float(Number(-Infinity, TRUE))
      [] t.spells = "NaN" -> Float([nan |-> TRUE, at |-> 0, neg |-> FALSE])
      [] OTHER -> Error("InvalidCast")
ParseBoolean(t) ==
    IF t.spells \in {"true", "false"} THEN Boolean(t.spells = "true") ELSE Error("InvalidCast")

Cast(v, to) ==
    CASE v.type = "Null" -> Null
      [] v.type = "Boolean" /\ to = "Boolean" -> v
      [] v.type = "Integer" /\ to = "Integer" -> v
      [] v.type = "Integer" /\ to = "Float" -> Float(AsF64(v.int))
      [] v.type = "Float" /\ to = "Float" -> v
      [] v.type = "Float" /\ to = "Integer" -> ToInteger(v.float)
      [] v.type = "Text" /\ IsTextual(to) -> v
      [] v.type = "Text" /\ to = "Integer" -> ParseInteger(v.text)
      [] v.type = "Text" /\ to = "Float" -> ParseFloat(v.text)
      [] v.type = "Text" /\ to = "Boolean" -> ParseBoolean(v.text)
      [] v.type \in {"Boolean", "Integer", "Float"} /\ to = "Text" -> Text(Spelling(v))
      [] OTHER -> Error("InvalidCast")
-----------------------------------------------------------------------------
(* Operators. *)

Comparisons == {"Eq", "NotEq", "Lt", "LtEq", "Gt", "GtEq"}
Arithmetic == {"Plus", "Minus", "Multiply", "Divide", "Modulo"}
Logical == {"And", "Or"}
BinaryOps == Comparisons \cup Arithmetic \cup Logical \cup {"Concat"}
UnaryOps == {"Not", "Minus", "Plus"}

\* BinaryOperator::flip.
Flip(op) == CASE op = "Lt" -> "Gt" [] op = "LtEq" -> "GtEq"
              [] op = "Gt" -> "Lt" [] op = "GtEq" -> "LtEq"
              [] op \in {"Eq", "NotEq"} -> op [] OTHER -> "none"

\* sql_cmp, for two values that are not NULL.
Ordered(v, w) == \/ v.type = w.type
                 \/ IsNumeric(v.type) /\ IsNumeric(w.type)
AsFloat(v) == IF v.type = "Integer" THEN AsF64(v.int) ELSE v.float
SqlCmp(v, w) ==
    CASE v.type # w.type -> CmpF64(AsFloat(v), AsFloat(w))
      [] v.type = "Boolean" /\ w.type = "Boolean" -> Compare(AsBit(v.bool), AsBit(w.bool))
      [] v.type = "Integer" /\ w.type = "Integer" -> Compare(v.int, w.int)
      [] v.type = "Float" /\ w.type = "Float" -> CmpF64(v.float, w.float)
      [] OTHER -> Compare(TextRank(v.text), TextRank(w.text))

Holds(op, o) == CASE op = "Eq" -> o = Equal [] op = "NotEq" -> o # Equal
                  [] op = "Lt" -> o = Less [] op = "LtEq" -> o # Greater
                  [] op = "Gt" -> o = Greater [] op = "GtEq" -> o # Less
Comparison(op, v, w) ==
    IF Null \in {v, w} THEN Null
    ELSE IF Ordered(v, w) THEN Boolean(Holds(op, SqlCmp(v, w)))
    ELSE Error("TypeMismatch")

IsLogical(v) == v.type \in {"Null", "Boolean"}
\* and3 and or3.
And3(v, w) == IF Boolean(FALSE) \in {v, w} THEN Boolean(FALSE)
              ELSE IF Null \in {v, w} THEN Null ELSE Boolean(TRUE)
Or3(v, w) == IF Boolean(TRUE) \in {v, w} THEN Boolean(TRUE)
             ELSE IF Null \in {v, w} THEN Null ELSE Boolean(FALSE)

\* Rust divides towards zero.
Quotient(a, b) == LET q == Abs(a) \div Abs(b) IN IF (a < 0) = (b < 0) THEN q ELSE -q
Remainder(a, b) == a - b * Quotient(a, b)

\* checked_rem fails where checked_div does.
CheckedRem(a, b) == IF a = MinInt /\ b = -1 THEN Error("Overflow") ELSE Integer(Remainder(a, b))
\* checked_add and its like.
Checked(i) == IF i \in Ints THEN Integer(i) ELSE Error("Overflow")
IntegerArithmetic(op, a, b) ==
    IF op \in {"Divide", "Modulo"} /\ b = 0 THEN Error("DivisionByZero")
    ELSE CASE op = "Plus" -> Checked(a + b)
           [] op = "Minus" -> Checked(a - b)
           [] op = "Multiply" -> Checked(a * b)
           [] op = "Divide" -> Checked(Quotient(a, b))
           [] op = "Modulo" -> CheckedRem(a, b)

Finite(x) == ~x.nan /\ Abs(x.at) # Infinity
\* The exact result of two finite floats, rounded; the position of a remainder is exact.
FloatResult(op, a, b) ==
    CASE op = "Plus" -> Nearest(a + b, 1)
      [] op = "Minus" -> Nearest(a - b, 1)
      [] op = "Multiply" -> Nearest(a * b, 2)
      [] op = "Divide" -> Nearest((IF b < 0 THEN -2 ELSE 2) * a, Abs(b))
      [] op = "Modulo" -> Remainder(a, b)
SignOfResult(op, x, y, at) ==
    IF at # 0 THEN at < 0
    ELSE CASE op = "Plus" -> x.neg /\ y.neg [] op = "Minus" -> x.neg /\ ~y.neg
           [] op = "Modulo" -> x.neg [] OTHER -> x.neg # y.neg

\* An infinite or NaN result is refused: so is every sum, difference and product
\* with an infinite or NaN operand, and what is left is x / inf and x % inf.
FloatArithmetic(op, x, y) ==
    IF op \in {"Divide", "Modulo"} /\ ~y.nan /\ y.at = 0 THEN Error("DivisionByZero")
    ELSE IF Finite(x) /\ ~y.nan /\ ~Finite(y) /\ op = "Divide"
         THEN Float(Number(0, x.neg # y.neg))
    ELSE IF Finite(x) /\ ~y.nan /\ ~Finite(y) /\ op = "Modulo" THEN Float(x)
    ELSE IF ~Finite(x) \/ ~Finite(y) THEN Error("Overflow")
    ELSE LET at == FloatResult(op, x.at, y.at)
         IN  IF Abs(at) = Infinity THEN Error("Overflow")
             ELSE Float(Number(at, SignOfResult(op, x, y, at)))

ArithmeticOf(op, v, w) ==
    IF Null \in {v, w} THEN Null
    ELSE IF v.type = "Integer" /\ w.type = "Integer" THEN IntegerArithmetic(op, v.int, w.int)
    ELSE IF IsNumeric(v.type) /\ IsNumeric(w.type)
         THEN FloatArithmetic(op, AsFloat(v), AsFloat(w))
    ELSE Error("TypeMismatch")

\* Value::binary; what two texts joined spell does not matter here.
Joined == [spells |-> "nothing", as |-> CHOOSE w \in Words : TRUE]
Binary(op, v, w) ==
    CASE op \in Logical ->
            IF ~IsLogical(v) \/ ~IsLogical(w) THEN Error("TypeMismatch")
            ELSE IF op = "And" THEN And3(v, w) ELSE Or3(v, w)
      [] op \in Comparisons -> Comparison(op, v, w)
      [] op = "Concat" -> IF Null \in {v, w} THEN Null ELSE Text(Joined)
      [] OTHER -> ArithmeticOf(op, v, w)

\* Value::unary.
Unary(op, v) ==
    CASE v = Null -> Null
      [] op = "Not" /\ v.type = "Boolean" -> Boolean(~v.bool)
      [] op = "Minus" /\ v.type = "Integer" -> Checked(-v.int)
      [] op = "Minus" /\ v.type = "Float" ->
            Float([v.float EXCEPT !.at = -v.float.at, !.neg = ~v.float.neg])
      [] op = "Plus" /\ IsNumeric(v.type) -> v
      [] OTHER -> Error("TypeMismatch")
=============================================================================
