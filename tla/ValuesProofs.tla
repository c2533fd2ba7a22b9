---------------------------- MODULE ValuesProofs ----------------------------
(***************************************************************************)
(* Ord::cmp orders the values totally and agrees with PartialEq and Hash,   *)
(* for integers of any width, any set of floats and any rounding that does  *)
(* not turn a larger integer into a smaller float.                          *)
(*                                                                          *)
(* cmp has seven cases and compares an integer with a float after rounding  *)
(* it, so transitivity over three values of two types is not plain.  The    *)
(* proof gives every value four integers (the keys below) and shows that    *)
(* cmp is the lexicographic order of them: CmpByKeys.                       *)
(***************************************************************************)
EXTENDS Values, TLAPS

\* A NaN comes after every other float.
Place(x) == IF x.nan THEN Infinity + 1 ELSE x.at

Key1(v) == Rank(v)
Key2(v) == IF v.type = "Boolean" THEN AsBit(v.bool)
           ELSE IF v.type = "Integer" THEN AsF64(v.int).at
           ELSE IF v.type = "Float" THEN Place(v.float)
           ELSE IF v.type = "Text" THEN TextRank(v.text) ELSE 0
Key3(v) == IF v.type = "Float" THEN 1 ELSE 0
Key4(v) == IF v.type = "Integer" THEN v.int ELSE 0

ByKeys(v, w) == Then(Compare(Key1(v), Key1(w)), Then(Compare(Key2(v), Key2(w)),
                    Then(Compare(Key3(v), Key3(w)), Compare(Key4(v), Key4(w)))))

\* The kinds of values, one by one.
LEMMA ValueKinds ==
    ASSUME NEW v \in Values
    PROVE  \/ v = Null
           \/ v.type = "Boolean" /\ v.bool \in BOOLEAN /\ v = Boolean(v.bool)
           \/ v.type = "Integer" /\ v.int \in Ints /\ v = Integer(v.int)
           \/ v.type = "Float" /\ v.float \in Floats /\ v = Float(v.float)
           \/ v.type = "Text" /\ v.text \in Texts /\ v = Text(v.text)
BY DEF Values, Null, Boolean, Integer, Float, Text

LEMMA FloatPositionBounds ==
    ASSUME NEW p \in FloatPositions
    PROVE  p \in Int /\ -Infinity < p /\ p < Infinity /\ Infinity \in Nat
<1>1. Infinity \in Nat /\ p \in (-Infinity + 1) .. (Infinity - 1)
  BY FloatAssumption
<1> QED BY <1>1

LEMMA FloatShape ==
    ASSUME NEW x \in Floats
    PROVE  /\ x.nan \in BOOLEAN /\ x.at \in Int /\ x.neg \in BOOLEAN
           /\ x.at <= Infinity /\ Infinity \in Int
           /\ x.nan => x.at = 0
           /\ x.at # 0 => (x.neg <=> x.at < 0)
           /\ x = [nan |-> x.nan, at |-> x.at, neg |-> x.neg]
<1>1. /\ x \in [nan : BOOLEAN, at : FloatPositions \cup {Infinity, -Infinity}, neg : BOOLEAN]
      /\ x.nan => x.at = 0
      /\ x.at # 0 => (x.neg <=> x.at < 0)
  BY Zenon DEF Floats
<1>2. /\ x = [nan |-> x.nan, at |-> x.at, neg |-> x.neg]
      /\ x.nan \in BOOLEAN /\ x.neg \in BOOLEAN
      /\ x.at \in FloatPositions \/ x.at = Infinity \/ x.at = -Infinity
  BY <1>1, Zenon
<1>3. Infinity \in Nat
  BY FloatAssumption
<1>4. x.at \in Int /\ x.at <= Infinity
  BY <1>2, <1>3, FloatPositionBounds
<1> QED BY <1>1, <1>2, <1>3, <1>4

\* cmp_f64 compares places.
LEMMA FloatsByPlace ==
    ASSUME NEW x \in Floats, NEW y \in Floats
    PROVE  /\ Place(x) \in Int
           /\ CmpF64(x, y) = Compare(Place(x), Place(y))
BY FloatShape DEF CmpF64, Compare, Place, AsBit, Less, Equal, Greater

\* An integer as a float.
LEMMA RoundedShape ==
    ASSUME NEW i \in Ints
    PROVE  /\ i \in Int /\ AsF64(i).at \in Int
           /\ AsF64(i).at < Infinity /\ Infinity \in Int /\ AsF64(i).nan = FALSE
<1>1. Nearest(2 * i, 1) \in FloatPositions
  BY FloatAssumption
<1>2. i \in Int
  BY IntAssumption DEF Ints
<1> QED BY <1>1, <1>2, FloatPositionBounds DEF AsF64, Number

LEMMA RoundedOrder ==
    ASSUME NEW i \in Ints, NEW j \in Ints, i <= j
    PROVE  AsF64(i).at <= AsF64(j).at
<1>1. Nearest(2 * i, 1) <= Nearest(2 * j, 1)
  BY RoundingMonotone
<1> QED BY <1>1 DEF AsF64, Number

\* An integer against a float, either way round: a NaN is beyond every integer.
LEMMA RoundedByPlace ==
    ASSUME NEW i \in Ints, NEW x \in Floats
    PROVE  /\ CmpF64(AsF64(i), x) = Compare(AsF64(i).at, Place(x))
           /\ CmpF64(x, AsF64(i)) = Compare(Place(x), AsF64(i).at)
<1> DEFINE r == AsF64(i)
<1>1. r.at \in Int /\ r.at < Infinity /\ r.nan = FALSE
  BY RoundedShape
<1>2. /\ x.nan \in BOOLEAN /\ x.at \in Int /\ x.at <= Infinity /\ Infinity \in Int
      /\ x.nan => x.at = 0
  BY FloatShape
<1> HIDE DEF r
<1>3. CmpF64(r, x) = Compare(r.at, Place(x)) /\ CmpF64(x, r) = Compare(Place(x), r.at)
  BY <1>1, <1>2 DEF CmpF64, Compare, Place, AsBit, Less, Equal, Greater
<1> QED BY <1>3 DEF r

LEMMA KeysAreIntegers ==
    ASSUME NEW v \in Values
    PROVE  Key1(v) \in Int /\ Key2(v) \in Int /\ Key3(v) \in Int /\ Key4(v) \in Int
<1>1. CASE v = Null
  BY <1>1 DEF Null, Key1, Key2, Key3, Key4, Rank
<1>2. CASE v.type = "Boolean" /\ v.bool \in BOOLEAN
  BY <1>2 DEF Key1, Key2, Key3, Key4, Rank, AsBit
<1>3. CASE v.type = "Integer" /\ v.int \in Ints
  <2>1. v.int \in Int /\ AsF64(v.int).at \in Int
    BY <1>3, RoundedShape
  <2>2. Key1(v) = 2 /\ Key2(v) = AsF64(v.int).at /\ Key3(v) = 0 /\ Key4(v) = v.int
    BY <1>3 DEF Key1, Key2, Key3, Key4, Rank
  <2> QED BY <2>1, <2>2
<1>4. CASE v.type = "Float" /\ v.float \in Floats
  BY <1>4, FloatsByPlace DEF Key1, Key2, Key3, Key4, Rank
<1>5. CASE v.type = "Text" /\ v.text \in Texts
  BY <1>5, TextAssumption DEF Key1, Key2, Key3, Key4, Rank
<1> QED BY <1>1, <1>2, <1>3, <1>4, <1>5, ValueKinds

\* The lexicographic order of four integers.
LEMMA ByKeysExpanded ==
    ASSUME NEW v \in Values, NEW w \in Values
    PROVE  /\ ByKeys(v, w) \in {Less, Equal, Greater}
           /\ ByKeys(v, w) = Less <=>
                \/ Key1(v) < Key1(w)
                \/ Key1(v) = Key1(w) /\ Key2(v) < Key2(w)
                \/ Key1(v) = Key1(w) /\ Key2(v) = Key2(w) /\ Key3(v) < Key3(w)
                \/ Key1(v) = Key1(w) /\ Key2(v) = Key2(w) /\ Key3(v) = Key3(w) /\ Key4(v) < Key4(w)
           /\ ByKeys(v, w) = Equal <=>
                Key1(v) = Key1(w) /\ Key2(v) = Key2(w) /\ Key3(v) = Key3(w) /\ Key4(v) = Key4(w)
BY KeysAreIntegers DEF ByKeys, Then, Compare, Less, Equal, Greater

LEMMA CmpByKeys ==
    ASSUME NEW v \in Values, NEW w \in Values
    PROVE  Cmp(v, w) = ByKeys(v, w)
<1> USE DEF Then, Compare, Less, Equal, Greater
<1>1. CASE v.type = "Integer" /\ w.type = "Integer" /\ v.int \in Ints /\ w.int \in Ints
  <2>1. Cmp(v, w) = Compare(v.int, w.int)
    BY <1>1 DEF Cmp
  <2>2. /\ Key1(v) = 2 /\ Key2(v) = AsF64(v.int).at /\ Key3(v) = 0 /\ Key4(v) = v.int
        /\ Key1(w) = 2 /\ Key2(w) = AsF64(w.int).at /\ Key3(w) = 0 /\ Key4(w) = w.int
    BY <1>1 DEF Key1, Key2, Key3, Key4, Rank
  <2>3. /\ v.int \in Int /\ w.int \in Int /\ AsF64(v.int).at \in Int /\ AsF64(w.int).at \in Int
        /\ v.int <= w.int => AsF64(v.int).at <= AsF64(w.int).at
        /\ w.int <= v.int => AsF64(w.int).at <= AsF64(v.int).at
    BY <1>1, RoundedShape, RoundedOrder
  <2> QED BY <2>1, <2>2, <2>3 DEF ByKeys
<1>2. CASE v.type = "Float" /\ w.type = "Float" /\ v.float \in Floats /\ w.float \in Floats
  BY <1>2, FloatsByPlace DEF Cmp, Key1, Key2, Key3, Key4, Rank, ByKeys
<1>3. CASE v.type = "Integer" /\ w.type = "Float" /\ v.int \in Ints /\ w.float \in Floats
  <2>1. Cmp(v, w) = Then(Compare(AsF64(v.int).at, Place(w.float)), Less)
    BY <1>3, RoundedByPlace DEF Cmp
  <2>2. /\ Key1(v) = 2 /\ Key2(v) = AsF64(v.int).at /\ Key3(v) = 0
        /\ Key1(w) = 2 /\ Key2(w) = Place(w.float) /\ Key3(w) = 1
    BY <1>3 DEF Key1, Key2, Key3, Rank
  <2>3. AsF64(v.int).at \in Int /\ Place(w.float) \in Int
    BY <1>3, RoundedShape, FloatsByPlace
  <2> QED BY <2>1, <2>2, <2>3 DEF ByKeys
<1>4. CASE v.type = "Float" /\ w.type = "Integer" /\ v.float \in Floats /\ w.int \in Ints
  <2>1. Cmp(v, w) = Then(Compare(Place(v.float), AsF64(w.int).at), Greater)
    BY <1>4, RoundedByPlace DEF Cmp
  <2>2. /\ Key1(v) = 2 /\ Key2(v) = Place(v.float) /\ Key3(v) = 1
        /\ Key1(w) = 2 /\ Key2(w) = AsF64(w.int).at /\ Key3(w) = 0
    BY <1>4 DEF Key1, Key2, Key3, Rank
  <2>3. AsF64(w.int).at \in Int /\ Place(v.float) \in Int
    BY <1>4, RoundedShape, FloatsByPlace
  <2> QED BY <2>1, <2>2, <2>3 DEF ByKeys
<1> USE DEF Key1, Key2, Key3, Key4, Rank, ByKeys, AsBit
<1>5. CASE v.type = "Text" /\ w.type = "Text" /\ v.text \in Texts /\ w.text \in Texts
  BY <1>5, TextAssumption DEF Cmp
<1>6. CASE v.type = "Boolean" /\ w.type = "Boolean"
  BY <1>6 DEF Cmp
<1>7. CASE v = Null /\ w = Null
  BY <1>7 DEF Cmp, Null
<1>8. CASE Rank(v) # Rank(w)
  BY <1>8, ValueKinds DEF Cmp, Null
<1> QED BY <1>1, <1>2, <1>3, <1>4, <1>5, <1>6, <1>7, <1>8, ValueKinds DEF Null

\* Values whose keys are equal are equal by PartialEq, and the other way round.
LEMMA EqByKeys ==
    ASSUME NEW v \in Values, NEW w \in Values
    PROVE  Eq(v, w) <=> ByKeys(v, w) = Equal
<1> USE DEF Key1, Key2, Key3, Key4, Rank, AsBit
<1>1. CASE v.type = "Integer" /\ w.type = "Integer" /\ v.int \in Ints /\ w.int \in Ints
                /\ v = Integer(v.int) /\ w = Integer(w.int)
  BY <1>1, ByKeysExpanded DEF Eq
<1>2. CASE v.type = "Float" /\ w.type = "Float" /\ v.float \in Floats /\ w.float \in Floats
  BY <1>2, ByKeysExpanded, FloatsByPlace DEF Eq, Compare, Less, Equal, Greater
<1>3. CASE v.type = "Text" /\ w.type = "Text" /\ v.text \in Texts /\ w.text \in Texts
                /\ v = Text(v.text) /\ w = Text(w.text)
  BY <1>3, ByKeysExpanded, TextAssumption DEF Eq
<1>4. CASE v.type = "Boolean" /\ w.type = "Boolean" /\ v.bool \in BOOLEAN /\ w.bool \in BOOLEAN
                /\ v = Boolean(v.bool) /\ w = Boolean(w.bool)
  BY <1>4, ByKeysExpanded DEF Eq
<1>5. CASE v = Null /\ w = Null
  BY <1>5, ByKeysExpanded DEF Eq, Null
<1>6. CASE v.type # w.type
  BY <1>6, ByKeysExpanded, ValueKinds DEF Eq, Null
<1> QED BY <1>1, <1>2, <1>3, <1>4, <1>5, <1>6, ValueKinds DEF Null

\* Ord::cmp is antisymmetric and transitive, and says Equal exactly of the values that
\* are equal by PartialEq, so BTreeMap and sort may use it (value.rs, impl Ord).
THEOREM CmpIsTotalOrder ==
    \A u, v, w \in Values :
        /\ Cmp(v, u) = -Cmp(u, v)
        /\ Cmp(u, v) = Equal <=> Eq(u, v)
        /\ Cmp(u, v) # Greater /\ Cmp(v, w) # Greater => Cmp(u, w) # Greater
<1> SUFFICES ASSUME NEW u \in Values, NEW v \in Values, NEW w \in Values
             PROVE  /\ Cmp(v, u) = -Cmp(u, v)
                    /\ Cmp(u, v) = Equal <=> Eq(u, v)
                    /\ Cmp(u, v) # Greater /\ Cmp(v, w) # Greater => Cmp(u, w) # Greater
  OBVIOUS
<1>1. Cmp(v, u) = -Cmp(u, v)
  BY CmpByKeys, ByKeysExpanded, KeysAreIntegers DEF Less, Equal, Greater
<1>2. Cmp(u, v) = Equal <=> Eq(u, v)
  BY CmpByKeys, EqByKeys
<1>3. Cmp(u, v) # Greater /\ Cmp(v, w) # Greater => Cmp(u, w) # Greater
  <2>1. /\ ByKeys(u, v) # Greater <=> ByKeys(u, v) = Less \/ ByKeys(u, v) = Equal
        /\ ByKeys(v, w) # Greater <=> ByKeys(v, w) = Less \/ ByKeys(v, w) = Equal
        /\ ByKeys(u, w) # Greater <=> ByKeys(u, w) = Less \/ ByKeys(u, w) = Equal
    BY ByKeysExpanded DEF Less, Equal, Greater
  <2>2. /\ Key1(u) \in Int /\ Key2(u) \in Int /\ Key3(u) \in Int /\ Key4(u) \in Int
        /\ Key1(v) \in Int /\ Key2(v) \in Int /\ Key3(v) \in Int /\ Key4(v) \in Int
        /\ Key1(w) \in Int /\ Key2(w) \in Int /\ Key3(w) \in Int /\ Key4(w) \in Int
    BY KeysAreIntegers
  <2> QED BY CmpByKeys, ByKeysExpanded, <2>1, <2>2
<1> QED BY <1>1, <1>2, <1>3

\* Equal values have the same hash: -0.0 and 0.0, and every NaN (value.rs, impl Hash).
THEOREM EqualValuesHashAlike ==
    \A v, w \in Values : Eq(v, w) => Hash(v) = Hash(w)
<1> SUFFICES ASSUME NEW v \in Values, NEW w \in Values, Eq(v, w)
             PROVE  Hash(v) = Hash(w)
  OBVIOUS
<1>1. CASE v.type # "Float"
  BY <1>1 DEF Eq, Hash
<1>2. CASE v.type = "Float" /\ v.float \in Floats /\ v = Float(v.float)
                /\ w.float \in Floats /\ w = Float(w.float)
  <2>1. CmpF64(v.float, w.float) = Equal
    BY <1>2 DEF Eq
  <2>2. v.float.nan = w.float.nan /\ v.float.at = w.float.at
    BY <1>2, <2>1, FloatShape DEF CmpF64, Compare, AsBit, Less, Equal, Greater
  <2>3. CanonicalBits(v.float) = CanonicalBits(w.float)
    BY <1>2, <2>2, FloatShape DEF CanonicalBits, Number
  <2>4. Hash(v) = Float(CanonicalBits(v.float)) /\ Hash(w) = Float(CanonicalBits(w.float))
    BY <1>2 DEF Hash, Float
  <2> QED BY <2>3, <2>4
<1> QED BY <1>1, <1>2, ValueKinds DEF Eq, Null
=============================================================================
