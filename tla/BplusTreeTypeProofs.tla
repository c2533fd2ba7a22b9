------------------------ MODULE BplusTreeTypeProofs ------------------------
(***************************************************************************)
(* The pages of the index stay well typed for every ORDER of at least 3,    *)
(* every set of keys and records and every bound, whatever splits,          *)
(* borrowing and merging the calls cause, calls that fail half way included.*)
(*                                                                          *)
(* TypeOK is not inductive: that a search ends, that a sibling exists and   *)
(* that a child's page may be read need more than that ids are ids.  Every  *)
(* page has a level, a leaf's is 0, and what an internal page points to is  *)
(* one level below it; a call in progress goes up a trail of pages from the *)
(* root, one level each.  The levels are a witness of the proof and no part *)
(* of the state, so that a merge that fails, or a page no tree refers to,   *)
(* changes nothing about them.                                              *)
(***************************************************************************)
EXTENDS BplusTree, FiniteSetTheorems, SequenceTheorems, WellFoundedInduction, TLAPS

-----------------------------------------------------------------------------
(* Induction over the natural numbers, of sets and not of operators, and loops. *)

\* The smallest counterexample, which the proofs by induction refute.
LEMMA LeastNatural ==
    ASSUME NEW S \in SUBSET Nat, S # {}
    PROVE  \E m \in S : \A k \in S : m <= k
<1> DEFINE R == {p \in Nat \X Nat : p[1] < p[2]}
<1>1. IsWellFoundedOn(OpToRel(<, Nat), Nat)
      BY NatLessThanWellFounded
<1>2. IsWellFoundedOn(R, Nat)
      BY <1>1 DEF OpToRel
<1> HIDE DEF R
<1>3. PICK m \in S : \A k \in S : <<k, m>> \notin R
      BY <1>2, WFMin
<1>4. ASSUME NEW k \in S
      PROVE  m <= k
  <2>1. <<k, m>> \notin R /\ <<k, m>> \in Nat \X Nat
        BY <1>3
  <2>2. ~(k < m)
        BY <2>1, Zenon DEF R
  <2> QED  BY <2>2
<1> QED  BY <1>4

\* What holds of 0, and of each number of a loop's counter if it does of the one
\* before, holds up to its end.
LEMMA UpTo ==
    ASSUME NEW N \in Nat, NEW P, 0 \in P, \A i \in 1..N : i - 1 \in P => i \in P
    PROVE  \A i \in 0..N : i \in P
<1> DEFINE Bad == {i \in 0..N : i \notin P}
<1> SUFFICES ASSUME Bad # {} PROVE FALSE
  OBVIOUS
<1>1. PICK n \in Bad : \A k \in Bad : n <= k
  <2>1. Bad \in SUBSET Nat
    OBVIOUS
  <2> HIDE DEF Bad
  <2> QED
    BY <2>1, LeastNatural
<1>2. n \in 1..N /\ n - 1 \in 0..N
  OBVIOUS
<1>3. n - 1 \notin Bad
  <2>1. ~(n <= n - 1)
    BY <1>2
  <2> HIDE DEF Bad
  <2> QED
    BY <1>1, <2>1
<1> QED
  BY <1>2, <1>3

\* A run of a loop: from base, by the step G, through the states of S, and the only one.
IsRun(f, N, S, base, G) ==
    /\ f \in [0..N -> S]
    /\ f[0] = base
    /\ \A i \in 1..N : f[i] = G[<<i, f[i - 1]>>]
    /\ \A g : /\ g = [i \in 0..N |-> g[i]]
              /\ g[0] = base
              /\ \A i \in 1..N : g[i - 1] \in S => g[i] = G[<<i, g[i - 1]>>]
              => g = f

\* A loop that starts in a state of S and stays in S has a run.
LEMMA LoopRuns ==
    ASSUME NEW N \in Nat, NEW S, NEW base \in S, NEW G \in [(1..N) \X S -> S]
    PROVE  \E f : IsRun(f, N, S, base, G)
<1> DEFINE Runs(f, n) == /\ f \in [0..n -> S] /\ f[0] = base
                         /\ \A i \in 1..n : f[i] = G[<<i, f[i - 1]>>]
           P == {n \in 0..N : \E f : Runs(f, n)}
<1>1. 0 \in P
  <2>1. Runs([i \in 0..0 |-> base], 0)
    OBVIOUS
  <2> HIDE DEF Runs
  <2> QED
    BY <2>1
<1>2. ASSUME NEW n \in 1..N, n - 1 \in P PROVE n \in P
  <2>1. PICK f : Runs(f, n - 1)
    BY <1>2
  <2> DEFINE v == G[<<n, f[n - 1]>>]
             h == [i \in 0..n |-> IF i = n THEN v ELSE f[i]]
  <2>2. v \in S
    <3>1. f[n - 1] \in S
      BY <2>1
    <3>2. <<n, f[n - 1]>> \in (1..N) \X S
      BY <3>1
    <3> QED
      BY <3>2
  <2>3. \A i \in 0..n - 1 : h[i] = f[i]
    OBVIOUS
  <2>4. h \in [0..n -> S]
    <3>1. \A i \in 0..n : i # n => i \in 0..n - 1
      OBVIOUS
    <3> HIDE DEF v
    <3> QED
      BY <2>1, <2>2, <3>1
  <2>5. h[0] = base
    BY <2>1, <2>3
  <2>6. ASSUME NEW i \in 1..n PROVE h[i] = G[<<i, h[i - 1]>>]
    <3>1. h[i - 1] = f[i - 1]
      BY <2>3
    <3>2. CASE i = n
      BY <3>1, <3>2
    <3>3. CASE i # n
      <4>1. i \in 1..n - 1 /\ i \in 0..n - 1
        BY <3>3
      <4>2. h[i] = f[i]
        BY <2>3, <4>1
      <4> HIDE DEF h, v
      <4> QED
        BY <2>1, <3>1, <4>1, <4>2
    <3> QED
      BY <3>2, <3>3
  <2>7. Runs(h, n)
    <3> HIDE DEF h, v
    <3> QED
      BY <2>4, <2>5, <2>6
  <2> HIDE DEF Runs, h, v
  <2> QED
    BY <2>7
<1>3. PICK f : Runs(f, N)
  <2>1. N \in P
    <3> HIDE DEF P
    <3> QED
      BY <1>1, <1>2, UpTo
  <2> HIDE DEF Runs
  <2> QED
    BY <2>1
<1>4. ASSUME NEW g, g = [i \in 0..N |-> g[i]], g[0] = base,
             \A i \in 1..N : g[i - 1] \in S => g[i] = G[<<i, g[i - 1]>>]
      PROVE  g = f
  <2> DEFINE Same == {i \in 0..N : g[i] = f[i]}
  <2>1. 0 \in Same
    BY <1>3, <1>4
  <2>2. ASSUME NEW i \in 1..N, i - 1 \in Same PROVE i \in Same
    <3>1. i - 1 \in 0..N /\ g[i - 1] = f[i - 1] /\ f[i - 1] \in S
      BY <1>3, <2>2
    <3>2. g[i] = G[<<i, g[i - 1]>>]
      BY <1>4, <3>1
    <3>3. f[i] = G[<<i, f[i - 1]>>]
      BY <1>3
    <3> QED
      BY <3>1, <3>2, <3>3
  <2>3. \A i \in 0..N : i \in Same
    <3> HIDE DEF Same
    <3> QED
      BY <2>1, <2>2, UpTo
  <2>4. \A i \in 0..N : g[i] = f[i]
    BY <2>3
  <2>5. f = [i \in 0..N |-> f[i]]
    BY <1>3
  <2> QED
    BY <1>4, <2>4, <2>5
<1> HIDE DEF P
<1> QED
  BY <1>3, <1>4 DEF IsRun

-----------------------------------------------------------------------------
(* Pages as sets of values. *)

\* Cells with values of V, lists of them in the order of their keys, and pages of such cells.
CellsOf(V) == [key : Keys, val : V]
InOrder(cells) == \A i, j \in 1..Len(cells) : i < j => cells[i].key < cells[j].key
Lists(V) == {c \in Seq(CellsOf(V)) : InOrder(c) /\ Len(c) <= ORDER}
PagesOf(V, ids) ==
    {p \in [kind : PageKind, root_leaf : BOOLEAN, cells : Lists(V), ptr : ids] :
        p.root_leaf => p.kind = "Root"}

\* What a list's entries are.
LEMMA ListFacts ==
    ASSUME NEW V, NEW c \in Lists(V)
    PROVE  /\ Len(c) \in Nat /\ Len(c) <= ORDER /\ DOMAIN c = 1..Len(c)
           /\ c \in Seq(CellsOf(V))
           /\ \A i \in 1..Len(c) : /\ c[i] \in CellsOf(V) /\ c[i] = [key |-> c[i].key, val |-> c[i].val]
                                   /\ c[i].key \in Keys /\ c[i].key \in Int /\ c[i].val \in V
           /\ \A i, j \in 1..Len(c) : i < j <=> c[i].key < c[j].key
           /\ \A i, j \in 1..Len(c) : c[i].key = c[j].key => i = j
<1>1. c \in Seq(CellsOf(V)) /\ InOrder(c) /\ Len(c) <= ORDER /\ Len(c) \in Nat /\ DOMAIN c = 1..Len(c)
  BY DEF Lists
<1>2. \A i \in 1..Len(c) : /\ c[i] \in CellsOf(V) /\ c[i] = [key |-> c[i].key, val |-> c[i].val]
                           /\ c[i].key \in Keys /\ c[i].val \in V
  <2>1. \A i \in 1..Len(c) : c[i] \in CellsOf(V)
    BY <1>1
  <2> QED
    BY <2>1 DEF CellsOf
<1>3. \A i \in 1..Len(c) : c[i].key \in Int
  <2>1. \A k \in Keys : k \in Int
    BY TreeAssumption DEF TreeAssumption
  <2> QED
    BY <1>2, <2>1
<1>4. ASSUME NEW i \in 1..Len(c), NEW j \in 1..Len(c)
      PROVE  /\ i < j <=> c[i].key < c[j].key
             /\ c[i].key = c[j].key => i = j
  <2>1. i < j \/ i = j \/ j < i
    BY <1>1
  <2>2. i < j => c[i].key < c[j].key
    BY <1>1 DEF InOrder
  <2>3. j < i => c[j].key < c[i].key
    BY <1>1 DEF InOrder
  <2>4. c[i].key \in Int /\ c[j].key \in Int
    BY <1>3
  <2> QED
    BY <2>1, <2>2, <2>3, <2>4, <1>1
<1> QED
  BY <1>1, <1>2, <1>3, <1>4

\* As many keys of a page are no larger than a key as there are cells up to it.
LEMMA Rank ==
    ASSUME NEW V, NEW c \in Lists(V), NEW p, p.cells = c, NEW key \in Int
    PROVE  LET n == Cardinality({k \in KeysOf(p) : k <= key})
           IN  n \in 0..Len(c) /\ \A i \in 1..Len(c) : c[i].key <= key <=> i <= n
<1> DEFINE N == Len(c)
           S == {i \in 1..N + 1 : i = N + 1 \/ key < c[i].key}
<1>1. /\ N \in Nat /\ DOMAIN c = 1..N /\ \A i \in 1..N : c[i].key \in Int
      /\ \A i, j \in 1..N : i < j <=> c[i].key < c[j].key
      /\ \A i, j \in 1..N : c[i].key = c[j].key => i = j
  BY ListFacts
<1>2. PICK m \in S : \A k \in S : m <= k
  <2>1. S \in SUBSET Nat /\ N + 1 \in S
    BY <1>1
  <2> HIDE DEF S
  <2> QED
    BY <2>1, LeastNatural
<1>3. m \in 1..N + 1 /\ (m = N + 1 \/ key < c[m].key)
  OBVIOUS
<1>4. ASSUME NEW i \in 1..N PROVE c[i].key <= key <=> i <= m - 1
  <2>1. CASE i < m
    <3>1. i \notin S
      <4>1. ~(m <= i)
        BY <1>1, <1>3, <2>1
      <4> HIDE DEF S
      <4> QED
        BY <1>2, <4>1
    <3>2. ~(key < c[i].key)
      BY <1>1, <3>1
    <3> QED
      BY <1>1, <1>3, <2>1, <3>2
  <2>2. CASE ~(i < m)
    <3>1. m \in 1..N /\ key < c[m].key
      BY <1>1, <1>3, <2>2
    <3>2. m = i \/ m < i
      BY <1>1, <1>3, <2>2
    <3>3. c[m].key = c[i].key \/ c[m].key < c[i].key
      BY <1>1, <3>1, <3>2
    <3>4. key < c[i].key
      BY <1>1, <3>1, <3>3
    <3> QED
      BY <1>1, <1>3, <2>2, <3>4
  <2> QED
    BY <2>1, <2>2
<1> DEFINE T == {k \in KeysOf(p) : k <= key}
           f == [i \in 1..m - 1 |-> c[i].key]
<1>5. f \in Bijection(1..m - 1, T)
  <2>1. \A i \in 1..m - 1 : i \in 1..N
    BY <1>1, <1>3
  <2>2. \A i \in 1..m - 1 : f[i] \in T
    BY <1>1, <1>3, <1>4, <2>1 DEF KeysOf
  <2>3. \A t \in T : \E i \in 1..m - 1 : f[i] = t
    <3>1. ASSUME NEW t \in T PROVE \E i \in 1..m - 1 : f[i] = t
      <4>1. PICK i \in 1..N : t = c[i].key
        BY <1>1 DEF KeysOf
      <4>2. i <= m - 1
        BY <1>4, <4>1
      <4> QED
        BY <1>1, <1>3, <4>1, <4>2
    <3> QED
      BY <3>1
  <2>4. \A i, j \in 1..m - 1 : f[i] = f[j] => i = j
    BY <1>1, <2>1
  <2>5. f \in [1..m - 1 -> T]
    BY <2>2
  <2> HIDE DEF f, T
  <2> QED
    BY <2>3, <2>4, <2>5 DEF Bijection, Injection, Surjection, IsInjective
<1>6. Cardinality(T) = m - 1
  <2>1. IsFiniteSet(1..m - 1) /\ Cardinality(1..m - 1) = m - 1
    <3>1. 1 \in Int /\ m - 1 \in Int /\ m - 1 >= 0
      BY <1>1, <1>3
    <3>2. IsFiniteSet(1..m - 1) /\ Cardinality(1..m - 1) = IF 1 > m - 1 THEN 0 ELSE (m - 1) - 1 + 1
      <4> DEFINE e == m - 1
      <4> HIDE DEF e
      <4> QED
        BY <3>1, FS_Interval
    <3> QED
      BY <3>1, <3>2
  <2>2. ExistsBijection(1..m - 1, T)
    BY <1>5 DEF ExistsBijection
  <2> HIDE DEF T, f
  <2> QED
    BY <2>1, <2>2, FS_Bijection
<1> HIDE DEF f, S
<1>7. m - 1 \in 0..N
  BY <1>1, <1>3
<1> QED
  BY <1>4, <1>6, <1>7

\* The i-th child of a page.
Kid(p, i) == IF i <= Len(p.cells) THEN p.cells[i].val ELSE p.ptr

\* key falls between the separators on the two sides of p's i-th child.
Between(p, i, key) ==
    /\ i \in 1..Len(p.cells) + 1
    /\ i > 1 => p.cells[i - 1].key <= key
    /\ i <= Len(p.cells) => key < p.cells[i].key

\* The child a search goes to is the one between whose separators the key is.
LEMMA ChildIs ==
    ASSUME NEW V, NEW p, p.cells \in Lists(V), NEW key \in Int, NEW i, Between(p, i, key)
    PROVE  Child(p, key) = Kid(p, i)
<1> DEFINE n == Cardinality({k \in KeysOf(p) : k <= key})
           N == Len(p.cells)
<1>1. n \in 0..N /\ \A j \in 1..N : p.cells[j].key <= key <=> j <= n
  BY Rank
<1>2. Child(p, key) = IF n < N THEN p.cells[n + 1].val ELSE p.ptr
  BY DEF Child
<1> HIDE DEF n
<1>3. N \in Nat /\ \A j \in 1..N : p.cells[j].key \in Int
  BY ListFacts
<1>4. i = n + 1
  <2>1. i \in 1..N + 1
    BY DEF Between
  <2>2. i > 1 => i - 1 <= n
    BY <1>1, <1>3, <2>1 DEF Between
  <2>3. i <= N => ~(i <= n)
    BY <1>1, <1>3, <2>1 DEF Between
  <2> QED
    BY <1>1, <1>3, <2>1, <2>2, <2>3
<1> QED
  BY <1>1, <1>2, <1>3, <1>4 DEF Kid

\* There is such a child.
LEMMA SomeBetween ==
    ASSUME NEW V, NEW p, p.cells \in Lists(V), NEW key \in Int
    PROVE  \E i \in 1..Len(p.cells) + 1 : Between(p, i, key)
<1> DEFINE n == Cardinality({k \in KeysOf(p) : k <= key})
           N == Len(p.cells)
<1>1. n \in 0..N /\ \A j \in 1..N : p.cells[j].key <= key <=> j <= n
  BY Rank
<1> HIDE DEF n
<1>3. N \in Nat /\ \A j \in 1..N : p.cells[j].key \in Int
  BY ListFacts
<1>4. n + 1 \in 1..N + 1
  BY <1>1, <1>3
<1>5. n + 1 > 1 => p.cells[n + 1 - 1].key <= key
  <2> SUFFICES ASSUME n + 1 > 1 PROVE p.cells[n].key <= key
    BY <1>1, <1>3
  <2>1. n \in 1..N
    BY <1>1, <1>3
  <2> QED
    BY <1>1, <1>3, <2>1
<1>6. n + 1 <= N => key < p.cells[n + 1].key
  <2> SUFFICES ASSUME n + 1 <= N PROVE key < p.cells[n + 1].key
    OBVIOUS
  <2>1. n + 1 \in 1..N
    BY <1>1, <1>3
  <2>2. ~(p.cells[n + 1].key <= key)
    BY <1>1, <1>3, <2>1
  <2>3. p.cells[n + 1].key \in Int
    BY <1>3, <2>1
  <2> QED
    BY <2>2, <2>3
<1>7. PICK m : m = n + 1
  OBVIOUS
<1>8. Between(p, m, key)
  <2>1. m \in 1..N + 1
    BY <1>4, <1>7
  <2>2. m > 1 => p.cells[m - 1].key <= key
    <3>1. n \in Int /\ m - 1 = n + 1 - 1
      BY <1>1, <1>3, <1>7
    <3> QED
      BY <1>5, <1>7, <3>1
  <2>3. m <= N => key < p.cells[m].key
    BY <1>6, <1>7
  <2> QED
    BY <2>1, <2>2, <2>3, <1>3 DEF Between
<1> QED
  BY <1>4, <1>7, <1>8

\* What a page's parts are.
LEMMA PageFacts ==
    ASSUME NEW V, NEW ids, NEW p \in PagesOf(V, ids)
    PROVE  /\ p = [kind |-> p.kind, root_leaf |-> p.root_leaf, cells |-> p.cells, ptr |-> p.ptr]
           /\ p.kind \in PageKind /\ p.root_leaf \in BOOLEAN /\ p.cells \in Lists(V) /\ p.ptr \in ids
           /\ p.root_leaf => p.kind = "Root"
           /\ KeysOf(p) = {p.cells[i].key : i \in 1..Len(p.cells)}
           /\ KeysOf(p) \subseteq Keys
           /\ \A k \in KeysOf(p) : k \in Int
<1>1. /\ p = [kind |-> p.kind, root_leaf |-> p.root_leaf, cells |-> p.cells, ptr |-> p.ptr]
      /\ p.kind \in PageKind /\ p.root_leaf \in BOOLEAN /\ p.cells \in Lists(V) /\ p.ptr \in ids
      /\ p.root_leaf => p.kind = "Root"
  BY DEF PagesOf
<1>2. /\ Len(p.cells) \in Nat /\ DOMAIN p.cells = 1..Len(p.cells)
      /\ \A i \in 1..Len(p.cells) : p.cells[i].key \in Keys /\ p.cells[i].key \in Int
  BY <1>1, ListFacts
<1> QED
  BY <1>1, <1>2 DEF KeysOf

\* The slot for a key comes after the cells with smaller keys.
LEMMA SlotIs ==
    ASSUME NEW V, NEW p, p.cells \in Lists(V), NEW key \in Int
    PROVE  /\ Slot(p, key) \in 1..Len(p.cells) + 1
           /\ \A i \in 1..Len(p.cells) : p.cells[i].key < key <=> i < Slot(p, key)
<1> DEFINE c == p.cells
           n == Cardinality({k \in KeysOf(p) : k <= key - 1})
<1>1. n \in 0..Len(c) /\ \A i \in 1..Len(c) : c[i].key <= key - 1 <=> i <= n
  <2>1. key - 1 \in Int
    OBVIOUS
  <2> QED
    BY <2>1, Rank
<1>2. /\ Len(c) \in Nat /\ DOMAIN c = 1..Len(c) /\ \A i \in 1..Len(c) : c[i].key \in Int
  BY ListFacts
<1>3. {k \in KeysOf(p) : k <= key - 1} = {k \in KeysOf(p) : k < key}
  <2>1. \A k \in KeysOf(p) : k \in Int
    BY <1>2 DEF KeysOf
  <2>2. \A k \in KeysOf(p) : k <= key - 1 <=> k < key
    BY <2>1
  <2> QED
    BY <2>2
<1>4. Slot(p, key) = 1 + n
  BY <1>3 DEF Slot
<1> HIDE DEF n, c
<1>5. \A i \in 1..Len(c) : c[i].key <= key - 1 <=> c[i].key < key
  BY <1>2
<1>6. \A i \in 1..Len(c) : i <= n <=> i < 1 + n
  BY <1>1, <1>2
<1> QED
  BY <1>1, <1>2, <1>4, <1>5, <1>6 DEF c

\* A list with a cell inserted in its place.
LEMMA InsertedList ==
    ASSUME NEW V, NEW c \in Lists(V), Len(c) < ORDER, NEW new \in CellsOf(V), NEW s \in 1..Len(c) + 1,
           \A i \in 1..Len(c) : c[i].key < new.key <=> i < s,
           \A i \in 1..Len(c) : c[i].key # new.key
    PROVE  /\ InsertAt(c, s, new) \in Lists(V)
           /\ Len(InsertAt(c, s, new)) = Len(c) + 1
           /\ \A j \in 1..Len(c) + 1 :
                 InsertAt(c, s, new)[j] = IF j < s THEN c[j] ELSE IF j = s THEN new ELSE c[j - 1]
<1> DEFINE N == Len(c)
           C == CellsOf(V)
           a == SubSeq(c, 1, s - 1)
           b == SubSeq(c, s, N)
           d == (a \o <<new>>) \o b
<1>1. /\ N \in Nat /\ c \in Seq(C) /\ \A i \in 1..N : c[i] \in C /\ c[i].key \in Int
      /\ \A i, j \in 1..N : i < j <=> c[i].key < c[j].key
  BY ListFacts
<1>2. a \in Seq(C) /\ Len(a) = s - 1 /\ \A i \in 1..s - 1 : a[i] = c[i]
  <2>1. 1 \in Int /\ s - 1 \in Int /\ \A i \in 1..s - 1 : c[i] \in C
    BY <1>1
  <2> DEFINE e == s - 1
  <2>2. e \in Int /\ \A i \in 1..e : c[i] \in C
    BY <2>1
  <2>3. e >= 0
    BY <1>1
  <2>4. SubSeq(c, 1, e) \in Seq(C) /\ Len(SubSeq(c, 1, e)) = (IF 1 <= e THEN e - 1 + 1 ELSE 0)
        /\ \A i \in 1..e - 1 + 1 : SubSeq(c, 1, e)[i] = c[1 + i - 1]
    <3> HIDE DEF e
    <3> QED
      BY <2>2, SubSeqProperties
  <2> QED
    BY <2>3, <2>4
<1>3. b \in Seq(C) /\ Len(b) = N - s + 1 /\ \A i \in 1..N - s + 1 : b[i] = c[s + i - 1]
  <2>1. s \in Int /\ N \in Int /\ \A i \in s..N : c[i] \in C
    BY <1>1
  <2>2. b \in Seq(C) /\ Len(b) = (IF s <= N THEN N - s + 1 ELSE 0)
        /\ \A i \in 1..N - s + 1 : b[i] = c[s + i - 1]
    <3> HIDE DEF N
    <3> QED
      BY <2>1, SubSeqProperties
  <2> QED
    BY <1>1, <2>2
<1>4. <<new>> \in Seq(C) /\ Len(<<new>>) = 1 /\ <<new>>[1] = new
  OBVIOUS
<1> HIDE DEF a, b
<1>5. a \o <<new>> \in Seq(C) /\ Len(a \o <<new>>) = s
      /\ \A i \in 1..s : (a \o <<new>>)[i] = IF i <= s - 1 THEN a[i] ELSE new
  <2>1. a \o <<new>> \in Seq(C) /\ Len(a \o <<new>>) = s - 1 + 1
        /\ \A i \in 1..s - 1 + 1 : (a \o <<new>>)[i] = IF i <= s - 1 THEN a[i] ELSE <<new>>[i - (s - 1)]
    BY <1>2, <1>4, ConcatProperties
  <2> QED
    BY <1>1, <2>1
<1>6. d \in Seq(C) /\ Len(d) = N + 1
      /\ \A i \in 1..N + 1 : d[i] = IF i <= s THEN (a \o <<new>>)[i] ELSE b[i - s]
  <2>1. d \in Seq(C) /\ Len(d) = s + (N - s + 1)
        /\ \A i \in 1..s + (N - s + 1) : d[i] = IF i <= s THEN (a \o <<new>>)[i] ELSE b[i - s]
    <3>1. ASSUME NEW e \in Seq(C), Len(e) = s
          PROVE  /\ e \o b \in Seq(C) /\ Len(e \o b) = s + (N - s + 1)
                 /\ \A i \in 1..s + (N - s + 1) : (e \o b)[i] = IF i <= s THEN e[i] ELSE b[i - s]
      <4> HIDE DEF C, N
      <4>1. /\ e \o b \in Seq(C) /\ Len(e \o b) = Len(e) + Len(b)
            /\ \A i \in 1..Len(e) + Len(b) : (e \o b)[i] = IF i <= Len(e) THEN e[i] ELSE b[i - Len(e)]
        BY <1>3, <3>1, ConcatProperties
      <4> QED
        BY <1>3, <3>1, <4>1
    <3> QED
      BY <1>5, <3>1
  <2>2. s + (N - s + 1) = N + 1
    BY <1>1
  <2> QED
    BY <2>1, <2>2
<1>7. InsertAt(c, s, new) = d
  BY DEF InsertAt, a, b
<1> HIDE DEF d
<1>8. ASSUME NEW j \in 1..N + 1 PROVE d[j] = IF j < s THEN c[j] ELSE IF j = s THEN new ELSE c[j - 1]
  <2>1. CASE j < s
    BY <1>1, <1>2, <1>5, <1>6, <2>1
  <2>2. CASE j = s
    BY <1>1, <1>5, <1>6, <2>2
  <2>3. CASE j > s
    <3>1. j - s \in 1..N - s + 1 /\ s + (j - s) - 1 = j - 1
      BY <1>1, <2>3
    <3>2. d[j] = b[j - s] /\ b[j - s] = c[s + (j - s) - 1]
      BY <1>1, <1>3, <1>6, <2>3, <3>1
    <3> QED
      BY <2>3, <3>1, <3>2
  <2> QED
    BY <1>1, <2>1, <2>2, <2>3
<1>9. new.key \in Int
  <2>1. new.key \in Keys
    BY DEF CellsOf
  <2>2. \A k \in Keys : k \in Int
    BY TreeAssumption DEF TreeAssumption
  <2> QED
    BY <2>1, <2>2
<1>10. InOrder(d)
  <2>1. ASSUME NEW i \in 1..N + 1, NEW j \in 1..N + 1, i < j PROVE d[i].key < d[j].key
    <3>1. CASE j < s
      <4>1. i \in 1..N /\ j \in 1..N /\ d[i] = c[i] /\ d[j] = c[j]
        BY <1>1, <1>8, <2>1, <3>1
      <4> QED
        BY <1>1, <2>1, <4>1
    <3>2. CASE j = s
      <4>1. i \in 1..N /\ i < s /\ d[i] = c[i] /\ d[j] = new
        BY <1>1, <1>8, <2>1, <3>2
      <4> QED
        BY <4>1
    <3>3. CASE j > s /\ i < s
      <4>1. i \in 1..N /\ j - 1 \in 1..N /\ ~(j - 1 < s) /\ d[i] = c[i] /\ d[j] = c[j - 1]
        BY <1>1, <1>8, <2>1, <3>3
      <4>2. c[i].key < new.key /\ ~(c[j - 1].key < new.key)
        BY <3>3, <4>1
      <4>3. c[i].key \in Int /\ c[j - 1].key \in Int
        BY <1>1, <4>1
      <4> QED
        BY <1>9, <4>1, <4>2, <4>3
    <3>4. CASE j > s /\ i = s
      <4>1. j - 1 \in 1..N /\ ~(j - 1 < s) /\ d[i] = new /\ d[j] = c[j - 1]
        BY <1>1, <1>8, <2>1, <3>4
      <4>2. ~(c[j - 1].key < new.key) /\ c[j - 1].key # new.key /\ c[j - 1].key \in Int
        BY <1>1, <4>1
      <4> QED
        BY <1>9, <4>1, <4>2
    <3>5. CASE j > s /\ i > s
      <4>1. i - 1 \in 1..N /\ j - 1 \in 1..N /\ i - 1 < j - 1 /\ d[i] = c[i - 1] /\ d[j] = c[j - 1]
        BY <1>1, <1>8, <2>1, <3>5
      <4> QED
        BY <1>1, <4>1
    <3> QED
      BY <1>1, <3>1, <3>2, <3>3, <3>4, <3>5
  <2> QED
    BY <1>6, <2>1 DEF InOrder
<1>11. d \in Lists(V)
  <2>1. N + 1 <= ORDER
    BY <1>1, TreeAssumption DEF TreeAssumption
  <2> QED
    BY <1>6, <1>10, <2>1 DEF Lists
<1> QED
  BY <1>6, <1>7, <1>8, <1>11

-----------------------------------------------------------------------------
(* Cells added, pages rebuilt, cells removed. *)

\* What the assumptions say of ORDER, DEGREE and the keys.
LEMMA Constants ==
    /\ ORDER \in Nat /\ ORDER >= 3 /\ DEGREE \in Nat /\ DEGREE >= 2 /\ DEGREE < ORDER
    /\ ORDER <= 2 * DEGREE /\ 2 * DEGREE <= ORDER + 1
    /\ \A k \in Keys : k \in Int
<1>1. ORDER \in Nat /\ ORDER >= 3
  BY TreeAssumption DEF TreeAssumption
<1>2. \A k \in Keys : k \in Int
  BY TreeAssumption DEF TreeAssumption
<1> QED
  BY <1>1, <1>2 DEF DEGREE

\* What add_cell makes of a page: the same page if the cell is refused, or one with
\* the cell in its place.
Added(p, key, val, q) ==
    /\ q.kind = p.kind /\ q.root_leaf = p.root_leaf /\ q.ptr = p.ptr
    /\ Len(q.cells) = Len(p.cells) + 1
    /\ \E s \in 1..Len(p.cells) + 1 :
          /\ \A i \in 1..Len(p.cells) : p.cells[i].key < key <=> i < s
          /\ \A j \in 1..Len(p.cells) + 1 :
                q.cells[j] = IF j < s THEN p.cells[j]
                             ELSE IF j = s THEN [key |-> key, val |-> val] ELSE p.cells[j - 1]

\* What add_cell returns.
LEMMA AddCellIs ==
    ASSUME NEW V, NEW ids, NEW p \in PagesOf(V, ids), NEW key \in Keys, NEW val \in V
    PROVE  LET r == AddCell(p, key, val)
           IN  /\ r = [ok |-> r.ok, page |-> r.page]
               /\ r.ok \in BOOLEAN
               /\ r.ok <=> (Len(p.cells) < ORDER /\ key \notin KeysOf(p))
               /\ r.page \in PagesOf(V, ids)
               /\ ~r.ok => r.page = p
               /\ r.ok => Added(p, key, val, r.page)
<1> DEFINE r == AddCell(p, key, val)
           c == p.cells
           new == [key |-> key, val |-> val]
           s == Slot(p, key)
           d == InsertAt(c, s, new)
           q == [p EXCEPT !.cells = d]
<1>1. /\ p = [kind |-> p.kind, root_leaf |-> p.root_leaf, cells |-> p.cells, ptr |-> p.ptr]
      /\ p.kind \in PageKind /\ p.root_leaf \in BOOLEAN /\ c \in Lists(V) /\ p.ptr \in ids
      /\ p.root_leaf => p.kind = "Root"
      /\ KeysOf(p) = {c[i].key : i \in 1..Len(c)}
  BY PageFacts
<1>2. CASE ~(Len(c) < ORDER /\ key \notin KeysOf(p))
  <2>1. r = [ok |-> FALSE, page |-> p]
    BY <1>2 DEF AddCell, HasRoom
  <2> HIDE DEF r
  <2>2. /\ r = [ok |-> r.ok, page |-> r.page] /\ r.ok \in BOOLEAN /\ ~r.ok /\ r.page = p
    BY <2>1
  <2> QED
    BY <1>2, <2>2 DEF r
<1>3. CASE Len(c) < ORDER /\ key \notin KeysOf(p)
  <2>1. r = [ok |-> TRUE, page |-> q]
    BY <1>1, <1>3 DEF AddCell, HasRoom
  <2>2. new \in CellsOf(V)
    BY DEF CellsOf
  <2>3. s \in 1..Len(c) + 1 /\ \A i \in 1..Len(c) : c[i].key < key <=> i < s
    BY <1>1, Constants, SlotIs
  <2>4. \A i \in 1..Len(c) : c[i].key # key
    BY <1>1, <1>3
  <2>5. new.key = key
    OBVIOUS
  <2> HIDE DEF s, new, r
  <2>6. /\ d \in Lists(V) /\ Len(d) = Len(c) + 1
        /\ \A j \in 1..Len(c) + 1 : d[j] = IF j < s THEN c[j] ELSE IF j = s THEN new ELSE c[j - 1]
    BY <1>1, <1>3, <2>2, <2>3, <2>4, <2>5, InsertedList
  <2> HIDE DEF d
  <2>7. q = [kind |-> p.kind, root_leaf |-> p.root_leaf, cells |-> d, ptr |-> p.ptr]
    BY <1>1
  <2> HIDE DEF q
  <2>8. q \in PagesOf(V, ids)
    BY <1>1, <2>6, <2>7 DEF PagesOf
  <2>9. Added(p, key, val, q)
    BY <2>3, <2>6, <2>7 DEF Added, new
  <2>10. /\ r = [ok |-> r.ok, page |-> r.page] /\ r.ok \in BOOLEAN /\ r.ok /\ r.page = q
    BY <2>1
  <2> QED
    BY <1>3, <2>8, <2>9, <2>10 DEF r
<1> QED
  BY <1>2, <1>3

\* The cells and the keys of a page that got a cell.
LEMMA AddedKeys ==
    ASSUME NEW V, NEW ids, NEW p \in PagesOf(V, ids), NEW q \in PagesOf(V, ids), NEW key, NEW val,
           Added(p, key, val, q)
    PROVE  /\ KeysOf(q) = KeysOf(p) \cup {key}
           /\ ToSet(q.cells) = ToSet(p.cells) \cup {[key |-> key, val |-> val]}
<1> DEFINE N == Len(p.cells)
           new == [key |-> key, val |-> val]
<1>1. N \in Nat /\ DOMAIN p.cells = 1..N /\ DOMAIN q.cells = 1..Len(q.cells) /\ Len(q.cells) = N + 1
  BY PageFacts, ListFacts DEF Added
<1>2. PICK s \in 1..N + 1 :
         \A j \in 1..N + 1 : q.cells[j] = IF j < s THEN p.cells[j] ELSE IF j = s THEN new ELSE p.cells[j - 1]
  BY DEF Added
<1>3. \A j \in 1..N + 1 : \/ j \in 1..N /\ q.cells[j] = p.cells[j]
                          \/ q.cells[j] = new
                          \/ j - 1 \in 1..N /\ q.cells[j] = p.cells[j - 1]
  <2>1. ASSUME NEW j \in 1..N + 1
        PROVE  \/ j \in 1..N /\ q.cells[j] = p.cells[j]
               \/ q.cells[j] = new
               \/ j - 1 \in 1..N /\ q.cells[j] = p.cells[j - 1]
    <3>1. CASE j < s
      <4>1. j \in 1..N
        BY <1>1, <3>1
      <4> QED
        BY <1>2, <3>1, <4>1
    <3>2. CASE j = s
      BY <1>2, <3>2
    <3>3. CASE j > s
      <4>1. j - 1 \in 1..N /\ ~(j < s) /\ j # s
        BY <1>1, <3>3
      <4> QED
        BY <1>2, <4>1
    <3> QED
      BY <1>1, <3>1, <3>2, <3>3
  <2> QED
    BY <2>1
<1>4. \A i \in 1..N : \E j \in 1..N + 1 : q.cells[j] = p.cells[i]
  <2>1. ASSUME NEW i \in 1..N PROVE \E j \in 1..N + 1 : q.cells[j] = p.cells[i]
    <3>1. CASE i < s
      BY <1>1, <1>2, <3>1
    <3>2. CASE ~(i < s)
      <4>1. i + 1 \in 1..N + 1 /\ ~(i + 1 < s) /\ i + 1 # s /\ (i + 1) - 1 = i
        BY <1>1, <3>2
      <4> QED
        BY <1>2, <4>1
    <3> QED
      BY <3>1, <3>2
  <2> QED
    BY <2>1
<1>5. s \in 1..N + 1 /\ q.cells[s] = new
  BY <1>1, <1>2
<1>6. \A x : (\E j \in 1..N + 1 : q.cells[j] = x) <=> (\E i \in 1..N : p.cells[i] = x) \/ x = new
  BY ZenonT(20), <1>3, <1>4, <1>5
<1>7. ToSet(q.cells) = ToSet(p.cells) \cup {new}
  BY ZenonT(20), <1>1, <1>6 DEF ToSet
<1>8. \A x : (\E j \in 1..N + 1 : q.cells[j].key = x) <=> (\E i \in 1..N : p.cells[i].key = x) \/ x = key
  <2>1. new.key = key
    OBVIOUS
  <2> HIDE DEF new
  <2> QED
    BY <1>3, <1>4, <1>5, <2>1
<1>9. KeysOf(q) = KeysOf(p) \cup {key}
  <2>1. \A x : x \in KeysOf(q) <=> \E j \in 1..N + 1 : q.cells[j].key = x
    BY <1>1 DEF KeysOf
  <2>2. \A x : x \in KeysOf(p) <=> \E j \in 1..N : p.cells[j].key = x
    BY <1>1 DEF KeysOf
  <2> QED
    BY <1>8, <2>1, <2>2
<1> QED
  BY <1>7, <1>9

\* A search in a page that got a cell goes to the cell's value if the cell's key is the
\* next larger one, and where it went if not.
LEMMA AddedChild ==
    ASSUME NEW V, NEW ids, NEW p \in PagesOf(V, ids), NEW q \in PagesOf(V, ids), NEW key \in Int, NEW val,
           Added(p, key, val, q), NEW k \in Int, key \notin KeysOf(p)
    PROVE  Child(q, k) = IF k < key /\ \A x \in KeysOf(p) : ~(k < x /\ x < key)
                         THEN val ELSE Child(p, k)
<1> DEFINE N == Len(p.cells)
           new == [key |-> key, val |-> val]
<1>1. /\ N \in Nat /\ DOMAIN p.cells = 1..N /\ DOMAIN q.cells = 1..Len(q.cells) /\ Len(q.cells) = N + 1
      /\ p.cells \in Lists(V) /\ q.cells \in Lists(V)
      /\ \A i \in 1..N : p.cells[i].key \in Int
      /\ \A i, j \in 1..N : i < j <=> p.cells[i].key < p.cells[j].key
      /\ KeysOf(p) = {p.cells[i].key : i \in 1..N}
      /\ q.ptr = p.ptr
  BY PageFacts, ListFacts DEF Added
<1>2. PICK s \in 1..N + 1 :
         /\ \A i \in 1..N : p.cells[i].key < key <=> i < s
         /\ \A j \in 1..N + 1 : q.cells[j] = IF j < s THEN p.cells[j] ELSE IF j = s THEN new ELSE p.cells[j - 1]
  BY DEF Added
<1>3. PICK i \in 1..N + 1 : Between(p, i, k)
  BY <1>1, SomeBetween
<1>4. Child(p, k) = Kid(p, i)
  BY <1>1, <1>3, ChildIs
<1>5. /\ i > 1 => p.cells[i - 1].key <= k
      /\ i <= N => k < p.cells[i].key
  BY <1>3 DEF Between
<1>6. new.key = key /\ new.val = val
  OBVIOUS
<1> HIDE DEF new
<1>7. ASSUME k < key PROVE i <= s
  <2>1. CASE i > s
    <3>1. i - 1 \in 1..N /\ ~(i - 1 < s) /\ i > 1
      BY <1>1, <2>1
    <3>2. p.cells[i - 1].key <= k /\ ~(p.cells[i - 1].key < key) /\ p.cells[i - 1].key \in Int
      BY <1>1, <1>2, <1>5, <3>1
    <3> QED
      BY <1>7, <3>2
  <2> QED
    BY <1>1, <2>1
<1>8. CASE ~(k < key)
  <2>1. i >= s
    <3>1. CASE i < s
      <4>1. i \in 1..N /\ p.cells[i].key < key
        BY <1>1, <1>2, <3>1
      <4>2. k < p.cells[i].key /\ p.cells[i].key \in Int
        BY <1>1, <1>5, <4>1
      <4> QED
        BY <1>8, <4>1, <4>2
    <3> QED
      BY <1>1, <3>1
  <2>2. i + 1 \in 1..Len(q.cells) + 1 /\ i + 1 > 1 /\ (i + 1) - 1 = i
    BY <1>1
  <2>3. q.cells[i].key <= k
    <3>1. CASE i = s
      BY <1>1, <1>2, <1>6, <1>8, <3>1
    <3>2. CASE i # s
      <4>1. i > 1 /\ ~(i < s) /\ q.cells[i] = p.cells[i - 1]
        BY <1>1, <1>2, <2>1, <3>2
      <4> QED
        BY <1>5, <4>1
    <3> QED
      BY <3>1, <3>2
  <2>4. i <= N => q.cells[i + 1] = p.cells[i]
    <3> SUFFICES ASSUME i <= N PROVE q.cells[i + 1] = p.cells[i]
      OBVIOUS
    <3>1. i + 1 \in 1..N + 1 /\ ~(i + 1 < s) /\ i + 1 # s /\ (i + 1) - 1 = i
      BY <1>1, <2>1
    <3> QED
      BY <1>2, <3>1
  <2>5. i + 1 <= Len(q.cells) => i <= N
    BY <1>1
  <2>6. Between(q, i + 1, k)
    <3>1. PICK m : m = i + 1
      OBVIOUS
    <3>2. m \in 1..Len(q.cells) + 1 /\ m - 1 = i /\ q.cells[m - 1].key <= k
      BY <2>2, <2>3, <3>1
    <3>3. m <= Len(q.cells) => k < q.cells[m].key
      BY <1>1, <1>5, <2>4, <2>5, <3>1
    <3>4. Between(q, m, k)
      BY <3>2, <3>3 DEF Between
    <3> QED
      BY <3>1, <3>4
  <2>7. Child(q, k) = Kid(q, i + 1)
    BY <1>1, <2>6, ChildIs
  <2>8. Kid(q, i + 1) = Kid(p, i)
    BY <1>1, <2>4, <2>5 DEF Kid
  <2> QED
    BY <1>4, <1>8, <2>7, <2>8
<1>9. CASE k < key /\ \A x \in KeysOf(p) : ~(k < x /\ x < key)
  <2>1. i = s
    <3>1. CASE i < s
      <4>1. i \in 1..N /\ p.cells[i].key < key /\ p.cells[i].key \in KeysOf(p)
        BY <1>1, <1>2, <3>1
      <4> QED
        BY <1>5, <1>9, <4>1
    <3> QED
      BY <1>1, <1>7, <1>9, <3>1
  <2>2. q.cells[s] = new /\ (s > 1 => s - 1 \in 1..N + 1 /\ q.cells[s - 1] = p.cells[s - 1])
    BY <1>1, <1>2
  <2>3. Between(q, s, k)
    BY <1>1, <1>5, <1>6, <1>9, <2>1, <2>2 DEF Between
  <2>4. Child(q, k) = Kid(q, s)
    BY <1>1, <2>3, ChildIs
  <2>5. Kid(q, s) = val
    BY <1>1, <1>6, <2>2 DEF Kid
  <2> QED
    BY <1>9, <2>4, <2>5
<1>10. CASE k < key /\ ~\A x \in KeysOf(p) : ~(k < x /\ x < key)
  <2>1. PICK j \in 1..N : k < p.cells[j].key /\ p.cells[j].key < key
    BY <1>1, <1>10
  <2>2. i < s
    <3>1. CASE i = s
      <4>1. j < i /\ i - 1 \in 1..N /\ i > 1
        BY <1>1, <1>2, <2>1, <3>1
      <4>2. j = i - 1 \/ j < i - 1
        BY <4>1
      <4>3. p.cells[j].key <= p.cells[i - 1].key
        BY SMTT(20), <1>1, <2>1, <4>1, <4>2
      <4>4. p.cells[j].key \in Int /\ p.cells[i - 1].key \in Int /\ p.cells[i - 1].key <= k
        BY <1>1, <1>5, <4>1
      <4> QED
        BY <2>1, <4>3, <4>4
    <3> QED
      BY <1>1, <1>7, <1>10, <3>1
  <2>3. i \in 1..N /\ q.cells[i] = p.cells[i] /\ (i > 1 => i - 1 \in 1..N /\ q.cells[i - 1] = p.cells[i - 1])
    BY SMTT(20), <1>1, <1>2, <2>2
  <2>4. Between(q, i, k)
    BY <1>1, <1>5, <2>3 DEF Between
  <2>5. Child(q, k) = Kid(q, i)
    BY <1>1, <2>4, ChildIs
  <2>6. Kid(q, i) = Kid(p, i)
    BY <1>1, <2>3 DEF Kid
  <2> QED
    BY <1>4, <1>10, <2>5, <2>6
<1> QED
  BY <1>8, <1>9, <1>10

\* What rebuild_from_cells makes of a page.
Rebuilt(p, kind, cells, ptr, V, ids, r) ==
    /\ r.ok \in BOOLEAN
    /\ r.page \in PagesOf(V, ids)
    /\ r.page.kind = kind /\ r.page.ptr = ptr
    /\ r.page.root_leaf = (p.kind = "Root" /\ p.root_leaf /\ kind = "Root")
    /\ r.ok => Len(cells) <= ORDER
    /\ Len(r.page.cells) <= Len(cells)
    /\ InOrder(cells) /\ Len(cells) <= ORDER => r.ok /\ r.page.cells = cells

\* What rebuild_from_cells returns.
LEMMA RebuildIs ==
    ASSUME NEW V, NEW ids, NEW p, p.root_leaf \in BOOLEAN, NEW kind \in PageKind,
           NEW cells \in Seq(CellsOf(V)), NEW ptr \in ids
    PROVE  Rebuilt(p, kind, cells, ptr, V, ids, Rebuild(p, kind, cells, ptr))
<1> DEFINE N == Len(cells)
           rl == (p.kind = "Root" /\ p.root_leaf /\ kind = "Root")
           empty == [kind |-> kind, cells |-> <<>>, ptr |-> ptr, root_leaf |-> rl]
           Q == {q \in PagesOf(V, ids) : q.kind = kind /\ q.ptr = ptr /\ q.root_leaf = rl}
           S == [ok : BOOLEAN, page : Q]
           base == [ok |-> TRUE, page |-> empty]
           St(i, acc) == IF acc.ok THEN AddCell(acc.page, cells[i].key, cells[i].val) ELSE acc
           G == [x \in (1..N) \X S |-> St(x[1], x[2])]
           Runs(g) == g = [n \in 0..N |->
                              IF n = 0 THEN base
                              ELSE IF g[n - 1].ok THEN AddCell(g[n - 1].page, cells[n].key, cells[n].val)
                              ELSE g[n - 1]]
           built == CHOOSE g : Runs(g)
<1>1. /\ N \in Nat
      /\ \A i \in 1..N : cells[i] \in CellsOf(V) /\ cells[i].key \in Keys /\ cells[i].val \in V
                         /\ cells[i].key \in Int
                         /\ cells[i] = [key |-> cells[i].key, val |-> cells[i].val]
  <2>1. N \in Nat /\ \A i \in 1..N : cells[i] \in CellsOf(V)
    OBVIOUS
  <2> QED
    BY <2>1, Constants DEF CellsOf
<1>2. base \in S
  <2>1. <<>> \in Lists(V)
    <3>1. Len(<<>>) = 0 /\ <<>> \in Seq(CellsOf(V))
      OBVIOUS
    <3> QED
      BY <3>1, Constants DEF Lists, InOrder
  <2>2. empty \in PagesOf(V, ids)
    BY <2>1 DEF PagesOf
  <2> QED
    BY <2>2
<1>3. ASSUME NEW i \in 1..N, NEW acc \in S
      PROVE  /\ St(i, acc) \in S
             /\ ~acc.ok => St(i, acc) = acc
             /\ acc.ok => LET r == AddCell(acc.page, cells[i].key, cells[i].val)
                          IN  /\ St(i, acc) = r
                              /\ r.ok <=> (Len(acc.page.cells) < ORDER /\ cells[i].key \notin KeysOf(acc.page))
                              /\ ~r.ok => r.page = acc.page
                              /\ r.ok => Added(acc.page, cells[i].key, cells[i].val, r.page)
  <2>1. acc.ok \in BOOLEAN /\ acc.page \in Q /\ acc.page \in PagesOf(V, ids)
    OBVIOUS
  <2>2. CASE ~acc.ok
    BY <2>2
  <2>3. CASE acc.ok
    <3> DEFINE r == AddCell(acc.page, cells[i].key, cells[i].val)
    <3>1. /\ r = [ok |-> r.ok, page |-> r.page] /\ r.ok \in BOOLEAN
          /\ r.ok <=> (Len(acc.page.cells) < ORDER /\ cells[i].key \notin KeysOf(acc.page))
          /\ r.page \in PagesOf(V, ids)
          /\ ~r.ok => r.page = acc.page
          /\ r.ok => Added(acc.page, cells[i].key, cells[i].val, r.page)
      <4>1. cells[i].key \in Keys /\ cells[i].val \in V /\ acc.page \in PagesOf(V, ids)
        BY <1>1, <2>1
      <4> QED
        BY <4>1, AddCellIs
    <3>2. St(i, acc) = r
      BY <2>3
    <3>3. r.page.kind = acc.page.kind /\ r.page.ptr = acc.page.ptr /\ r.page.root_leaf = acc.page.root_leaf
      BY <3>1 DEF Added
    <3> HIDE DEF r
    <3>4. r.page \in Q
      BY <2>1, <3>1, <3>3
    <3>5. r \in S
      <4> HIDE DEF Q
      <4> QED
        BY <3>1, <3>4
    <3> QED
      BY <2>3, <3>1, <3>2, <3>5 DEF r
  <2> QED
    BY <2>1, <2>2, <2>3
<1>4. G \in [(1..N) \X S -> S]
  <2>1. ASSUME NEW x \in (1..N) \X S PROVE St(x[1], x[2]) \in S
    <3>1. x[1] \in 1..N /\ x[2] \in S
      OBVIOUS
    <3> HIDE DEF S, St
    <3> QED
      BY <1>3, <3>1
  <2> HIDE DEF S, St, N
  <2> QED
    BY <2>1
<1>5. PICK f : IsRun(f, N, S, base, G)
  <2> HIDE DEF G, S, N, base
  <2> QED
    BY <1>1, <1>2, <1>4, LoopRuns
<1>6. ASSUME NEW g, NEW i \in 1..N, g[i - 1] \in S PROVE G[<<i, g[i - 1]>>] = St(i, g[i - 1])
  <2>1. <<i, g[i - 1]>> \in (1..N) \X S
    BY <1>6
  <2> HIDE DEF S, St, N
  <2> QED
    BY <2>1
<1>7. /\ f \in [0..N -> S] /\ f[0] = base
      /\ \A i \in 1..N : f[i] = St(i, f[i - 1]) /\ f[i - 1] \in S
  <2>1. f \in [0..N -> S] /\ f[0] = base
    BY <1>5 DEF IsRun
  <2>2. ASSUME NEW i \in 1..N PROVE f[i] = St(i, f[i - 1]) /\ f[i - 1] \in S
    <3> HIDE DEF G, S, St, base
    <3>1. f[i - 1] \in S
      BY <1>1, <2>1
    <3>2. f[i] = G[<<i, f[i - 1]>>]
      BY <1>5 DEF IsRun
    <3> QED
      BY <1>6, <3>1, <3>2
  <2> QED
    BY <2>1, <2>2
<1>8. Runs(built)
  <2>1. Runs(f)
    <3>1. ASSUME NEW i \in 0..N
          PROVE  f[i] = IF i = 0 THEN base
                        ELSE IF f[i - 1].ok THEN AddCell(f[i - 1].page, cells[i].key, cells[i].val)
                        ELSE f[i - 1]
      <4>1. i = 0 \/ i \in 1..N
        BY <1>1
      <4> HIDE DEF base
      <4> QED
        BY <1>7, <4>1
    <3>2. f = [i \in 0..N |-> f[i]]
      BY <1>7
    <3> HIDE DEF N, S, G, base
    <3> QED
      BY <3>1, <3>2
  <2> HIDE DEF Runs
  <2> QED
    BY <2>1
<1>9. Rebuild(p, kind, cells, ptr) = built[N]
  BY Zenon DEF Rebuild
<1>10. built = f
  <2> HIDE DEF built
  <2>1. built = [i \in 0..N |-> built[i]] /\ built[0] = base
    <3> HIDE DEF base
    <3> QED
      BY <1>1, <1>8
  <2>2. ASSUME NEW i \in 1..N, built[i - 1] \in S PROVE built[i] = G[<<i, built[i - 1]>>]
    <3>1. i \in 0..N /\ i # 0
      BY <1>1
    <3>2. built[i] = St(i, built[i - 1])
      <4> HIDE DEF base, S
      <4> QED
        BY <1>8, <3>1
    <3> HIDE DEF G, S, St
    <3> QED
      BY <1>6, <2>2, <3>2
  <2> HIDE DEF G, S, N, base, Runs
  <2> QED
    BY <1>5, <2>1, <2>2 DEF IsRun
<1> DEFINE r == f[N]
<1>11. r \in S
  <2> HIDE DEF S
  <2> QED
    BY <1>1, <1>7
<1>12. /\ r.ok \in BOOLEAN /\ r.page \in PagesOf(V, ids)
       /\ r.page.kind = kind /\ r.page.ptr = ptr /\ r.page.root_leaf = rl
  BY <1>11
<1>13. (r.ok => Len(r.page.cells) = N) /\ Len(r.page.cells) <= N
  <2> DEFINE P == {i \in 0..N : (f[i].ok => Len(f[i].page.cells) = i) /\ Len(f[i].page.cells) <= i}
  <2>1. 0 \in P
    <3>1. f[0].page.cells = <<>>
      BY <1>7
    <3> QED
      BY <1>1, <3>1
  <2>2. ASSUME NEW i \in 1..N, i - 1 \in P PROVE i \in P
    <3> DEFINE a == f[i - 1]
               q == AddCell(a.page, cells[i].key, cells[i].val)
    <3>1. a \in S /\ f[i] = St(i, a) /\ (a.ok => Len(a.page.cells) = i - 1) /\ Len(a.page.cells) <= i - 1
      BY <1>7, <2>2
    <3>2. CASE ~a.ok
      <4>1. f[i] = a
        BY <3>1, <3>2
      <4>2. Len(a.page.cells) \in Nat
        BY <3>1, PageFacts, ListFacts
      <4> QED
        BY <1>1, <3>1, <3>2, <4>1, <4>2
    <3>3. CASE a.ok
      <4>1. f[i] = q /\ (q.ok => Added(a.page, cells[i].key, cells[i].val, q.page)) /\ (~q.ok => q.page = a.page)
        BY <1>3, <3>1, <3>3
      <4> HIDE DEF q
      <4> QED
        BY <1>1, <3>1, <3>3, <4>1 DEF Added
    <3> QED
      BY <3>2, <3>3
  <2>3. \A i \in 0..N : i \in P
    <3> HIDE DEF P
    <3> QED
      BY <1>1, <2>1, <2>2, UpTo
  <2> QED
    BY <1>1, <2>3
<1>14. r.ok => N <= ORDER
  <2>1. Len(r.page.cells) <= ORDER
    BY <1>12, PageFacts, ListFacts
  <2> QED
    BY <1>13, <2>1
<1>15. ASSUME InOrder(cells), N <= ORDER PROVE r.ok /\ r.page.cells = cells
  <2> DEFINE P == {i \in 0..N : f[i].ok /\ Len(f[i].page.cells) = i
                                /\ \A j \in 1..i : f[i].page.cells[j] = cells[j]}
  <2>1. 0 \in P
    <3>1. f[0].ok /\ f[0].page.cells = <<>>
      BY <1>7
    <3> QED
      BY <1>1, <3>1
  <2>2. ASSUME NEW i \in 1..N, i - 1 \in P PROVE i \in P
    <3> DEFINE a == f[i - 1]
               q == AddCell(a.page, cells[i].key, cells[i].val)
    <3>1. a \in S /\ f[i] = St(i, a) /\ a.ok /\ Len(a.page.cells) = i - 1
          /\ \A j \in 1..i - 1 : a.page.cells[j] = cells[j]
      BY <1>7, <2>2
    <3>2. /\ f[i] = q
          /\ q.ok <=> (Len(a.page.cells) < ORDER /\ cells[i].key \notin KeysOf(a.page))
          /\ q.ok => Added(a.page, cells[i].key, cells[i].val, q.page)
      BY <1>3, <3>1
    <3>3. \A j \in 1..i - 1 : cells[j].key < cells[i].key
      BY <1>1, <1>15 DEF InOrder
    <3>4. KeysOf(a.page) = {a.page.cells[j].key : j \in 1..Len(a.page.cells)}
      BY <3>1, PageFacts
    <3>5. cells[i].key \notin KeysOf(a.page)
      <4>1. ASSUME NEW j \in 1..Len(a.page.cells) PROVE a.page.cells[j].key # cells[i].key
        <5>1. j \in 1..i - 1 /\ j \in 1..N
          BY <1>1, <3>1
        <5>2. a.page.cells[j] = cells[j] /\ cells[j].key < cells[i].key
          BY <3>1, <3>3, <5>1
        <5>3. cells[j].key \in Int /\ cells[i].key \in Int
          BY <1>1, <5>1
        <5> QED
          BY <5>2, <5>3
      <4> QED
        BY <3>4, <4>1
    <3>6. q.ok /\ Added(a.page, cells[i].key, cells[i].val, q.page)
      BY <1>1, <1>15, <3>1, <3>2, <3>5, Constants
    <3> HIDE DEF a, q
    <3>7. Len(q.page.cells) = i
      BY <1>1, <3>1, <3>6 DEF Added
    <3>8. PICK s \in 1..i :
             /\ \A j \in 1..i - 1 : a.page.cells[j].key < cells[i].key <=> j < s
             /\ \A j \in 1..i : q.page.cells[j] = IF j < s THEN a.page.cells[j]
                       ELSE IF j = s THEN [key |-> cells[i].key, val |-> cells[i].val] ELSE a.page.cells[j - 1]
      <4>1. (i - 1) + 1 = i
        BY <1>1
      <4> QED
        BY ZenonT(20), <3>1, <3>6, <4>1 DEF Added
    <3>9. s = i
      <4>1. \A j \in 1..i - 1 : j < s
        BY <3>1, <3>3, <3>8
      <4>2. s \in 1..i - 1 \/ s = i
        BY <1>1
      <4> QED
        BY <4>1, <4>2
    <3>10. \A j \in 1..i : q.page.cells[j] = cells[j]
      <4>1. ASSUME NEW j \in 1..i PROVE q.page.cells[j] = cells[j]
        <5>1. j = i \/ j \in 1..i - 1
          BY <1>1
        <5> QED
          BY <1>1, <3>1, <3>8, <3>9, <5>1
      <4> QED
        BY <4>1
    <3>11. i \in 0..N /\ f[i] = q
      BY <1>1, <3>2 DEF q
    <3> QED
      BY <3>6, <3>7, <3>10, <3>11
  <2>3. \A i \in 0..N : i \in P
    <3> HIDE DEF P
    <3> QED
      BY <1>1, <2>1, <2>2, UpTo
  <2>4. r.ok /\ Len(r.page.cells) = N /\ \A j \in 1..N : r.page.cells[j] = cells[j]
    BY <1>1, <2>3
  <2>5. r.page.cells \in Seq(CellsOf(V))
    BY <1>12, PageFacts, ListFacts
  <2> HIDE DEF r
  <2>6. r.page.cells = cells
    BY <2>4, <2>5, SeqEqual
  <2> QED
    BY <2>4, <2>6
<1>16. Rebuild(p, kind, cells, ptr) = r
  BY <1>9, <1>10
<1> HIDE DEF r
<1>17. r.page.root_leaf = (p.kind = "Root" /\ p.root_leaf /\ kind = "Root")
  BY <1>12
<1> QED
  BY <1>12, <1>13, <1>14, <1>15, <1>16, <1>17 DEF Rebuilt

\* Part of a list in order.
LEMMA SubList ==
    ASSUME NEW V, NEW c \in Lists(V), NEW a \in 1..Len(c) + 1, NEW b \in 0..Len(c), a <= b + 1
    PROVE  /\ SubSeq(c, a, b) \in Lists(V)
           /\ Len(SubSeq(c, a, b)) = b - a + 1
           /\ \A j \in 1..b - a + 1 : SubSeq(c, a, b)[j] = c[a + j - 1]
<1> DEFINE N == Len(c)
           d == SubSeq(c, a, b)
<1>1. /\ N \in Nat /\ N <= ORDER /\ \A i \in 1..N : c[i] \in CellsOf(V) /\ c[i].key \in Int
      /\ \A i, j \in 1..N : i < j <=> c[i].key < c[j].key
  BY ListFacts
<1>2. d \in Seq(CellsOf(V)) /\ Len(d) = b - a + 1 /\ \A j \in 1..b - a + 1 : d[j] = c[a + j - 1]
  <2>1. a \in Int /\ b \in Int /\ \A i \in a..b : c[i] \in CellsOf(V)
    BY <1>1
  <2>2. d \in Seq(CellsOf(V)) /\ Len(d) = (IF a <= b THEN b - a + 1 ELSE 0)
        /\ \A j \in 1..b - a + 1 : d[j] = c[a + j - 1]
    BY <2>1, SubSeqProperties
  <2> HIDE DEF d
  <2> QED
    BY <1>1, <2>2
<1> HIDE DEF d
<1>3. InOrder(d)
  <2>1. ASSUME NEW i \in 1..Len(d), NEW j \in 1..Len(d), i < j PROVE d[i].key < d[j].key
    <3>1. a + i - 1 \in 1..N /\ a + j - 1 \in 1..N /\ a + i - 1 < a + j - 1
      BY <1>1, <1>2, <2>1
    <3>2. d[i] = c[a + i - 1] /\ d[j] = c[a + j - 1]
      BY <1>2
    <3> QED
      BY <1>1, <3>1, <3>2
  <2> QED
    BY <2>1 DEF InOrder
<1>4. Len(d) <= ORDER
  BY <1>1, <1>2, Constants
<1> QED
  BY <1>2, <1>3, <1>4 DEF Lists, d

\* Two lists in order, the second with the larger keys, one after the other.
LEMMA JoinedList ==
    ASSUME NEW C, NEW a \in Seq(C), NEW b \in Seq(C)
    PROVE  /\ a \o b \in Seq(C) /\ Len(a \o b) = Len(a) + Len(b)
           /\ \A j \in 1..Len(a) + Len(b) : (a \o b)[j] = IF j <= Len(a) THEN a[j] ELSE b[j - Len(a)]
           /\ InOrder(a) /\ InOrder(b) /\ (\A i \in 1..Len(a), j \in 1..Len(b) : a[i].key < b[j].key)
              => InOrder(a \o b)
<1> DEFINE d == a \o b
           M == Len(a)
           N == Len(b)
<1>1. M \in Nat /\ N \in Nat
  OBVIOUS
<1>2. /\ d \in Seq(C) /\ Len(d) = M + N
      /\ \A j \in 1..M + N : d[j] = IF j <= M THEN a[j] ELSE b[j - M]
  BY ConcatProperties
<1> HIDE DEF d
<1>3. ASSUME InOrder(a), InOrder(b), \A i \in 1..M, j \in 1..N : a[i].key < b[j].key,
             NEW i \in 1..Len(d), NEW j \in 1..Len(d), i < j
      PROVE  d[i].key < d[j].key
  <2>1. CASE j <= M
    <3>1. i \in 1..M /\ j \in 1..M /\ d[i] = a[i] /\ d[j] = a[j]
      BY <1>1, <1>2, <1>3, <2>1
    <3> QED
      BY <1>3, <3>1 DEF InOrder
  <2>2. CASE i > M
    <3>1. i - M \in 1..N /\ j - M \in 1..N /\ i - M < j - M /\ d[i] = b[i - M] /\ d[j] = b[j - M]
      BY <1>1, <1>2, <1>3, <2>2
    <3> QED
      BY <1>3, <3>1 DEF InOrder
  <2>3. CASE i <= M /\ j > M
    <3>1. i \in 1..M /\ j - M \in 1..N /\ d[i] = a[i] /\ d[j] = b[j - M]
      BY <1>1, <1>2, <1>3, <2>3
    <3> QED
      BY <1>3, <3>1
  <2> QED
    BY <1>1, <1>2, <2>1, <2>2, <2>3
<1> QED
  BY <1>2, <1>3 DEF d, InOrder

\* A list without one of its cells.
LEMMA RemovedList ==
    ASSUME NEW V, NEW c \in Lists(V), NEW i \in 1..Len(c)
    PROVE  /\ RemoveAt(c, i) \in Lists(V) /\ Len(RemoveAt(c, i)) = Len(c) - 1
           /\ \A j \in 1..Len(c) - 1 : RemoveAt(c, i)[j] = IF j < i THEN c[j] ELSE c[j + 1]
<1> DEFINE N == Len(c)
           a == SubSeq(c, 1, i - 1)
           b == SubSeq(c, i + 1, N)
           d == a \o b
<1>1. /\ N \in Nat /\ N <= ORDER /\ \A j \in 1..N : c[j] \in CellsOf(V) /\ c[j].key \in Int
      /\ \A j, k \in 1..N : j < k <=> c[j].key < c[k].key
  BY ListFacts
<1>2. a \in Lists(V) /\ Len(a) = i - 1 /\ \A j \in 1..i - 1 : a[j] = c[j]
  <2>1. PICK e : e = i - 1
    OBVIOUS
  <2>2. e \in 0..N /\ 1 \in 1..N + 1 /\ 1 <= e + 1 /\ e - 1 + 1 = e
    BY <1>1, <2>1
  <2>3. SubSeq(c, 1, e) \in Lists(V) /\ Len(SubSeq(c, 1, e)) = e - 1 + 1
        /\ \A j \in 1..e - 1 + 1 : SubSeq(c, 1, e)[j] = c[1 + j - 1]
    BY <2>2, SubList
  <2> QED
    BY <2>1, <2>2, <2>3
<1>3. b \in Lists(V) /\ Len(b) = N - i /\ \A j \in 1..N - i : b[j] = c[i + j]
  <2>1. PICK e : e = i + 1
    OBVIOUS
  <2>2. e \in 1..N + 1 /\ N \in 0..N /\ e <= N + 1 /\ N - e + 1 = N - i /\ \A j \in 1..N - i : e + j - 1 = i + j
    BY <1>1, <2>1
  <2>3. SubSeq(c, e, N) \in Lists(V) /\ Len(SubSeq(c, e, N)) = N - e + 1
        /\ \A j \in 1..N - e + 1 : SubSeq(c, e, N)[j] = c[e + j - 1]
    BY <2>2, SubList
  <2> QED
    BY <2>1, <2>2, <2>3
<1> HIDE DEF a, b
<1>4. /\ d \in Seq(CellsOf(V)) /\ Len(d) = Len(a) + Len(b)
      /\ \A j \in 1..Len(a) + Len(b) : d[j] = IF j <= Len(a) THEN a[j] ELSE b[j - Len(a)]
      /\ InOrder(a) /\ InOrder(b) /\ (\A k \in 1..Len(a), j \in 1..Len(b) : a[k].key < b[j].key)
         => InOrder(d)
  <2>1. a \in Seq(CellsOf(V)) /\ b \in Seq(CellsOf(V))
    BY <1>2, <1>3 DEF Lists
  <2> QED
    BY <2>1, JoinedList
<1>5. RemoveAt(c, i) = d
  BY DEF RemoveAt, a, b
<1> HIDE DEF d
<1>6. Len(d) = N - 1
  BY <1>1, <1>2, <1>3, <1>4
<1>7. \A j \in 1..N - 1 : d[j] = IF j < i THEN c[j] ELSE c[j + 1]
  <2>1. ASSUME NEW j \in 1..N - 1 PROVE d[j] = IF j < i THEN c[j] ELSE c[j + 1]
    <3>0. j \in 1..Len(a) + Len(b)
      BY <1>1, <1>2, <1>3
    <3>1. CASE j < i
      <4>1. j <= Len(a) /\ j \in 1..i - 1
        BY <1>1, <1>2, <3>1
      <4> QED
        BY <1>2, <1>4, <3>0, <3>1, <4>1
    <3>2. CASE ~(j < i)
      <4>1. PICK e : e = j - (i - 1)
        OBVIOUS
      <4>2. e \in 1..N - i /\ i + e = j + 1 /\ ~(j <= Len(a)) /\ j - Len(a) = e
        BY <1>1, <1>2, <3>2, <4>1
      <4>3. d[j] = b[e] /\ b[e] = c[i + e]
        BY <1>3, <1>4, <3>0, <4>2
      <4> QED
        BY <3>2, <4>2, <4>3
    <3> QED
      BY <3>1, <3>2
  <2> QED
    BY <2>1
<1>8. InOrder(d)
  <2>1. InOrder(a) /\ InOrder(b)
    BY <1>2, <1>3 DEF Lists
  <2>2. ASSUME NEW k \in 1..Len(a), NEW j \in 1..Len(b) PROVE a[k].key < b[j].key
    <3>1. k \in 1..N /\ i + j \in 1..N /\ k < i + j /\ a[k] = c[k] /\ b[j] = c[i + j]
      BY <1>1, <1>2, <1>3
    <3> QED
      BY <1>1, <3>1
  <2> QED
    BY <1>4, <2>1, <2>2
<1>9. d \in Lists(V)
  <2>1. N - 1 <= ORDER
    BY <1>1, Constants
  <2> QED
    BY <1>4, <1>6, <1>8, <2>1 DEF Lists
<1> QED
  BY <1>5, <1>6, <1>7, <1>9

\* A page is one of its cells added to the page without it.
LEMMA RemovedAdded ==
    ASSUME NEW V, NEW ids, NEW p \in PagesOf(V, ids), NEW i \in 1..Len(p.cells), NEW q,
           q.kind = p.kind, q.root_leaf = p.root_leaf, q.ptr = p.ptr, q.cells = RemoveAt(p.cells, i)
    PROVE  Added(q, p.cells[i].key, p.cells[i].val, p) /\ p.cells[i].key \notin KeysOf(q)
<1> DEFINE N == Len(p.cells)
           c == p.cells
<1>1. /\ N \in Nat /\ c \in Lists(V) /\ \A j \in 1..N : c[j] = [key |-> c[j].key, val |-> c[j].val] /\ c[j].key \in Int
      /\ \A j, k \in 1..N : j < k <=> c[j].key < c[k].key
  BY PageFacts, ListFacts
<1>2. /\ q.cells \in Lists(V) /\ Len(q.cells) = N - 1
      /\ \A j \in 1..N - 1 : q.cells[j] = IF j < i THEN c[j] ELSE c[j + 1]
  <2>1. /\ RemoveAt(c, i) \in Lists(V) /\ Len(RemoveAt(c, i)) = N - 1
        /\ \A j \in 1..N - 1 : RemoveAt(c, i)[j] = IF j < i THEN c[j] ELSE c[j + 1]
    <3>1. p.cells \in Lists(V) /\ i \in 1..Len(p.cells)
      BY <1>1
    <3> HIDE DEF c, N
    <3>2. /\ RemoveAt(p.cells, i) \in Lists(V) /\ Len(RemoveAt(p.cells, i)) = Len(p.cells) - 1
          /\ \A j \in 1..Len(p.cells) - 1 :
                RemoveAt(p.cells, i)[j] = IF j < i THEN p.cells[j] ELSE p.cells[j + 1]
      BY <3>1, RemovedList
    <3> QED
      BY <3>2 DEF c, N
  <2>2. q.cells = RemoveAt(c, i)
    OBVIOUS
  <2> QED
    BY <2>1, <2>2
<1>3. Len(p.cells) = Len(q.cells) + 1
  BY <1>1, <1>2
<1>4. i \in 1..Len(q.cells) + 1
  BY <1>1, <1>2
<1>5. ASSUME NEW j \in 1..Len(q.cells) PROVE q.cells[j].key < c[i].key <=> j < i
  <2>1. j \in 1..N /\ j + 1 \in 1..N
    BY <1>1, <1>2
  <2>2. CASE j < i
    BY <1>1, <1>2, <2>1, <2>2
  <2>3. CASE ~(j < i)
    <3>1. q.cells[j] = c[j + 1] /\ ~(j + 1 < i)
      BY <1>1, <1>2, <2>3
    <3> QED
      BY <1>1, <2>1, <2>3, <3>1
  <2> QED
    BY <2>2, <2>3
<1>6. ASSUME NEW j \in 1..Len(q.cells) + 1
      PROVE  c[j] = IF j < i THEN q.cells[j] ELSE IF j = i THEN [key |-> c[i].key, val |-> c[i].val]
                    ELSE q.cells[j - 1]
  <2>1. CASE j < i
    <3>1. j \in 1..N - 1
      BY <1>1, <1>2, <2>1
    <3> QED
      BY <1>2, <2>1, <3>1
  <2>2. CASE j = i
    BY <1>1, <2>2
  <2>3. CASE j > i
    <3>1. j - 1 \in 1..N - 1 /\ ~(j - 1 < i) /\ (j - 1) + 1 = j
      BY <1>1, <1>2, <2>3
    <3> QED
      BY <1>2, <2>3, <3>1
  <2> QED
    BY <1>1, <2>1, <2>2, <2>3
<1>7. Added(q, c[i].key, c[i].val, p)
  BY <1>3, <1>4, <1>5, <1>6 DEF Added
<1>8. c[i].key \notin KeysOf(q)
  <2>1. DOMAIN q.cells = 1..N - 1
    BY <1>2, ListFacts
  <2>2. ASSUME NEW j \in 1..N - 1 PROVE q.cells[j].key # c[i].key
    <3>1. CASE j < i
      <4>1. j \in 1..N
        BY <1>1
      <4> QED
        BY <1>1, <1>2, <3>1, <4>1
    <3>2. CASE ~(j < i)
      <4>1. j + 1 \in 1..N /\ i < j + 1 /\ q.cells[j] = c[j + 1]
        BY <1>1, <1>2, <3>2
      <4> QED
        BY <1>1, <4>1
    <3> QED
      BY <3>1, <3>2
  <2> QED
    BY <2>1, <2>2 DEF KeysOf
<1> QED
  BY <1>7, <1>8

\* remove_cell_at.
LEMMA RemoveCellAtIs ==
    ASSUME NEW V, NEW ids, NEW p \in PagesOf(V, ids), NEW i \in 1..Len(p.cells)
    PROVE  LET q == RemoveCellAt(p, i)
           IN  /\ q \in PagesOf(V, ids) /\ Len(q.cells) = Len(p.cells) - 1
               /\ q.kind = p.kind /\ q.root_leaf = p.root_leaf /\ q.ptr = p.ptr
               /\ q.cells = RemoveAt(p.cells, i)
               /\ Added(q, p.cells[i].key, p.cells[i].val, p) /\ p.cells[i].key \notin KeysOf(q)
               /\ KeysOf(p) = KeysOf(q) \cup {p.cells[i].key}
               /\ ToSet(p.cells) = ToSet(q.cells) \cup {p.cells[i]}
<1> DEFINE d == RemoveAt(p.cells, i)
           r == Rebuild(p, p.kind, d, p.ptr)
           q == r.page
<1>1. /\ p.kind \in PageKind /\ p.root_leaf \in BOOLEAN /\ p.cells \in Lists(V) /\ p.ptr \in ids
      /\ p.root_leaf => p.kind = "Root"
  BY PageFacts
<1>2. d \in Lists(V) /\ Len(d) = Len(p.cells) - 1
  BY <1>1, RemovedList
<1>3. d \in Seq(CellsOf(V)) /\ InOrder(d) /\ Len(d) <= ORDER
  BY <1>2 DEF Lists
<1> HIDE DEF d
<1>4. Rebuilt(p, p.kind, d, p.ptr, V, ids, r)
  BY <1>1, <1>3, RebuildIs
<1> HIDE DEF r
<1>5. q \in PagesOf(V, ids) /\ q.kind = p.kind /\ q.ptr = p.ptr /\ q.cells = d
      /\ q.root_leaf = (p.kind = "Root" /\ p.root_leaf /\ p.kind = "Root")
  BY <1>3, <1>4 DEF Rebuilt
<1>6. q.root_leaf = p.root_leaf
  BY <1>1, <1>5
<1> HIDE DEF q
<1>7. Added(q, p.cells[i].key, p.cells[i].val, p) /\ p.cells[i].key \notin KeysOf(q)
  BY <1>5, <1>6, RemovedAdded DEF d
<1>8. KeysOf(p) = KeysOf(q) \cup {p.cells[i].key}
      /\ ToSet(p.cells) = ToSet(q.cells) \cup {[key |-> p.cells[i].key, val |-> p.cells[i].val]}
  BY <1>5, <1>7, AddedKeys
<1>9. p.cells[i] = [key |-> p.cells[i].key, val |-> p.cells[i].val]
  BY <1>1, ListFacts
<1>10. RemoveCellAt(p, i) = q
  BY DEF RemoveCellAt, q, r, d
<1> QED
  BY <1>2, <1>5, <1>6, <1>7, <1>8, <1>9, <1>10 DEF d

-----------------------------------------------------------------------------
(* What a change to a page's cells does to the children searches go to. *)

\* No key of p tells k from m.
SameSlot(p, k, m) == \A x \in KeysOf(p) : x <= k <=> x <= m

\* Keys no separator tells apart go to the same child.
LEMMA SameChild ==
    ASSUME NEW p, NEW k, NEW m, SameSlot(p, k, m)
    PROVE  Child(p, k) = Child(p, m)
<1>1. {x \in KeysOf(p) : x <= k} = {x \in KeysOf(p) : x <= m}
  BY DEF SameSlot
<1> QED
  BY <1>1 DEF Child

\* The search in a page without one of its cells: a key that went to it goes to the next child.
LEMMA RemovedChild ==
    ASSUME NEW V, NEW ids, NEW p \in PagesOf(V, ids), NEW q \in PagesOf(V, ids), NEW s \in Int, NEW val,
           Added(q, s, val, p), s \notin KeysOf(q), NEW k \in Int
    PROVE  /\ k < s /\ (\A x \in KeysOf(q) : ~(k < x /\ x < s))
                => Child(p, k) = val /\ Child(q, k) = Child(p, s)
           /\ ~(k < s /\ (\A x \in KeysOf(q) : ~(k < x /\ x < s)))
                => Child(q, k) = Child(p, k)
<1>1. \A x \in KeysOf(q) : x \in Int /\ x # s
  BY PageFacts
<1>2. Child(p, k) = IF k < s /\ \A x \in KeysOf(q) : ~(k < x /\ x < s) THEN val ELSE Child(q, k)
  BY AddedChild
<1>3. Child(p, s) = Child(q, s)
  <2>1. Child(p, s) = IF s < s /\ \A x \in KeysOf(q) : ~(s < x /\ x < s) THEN val ELSE Child(q, s)
    BY AddedChild
  <2> QED
    BY <2>1
<1>4. ASSUME k < s, \A x \in KeysOf(q) : ~(k < x /\ x < s) PROVE Child(q, k) = Child(q, s)
  <2>1. SameSlot(q, k, s)
    BY <1>1, <1>4 DEF SameSlot
  <2> QED
    BY <2>1, SameChild
<1> QED
  BY <1>2, <1>3, <1>4

\* The search in a page in which t took the place of the separator s.
LEMMA MovedChild ==
    ASSUME NEW V, NEW ids, NEW p \in PagesOf(V, ids), NEW q \in PagesOf(V, ids), NEW b \in PagesOf(V, ids),
           NEW s \in Int, NEW t \in Int, NEW val, Added(b, s, val, p), Added(b, t, val, q),
           s \notin KeysOf(b), t \notin KeysOf(b),
           \A x \in KeysOf(b) : ~(s < x /\ x < t) /\ ~(t < x /\ x < s),
           NEW k \in Int
    PROVE  /\ s <= k /\ k < t => Child(q, k) = val
           /\ t <= k /\ k < s => Child(q, k) = Child(p, s)
           /\ ~(s <= k /\ k < t) /\ ~(t <= k /\ k < s) => Child(q, k) = Child(p, k)
           /\ Child(p, s - 1) = val
<1>1. \A x \in KeysOf(b) : x \in Int /\ x # s /\ x # t
  BY PageFacts
<1>2. \A m \in Int : Child(p, m) = IF m < s /\ \A x \in KeysOf(b) : ~(m < x /\ x < s) THEN val ELSE Child(b, m)
  BY AddedChild
<1>3. Child(q, k) = IF k < t /\ \A x \in KeysOf(b) : ~(k < x /\ x < t) THEN val ELSE Child(b, k)
  BY AddedChild
<1>4. Child(p, s - 1) = val
  <2>1. s - 1 \in Int /\ s - 1 < s /\ \A x \in KeysOf(b) : ~(s - 1 < x /\ x < s)
    BY <1>1
  <2> QED
    BY <1>2, <2>1
<1>5. ASSUME s <= k, k < t PROVE Child(q, k) = val
  <2>1. \A x \in KeysOf(b) : ~(k < x /\ x < t)
    BY <1>1, <1>5
  <2> QED
    BY <1>3, <1>5, <2>1
<1>6. ASSUME t <= k, k < s PROVE Child(q, k) = Child(p, s)
  <2>1. SameSlot(b, k, s)
    <3>1. ASSUME NEW x \in KeysOf(b) PROVE x <= k <=> x <= s
      <4>1. x \in Int /\ x # s /\ x # t /\ ~(t < x /\ x < s)
        BY <1>1
      <4> QED
        BY <1>6, <4>1
    <3> QED
      BY <3>1 DEF SameSlot
  <2>2. Child(b, k) = Child(b, s)
    BY <2>1, SameChild
  <2>3. Child(p, s) = Child(b, s)
    BY <1>2
  <2> QED
    BY <1>3, <1>6, <2>2, <2>3
<1>7. ASSUME ~(s <= k /\ k < t), ~(t <= k /\ k < s) PROVE Child(q, k) = Child(p, k)
  <2>1. CASE k < s /\ k < t
    <3>1. ASSUME NEW x \in KeysOf(b) PROVE (k < x /\ x < s) <=> (k < x /\ x < t)
      <4>1. x \in Int /\ x # s /\ x # t /\ ~(t < x /\ x < s) /\ ~(s < x /\ x < t)
        BY <1>1
      <4> QED
        BY <4>1
    <3>2. (\A x \in KeysOf(b) : ~(k < x /\ x < s)) <=> (\A x \in KeysOf(b) : ~(k < x /\ x < t))
      BY <3>1
    <3> QED
      BY <1>2, <1>3, <2>1, <3>2
  <2>2. CASE ~(k < s) /\ ~(k < t)
    BY <1>2, <1>3, <2>2
  <2> QED
    BY <1>7, <2>1, <2>2
<1> QED
  BY <1>4, <1>5, <1>6, <1>7

\* The search in the left part of a page, whose pointer is the child of the cell after it.
LeftPart(q, p, n) ==
    /\ n \in Nat /\ n = Len(q.cells) /\ n < Len(p.cells)
    /\ \A i \in 1..n : q.cells[i] = p.cells[i]
    /\ q.ptr = p.cells[n + 1].val

\* The first part of a page sends keys where the page sent them.
LEMMA PrefixChild ==
    ASSUME NEW V, NEW p, p.cells \in Lists(V), NEW q, q.cells \in Lists(V), NEW n,
           LeftPart(q, p, n), NEW k \in Int, k < p.cells[n + 1].key
    PROVE  Child(q, k) = Child(p, k)
<1>. /\ n \in Nat /\ n = Len(q.cells) /\ n < Len(p.cells)
     /\ \A i \in 1..n : q.cells[i] = p.cells[i]
     /\ q.ptr = p.cells[n + 1].val
  BY DEF LeftPart
<1> DEFINE N == Len(p.cells)
<1>0. \A i, j \in 1..N : i < j <=> p.cells[i].key < p.cells[j].key
  BY ListFacts
<1>1. N \in Nat /\ \A i \in 1..N : p.cells[i].key \in Int
  BY ListFacts
<1>2. PICK i \in 1..N + 1 : Between(p, i, k)
  BY SomeBetween
<1>3. Child(p, k) = Kid(p, i)
  BY <1>2, ChildIs
<1>4. /\ i > 1 => p.cells[i - 1].key <= k
      /\ i <= N => k < p.cells[i].key
  BY <1>2 DEF Between
<1>5. i <= n + 1
  <2>1. CASE i > n + 1
    <3>1. i - 1 \in 1..N /\ n + 1 \in 1..N /\ (n + 1 < i - 1 \/ n + 1 = i - 1) /\ i > 1
      BY <1>1, <2>1
    <3>2. p.cells[n + 1].key <= p.cells[i - 1].key
      <4>1. n + 1 < i - 1 => p.cells[n + 1].key < p.cells[i - 1].key
        BY <1>0, <3>1
      <4>2. p.cells[n + 1].key \in Int /\ p.cells[i - 1].key \in Int
        BY <1>1, <3>1
      <4> QED
        BY <3>1, <4>1, <4>2
    <3>3. p.cells[i - 1].key <= k /\ p.cells[i - 1].key \in Int /\ p.cells[n + 1].key \in Int
      BY <1>1, <1>4, <3>1
    <3> QED
      BY <3>2, <3>3
  <2> QED
    BY <1>1, <2>1
<1>6. Between(q, i, k)
  <2>1. i \in 1..Len(q.cells) + 1
    BY <1>1, <1>5
  <2>2. i > 1 => q.cells[i - 1].key <= k
    <3> SUFFICES ASSUME i > 1 PROVE q.cells[i - 1].key <= k
      OBVIOUS
    <3>1. i - 1 \in 1..n
      BY <1>1, <1>5
    <3> QED
      BY <1>4, <3>1
  <2>3. i <= Len(q.cells) => k < q.cells[i].key
    BY <1>1, <1>4, <1>5
  <2> QED
    BY <2>1, <2>2, <2>3 DEF Between
<1>7. Child(q, k) = Kid(q, i)
  BY <1>6, ChildIs
<1>8. Kid(q, i) = Kid(p, i)
  <2>1. CASE i <= n
    BY <1>1, <2>1 DEF Kid
  <2>2. CASE i = n + 1
    BY <1>1, <2>2 DEF Kid
  <2> QED
    BY <1>1, <1>5, <2>1, <2>2
<1> QED
  BY <1>3, <1>7, <1>8

\* The search in the right part of a page.
RightPart(q, p, n) ==
    /\ n \in Nat /\ n >= 1 /\ Len(p.cells) = n + Len(q.cells)
    /\ \A i \in 1..Len(q.cells) : q.cells[i] = p.cells[n + i]
    /\ q.ptr = p.ptr

\* So does the last part.
LEMMA SuffixChild ==
    ASSUME NEW V, NEW p, p.cells \in Lists(V), NEW q, q.cells \in Lists(V), NEW n,
           RightPart(q, p, n), NEW k \in Int, p.cells[n].key <= k
    PROVE  Child(q, k) = Child(p, k)
<1>. /\ n \in Nat /\ n >= 1 /\ Len(p.cells) = n + Len(q.cells)
     /\ \A i \in 1..Len(q.cells) : q.cells[i] = p.cells[n + i]
     /\ q.ptr = p.ptr
  BY DEF RightPart
<1> DEFINE N == Len(p.cells)
           M == Len(q.cells)
<1>0. \A i, j \in 1..N : i < j <=> p.cells[i].key < p.cells[j].key
  BY ListFacts
<1>1. N \in Nat /\ M \in Nat /\ \A i \in 1..N : p.cells[i].key \in Int
  BY ListFacts
<1>2. PICK i \in 1..N + 1 : Between(p, i, k)
  BY SomeBetween
<1>3. Child(p, k) = Kid(p, i)
  BY <1>2, ChildIs
<1>4. /\ i > 1 => p.cells[i - 1].key <= k
      /\ i <= N => k < p.cells[i].key
  BY <1>2 DEF Between
<1>5. i > n
  <2>1. CASE i <= n
    <3>1. i \in 1..N /\ n \in 1..N /\ (i < n \/ i = n)
      BY <1>1, <2>1
    <3>2. p.cells[i].key <= p.cells[n].key
      <4>1. i < n => p.cells[i].key < p.cells[n].key
        BY <1>0, <3>1
      <4>2. p.cells[i].key \in Int /\ p.cells[n].key \in Int
        BY <1>1, <3>1
      <4> QED
        BY <3>1, <4>1, <4>2
    <3>3. k < p.cells[i].key
      BY <1>4, <3>1
    <3>4. p.cells[i].key \in Int /\ p.cells[n].key \in Int
      BY <1>1, <3>1
    <3> QED
      BY <3>2, <3>3, <3>4
  <2> QED
    BY <1>1, <2>1
<1>6. PICK j : j = i - n
  OBVIOUS
<1>7. j \in 1..M + 1 /\ n + j = i /\ (j > 1 => j - 1 \in 1..M /\ n + (j - 1) = i - 1 /\ i > 1) /\ (j <= M <=> i <= N)
  BY <1>1, <1>5, <1>6
<1>8. Between(q, j, k)
  <2>1. j > 1 => q.cells[j - 1].key <= k
    <3> SUFFICES ASSUME j > 1 PROVE q.cells[j - 1].key <= k
      OBVIOUS
    <3>1. q.cells[j - 1] = p.cells[n + (j - 1)] /\ p.cells[i - 1].key <= k
      BY <1>4, <1>7
    <3> QED
      BY <1>7, <3>1
  <2>2. j <= M => k < q.cells[j].key
    <3> SUFFICES ASSUME j <= M PROVE k < q.cells[j].key
      OBVIOUS
    <3>1. q.cells[j] = p.cells[n + j] /\ k < p.cells[i].key
      BY <1>1, <1>4, <1>7
    <3> QED
      BY <1>7, <3>1
  <2> QED
    BY <1>7, <2>1, <2>2 DEF Between
<1>9. Child(q, k) = Kid(q, j)
  BY <1>8, ChildIs
<1>10. Kid(q, j) = Kid(p, i)
  <2>1. CASE j <= M
    <3>1. j \in 1..M /\ i <= N /\ q.cells[j] = p.cells[n + j] /\ n + j = i
      BY <1>1, <1>7, <2>1
    <3>2. q.cells[j] = p.cells[i] /\ j <= Len(q.cells) /\ i <= Len(p.cells)
      BY <3>1
    <3> QED
      BY <3>2, Zenon DEF Kid
  <2>2. CASE ~(j <= M)
    <3>1. ~(i <= N) /\ q.ptr = p.ptr
      BY <1>7, <2>2
    <3> QED
      BY <2>2, <3>1 DEF Kid
  <2> QED
    BY <2>1, <2>2
<1> QED
  BY <1>3, <1>9, <1>10

\* The children of a page.
Kids(p) == {Kid(p, i) : i \in 1..Len(p.cells) + 1}

\* A page's children are its cells' values and its pointer.
LEMMA KidsTyped ==
    ASSUME NEW V, NEW W, NEW p \in PagesOf(V, W)
    PROVE  Kids(p) \subseteq V \cup W /\ p.ptr \in Kids(p) /\ \A i \in 1..Len(p.cells) : p.cells[i].val \in Kids(p)
<1>1. p.ptr \in W /\ Len(p.cells) \in Nat /\ \A i \in 1..Len(p.cells) : p.cells[i].val \in V
  BY PageFacts, ListFacts
<1>2. \A i \in 1..Len(p.cells) + 1 : Kid(p, i) \in V \cup W
  BY <1>1 DEF Kid
<1>3. Len(p.cells) + 1 \in 1..Len(p.cells) + 1 /\ p.ptr = Kid(p, Len(p.cells) + 1)
  BY <1>1 DEF Kid
<1>4. \A i \in 1..Len(p.cells) : i \in 1..Len(p.cells) + 1 /\ p.cells[i].val = Kid(p, i)
  BY <1>1 DEF Kid
<1> QED
  BY <1>2, <1>3, <1>4 DEF Kids

\* A search goes to a child of the page.
LEMMA ChildKid ==
    ASSUME NEW V, NEW W, NEW p \in PagesOf(V, W), NEW k \in Int
    PROVE  Child(p, k) \in Kids(p)
<1>1. p.cells \in Lists(V)
  BY PageFacts
<1>2. PICK i \in 1..Len(p.cells) + 1 : Between(p, i, k)
  BY <1>1, SomeBetween
<1>3. Child(p, k) = Kid(p, i)
  BY <1>1, <1>2, ChildIs
<1> QED
  BY <1>3 DEF Kids

\* Searches for k in p and in q go to children at the same place.
Parallel(p, q, k) == \E i \in 1..Len(p.cells) + 1 : Child(p, k) = Kid(p, i) /\ Child(q, k) = Kid(q, i)

\* Two pages with the same keys, and children that correspond.
LEMMA ParallelChild ==
    ASSUME NEW V, NEW p, p.cells \in Lists(V), NEW q, q.cells \in Lists(V), Len(q.cells) = Len(p.cells),
           \A i \in 1..Len(p.cells) : q.cells[i].key = p.cells[i].key, NEW k \in Int
    PROVE  /\ KeysOf(q) = KeysOf(p)
           /\ Parallel(p, q, k)
<1> DEFINE N == Len(p.cells)
<1>1. N \in Nat /\ DOMAIN p.cells = 1..N /\ DOMAIN q.cells = 1..N
  BY ListFacts
<1>2. KeysOf(q) = KeysOf(p)
  <2>1. \A x : x \in KeysOf(q) <=> \E i \in 1..N : q.cells[i].key = x
    BY <1>1 DEF KeysOf
  <2>2. \A x : x \in KeysOf(p) <=> \E i \in 1..N : p.cells[i].key = x
    BY <1>1 DEF KeysOf
  <2> QED
    BY <2>1, <2>2
<1>3. PICK i \in 1..N + 1 : Between(p, i, k)
  BY SomeBetween
<1>4. Between(q, i, k)
  <2>1. i > 1 => i - 1 \in 1..N
    BY <1>1
  <2>2. i <= N => i \in 1..N
    BY <1>1
  <2> QED
    BY <1>3, <2>1, <2>2 DEF Between
<1>5. Child(p, k) = Kid(p, i) /\ Child(q, k) = Kid(q, i)
  BY <1>3, <1>4, ChildIs
<1> QED
  BY <1>2, <1>3, <1>5 DEF Parallel

\* A parent with its pointers to one page made pointers to another.
LEMMA RepointIs ==
    ASSUME NEW V, NEW p \in PagesOf(V, V), NEW from, NEW to \in V
    PROVE  LET q == Repoint(p, from, to)
           IN  /\ q \in PagesOf(V, V) /\ q.kind = p.kind /\ q.root_leaf = p.root_leaf
               /\ Len(q.cells) = Len(p.cells) /\ KeysOf(q) = KeysOf(p)
               /\ q.ptr = IF p.ptr = from THEN to ELSE p.ptr
               /\ \A i \in 1..Len(p.cells) : q.cells[i].key = p.cells[i].key
               /\ \A k \in Int : Child(q, k) = IF Child(p, k) = from THEN to ELSE Child(p, k)
<1> DEFINE fix(id) == IF id = from THEN to ELSE id
           c == [i \in DOMAIN p.cells |-> [p.cells[i] EXCEPT !.val = fix(@)]]
           r == Rebuild(p, p.kind, c, fix(p.ptr))
           q == r.page
           N == Len(p.cells)
<1>1. /\ p.kind \in PageKind /\ p.root_leaf \in BOOLEAN /\ p.cells \in Lists(V) /\ p.ptr \in V
      /\ p.root_leaf => p.kind = "Root"
  BY PageFacts
<1>2. /\ N \in Nat /\ N <= ORDER /\ DOMAIN p.cells = 1..N
      /\ \A i \in 1..N : p.cells[i] \in CellsOf(V) /\ p.cells[i] = [key |-> p.cells[i].key, val |-> p.cells[i].val]
                         /\ p.cells[i].key \in Keys /\ p.cells[i].val \in V
      /\ \A i, j \in 1..N : i < j <=> p.cells[i].key < p.cells[j].key
  BY <1>1, ListFacts
<1>3. \A i \in 1..N : /\ c[i] = [key |-> p.cells[i].key, val |-> fix(p.cells[i].val)]
                       /\ c[i].key = p.cells[i].key /\ c[i].val = fix(p.cells[i].val)
  <2>1. ASSUME NEW i \in 1..N
        PROVE  /\ c[i] = [key |-> p.cells[i].key, val |-> fix(p.cells[i].val)]
               /\ c[i].key = p.cells[i].key /\ c[i].val = fix(p.cells[i].val)
    <3> DEFINE x == p.cells[i]
    <3>1. x = [key |-> x.key, val |-> x.val]
      BY <1>2
    <3>2. c[i] = [x EXCEPT !.val = fix(@)]
      BY <1>2
    <3> HIDE DEF x, fix
    <3>3. c[i] = [key |-> x.key, val |-> fix(x.val)]
      BY <3>1, <3>2
    <3> QED
      BY <3>3 DEF x
  <2> QED
    BY <2>1
<1>4. \A v \in V : fix(v) \in V
  OBVIOUS
<1>5. c \in Seq(CellsOf(V)) /\ Len(c) = N
  <2>1. \A i \in 1..N : c[i] \in CellsOf(V)
    <3>1. ASSUME NEW i \in 1..N PROVE c[i] \in CellsOf(V)
      <4>1. p.cells[i].key \in Keys /\ fix(p.cells[i].val) \in V
        BY <1>2, <1>4
      <4>2. c[i] = [key |-> p.cells[i].key, val |-> fix(p.cells[i].val)]
        BY <1>3
      <4> HIDE DEF c, fix
      <4> QED
        BY <4>1, <4>2 DEF CellsOf
    <3> QED
      BY <3>1
  <2>2. c = [i \in 1..N |-> c[i]]
    BY <1>2
  <2> HIDE DEF c
  <2> QED
    BY <1>2, <2>1, <2>2
<1> HIDE DEF c
<1>6. InOrder(c)
  <2>1. \A i \in 1..N : c[i].key = p.cells[i].key
    BY <1>3
  <2> QED
    BY <1>2, <1>5, <2>1 DEF InOrder
<1>7. Rebuilt(p, p.kind, c, fix(p.ptr), V, V, r)
  <2>1. fix(p.ptr) \in V
    BY <1>1, <1>4
  <2> HIDE DEF fix
  <2> QED
    BY <1>1, <1>5, <2>1, RebuildIs
<1> HIDE DEF r
<1>8. q \in PagesOf(V, V) /\ q.kind = p.kind /\ q.ptr = fix(p.ptr) /\ q.cells = c
      /\ q.root_leaf = (p.kind = "Root" /\ p.root_leaf /\ p.kind = "Root")
  BY <1>2, <1>5, <1>6, <1>7 DEF Rebuilt
<1>9. q.root_leaf = p.root_leaf
  BY <1>1, <1>8
<1> HIDE DEF q
<1>10. /\ q.cells \in Lists(V) /\ Len(q.cells) = N
       /\ \A i \in 1..N : q.cells[i].key = p.cells[i].key /\ q.cells[i].val = fix(p.cells[i].val)
  <2>1. q.cells \in Lists(V)
    BY <1>8, PageFacts
  <2> HIDE DEF fix
  <2> QED
    BY <1>3, <1>5, <1>8, <2>1
<1>11. ASSUME NEW k \in Int PROVE KeysOf(q) = KeysOf(p) /\ Child(q, k) = fix(Child(p, k))
  <2>1. /\ KeysOf(q) = KeysOf(p)
        /\ \E i \in 1..N + 1 : Child(p, k) = Kid(p, i) /\ Child(q, k) = Kid(q, i)
    <3>1. /\ p.cells \in Lists(V) /\ q.cells \in Lists(V) /\ Len(q.cells) = Len(p.cells)
          /\ \A i \in 1..Len(p.cells) : q.cells[i].key = p.cells[i].key
      BY <1>1, <1>10
    <3>2. KeysOf(q) = KeysOf(p) /\ Parallel(p, q, k)
      BY <3>1, ParallelChild
    <3> QED
      BY <3>2 DEF Parallel
  <2>2. \A i \in 1..N + 1 : Kid(q, i) = fix(Kid(p, i))
    <3>1. ASSUME NEW i \in 1..N + 1 PROVE Kid(q, i) = fix(Kid(p, i))
      <4>1. CASE i <= N
        <5>1. i \in 1..N /\ Kid(q, i) = q.cells[i].val /\ Kid(p, i) = p.cells[i].val
          BY <1>2, <1>10, <4>1 DEF Kid
        <5> QED
          BY <1>10, <5>1
      <4>2. CASE ~(i <= N)
        <5>1. Kid(q, i) = q.ptr /\ Kid(p, i) = p.ptr
          BY <1>10, <4>2 DEF Kid
        <5> QED
          BY <1>8, <5>1
      <4> QED
        BY <4>1, <4>2
    <3> QED
      BY <3>1
  <2> QED
    BY <2>1, <2>2
<1>12. Repoint(p, from, to) = q
  BY DEF Repoint, q, r, c
<1>13. KeysOf(q) = KeysOf(p)
  <2>1. 0 \in Int
    OBVIOUS
  <2> QED
    BY <1>11, <2>1
<1> QED
  BY <1>8, <1>9, <1>10, <1>11, <1>12, <1>13

\* The two halves of a page that is split.
Separator(p) == p.cells[DEGREE + 1]
LeftHalf(p, right) ==
    Rebuild(p, HalfKind(p), SubSeq(p.cells, 1, DEGREE), LeftPtr(p, right, Separator(p))).page
RightHalf(p) == Rebuild(NewPage(HalfKind(p)), HalfKind(p), RightCells(p, DEGREE), p.ptr).page
Skipped(p) == IF IsLeafLevel(p) THEN DEGREE ELSE DEGREE + 1

\* What the halves of a split page are.
LEMMA HalvesAre ==
    ASSUME NEW V, NEW W, NEW p \in PagesOf(V, W), Len(p.cells) = ORDER, NEW right, NEW X,
           W \subseteq X, IF IsLeafLevel(p) THEN right \in X ELSE V \subseteq X
    PROVE  /\ Separator(p) \in CellsOf(V) /\ Separator(p) = [key |-> Separator(p).key, val |-> Separator(p).val]
           /\ LET l == LeftHalf(p, right)
              IN  /\ l \in PagesOf(V, X) /\ l.kind = HalfKind(p)
                  /\ l.ptr = LeftPtr(p, right, Separator(p))
                  /\ Len(l.cells) = DEGREE /\ \A i \in 1..DEGREE : l.cells[i] = p.cells[i]
           /\ LET r == RightHalf(p)
              IN  /\ r \in PagesOf(V, X) /\ r.kind = HalfKind(p) /\ r.ptr = p.ptr
                  /\ Len(r.cells) = ORDER - Skipped(p)
                  /\ \A i \in 1..ORDER - Skipped(p) : r.cells[i] = p.cells[Skipped(p) + i]
<1> DEFINE kind == HalfKind(p)
           a == SubSeq(p.cells, 1, DEGREE)
           m == Skipped(p) + 1
           b == SubSeq(p.cells, m, ORDER)
           lp == LeftPtr(p, right, Separator(p))
<1>1. /\ p.kind \in PageKind /\ p.root_leaf \in BOOLEAN /\ p.cells \in Lists(V) /\ p.ptr \in W
  BY PageFacts
<1>2. /\ p.cells \in Seq(CellsOf(V))
      /\ \A i \in 1..ORDER : p.cells[i] \in CellsOf(V) /\ p.cells[i] = [key |-> p.cells[i].key, val |-> p.cells[i].val]
                             /\ p.cells[i].val \in V
  BY <1>1, ListFacts
<1>3. kind \in PageKind /\ kind # "Root"
  BY DEF HalfKind, PageKind
<1>4. DEGREE + 1 \in 1..ORDER /\ DEGREE \in 0..ORDER /\ 1 \in 1..ORDER + 1 /\ 1 <= DEGREE + 1
      /\ m \in 1..ORDER + 1 /\ m \in Nat /\ Skipped(p) \in Nat /\ ORDER \in 0..ORDER /\ m <= ORDER + 1
  BY Constants DEF Skipped
<1>5. /\ Separator(p) \in CellsOf(V) /\ Separator(p) = [key |-> Separator(p).key, val |-> Separator(p).val]
      /\ Separator(p).val \in V
  BY <1>2, <1>4 DEF Separator
<1>6. a \in Lists(V) /\ Len(a) = DEGREE /\ \A i \in 1..DEGREE : a[i] = p.cells[i]
  <2>1. a \in Lists(V) /\ Len(a) = DEGREE - 1 + 1 /\ \A i \in 1..DEGREE - 1 + 1 : a[i] = p.cells[1 + i - 1]
    BY <1>1, <1>4, SubList
  <2> QED
    BY <2>1, Constants
<1>7. b \in Lists(V) /\ Len(b) = ORDER - Skipped(p) /\ \A i \in 1..ORDER - Skipped(p) : b[i] = p.cells[Skipped(p) + i]
  <2>1. b \in Lists(V) /\ Len(b) = ORDER - m + 1 /\ \A i \in 1..ORDER - m + 1 : b[i] = p.cells[m + i - 1]
    <3> HIDE DEF m
    <3> QED
      BY <1>1, <1>4, SubList
  <2>2. ORDER - m + 1 = ORDER - Skipped(p) /\ \A i \in 1..ORDER - Skipped(p) : m + i - 1 = Skipped(p) + i
    BY <1>4, Constants
  <2> HIDE DEF m, b
  <2> QED
    BY <2>1, <2>2
<1>8. lp \in X
  BY <1>5 DEF LeftPtr
<1>9. Rebuilt(p, kind, a, lp, V, X, Rebuild(p, kind, a, lp))
  <2>1. a \in Seq(CellsOf(V))
    BY <1>6 DEF Lists
  <2> HIDE DEF a, kind, lp
  <2> QED
    BY <1>1, <1>3, <1>8, <2>1, RebuildIs
<1>10. Rebuilt(NewPage(kind), kind, b, p.ptr, V, X, Rebuild(NewPage(kind), kind, b, p.ptr))
  <2>1. b \in Seq(CellsOf(V))
    BY <1>7 DEF Lists
  <2>2. NewPage(kind).root_leaf \in BOOLEAN
    BY DEF NewPage
  <2>3. p.ptr \in X
    BY <1>1
  <2> HIDE DEF b, kind
  <2> QED
    BY <1>3, <2>1, <2>2, <2>3, RebuildIs
<1>11. InOrder(a) /\ Len(a) <= ORDER /\ InOrder(b) /\ Len(b) <= ORDER
  BY <1>6, <1>7 DEF Lists
<1>12. RightCells(p, DEGREE) = b
  BY Constants DEF RightCells, Skipped
<1>13. LeftHalf(p, right) = Rebuild(p, kind, a, lp).page
  BY DEF LeftHalf
<1>14. RightHalf(p) = Rebuild(NewPage(kind), kind, b, p.ptr).page
  BY <1>12 DEF RightHalf
<1> HIDE DEF a, b, kind, lp
<1>15. /\ LeftHalf(p, right) \in PagesOf(V, X) /\ LeftHalf(p, right).kind = kind /\ LeftHalf(p, right).ptr = lp
       /\ LeftHalf(p, right).cells = a
  BY <1>9, <1>11, <1>13 DEF Rebuilt
<1>16. /\ RightHalf(p) \in PagesOf(V, X) /\ RightHalf(p).kind = kind /\ RightHalf(p).ptr = p.ptr
       /\ RightHalf(p).cells = b
  BY <1>10, <1>11, <1>14 DEF Rebuilt
<1> QED
  BY <1>5, <1>6, <1>7, <1>15, <1>16 DEF kind, lp

\* Where the keys of a split page and its searches go.
Cut(p, l, r, s) ==
    /\ s \in KeysOf(p) /\ s \in Int /\ \E x \in KeysOf(p) : x < s
    /\ KeysOf(l) = {x \in KeysOf(p) : x < s}
    /\ IF IsLeafLevel(p)
       THEN /\ KeysOf(r) = {x \in KeysOf(p) : s <= x}
            /\ ToSet(l.cells) = {c \in ToSet(p.cells) : c.key < s}
            /\ ToSet(r.cells) = {c \in ToSet(p.cells) : s <= c.key}
       ELSE KeysOf(r) = {x \in KeysOf(p) : s < x}
    /\ ~IsLeafLevel(p) /\ l.ptr = Separator(p).val /\ r.ptr = p.ptr =>
          \A k \in Int : /\ k < s => Child(l, k) = Child(p, k)
                         /\ s <= k => Child(r, k) = Child(p, k)

\* Where the keys of a split page, and its searches, go.
LEMMA HalvesSplit ==
    ASSUME NEW V, NEW W, NEW p \in PagesOf(V, W), NEW l, NEW r, NEW s,
           s = Separator(p).key, Len(p.cells) = ORDER, l.cells \in Lists(V), r.cells \in Lists(V),
           Len(l.cells) = DEGREE, \A i \in 1..DEGREE : l.cells[i] = p.cells[i],
           Len(r.cells) = ORDER - Skipped(p),
           \A i \in 1..ORDER - Skipped(p) : r.cells[i] = p.cells[Skipped(p) + i]
    PROVE  Cut(p, l, r, s)
<1> DEFINE c == p.cells
           m == Skipped(p)
           D == DEGREE
<1>1. /\ c \in Lists(V) /\ DOMAIN c = 1..ORDER /\ ORDER \in Nat /\ D \in 1..ORDER - 1 /\ m \in D..D + 1 /\ m <= ORDER
      /\ DOMAIN l.cells = 1..D /\ DOMAIN r.cells = 1..ORDER - m
      /\ \A i \in 1..ORDER : c[i].key \in Int
      /\ \A i, j \in 1..ORDER : i < j <=> c[i].key < c[j].key
  <2>1. c \in Lists(V)
    BY PageFacts
  <2>2. Len(c) = ORDER /\ Len(l.cells) = D /\ Len(r.cells) = ORDER - m
    OBVIOUS
  <2>3. ORDER \in Nat /\ D \in 1..ORDER - 1 /\ m \in D..D + 1
    BY Constants DEF Skipped
  <2>4. DOMAIN c = 1..Len(c) /\ DOMAIN l.cells = 1..Len(l.cells) /\ DOMAIN r.cells = 1..Len(r.cells)
    BY <2>1, ListFacts
  <2>5. \A i \in 1..Len(c) : c[i].key \in Int
    BY <2>1, ListFacts
  <2>6. \A i, j \in 1..Len(c) : i < j <=> c[i].key < c[j].key
    BY <2>1, ListFacts
  <2>7. m <= ORDER
    BY <2>3
  <2> HIDE DEF c, D, m
  <2> QED
    BY <2>1, <2>2, <2>3, <2>4, <2>5, <2>6, <2>7
<1>2. s = c[D + 1].key /\ D + 1 \in 1..ORDER /\ s \in Int
  BY <1>1 DEF Separator
<1>3. \A i \in 1..ORDER : c[i].key < s <=> i <= D
  BY <1>1, <1>2
<1>4. ASSUME NEW i \in 1..ORDER PROVE s < c[i].key <=> i > D + 1
  <2>1. PICK e \in 1..ORDER : e = D + 1
    BY <1>2
  <2> HIDE DEF c, D
  <2>2. s = c[e].key /\ (e < i <=> c[e].key < c[i].key)
    BY <1>1, <1>2, <2>1
  <2>3. i \in Int /\ e \in Int
    OBVIOUS
  <2> QED
    BY <2>1, <2>2, <2>3
<1>5. ASSUME NEW i \in 1..ORDER PROVE s <= c[i].key <=> i > D
  <2>1. c[i].key < s <=> i <= D
    BY <1>3
  <2>2. c[i].key \in Int /\ s \in Int /\ D \in Int /\ i \in Int
    BY <1>1, <1>2
  <2> HIDE DEF c, D
  <2> QED
    BY <2>1, <2>2
<1>6. s \in KeysOf(p) /\ \E x \in KeysOf(p) : x < s
  <2>1. c[1].key < s
    <3>1. 1 \in 1..ORDER /\ 1 <= D
      BY <1>1
    <3> HIDE DEF c, D
    <3> QED
      BY <1>3, <3>1
  <2>2. D + 1 \in DOMAIN c /\ 1 \in DOMAIN c
    BY <1>1, <1>2
  <2> HIDE DEF c, D
  <2>3. c[D + 1].key \in KeysOf(p) /\ c[1].key \in KeysOf(p)
    BY <2>2 DEF KeysOf, c
  <2> QED
    BY <1>2, <2>1, <2>3
<1>7. \A y : y \in ToSet(c) <=> \E i \in 1..ORDER : y = c[i]
  BY <1>1 DEF ToSet
<1>8. ToSet(l.cells) = {y \in ToSet(c) : y.key < s}
  <2>1. \A y : y \in ToSet(l.cells) <=> \E i \in 1..D : y = c[i]
    BY <1>1 DEF ToSet
  <2>2. ASSUME NEW i \in 1..ORDER PROVE i \in 1..D <=> c[i].key < s
    <3>1. c[i].key < s <=> i <= D
      BY <1>3
    <3>2. i \in Int /\ 1 <= i /\ D \in Int
      BY <1>1
    <3> HIDE DEF c, D
    <3> QED
      BY <3>1, <3>2
  <2>3. \A i \in 1..D : i \in 1..ORDER
    BY <1>1
  <2>4. \A y : y \in ToSet(l.cells) <=> y \in ToSet(c) /\ y.key < s
    <3> HIDE DEF c, D
    <3> QED
      BY <1>7, <2>1, <2>2, <2>3
  <2> QED
    BY <2>4
<1>9. \A y : y \in ToSet(r.cells) <=> \E i \in 1..ORDER : i > m /\ y = c[i]
  <2>1. \A y : y \in ToSet(r.cells) <=> \E j \in 1..ORDER - m : y = c[m + j]
    BY <1>1 DEF ToSet
  <2>2. \A j \in 1..ORDER - m : m + j \in 1..ORDER /\ m + j > m
    BY <1>1
  <2>3. \A i \in 1..ORDER : i > m => i - m \in 1..ORDER - m /\ m + (i - m) = i
    BY <1>1
  <2> HIDE DEF c, m
  <2>4. ASSUME NEW y PROVE y \in ToSet(r.cells) <=> \E i \in 1..ORDER : i > m /\ y = c[i]
    <3>1. ASSUME y \in ToSet(r.cells) PROVE \E i \in 1..ORDER : i > m /\ y = c[i]
      <4>1. PICK j \in 1..ORDER - m : y = c[m + j]
        BY <2>1, <3>1
      <4> QED
        BY <2>2, <4>1
    <3>2. ASSUME NEW i \in 1..ORDER, i > m, y = c[i] PROVE y \in ToSet(r.cells)
      <4>1. y = c[m + (i - m)] /\ i - m \in 1..ORDER - m
        BY <2>3, <3>2
      <4> QED
        BY <2>1, <4>1
    <3> QED
      BY <3>1, <3>2
  <2> QED
    BY <2>4
<1>10. /\ IsLeafLevel(p) => ToSet(r.cells) = {y \in ToSet(c) : s <= y.key}
       /\ ~IsLeafLevel(p) => ToSet(r.cells) = {y \in ToSet(c) : s < y.key}
  <2>1. IsLeafLevel(p) => m = D
    BY DEF Skipped
  <2>2. ~IsLeafLevel(p) => m = D + 1
    BY DEF Skipped
  <2> HIDE DEF c, m
  <2>3. ASSUME IsLeafLevel(p), NEW y PROVE y \in ToSet(r.cells) <=> y \in ToSet(c) /\ s <= y.key
    BY <1>5, <1>7, <1>9, <2>1, <2>3
  <2>4. ASSUME ~IsLeafLevel(p), NEW y PROVE y \in ToSet(r.cells) <=> y \in ToSet(c) /\ s < y.key
    BY <1>4, <1>7, <1>9, <2>2, <2>4
  <2>5. ASSUME IsLeafLevel(p) PROVE ToSet(r.cells) = {y \in ToSet(c) : s <= y.key}
    BY <2>3, <2>5
  <2>6. ASSUME ~IsLeafLevel(p) PROVE ToSet(r.cells) = {y \in ToSet(c) : s < y.key}
    BY <2>4, <2>6
  <2> QED
    BY <2>5, <2>6
<1>11. \A q : KeysOf(q) = {y.key : y \in ToSet(q.cells)}
  BY DEF KeysOf, ToSet
<1>12. /\ KeysOf(l) = {x \in KeysOf(p) : x < s}
       /\ IsLeafLevel(p) => KeysOf(r) = {x \in KeysOf(p) : s <= x}
       /\ ~IsLeafLevel(p) => KeysOf(r) = {x \in KeysOf(p) : s < x}
  <2> HIDE DEF m, D
  <2>1. KeysOf(p) = {y.key : y \in ToSet(c)} /\ KeysOf(l) = {y.key : y \in ToSet(l.cells)}
        /\ KeysOf(r) = {y.key : y \in ToSet(r.cells)}
    BY <1>11
  <2> HIDE DEF c
  <2> QED
    BY <1>8, <1>10, <2>1
<1>13. ASSUME ~IsLeafLevel(p), l.ptr = Separator(p).val, r.ptr = p.ptr, NEW k \in Int
       PROVE  /\ k < s => Child(l, k) = Child(p, k)
              /\ s <= k => Child(r, k) = Child(p, k)
  <2>1. ASSUME k < s PROVE Child(l, k) = Child(p, k)
    <3>1. /\ D \in Nat /\ D = Len(l.cells) /\ D < Len(p.cells)
          /\ l.ptr = p.cells[D + 1].val /\ k < p.cells[D + 1].key
      BY <1>1, <1>2, <1>13, <2>1 DEF Separator
    <3>2. \A i \in 1..D : l.cells[i] = p.cells[i]
      OBVIOUS
    <3>3. p.cells \in Lists(V) /\ l.cells \in Lists(V) /\ k < p.cells[D + 1].key
      BY <1>1, <3>1
    <3>4. LeftPart(l, p, D)
      BY <3>1, <3>2 DEF LeftPart
    <3> HIDE DEF D, m, c
    <3> QED
      BY <3>3, <3>4, PrefixChild, SMTT(60)
  <2>2. ASSUME s <= k PROVE Child(r, k) = Child(p, k)
    <3>1. m = D + 1
      BY <1>13 DEF Skipped
    <3>2. /\ m \in Nat /\ m >= 1 /\ Len(p.cells) = m + Len(r.cells)
          /\ \A i \in 1..Len(r.cells) : r.cells[i] = p.cells[m + i]
          /\ p.cells[m].key <= k
      <4> HIDE DEF m
      <4> QED
        BY <1>1, <1>2, <2>2, <3>1 DEF m
    <3>3. p.cells \in Lists(V) /\ r.cells \in Lists(V) /\ p.cells[m].key <= k
      BY <1>1, <3>2
    <3>4. RightPart(r, p, m)
      BY <1>13, <3>2 DEF RightPart
    <3> HIDE DEF D, m, c
    <3> QED
      BY <3>3, <3>4, SuffixChild
  <2> QED
    BY <2>1, <2>2
<1> QED
  BY <1>2, <1>6, <1>8, <1>10, <1>12, <1>13 DEF Cut

-----------------------------------------------------------------------------
(* The pages of the file and the tree: every page at its level. *)

\* What a page n levels above the leaves is, given the levels lv of the pages: a leaf's
\* cells are records, an internal page's children are the pages of S one level down.
Below(lv, S, n) == {j \in S : lv[j] = n - 1}
Vals(lv, S, n) == IF n = 0 THEN AllRecords ELSE Below(lv, S, n)
Ptrs(lv, S, n, ids) == IF n = 0 THEN ids ELSE Below(lv, S, n)
PageAt(p, n, lv, S, ids) ==
    /\ p \in PagesOf(Vals(lv, S, n), Ptrs(lv, S, n, ids))
    /\ IsLeafLevel(p) <=> n = 0

\* The ids of N pages.
Ids(N) == 0..N - 1

\* The pages are where their levels say, those that are not of the tree any more included;
\* L has those of the tree and perhaps others, which refer to no page outside L.
Levels(P, N, lv) ==
    /\ N \in Nat /\ N >= 1 /\ DOMAIN P = Ids(N)
    /\ lv \in [Nat -> Nat]
    /\ \A i \in Ids(N) : PageAt(P[i], lv[i], lv, Ids(N), Ids(N))
Live(P, N, lv, L, root) ==
    /\ L \subseteq Ids(N) /\ root \in L /\ lv[root] < N
    /\ \A i \in L : /\ PageAt(P[i], lv[i], lv, L, Ids(N))
                    /\ P[i].kind = "Root" <=> i = root
                    /\ lv[i] <= lv[root] /\ (lv[i] = lv[root] => i = root)
Shape(P, N, lv, L, root) == Levels(P, N, lv) /\ Live(P, N, lv, L, root)

\* What a page written changes.
LEMMA WithIs ==
    ASSUME NEW P, NEW id, NEW page
    PROVE  /\ With(P, id, page)[id] = page
           /\ \A i \in DOMAIN P : i # id => With(P, id, page)[i] = P[i]
  BY DEF With

\* One page more.
LEMMA NextNumber ==
    ASSUME NEW N \in Nat
    PROVE  N + 1 \in Nat /\ N + 1 >= 1 /\ N \notin Ids(N) /\ Ids(N + 1) = Ids(N) \cup {N}
  BY DEF Ids

\* Ids are numbers.
LEMMA NumbersNat ==
    ASSUME NEW N \in Nat
    PROVE  Ids(N) \subseteq Nat /\ Ids(N) \subseteq Ids(N)
  BY DEF Ids

\* A page of some children is one of more.
LEMMA MorePages ==
    ASSUME NEW V, NEW W, NEW ids, NEW more, V \subseteq W, ids \subseteq more, NEW p \in PagesOf(V, ids)
    PROVE  p \in PagesOf(W, more)
<1>1. CellsOf(V) \subseteq CellsOf(W)
  BY DEF CellsOf
<1>2. Seq(CellsOf(V)) \subseteq Seq(CellsOf(W))
  BY <1>1
<1>3. Lists(V) \subseteq Lists(W)
  BY <1>2 DEF Lists
<1> QED
  BY <1>3 DEF PagesOf

\* A page stays where it was when there are more pages, if those there were keep their levels.
LEMMA PageStays ==
    ASSUME NEW S, NEW T, NEW ids, NEW more, NEW lv, NEW mv, NEW n \in Nat, NEW p, PageAt(p, n, lv, S, ids),
           S \subseteq T, ids \subseteq more, \A i \in S : mv[i] = lv[i]
    PROVE  PageAt(p, n, mv, T, more)
<1>1. Below(lv, S, n) \subseteq Below(mv, T, n)
  BY DEF Below
<1>2. Vals(lv, S, n) \subseteq Vals(mv, T, n) /\ Ptrs(lv, S, n, ids) \subseteq Ptrs(mv, T, n, more)
  BY <1>1 DEF Vals, Ptrs
<1> QED
  BY <1>2, MorePages DEF PageAt

\* A page of the tree replaced by another at its level.
LEMMA ShapeWrite ==
    ASSUME NEW P, NEW N, NEW lv, NEW L, NEW root, Shape(P, N, lv, L, root), NEW id \in L, NEW page,
           PageAt(page, lv[id], lv, L, Ids(N)), page.kind = "Root" <=> id = root
    PROVE  Shape(With(P, id, page), N, lv, L, root)
<1> DEFINE Q == With(P, id, page)
<1>1. /\ N \in Nat /\ N >= 1 /\ DOMAIN P = Ids(N) /\ lv \in [Nat -> Nat]
      /\ L \subseteq Ids(N)
  BY DEF Shape, Levels, Live
<1>2. DOMAIN Q = Ids(N) /\ Q[id] = page /\ \A i \in Ids(N) : i # id => Q[i] = P[i]
  <2>1. Q[id] = page /\ \A i \in DOMAIN P : i # id => Q[i] = P[i]
    BY WithIs
  <2>3. DOMAIN Q = DOMAIN P \cup {id}
    BY DEF With
  <2>2. id \in Ids(N)
    BY <1>1
  <2> HIDE DEF Q
  <2> QED
    BY <1>1, <2>1, <2>2, <2>3
<1>3. id \in Nat /\ lv[id] \in Nat
  BY <1>1, NumbersNat
<1>4. PageAt(page, lv[id], lv, Ids(N), Ids(N))
  <2>1. L \subseteq Ids(N) /\ Ids(N) \subseteq Ids(N) /\ \A i \in L : lv[i] = lv[i]
    BY <1>1
  <2> QED
    BY <1>3, <2>1, PageStays
<1> HIDE DEF Q
<1>5. Levels(Q, N, lv)
  BY <1>1, <1>2, <1>4 DEF Shape, Levels
<1>6. Live(Q, N, lv, L, root)
  BY <1>1, <1>2 DEF Shape, Live
<1> QED
  BY <1>5, <1>6 DEF Shape, Q

\* A new page, not yet of the tree.
LEMMA ShapeNew ==
    ASSUME NEW P, NEW N, NEW lv, NEW L, NEW root, Shape(P, N, lv, L, root), NEW n \in Nat, NEW page,
           PageAt(page, n, lv, Ids(N), Ids(N + 1))
    PROVE  Shape(With(P, N, page), N + 1, [lv EXCEPT ![N] = n], L, root)
<1> DEFINE Q == With(P, N, page)
           mv == [lv EXCEPT ![N] = n]
<1>1. /\ N \in Nat /\ N >= 1 /\ DOMAIN P = Ids(N) /\ lv \in [Nat -> Nat]
      /\ L \subseteq Ids(N) /\ root \in L
  BY DEF Shape, Levels, Live
<1>2. N + 1 \in Nat /\ N + 1 >= 1 /\ Ids(N + 1) = Ids(N) \cup {N} /\ N \notin Ids(N)
  BY <1>1, NextNumber
<1>3. DOMAIN Q = Ids(N + 1) /\ Q[N] = page /\ \A i \in Ids(N) : Q[i] = P[i]
  <2>1. Q[N] = page /\ \A i \in DOMAIN P : i # N => Q[i] = P[i]
    BY WithIs
  <2>2. DOMAIN Q = DOMAIN P \cup {N}
    BY DEF With
  <2> HIDE DEF Q
  <2> QED
    BY <1>1, <1>2, <2>1, <2>2
<1>4. mv \in [Nat -> Nat] /\ mv[N] = n /\ \A i \in Ids(N) : mv[i] = lv[i] /\ lv[i] \in Nat
  <2>1. \A i \in Ids(N) : i # N /\ i \in Nat
    BY <1>1, <1>2, NumbersNat
  <2> QED
    BY <1>1, <2>1
<1> HIDE DEF Q, mv
<1>5. ASSUME NEW i \in Ids(N + 1) PROVE PageAt(Q[i], mv[i], mv, Ids(N + 1), Ids(N + 1))
  <2>1. CASE i = N
    <3>1. Ids(N) \subseteq Ids(N + 1) /\ \A j \in Ids(N) : mv[j] = lv[j]
      BY <1>2, <1>4
    <3>2. PageAt(page, n, mv, Ids(N + 1), Ids(N + 1))
      BY <3>1, PageStays
    <3> QED
      BY <1>3, <1>4, <2>1, <3>2
  <2>2. CASE i \in Ids(N)
    <3>1. PageAt(P[i], lv[i], lv, Ids(N), Ids(N)) /\ lv[i] \in Nat
      BY <1>4, <2>2 DEF Shape, Levels
    <3>2. PageAt(P[i], lv[i], mv, Ids(N + 1), Ids(N + 1))
      <4>1. Ids(N) \subseteq Ids(N + 1) /\ \A j \in Ids(N) : mv[j] = lv[j]
        BY <1>2, <1>4
      <4> QED
        BY <3>1, <4>1, PageStays, Zenon
    <3> QED
      BY <1>3, <1>4, <2>2, <3>2
  <2> QED
    BY <1>2, <2>1, <2>2
<1>6. Levels(Q, N + 1, mv)
  <2>1. DOMAIN Q = Ids(N + 1) /\ \A i \in Ids(N + 1) : PageAt(Q[i], mv[i], mv, Ids(N + 1), Ids(N + 1))
    BY <1>2, <1>3, <1>5
  <2> QED
    BY <1>2, <1>4, <2>1, Zenon DEF Levels
<1>7. ASSUME NEW i \in L
      PROVE  /\ PageAt(Q[i], mv[i], mv, L, Ids(N + 1))
             /\ Q[i].kind = "Root" <=> i = root
             /\ mv[i] <= mv[root] /\ (mv[i] = mv[root] => i = root)
  <2>1. /\ PageAt(P[i], lv[i], lv, L, Ids(N))
        /\ P[i].kind = "Root" <=> i = root
        /\ lv[i] <= lv[root] /\ (lv[i] = lv[root] => i = root)
    BY DEF Shape, Live
  <2>2. i \in Ids(N) /\ root \in Ids(N) /\ \A j \in L : mv[j] = lv[j]
    BY <1>1, <1>4
  <2>3. PageAt(P[i], lv[i], mv, L, Ids(N + 1))
    BY <1>2, <1>4, <2>1, <2>2, PageStays
  <2> QED
    BY <1>3, <1>4, <2>1, <2>2, <2>3
<1>8. Live(Q, N + 1, mv, L, root)
  <2>1. lv[root] < N /\ lv[root] \in Nat /\ mv[root] = lv[root] /\ L \subseteq Ids(N + 1)
    BY <1>1, <1>2, <1>4 DEF Shape, Live
  <2>2. mv[root] < N + 1
    BY <1>1, <2>1
  <2> QED
    BY <1>1, <1>2, <1>7, <2>1, <2>2 DEF Live
<1> QED
  BY <1>6, <1>8 DEF Shape, Q, mv

\* A page becomes one of the tree.
LEMMA ShapeAdopt ==
    ASSUME NEW P, NEW N, NEW lv, NEW L, NEW root, Shape(P, N, lv, L, root), NEW id \in Ids(N),
           PageAt(P[id], lv[id], lv, L, Ids(N)), P[id].kind # "Root", lv[id] < lv[root]
    PROVE  Shape(P, N, lv, L \cup {id}, root)
<1>1. /\ N \in Nat /\ lv \in [Nat -> Nat] /\ L \subseteq Ids(N) /\ root \in L /\ lv[root] < N
      /\ \A i \in Ids(N) : lv[i] \in Nat
  <2>1. N \in Nat /\ lv \in [Nat -> Nat] /\ L \subseteq Ids(N) /\ root \in L /\ lv[root] < N
    BY DEF Shape, Levels, Live
  <2>2. \A i \in Ids(N) : i \in Nat
    BY <2>1, NumbersNat
  <2> QED
    BY <2>1, <2>2
<1>2. ASSUME NEW i \in L \cup {id}
      PROVE  /\ PageAt(P[i], lv[i], lv, L \cup {id}, Ids(N))
             /\ P[i].kind = "Root" <=> i = root
             /\ lv[i] <= lv[root] /\ (lv[i] = lv[root] => i = root)
  <2>1. PageAt(P[i], lv[i], lv, L, Ids(N))
    BY DEF Shape, Live
  <2>2. PageAt(P[i], lv[i], lv, L \cup {id}, Ids(N))
    <3>1. lv[i] \in Nat /\ L \subseteq L \cup {id}
      BY <1>1
    <3> QED
      BY <2>1, <3>1, PageStays
  <2>3. /\ P[root].kind = "Root"
        /\ i \in L => /\ P[i].kind = "Root" <=> i = root
                      /\ lv[i] <= lv[root] /\ (lv[i] = lv[root] => i = root)
    BY <1>1 DEF Shape, Live
  <2>4. lv[id] \in Nat /\ lv[root] \in Nat
    BY <1>1
  <2> QED
    BY <2>2, <2>3, <2>4
<1>3. Live(P, N, lv, L \cup {id}, root)
  BY <1>1, <1>2 DEF Live
<1> QED
  BY <1>3 DEF Shape

\* What the shape of the pages says of each of them.
LEMMA ShapeFacts ==
    ASSUME NEW P, NEW N, NEW lv, NEW L, NEW root, Shape(P, N, lv, L, root)
    PROVE  /\ N \in Nat /\ N >= 1 /\ DOMAIN P = Ids(N) /\ L \subseteq Ids(N) /\ root \in L /\ root \in Ids(N)
           /\ \A i \in Ids(N) : i \in Nat /\ lv[i] \in Nat /\ PageAt(P[i], lv[i], lv, Ids(N), Ids(N))
           /\ lv[root] < N
           /\ \A i \in L : /\ PageAt(P[i], lv[i], lv, L, Ids(N)) /\ i \in Nat /\ lv[i] \in Nat
                           /\ P[i].kind = "Root" <=> i = root
                           /\ lv[i] <= lv[root] /\ (lv[i] = lv[root] => i = root)
<1>1. /\ N \in Nat /\ N >= 1 /\ DOMAIN P = Ids(N) /\ L \subseteq Ids(N) /\ root \in L
      /\ lv \in [Nat -> Nat] /\ lv[root] < N
      /\ \A i \in Ids(N) : PageAt(P[i], lv[i], lv, Ids(N), Ids(N))
      /\ \A i \in L : /\ PageAt(P[i], lv[i], lv, L, Ids(N))
                      /\ P[i].kind = "Root" <=> i = root
                      /\ lv[i] <= lv[root] /\ (lv[i] = lv[root] => i = root)
  BY DEF Shape, Levels, Live
<1>2. \A i \in Ids(N) : i \in Nat /\ lv[i] \in Nat
  BY <1>1, NumbersNat
<1> QED
  BY <1>1, <1>2

\* A page over the root becomes the root, with the old root and a page beside it below it.
LEMMA ShapeTop ==
    ASSUME NEW P, NEW N, NEW lv, NEW L, NEW root, Shape(P, N, lv, L, root),
           NEW x \in Ids(N), x \notin L, lv[x] = lv[root], NEW y \in Ids(N), y \notin L, lv[y] = lv[root] + 1,
           lv[y] < N, P[x].kind # "Root", P[y].kind = "Root",
           PageAt(P[x], lv[x], lv, L \cup {x}, Ids(N)), PageAt(P[y], lv[y], lv, L \cup {x}, Ids(N)),
           NEW page, page.kind # "Root", PageAt(page, lv[root], lv, L \cup {x}, Ids(N))
    PROVE  Shape(With(P, root, page), N, lv, L \cup {x, y}, y)
<1> DEFINE Q == With(P, root, page)
           M == L \cup {x, y}
<1>1. /\ N \in Nat /\ N >= 1 /\ DOMAIN P = Ids(N) /\ L \subseteq Ids(N) /\ root \in L /\ root \in Ids(N)
      /\ \A i \in Ids(N) : i \in Nat /\ lv[i] \in Nat /\ PageAt(P[i], lv[i], lv, Ids(N), Ids(N))
      /\ \A i \in L : /\ PageAt(P[i], lv[i], lv, L, Ids(N))
                      /\ P[i].kind = "Root" <=> i = root
                      /\ lv[i] <= lv[root] /\ (lv[i] = lv[root] => i = root)
  BY ShapeFacts
<1>2. DOMAIN Q = Ids(N) /\ Q[root] = page /\ \A i \in Ids(N) : i # root => Q[i] = P[i]
  <2>1. Q[root] = page /\ \A i \in DOMAIN P : i # root => Q[i] = P[i]
    BY WithIs
  <2>2. DOMAIN Q = DOMAIN P \cup {root}
    BY DEF With
  <2> HIDE DEF Q
  <2> QED
    BY <1>1, <2>1, <2>2
<1> HIDE DEF Q
<1>3. L \cup {x} \subseteq Ids(N) /\ L \cup {x} \subseteq M /\ M \subseteq Ids(N) /\ L \subseteq M /\ x # root /\ y # root
      /\ y \in M /\ Ids(N) \subseteq Ids(N) /\ (\A i \in L \cup {x} : lv[i] = lv[i]) /\ (\A i \in L : lv[i] = lv[i])
  BY <1>1
<1>4. ASSUME NEW i \in M
      PROVE  /\ PageAt(Q[i], lv[i], lv, M, Ids(N))
             /\ Q[i].kind = "Root" <=> i = y
             /\ lv[i] <= lv[y] /\ (lv[i] = lv[y] => i = y)
  <2>1. lv[root] \in Nat /\ lv[x] \in Nat /\ lv[y] \in Nat /\ lv[i] \in Nat /\ i \in Ids(N)
    BY <1>1, <1>3
  <2>2. CASE i = root
    <3>1. PageAt(page, lv[root], lv, M, Ids(N))
      BY <1>3, <2>1, PageStays
    <3> QED
      BY <1>2, <1>3, <2>1, <2>2, <3>1
  <2>3. CASE i = x
    <3>1. PageAt(P[x], lv[x], lv, M, Ids(N))
      BY <1>3, <2>1, PageStays
    <3> QED
      BY <1>2, <1>3, <2>1, <2>3, <3>1
  <2>4. CASE i = y
    <3>1. PageAt(P[y], lv[y], lv, M, Ids(N))
      BY <1>3, <2>1, PageStays
    <3> QED
      BY <1>2, <1>3, <2>1, <2>4, <3>1
  <2>5. CASE i \in L /\ i # root
    <3>1. PageAt(P[i], lv[i], lv, L, Ids(N)) /\ P[i].kind # "Root" /\ lv[i] <= lv[root] /\ i # y
      BY <1>1, <2>5
    <3>2. PageAt(P[i], lv[i], lv, M, Ids(N))
      BY <1>3, <2>1, <3>1, PageStays
    <3> QED
      BY <1>2, <1>3, <2>1, <2>5, <3>1, <3>2
  <2> QED
    BY <2>2, <2>3, <2>4, <2>5
<1>5. Live(Q, N, lv, M, y)
  <2> HIDE DEF M
  <2> QED
    BY <1>3, <1>4 DEF Live
<1>6. Levels(Q, N, lv)
  <2>1. PageAt(page, lv[root], lv, Ids(N), Ids(N))
    BY <1>1, <1>3, PageStays
  <2>2. lv \in [Nat -> Nat]
    BY DEF Shape, Levels
  <2> QED
    BY <1>1, <1>2, <2>1, <2>2 DEF Levels
<1> QED
  BY <1>5, <1>6 DEF Shape, Q

\* The page one level down becomes the root.
LEMMA ShapeHeir ==
    ASSUME NEW P, NEW N, NEW lv, NEW L, NEW root, Shape(P, N, lv, L, root),
           NEW heir \in L, lv[heir] + 1 = lv[root],
           NEW page, page.kind = "Root", PageAt(page, lv[heir], lv, L, Ids(N))
    PROVE  Shape(With(P, heir, page), N, lv, {i \in L : lv[i] < lv[heir]} \cup {heir}, heir)
<1> DEFINE Q == With(P, heir, page)
           M == {i \in L : lv[i] < lv[heir]} \cup {heir}
<1>1. /\ N \in Nat /\ N >= 1 /\ DOMAIN P = Ids(N) /\ L \subseteq Ids(N) /\ root \in L /\ root \in Ids(N)
      /\ \A i \in Ids(N) : i \in Nat /\ lv[i] \in Nat /\ PageAt(P[i], lv[i], lv, Ids(N), Ids(N))
      /\ lv[root] < N
      /\ \A i \in L : /\ PageAt(P[i], lv[i], lv, L, Ids(N))
                      /\ P[i].kind = "Root" <=> i = root
                      /\ lv[i] <= lv[root] /\ (lv[i] = lv[root] => i = root)
  BY ShapeFacts
<1>2. DOMAIN Q = Ids(N) /\ Q[heir] = page /\ \A i \in Ids(N) : i # heir => Q[i] = P[i]
  <2>1. Q[heir] = page /\ \A i \in DOMAIN P : i # heir => Q[i] = P[i]
    BY WithIs
  <2>2. DOMAIN Q = DOMAIN P \cup {heir}
    BY DEF With
  <2> HIDE DEF Q
  <2> QED
    BY <1>1, <2>1, <2>2
<1> HIDE DEF Q
\* What lies below a page of M in L lies in M.
<1>3. ASSUME NEW n \in Nat, NEW p, PageAt(p, n, lv, L, Ids(N)), n <= lv[heir]
      PROVE  PageAt(p, n, lv, M, Ids(N))
  <2>1. Below(lv, L, n) \subseteq Below(lv, M, n)
    <3>1. ASSUME NEW j \in L, lv[j] = n - 1 PROVE lv[j] < lv[heir]
      BY <1>1, <1>3, <3>1
    <3> QED
      BY <3>1 DEF Below
  <2>2. Vals(lv, L, n) \subseteq Vals(lv, M, n) /\ Ptrs(lv, L, n, Ids(N)) \subseteq Ptrs(lv, M, n, Ids(N))
    <3> HIDE DEF M
    <3> QED
      BY <2>1 DEF Vals, Ptrs
  <2> HIDE DEF M
  <2>3. p \in PagesOf(Vals(lv, L, n), Ptrs(lv, L, n, Ids(N)))
    BY <1>3 DEF PageAt
  <2>4. p \in PagesOf(Vals(lv, M, n), Ptrs(lv, M, n, Ids(N)))
    BY <2>2, <2>3, MorePages
  <2> QED
    BY <1>3, <2>4 DEF PageAt
<1>4. M \subseteq L /\ heir \in M /\ heir # root /\ M \subseteq Ids(N)
  BY <1>1
<1>5. ASSUME NEW i \in M
      PROVE  /\ PageAt(Q[i], lv[i], lv, M, Ids(N))
             /\ Q[i].kind = "Root" <=> i = heir
             /\ lv[i] <= lv[heir] /\ (lv[i] = lv[heir] => i = heir)
  <2>1. i \in L /\ lv[i] \in Nat /\ lv[heir] \in Nat /\ lv[root] \in Nat /\ i \in Ids(N)
    BY <1>1, <1>4
  <2>2. CASE i = heir
    <3>1. PageAt(page, lv[heir], lv, M, Ids(N))
      <4> HIDE DEF M
      <4> QED
        BY <1>3, <2>1
    <3> QED
      BY <1>2, <2>1, <2>2, <3>1
  <2>3. CASE i # heir
    <3>1. lv[i] < lv[heir]
      BY <2>3
    <3> HIDE DEF M
    <3>2. PageAt(P[i], lv[i], lv, L, Ids(N)) /\ (P[i].kind = "Root" <=> i = root)
      BY <1>1, <2>1
    <3>3. PageAt(P[i], lv[i], lv, M, Ids(N))
      BY <1>3, <2>1, <3>1, <3>2
    <3>4. i # root
      BY <2>1, <3>1
    <3> QED
      BY <1>2, <2>1, <2>3, <3>1, <3>2, <3>3, <3>4
  <2> QED
    BY <2>2, <2>3
<1>6. Live(Q, N, lv, M, heir)
  <2>1. lv[heir] < N
    <3>1. lv[heir] \in Nat /\ lv[root] \in Nat /\ lv[root] < N
      BY <1>1
    <3> QED
      BY <1>1, <3>1
  <2> HIDE DEF M
  <2> QED
    BY <1>4, <1>5, <2>1 DEF Live
<1>7. Levels(Q, N, lv)
  <2>1. PageAt(page, lv[heir], lv, Ids(N), Ids(N))
    <3>1. lv[heir] \in Nat /\ Ids(N) \subseteq Ids(N) /\ \A i \in L : lv[i] = lv[i]
      BY <1>1
    <3> QED
      BY <1>1, <3>1, PageStays
  <2>2. lv \in [Nat -> Nat]
    BY DEF Shape, Levels
  <2> QED
    BY <1>1, <1>2, <2>1, <2>2 DEF Levels
<1> QED
  BY <1>6, <1>7 DEF Shape, Q

-----------------------------------------------------------------------------
(* Trails: from the root down to a page. *)

\* What a page's level says of it.
LEMMA PageAtFacts ==
    ASSUME NEW lv, NEW S, NEW ids, NEW n \in Nat, NEW p, PageAt(p, n, lv, S, ids)
    PROVE  /\ p \in PagesOf(Vals(lv, S, n), Ptrs(lv, S, n, ids))
           /\ IsLeafLevel(p) <=> n = 0
           /\ p.kind # "Root" => (p.kind = "Leaf" <=> n = 0)
           /\ n = 0 => Vals(lv, S, n) = AllRecords /\ Ptrs(lv, S, n, ids) = ids
           /\ n # 0 => /\ Vals(lv, S, n) = Below(lv, S, n) /\ Ptrs(lv, S, n, ids) = Below(lv, S, n)
                       /\ Kids(p) \subseteq Below(lv, S, n) /\ p.ptr \in Kids(p)
<1>1. p \in PagesOf(Vals(lv, S, n), Ptrs(lv, S, n, ids)) /\ (IsLeafLevel(p) <=> n = 0)
  BY DEF PageAt
<1>2. p.kind # "Root" => (p.kind = "Leaf" <=> n = 0)
  BY <1>1 DEF IsLeafLevel
<1>3. /\ n = 0 => Vals(lv, S, n) = AllRecords /\ Ptrs(lv, S, n, ids) = ids
      /\ n # 0 => Vals(lv, S, n) = Below(lv, S, n) /\ Ptrs(lv, S, n, ids) = Below(lv, S, n)
  BY DEF Vals, Ptrs
<1>4. ASSUME n # 0 PROVE Kids(p) \subseteq Below(lv, S, n) /\ p.ptr \in Kids(p)
  <2>1. p \in PagesOf(Below(lv, S, n), Below(lv, S, n))
    BY <1>1, <1>3, <1>4
  <2> QED
    BY <2>1, KidsTyped
<1> QED
  BY <1>1, <1>2, <1>3, <1>4

\* A page that is like one at a level is at that level.
LEMMA SameLevel ==
    ASSUME NEW lv, NEW S, NEW ids, NEW n \in Nat, NEW p, PageAt(p, n, lv, S, ids),
           NEW q \in PagesOf(Vals(lv, S, n), Ptrs(lv, S, n, ids)), q.kind = p.kind, q.root_leaf = p.root_leaf
    PROVE  PageAt(q, n, lv, S, ids)
  BY DEF PageAt, IsLeafLevel

\* The pages from the root down to one of the tree.
Trail(P, lv, L, root, t) ==
    /\ t \in Seq(L) /\ Len(t) >= 1 /\ t[1] = root
    /\ \A j \in 1..Len(t) : lv[t[j]] = lv[root] + 1 - j
    /\ \A j \in 2..Len(t) : t[j] \in Kids(P[t[j - 1]])

\* What a trail's pages and its front are.
LEMMA TrailFacts ==
    ASSUME NEW P, NEW lv, NEW L, NEW root, NEW t, Trail(P, lv, L, root, t), NEW N, Shape(P, N, lv, L, root)
    PROVE  /\ Len(t) \in Nat /\ Len(t) >= 1 /\ Last(t) \in L /\ lv[Last(t)] = lv[root] + 1 - Len(t)
           /\ ToSet(t) \subseteq L /\ DOMAIN t = 1..Len(t) /\ \A j \in 1..Len(t) : t[j] \in L
           /\ Len(Front(t)) = Len(t) - 1 /\ DOMAIN Front(t) = 1..Len(t) - 1
           /\ \A j \in 1..Len(t) - 1 : Front(t)[j] = t[j]
           /\ Last(t) = root <=> Len(t) = 1
           /\ Front(t) = <<>> <=> Len(t) = 1
<1>1. /\ t \in Seq(L) /\ Len(t) >= 1 /\ t[1] = root
      /\ \A j \in 1..Len(t) : lv[t[j]] = lv[root] + 1 - j
  BY DEF Trail
<1>2. Len(t) \in Nat /\ DOMAIN t = 1..Len(t) /\ \A j \in 1..Len(t) : t[j] \in L
  BY <1>1
<1>3. Len(t) \in 1..Len(t) /\ Last(t) = t[Len(t)]
  BY <1>1, <1>2 DEF Last
<1>4. Last(t) \in L /\ lv[Last(t)] = lv[root] + 1 - Len(t)
  BY <1>1, <1>2, <1>3
<1>5. ToSet(t) \subseteq L
  BY <1>2 DEF ToSet
<1>6. /\ Front(t) \in Seq(L) /\ Len(Front(t)) = Len(t) - 1
      /\ \A j \in 1..Len(t) - 1 : Front(t)[j] = t[j]
  <2>1. Front(t) = SubSeq(t, 1, Len(t) - 1)
    BY DEF Front
  <2>2. PICK m \in Nat : m = Len(t) - 1
    <3>1. Len(t) - 1 \in Nat
      BY <1>1, <1>2
    <3> QED
      BY <3>1
  <2>3. \A j \in 1..m : j \in 1..Len(t)
    BY <1>2, <2>2
  <2>4. \A j \in 1..m : t[j] \in L
    BY <1>2, <2>3
  <2>5. SubSeq(t, 1, m) = [j \in 1..m |-> t[j]]
    BY <1>1, <1>2, <2>2
  <2> QED
    BY <2>1, <2>2, <2>4, <2>5
<1>7. DOMAIN Front(t) = 1..Len(t) - 1
  BY <1>6
<1>8. Last(t) = root <=> Len(t) = 1
  <2>1. lv[root] \in Nat
    BY ShapeFacts
  <2>2. ASSUME Last(t) = root PROVE Len(t) = 1
    BY <1>2, <1>4, <2>1, <2>2
  <2>3. ASSUME Len(t) = 1 PROVE Last(t) = root
    BY <1>1, <1>3, <2>3
  <2> QED
    BY <2>2, <2>3
<1>9. Front(t) = <<>> <=> Len(t) = 1
  BY <1>2, <1>6
<1> QED
  BY <1>1, <1>2, <1>4, <1>5, <1>6, <1>7, <1>8, <1>9

\* A trail without its last page is a trail.
LEMMA TrailFront ==
    ASSUME NEW P, NEW lv, NEW L, NEW root, NEW t, Trail(P, lv, L, root, t), NEW N, Shape(P, N, lv, L, root),
           Front(t) # <<>>
    PROVE  /\ Trail(P, lv, L, root, Front(t))
           /\ Last(t) \in Kids(P[Last(Front(t))])
           /\ lv[Last(Front(t))] = lv[Last(t)] + 1
<1>1. /\ Len(t) \in Nat /\ Len(t) >= 2
      /\ Len(Front(t)) = Len(t) - 1 /\ DOMAIN Front(t) = 1..Len(t) - 1
      /\ \A j \in 1..Len(t) - 1 : Front(t)[j] = t[j]
      /\ \A j \in 1..Len(t) : t[j] \in L
  BY TrailFacts
<1>2. /\ t \in Seq(L) /\ t[1] = root
      /\ \A j \in 1..Len(t) : lv[t[j]] = lv[root] + 1 - j
      /\ \A j \in 2..Len(t) : t[j] \in Kids(P[t[j - 1]])
  BY DEF Trail
<1>3. PICK m \in Nat : m = Len(t) - 1 /\ m >= 1 /\ m \in 1..m /\ m \in 1..Len(t) /\ Len(t) \in 1..Len(t) /\ Len(t) \in 2..Len(t)
  BY <1>1
<1>4. Last(t) = t[Len(t)] /\ Last(Front(t)) = t[m]
  BY <1>1, <1>3 DEF Last
<1>5. Front(t) \in Seq(L)
  <2>1. \A j \in 1..m : t[j] \in L
    BY <1>1, <1>3
  <2>2. Front(t) = SubSeq(t, 1, m)
    BY <1>3 DEF Front
  <2>3. SubSeq(t, 1, m) = [j \in 1..m |-> t[j]]
    BY <1>1, <1>2, <1>3
  <2> QED
    BY <2>1, <2>2, <2>3
<1>6. \A j \in 1..m : j \in 1..Len(t)
  BY <1>1, <1>3
<1>7. ASSUME NEW j \in 2..m PROVE Front(t)[j] \in Kids(P[Front(t)[j - 1]])
  <2>1. j \in 2..Len(t) /\ j \in 1..Len(t) - 1 /\ j - 1 \in 1..Len(t) - 1
    BY <1>1, <1>3
  <2> QED
    BY <1>1, <1>2, <2>1
<1>8. ASSUME NEW j \in 1..m PROVE lv[Front(t)[j]] = lv[root] + 1 - j
  BY <1>1, <1>2, <1>3, <1>6
<1>9. Trail(P, lv, L, root, Front(t))
  <2>1. Front(t)[1] = root
    BY <1>1, <1>2, <1>3
  <2> QED
    BY <1>1, <1>3, <1>5, <1>7, <1>8, <2>1 DEF Trail
<1>10. Last(t) \in Kids(P[Last(Front(t))])
  BY <1>2, <1>3, <1>4
<1>11. lv[Last(Front(t))] = lv[Last(t)] + 1
  <2>1. lv[t[Len(t)]] = lv[root] + 1 - Len(t) /\ lv[t[m]] = lv[root] + 1 - m
    BY <1>2, <1>3
  <2>2. root \in L /\ \A i \in L : lv[i] \in Nat
    BY ShapeFacts
  <2>3. lv[root] \in Nat
    BY <2>2
  <2> QED
    BY <1>1, <1>3, <1>4, <2>1, <2>3
<1> QED
  BY <1>9, <1>10, <1>11

\* A trail stays one while the pages above its last one do.
LEMMA TrailKept ==
    ASSUME NEW P, NEW lv, NEW L, NEW root, NEW t, Trail(P, lv, L, root, t), NEW N, Shape(P, N, lv, L, root),
           NEW Q, NEW mv, NEW M, L \subseteq M, \A i \in L : mv[i] = lv[i],
           \A i \in L : lv[i] > lv[Last(t)] => Q[i] = P[i]
    PROVE  Trail(Q, mv, M, root, t)
<1>1. /\ t \in Seq(L) /\ Len(t) >= 1 /\ t[1] = root
      /\ \A j \in 1..Len(t) : lv[t[j]] = lv[root] + 1 - j
      /\ \A j \in 2..Len(t) : t[j] \in Kids(P[t[j - 1]])
  BY DEF Trail
<1>2. /\ Len(t) \in Nat /\ \A j \in 1..Len(t) : t[j] \in L
      /\ lv[Last(t)] = lv[root] + 1 - Len(t) /\ lv[root] \in Nat /\ root \in L
  BY TrailFacts, ShapeFacts
<1>3. t \in Seq(M)
  BY <1>1
<1>4. ASSUME NEW j \in 1..Len(t) PROVE mv[t[j]] = mv[root] + 1 - j
  BY <1>1, <1>2
<1>5. ASSUME NEW j \in 2..Len(t) PROVE t[j] \in Kids(Q[t[j - 1]])
  <2>1. PICK e \in 1..Len(t) : e = j - 1 /\ e < Len(t)
    BY <1>2
  <2>2. t[e] \in L /\ lv[t[e]] = lv[root] + 1 - e
    BY <1>1, <1>2
  <2>3. lv[t[e]] > lv[Last(t)]
    BY <1>2, <2>1, <2>2
  <2>4. Q[t[e]] = P[t[e]]
    BY <2>2, <2>3
  <2> QED
    BY <1>1, <2>1, <2>4
<1> QED
  BY <1>1, <1>3, <1>4, <1>5 DEF Trail

-----------------------------------------------------------------------------
(* The descent of a search. *)

\* Breadcrumbs, for pages P with the root `root', of which there are N.
DescentOf(P, root, N, key) ==
    LET down[at \in (DOMAIN P) \X (0..N)] ==
            LET id == at[1]
                n == at[2]
            IN  IF IsLeafLevel(P[id]) \/ n = 0 THEN <<id>>
                ELSE <<id>> \o down[<<Child(P[id], key), n - 1>>]
    IN  down[<<root, N>>]

\* breadcrumbs, before and after a step.
LEMMA BreadcrumbsIs ==
    ASSUME NEW key
    PROVE  /\ Breadcrumbs(key) = DescentOf(pages, root_id, NextId, key)
           /\ Breadcrumbs(key)' = DescentOf(pages', root_id', NextId', key)
<1>1. Breadcrumbs(key) = DescentOf(pages, root_id, NextId, key)
  BY DEF Breadcrumbs, DescentOf
<1>2. Breadcrumbs(key)' = DescentOf(pages', root_id', NextId', key)
  BY DEF Breadcrumbs, DescentOf
<1> QED
  BY <1>1, <1>2

\* One more page of a descent, before those that follow.
Onward(P, key, g, id) == IF IsLeafLevel(P[id]) THEN <<id>> ELSE <<id>> \o g[Child(P[id], key)]

\* H[n][id] is the way from id, at most n pages further.
DescentRun(P, N, root, key, H) ==
    /\ H \in [0..N -> [Ids(N) -> Seq(Ids(N))]]
    /\ \A id \in Ids(N) : H[0][id] = <<id>>
    /\ \A n \in 1..N, id \in Ids(N) : H[n][id] = Onward(P, key, H[n - 1], id)
    /\ DescentOf(P, root, N, key) = H[N][root]

\* The recursion of breadcrumbs, unrolled.
LEMMA DescentRuns ==
    ASSUME NEW P, NEW N, NEW lv, NEW L, NEW root, Shape(P, N, lv, L, root), NEW key \in Int
    PROVE  \E H : DescentRun(P, N, root, key, H)
<1> DEFINE I == Ids(N)
           S == [I -> Seq(I)]
           base == [id \in I |-> <<id>>]
           G == [x \in (1..N) \X S |-> [id \in I |-> Onward(P, key, x[2], id)]]
<1>1. N \in Nat /\ DOMAIN P = I /\ root \in I
  BY ShapeFacts
<1>2. ASSUME NEW id \in I, ~IsLeafLevel(P[id]) PROVE Child(P[id], key) \in I
  <2>1. PageAt(P[id], lv[id], lv, I, I) /\ lv[id] \in Nat
    BY ShapeFacts
  <2>2. lv[id] # 0
    BY <1>2, <2>1 DEF PageAt
  <2>3. P[id] \in PagesOf(Vals(lv, I, lv[id]), Ptrs(lv, I, lv[id], I)) /\ Kids(P[id]) \subseteq Below(lv, I, lv[id])
    BY <2>1, <2>2, PageAtFacts
  <2>4. Child(P[id], key) \in Kids(P[id])
    BY <2>3, ChildKid
  <2> QED
    BY <2>3, <2>4 DEF Below
<1>3. base \in S
  OBVIOUS
<1>4. G \in [(1..N) \X S -> S]
  <2>1. ASSUME NEW g \in S, NEW id \in I PROVE Onward(P, key, g, id) \in Seq(I)
    <3>1. CASE IsLeafLevel(P[id])
      BY <3>1 DEF Onward
    <3>2. CASE ~IsLeafLevel(P[id])
      <4>1. g[Child(P[id], key)] \in Seq(I)
        BY <1>2, <3>2
      <4> HIDE DEF I
      <4>2. <<id>> \o g[Child(P[id], key)] \in Seq(I)
        BY <4>1
      <4> QED
        BY <3>2, <4>2 DEF Onward
    <3> QED
      BY <3>1, <3>2
  <2>2. ASSUME NEW x \in (1..N) \X S PROVE [id \in I |-> Onward(P, key, x[2], id)] \in S
    <3>1. x[2] \in S
      OBVIOUS
    <3> HIDE DEF I
    <3>2. \A id \in I : Onward(P, key, x[2], id) \in Seq(I)
      BY <2>1, <3>1
    <3> QED
      BY <3>2
  <2> HIDE DEF S
  <2> QED
    BY <2>2
<1> HIDE DEF S, base, I
<1>5. PICK H : IsRun(H, N, S, base, G)
  <2> HIDE DEF G
  <2> QED
    BY <1>1, <1>3, <1>4, LoopRuns
<1>6. H \in [0..N -> S] /\ H[0] = base
  BY <1>5 DEF IsRun
<1>7. ASSUME NEW n \in 1..N, NEW id \in I PROVE H[n][id] = Onward(P, key, H[n - 1], id)
  <2>1. n - 1 \in 0..N
    BY <1>1
  <2>2. H[n - 1] \in S
    BY <1>6, <2>1
  <2>3. <<n, H[n - 1]>> \in (1..N) \X S
    BY <2>2
  <2>4. H[n] = G[<<n, H[n - 1]>>]
    <3> HIDE DEF G
    <3> QED
      BY <1>5 DEF IsRun
  <2>5. G[<<n, H[n - 1]>>] = [i \in I |-> Onward(P, key, H[n - 1], i)]
    BY <2>3
  <2> QED
    BY <2>4, <2>5
<1>8. \A id \in I : H[0][id] = <<id>>
  BY <1>6 DEF base
<1> DEFINE Z == I \X (0..N)
           E(g) == [at \in Z |-> LET id == at[1]
                                     n == at[2]
                                 IN  IF IsLeafLevel(P[id]) \/ n = 0 THEN <<id>>
                                     ELSE <<id>> \o g[<<Child(P[id], key), n - 1>>]]
           f == [at \in Z |-> H[at[2]][at[1]]]
<1>9. f = E(f)
  <2>1. ASSUME NEW at \in Z PROVE f[at] = E(f)[at]
    <3>1. at[1] \in I /\ at[2] \in 0..N
      OBVIOUS
    <3>2. f[at] = H[at[2]][at[1]]
      OBVIOUS
    <3>3. CASE at[2] = 0
      BY <1>8, <3>1, <3>2, <3>3
    <3>4. CASE at[2] # 0
      <4>1. at[2] \in 1..N /\ at[2] - 1 \in 0..N
        BY <1>1, <3>1, <3>4
      <4>2. f[at] = Onward(P, key, H[at[2] - 1], at[1])
        BY <1>7, <3>1, <3>2, <4>1
      <4>3. CASE IsLeafLevel(P[at[1]])
        BY <4>2, <4>3 DEF Onward
      <4>4. CASE ~IsLeafLevel(P[at[1]])
        <5>1. <<Child(P[at[1]], key), at[2] - 1>> \in Z
          BY <1>2, <3>1, <4>1, <4>4
        <5>2. f[<<Child(P[at[1]], key), at[2] - 1>>] = H[at[2] - 1][Child(P[at[1]], key)]
          BY <5>1
        <5>3. f[at] = <<at[1]>> \o H[at[2] - 1][Child(P[at[1]], key)]
          BY <4>2, <4>4 DEF Onward
        <5>4. E(f)[at] = <<at[1]>> \o f[<<Child(P[at[1]], key), at[2] - 1>>]
          <6> HIDE DEF f, Z
          <6> QED
            BY <3>4, <4>4
        <5> QED
          BY <5>2, <5>3, <5>4
      <4> QED
        BY <4>3, <4>4
    <3> QED
      BY <3>3, <3>4
  <2>2. f = [at \in Z |-> f[at]]
    OBVIOUS
  <2>3. E(f) = [at \in Z |-> E(f)[at]]
    <3> HIDE DEF f
    <3> QED
      OBVIOUS
  <2> HIDE DEF f, E
  <2> QED
    BY <2>1, <2>2, <2>3
<1> DEFINE d == CHOOSE g : g = E(g)
<1>10. d = E(d)
  <2> HIDE DEF f, E
  <2> QED
    BY <1>9
<1>11. ASSUME NEW n \in 0..N PROVE \A id \in I : d[<<id, n>>] = H[n][id]
  <2> DEFINE Good == {m \in 0..N : \A id \in I : d[<<id, m>>] = H[m][id]}
  <2>0. ASSUME NEW m \in 0..N, NEW id \in I
        PROVE  d[<<id, m>>] = IF IsLeafLevel(P[id]) \/ m = 0 THEN <<id>>
                              ELSE <<id>> \o d[<<Child(P[id], key), m - 1>>]
    <3>1. <<id, m>> \in Z
      OBVIOUS
    <3>2. d[<<id, m>>] = E(d)[<<id, m>>]
      <4> HIDE DEF d, E
      <4> QED
        BY <1>10
    <3> HIDE DEF d
    <3> QED
      BY <3>1, <3>2
  <2> HIDE DEF d, E, f
  <2>1. 0 \in Good
    <3>1. 0 \in 0..N
      BY <1>1
    <3>2. ASSUME NEW id \in I PROVE d[<<id, 0>>] = H[0][id]
      <4>1. d[<<id, 0>>] = <<id>>
        BY <2>0, <3>1
      <4> QED
        BY <1>8, <4>1
    <3> QED
      BY <3>1, <3>2
  <2>2. ASSUME NEW m \in 1..N, m - 1 \in Good PROVE m \in Good
    <3>1. m \in 0..N /\ m # 0
      BY <1>1
    <3>2. ASSUME NEW id \in I PROVE d[<<id, m>>] = H[m][id]
      <4>1. H[m][id] = Onward(P, key, H[m - 1], id)
        BY <1>7
      <4>2. d[<<id, m>>] = IF IsLeafLevel(P[id]) THEN <<id>> ELSE <<id>> \o d[<<Child(P[id], key), m - 1>>]
        BY <2>0, <3>1
      <4>3. ~IsLeafLevel(P[id]) => d[<<Child(P[id], key), m - 1>>] = H[m - 1][Child(P[id], key)]
        BY <1>2, <2>2
      <4> QED
        BY <4>1, <4>2, <4>3 DEF Onward
    <3> QED
      BY <3>1, <3>2
  <2>3. \A m \in 0..N : m \in Good
    <3> HIDE DEF Good
    <3> QED
      BY <1>1, <2>1, <2>2, UpTo
  <2> QED
    BY <2>3
<1>12. DescentOf(P, root, N, key) = d[<<root, N>>]
  BY <1>1 DEF DescentOf
<1>13. N \in 0..N
  BY <1>1
<1> HIDE DEF d, E, f, Z
<1>14. DescentOf(P, root, N, key) = H[N][root]
  BY <1>1, <1>11, <1>12, <1>13
<1>15. H \in [0..N -> [I -> Seq(I)]]
  BY <1>6 DEF S
<1>16. DescentRun(P, N, root, key, H)
  BY <1>7, <1>8, <1>14, <1>15 DEF I, DescentRun
<1> QED
  BY <1>16

\* The way a search for key takes from a page down to a leaf.
Down(P, lv, L, key, id, t) ==
    /\ t \in Seq(L) /\ Len(t) = lv[id] + 1 /\ t[1] = id
    /\ \A j \in 1..Len(t) : lv[t[j]] = lv[id] + 1 - j
    /\ \A j \in 2..Len(t) : t[j] = Child(P[t[j - 1]], key)

\* A way down goes on to a child.
LEMMA DownChild ==
    ASSUME NEW P, NEW N, NEW lv, NEW L, NEW root, Shape(P, N, lv, L, root), NEW key \in Int,
           NEW id \in L, lv[id] # 0
    PROVE  /\ Child(P[id], key) \in L /\ lv[Child(P[id], key)] = lv[id] - 1
           /\ Child(P[id], key) \in Kids(P[id]) /\ lv[id] - 1 \in Nat
<1>1. PageAt(P[id], lv[id], lv, L, Ids(N)) /\ lv[id] \in Nat
  BY ShapeFacts
<1>2. P[id] \in PagesOf(Vals(lv, L, lv[id]), Ptrs(lv, L, lv[id], Ids(N))) /\ Kids(P[id]) \subseteq Below(lv, L, lv[id])
  BY <1>1, PageAtFacts
<1>3. Child(P[id], key) \in Kids(P[id])
  BY <1>2, ChildKid
<1> QED
  BY <1>1, <1>2, <1>3 DEF Below

\* A way down from a page's child is one from the page.
LEMMA DownMore ==
    ASSUME NEW P, NEW N, NEW lv, NEW L, NEW root, Shape(P, N, lv, L, root), NEW key \in Int,
           NEW id \in L, lv[id] # 0, NEW u, Down(P, lv, L, key, Child(P[id], key), u)
    PROVE  Down(P, lv, L, key, id, <<id>> \o u)
<1> DEFINE c == Child(P[id], key)
           t == <<id>> \o u
<1>1. c \in L /\ lv[c] = lv[id] - 1 /\ lv[id] \in Nat /\ lv[id] - 1 \in Nat
  BY DownChild, ShapeFacts
<1>2. /\ u \in Seq(L) /\ Len(u) = lv[c] + 1 /\ u[1] = c
      /\ \A j \in 1..Len(u) : lv[u[j]] = lv[c] + 1 - j
      /\ \A j \in 2..Len(u) : u[j] = Child(P[u[j - 1]], key)
  BY DEF Down
<1> HIDE DEF c
<1>3. Len(u) = lv[id] /\ Len(u) \in Nat /\ Len(u) >= 1
  BY <1>1, <1>2
<1>4. t \in Seq(L) /\ Len(t) = Len(u) + 1 /\ t[1] = id /\ \A j \in 2..Len(u) + 1 : t[j] = u[j - 1]
  BY <1>2, <1>3
<1> HIDE DEF t
<1>5. Len(t) = lv[id] + 1
  BY <1>3, <1>4
<1>6. ASSUME NEW j \in 1..Len(t) PROVE lv[t[j]] = lv[id] + 1 - j
  <2>1. CASE j = 1
    BY <1>1, <1>4, <2>1
  <2>2. CASE j # 1
    <3>1. PICK e \in 1..Len(u) : e = j - 1
      <4>1. j - 1 \in 1..Len(u)
        BY <1>3, <1>4, <2>2
      <4> QED
        BY <4>1
    <3>2. t[j] = u[e]
      <4>1. j \in 2..Len(u) + 1
        BY <1>3, <1>4, <2>2
      <4> QED
        BY <1>4, <3>1, <4>1
    <3>3. lv[u[e]] = lv[c] + 1 - e
      BY <1>2
    <3> QED
      BY <1>1, <3>1, <3>2, <3>3
  <2> QED
    BY <2>1, <2>2
<1>7. ASSUME NEW j \in 2..Len(t) PROVE t[j] = Child(P[t[j - 1]], key)
  <2>1. PICK e \in 1..Len(u) : e = j - 1
    <3>1. j - 1 \in 1..Len(u)
      BY <1>3, <1>4
    <3> QED
      BY <3>1
  <2>2. t[j] = u[e]
    <3>1. j \in 2..Len(u) + 1
      BY <1>3, <1>4
    <3> QED
      BY <1>4, <2>1, <3>1
  <2>3. CASE e = 1
    <3>1. t[e] = id /\ u[e] = c
      BY <1>2, <1>4, <2>3
    <3> QED
      BY <2>1, <2>2, <3>1 DEF c
  <2>4. CASE e # 1
    <3>1. e \in 2..Len(u) /\ e \in 2..Len(u) + 1
      BY <1>3, <2>4
    <3>2. u[e] = Child(P[u[e - 1]], key) /\ t[e] = u[e - 1]
      BY <1>2, <1>4, <3>1
    <3> QED
      BY <2>1, <2>2, <3>2
  <2> QED
    BY <2>3, <2>4
<1> QED
  BY <1>4, <1>5, <1>6, <1>7 DEF Down, t

\* breadcrumbs is a way down to a leaf.
LEMMA DescentDown ==
    ASSUME NEW P, NEW N, NEW lv, NEW L, NEW root, Shape(P, N, lv, L, root), NEW key \in Int
    PROVE  Down(P, lv, L, key, root, DescentOf(P, root, N, key))
<1>1. PICK H : /\ H \in [0..N -> [Ids(N) -> Seq(Ids(N))]]
               /\ \A id \in Ids(N) : H[0][id] = <<id>>
               /\ \A n \in 1..N, id \in Ids(N) : H[n][id] = Onward(P, key, H[n - 1], id)
               /\ DescentOf(P, root, N, key) = H[N][root]
  <2>1. PICK H : DescentRun(P, N, root, key, H)
    BY DescentRuns
  <2> QED
    BY <2>1 DEF DescentRun
<1>2. /\ N \in Nat /\ L \subseteq Ids(N) /\ root \in L /\ lv[root] < N
      /\ \A i \in L : lv[i] \in Nat /\ PageAt(P[i], lv[i], lv, L, Ids(N))
  BY ShapeFacts
<1>3. \A i \in L : IsLeafLevel(P[i]) <=> lv[i] = 0
  BY <1>2 DEF PageAt
<1> DEFINE Good == {n \in 0..N : \A id \in L : lv[id] <= n => Down(P, lv, L, key, id, H[n][id])}
<1>4. ASSUME NEW id \in L, lv[id] = 0 PROVE Down(P, lv, L, key, id, <<id>>)
  <2>1. <<id>> \in Seq(L) /\ Len(<<id>>) = 1 /\ <<id>>[1] = id
    OBVIOUS
  <2> QED
    BY <1>4, <2>1 DEF Down
<1>5. 0 \in Good
  <2>1. ASSUME NEW id \in L, lv[id] <= 0 PROVE Down(P, lv, L, key, id, H[0][id])
    <3>1. lv[id] = 0 /\ H[0][id] = <<id>>
      BY <1>1, <1>2, <2>1
    <3> QED
      BY <1>4, <3>1
  <2> QED
    BY <1>2, <2>1
<1>6. ASSUME NEW n \in 1..N, n - 1 \in Good PROVE n \in Good
  <2>1. ASSUME NEW id \in L, lv[id] <= n PROVE Down(P, lv, L, key, id, H[n][id])
    <3>1. H[n][id] = Onward(P, key, H[n - 1], id)
      BY <1>1, <1>2
    <3>2. CASE lv[id] = 0
      BY <1>3, <1>4, <3>1, <3>2 DEF Onward
    <3>3. CASE lv[id] # 0
      <4>1. H[n][id] = <<id>> \o H[n - 1][Child(P[id], key)]
        BY <1>3, <3>1, <3>3 DEF Onward
      <4>2. Child(P[id], key) \in L /\ lv[Child(P[id], key)] = lv[id] - 1 /\ lv[id] \in Nat
        BY <1>2, <3>3, DownChild
      <4>3. lv[Child(P[id], key)] <= n - 1
        BY <2>1, <4>2
      <4>4. Down(P, lv, L, key, Child(P[id], key), H[n - 1][Child(P[id], key)])
        BY <1>6, <4>2, <4>3
      <4>5. Down(P, lv, L, key, id, <<id>> \o H[n - 1][Child(P[id], key)])
        BY <3>3, <4>4, DownMore
      <4> QED
        BY <4>1, <4>5
    <3> QED
      BY <3>2, <3>3
  <2> QED
    BY <1>2, <2>1
<1>7. \A n \in 0..N : n \in Good
  <2> HIDE DEF Good
  <2> QED
    BY <1>2, <1>5, <1>6, UpTo
<1>8. N \in Good /\ lv[root] <= N
  BY <1>2, <1>7
<1> QED
  BY <1>1, <1>2, <1>8

\* breadcrumbs is a trail to a leaf.
LEMMA DescentTrail ==
    ASSUME NEW P, NEW N, NEW lv, NEW L, NEW root, Shape(P, N, lv, L, root), NEW key \in Int
    PROVE  LET t == DescentOf(P, root, N, key)
           IN  /\ Trail(P, lv, L, root, t) /\ Len(t) = lv[root] + 1
               /\ Last(t) \in L /\ lv[Last(t)] = 0
               /\ \A j \in 2..Len(t) : t[j] = Child(P[t[j - 1]], key)
<1> DEFINE t == DescentOf(P, root, N, key)
<1>1. /\ t \in Seq(L) /\ Len(t) = lv[root] + 1 /\ t[1] = root
      /\ \A j \in 1..Len(t) : lv[t[j]] = lv[root] + 1 - j
      /\ \A j \in 2..Len(t) : t[j] = Child(P[t[j - 1]], key)
  BY DescentDown DEF Down
<1> HIDE DEF t
<1>2. lv[root] \in Nat /\ Len(t) \in Nat /\ Len(t) >= 1 /\ \A i \in L : lv[i] \in Nat
  BY <1>1, ShapeFacts
<1>3. ASSUME NEW j \in 2..Len(t) PROVE t[j] \in Kids(P[t[j - 1]])
  <2>1. PICK e \in 1..Len(t) : e = j - 1 /\ e < Len(t)
    <3>1. j - 1 \in 1..Len(t) /\ j - 1 < Len(t)
      BY <1>2
    <3> QED
      BY <3>1
  <2>2. t[e] \in L /\ lv[t[e]] = lv[root] + 1 - e
    BY <1>1
  <2>3. lv[t[e]] # 0
    BY <1>1, <1>2, <2>1, <2>2
  <2>4. Child(P[t[e]], key) \in Kids(P[t[e]])
    BY ZenonT(20), <2>2, <2>3, DownChild
  <2> QED
    BY <1>1, <2>1, <2>4
<1>4. Trail(P, lv, L, root, t)
  BY <1>1, <1>2, <1>3 DEF Trail
<1>5. Last(t) \in L /\ lv[Last(t)] = 0
  <2>1. Last(t) \in L /\ lv[Last(t)] = lv[root] + 1 - Len(t)
    BY <1>4, TrailFacts
  <2> QED
    BY <1>1, <1>2, <2>1
<1> QED
  BY <1>1, <1>4, <1>5 DEF t

-----------------------------------------------------------------------------
(* What the state is between steps, and each operation. *)

\* There are as many ids as pages.
LEMMA CountIds ==
    ASSUME NEW N \in Nat
    PROVE  Cardinality(Ids(N)) = N
<1>1. IsFiniteSet(0..N - 1) /\ Cardinality(0..N - 1) = IF 0 > N - 1 THEN 0 ELSE N - 1 - 0 + 1
  <2>1. 0 \in Int /\ N - 1 \in Int
    OBVIOUS
  <2> QED
    BY <2>1, FS_Interval
<1> QED
  BY <1>1 DEF Ids

\* What a call that has steps to go refers to.
CallAt(P, lv, L, root, o) ==
    \/ o = Idle
    \/ /\ o.pc = "overfull"
       /\ Trail(P, lv, L, root, o.trail) /\ Len(P[Last(o.trail)].cells) = ORDER
    \/ /\ o.pc = "underfull"
       /\ Trail(P, lv, L, root, o.trail)
       /\ o.id \in L /\ o.id \in Kids(P[Last(o.trail)]) /\ lv[Last(o.trail)] = lv[o.id] + 1

\* What calls return.
Outs == {"none", "ok", "exists", "missing", "refused", "error", Absent} \cup AllRecords

\* All calls leave the pages where their levels say, whether the tree is one or not.
TreeTyped(N, lv, L) ==
    /\ Shape(pages, N, lv, L, root_id)
    /\ CallAt(pages, lv, L, root_id, op)
    /\ reply.out \in Outs /\ reopens \in 0..MaxReopens

\* The next id is the number of pages.
LEMMA TypedNext ==
    ASSUME NEW N, NEW lv, NEW L, TreeTyped(N, lv, L)
    PROVE  NextId = N
<1>1. N \in Nat /\ DOMAIN pages = Ids(N)
  BY ShapeFacts DEF TreeTyped
<1> QED
  BY <1>1, CountIds DEF NextId

\* The shape of the pages gives the type invariant.
LEMMA TypedOK ==
    ASSUME NEW N, NEW lv, NEW L, TreeTyped(N, lv, L)
    PROVE  TypeOK
<1>1. NextId = N
  BY TypedNext
<1>2. /\ N \in Nat /\ DOMAIN pages = Ids(N) /\ root_id \in Ids(N) /\ L \subseteq Ids(N)
      /\ \A i \in Ids(N) : lv[i] \in Nat /\ PageAt(pages[i], lv[i], lv, Ids(N), Ids(N))
  BY ShapeFacts DEF TreeTyped
<1>3. ASSUME NEW id \in Ids(N) PROVE IsPage(pages[id], Ids(N))
  <2> DEFINE p == pages[id]
             V == Vals(lv, Ids(N), lv[id])
             W == Ptrs(lv, Ids(N), lv[id], Ids(N))
  <2>1. p \in PagesOf(V, W) /\ (IsLeafLevel(p) <=> lv[id] = 0)
    BY <1>2 DEF PageAt
  <2>2. W \subseteq Ids(N) /\ V \subseteq (IF IsLeafLevel(p) THEN AllRecords ELSE Ids(N))
    BY <2>1 DEF Vals, Ptrs, Below
  <2> HIDE DEF V, W, p
  <2>3. p.kind \in PageKind /\ p.root_leaf \in BOOLEAN /\ p.cells \in Lists(V) /\ p.ptr \in W
    BY <2>1, PageFacts
  <2>4. \A i \in DOMAIN p.cells : p.cells[i].key \in Keys /\ p.cells[i].val \in V
    <3>1. p.cells \in Lists(V)
      BY <2>3
    <3>2. DOMAIN p.cells = 1..Len(p.cells)
      BY <3>1, ListFacts
    <3>3. \A i \in 1..Len(p.cells) : p.cells[i].key \in Keys /\ p.cells[i].val \in V
      BY <3>1, ListFacts
    <3> QED
      BY <3>2, <3>3
  <2>5. IsPage(p, Ids(N))
    BY <2>2, <2>3, <2>4 DEF IsPage
  <2> QED
    BY <2>5 DEF p
<1>4. op.pc \in {"idle", "overfull", "underfull"}
  BY DEF TreeTyped, CallAt, Idle
<1>5. op.pc # "idle" => ToSet(op.trail) \subseteq Ids(N)
  <2>1. ASSUME op.pc # "idle" PROVE Trail(pages, lv, L, root_id, op.trail)
    BY <2>1 DEF TreeTyped, CallAt, Idle
  <2>2. Shape(pages, N, lv, L, root_id)
    BY DEF TreeTyped
  <2> QED
    BY <1>2, <2>1, <2>2, TrailFacts
<1>6. reply.out \in {"none", "ok", "exists", "missing", "refused", "error", Absent} \cup AllRecords /\ reopens \in 0..MaxReopens
  BY DEF TreeTyped, Outs
<1>7. DOMAIN pages = 0..NextId - 1
  BY <1>1, <1>2 DEF Ids
<1> QED
  BY <1>2, <1>3, <1>4, <1>5, <1>6, <1>7 DEF TypeOK

\* The empty root has the shape.
LEMMA TypedInit ==
    ASSUME Init
    PROVE  TreeTyped(1, [i \in Nat |-> 0], {0})
<1> DEFINE lv == [i \in Nat |-> 0]
           p == [NewPage("Root") EXCEPT !.root_leaf = TRUE]
<1>1. pages = [i \in {0} |-> p] /\ root_id = 0 /\ op = Idle /\ reply.out = "none" /\ reopens = 0
  BY DEF Init
<1>2. p.kind = "Root" /\ p.root_leaf = TRUE /\ p.root_leaf
  BY DEF NewPage
<1>3. Ids(1) = {0}
  BY DEF Ids
<1>4. <<>> \in Lists(AllRecords)
  BY Constants DEF Lists, InOrder
<1>5. p \in PagesOf(AllRecords, {0})
  <2>1. p \in [kind : PageKind, root_leaf : BOOLEAN, cells : Lists(AllRecords), ptr : {0}]
    BY <1>4 DEF NewPage, PageKind
  <2> HIDE DEF p
  <2> QED
    BY <1>2, <2>1 DEF PagesOf
<1>6. PageAt(p, 0, lv, {0}, {0})
  BY <1>2, <1>5 DEF PageAt, Vals, Ptrs, IsLeafLevel
<1>7. DOMAIN pages = {0} /\ pages[0] = p
  BY <1>1
<1>8. lv \in [Nat -> Nat] /\ lv[0] = 0
  OBVIOUS
<1> HIDE DEF p, lv
<1>9. Levels(pages, 1, lv)
  BY <1>3, <1>6, <1>7, <1>8 DEF Levels
<1>10. p.kind = "Root"
  BY <1>2
<1>11. Live(pages, 1, lv, {0}, 0)
  BY <1>3, <1>6, <1>7, <1>8, <1>10 DEF Live
<1>12. reopens \in 0..MaxReopens /\ reply.out \in Outs
  BY <1>1, TreeAssumption DEF Outs, TreeAssumption
<1> QED
  BY <1>1, <1>9, <1>11, <1>12 DEF TreeTyped, Shape, CallAt, lv

\* The leaf a search ends at.
LEMMA LeafFound ==
    ASSUME NEW N, NEW lv, NEW L, Shape(pages, N, lv, L, root_id), NEW key \in Int
    PROVE  LET t == Breadcrumbs(key)
           IN  /\ Trail(pages, lv, L, root_id, t) /\ Last(t) \in L /\ Last(t) \in Ids(N) /\ lv[Last(t)] = 0
               /\ pages[Last(t)] \in PagesOf(AllRecords, Ids(N))
               /\ PageAt(pages[Last(t)], 0, lv, L, Ids(N))
<1> DEFINE t == Breadcrumbs(key)
<1>1. N \in Nat /\ DOMAIN pages = Ids(N) /\ L \subseteq Ids(N)
  BY ShapeFacts
<1>2. NextId = N
  BY <1>1, CountIds DEF NextId
<1>3. t = DescentOf(pages, root_id, N, key)
  BY <1>2, BreadcrumbsIs
<1>4. Trail(pages, lv, L, root_id, t) /\ Last(t) \in L /\ lv[Last(t)] = 0
  BY <1>3, DescentTrail
<1> HIDE DEF t
<1>5. PageAt(pages[Last(t)], 0, lv, L, Ids(N))
  BY <1>4, ShapeFacts
<1>6. pages[Last(t)] \in PagesOf(AllRecords, Ids(N))
  BY <1>5, PageAtFacts
<1> QED
  BY <1>1, <1>4, <1>5, <1>6 DEF t

\* A lookup keeps it.
LEMMA TypedGet ==
    ASSUME NEW N, NEW lv, NEW L, TreeTyped(N, lv, L), NEW key \in Keys, Get(key)
    PROVE  TreeTyped(N, lv, L)'
<1> DEFINE p == pages[Last(Breadcrumbs(key))]
           hits == {i \in DOMAIN p.cells : p.cells[i].key = key}
           out == IF hits = {} THEN Absent ELSE p.cells[CHOOSE i \in hits : TRUE].val
<1>1. /\ op' = Idle /\ UNCHANGED <<pages, root_id, reopens>>
      /\ reply' = [op |-> "get", key |-> key, out |-> out]
  BY DEF Get, Answer
<1>2. p \in PagesOf(AllRecords, Ids(N))
  BY Constants, LeafFound DEF TreeTyped
<1> HIDE DEF p
<1>3. out \in Outs
  <2>1. p.cells \in Lists(AllRecords)
    BY <1>2, PageFacts
  <2>2. \A i \in DOMAIN p.cells : p.cells[i].val \in AllRecords
    BY ZenonT(20), <2>1, ListFacts
  <2>3. CASE hits = {}
    BY <2>3 DEF Outs
  <2>4. CASE hits # {}
    <3>1. (CHOOSE i \in hits : TRUE) \in hits
      BY <2>4
    <3>2. (CHOOSE i \in hits : TRUE) \in DOMAIN p.cells
      BY <3>1
    <3> QED
      BY <2>2, <2>4, <3>2 DEF Outs
  <2> QED
    BY <2>3, <2>4
<1> HIDE DEF out
<1> QED
  BY <1>1, <1>3 DEF TreeTyped, CallAt

\* So does the refusal of a row.
LEMMA TypedRefuse ==
    ASSUME NEW N, NEW lv, NEW L, TreeTyped(N, lv, L), NEW key \in Keys, RefuseRow(key)
    PROVE  TreeTyped(N, lv, L)'
<1>1. /\ op' = Idle /\ UNCHANGED <<pages, root_id, reopens>> /\ reply'.out = "refused"
  BY DEF RefuseRow, Answer
<1> QED
  BY <1>1 DEF TreeTyped, CallAt, Idle, Outs

\* So does an insertion, up to the split it may cause.
LEMMA TypedInsert ==
    ASSUME NEW N, NEW lv, NEW L, TreeTyped(N, lv, L), NEW key \in Keys, NEW record \in Records[key],
           Insert(key, record)
    PROVE  TreeTyped(N, lv, L)'
<1> DEFINE trail == Breadcrumbs(key)
           leaf == Last(trail)
           added == AddCell(pages[leaf], key, record)
           req == <<"insert", key>>
<1>1. /\ pages' = IF added.ok THEN With(pages, leaf, added.page) ELSE pages
      /\ \/ op' = Idle /\ reply'.out \in Outs
         \/ added.ok /\ Len(added.page.cells) >= ORDER /\ op' = Overfull(req, trail) /\ UNCHANGED reply
      /\ UNCHANGED <<root_id, reopens>>
  <2>1. /\ pages' = IF added.ok THEN With(pages, leaf, added.page) ELSE pages
        /\ CASE key \in KeysOf(pages[leaf]) -> Answer(req, "exists")
             [] key \notin KeysOf(pages[leaf]) /\ ~added.ok -> Answer(req, "error")
             [] added.ok /\ Len(added.page.cells) < ORDER -> Answer(req, "ok")
             [] added.ok /\ Len(added.page.cells) >= ORDER -> op' = Overfull(req, trail) /\ UNCHANGED reply
        /\ UNCHANGED <<root_id, reopens>>
    BY DEF Insert
  <2>2. key \in Int
    BY Constants
  <2>3. pages[leaf] \in PagesOf(AllRecords, Ids(N))
    BY <2>2, LeafFound DEF TreeTyped
  <2>4. record \in AllRecords
    BY DEF AllRecords
  <2>5. added.ok \in BOOLEAN /\ added.page \in PagesOf(AllRecords, Ids(N))
    BY <2>3, <2>4, AddCellIs
  <2> HIDE DEF added, leaf, trail
  <2>6. Len(added.page.cells) \in Nat /\ ORDER \in Nat
    BY <2>5, PageFacts, ListFacts, Constants
  <2>7. \/ key \in KeysOf(pages[leaf])
        \/ key \notin KeysOf(pages[leaf]) /\ ~added.ok
        \/ added.ok /\ Len(added.page.cells) < ORDER
        \/ added.ok /\ Len(added.page.cells) >= ORDER
    BY <2>5, <2>6
  <2>8. \/ Answer(req, "exists") \/ Answer(req, "error") \/ Answer(req, "ok")
        \/ added.ok /\ Len(added.page.cells) >= ORDER /\ op' = Overfull(req, trail) /\ UNCHANGED reply
    BY <2>1, <2>7
  <2>9. \A out \in {"exists", "error", "ok"} : Answer(req, out) => op' = Idle /\ reply'.out \in Outs
    BY DEF Answer, Outs
  <2> QED
    BY <2>1, <2>8, <2>9
<1>2. key \in Int /\ record \in AllRecords
  BY Constants DEF AllRecords
<1>3. /\ Trail(pages, lv, L, root_id, trail) /\ leaf \in L /\ leaf \in Ids(N) /\ lv[leaf] = 0
      /\ pages[leaf] \in PagesOf(AllRecords, Ids(N)) /\ PageAt(pages[leaf], 0, lv, L, Ids(N))
  BY <1>2, LeafFound DEF TreeTyped
<1>4. /\ added.page \in PagesOf(AllRecords, Ids(N)) /\ added.ok \in BOOLEAN
      /\ added.page.kind = pages[leaf].kind /\ added.page.root_leaf = pages[leaf].root_leaf
  <2>1. /\ added.page \in PagesOf(AllRecords, Ids(N)) /\ added.ok \in BOOLEAN
        /\ ~added.ok => added.page = pages[leaf]
        /\ added.ok => Added(pages[leaf], key, record, added.page)
    BY <1>2, <1>3, AddCellIs
  <2> HIDE DEF added, leaf
  <2> QED
    BY <2>1 DEF Added
<1> HIDE DEF trail, leaf, added
<1>5. Shape(pages, N, lv, L, root_id)
  BY DEF TreeTyped
<1>6. PageAt(added.page, lv[leaf], lv, L, Ids(N))
  <2>1. AllRecords = Vals(lv, L, 0) /\ Ids(N) = Ptrs(lv, L, 0, Ids(N)) /\ 0 \in Nat
    BY DEF Vals, Ptrs
  <2> QED
    BY <1>3, <1>4, <2>1, SameLevel
<1>7. added.page.kind = "Root" <=> leaf = root_id
  BY <1>3, <1>4, <1>5, ShapeFacts
<1>8. Shape(With(pages, leaf, added.page), N, lv, L, root_id)
  BY <1>3, <1>5, <1>6, <1>7, ShapeWrite
<1>9. Shape(pages', N, lv, L, root_id')
  BY <1>1, <1>5, <1>8
<1>10. CallAt(pages', lv, L, root_id', op')
  <2>1. CASE op' = Idle
    BY <2>1 DEF CallAt
  <2>2. CASE op' = Overfull(req, trail) /\ added.ok /\ Len(added.page.cells) >= ORDER
    <3>1. pages' = With(pages, leaf, added.page)
      BY <1>1, <2>2
    <3>2. pages'[leaf] = added.page /\ \A i \in DOMAIN pages : i # leaf => pages'[i] = pages[i]
      BY <3>1, WithIs
    <3>3. DOMAIN pages = Ids(N) /\ L \subseteq Ids(N) /\ \A i \in L : lv[i] \in Nat
      BY <1>5, ShapeFacts
    <3>4. Trail(pages', lv, L, root_id, trail)
      <4>1. \A i \in L : lv[i] > lv[Last(trail)] => pages'[i] = pages[i]
        BY <1>3, <3>2, <3>3 DEF leaf
      <4>2. L \subseteq L /\ \A i \in L : lv[i] = lv[i]
        OBVIOUS
      <4> QED
        BY <1>3, <1>5, <4>1, <4>2, TrailKept
    <3>5. Len(added.page.cells) = ORDER
      <4>1. Len(added.page.cells) \in Nat /\ Len(added.page.cells) <= ORDER /\ ORDER \in Nat
        BY <1>4, PageFacts, ListFacts, Constants
      <4> QED
        BY <2>2, <4>1
    <3>6. op'.pc = "overfull" /\ op'.trail = trail
      BY <2>2 DEF Overfull
    <3> QED
      BY <1>1, <3>2, <3>4, <3>5, <3>6 DEF CallAt, leaf
  <2> QED
    BY <1>1, <2>1, <2>2
<1>11. reply'.out \in Outs /\ reopens' \in 0..MaxReopens
  BY <1>1 DEF TreeTyped
<1> QED
  BY <1>9, <1>10, <1>11 DEF TreeTyped

-----------------------------------------------------------------------------
(* propagate_key_update and deletion. *)

\* A finite set of numbers that is not empty has a largest one.
LEMMA Largest ==
    ASSUME NEW n \in Nat, NEW S \in SUBSET (1..n), S # {}
    PROVE  \E i \in S : \A j \in S : j <= i
<1> DEFINE T == {n - i : i \in S}
<1>1. T \in SUBSET Nat /\ T # {}
  <2>1. \A i \in S : n - i \in Nat
    OBVIOUS
  <2>2. PICK i : i \in S
    OBVIOUS
  <2>3. n - i \in T
    BY <2>2
  <2> QED
    BY <2>1, <2>3
<1>2. PICK m \in T : \A k \in T : m <= k
  <2> HIDE DEF T
  <2> QED
    BY <1>1, LeastNatural
<1>3. PICK i \in S : m = n - i
  OBVIOUS
<1>4. ASSUME NEW j \in S PROVE j <= i
  <2>1. n - j \in T
    OBVIOUS
  <2>2. n - i <= n - j
    BY <1>2, <1>3, <2>1
  <2> QED
    BY <2>2
<1> QED
  BY <1>4

\* The page propagate_key_update changes, with new_key in the place of old_key.
Renamed(p, old_key, new_key) ==
    LET update(c) == IF c.key = old_key THEN [c EXCEPT !.key = new_key] ELSE c
    IN  Rebuild(p, p.kind, [i \in DOMAIN p.cells |-> update(p.cells[i])], p.ptr).page

\* What propagate_key_update leaves: the pages it was given, or one renamed separator.
Propagated(P, written, key, new, up, m, Q) ==
    \/ Q = written
    \/ /\ new.cells # <<>>
       /\ \E h \in 1..m :
             /\ key \in KeysOf(P[up[h]])
             /\ \A j \in 1..m : key \in KeysOf(P[up[j]]) => j <= h
             /\ Q = With(written, up[h], Renamed(P[up[h]], key, new.cells[1].key))

\* The ancestor it changes is the deepest that has the key.
LEMMA PropagateIs ==
    ASSUME NEW ps, NEW old_key, NEW leaf_page, NEW ancestors, NEW n \in Nat, DOMAIN ancestors = 1..n
    PROVE  Propagated(pages, ps, old_key, leaf_page, ancestors, n, PropagateKeyUpdate(ps, old_key, leaf_page, ancestors).pages)
<1> DEFINE holders == {i \in DOMAIN ancestors : old_key \in KeysOf(pages[ancestors[i]])}
           holder == CHOOSE i \in holders : \A j \in holders : j <= i
           new == PropagateKeyUpdate(ps, old_key, leaf_page, ancestors).pages
<1>1. new = IF leaf_page.cells = <<>> \/ holders = {} THEN ps
            ELSE With(ps, ancestors[holder], Renamed(pages[ancestors[holder]], old_key, leaf_page.cells[1].key))
  <2> DEFINE p == pages[ancestors[holder]]
             update(c) == IF c.key = old_key THEN [c EXCEPT !.key = leaf_page.cells[1].key] ELSE c
             updated == Rebuild(p, p.kind, [i \in DOMAIN p.cells |-> update(p.cells[i])], p.ptr)
  <2>1. PropagateKeyUpdate(ps, old_key, leaf_page, ancestors) =
           IF leaf_page.cells = <<>> \/ holders = {} THEN [ok |-> TRUE, pages |-> ps]
           ELSE [ok |-> updated.ok, pages |-> With(ps, ancestors[holder], updated.page)]
    BY DEF PropagateKeyUpdate
  <2>2. updated.page = Renamed(p, old_key, leaf_page.cells[1].key)
    BY DEF Renamed
  <2> HIDE DEF updated, holders, holder
  <2> QED
    BY <2>1, <2>2
<1>2. CASE leaf_page.cells = <<>> \/ holders = {}
  <2>1. new = ps
    <3> HIDE DEF new, holder, holders
    <3> QED
      BY <1>1, <1>2
  <2> HIDE DEF new, holder
  <2> QED
    BY <2>1 DEF new, Propagated
<1>3. CASE leaf_page.cells # <<>> /\ holders # {}
  <2>1. holders \in SUBSET (1..n)
    OBVIOUS
  <2>2. \E i \in holders : \A j \in holders : j <= i
    <3> HIDE DEF holders
    <3> QED
      BY <1>3, <2>1, Largest
  <2>3. holder \in holders /\ \A j \in holders : j <= holder
    <3> HIDE DEF holders
    <3> QED
      BY <2>2
  <2>4. new = With(ps, ancestors[holder], Renamed(pages[ancestors[holder]], old_key, leaf_page.cells[1].key))
    <3> HIDE DEF new, holder, holders
    <3> QED
      BY <1>1, <1>3
  <2> HIDE DEF holder, new
  <2>5. holder \in 1..n /\ old_key \in KeysOf(pages[ancestors[holder]])
    BY <2>3
  <2>6. \A i \in 1..n : old_key \in KeysOf(pages[ancestors[i]]) => i <= holder
    BY <2>3
  <2> QED
    BY <1>3, <2>4, <2>5, <2>6 DEF new, Propagated
<1> QED
  BY <1>2, <1>3

RenamedCells(p, old_key, new_key) ==
    [i \in 1..Len(p.cells) |-> IF p.cells[i].key = old_key
                               THEN [key |-> new_key, val |-> p.cells[i].val] ELSE p.cells[i]]

\* A page with a separator renamed is at its level.
LEMMA RenamedTyped ==
    ASSUME NEW V, NEW ids, NEW p \in PagesOf(V, ids), NEW old_key, NEW new_key \in Keys
    PROVE  LET q == Renamed(p, old_key, new_key)
           IN  /\ q \in PagesOf(V, ids) /\ q.kind = p.kind /\ q.root_leaf = p.root_leaf /\ q.ptr = p.ptr
               /\ InOrder(RenamedCells(p, old_key, new_key)) => q.cells = RenamedCells(p, old_key, new_key)
<1> DEFINE update(c) == IF c.key = old_key THEN [c EXCEPT !.key = new_key] ELSE c
           list == [i \in DOMAIN p.cells |-> update(p.cells[i])]
           list2 == RenamedCells(p, old_key, new_key)
<1>1. /\ p.kind \in PageKind /\ p.root_leaf \in BOOLEAN /\ p.cells \in Lists(V) /\ p.ptr \in ids
      /\ p.root_leaf => p.kind = "Root"
  BY PageFacts
<1>2. /\ DOMAIN p.cells = 1..Len(p.cells) /\ Len(p.cells) \in Nat /\ Len(p.cells) <= ORDER
      /\ \A i \in 1..Len(p.cells) : p.cells[i] \in CellsOf(V) /\ p.cells[i] = [key |-> p.cells[i].key, val |-> p.cells[i].val]
  BY <1>1, ListFacts
<1>3. ASSUME NEW i \in 1..Len(p.cells)
      PROVE  /\ update(p.cells[i]) = IF p.cells[i].key = old_key
                                     THEN [key |-> new_key, val |-> p.cells[i].val] ELSE p.cells[i]
             /\ update(p.cells[i]) \in CellsOf(V)
  <2>1. p.cells[i] \in CellsOf(V) /\ p.cells[i] = [key |-> p.cells[i].key, val |-> p.cells[i].val]
    BY <1>2
  <2>2. p.cells[i].val \in V
    BY <2>1 DEF CellsOf
  <2>3. [p.cells[i] EXCEPT !.key = new_key] = [key |-> new_key, val |-> p.cells[i].val]
    BY <2>1
  <2>4. [key |-> new_key, val |-> p.cells[i].val] \in CellsOf(V)
    BY <2>2 DEF CellsOf
  <2> QED
    BY <2>1, <2>3, <2>4
<1>4. list = list2
  <2> HIDE DEF update
  <2> QED
    BY <1>2, <1>3 DEF RenamedCells
<1>5. list \in Seq(CellsOf(V)) /\ Len(list) = Len(p.cells)
  <2>1. list \in [1..Len(p.cells) -> CellsOf(V)]
    <3> HIDE DEF update
    <3> QED
      BY <1>2, <1>3
  <2> HIDE DEF list
  <2> QED
    BY <1>2, <2>1
<1>6. Rebuilt(p, p.kind, list, p.ptr, V, ids, Rebuild(p, p.kind, list, p.ptr))
  <2> HIDE DEF list
  <2> QED
    BY <1>1, <1>5, RebuildIs
<1>7. Renamed(p, old_key, new_key) = Rebuild(p, p.kind, list, p.ptr).page
  BY DEF Renamed
<1> HIDE DEF list, list2
<1>8. DEFINE q == Rebuild(p, p.kind, list, p.ptr).page
<1>9. q \in PagesOf(V, ids) /\ q.kind = p.kind /\ q.ptr = p.ptr /\ (InOrder(list) => q.cells = list)
      /\ q.root_leaf = (p.kind = "Root" /\ p.root_leaf)
  BY <1>2, <1>5, <1>6 DEF Rebuilt
<1>10. q.root_leaf = p.root_leaf
  <2>1. q.root_leaf \in BOOLEAN
    BY <1>9, PageFacts
  <2> HIDE DEF q
  <2> QED
    BY <1>1, <1>9, <2>1
<1> HIDE DEF q
<1> QED
  BY <1>4, <1>7, <1>9, <1>10 DEF q, list2

\* A cell taken from a page of the tree leaves it at its level.
LEMMA RemovedAt ==
    ASSUME NEW lv, NEW S, NEW ids, NEW n \in Nat, NEW p, PageAt(p, n, lv, S, ids), NEW i \in 1..Len(p.cells)
    PROVE  /\ PageAt(RemoveCellAt(p, i), n, lv, S, ids)
           /\ RemoveCellAt(p, i).kind = p.kind
<1>1. p \in PagesOf(Vals(lv, S, n), Ptrs(lv, S, n, ids))
  BY PageAtFacts
<1>2. /\ RemoveCellAt(p, i) \in PagesOf(Vals(lv, S, n), Ptrs(lv, S, n, ids))
      /\ RemoveCellAt(p, i).kind = p.kind /\ RemoveCellAt(p, i).root_leaf = p.root_leaf
  BY <1>1, RemoveCellAtIs
<1> QED
  BY <1>2, SameLevel

\* The same for the page of an ancestor.
LEMMA RenamedPage ==
    ASSUME NEW V, NEW ids, NEW p \in PagesOf(V, ids), NEW old_key, NEW new_key \in Keys
    PROVE  /\ Renamed(p, old_key, new_key) \in PagesOf(V, ids)
           /\ Renamed(p, old_key, new_key).kind = p.kind
           /\ Renamed(p, old_key, new_key).root_leaf = p.root_leaf
  BY RenamedTyped

\* propagate_key_update keeps every page at its level.
LEMMA PropagateShape ==
    ASSUME NEW N, NEW lv, NEW L, Shape(pages, N, lv, L, root_id), NEW ps, Shape(ps, N, lv, L, root_id),
           NEW leaf_page \in PagesOf(AllRecords, Ids(N)), NEW old_key, NEW ancestors, NEW n \in Nat,
           DOMAIN ancestors = 1..n, \A i \in 1..n : ancestors[i] \in L
    PROVE  Shape(PropagateKeyUpdate(ps, old_key, leaf_page, ancestors).pages, N, lv, L, root_id)
<1> DEFINE new == PropagateKeyUpdate(ps, old_key, leaf_page, ancestors).pages
           key == leaf_page.cells[1].key
<1>1. \/ new = ps
      \/ /\ leaf_page.cells # <<>>
         /\ \E h \in 1..n : new = With(ps, ancestors[h], Renamed(pages[ancestors[h]], old_key, key))
  <2> HIDE DEF key
  <2> QED
    BY PropagateIs DEF Propagated, key
<1> HIDE DEF new
<1>2. CASE new = ps
  BY <1>2 DEF new
<1>3. ASSUME leaf_page.cells # <<>>, NEW h \in 1..n, new = With(ps, ancestors[h], Renamed(pages[ancestors[h]], old_key, key))
      PROVE  Shape(new, N, lv, L, root_id)
  <2> DEFINE a == ancestors[h]
             p == pages[a]
             q == Renamed(p, old_key, key)
  <2>1. key \in Keys
    <3>1. leaf_page.cells \in Lists(AllRecords)
      BY PageFacts
    <3>2. Len(leaf_page.cells) \in Nat /\ leaf_page.cells \in Seq(CellsOf(AllRecords))
      BY <3>1, ListFacts
    <3>3. 1 \in 1..Len(leaf_page.cells)
      BY <1>3, <3>2
    <3> QED
      BY <3>1, <3>3, ListFacts
  <2>2. a \in L
    OBVIOUS
  <2> HIDE DEF a, key
  <2>3. PageAt(p, lv[a], lv, L, Ids(N)) /\ lv[a] \in Nat /\ (p.kind = "Root" <=> a = root_id)
    BY <2>2, ShapeFacts
  <2>4. p \in PagesOf(Vals(lv, L, lv[a]), Ptrs(lv, L, lv[a], Ids(N)))
    BY <2>3, PageAtFacts
  <2> HIDE DEF p
  <2>5. q \in PagesOf(Vals(lv, L, lv[a]), Ptrs(lv, L, lv[a], Ids(N))) /\ q.kind = p.kind /\ q.root_leaf = p.root_leaf
    BY <2>1, <2>4, RenamedPage
  <2> HIDE DEF q
  <2>6. PageAt(q, lv[a], lv, L, Ids(N))
    BY <2>3, <2>5, SameLevel
  <2>7. Shape(With(ps, a, q), N, lv, L, root_id)
    BY <2>2, <2>3, <2>5, <2>6, ShapeWrite
  <2> QED
    BY <1>3, <2>7 DEF a, p, q
<1> QED
  BY <1>1, <1>2, <1>3 DEF new

\* A deletion keeps the shape, up to the borrowing or merging it may cause.
LEMMA TypedDelete ==
    ASSUME NEW N, NEW lv, NEW L, TreeTyped(N, lv, L), NEW key \in Keys, Delete(key)
    PROVE  TreeTyped(N, lv, L)'
<1> DEFINE trail == Breadcrumbs(key)
           leaf == Last(trail)
           p == pages[leaf]
           req == <<"delete", key>>
           new == RemoveCellAt(p, CHOOSE i \in DOMAIN p.cells : p.cells[i].key = key)
           written == With(pages, leaf, new)
           up == PropagateKeyUpdate(written, key, new, Front(trail))
<1>1. /\ UNCHANGED <<root_id, reopens>>
      /\ \/ key \notin KeysOf(p) /\ Answer(req, "missing") /\ UNCHANGED pages
         \/ /\ key \in KeysOf(p)
            /\ pages' \in {written, up.pages}
            /\ Answer(req, "ok") \/ Answer(req, "error")
         \/ /\ key \in KeysOf(p) /\ leaf # root_id
            /\ pages' = written
            /\ op' = Underfull(req, leaf, Front(trail))
            /\ UNCHANGED reply
  BY DEF Delete
<1>2. /\ Trail(pages, lv, L, root_id, trail) /\ leaf \in L /\ leaf \in Ids(N) /\ lv[leaf] = 0
      /\ p \in PagesOf(AllRecords, Ids(N)) /\ PageAt(p, 0, lv, L, Ids(N))
  BY Constants, LeafFound DEF TreeTyped
<1>3. Shape(pages, N, lv, L, root_id)
  BY DEF TreeTyped
<1>4. \A out \in {"missing", "ok", "error"} : Answer(req, out) => op' = Idle /\ reply'.out \in Outs
  BY DEF Answer, Outs
<1> HIDE DEF trail, leaf, p, up
<1>5. CASE key \notin KeysOf(p) /\ Answer(req, "missing") /\ UNCHANGED pages
  <2>1. op' = Idle /\ reply'.out \in Outs
    BY <1>4, <1>5
  <2> QED
    BY <1>1, <1>3, <1>5, <2>1 DEF TreeTyped, CallAt
<1>6. ASSUME key \in KeysOf(p)
      PROVE  /\ Shape(written, N, lv, L, root_id) /\ new \in PagesOf(AllRecords, Ids(N))
             /\ \A i \in L : i # leaf => written[i] = pages[i]
  <2>1. (CHOOSE i \in DOMAIN p.cells : p.cells[i].key = key) \in DOMAIN p.cells
    BY <1>6 DEF KeysOf
  <2>2. DOMAIN p.cells = 1..Len(p.cells)
    BY <1>2, PageFacts, ListFacts
  <2>3. PICK s \in 1..Len(p.cells) : new = RemoveCellAt(p, s)
    BY <2>1, <2>2
  <2> HIDE DEF new
  <2>4. PageAt(new, 0, lv, L, Ids(N)) /\ new.kind = p.kind
    BY <1>2, <2>3, RemovedAt
  <2>5. p.kind = "Root" <=> leaf = root_id
    BY <1>2, <1>3, ShapeFacts DEF p
  <2>6. PageAt(new, lv[leaf], lv, L, Ids(N)) /\ (new.kind = "Root" <=> leaf = root_id)
    BY <1>2, <2>4, <2>5
  <2>7. Shape(written, N, lv, L, root_id)
    BY <1>2, <1>3, <2>6, ShapeWrite
  <2>8. new \in PagesOf(AllRecords, Ids(N))
    BY <2>4, PageAtFacts
  <2>9. \A i \in L : i # leaf => written[i] = pages[i]
    <3>1. DOMAIN pages = Ids(N) /\ L \subseteq Ids(N)
      BY <1>3, ShapeFacts
    <3> QED
      BY <3>1, WithIs
  <2> QED
    BY <2>7, <2>8, <2>9
<1> HIDE DEF written, new
<1>7. ASSUME key \in KeysOf(p),
             pages' \in {written, up.pages},
             Answer(req, "ok") \/ Answer(req, "error")
      PROVE  TreeTyped(N, lv, L)'
  <2>1. op' = Idle /\ reply'.out \in Outs
    BY <1>4, <1>7
  <2>2. Shape(up.pages, N, lv, L, root_id)
    <3>1. /\ Len(trail) \in Nat /\ Len(trail) >= 1 /\ DOMAIN Front(trail) = 1..Len(trail) - 1
          /\ \A j \in 1..Len(trail) - 1 : Front(trail)[j] = trail[j]
          /\ \A j \in 1..Len(trail) : trail[j] \in L
      BY <1>2, <1>3, TrailFacts
    <3>2. PICK n \in Nat : n = Len(trail) - 1
      BY <3>1
    <3>3. DOMAIN Front(trail) = 1..n /\ \A j \in 1..n : Front(trail)[j] \in L
      BY <3>1, <3>2
    <3> QED
      BY <1>3, <1>6, <1>7, <3>3, PropagateShape DEF up
  <2>3. Shape(pages', N, lv, L, root_id')
    BY <1>1, <1>6, <1>7, <2>2
  <2> QED
    BY <1>1, <2>1, <2>3 DEF TreeTyped, CallAt
<1>8. ASSUME key \in KeysOf(p), leaf # root_id, pages' = written, op' = Underfull(req, leaf, Front(trail)), UNCHANGED reply
      PROVE  TreeTyped(N, lv, L)'
  <2>1. Shape(pages', N, lv, L, root_id')
    BY <1>1, <1>6, <1>8
  <2>2. Front(trail) # <<>>
    BY <1>2, <1>3, <1>8, TrailFacts DEF leaf
  <2>3. /\ Trail(pages, lv, L, root_id, Front(trail))
        /\ leaf \in Kids(pages[Last(Front(trail))])
        /\ lv[Last(Front(trail))] = lv[leaf] + 1
    BY <1>2, <1>3, <2>2, TrailFront DEF leaf
  <2>4. Last(Front(trail)) \in L /\ Last(Front(trail)) # leaf
    <3>1. Last(Front(trail)) \in L
      BY <1>3, <2>3, TrailFacts
    <3> QED
      BY <1>2, <2>3, <3>1
  <2>5. \A i \in L : i # leaf => pages'[i] = pages[i]
    BY <1>6, <1>8
  <2>6. Trail(pages', lv, L, root_id', Front(trail))
    <3>1. \A i \in L : lv[i] > lv[Last(Front(trail))] => pages'[i] = pages[i]
      <4>1. \A i \in L : lv[i] > lv[Last(Front(trail))] => i # leaf
        BY <1>2, <2>3
      <4> QED
        BY <2>5, <4>1
    <3>2. L \subseteq L /\ \A i \in L : lv[i] = lv[i]
      OBVIOUS
    <3> QED
      BY <1>1, <1>3, <2>3, <3>1, <3>2, TrailKept
  <2>7. leaf \in Kids(pages'[Last(Front(trail))])
    BY <2>3, <2>4, <2>5
  <2>8. op'.pc = "underfull" /\ op'.trail = Front(trail) /\ op'.id = leaf
    BY <1>8 DEF Underfull
  <2>9. CallAt(pages', lv, L, root_id', op')
    BY <1>2, <2>3, <2>6, <2>7, <2>8 DEF CallAt
  <2>10. reply'.out \in Outs /\ reopens' \in 0..MaxReopens
    BY <1>1, <1>8 DEF TreeTyped
  <2> QED
    BY <2>1, <2>9, <2>10 DEF TreeTyped
<1> QED
  BY <1>1, <1>5, <1>7, <1>8

-----------------------------------------------------------------------------
(* Splits. *)

\* Two pages are written in any order.
LEMMA WithSwap ==
    ASSUME NEW P, NEW i, NEW j, NEW a, NEW b, i # j
    PROVE  With(With(P, i, a), j, b) = With(With(P, j, b), i, a)
<1> DEFINE A == With(With(P, i, a), j, b)
           B == With(With(P, j, b), i, a)
           D == DOMAIN P \cup {i, j}
<1>1. DOMAIN With(P, i, a) = DOMAIN P \cup {i} /\ DOMAIN With(P, j, b) = DOMAIN P \cup {j}
  BY DEF With
<1>2. /\ A = [k \in D |-> IF k = j THEN b ELSE With(P, i, a)[k]]
      /\ B = [k \in D |-> IF k = i THEN a ELSE With(P, j, b)[k]]
  <2>1. DOMAIN With(P, i, a) \cup {j} = D /\ DOMAIN With(P, j, b) \cup {i} = D
    BY <1>1
  <2>2. /\ A = [k \in DOMAIN With(P, i, a) \cup {j} |-> IF k = j THEN b ELSE With(P, i, a)[k]]
        /\ B = [k \in DOMAIN With(P, j, b) \cup {i} |-> IF k = i THEN a ELSE With(P, j, b)[k]]
    BY DEF With
  <2> QED
    BY <2>1, <2>2
<1>3. ASSUME NEW k \in D
      PROVE  (IF k = j THEN b ELSE With(P, i, a)[k]) = (IF k = i THEN a ELSE With(P, j, b)[k])
  <2>1. CASE k = j
    BY <2>1, WithIs
  <2>2. CASE k = i
    BY <2>2, WithIs
  <2>3. CASE k # i /\ k # j
    <3>1. k \in DOMAIN P
      BY <2>3
    <3> QED
      BY <2>3, <3>1, WithIs
  <2> QED
    BY <2>1, <2>2, <2>3
<1> QED
  BY <1>2, <1>3

\* The halves of a split page are pages.
LEMMA HalvesTyped ==
    ASSUME NEW V, NEW W, NEW p \in PagesOf(V, W), Len(p.cells) = ORDER, NEW right, NEW X,
           W \subseteq X, IF IsLeafLevel(p) THEN right \in X ELSE V \subseteq X
    PROVE  /\ Separator(p) \in CellsOf(V)
           /\ LeftHalf(p, right) \in PagesOf(V, X) /\ LeftHalf(p, right).kind = HalfKind(p)
           /\ RightHalf(p) \in PagesOf(V, X) /\ RightHalf(p).kind = HalfKind(p)
  BY HalvesAre, SMTT(60)

\* The halves of a split page at its level, in a file with one more page.
LEMMA HalvesAt ==
    ASSUME NEW lv, NEW mv, NEW S, NEW N \in Nat, NEW n \in Nat, NEW p, PageAt(p, n, lv, S, Ids(N)),
           Len(p.cells) = ORDER, \A i \in S : mv[i] = lv[i]
    PROVE  /\ PageAt(LeftHalf(p, N), n, mv, S, Ids(N + 1)) /\ LeftHalf(p, N).kind # "Root"
           /\ PageAt(RightHalf(p), n, mv, S, Ids(N + 1)) /\ RightHalf(p).kind # "Root"
           /\ Separator(p).key \in Keys
<1> DEFINE V == Vals(lv, S, n)
           W == Ptrs(lv, S, n, Ids(N))
           X == Ptrs(lv, S, n, Ids(N + 1))
           l == LeftHalf(p, N)
           r == RightHalf(p)
<1>1. p \in PagesOf(V, W) /\ (IsLeafLevel(p) <=> n = 0)
  BY DEF PageAt
<1>2. Ids(N + 1) = Ids(N) \cup {N}
  BY NextNumber
<1>3. W \subseteq X /\ IF IsLeafLevel(p) THEN N \in X ELSE V \subseteq X
  BY <1>1, <1>2 DEF Vals, Ptrs
<1>4. /\ Separator(p) \in CellsOf(V)
      /\ l \in PagesOf(V, X) /\ l.kind = HalfKind(p)
      /\ r \in PagesOf(V, X) /\ r.kind = HalfKind(p)
  <2> HIDE DEF V, W, X
  <2> QED
    BY <1>1, <1>3, HalvesTyped
<1>5. HalfKind(p) = IF n = 0 THEN "Leaf" ELSE "Internal"
  BY <1>1 DEF HalfKind
<1> HIDE DEF l, r
<1>6. PageAt(l, n, lv, S, Ids(N + 1)) /\ PageAt(r, n, lv, S, Ids(N + 1))
  BY <1>4, <1>5 DEF PageAt, IsLeafLevel
<1>7. PageAt(l, n, mv, S, Ids(N + 1)) /\ PageAt(r, n, mv, S, Ids(N + 1))
  BY <1>6, PageStays
<1>8. Separator(p).key \in Keys
  <2> HIDE DEF V
  <2> QED
    BY <1>4 DEF CellsOf
<1> QED
  BY <1>4, <1>5, <1>7, <1>8 DEF l, r

\* What a split writes, with a parent that gets the promoted key.
SplitPages(P, id, right, parent) ==
    LET p == P[id]
        halves == With(With(P, right, RightHalf(p)), id, LeftHalf(p, right))
    IN  With(halves, parent, AddCell(Repoint(P[parent], id, right), Separator(p).key, id).page)

\* A split below the root keeps every page at its level, the new one at that of the other half.
LEMMA SplitShape ==
    ASSUME NEW P, NEW N, NEW lv, NEW L, NEW root, Shape(P, N, lv, L, root),
           NEW id \in L, NEW parent \in L, lv[parent] = lv[id] + 1, Len(P[id].cells) = ORDER
    PROVE  /\ Shape(SplitPages(P, id, N, parent), N + 1, [lv EXCEPT ![N] = lv[id]], L \cup {N}, root)
           /\ \A i \in L : [lv EXCEPT ![N] = lv[id]][i] = lv[i]
           /\ \A i \in L : i # id /\ i # parent => SplitPages(P, id, N, parent)[i] = P[i]
           /\ LET added == AddCell(Repoint(P[parent], id, N), Separator(P[id]).key, id)
              IN  /\ SplitPages(P, id, N, parent)[parent] = added.page /\ added.ok \in BOOLEAN
                  /\ Len(added.page.cells) \in Nat /\ Len(added.page.cells) <= ORDER
<1> DEFINE p == P[id]
           n == lv[id]
           m == lv[parent]
           mv == [lv EXCEPT ![N] = n]
           M == L \cup {N}
           l == LeftHalf(p, N)
           r == RightHalf(p)
           P1 == With(P, N, r)
           P2 == With(P1, id, l)
           added == AddCell(Repoint(P[parent], id, N), Separator(p).key, id)
           P3 == With(P2, parent, added.page)
<1>1. /\ N \in Nat /\ DOMAIN P = Ids(N) /\ L \subseteq Ids(N) /\ root \in L /\ N \notin Ids(N)
      /\ n \in Nat /\ m \in Nat /\ PageAt(p, n, lv, L, Ids(N)) /\ PageAt(P[parent], m, lv, L, Ids(N))
      /\ lv[root] \in Nat /\ m <= lv[root] /\ N + 1 \in Nat /\ Ids(N + 1) = Ids(N) \cup {N}
      /\ lv \in [Nat -> Nat] /\ L \subseteq Nat
      /\ P[parent].kind = "Root" <=> parent = root
      /\ n = lv[root] => id = root
  <2>1. lv \in [Nat -> Nat]
    BY DEF Shape, Levels
  <2>2. N \in Nat /\ DOMAIN P = Ids(N) /\ L \subseteq Ids(N) /\ root \in L
    BY ShapeFacts
  <2>3. /\ lv[id] \in Nat /\ PageAt(P[id], lv[id], lv, L, Ids(N))
        /\ lv[id] = lv[root] => id = root
    BY ShapeFacts
  <2>4. /\ lv[parent] \in Nat /\ PageAt(P[parent], lv[parent], lv, L, Ids(N))
        /\ P[parent].kind = "Root" <=> parent = root
        /\ lv[parent] <= lv[root] /\ lv[root] \in Nat
    BY <2>2, ShapeFacts
  <2>5. N \notin Ids(N) /\ N + 1 \in Nat /\ Ids(N + 1) = Ids(N) \cup {N} /\ Ids(N) \subseteq Nat
    BY <2>2, NextNumber, NumbersNat
  <2> QED
    BY <2>1, <2>2, <2>3, <2>4, <2>5
<1>2. SplitPages(P, id, N, parent) = P3
  BY DEF SplitPages
<1>3. id # parent /\ id # N /\ parent # N /\ N \notin L /\ id # root /\ m = n + 1
  <2>1. N \notin L /\ id # N /\ parent # N
    BY <1>1
  <2>2. m = n + 1
    OBVIOUS
  <2>3. n # m /\ n # lv[root]
    <3>1. n \in Nat /\ m \in Nat /\ lv[root] \in Nat /\ m <= lv[root]
      BY <1>1
    <3> HIDE DEF n, m
    <3> QED
      BY <2>2, <3>1
  <2> QED
    BY <2>1, <2>2, <2>3
<1>4. mv \in [Nat -> Nat] /\ mv[N] = n /\ (\A i \in L : mv[i] = lv[i]) /\ \A i \in Ids(N) : mv[i] = lv[i]
  <2>1. \A i \in Ids(N) : i # N /\ i \in Nat
    BY <1>1, NumbersNat
  <2> HIDE DEF n
  <2> QED
    BY <1>1, <2>1
<1> HIDE DEF mv
<1>5. /\ PageAt(l, n, mv, L, Ids(N + 1)) /\ l.kind # "Root"
      /\ PageAt(r, n, mv, L, Ids(N + 1)) /\ r.kind # "Root"
      /\ Separator(p).key \in Keys
  <2>1. Len(p.cells) = ORDER
    OBVIOUS
  <2> HIDE DEF n, p
  <2> QED
    <3>1. N \in Nat /\ n \in Nat /\ PageAt(p, n, lv, L, Ids(N)) /\ \A i \in L : mv[i] = lv[i]
      BY <1>1, <1>4
    <3> QED
      BY <2>1, <3>1, HalvesAt
<1>6. Shape(P1, N + 1, mv, L, root)
  <2>1. PageAt(r, n, lv, L, Ids(N + 1))
    <3>1. L \subseteq L /\ Ids(N + 1) \subseteq Ids(N + 1) /\ \A i \in L : lv[i] = mv[i]
      BY <1>4
    <3>2. PageAt(r, n, mv, L, Ids(N + 1)) /\ n \in Nat
      BY <1>1, <1>5
    <3> HIDE DEF r, n
    <3> QED
      BY <3>1, <3>2, PageStays
  <2>2. PageAt(r, n, lv, Ids(N), Ids(N + 1))
    <3>1. Ids(N + 1) \subseteq Ids(N + 1) /\ \A i \in L : lv[i] = lv[i]
      OBVIOUS
    <3> HIDE DEF r, n
    <3> QED
      BY <1>1, <2>1, <3>1, PageStays
  <2> HIDE DEF r, n
  <2> QED
    BY <1>1, <2>2, ShapeNew DEF mv
<1>7. /\ P1[N] = r /\ \A i \in Ids(N) : P1[i] = P[i]
  <2>1. P1[N] = r /\ \A i \in DOMAIN P : i # N => P1[i] = P[i]
    BY WithIs
  <2> HIDE DEF P1, r
  <2> QED
    BY <1>1, <2>1
<1> HIDE DEF P1, l, r
<1>8. Shape(P1, N + 1, mv, M, root)
  <2>1. mv[N] < mv[root]
    BY <1>1, <1>3, <1>4
  <2>2. N \in Ids(N + 1)
    BY <1>1
  <2>3. PageAt(P1[N], mv[N], mv, L, Ids(N + 1)) /\ P1[N].kind # "Root"
    BY <1>4, <1>5, <1>7
  <2> HIDE DEF M
  <2> QED
    BY <1>6, <2>1, <2>2, <2>3, ShapeAdopt DEF M
<1>9. Shape(P2, N + 1, mv, M, root)
  <2>1. PageAt(l, mv[id], mv, M, Ids(N + 1))
    <3>1. L \subseteq M /\ Ids(N + 1) \subseteq Ids(N + 1) /\ mv[id] = n /\ \A i \in L : mv[i] = mv[i]
      BY <1>4
    <3> HIDE DEF M, n
    <3> QED
      BY <1>1, <1>5, <3>1, PageStays
  <2>2. id \in M /\ (l.kind = "Root" <=> id = root)
    BY <1>3, <1>5
  <2> HIDE DEF M
  <2> QED
    BY <1>8, <2>1, <2>2, ShapeWrite
<1>10. DOMAIN P1 = Ids(N + 1)
  BY <1>6, ShapeFacts
<1>11. P2[id] = l /\ \A i \in Ids(N + 1) : i # id => P2[i] = P1[i]
  BY <1>10, WithIs
<1> HIDE DEF P2
<1> DEFINE V == Below(mv, M, m)
<1>12. P[parent] \in PagesOf(V, V)
  <2>1. PageAt(P[parent], m, mv, M, Ids(N))
    <3>1. L \subseteq M /\ Ids(N) \subseteq Ids(N) /\ \A i \in L : mv[i] = lv[i]
      BY <1>4
    <3>2. PageAt(P[parent], m, lv, L, Ids(N)) /\ m \in Nat
      BY <1>1
    <3> HIDE DEF M, m
    <3> QED
      BY <3>1, <3>2, PageStays
  <2>2. m # 0
    BY <1>1, <1>3
  <2> HIDE DEF M, m
  <2>3. P[parent] \in PagesOf(Vals(mv, M, m), Ptrs(mv, M, m, Ids(N)))
    BY <1>1, <2>1, PageAtFacts
  <2> QED
    BY <2>2, <2>3 DEF Vals, Ptrs
<1>13. N \in V /\ id \in V
  <2>1. mv[N] = m - 1 /\ mv[id] = m - 1
    <3>1. mv[N] = n /\ mv[id] = n /\ m = n + 1 /\ n \in Nat
      BY <1>1, <1>3, <1>4
    <3> HIDE DEF n, m
    <3> QED
      BY <3>1
  <2> HIDE DEF m
  <2> QED
    BY <2>1 DEF Below
<1> DEFINE q == Repoint(P[parent], id, N)
<1>14. q \in PagesOf(V, V) /\ q.kind = P[parent].kind /\ q.root_leaf = P[parent].root_leaf
  <2> HIDE DEF V
  <2> QED
    BY <1>12, <1>13, RepointIs
<1>15. /\ added.page \in PagesOf(V, V) /\ added.ok \in BOOLEAN
       /\ added.page.kind = P[parent].kind /\ added.page.root_leaf = P[parent].root_leaf
  <2> HIDE DEF V, q, p
  <2>1. /\ added.page \in PagesOf(V, V) /\ added.ok \in BOOLEAN
        /\ ~added.ok => added.page = q
        /\ added.ok => Added(q, Separator(p).key, id, added.page)
    BY <1>5, <1>13, <1>14, AddCellIs DEF q
  <2> HIDE DEF added
  <2> QED
    BY <1>14, <2>1 DEF Added
<1> HIDE DEF added, q
<1>16. PageAt(added.page, mv[parent], mv, M, Ids(N + 1))
  <2>1. mv[parent] = m /\ m # 0
    BY <1>1, <1>3, <1>4
  <2>2. IsLeafLevel(added.page) <=> IsLeafLevel(P[parent])
    BY <1>15 DEF IsLeafLevel
  <2>3. ~IsLeafLevel(P[parent])
    BY <1>1, <2>1 DEF PageAt
  <2> HIDE DEF m, M
  <2> QED
    BY <1>15, <2>1, <2>2, <2>3 DEF PageAt, Vals, Ptrs
<1>17. Shape(P3, N + 1, mv, M, root)
  <2>1. parent \in M /\ (added.page.kind = "Root" <=> parent = root)
    BY <1>1, <1>15
  <2> HIDE DEF M
  <2> QED
    BY <1>9, <1>16, <2>1, ShapeWrite
<1>18. P3[parent] = added.page /\ \A i \in L : i # id /\ i # parent => P3[i] = P[i]
  <2>1. DOMAIN P2 = Ids(N + 1)
    BY <1>9, ShapeFacts
  <2>2. P3[parent] = added.page /\ \A i \in Ids(N + 1) : i # parent => P3[i] = P2[i]
    BY <2>1, WithIs
  <2> HIDE DEF P3
  <2>3. \A i \in L : i \in Ids(N) /\ i \in Ids(N + 1)
    BY <1>1
  <2> QED
    BY <1>7, <1>11, <2>2, <2>3
<1>19. Len(added.page.cells) \in Nat /\ Len(added.page.cells) <= ORDER
  <2> HIDE DEF V
  <2> QED
    BY <1>15, PageFacts, ListFacts
<1> HIDE DEF P3
<1> QED
  BY <1>2, <1>4, <1>15, <1>17, <1>18, <1>19 DEF mv, added, q

\* A root over the two halves of the one that was split, and what that writes.
OverRoot(key, id, right) ==
    [NewPage("Root") EXCEPT !.ptr = right, !.cells = <<[key |-> key, val |-> id]>>]
SplitRoot(P, id, right) ==
    LET p == P[id]
        halves == With(With(P, right, RightHalf(p)), id, LeftHalf(p, right))
    IN  With(halves, right + 1, OverRoot(Separator(p).key, id, right))

\* The new root is a page over the two halves.
LEMMA OverRootIs ==
    ASSUME NEW V, NEW key \in Keys, NEW id \in V, NEW right \in V
    PROVE  /\ OverRoot(key, id, right) \in PagesOf(V, V) /\ OverRoot(key, id, right).kind = "Root"
           /\ OverRoot(key, id, right).root_leaf = FALSE
<1> DEFINE p == OverRoot(key, id, right)
           c == <<[key |-> key, val |-> id]>>
<1>1. p.kind = "Root" /\ p.root_leaf = FALSE /\ p.cells = c /\ p.ptr = right
  BY DEF OverRoot, NewPage
<1>2. c \in Lists(V)
  <2>1. [key |-> key, val |-> id] \in CellsOf(V)
    BY DEF CellsOf
  <2>2. c \in Seq(CellsOf(V)) /\ Len(c) = 1
    BY <2>1
  <2>3. 1 <= ORDER
    BY Constants
  <2> HIDE DEF c
  <2>4. InOrder(c)
    BY <2>2 DEF InOrder
  <2> QED
    BY <2>2, <2>3, <2>4 DEF Lists
<1>3. p \in [kind : PageKind, root_leaf : BOOLEAN, cells : Lists(V), ptr : V]
  BY <1>2 DEF OverRoot, NewPage, PageKind
<1> HIDE DEF p
<1>4. p \in PagesOf(V, V)
  BY <1>1, <1>3 DEF PagesOf
<1> QED
  BY <1>1, <1>4 DEF p

\* A split of the root raises the tree by a level.
LEMMA SplitRootShape ==
    ASSUME NEW P, NEW N, NEW lv, NEW L, NEW root, Shape(P, N, lv, L, root), Len(P[root].cells) = ORDER
    PROVE  Shape(SplitRoot(P, root, N), N + 2,
                 [[lv EXCEPT ![N] = lv[root]] EXCEPT ![N + 1] = lv[root] + 1], L \cup {N, N + 1}, N + 1)
<1> DEFINE p == P[root]
           n == lv[root]
           N1 == N + 1
           N2 == N + 2
           mv == [lv EXCEPT ![N] = n]
           nv == [mv EXCEPT ![N1] = n + 1]
           l == LeftHalf(p, N)
           r == RightHalf(p)
           top == OverRoot(Separator(p).key, root, N)
           P1 == With(P, N, r)
           P2 == With(P1, N1, top)
<1>1. /\ N \in Nat /\ DOMAIN P = Ids(N) /\ L \subseteq Ids(N) /\ root \in L /\ n \in Nat /\ n < N
      /\ PageAt(p, n, lv, L, Ids(N)) /\ Len(p.cells) = ORDER /\ lv \in [Nat -> Nat]
  <2>1. lv \in [Nat -> Nat]
    BY DEF Shape, Levels
  <2> QED
    BY <2>1, ShapeFacts
<1>a. Len(p.cells) = ORDER /\ n \in Nat /\ n + 1 \in Nat /\ n + 1 # 0 /\ n + 1 - 1 = n /\ n + 1 < N2
  <2>1. n \in Nat /\ n < N /\ N \in Nat
    BY <1>1
  <2> HIDE DEF n
  <2> QED
    BY <2>1
<1> HIDE DEF n
<1>2. /\ N1 \in Nat /\ N \notin Ids(N) /\ Ids(N1) = Ids(N) \cup {N} /\ Ids(N) \subseteq Nat
      /\ N1 \notin Ids(N1) /\ Ids(N2) = Ids(N1) \cup {N1} /\ N2 \in Nat /\ N1 + 1 = N2
  <2>1. N1 \in Nat /\ N \notin Ids(N) /\ Ids(N1) = Ids(N) \cup {N} /\ Ids(N) \subseteq Nat
    BY <1>1, NextNumber, NumbersNat
  <2>2. N1 + 1 \in Nat /\ N1 \notin Ids(N1) /\ Ids(N1 + 1) = Ids(N1) \cup {N1}
    BY <2>1, NextNumber
  <2>3. N1 + 1 = N2
    BY <1>1
  <2> HIDE DEF N1, N2
  <2> QED
    BY <2>1, <2>2, <2>3
<1>3. mv \in [Nat -> Nat] /\ mv[N] = n /\ \A i \in Ids(N) : mv[i] = lv[i]
  <2> HIDE DEF n
  <2> QED
    BY <1>1, <1>2
<1>4. nv \in [Nat -> Nat] /\ nv[N1] = n + 1 /\ \A i \in Ids(N1) : nv[i] = mv[i]
  <2>1. n + 1 \in Nat
    BY <1>a
  <2>2. \A i \in Ids(N1) : i # N1 /\ i \in Nat
    BY <1>1, <1>2
  <2> HIDE DEF n, N1, mv
  <2> QED
    BY <1>2, <1>3, <2>1, <2>2
<1> HIDE DEF mv, nv
<1>5. /\ root \in Ids(N) /\ root \in Ids(N1) /\ root # N /\ root # N1 /\ N # N1 /\ N \in Ids(N1)
      /\ nv[N] = n /\ nv[root] = n /\ \A i \in L : nv[i] = lv[i]
  <2>1. root \in Ids(N) /\ root \in Ids(N1) /\ N \in Ids(N1)
    BY <1>1, <1>2
  <2>2. root # N /\ root # N1 /\ N # N1
    <3> HIDE DEF N1
    <3> QED
      BY <1>2, <2>1
  <2>3. nv[N] = n /\ nv[root] = n
    <3>1. mv[root] = n
      BY <1>3, <2>1 DEF n
    <3> HIDE DEF N1
    <3> QED
      BY <1>3, <1>4, <2>1, <3>1
  <2>4. \A i \in L : nv[i] = lv[i]
    <3>1. \A i \in L : i \in Ids(N) /\ i \in Ids(N1)
      BY <1>1, <1>2
    <3> HIDE DEF N1
    <3> QED
      BY <1>3, <1>4, <3>1
  <2> QED
    BY <2>1, <2>2, <2>3, <2>4
<1>6. /\ PageAt(l, n, mv, L, Ids(N1)) /\ l.kind # "Root"
      /\ PageAt(r, n, mv, L, Ids(N1)) /\ r.kind # "Root"
      /\ Separator(p).key \in Keys
  <2>1. \A i \in L : mv[i] = lv[i]
    BY <1>1, <1>3
  <2> HIDE DEF n, p
  <2> QED
    <3>1. N \in Nat /\ n \in Nat /\ PageAt(p, n, lv, L, Ids(N)) /\ \A i \in L : mv[i] = lv[i]
      BY <1>1, <2>1
    <3>3. Len(p.cells) = ORDER
      BY <1>a
    <3> HIDE DEF l, r, P1, P2, top, N1, N2
    <3>2. /\ PageAt(LeftHalf(p, N), n, mv, L, Ids(N + 1)) /\ LeftHalf(p, N).kind # "Root"
          /\ PageAt(RightHalf(p), n, mv, L, Ids(N + 1)) /\ RightHalf(p).kind # "Root"
          /\ Separator(p).key \in Keys
      BY SMTT(20), <3>3, <3>1, HalvesAt
    <3> QED
      BY <3>2 DEF l, r, N1
<1> HIDE DEF l, r
<1>7. Shape(P1, N1, mv, L, root)
  <2>1. PageAt(r, n, lv, Ids(N), Ids(N1))
    <3>1. L \subseteq Ids(N) /\ Ids(N1) \subseteq Ids(N1) /\ \A i \in L : lv[i] = mv[i]
      BY <1>1, <1>3
    <3>2. PageAt(r, n, mv, L, Ids(N1)) /\ n \in Nat
      BY <1>1, <1>6
    <3> HIDE DEF n, N1
    <3> QED
      BY <3>1, <3>2, PageStays
  <2> HIDE DEF n
  <2> QED
    BY <1>1, <2>1, ShapeNew DEF mv
<1>8. P1[N] = r /\ (\A i \in Ids(N) : P1[i] = P[i]) /\ DOMAIN P1 = Ids(N1)
  <2>1. P1[N] = r /\ \A i \in DOMAIN P : i # N => P1[i] = P[i]
    BY WithIs
  <2>2. DOMAIN P1 = Ids(N1)
    BY <1>7, ShapeFacts
  <2> HIDE DEF P1
  <2> QED
    BY <1>1, <1>2, <2>1, <2>2
<1> HIDE DEF P1
<1> HIDE DEF top
<1>9. top \in PagesOf({root, N}, {root, N}) /\ top.kind = "Root" /\ top.root_leaf = FALSE
  <2> HIDE DEF p
  <2> DEFINE V == {root, N}
             key == Separator(p).key
  <2>1. root \in V /\ N \in V /\ key \in Keys
    BY <1>6
  <2>2. top = OverRoot(key, root, N)
    BY DEF top
  <2> HIDE DEF V, key, top
  <2>3. top \in PagesOf(V, V) /\ top.kind = "Root" /\ top.root_leaf = FALSE
    BY <2>1, <2>2, OverRootIs
  <2> QED
    BY <2>3 DEF V
<1>10. ASSUME NEW v, NEW S, root \in S, N \in S, v[root] = n, v[N] = n
       PROVE  PageAt(top, n + 1, v, S, Ids(N2))
  <2>1. n + 1 # 0 /\ n + 1 - 1 = n /\ n + 1 \in Nat /\ n \in Nat
    BY <1>a
  <2> HIDE DEF n
  <2>2. {root, N} \subseteq Below(v, S, n + 1)
    <3>1. PICK m \in Nat : m = n + 1
      BY <2>1
    <3>0. m - 1 = n
      BY <2>1, <3>1
    <3>2. v[root] = m - 1 /\ v[N] = m - 1 /\ root \in S /\ N \in S
      BY <1>10, <3>0
    <3>3. root \in Below(v, S, m) /\ N \in Below(v, S, m)
      BY <3>2 DEF Below
    <3> QED
      BY <3>1, <3>3
  <2>3. top \in PagesOf(Below(v, S, n + 1), Below(v, S, n + 1))
    BY <1>9, <2>2, MorePages
  <2> QED
    BY <1>9, <2>1, <2>3 DEF PageAt, IsLeafLevel, Vals, Ptrs
<1>11. Shape(P2, N2, nv, L, root)
  <2>1. PageAt(top, n + 1, mv, Ids(N1), Ids(N1 + 1))
    <3>1. mv[root] = n /\ mv[N] = n
      BY <1>3, <1>5 DEF n
    <3> HIDE DEF n
    <3> QED
      BY <1>2, <1>5, <1>10, <3>1
  <2>2. n + 1 \in Nat
    BY <1>a
  <2> HIDE DEF n, N1
  <2>3. Shape(P2, N1 + 1, nv, L, root)
    BY <1>7, <2>1, <2>2, ShapeNew DEF nv
  <2> QED
    BY <1>2, <2>3
<1>12. P2[N1] = top /\ P2[N] = r /\ \A i \in Ids(N) : P2[i] = P[i]
  <2>1. P2[N1] = top /\ \A i \in DOMAIN P1 : i # N1 => P2[i] = P1[i]
    BY WithIs
  <2> HIDE DEF P2, N1
  <2>2. \A i \in Ids(N) : i \in Ids(N1) /\ i # N1
    BY <1>2
  <2> QED
    BY <1>5, <1>8, <2>1, <2>2
<1> HIDE DEF P2
<1>13. Shape(With(P2, root, l), N2, nv, L \cup {N, N1}, N1)
  <2> DEFINE K == L \cup {N}
  <2>1. N \in Ids(N2) /\ N1 \in Ids(N2) /\ N \notin L /\ N1 \notin L
    BY <1>1, <1>2, <1>5
  <2>2. nv[N] = nv[root] /\ nv[N1] = nv[root] + 1 /\ nv[N1] < N2
    <3>1. n + 1 < N2
      BY <1>a
    <3> QED
      BY <1>4, <1>5, <3>1
  <2>3. L \subseteq K /\ Ids(N1) \subseteq Ids(N2) /\ \A i \in L : nv[i] = mv[i]
    BY <1>1, <1>2, <1>3, <1>5
  <2>4. n \in Nat
    BY <1>1
  <2>5. PageAt(r, n, nv, K, Ids(N2)) /\ PageAt(l, n, nv, K, Ids(N2))
    <3> HIDE DEF n, N1, N2, K
    <3> QED
      BY <1>6, <2>3, <2>4, PageStays
  <2>6. PageAt(top, n + 1, nv, K, Ids(N2))
    <3>1. root \in K /\ N \in K
      BY <1>1
    <3> HIDE DEF n, N1, N2, K
    <3> QED
      BY <1>5, <1>10, <3>1
  <2>7. /\ P2[N].kind # "Root" /\ P2[N1].kind = "Root"
        /\ PageAt(P2[N], nv[N], nv, K, Ids(N2)) /\ PageAt(P2[N1], nv[N1], nv, K, Ids(N2))
        /\ PageAt(l, nv[root], nv, K, Ids(N2))
    <3> HIDE DEF n, N1, N2, K
    <3> QED
      BY <1>4, <1>5, <1>6, <1>9, <1>12, <2>5, <2>6
  <2> HIDE DEF N1, N2
  <2> QED
    BY <1>6, <1>11, <2>1, <2>2, <2>7, ShapeTop
<1>14. With(P2, root, l) = With(With(P1, root, l), N1, top)
  <2> HIDE DEF N1
  <2> QED
    BY <1>5, WithSwap DEF P2
<1>15. SplitRoot(P, root, N) = With(With(P1, root, l), N1, top)
  BY DEF SplitRoot, P1, l, r, top
<1>16. L \cup {N, N + 1} = L \cup {N, N1} /\ nv = [[lv EXCEPT ![N] = lv[root]] EXCEPT ![N + 1] = lv[root] + 1]
  BY DEF nv, mv, n
<1> HIDE DEF nv
<1> QED
  BY <1>13, <1>14, <1>15, <1>16

\* What handle_overfull does to the page of the last id of the trail, which has ORDER cells.
OverfullSplits(N) ==
    LET id == Last(op.trail)
        up == Front(op.trail)
        parent == Last(up)
        added == AddCell(Repoint(pages[parent], id, N), Separator(pages[id]).key, id)
    IN  \/ /\ up # <<>>
           /\ pages' = SplitPages(pages, id, N, parent)
           /\ CASE ~added.ok -> Answer(op.req, "error")
                [] added.ok /\ Len(added.page.cells) >= ORDER -> op' = Overfull(op.req, up) /\ UNCHANGED reply
                [] added.ok /\ Len(added.page.cells) < ORDER -> Answer(op.req, "ok")
           /\ UNCHANGED root_id
        \/ /\ up = <<>>
           /\ pages' = SplitRoot(pages, id, N)
           /\ root_id' = N + 1
           /\ Answer(op.req, "ok")

\* handle_overfull is this.
LEMMA OverfullIs ==
    ASSUME NEW N, NextId = N, HandleOverfull, Len(pages[Last(op.trail)].cells) = ORDER
    PROVE  OverfullSplits(N) /\ UNCHANGED reopens
<1> DEFINE id == Last(op.trail)
           up == Front(op.trail)
           p == pages[id]
           parent == Last(up)
           Does(split, right) ==
               LET promote == p.cells[split + 1]
                   kind == HalfKind(p)
                   left_page == Rebuild(p, kind, SubSeq(p.cells, 1, split), LeftPtr(p, right, promote)).page
                   right_page == Rebuild(NewPage(kind), kind, RightCells(p, split), p.ptr).page
                   halves == With(With(pages, right, right_page), id, left_page)
                   added == AddCell(Repoint(pages[parent], id, right), promote.key, id)
                   root == [NewPage("Root") EXCEPT !.ptr = right, !.cells = <<[key |-> promote.key, val |-> id]>>]
               IN  \/ /\ up # <<>>
                      /\ pages' = With(halves, parent, added.page)
                      /\ CASE ~added.ok -> Answer(op.req, "error")
                           [] added.ok /\ Len(added.page.cells) >= ORDER ->
                                  op' = Overfull(op.req, up) /\ UNCHANGED reply
                           [] added.ok /\ Len(added.page.cells) < ORDER -> Answer(op.req, "ok")
                      /\ UNCHANGED root_id
                   \/ /\ up = <<>>
                      /\ pages' = With(halves, right + 1, root)
                      /\ root_id' = right + 1
                      /\ Answer(op.req, "ok")
<1>1. Does((Len(p.cells) + 1) \div 2, NextId) /\ UNCHANGED reopens
  BY Zenon DEF HandleOverfull
<1>2. (Len(p.cells) + 1) \div 2 = DEGREE
  BY DEF DEGREE
<1> HIDE DEF Does
<1>3. Does(DEGREE, N)
  BY <1>1, <1>2
<1> QED
  BY <1>1, <1>3, Zenon DEF Does, OverfullSplits, SplitPages, SplitRoot, OverRoot, LeftHalf, RightHalf, Separator

\* A root above the one that was split is one level higher.
TopLevel(mv, lv) == mv[root_id'] = IF root_id' = root_id THEN lv[root_id] ELSE lv[root_id] + 1

\* handle_overfull keeps the shape.
LEMMA TypedOverfull ==
    ASSUME NEW N, NEW lv, NEW L, TreeTyped(N, lv, L), HandleOverfull
    PROVE  \E M, mv, K : TreeTyped(M, mv, K)' /\ TopLevel(mv, lv)
<1> DEFINE t == op.trail
           id == Last(t)
           up == Front(t)
           parent == Last(up)
<1>1. /\ op.pc = "overfull" /\ Trail(pages, lv, L, root_id, t) /\ Len(pages[id].cells) = ORDER
      /\ Shape(pages, N, lv, L, root_id) /\ reply.out \in Outs /\ reopens \in 0..MaxReopens
  <2>1. op.pc = "overfull"
    BY DEF HandleOverfull
  <2> QED
    BY <2>1 DEF TreeTyped, CallAt, Idle
<1>2. OverfullSplits(N) /\ reopens' = reopens
  BY <1>1, OverfullIs, TypedNext
<1>3. id \in L /\ (up = <<>> <=> Len(t) = 1) /\ (id = root_id <=> Len(t) = 1)
  BY <1>1, TrailFacts
<1>4. \A out \in {"error", "ok"} : Answer(op.req, out) => op' = Idle /\ reply'.out \in Outs
  BY DEF Answer, Outs
<1>5. ASSUME up # <<>>, pages' = SplitPages(pages, id, N, parent), root_id' = root_id,
             LET added == AddCell(Repoint(pages[parent], id, N), Separator(pages[id]).key, id)
             IN  CASE ~added.ok -> Answer(op.req, "error")
                   [] added.ok /\ Len(added.page.cells) >= ORDER -> op' = Overfull(op.req, up) /\ UNCHANGED reply
                   [] added.ok /\ Len(added.page.cells) < ORDER -> Answer(op.req, "ok")
      PROVE  \E M, mv, K : TreeTyped(M, mv, K)' /\ TopLevel(mv, lv)
  <2>0. PICK n \in Nat : n = lv[id]
    BY <1>1, <1>3, ShapeFacts
  <2> DEFINE mv == [lv EXCEPT ![N] = n]
             K == L \cup {N}
             added == AddCell(Repoint(pages[parent], id, N), Separator(pages[id]).key, id)
  <2> HIDE DEF t, id, up, parent
  <2>1. Trail(pages, lv, L, root_id, up) /\ lv[parent] = lv[id] + 1
    BY <1>1, <1>5, TrailFront DEF id, up, parent
  <2>2. parent \in L
    BY <1>1, <2>1, TrailFacts DEF parent
  <2>3. /\ Shape(pages', N + 1, mv, K, root_id')
        /\ \A i \in L : mv[i] = lv[i]
        /\ \A i \in L : i # id /\ i # parent => pages'[i] = pages[i]
        /\ pages'[parent] = added.page /\ added.ok \in BOOLEAN
        /\ Len(added.page.cells) \in Nat /\ Len(added.page.cells) <= ORDER
    <3>1. /\ Shape(pages, N, lv, L, root_id) /\ id \in L /\ parent \in L
          /\ lv[parent] = lv[id] + 1 /\ Len(pages[id].cells) = ORDER
      BY <1>1, <1>3, <2>1, <2>2
    <3>2. /\ Shape(SplitPages(pages, id, N, parent), N + 1, [lv EXCEPT ![N] = lv[id]], L \cup {N}, root_id)
          /\ \A i \in L : [lv EXCEPT ![N] = lv[id]][i] = lv[i]
          /\ \A i \in L : i # id /\ i # parent => SplitPages(pages, id, N, parent)[i] = pages[i]
          /\ SplitPages(pages, id, N, parent)[parent] = added.page /\ added.ok \in BOOLEAN
          /\ Len(added.page.cells) \in Nat /\ Len(added.page.cells) <= ORDER
      BY ZenonT(20), <3>1, SplitShape
    <3>3. pages' = SplitPages(pages, id, N, parent) /\ root_id' = root_id
      BY <1>5
    <3> HIDE DEF added
    <3> QED
      BY <2>0, <3>2, <3>3
  <2> HIDE DEF mv, added
  <2>4. Trail(pages', mv, K, root_id', up)
    <3>1. \A i \in L : lv[i] \in Nat
      BY <1>1, ShapeFacts
    <3>2. \A i \in L : lv[i] > lv[Last(up)] => pages'[i] = pages[i]
      BY <1>3, <2>1, <2>2, <2>3, <3>1 DEF parent
    <3>3. L \subseteq K
      OBVIOUS
    <3> HIDE DEF K
    <3> QED
      BY <1>1, <1>5, <2>1, <2>3, <3>2, <3>3, TrailKept
  <2>5. \/ op' = Idle /\ reply'.out \in Outs
        \/ op' = Overfull(op.req, up) /\ reply' = reply /\ Len(added.page.cells) >= ORDER
    <3>1. (CASE ~added.ok -> Answer(op.req, "error")
             [] added.ok /\ Len(added.page.cells) >= ORDER -> op' = Overfull(op.req, up) /\ UNCHANGED reply
             [] added.ok /\ Len(added.page.cells) < ORDER -> Answer(op.req, "ok"))
      BY <1>5 DEF added
    <3>2. ~added.ok \/ (added.ok /\ Len(added.page.cells) >= ORDER) \/ (added.ok /\ Len(added.page.cells) < ORDER)
      BY <2>3, Constants
    <3> QED
      BY <1>4, <3>1, <3>2
  <2>6. CallAt(pages', mv, K, root_id', op')
    <3>1. CASE op' = Idle
      BY <3>1 DEF CallAt
    <3>2. CASE op' = Overfull(op.req, up) /\ Len(added.page.cells) >= ORDER
      <4>1. Len(pages'[Last(up)].cells) = ORDER
        BY <2>3, <3>2, Constants DEF parent
      <4>2. op'.pc = "overfull" /\ op'.trail = up
        BY <3>2 DEF Overfull
      <4> QED
        BY <2>4, <4>1, <4>2 DEF CallAt
    <3> QED
      BY <2>5, <3>1, <3>2
  <2>7. reply'.out \in Outs /\ reopens' \in 0..MaxReopens
    BY <1>1, <1>2, <2>5
  <2> HIDE DEF K
  <2>8. TreeTyped(N + 1, mv, K)'
    BY <2>3, <2>6, <2>7 DEF TreeTyped
  <2>9. TopLevel(mv, lv)
    <3>1. root_id \in L
      BY <1>1, ShapeFacts
    <3>2. mv[root_id] = lv[root_id]
      BY <2>3, <3>1
    <3> QED
      BY <1>5, <3>2 DEF TopLevel
  <2> QED
    BY <2>8, <2>9
<1>6. ASSUME up = <<>>, pages' = SplitRoot(pages, id, N), root_id' = N + 1, Answer(op.req, "ok")
      PROVE  \E M, mv, K : TreeTyped(M, mv, K)' /\ TopLevel(mv, lv)
  <2>0. PICK n \in Nat : n = lv[root_id]
    BY <1>1, ShapeFacts
  <2> DEFINE mv == [[lv EXCEPT ![N] = n] EXCEPT ![N + 1] = n + 1]
             K == L \cup {N, N + 1}
  <2>1. id = root_id
    BY <1>3, <1>6
  <2> HIDE DEF t, id, up, parent
  <2>2. Shape(pages', N + 2, mv, K, root_id')
    <3>1. Shape(pages, N, lv, L, root_id) /\ Len(pages[root_id].cells) = ORDER
      BY <1>1, <2>1
    <3>2. Shape(SplitRoot(pages, root_id, N), N + 2,
                [[lv EXCEPT ![N] = lv[root_id]] EXCEPT ![N + 1] = lv[root_id] + 1], L \cup {N, N + 1}, N + 1)
      BY <3>1, SplitRootShape
    <3>3. pages' = SplitRoot(pages, root_id, N) /\ root_id' = N + 1
      BY <1>6, <2>1
    <3> QED
      BY <2>0, <3>2, <3>3
  <2>3. op' = Idle /\ reply'.out \in Outs
    BY <1>4, <1>6
  <2>5. mv[N + 1] = n + 1
    <3>1. N \in Nat /\ lv \in [Nat -> Nat]
      BY <1>1 DEF Shape, Levels
    <3> QED
      BY <3>1
  <2> HIDE DEF mv, K
  <2>4. TreeTyped(N + 2, mv, K)'
    BY <1>1, <1>2, <2>2, <2>3 DEF TreeTyped, CallAt
  <2>6. root_id' # root_id
    <3>1. N \in Nat /\ root_id \in Ids(N)
      BY <1>1, ShapeFacts
    <3>2. N + 1 # root_id
      BY <3>1 DEF Ids
    <3> QED
      BY <1>6, <3>2
  <2>7. TopLevel(mv, lv)
    BY <1>6, <2>0, <2>5, <2>6 DEF TopLevel
  <2> QED
    BY <2>4, <2>7
<1> QED
  BY <1>2, <1>5, <1>6, Zenon DEF OverfullSplits

-----------------------------------------------------------------------------
(* Borrowing. *)

\* A page's place in its parent, and the pages beside it.
Beside(p, id, s) ==
    /\ s.idx \in 1..Len(p.cells) + 1 /\ Kid(p, s.idx) = id
    /\ s.left = IF s.idx > 1 THEN Kid(p, s.idx - 1) ELSE -1
    /\ s.right = IF s.idx <= Len(p.cells) THEN Kid(p, s.idx + 1) ELSE -1
    /\ s.left # -1 <=> s.idx > 1
    /\ s.right # -1 <=> s.idx <= Len(p.cells)
    /\ s.left # -1 => s.left \in Kids(p)
    /\ s.right # -1 => s.right \in Kids(p)

\* find_siblings returns them.
LEMMA SiblingsAre ==
    ASSUME NEW V, V \subseteq Nat, NEW p \in PagesOf(V, V), NEW id \in Kids(p)
    PROVE  Beside(p, id, Siblings(p, id))
<1> DEFINE ids == ChildIds(p)
           N == Len(p.cells)
           here == {i \in DOMAIN ids : ids[i] = id}
           idx == CHOOSE i \in here : \A j \in here : i <= j
           s == Siblings(p, id)
<1>1. N \in Nat
  BY PageFacts, ListFacts
<1>2. /\ DOMAIN ids = 1..N + 1 /\ Len(ids) = N + 1 /\ \A i \in 1..N + 1 : ids[i] = Kid(p, i)
  BY <1>1 DEF ChildIds, Kid
<1>3. /\ s.idx = idx /\ s.left = (IF idx > 1 THEN ids[idx - 1] ELSE -1)
      /\ s.right = (IF idx < Len(ids) THEN ids[idx + 1] ELSE -1)
  BY DEF Siblings
<1> HIDE DEF ids, s
<1>4. idx \in here
  <2>1. here \in SUBSET Nat /\ here # {}
    <3>1. PICK i \in 1..N + 1 : id = Kid(p, i)
      BY DEF Kids
    <3> QED
      BY <1>1, <1>2, <3>1
  <2> HIDE DEF here
  <2>2. \E i \in here : \A j \in here : i <= j
    BY <2>1, LeastNatural
  <2> QED
    BY <2>2
<1> HIDE DEF idx
<1>5. idx \in 1..N + 1 /\ Kid(p, idx) = id
  BY <1>2, <1>4
<1>6. idx > 1 => idx - 1 \in 1..N + 1 /\ ids[idx - 1] = Kid(p, idx - 1)
  BY <1>1, <1>2, <1>5
<1>7. (idx < Len(ids) <=> idx <= N) /\ (idx <= N => idx + 1 \in 1..N + 1 /\ ids[idx + 1] = Kid(p, idx + 1))
  BY <1>1, <1>2, <1>5
<1>8. \A i \in 1..N + 1 : Kid(p, i) \in Kids(p) /\ Kid(p, i) \in Nat
  <2>1. Kids(p) \subseteq V
    BY KidsTyped
  <2> QED
    BY <2>1 DEF Kids
<1>9. /\ s.left = IF idx > 1 THEN Kid(p, idx - 1) ELSE -1
      /\ s.right = IF idx <= N THEN Kid(p, idx + 1) ELSE -1
  BY <1>3, <1>6, <1>7
<1>10. /\ idx > 1 => Kid(p, idx - 1) \in Kids(p) /\ Kid(p, idx - 1) # -1
       /\ idx <= N => Kid(p, idx + 1) \in Kids(p) /\ Kid(p, idx + 1) # -1
  BY <1>6, <1>7, <1>8
<1> QED
  BY <1>3, <1>5, <1>9, <1>10 DEF s, Beside

\* A page changed, at its level still.
Alike(q, p) == q.kind = p.kind /\ q.root_leaf = p.root_leaf

\* A page with a cell added is at its level.
LEMMA AddCellTyped ==
    ASSUME NEW V, NEW ids, NEW p \in PagesOf(V, ids), NEW key \in Keys, NEW val \in V
    PROVE  /\ AddCell(p, key, val).page \in PagesOf(V, ids)
           /\ Alike(AddCell(p, key, val).page, p)
           /\ AddCell(p, key, val).page.ptr = p.ptr
           /\ Len(AddCell(p, key, val).page.cells) >= 1
<1> DEFINE r == AddCell(p, key, val)
<1>1. /\ r.ok \in BOOLEAN /\ (r.ok <=> Len(p.cells) < ORDER /\ key \notin KeysOf(p))
      /\ r.page \in PagesOf(V, ids) /\ (~r.ok => r.page = p) /\ (r.ok => Added(p, key, val, r.page))
  BY AddCellIs
<1> HIDE DEF r
<1>2. Len(p.cells) \in Nat /\ KeysOf(p) = {p.cells[i].key : i \in 1..Len(p.cells)}
  BY PageFacts, ListFacts
<1>3. CASE r.ok
  BY <1>1, <1>2, <1>3 DEF Added, Alike, r
<1>4. CASE ~r.ok
  <2>1. Len(p.cells) >= 1
    <3>1. CASE key \in KeysOf(p)
      BY <1>2, <3>1
    <3>2. CASE Len(p.cells) >= ORDER
      BY <1>2, <3>2, Constants
    <3> QED
      BY <1>1, <1>2, <1>4, <3>1, <3>2, Constants
  <2> QED
    BY <1>1, <1>4, <2>1 DEF Alike, r
<1> QED
  BY <1>1, <1>3, <1>4

\* A page with a cell removed is at its level.
LEMMA RemoveCellTyped ==
    ASSUME NEW V, NEW ids, NEW p \in PagesOf(V, ids), NEW i \in 1..Len(p.cells)
    PROVE  /\ RemoveCellAt(p, i) \in PagesOf(V, ids)
           /\ Alike(RemoveCellAt(p, i), p)
           /\ RemoveCellAt(p, i).ptr = p.ptr
           /\ Len(RemoveCellAt(p, i).cells) = Len(p.cells) - 1
<1> DEFINE q == RemoveCellAt(p, i)
<1>1. q \in PagesOf(V, ids) /\ q.kind = p.kind /\ q.root_leaf = p.root_leaf /\ q.ptr = p.ptr /\ Len(q.cells) = Len(p.cells) - 1
  BY RemoveCellAtIs
<1> QED
  BY <1>1 DEF Alike

\* A parent with a separator replaced is at its level.
LEMMA ReseparateTyped ==
    ASSUME NEW V, NEW ids, NEW p \in PagesOf(V, ids), NEW i \in 1..Len(p.cells), NEW key \in Keys, NEW val \in V
    PROVE  /\ Reseparate(p, i, key, val).page \in PagesOf(V, ids)
           /\ Alike(Reseparate(p, i, key, val).page, p)
<1> DEFINE q == RemoveCellAt(p, i)
<1>1. q \in PagesOf(V, ids) /\ Alike(q, p)
  BY RemoveCellTyped
<1> HIDE DEF q
<1>2. AddCell(q, key, val).page \in PagesOf(V, ids) /\ Alike(AddCell(q, key, val).page, q)
  BY <1>1, AddCellTyped
<1>3. Reseparate(p, i, key, val) = AddCell(q, key, val)
  BY DEF Reseparate, q
<1> QED
  BY <1>1, <1>2, <1>3 DEF Alike

\* A page with other cells is at its level.
LEMMA RebuildTyped ==
    ASSUME NEW V, NEW ids, NEW p \in PagesOf(V, ids), NEW cells \in Seq(CellsOf(V)), NEW ptr \in ids
    PROVE  /\ Rebuild(p, p.kind, cells, ptr).page \in PagesOf(V, ids)
           /\ Alike(Rebuild(p, p.kind, cells, ptr).page, p)
           /\ Rebuild(p, p.kind, cells, ptr).ok \in BOOLEAN
<1> DEFINE r == Rebuild(p, p.kind, cells, ptr)
<1>1. p.root_leaf \in BOOLEAN /\ p.kind \in PageKind /\ (p.root_leaf => p.kind = "Root")
  BY PageFacts
<1>2. Rebuilt(p, p.kind, cells, ptr, V, ids, r)
  BY <1>1, RebuildIs
<1> HIDE DEF r
<1>3. /\ r.page \in PagesOf(V, ids) /\ r.ok \in BOOLEAN /\ r.page.kind = p.kind
      /\ r.page.root_leaf = (p.kind = "Root" /\ p.root_leaf /\ p.kind = "Root")
  BY <1>2 DEF Rebuilt
<1>4. r.page.root_leaf = p.root_leaf
  BY <1>1, <1>3
<1> QED
  BY <1>3, <1>4 DEF Alike, r

\* A page with another pointer is at its level.
LEMMA PtrTyped ==
    ASSUME NEW V, NEW ids, NEW p \in PagesOf(V, ids), NEW ptr \in ids
    PROVE  /\ [p EXCEPT !.ptr = ptr] \in PagesOf(V, ids)
           /\ Alike([p EXCEPT !.ptr = ptr], p)
           /\ [p EXCEPT !.ptr = ptr].cells = p.cells /\ [p EXCEPT !.ptr = ptr].ptr = ptr
<1> DEFINE q == [p EXCEPT !.ptr = ptr]
<1>1. p \in [kind : PageKind, root_leaf : BOOLEAN, cells : Lists(V), ptr : ids] /\ (p.root_leaf => p.kind = "Root")
  BY DEF PagesOf
<1>2. q \in [kind : PageKind, root_leaf : BOOLEAN, cells : Lists(V), ptr : ids]
  BY <1>1
<1>3. q.kind = p.kind /\ q.root_leaf = p.root_leaf /\ q.cells = p.cells /\ q.ptr = ptr
  BY <1>1
<1> HIDE DEF q
<1> QED
  BY <1>1, <1>2, <1>3 DEF PagesOf, Alike, q

\* Borrowing from the left: what the page p, its left sibling l and the separator in
\* their parent become.
TookLeft(p, l, sep) ==
    IF p.kind = "Leaf" THEN AddCell(p, Last(l.cells).key, Last(l.cells).val).page
    ELSE Rebuild(p, p.kind, <<[key |-> sep, val |-> l.ptr]>> \o p.cells, p.ptr).page
LentLeft(p, l) ==
    IF p.kind = "Leaf" THEN RemoveCellAt(l, Len(l.cells))
    ELSE [RemoveCellAt(l, Len(l.cells)) EXCEPT !.ptr = Last(l.cells).val]
SepLeft(p, l, sep) == IF p.kind = "Leaf" THEN TookLeft(p, l, sep).cells[1].key ELSE Last(l.cells).key

\* The same from the right.
TookRight(p, r, sep) ==
    IF p.kind = "Leaf" THEN AddCell(p, r.cells[1].key, r.cells[1].val).page
    ELSE [AddCell(p, sep, p.ptr).page EXCEPT !.ptr = r.cells[1].val]
LentRight(r) == RemoveCellAt(r, 1)
SepRight(p, r) == IF p.kind = "Leaf" THEN LentRight(r).cells[1].key ELSE r.cells[1].key

\* The pages of a borrowing from the left are at their levels.
LEMMA LeftTyped ==
    ASSUME NEW V, NEW W, NEW p \in PagesOf(V, W), NEW l \in PagesOf(V, W), Len(l.cells) >= 1,
           NEW sep \in Keys, p.kind # "Leaf" => V = W
    PROVE  /\ TookLeft(p, l, sep) \in PagesOf(V, W) /\ Alike(TookLeft(p, l, sep), p)
           /\ LentLeft(p, l) \in PagesOf(V, W) /\ Alike(LentLeft(p, l), l)
           /\ SepLeft(p, l, sep) \in Keys
<1> DEFINE n == Len(l.cells)
           b == l.cells[n]
           q == TookLeft(p, l, sep)
           short == RemoveCellAt(l, n)
<1>1. Len(l.cells) \in Nat /\ l.cells \in Lists(V) /\ l.ptr \in W /\ p.ptr \in W /\ p.cells \in Lists(V)
  BY PageFacts, ListFacts
<1>2. n \in 1..n /\ Last(l.cells) = b
  BY <1>1 DEF Last
<1>3. b.key \in Keys /\ b.val \in V
  BY <1>1, <1>2, ListFacts
<1>4. short \in PagesOf(V, W) /\ Alike(short, l)
  BY <1>2, RemoveCellTyped
<1> HIDE DEF b, n
<1>5. CASE p.kind = "Leaf"
  <2>1. q = AddCell(p, b.key, b.val).page
    BY <1>2, <1>5 DEF TookLeft
  <2>2. q \in PagesOf(V, W) /\ Alike(q, p) /\ Len(q.cells) >= 1
    BY <1>3, <2>1, AddCellTyped
  <2> HIDE DEF q
  <2>3. q.cells[1].key \in Keys
    <3>1. q.cells \in Lists(V) /\ Len(q.cells) \in Nat
      BY <2>2, PageFacts, ListFacts
    <3>2. 1 \in 1..Len(q.cells)
      BY <2>2, <3>1
    <3> QED
      BY <3>1, <3>2, ListFacts
  <2>4. LentLeft(p, l) = short /\ SepLeft(p, l, sep) = q.cells[1].key
    BY <1>5 DEF LentLeft, SepLeft, q, n
  <2> QED
    BY <1>4, <2>2, <2>3, <2>4 DEF q
<1>6. CASE p.kind # "Leaf"
  <2> DEFINE c == [key |-> sep, val |-> l.ptr]
             d == <<c>> \o p.cells
  <2>1. d \in Seq(CellsOf(V))
    <3>1. c \in CellsOf(V)
      BY <1>1, <1>6 DEF CellsOf
    <3>2. p.cells \in Seq(CellsOf(V))
      BY <1>1, ListFacts
    <3> HIDE DEF c
    <3> QED
      BY <3>1, <3>2
  <2>2. q = Rebuild(p, p.kind, d, p.ptr).page
    BY <1>6 DEF TookLeft
  <2> HIDE DEF d, q
  <2>3. q \in PagesOf(V, W) /\ Alike(q, p)
    BY <1>1, <2>1, <2>2, RebuildTyped
  <2>4. [short EXCEPT !.ptr = b.val] \in PagesOf(V, W) /\ Alike([short EXCEPT !.ptr = b.val], short)
    <3>1. b.val \in W
      BY <1>3, <1>6
    <3> HIDE DEF short
    <3> QED
      BY <1>4, <3>1, PtrTyped
  <2>5. LentLeft(p, l) = [short EXCEPT !.ptr = b.val] /\ SepLeft(p, l, sep) = b.key
    BY <1>2, <1>6 DEF LentLeft, SepLeft, n
  <2> QED
    BY <1>3, <1>4, <2>3, <2>4, <2>5 DEF q, Alike
<1> QED
  BY <1>5, <1>6

\* So are those of a borrowing from the right.
LEMMA RightTyped ==
    ASSUME NEW V, NEW W, NEW p \in PagesOf(V, W), NEW r \in PagesOf(V, W), Len(r.cells) >= 2,
           NEW sep \in Keys, p.kind # "Leaf" => V = W
    PROVE  /\ TookRight(p, r, sep) \in PagesOf(V, W) /\ Alike(TookRight(p, r, sep), p)
           /\ LentRight(r) \in PagesOf(V, W) /\ Alike(LentRight(r), r)
           /\ SepRight(p, r) \in Keys
<1> DEFINE b == r.cells[1]
           q == TookRight(p, r, sep)
           short == RemoveCellAt(r, 1)
<1>1. Len(r.cells) \in Nat /\ r.cells \in Lists(V) /\ r.ptr \in W /\ p.ptr \in W /\ p.cells \in Lists(V)
  BY PageFacts, ListFacts
<1>2. 1 \in 1..Len(r.cells)
  BY <1>1
<1>3. b.key \in Keys /\ b.val \in V
  BY <1>1, <1>2, ListFacts
<1>4. short \in PagesOf(V, W) /\ Alike(short, r) /\ Len(short.cells) = Len(r.cells) - 1
  BY <1>2, RemoveCellTyped
<1>5. short.cells[1].key \in Keys
  <2> HIDE DEF short
  <2>1. short.cells \in Lists(V) /\ Len(short.cells) >= 1 /\ Len(short.cells) \in Nat
    BY <1>1, <1>4, PageFacts, ListFacts
  <2>2. 1 \in 1..Len(short.cells)
    BY <2>1
  <2> QED
    BY <2>1, <2>2, ListFacts
<1>6. LentRight(r) = short
  BY DEF LentRight
<1> HIDE DEF b, short
<1>7. CASE p.kind = "Leaf"
  <2>1. q = AddCell(p, b.key, b.val).page /\ SepRight(p, r) = short.cells[1].key
    BY <1>6, <1>7 DEF TookRight, SepRight, b
  <2> HIDE DEF q
  <2>2. q \in PagesOf(V, W) /\ Alike(q, p)
    BY <1>3, <2>1, AddCellTyped
  <2> QED
    BY <1>4, <1>5, <1>6, <2>1, <2>2 DEF q
<1>8. CASE p.kind # "Leaf"
  <2> DEFINE a == AddCell(p, sep, p.ptr).page
  <2>1. q = [a EXCEPT !.ptr = b.val] /\ SepRight(p, r) = b.key
    BY <1>8 DEF TookRight, SepRight, b
  <2>2. a \in PagesOf(V, W) /\ Alike(a, p)
    BY <1>1, <1>8, AddCellTyped
  <2>3. b.val \in W
    BY <1>3, <1>8
  <2> HIDE DEF a
  <2>4. [a EXCEPT !.ptr = b.val] \in PagesOf(V, W) /\ Alike([a EXCEPT !.ptr = b.val], a)
    BY <2>2, <2>3, PtrTyped
  <2> HIDE DEF q
  <2> QED
    BY <1>3, <1>4, <1>6, <2>1, <2>2, <2>4 DEF q, Alike
<1> QED
  BY <1>7, <1>8

\* One page of the tree replaced by another of its kind.
LEMMA ShapeAlike ==
    ASSUME NEW P, NEW N, NEW lv, NEW L, NEW root, Shape(P, N, lv, L, root), NEW id \in L, NEW page,
           page \in PagesOf(Vals(lv, L, lv[id]), Ptrs(lv, L, lv[id], Ids(N))), Alike(page, P[id])
    PROVE  /\ Shape(With(P, id, page), N, lv, L, root)
           /\ \A i \in L : Alike(With(P, id, page)[i], P[i])
           /\ \A i \in L : i # id => With(P, id, page)[i] = P[i]
           /\ With(P, id, page)[id] = page
<1>1. /\ lv[id] \in Nat /\ PageAt(P[id], lv[id], lv, L, Ids(N)) /\ (P[id].kind = "Root" <=> id = root)
      /\ DOMAIN P = Ids(N) /\ L \subseteq Ids(N)
  BY ShapeFacts
<1>2. page.kind = P[id].kind /\ page.root_leaf = P[id].root_leaf
  BY DEF Alike
<1>3. PageAt(page, lv[id], lv, L, Ids(N))
  BY <1>1, <1>2, SameLevel
<1>4. page.kind = "Root" <=> id = root
  BY <1>1, <1>2
<1>5. Shape(With(P, id, page), N, lv, L, root)
  BY <1>3, <1>4, ShapeWrite
<1>6. With(P, id, page)[id] = page /\ \A i \in L : i # id => With(P, id, page)[i] = P[i]
  BY <1>1, WithIs
<1>7. \A i \in L : Alike(With(P, id, page)[i], P[i])
  <2>1. \A i \in L : Alike(P[i], P[i])
    BY DEF Alike
  <2> QED
    BY <1>6, <2>1
<1> QED
  BY <1>5, <1>6, <1>7 DEF Beside

\* Three pages of the tree written.
Three(P, i, a, j, b, k, c) == With(With(With(P, i, a), j, b), k, c)
\* Three such replacements keep the shape.
LEMMA ThreeShape ==
    ASSUME NEW P, NEW N, NEW lv, NEW L, NEW root, Shape(P, N, lv, L, root),
           NEW i \in L, NEW a, a \in PagesOf(Vals(lv, L, lv[i]), Ptrs(lv, L, lv[i], Ids(N))), Alike(a, P[i]),
           NEW j \in L, NEW b, b \in PagesOf(Vals(lv, L, lv[j]), Ptrs(lv, L, lv[j], Ids(N))), Alike(b, P[j]),
           NEW k \in L, NEW c, c \in PagesOf(Vals(lv, L, lv[k]), Ptrs(lv, L, lv[k], Ids(N))), Alike(c, P[k])
    PROVE  Shape(Three(P, i, a, j, b, k, c), N, lv, L, root)
<1> DEFINE P1 == With(P, i, a)
           P2 == With(P1, j, b)
<1>1. Shape(P1, N, lv, L, root) /\ \A x \in L : Alike(P1[x], P[x])
  BY ShapeAlike
<1> HIDE DEF P1
<1>2. Alike(b, P1[j])
  BY <1>1 DEF Alike
<1>3. Shape(P2, N, lv, L, root) /\ \A x \in L : Alike(P2[x], P1[x])
  BY <1>1, <1>2, ShapeAlike
<1> HIDE DEF P2
<1>4. Alike(c, P2[k])
  BY <1>1, <1>3 DEF Alike
<1>5. Shape(With(P2, k, c), N, lv, L, root)
  BY <1>3, <1>4, ShapeAlike
<1> QED
  BY <1>5 DEF Three, P1, P2

\* What the page of an underfull call, its parent and its siblings are.
LEMMA Family ==
    ASSUME NEW N, NEW lv, NEW L, TreeTyped(N, lv, L), op.pc = "underfull", NEW parent, parent = Last(op.trail),
           NEW s, s = Siblings(pages[parent], op.id)
    PROVE  /\ Shape(pages, N, lv, L, root_id) /\ Trail(pages, lv, L, root_id, op.trail)
           /\ op.id \in L /\ parent \in L /\ parent # op.id /\ lv[parent] = lv[op.id] + 1 /\ op.id # root_id
           /\ lv[op.id] \in Nat /\ lv[parent] \in Nat /\ lv[parent] # 0
           /\ Beside(pages[parent], op.id, s)
           /\ s.left # -1 => s.left \in L /\ lv[s.left] = lv[op.id] /\ s.left # root_id
           /\ s.right # -1 => s.right \in L /\ lv[s.right] = lv[op.id] /\ s.right # root_id
<1> DEFINE q == pages[parent]
           m == lv[parent]
           V == Below(lv, L, m)
<1>1. /\ Shape(pages, N, lv, L, root_id) /\ Trail(pages, lv, L, root_id, op.trail)
      /\ op.id \in L /\ op.id \in Kids(q) /\ lv[parent] = lv[op.id] + 1
  BY DEF TreeTyped, CallAt, Idle
<1>2. parent \in L
  BY <1>1, TrailFacts
<1>3. /\ m \in Nat /\ PageAt(q, m, lv, L, Ids(N)) /\ lv[op.id] \in Nat /\ lv[root_id] \in Nat /\ m <= lv[root_id]
      /\ \A i \in L : i \in Nat
  BY <1>1, <1>2, ShapeFacts
<1>4. m # 0 /\ parent # op.id /\ op.id # root_id
  BY <1>1, <1>3
<1>5. q \in PagesOf(V, V) /\ Kids(q) \subseteq V
  <2> HIDE DEF q, m
  <2> QED
    BY <1>3, <1>4, PageAtFacts
<1>6. V \subseteq L /\ V \subseteq Nat /\ \A i \in V : lv[i] = lv[op.id] /\ i # root_id
  <2>1. \A i \in V : i \in L /\ lv[i] = m - 1
    BY DEF Below
  <2>2. m - 1 = lv[op.id] /\ m - 1 # lv[root_id]
    BY <1>1, <1>3
  <2> HIDE DEF V, m
  <2> QED
    BY <1>3, <2>1, <2>2
<1> HIDE DEF q, V
<1>7. Beside(q, op.id, s)
  <2>1. V \subseteq Nat /\ q \in PagesOf(V, V) /\ op.id \in Kids(q)
    BY <1>1, <1>5, <1>6
  <2>2. s = Siblings(q, op.id)
    BY DEF q
  <2> QED
    BY <2>1, <2>2, SiblingsAre
<1>8. /\ s.left # -1 => s.left \in L /\ lv[s.left] = lv[op.id] /\ s.left # root_id
      /\ s.right # -1 => s.right \in L /\ lv[s.right] = lv[op.id] /\ s.right # root_id
  BY <1>5, <1>6, <1>7 DEF Beside
<1> QED
  BY <1>1, <1>2, <1>3, <1>4, <1>7, <1>8 DEF q

\* A borrowing writes three pages; it may also fail, with two or three of them written.
Borrowed(left, lent, short, id, took, parent, rep) ==
    \/ /\ pages' = Three(pages, left, lent, id, took, parent, rep)
       /\ Answer(op.req, "ok")
    \/ /\ \/ pages' = Three(pages, left, short, id, took, parent, rep)
          \/ pages' = With(With(pages, left, short), id, took)
          \/ pages' = With(pages, left, short)
       /\ Answer(op.req, "error")

\* What redistribute_from_left writes.
LEMMA BorrowLeftIs ==
    ASSUME NEW parent, NEW s, RedistributeFromLeft(parent, s)
    PROVE  LET p == pages[op.id]
               l == pages[s.left]
               q == pages[parent]
               sep == q.cells[s.idx - 1].key
           IN  /\ s.left # -1 /\ Len(l.cells) > DEGREE /\ root_id' = root_id
               /\ Borrowed(s.left, LentLeft(p, l), RemoveCellAt(l, Len(l.cells)), op.id, TookLeft(p, l, sep),
                           parent, Reseparate(q, s.idx - 1, SepLeft(p, l, sep), s.left).page)
<1> DEFINE p == pages[op.id]
           l == pages[s.left]
           leaf == p.kind = "Leaf"
           borrowed == Last(l.cells)
           sep == pages[parent].cells[s.idx - 1].key
           shorter == RemoveCellAt(l, Len(l.cells))
           grown == IF leaf THEN AddCell(p, borrowed.key, borrowed.val)
                    ELSE Rebuild(p, p.kind, <<[key |-> sep, val |-> l.ptr]>> \o p.cells, p.ptr)
           new_sep == IF leaf THEN grown.page.cells[1].key ELSE borrowed.key
           resep == Reseparate(pages[parent], s.idx - 1, new_sep, s.left)
           lent == IF leaf \/ ~resep.ok THEN shorter ELSE [shorter EXCEPT !.ptr = borrowed.val]
<1>1. /\ s.left # -1 /\ Len(l.cells) > DEGREE /\ root_id' = root_id
      /\ pages' = IF grown.ok
                  THEN With(With(With(pages, s.left, lent), op.id, grown.page), parent, resep.page)
                  ELSE With(With(pages, s.left, shorter), op.id, grown.page)
      /\ Answer(op.req, IF grown.ok /\ resep.ok THEN "ok" ELSE "error")
  BY Zenon DEF RedistributeFromLeft, CanLend
<1>2. grown.page = TookLeft(p, l, sep)
  BY DEF TookLeft
<1>3. new_sep = SepLeft(p, l, sep)
  <2> HIDE DEF grown
  <2> QED
    BY <1>2 DEF SepLeft
<1>4. /\ ~resep.ok => lent = shorter
      /\ resep.ok => lent = LentLeft(p, l)
  <2> HIDE DEF resep
  <2> QED
    BY DEF LentLeft
<1> DEFINE took == TookLeft(p, l, sep)
           rep == Reseparate(pages[parent], s.idx - 1, SepLeft(p, l, sep), s.left).page
<1>5. resep.page = rep
  <2> HIDE DEF new_sep
  <2> QED
    BY <1>3
<1> HIDE DEF grown, resep, lent, rep, took, shorter
<1>6. Borrowed(s.left, LentLeft(p, l), shorter, op.id, took, parent, rep)
  BY <1>1, <1>2, <1>4, <1>5 DEF Borrowed, Three, took
<1> QED
  BY <1>1, <1>6 DEF took, rep, shorter

\* What redistribute_from_right writes.
LEMMA BorrowRightIs ==
    ASSUME NEW parent, NEW s, RedistributeFromRight(parent, s)
    PROVE  LET p == pages[op.id]
               r == pages[s.right]
               q == pages[parent]
               sep == q.cells[s.idx].key
           IN  /\ s.right # -1 /\ Len(r.cells) > DEGREE /\ root_id' = root_id
               /\ Borrowed(s.right, LentRight(r), LentRight(r), op.id, TookRight(p, r, sep),
                           parent, Reseparate(q, s.idx, SepRight(p, r), op.id).page)
<1> DEFINE p == pages[op.id]
           r == pages[s.right]
           leaf == p.kind = "Leaf"
           borrowed == r.cells[1]
           sep == pages[parent].cells[s.idx].key
           shorter == RemoveCellAt(r, 1)
           grown == IF leaf THEN AddCell(p, borrowed.key, borrowed.val) ELSE AddCell(p, sep, p.ptr)
           new == IF leaf THEN grown.page ELSE [grown.page EXCEPT !.ptr = borrowed.val]
           new_sep == IF leaf THEN shorter.cells[1].key ELSE borrowed.key
           resep == Reseparate(pages[parent], s.idx, new_sep, op.id)
<1>1. /\ s.right # -1 /\ Len(r.cells) > DEGREE /\ root_id' = root_id
      /\ pages' = IF grown.ok
                  THEN With(With(With(pages, s.right, shorter), op.id, new), parent, resep.page)
                  ELSE With(pages, s.right, shorter)
      /\ Answer(op.req, IF grown.ok /\ resep.ok THEN "ok" ELSE "error")
  BY Zenon DEF RedistributeFromRight, CanLend
<1>2. new = TookRight(p, r, sep) /\ shorter = LentRight(r)
  BY DEF TookRight, LentRight
<1>3. new_sep = SepRight(p, r)
  BY DEF SepRight, LentRight
<1> DEFINE took == TookRight(p, r, sep)
           rep == Reseparate(pages[parent], s.idx, SepRight(p, r), op.id).page
<1>5. resep.page = rep
  <2> HIDE DEF new_sep
  <2> QED
    BY <1>3
<1> HIDE DEF grown, resep, new, rep, took, shorter
<1>6. Borrowed(s.right, shorter, shorter, op.id, took, parent, rep)
  BY <1>1, <1>2, <1>5 DEF Borrowed, Three, took
<1> QED
  BY <1>1, <1>2, <1>6 DEF took, rep

\* Whatever a borrowing writes keeps the shape.
LEMMA BorrowedShape ==
    ASSUME NEW N, NEW lv, NEW L, TreeTyped(N, lv, L), NEW parent \in L, NEW id \in L, NEW side \in L,
           NEW lent, lent \in PagesOf(Vals(lv, L, lv[side]), Ptrs(lv, L, lv[side], Ids(N))), Alike(lent, pages[side]),
           NEW short, short \in PagesOf(Vals(lv, L, lv[side]), Ptrs(lv, L, lv[side], Ids(N))), Alike(short, pages[side]),
           NEW took, took \in PagesOf(Vals(lv, L, lv[id]), Ptrs(lv, L, lv[id], Ids(N))), Alike(took, pages[id]),
           NEW rep, rep \in PagesOf(Vals(lv, L, lv[parent]), Ptrs(lv, L, lv[parent], Ids(N))), Alike(rep, pages[parent]),
           Borrowed(side, lent, short, id, took, parent, rep), root_id' = root_id, reopens' = reopens
    PROVE  TreeTyped(N, lv, L)'
<1>1. Shape(pages, N, lv, L, root_id) /\ reopens \in 0..MaxReopens
  BY DEF TreeTyped
<1>2. Shape(Three(pages, side, lent, id, took, parent, rep), N, lv, L, root_id)
  BY <1>1, ThreeShape
<1>3. Shape(Three(pages, side, short, id, took, parent, rep), N, lv, L, root_id)
  BY <1>1, ThreeShape
<1>4. /\ Shape(With(pages, side, short), N, lv, L, root_id)
      /\ Alike(With(pages, side, short)[id], pages[id])
  BY <1>1, ShapeAlike
<1>5. Shape(With(With(pages, side, short), id, took), N, lv, L, root_id)
  <2> DEFINE Q == With(pages, side, short)
  <2>1. Shape(Q, N, lv, L, root_id) /\ Alike(took, Q[id])
    BY <1>4 DEF Alike
  <2> HIDE DEF Q
  <2>2. Shape(With(Q, id, took), N, lv, L, root_id)
    BY <2>1, ShapeAlike
  <2> QED
    BY <2>2 DEF Q
<1>6. Shape(pages', N, lv, L, root_id')
  BY <1>2, <1>3, <1>4, <1>5 DEF Borrowed
<1>7. op' = Idle /\ reply'.out \in Outs
  BY DEF Borrowed, Answer, Outs
<1> QED
  BY <1>1, <1>6, <1>7 DEF TreeTyped, CallAt

\* What a page of the tree is that is not the root.
LEMMA InnerPage ==
    ASSUME NEW P, NEW N, NEW lv, NEW L, NEW root, Shape(P, N, lv, L, root), NEW id \in L, id # root
    PROVE  /\ P[id] \in PagesOf(Vals(lv, L, lv[id]), Ptrs(lv, L, lv[id], Ids(N)))
           /\ P[id].kind = "Leaf" <=> lv[id] = 0
           /\ P[id].kind # "Leaf" => Vals(lv, L, lv[id]) = Ptrs(lv, L, lv[id], Ids(N))
           /\ IsLeafLevel(P[id]) <=> P[id].kind = "Leaf"
<1>1. lv[id] \in Nat /\ PageAt(P[id], lv[id], lv, L, Ids(N)) /\ P[id].kind # "Root"
  BY ShapeFacts
<1>2. /\ P[id] \in PagesOf(Vals(lv, L, lv[id]), Ptrs(lv, L, lv[id], Ids(N)))
      /\ IsLeafLevel(P[id]) <=> lv[id] = 0
      /\ P[id].kind # "Root" => (P[id].kind = "Leaf" <=> lv[id] = 0)
  BY <1>1, PageAtFacts
<1> QED
  BY <1>1, <1>2 DEF Vals, Ptrs

\* What a page of the tree is that has children.
LEMMA ParentPage ==
    ASSUME NEW P, NEW N, NEW lv, NEW L, NEW root, Shape(P, N, lv, L, root), NEW id \in L, lv[id] # 0
    PROVE  /\ P[id] \in PagesOf(Below(lv, L, lv[id]), Below(lv, L, lv[id]))
           /\ Vals(lv, L, lv[id]) = Below(lv, L, lv[id]) /\ Ptrs(lv, L, lv[id], Ids(N)) = Below(lv, L, lv[id])
           /\ Len(P[id].cells) \in Nat /\ P[id].cells \in Lists(Below(lv, L, lv[id]))
           /\ ~IsLeafLevel(P[id])
<1>1. lv[id] \in Nat /\ PageAt(P[id], lv[id], lv, L, Ids(N))
  BY ShapeFacts
<1>2. /\ P[id] \in PagesOf(Vals(lv, L, lv[id]), Ptrs(lv, L, lv[id], Ids(N))) /\ ~IsLeafLevel(P[id])
      /\ Vals(lv, L, lv[id]) = Below(lv, L, lv[id]) /\ Ptrs(lv, L, lv[id], Ids(N)) = Below(lv, L, lv[id])
  BY <1>1, PageAtFacts
<1>3. P[id] \in PagesOf(Below(lv, L, lv[id]), Below(lv, L, lv[id]))
  BY <1>2
<1> QED
  BY <1>2, <1>3, PageFacts, ListFacts

\* Borrowing from the left keeps the shape.
LEMMA TypedBorrowLeft ==
    ASSUME NEW N, NEW lv, NEW L, TreeTyped(N, lv, L), op.pc = "underfull", NEW parent, parent = Last(op.trail),
           NEW s, s = Siblings(pages[parent], op.id), RedistributeFromLeft(parent, s), reopens' = reopens
    PROVE  TreeTyped(N, lv, L)'
<1> DEFINE id == op.id
           left == s.left
           p == pages[id]
           l == pages[left]
           q == pages[parent]
           i == s.idx - 1
           sep == q.cells[i].key
           new_sep == SepLeft(p, l, sep)
           rep == Reseparate(q, i, new_sep, left).page
           short == RemoveCellAt(l, Len(l.cells))
<1>1. /\ left # -1 /\ Len(l.cells) > DEGREE /\ root_id' = root_id
      /\ Borrowed(left, LentLeft(p, l), short, id, TookLeft(p, l, sep), parent, rep)
  BY BorrowLeftIs
<1>2. /\ Shape(pages, N, lv, L, root_id)
      /\ id \in L /\ parent \in L /\ parent # id /\ lv[parent] = lv[id] + 1 /\ id # root_id
      /\ lv[id] \in Nat /\ lv[parent] \in Nat /\ lv[parent] # 0
      /\ Beside(q, id, s)
      /\ left # -1 => left \in L /\ lv[left] = lv[id] /\ left # root_id
  BY Family
<1> HIDE DEF left
<1>3. left \in L /\ lv[left] = lv[id] /\ left # root_id /\ s.idx > 1
  BY <1>1, <1>2 DEF Beside, left
<1> DEFINE V == Vals(lv, L, lv[id])
           W == Ptrs(lv, L, lv[id], Ids(N))
           X == Below(lv, L, lv[parent])
<1>4. /\ p \in PagesOf(V, W) /\ (p.kind # "Leaf" => V = W)
      /\ l \in PagesOf(V, W)
  <2>1. p \in PagesOf(V, W) /\ (p.kind # "Leaf" => V = W)
    BY <1>2, InnerPage
  <2>2. l \in PagesOf(Vals(lv, L, lv[left]), Ptrs(lv, L, lv[left], Ids(N)))
    BY <1>2, <1>3, InnerPage
  <2> QED
    BY <1>3, <2>1, <2>2
<1>5. /\ q \in PagesOf(X, X) /\ q.cells \in Lists(X) /\ Len(q.cells) \in Nat
      /\ Vals(lv, L, lv[parent]) = X /\ Ptrs(lv, L, lv[parent], Ids(N)) = X
  BY <1>2, ParentPage
<1>6. i \in 1..Len(q.cells)
  <2>1. s.idx \in 1..Len(q.cells) + 1
    BY <1>2 DEF Beside
  <2> HIDE DEF q
  <2> QED
    BY <1>3, <1>5, <2>1
<1> HIDE DEF i
<1>7. sep \in Keys
  BY <1>5, <1>6, ListFacts
<1>8. left \in X
  BY <1>2, <1>3 DEF Below
<1>9. Len(l.cells) >= 1
  <2>1. Len(l.cells) \in Nat
    BY <1>4, PageFacts, ListFacts
  <2> QED
    BY <1>1, <2>1, Constants
<1> HIDE DEF p, l, q, sep
<1>10. /\ TookLeft(p, l, sep) \in PagesOf(V, W) /\ Alike(TookLeft(p, l, sep), p)
       /\ LentLeft(p, l) \in PagesOf(V, W) /\ Alike(LentLeft(p, l), l)
       /\ new_sep \in Keys
  <2> HIDE DEF V, W
  <2> QED
    BY <1>4, <1>7, <1>9, LeftTyped
<1>16. short \in PagesOf(V, W) /\ Alike(short, l)
  <2>1. Len(l.cells) \in 1..Len(l.cells)
    BY <1>4, <1>9, PageFacts, ListFacts
  <2> HIDE DEF V, W
  <2> QED
    BY <1>4, <2>1, RemoveCellTyped
<1> HIDE DEF new_sep, short
<1>11. rep \in PagesOf(X, X) /\ Alike(rep, q)
  <2> HIDE DEF X
  <2> QED
    BY <1>5, <1>6, <1>8, <1>10, ReseparateTyped
<1> HIDE DEF rep
<1>12. TreeTyped(N, lv, L)'
  <2>0. short \in PagesOf(Vals(lv, L, lv[left]), Ptrs(lv, L, lv[left], Ids(N))) /\ Alike(short, pages[left])
    BY <1>3, <1>16 DEF l
  <2>1. LentLeft(p, l) \in PagesOf(Vals(lv, L, lv[left]), Ptrs(lv, L, lv[left], Ids(N))) /\ Alike(LentLeft(p, l), pages[left])
    BY <1>3, <1>10 DEF l
  <2>2. TookLeft(p, l, sep) \in PagesOf(Vals(lv, L, lv[id]), Ptrs(lv, L, lv[id], Ids(N))) /\ Alike(TookLeft(p, l, sep), pages[id])
    BY <1>10 DEF p
  <2>3. rep \in PagesOf(Vals(lv, L, lv[parent]), Ptrs(lv, L, lv[parent], Ids(N))) /\ Alike(rep, pages[parent])
    BY <1>5, <1>11 DEF q
  <2>4. left \in L /\ id \in L /\ parent \in L
    BY <1>2, <1>3
  <2> QED
    BY <1>1, <2>0, <2>1, <2>2, <2>3, <2>4, BorrowedShape
<1> QED
  BY <1>12

\* Borrowing from the right keeps the shape.
LEMMA TypedBorrowRight ==
    ASSUME NEW N, NEW lv, NEW L, TreeTyped(N, lv, L), op.pc = "underfull", NEW parent, parent = Last(op.trail),
           NEW s, s = Siblings(pages[parent], op.id), RedistributeFromRight(parent, s), reopens' = reopens
    PROVE  TreeTyped(N, lv, L)'
<1> DEFINE id == op.id
           right == s.right
           p == pages[id]
           r == pages[right]
           q == pages[parent]
           i == s.idx
           sep == q.cells[i].key
           new_sep == SepRight(p, r)
           rep == Reseparate(q, i, new_sep, id).page
<1>1. /\ right # -1 /\ Len(r.cells) > DEGREE /\ root_id' = root_id
      /\ Borrowed(right, LentRight(r), LentRight(r), id, TookRight(p, r, sep), parent, rep)
  BY BorrowRightIs
<1>2. /\ Shape(pages, N, lv, L, root_id)
      /\ id \in L /\ parent \in L /\ parent # id /\ lv[parent] = lv[id] + 1 /\ id # root_id
      /\ lv[id] \in Nat /\ lv[parent] \in Nat /\ lv[parent] # 0
      /\ Beside(q, id, s)
      /\ right # -1 => right \in L /\ lv[right] = lv[id] /\ right # root_id
  BY Family
<1> HIDE DEF right
<1>3. right \in L /\ lv[right] = lv[id] /\ right # root_id /\ s.idx <= Len(q.cells)
  BY <1>1, <1>2 DEF Beside, right
<1> DEFINE V == Vals(lv, L, lv[id])
           W == Ptrs(lv, L, lv[id], Ids(N))
           X == Below(lv, L, lv[parent])
<1>4. /\ p \in PagesOf(V, W) /\ (p.kind # "Leaf" => V = W)
      /\ r \in PagesOf(V, W)
  <2>1. p \in PagesOf(V, W) /\ (p.kind # "Leaf" => V = W)
    BY <1>2, InnerPage
  <2>2. r \in PagesOf(Vals(lv, L, lv[right]), Ptrs(lv, L, lv[right], Ids(N)))
    BY <1>2, <1>3, InnerPage
  <2> QED
    BY <1>3, <2>1, <2>2
<1>5. /\ q \in PagesOf(X, X) /\ q.cells \in Lists(X) /\ Len(q.cells) \in Nat
      /\ Vals(lv, L, lv[parent]) = X /\ Ptrs(lv, L, lv[parent], Ids(N)) = X
  BY <1>2, ParentPage
<1>6. i \in 1..Len(q.cells)
  <2>1. s.idx \in 1..Len(q.cells) + 1
    BY <1>2 DEF Beside
  <2> HIDE DEF q
  <2> QED
    BY <1>3, <1>5, <2>1
<1> HIDE DEF i
<1>7. sep \in Keys
  BY <1>5, <1>6, ListFacts
<1>8. id \in X
  BY <1>2 DEF Below
<1>9. Len(r.cells) >= 2
  <2>1. Len(r.cells) \in Nat
    BY <1>4, PageFacts, ListFacts
  <2> QED
    BY <1>1, <2>1, Constants
<1> HIDE DEF p, r, q, sep
<1>10. /\ TookRight(p, r, sep) \in PagesOf(V, W) /\ Alike(TookRight(p, r, sep), p)
       /\ LentRight(r) \in PagesOf(V, W) /\ Alike(LentRight(r), r)
       /\ new_sep \in Keys
  <2> HIDE DEF V, W
  <2> QED
    BY <1>4, <1>7, <1>9, RightTyped
<1> HIDE DEF new_sep
<1>11. rep \in PagesOf(X, X) /\ Alike(rep, q)
  <2> HIDE DEF X
  <2> QED
    BY <1>5, <1>6, <1>8, <1>10, ReseparateTyped
<1> HIDE DEF rep
<1>12. TreeTyped(N, lv, L)'
  <2>1. LentRight(r) \in PagesOf(Vals(lv, L, lv[right]), Ptrs(lv, L, lv[right], Ids(N))) /\ Alike(LentRight(r), pages[right])
    BY <1>3, <1>10 DEF r
  <2>2. TookRight(p, r, sep) \in PagesOf(Vals(lv, L, lv[id]), Ptrs(lv, L, lv[id], Ids(N))) /\ Alike(TookRight(p, r, sep), pages[id])
    BY <1>10 DEF p
  <2>3. rep \in PagesOf(Vals(lv, L, lv[parent]), Ptrs(lv, L, lv[parent], Ids(N))) /\ Alike(rep, pages[parent])
    BY <1>5, <1>11 DEF q
  <2>4. right \in L /\ id \in L /\ parent \in L
    BY <1>2, <1>3
  <2> QED
    BY <1>1, <2>1, <2>2, <2>3, <2>4, BorrowedShape
<1> QED
  BY <1>12

-----------------------------------------------------------------------------
(* Merges. *)

\* A page that becomes the root is at its level.
LEMMA RootKindAt ==
    ASSUME NEW lv, NEW S, NEW ids, NEW n \in Nat, NEW p, PageAt(p, n, lv, S, ids)
    PROVE  /\ PageAt(SetPageKind(p, "Root"), n, lv, S, ids) /\ SetPageKind(p, "Root").kind = "Root"
           /\ SetPageKind(p, "Root").cells = p.cells /\ SetPageKind(p, "Root").ptr = p.ptr
           /\ IsLeafLevel(SetPageKind(p, "Root")) <=> IsLeafLevel(p)
<1> DEFINE V == Vals(lv, S, n)
           W == Ptrs(lv, S, n, ids)
           q == SetPageKind(p, "Root")
<1>1. p \in PagesOf(V, W) /\ (IsLeafLevel(p) <=> n = 0)
  BY PageAtFacts
<1> HIDE DEF V, W
<1>2. p \in [kind : PageKind, root_leaf : BOOLEAN, cells : Lists(V), ptr : W] /\ (p.root_leaf => p.kind = "Root")
  BY <1>1 DEF PagesOf
<1>3. /\ q.kind = "Root" /\ q.cells = p.cells /\ q.ptr = p.ptr
      /\ q.root_leaf = (IsLeafLevel(p) \/ p.root_leaf)
  BY <1>2 DEF SetPageKind
<1>4. q \in [kind : PageKind, root_leaf : BOOLEAN, cells : Lists(V), ptr : W]
  <2>1. ("Root" = "Root" /\ (IsLeafLevel(p) \/ p.root_leaf)) \in BOOLEAN
    OBVIOUS
  <2>2. q = [p EXCEPT !.kind = "Root", !.root_leaf = ("Root" = "Root" /\ (IsLeafLevel(p) \/ p.root_leaf))]
    BY DEF SetPageKind
  <2> QED
    BY <1>2, <2>1, <2>2 DEF PageKind
<1> HIDE DEF q
<1>5. q \in PagesOf(V, W)
  BY <1>3, <1>4 DEF PagesOf
<1>6. IsLeafLevel(q) <=> IsLeafLevel(p)
  BY <1>2, <1>3 DEF IsLeafLevel
<1> QED
  BY <1>1, <1>3, <1>5, <1>6 DEF PageAt, V, W, q

\* The cells of two merged pages.
MergedCells(q, sep, l, r) == l.cells \o PulledDown(q, sep, l) \o r.cells
Merged(q, sep, l, r) == Rebuild(l, l.kind, MergedCells(q, sep, l, r), r.ptr)
WithoutSlot(q, sep, from, into) == Repoint(RemoveCellAt(q, sep), from, into)

\* The cells of two merged pages make a page.
LEMMA MergedTyped ==
    ASSUME NEW V, NEW W, NEW l \in PagesOf(V, W), NEW r \in PagesOf(V, W), l.kind # "Leaf" => V = W,
           NEW q, NEW sep, q.cells[sep].key \in Keys
    PROVE  /\ MergedCells(q, sep, l, r) \in Seq(CellsOf(V))
           /\ Merged(q, sep, l, r).page \in PagesOf(V, W) /\ Alike(Merged(q, sep, l, r).page, l)
           /\ Merged(q, sep, l, r).ok \in BOOLEAN
<1> DEFINE c == [key |-> q.cells[sep].key, val |-> l.ptr]
           d == PulledDown(q, sep, l)
           e == MergedCells(q, sep, l, r)
<1>1. l.cells \in Seq(CellsOf(V)) /\ r.cells \in Seq(CellsOf(V)) /\ r.ptr \in W /\ l.ptr \in W
  BY PageFacts, ListFacts
<1>2. d \in Seq(CellsOf(V))
  <2>1. CASE l.kind = "Leaf"
    BY <2>1 DEF PulledDown
  <2>2. CASE l.kind # "Leaf"
    <3>1. c \in CellsOf(V)
      BY <1>1, <2>2 DEF CellsOf
    <3>2. d = <<c>>
      BY <2>2 DEF PulledDown
    <3> HIDE DEF c, d
    <3> QED
      BY <3>1, <3>2
  <2> QED
    BY <2>1, <2>2
<1> HIDE DEF d
<1>3. e \in Seq(CellsOf(V))
  BY <1>1, <1>2 DEF MergedCells, d
<1> HIDE DEF e
<1>4. /\ Rebuild(l, l.kind, e, r.ptr).page \in PagesOf(V, W) /\ Alike(Rebuild(l, l.kind, e, r.ptr).page, l)
      /\ Rebuild(l, l.kind, e, r.ptr).ok \in BOOLEAN
  BY <1>1, <1>3, RebuildTyped
<1> QED
  BY <1>3, <1>4 DEF Merged, e

\* A parent without one of its children is at its level.
LEMMA WithoutTyped ==
    ASSUME NEW X, NEW q \in PagesOf(X, X), NEW sep \in 1..Len(q.cells), NEW from, NEW into \in X
    PROVE  /\ WithoutSlot(q, sep, from, into) \in PagesOf(X, X) /\ Alike(WithoutSlot(q, sep, from, into), q)
           /\ Len(WithoutSlot(q, sep, from, into).cells) = Len(q.cells) - 1
<1> DEFINE a == RemoveCellAt(q, sep)
           b == Repoint(a, from, into)
<1>1. a \in PagesOf(X, X) /\ Alike(a, q) /\ Len(a.cells) = Len(q.cells) - 1
  BY RemoveCellTyped
<1> HIDE DEF a
<1>2. b \in PagesOf(X, X) /\ b.kind = a.kind /\ b.root_leaf = a.root_leaf /\ Len(b.cells) = Len(a.cells)
  BY <1>1, RepointIs
<1> HIDE DEF b
<1> QED
  BY <1>1, <1>2 DEF WithoutSlot, Alike, a, b

\* The pages of a merge that succeeds.
MergePages(P, parent, into, from, sep) ==
    With(With(P, into, Merged(P[parent], sep, P[into], P[from]).page), parent,
         WithoutSlot(P[parent], sep, from, into))

\* A merge is this.
LEMMA MergeIs ==
    ASSUME NEW parent, NEW into, NEW from, NEW sep, Merge(parent, into, from, sep)
    PROVE  LET merged == Merged(pages[parent], sep, pages[into], pages[from])
           IN  \/ /\ ~merged.ok
                  /\ pages' = With(pages, into, merged.page)
                  /\ Answer(op.req, "error") /\ root_id' = root_id
               \/ merged.ok /\ CheckParentUnderfull(parent, MergePages(pages, parent, into, from, sep))
  BY Zenon DEF Merge, Merged, MergedCells, WithoutSlot, MergePages

\* A merge keeps every page at its level.
LEMMA MergeShape ==
    ASSUME NEW P, NEW N, NEW lv, NEW L, NEW root, Shape(P, N, lv, L, root), NEW parent \in L,
           NEW into \in L, NEW from \in L, lv[parent] = lv[into] + 1, lv[from] = lv[into], into # root, from # root,
           NEW sep \in 1..Len(P[parent].cells)
    PROVE  /\ Shape(With(P, into, Merged(P[parent], sep, P[into], P[from]).page), N, lv, L, root)
           /\ Shape(MergePages(P, parent, into, from, sep), N, lv, L, root)
           /\ \A i \in L : i # into /\ i # parent => MergePages(P, parent, into, from, sep)[i] = P[i]
           /\ MergePages(P, parent, into, from, sep)[parent] = WithoutSlot(P[parent], sep, from, into)
           /\ MergePages(P, parent, into, from, sep)[into] = Merged(P[parent], sep, P[into], P[from]).page
<1> DEFINE q == P[parent]
           l == P[into]
           r == P[from]
           V == Vals(lv, L, lv[into])
           W == Ptrs(lv, L, lv[into], Ids(N))
           X == Below(lv, L, lv[parent])
           a == Merged(q, sep, l, r).page
           b == WithoutSlot(q, sep, from, into)
           P1 == With(P, into, a)
           P2 == With(P1, parent, b)
<1>1. l \in PagesOf(V, W) /\ (l.kind # "Leaf" => V = W) /\ r \in PagesOf(V, W)
  <2>1. l \in PagesOf(V, W) /\ (l.kind # "Leaf" => V = W)
    BY InnerPage
  <2>2. r \in PagesOf(Vals(lv, L, lv[from]), Ptrs(lv, L, lv[from], Ids(N)))
    BY InnerPage
  <2> QED
    BY <2>1, <2>2
<1>2. lv[into] \in Nat /\ lv[parent] # 0 /\ parent # into
  <2>1. lv[into] \in Nat
    BY ShapeFacts
  <2> QED
    BY <2>1
<1>3. /\ q \in PagesOf(X, X) /\ q.cells \in Lists(X) /\ Len(q.cells) \in Nat
      /\ Vals(lv, L, lv[parent]) = X /\ Ptrs(lv, L, lv[parent], Ids(N)) = X
  BY <1>2, ParentPage
<1>4. into \in X
  BY <1>2 DEF Below
<1>5. q.cells[sep].key \in Keys
  BY <1>3, ListFacts
<1> HIDE DEF q, l, r
<1>6. a \in PagesOf(V, W) /\ Alike(a, l)
  <2> HIDE DEF V, W
  <2> QED
    BY <1>1, <1>5, MergedTyped
<1>7. b \in PagesOf(X, X) /\ Alike(b, q)
  <2>1. sep \in 1..Len(q.cells)
    BY DEF q
  <2> HIDE DEF X
  <2> QED
    BY <1>3, <1>4, <2>1, WithoutTyped
<1> HIDE DEF a, b
<1>8. /\ Shape(P1, N, lv, L, root) /\ (\A i \in L : Alike(P1[i], P[i]))
      /\ (\A i \in L : i # into => P1[i] = P[i]) /\ P1[into] = a
  BY <1>6, ShapeAlike DEF l
<1> HIDE DEF P1
<1>9. /\ b \in PagesOf(Vals(lv, L, lv[parent]), Ptrs(lv, L, lv[parent], Ids(N))) /\ Alike(b, P1[parent])
  <2>1. P1[parent] = q
    BY <1>2, <1>8 DEF q
  <2> QED
    BY <1>3, <1>7, <2>1
<1>10. /\ Shape(P2, N, lv, L, root) /\ (\A i \in L : i # parent => P2[i] = P1[i]) /\ P2[parent] = b
  BY <1>8, <1>9, ShapeAlike
<1> HIDE DEF P2
<1>11. MergePages(P, parent, into, from, sep) = P2
  BY DEF MergePages, P2, P1, a, b, q, l, r
<1>12. (\A i \in L : i # into /\ i # parent => P2[i] = P[i]) /\ P2[into] = a
  BY <1>2, <1>8, <1>10
<1> QED
  BY <1>8, <1>10, <1>11, <1>12 DEF a, b, q, l, r, P1

\* check_parent_underfull keeps the shape, of a lower tree if the root was empty.
LEMMA TypedCheck ==
    ASSUME NEW N, NEW lv, NEW L, TreeTyped(N, lv, L), op.pc = "underfull", NEW parent, parent = Last(op.trail),
           NEW P2, Shape(P2, N, lv, L, root_id), \A i \in L : lv[i] > lv[parent] => P2[i] = pages[i],
           CheckParentUnderfull(parent, P2), reopens' = reopens
    PROVE  \E K : TreeTyped(N, lv, K)'
<1>1. /\ Shape(pages, N, lv, L, root_id) /\ Trail(pages, lv, L, root_id, op.trail)
      /\ lv[parent] = lv[op.id] + 1 /\ op.id \in L
  BY DEF TreeTyped, CallAt, Idle
<1>2. parent \in L /\ lv[parent] \in Nat /\ lv[op.id] \in Nat /\ lv[parent] # 0
  <2>1. parent \in L
    BY <1>1, TrailFacts
  <2>2. lv[parent] \in Nat /\ lv[op.id] \in Nat
    BY <1>1, <2>1, ShapeFacts
  <2> QED
    BY <1>1, <2>1, <2>2
<1>3. Answer(op.req, "ok") => op' = Idle /\ reply'.out \in Outs
  BY DEF Answer, Outs
<1>4. reopens' \in 0..MaxReopens /\ reply.out \in Outs
  BY DEF TreeTyped
<1> DEFINE p == P2[parent]
           heir == p.ptr
<1>5. \/ /\ parent = root_id /\ root_id' = heir
         /\ pages' = With(P2, heir, SetPageKind(P2[heir], "Root")) /\ Answer(op.req, "ok")
      \/ pages' = P2 /\ Answer(op.req, "ok") /\ root_id' = root_id
      \/ parent # root_id /\ pages' = P2 /\ op' = Underfull(op.req, parent, Front(op.trail))
         /\ root_id' = root_id /\ reply' = reply
  BY Zenon DEF CheckParentUnderfull
<1>6. ASSUME parent = root_id, root_id' = heir, pages' = With(P2, heir, SetPageKind(P2[heir], "Root")), Answer(op.req, "ok")
      PROVE  \E K : TreeTyped(N, lv, K)'
  <2> DEFINE m == lv[parent]
  <2>1. p \in PagesOf(Below(lv, L, m), Below(lv, L, m))
    BY <1>2, ParentPage
  <2>2. heir \in Below(lv, L, m)
    <3> HIDE DEF p
    <3> QED
      BY <2>1, PageFacts
  <2> HIDE DEF heir
  <2>3. heir \in L /\ lv[heir] = m - 1
    BY <2>2 DEF Below
  <2>4. heir \in L /\ lv[heir] + 1 = lv[root_id] /\ lv[heir] \in Nat /\ PageAt(P2[heir], lv[heir], lv, L, Ids(N))
    <3>1. lv[heir] \in Nat /\ PageAt(P2[heir], lv[heir], lv, L, Ids(N))
      BY <2>3, ShapeFacts
    <3> HIDE DEF p
    <3> QED
      BY <1>2, <1>6, <2>3, <3>1
  <2> DEFINE page == SetPageKind(P2[heir], "Root")
  <2>5. page.kind = "Root" /\ PageAt(page, lv[heir], lv, L, Ids(N))
    BY <2>4, RootKindAt
  <2> HIDE DEF page
  <2>6. Shape(With(P2, heir, page), N, lv, {i \in L : lv[i] < lv[heir]} \cup {heir}, heir)
    BY <2>4, <2>5, ShapeHeir
  <2>7. PICK K : Shape(With(P2, heir, page), N, lv, K, heir)
    BY <2>6
  <2>8. Shape(pages', N, lv, K, root_id')
    BY <1>6, <2>7 DEF page
  <2>9. TreeTyped(N, lv, K)'
    BY <1>3, <1>4, <1>6, <2>8 DEF TreeTyped, CallAt
  <2> QED
    BY <2>9
<1>7. ASSUME pages' = P2, Answer(op.req, "ok"), root_id' = root_id
      PROVE  \E K : TreeTyped(N, lv, K)'
  <2>1. TreeTyped(N, lv, L)'
    BY <1>3, <1>4, <1>7 DEF TreeTyped, CallAt
  <2> QED
    BY <2>1
<1>8. ASSUME parent # root_id, pages' = P2, op' = Underfull(op.req, parent, Front(op.trail)), root_id' = root_id, reply' = reply
      PROVE  \E K : TreeTyped(N, lv, K)'
  <2> DEFINE up == Front(op.trail)
  <2>1. up # <<>>
    BY <1>1, <1>8, TrailFacts
  <2>2. /\ Trail(pages, lv, L, root_id, up)
        /\ parent \in Kids(pages[Last(up)])
        /\ lv[Last(up)] = lv[parent] + 1
    BY <1>1, <2>1, TrailFront
  <2> HIDE DEF up, p
  <2>3. Last(up) \in L
    BY <1>1, <2>2, TrailFacts
  <2>4. P2[Last(up)] = pages[Last(up)]
    <3>1. lv[Last(up)] > lv[parent]
      BY <1>2, <2>2
    <3> QED
      BY <2>3, <3>1
  <2>5. Trail(P2, lv, L, root_id, up)
    <3>1. \A i \in L : lv[i] > lv[Last(up)] => P2[i] = pages[i]
      <4>1. \A i \in L : lv[i] \in Nat
        BY <1>1, ShapeFacts
      <4>2. \A i \in L : lv[i] > lv[Last(up)] => lv[i] > lv[parent]
        BY <1>2, <2>2, <4>1
      <4> QED
        BY <4>2
    <3>2. L \subseteq L /\ \A i \in L : lv[i] = lv[i]
      OBVIOUS
    <3> QED
      BY <1>1, <2>2, <3>1, <3>2, TrailKept
  <2>6. op'.pc = "underfull" /\ op'.trail = up /\ op'.id = parent
    BY <1>8 DEF Underfull, up
  <2>7. CallAt(pages', lv, L, root_id', op')
    BY <1>2, <1>8, <2>2, <2>4, <2>5, <2>6 DEF CallAt
  <2>8. TreeTyped(N, lv, L)'
    BY <1>4, <1>8, <2>7 DEF TreeTyped
  <2> QED
    BY <2>8
<1> HIDE DEF p
<1> QED
  BY <1>5, <1>6, <1>7, <1>8

\* A merge keeps the shape, whether or not it fails.
LEMMA TypedMerge ==
    ASSUME NEW N, NEW lv, NEW L, TreeTyped(N, lv, L), op.pc = "underfull", NEW parent, parent = Last(op.trail),
           NEW into \in L, NEW from \in L, lv[parent] = lv[into] + 1, lv[from] = lv[into],
           into # root_id, from # root_id,
           NEW sep \in 1..Len(pages[parent].cells), Merge(parent, into, from, sep), reopens' = reopens
    PROVE  \E K : TreeTyped(N, lv, K)'
<1> DEFINE merged == Merged(pages[parent], sep, pages[into], pages[from])
           P2 == MergePages(pages, parent, into, from, sep)
<1>1. /\ Shape(pages, N, lv, L, root_id) /\ Trail(pages, lv, L, root_id, op.trail)
      /\ reply.out \in Outs /\ reopens \in 0..MaxReopens
  BY DEF TreeTyped, CallAt, Idle
<1>2. parent \in L /\ lv[parent] \in Nat /\ lv[into] \in Nat
  <2>1. parent \in L
    BY <1>1, TrailFacts
  <2> QED
    BY <1>1, <2>1, ShapeFacts
<1>3. \/ ~merged.ok /\ pages' = With(pages, into, merged.page) /\ Answer(op.req, "error") /\ root_id' = root_id
      \/ merged.ok /\ CheckParentUnderfull(parent, P2)
  BY MergeIs
<1>4. /\ Shape(With(pages, into, merged.page), N, lv, L, root_id)
      /\ Shape(P2, N, lv, L, root_id)
      /\ \A i \in L : i # into /\ i # parent => P2[i] = pages[i]
  BY <1>1, <1>2, MergeShape
<1> HIDE DEF merged, P2
<1>5. CASE pages' = With(pages, into, merged.page) /\ Answer(op.req, "error") /\ root_id' = root_id
  <2>1. op' = Idle /\ reply'.out \in Outs
    BY <1>5 DEF Answer, Outs
  <2>2. TreeTyped(N, lv, L)'
    BY <1>1, <1>4, <1>5, <2>1 DEF TreeTyped, CallAt
  <2> QED
    BY <2>2
<1>6. CASE CheckParentUnderfull(parent, P2)
  <2>1. \A i \in L : lv[i] > lv[parent] => P2[i] = pages[i]
    <3>1. \A i \in L : lv[i] > lv[parent] => i # into /\ i # parent
      BY <1>2
    <3> QED
      BY <1>4, <3>1
  <2> QED
    BY <1>4, <1>6, <2>1, TypedCheck
<1> QED
  BY <1>3, <1>5, <1>6

-----------------------------------------------------------------------------
(* Type correctness. *)

\* handle_underfull keeps the shape.
LEMMA TypedUnderfull ==
    ASSUME NEW N, NEW lv, NEW L, TreeTyped(N, lv, L), HandleUnderfull
    PROVE  \E K : TreeTyped(N, lv, K)'
<1> DEFINE parent == Last(op.trail)
           s == Siblings(pages[parent], op.id)
           q == pages[parent]
<1>1. /\ op.pc = "underfull" /\ reopens' = reopens
      /\ \/ RedistributeFromLeft(parent, s)
         \/ RedistributeFromRight(parent, s)
         \/ MergeWithLeft(parent, s)
         \/ MergeWithRight(parent, s)
         \/ /\ Answer(op.req, "ok")
            /\ UNCHANGED <<pages, root_id>>
  BY Zenon DEF HandleUnderfull
<1>2. /\ Shape(pages, N, lv, L, root_id)
      /\ op.id \in L /\ parent \in L /\ lv[parent] = lv[op.id] + 1 /\ op.id # root_id /\ lv[parent] # 0
      /\ Beside(q, op.id, s)
      /\ s.left # -1 => s.left \in L /\ lv[s.left] = lv[op.id] /\ s.left # root_id
      /\ s.right # -1 => s.right \in L /\ lv[s.right] = lv[op.id] /\ s.right # root_id
  BY <1>1, Family
<1>3. Len(q.cells) \in Nat
  BY <1>2, ParentPage
<1> HIDE DEF q
<1>4. /\ s.left # -1 => s.idx - 1 \in 1..Len(q.cells)
      /\ s.right # -1 => s.idx \in 1..Len(q.cells)
  <2> HIDE DEF s
  <2> QED
    BY <1>2, <1>3 DEF Beside
<1>5. CASE RedistributeFromLeft(parent, s)
  <2>1. TreeTyped(N, lv, L)'
    BY <1>1, <1>5, TypedBorrowLeft
  <2> QED
    BY <2>1
<1>6. CASE RedistributeFromRight(parent, s)
  <2>1. TreeTyped(N, lv, L)'
    BY <1>1, <1>6, TypedBorrowRight
  <2> QED
    BY <2>1
<1>7. CASE MergeWithLeft(parent, s)
  <2>1. s.left # -1 /\ Merge(parent, s.left, op.id, s.idx - 1)
    BY <1>7 DEF MergeWithLeft
  <2>2. PICK i : i = s.idx - 1
    OBVIOUS
  <2>3. s.left \in L /\ lv[s.left] = lv[op.id] /\ s.left # root_id /\ i \in 1..Len(pages[parent].cells)
    BY <1>2, <1>4, <2>1, <2>2 DEF q
  <2>4. Merge(parent, s.left, op.id, i)
    BY <2>1, <2>2
  <2> HIDE DEF s, parent
  <2> QED
    BY <1>1, <1>2, <2>3, <2>4, TypedMerge DEF parent
<1>8. CASE MergeWithRight(parent, s)
  <2>1. s.right # -1 /\ Merge(parent, op.id, s.right, s.idx)
    BY <1>8 DEF MergeWithRight
  <2>3. s.right \in L /\ lv[s.right] = lv[op.id] /\ s.right # root_id /\ s.idx \in 1..Len(pages[parent].cells)
    BY <1>2, <1>4, <2>1 DEF q
  <2> HIDE DEF s, parent
  <2> QED
    BY <1>1, <1>2, <2>1, <2>3, TypedMerge DEF parent
<1>9. CASE Answer(op.req, "ok") /\ UNCHANGED <<pages, root_id>>
  <2>1. TreeTyped(N, lv, L)'
    BY <1>1, <1>9 DEF TreeTyped, CallAt, Answer, Outs
  <2> QED
    BY <2>1
<1> QED
  BY <1>1, <1>5, <1>6, <1>7, <1>8, <1>9

\* Files with one root are opened with it.
LEMMA OnlyRoot ==
    ASSUME NEW N, NEW lv, NEW L, Shape(pages, N, lv, L, root_id),
           Cardinality({id \in DOMAIN pages : pages[id].kind = "Root"}) = 1
    PROVE  {id \in DOMAIN pages : pages[id].kind = "Root"} = {root_id} /\ OpenedRoot = root_id
<1> DEFINE roots == {id \in DOMAIN pages : pages[id].kind = "Root"}
<1>1. /\ N \in Nat /\ DOMAIN pages = Ids(N) /\ root_id \in Ids(N) /\ root_id \in Nat /\ pages[root_id].kind = "Root"
  BY ShapeFacts
<1>2. roots \subseteq Ids(N) /\ root_id \in roots
  BY <1>1
<1>3. IsFiniteSet(roots)
  <2>1. IsFiniteSet(Ids(N))
    BY <1>1, FS_Interval DEF Ids
  <2> HIDE DEF roots
  <2> QED
    BY <1>2, <2>1, FS_Subset
<1>4. roots = {root_id}
  <2>1. Cardinality(roots) = 1
    OBVIOUS
  <2> HIDE DEF roots
  <2>2. PICK x : roots = {x}
    BY <1>3, <2>1, FS_Singleton
  <2> QED
    BY <1>2, <2>2
<1>5. OpenedRoot = root_id
  <2>1. OpenedRoot = IF roots = {} THEN 0 ELSE CHOOSE id \in roots : \A r \in roots : id <= r
    BY DEF OpenedRoot
  <2> HIDE DEF roots
  <2> QED
    BY <1>1, <1>4, <2>1
<1> QED
  BY <1>4, <1>5

\* The inductive invariant: there are levels that give the pages their shape.
TypedInv == \E N, lv, L : TreeTyped(N, lv, L)

\* Every step keeps the shape.
LEMMA TypedStep ==
    ASSUME TypedInv, [Next]_vars, OneRoot
    PROVE  TypedInv'
<1>1. PICK N, lv, L : TreeTyped(N, lv, L)
  BY DEF TypedInv
<1> SUFFICES \E M, mv, K : TreeTyped(M, mv, K)'
  BY DEF TypedInv
<1>2. ASSUME NEW key \in Keys, Get(key) PROVE \E M, mv, K : TreeTyped(M, mv, K)'
  <2>1. TreeTyped(N, lv, L)'
    BY <1>1, <1>2, TypedGet
  <2> QED
    BY <2>1
<1>0. ASSUME NEW key \in Keys, RefuseRow(key) PROVE \E M, mv, K : TreeTyped(M, mv, K)'
  <2>1. TreeTyped(N, lv, L)'
    BY <1>0, <1>1, TypedRefuse
  <2> QED
    BY <2>1
<1>3. ASSUME NEW key \in Keys, NEW record \in Records[key], Insert(key, record) PROVE \E M, mv, K : TreeTyped(M, mv, K)'
  <2>1. TreeTyped(N, lv, L)'
    BY <1>1, <1>3, TypedInsert
  <2> QED
    BY <2>1
<1>4. ASSUME NEW key \in Deletable, Delete(key) PROVE \E M, mv, K : TreeTyped(M, mv, K)'
  <2>1. TreeTyped(N, lv, L)'
    BY <1>1, <1>4, TypedDelete, TreeAssumption DEF TreeAssumption
  <2> QED
    BY <2>1
<1>5. ASSUME HandleOverfull PROVE \E M, mv, K : TreeTyped(M, mv, K)'
  BY <1>1, <1>5, TypedOverfull
<1>6. ASSUME HandleUnderfull PROVE \E M, mv, K : TreeTyped(M, mv, K)'
  BY <1>1, <1>6, TypedUnderfull
<1>7. ASSUME Reopen PROVE \E M, mv, K : TreeTyped(M, mv, K)'
  <2>1. /\ op = Idle /\ reopens < MaxReopens /\ root_id' = OpenedRoot /\ reopens' = reopens + 1
        /\ pages' = pages /\ op' = op /\ reply' = reply
    BY <1>7 DEF Reopen
  <2>2. reopens \in 0..MaxReopens /\ MaxReopens \in Nat
    BY <1>1, TreeAssumption DEF TreeTyped, TreeAssumption
  <2>3. reopens' \in 0..MaxReopens /\ reopens' # reopens
    BY <2>1, <2>2
  <2>4. root_id' = root_id
    BY <1>1, <2>1, <2>3, OnlyRoot DEF OneRoot, TreeTyped
  <2>5. TreeTyped(N, lv, L)'
    BY <1>1, <2>1, <2>3, <2>4 DEF TreeTyped, CallAt
  <2> QED
    BY <2>5
<1>8. ASSUME UNCHANGED vars PROVE \E M, mv, K : TreeTyped(M, mv, K)'
  <2>1. TreeTyped(N, lv, L)'
    BY <1>1, <1>8 DEF vars, TreeTyped, CallAt
  <2> QED
    BY <2>1
<1> QED
  BY <1>0, <1>2, <1>3, <1>4, <1>5, <1>6, <1>7, <1>8 DEF Next

\* The tree's pages, its root and its calls are what they should be in every state: through
\* every interleaving of splits, borrowing, merges and collapses of the root, calls that fail
\* half way included, while the files are opened only with one page that says it is a root.
THEOREM TreeIsTyped == Spec /\ [][OneRoot]_vars => []TypeOK
<1>1. Init => TypedInv
  BY TypedInit DEF TypedInv
<1>2. TypedInv /\ [Next]_vars /\ [OneRoot]_vars => TypedInv'
  <2>1. UNCHANGED vars => OneRoot
    BY DEF vars, OneRoot
  <2> QED
    BY <2>1, TypedStep
<1>3. TypedInv => TypeOK
  BY TypedOK DEF TypedInv
<1> QED
  BY <1>1, <1>2, <1>3, PTL DEF Spec
=============================================================================
