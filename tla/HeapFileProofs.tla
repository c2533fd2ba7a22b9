--------------------------- MODULE HeapFileProofs ---------------------------
(***************************************************************************)
(* The heap file, for pages of every size, any records, rows, keys and      *)
(* number of pages: records never overlap, every row and every chain reads  *)
(* back, and a row is refused for its size only.                            *)
(***************************************************************************)
EXTENDS HeapFile, FiniteSetTheorems, SequenceTheorems, WellFoundedInduction, TLAPS

-----------------------------------------------------------------------------
(* Induction over the natural numbers, of sets and not of operators, and loops. *)

\* The smallest counterexample, which the proofs by induction refute.
LEMMA LeastNatural ==
    ASSUME NEW S \in SUBSET Nat, S # {}
    PROVE  \E m \in S : \A k \in S : m <= k
<1> DEFINE R == {p \in Nat \X Nat : p[1] < p[2]}
<1>1. IsWellFoundedOn(OpToRel(<, Nat), Nat)
      BY NatLessThanWellFounded
<1>2. IsWellFoundedOn(R, Nat)
      BY <1>1 DEF OpToRel
<1> HIDE DEF R
<1>3. PICK m \in S : \A k \in S : <<k, m>> \notin R
      BY <1>2, WFMin
<1>4. ASSUME NEW k \in S
      PROVE  m <= k
  <2>1. <<k, m>> \notin R /\ <<k, m>> \in Nat \X Nat
        BY <1>3
  <2>2. ~(k < m)
        BY <2>1, Zenon DEF R
  <2> QED  BY <2>2
<1> QED  BY <1>4

\* What holds of 0, and of each number of a loop's counter if it does of the one
\* before, holds up to its end.
LEMMA UpTo ==
    ASSUME NEW N \in Nat, NEW P, 0 \in P, \A i \in 1..N : i - 1 \in P => i \in P
    PROVE  \A i \in 0..N : i \in P
<1> DEFINE Bad == {i \in 0..N : i \notin P}
<1> SUFFICES ASSUME Bad # {} PROVE FALSE
  OBVIOUS
<1>1. PICK n \in Bad : \A k \in Bad : n <= k
  <2>1. Bad \in SUBSET Nat
    OBVIOUS
  <2> HIDE DEF Bad
  <2> QED
    BY <2>1, LeastNatural
<1>2. n \in 1..N /\ n - 1 \in 0..N
  OBVIOUS
<1>3. n - 1 \notin Bad
  <2>1. ~(n <= n - 1)
    BY <1>2
  <2> HIDE DEF Bad
  <2> QED
    BY <1>1, <2>1
<1> QED
  BY <1>2, <1>3

\* A run of a loop: from base, by the step G, through the states of S, and the only one.
IsRun(f, N, S, base, G) ==
    /\ f \in [0..N -> S]
    /\ f[0] = base
    /\ \A i \in 1..N : f[i] = G[<<i, f[i - 1]>>]
    /\ \A g : /\ g = [i \in 0..N |-> g[i]]
              /\ g[0] = base
              /\ \A i \in 1..N : g[i - 1] \in S => g[i] = G[<<i, g[i - 1]>>]
              => g = f

\* A loop that starts in a state of S and stays in S has a run.
LEMMA LoopRuns ==
    ASSUME NEW N \in Nat, NEW S, NEW base \in S, NEW G \in [(1..N) \X S -> S]
    PROVE  \E f : IsRun(f, N, S, base, G)
<1> DEFINE Runs(f, n) == /\ f \in [0..n -> S] /\ f[0] = base
                         /\ \A i \in 1..n : f[i] = G[<<i, f[i - 1]>>]
           P == {n \in 0..N : \E f : Runs(f, n)}
<1>1. 0 \in P
  <2>1. Runs([i \in 0..0 |-> base], 0)
    OBVIOUS
  <2> HIDE DEF Runs
  <2> QED
    BY <2>1
<1>2. ASSUME NEW n \in 1..N, n - 1 \in P PROVE n \in P
  <2>1. PICK f : Runs(f, n - 1)
    BY <1>2
  <2> DEFINE v == G[<<n, f[n - 1]>>]
             h == [i \in 0..n |-> IF i = n THEN v ELSE f[i]]
  <2>2. v \in S
    <3>1. f[n - 1] \in S
      BY <2>1
    <3>2. <<n, f[n - 1]>> \in (1..N) \X S
      BY <3>1
    <3> QED
      BY <3>2
  <2>3. \A i \in 0..n - 1 : h[i] = f[i]
    OBVIOUS
  <2>4. h \in [0..n -> S]
    <3>1. \A i \in 0..n : i # n => i \in 0..n - 1
      OBVIOUS
    <3> HIDE DEF v
    <3> QED
      BY <2>1, <2>2, <3>1
  <2>5. h[0] = base
    BY <2>1, <2>3
  <2>6. ASSUME NEW i \in 1..n PROVE h[i] = G[<<i, h[i - 1]>>]
    <3>1. h[i - 1] = f[i - 1]
      BY <2>3
    <3>2. CASE i = n
      BY <3>1, <3>2
    <3>3. CASE i # n
      <4>1. i \in 1..n - 1 /\ i \in 0..n - 1
        BY <3>3
      <4>2. h[i] = f[i]
        BY <2>3, <4>1
      <4> HIDE DEF h, v
      <4> QED
        BY <2>1, <3>1, <4>1, <4>2
    <3> QED
      BY <3>2, <3>3
  <2>7. Runs(h, n)
    <3> HIDE DEF h, v
    <3> QED
      BY <2>4, <2>5, <2>6
  <2> HIDE DEF Runs, h, v
  <2> QED
    BY <2>7
<1>3. PICK f : Runs(f, N)
  <2>1. N \in P
    <3> HIDE DEF P
    <3> QED
      BY <1>1, <1>2, UpTo
  <2> HIDE DEF Runs
  <2> QED
    BY <2>1
<1>4. ASSUME NEW g, g = [i \in 0..N |-> g[i]], g[0] = base,
             \A i \in 1..N : g[i - 1] \in S => g[i] = G[<<i, g[i - 1]>>]
      PROVE  g = f
  <2> DEFINE Same == {i \in 0..N : g[i] = f[i]}
  <2>1. 0 \in Same
    BY <1>3, <1>4
  <2>2. ASSUME NEW i \in 1..N, i - 1 \in Same PROVE i \in Same
    <3>1. i - 1 \in 0..N /\ g[i - 1] = f[i - 1] /\ f[i - 1] \in S
      BY <1>3, <2>2
    <3>2. g[i] = G[<<i, g[i - 1]>>]
      BY <1>4, <3>1
    <3>3. f[i] = G[<<i, f[i - 1]>>]
      BY <1>3
    <3> QED
      BY <3>1, <3>2, <3>3
  <2>3. \A i \in 0..N : i \in Same
    <3> HIDE DEF Same
    <3> QED
      BY <2>1, <2>2, UpTo
  <2>4. \A i \in 0..N : g[i] = f[i]
    BY <2>3
  <2>5. f = [i \in 0..N |-> f[i]]
    BY <1>3
  <2> QED
    BY <1>4, <2>4, <2>5
<1> HIDE DEF P
<1> QED
  BY <1>3, <1>4 DEF IsRun

-----------------------------------------------------------------------------
Cells == [cell_offset : Nat, cell_size : Nat, data : Records]

\* The bytes between the slots and the records.
Free(p) == p.free_end - p.free_start

GoodPages ==
    {p \in [primary : BOOLEAN, has_overflow : BOOLEAN, ptr : Nat,
            free_start : Nat, free_end : Nat, slots : Seq(Cells)] :
        LaidOut(p) /\ Free(p) <= Room}
-----------------------------------------------------------------------------
(* One page. *)

LEMMA NewPageGood ==
    ASSUME NEW primary \in BOOLEAN
    PROVE  /\ NewPage(primary) \in GoodPages
           /\ NewPage(primary).ptr = 0 /\ ~NewPage(primary).has_overflow
           /\ Data(NewPage(primary)) = <<>> /\ Free(NewPage(primary)) = Room
<1> DEFINE p == NewPage(primary)
<1>1. /\ p = [primary |-> primary, has_overflow |-> FALSE, ptr |-> 0,
              free_start |-> 21, free_end |-> PAGE_SIZE, slots |-> <<>>]
      /\ PAGE_SIZE \in Nat /\ 21 <= PAGE_SIZE
  BY HeapAssumption DEF NewPage, HEAP_HEADER_SIZE
<1> HIDE DEF p
<1>2. p.slots = <<>> /\ p.free_start = 21 /\ p.free_end = PAGE_SIZE /\ p.ptr = 0 /\ ~p.has_overflow
  BY <1>1
<1>3. Len(p.slots) = 0 /\ DOMAIN p.slots = {}
  BY <1>2
<1>4. LaidOut(p)
  BY <1>1, <1>2, <1>3 DEF LaidOut, HEAP_HEADER_SIZE, SLOT_SIZE
<1>6. Data(p) = <<>>
  BY <1>2, <1>3 DEF Data
<1>7. Free(p) = Room /\ Free(p) <= Room
  BY <1>1, <1>2 DEF Free, Room, HEAP_HEADER_SIZE
<1>5. p \in GoodPages
  BY <1>1, <1>4, <1>7 DEF GoodPages
<1> QED
  BY <1>2, <1>5, <1>6, <1>7 DEF p

LEMMA GoodPageFields ==
    ASSUME NEW p \in GoodPages
    PROVE  /\ p.primary \in BOOLEAN /\ p.has_overflow \in BOOLEAN
           /\ p.ptr \in Nat /\ p.free_start \in Nat
           /\ p.free_end \in Nat /\ p.slots \in Seq(Cells)
           /\ LaidOut(p) /\ p.free_start <= p.free_end
           /\ Free(p) \in Nat /\ Free(p) <= Room
BY DEF GoodPages, LaidOut, Free

LEMMA DataTyped ==
    ASSUME NEW p \in GoodPages
    PROVE  Data(p) \in Seq(Records) /\ Len(Data(p)) = Len(p.slots)
<1>1. p.slots \in Seq(Cells) /\ DOMAIN p.slots = 1..Len(p.slots) /\ Len(p.slots) \in Nat
  BY GoodPageFields
<1>2. ASSUME NEW j \in 1..Len(p.slots) PROVE p.slots[j].data \in Records
  <2>1. p.slots[j] \in Cells
    BY <1>1
  <2> QED
    BY <2>1 DEF Cells
<1>3. Data(p) = [j \in 1..Len(p.slots) |-> p.slots[j].data]
  BY <1>1 DEF Data
<1> HIDE DEF Data
<1> QED
  BY <1>1, <1>2, <1>3

\* A record put on a page that has room for it goes below the others.
LEMMA AddCellGood ==
    ASSUME NEW p \in GoodPages, NEW r \in Records, Fits(p, r)
    PROVE  /\ AddCell(p, r) \in GoodPages
           /\ AddCell(p, r).ptr = p.ptr /\ AddCell(p, r).has_overflow = p.has_overflow
           /\ AddCell(p, r).primary = p.primary
           /\ Data(AddCell(p, r)) = Append(Data(p), r)
           /\ Free(AddCell(p, r)) = Free(p) - (r.size + SLOT_SIZE)
<1> DEFINE n == Len(p.slots)
           cell == [cell_offset |-> p.free_end - r.size, cell_size |-> r.size, data |-> r]
           k == AddCell(p, r)
<1>1. /\ n \in Nat /\ p.slots \in Seq(Cells) /\ r.size \in Nat
      /\ p.free_start \in Nat /\ p.free_end \in Nat
      /\ p.free_end - r.size >= p.free_start + 4
  BY GoodPageFields, HeapAssumption DEF Fits, SLOT_SIZE
<1>2. cell \in Cells /\ cell.cell_offset = p.free_end - r.size /\ cell.cell_size = r.size
      /\ cell.data = r
  BY <1>1 DEF Cells
<1>3. k = [primary |-> p.primary, has_overflow |-> p.has_overflow, ptr |-> p.ptr,
           free_start |-> p.free_start + 4, free_end |-> p.free_end - r.size,
           slots |-> Append(p.slots, cell)]
  <2>1. PICK a, b, c, d, e, f :
           p = [primary |-> a, has_overflow |-> b, ptr |-> c,
                free_start |-> d, free_end |-> e, slots |-> f]
    BY Zenon DEF GoodPages
  <2>2. /\ p.primary = a /\ p.has_overflow = b /\ p.ptr = c
        /\ p.free_start = d /\ p.free_end = e /\ p.slots = f
    BY <2>1
  <2>3. AddCell(p, r) = [primary |-> a, has_overflow |-> b, ptr |-> c,
                         free_start |-> d + 4, free_end |-> e - r.size,
                         slots |-> Append(f, cell)]
    <3>1. AddCell(p, r) = [p EXCEPT !.slots = Append(f, cell), !.free_start = d + 4,
                                    !.free_end = e - r.size]
      BY <2>2, Zenon DEF AddCell, SLOT_SIZE
    <3> HIDE DEF cell, k
    <3> QED
      BY <2>1, <3>1
  <2> HIDE DEF cell
  <2> QED
    BY <2>2, <2>3
<1> HIDE DEF cell, k
<1>4. /\ k.primary = p.primary /\ k.has_overflow = p.has_overflow /\ k.ptr = p.ptr
      /\ k.free_start = p.free_start + 4 /\ k.free_end = p.free_end - r.size
      /\ k.slots = Append(p.slots, cell)
  BY <1>3
<1>5. /\ k.slots \in Seq(Cells) /\ Len(k.slots) = n + 1 /\ k.slots[n + 1] = cell
      /\ \A i \in 1..n : k.slots[i] = p.slots[i]
      /\ DOMAIN k.slots = 1..n + 1 /\ DOMAIN p.slots = 1..n
  BY <1>1, <1>2, <1>4
<1>6. LaidOut(k)
  <2>1. /\ p.free_start = 21 + 4 * n /\ p.free_start <= p.free_end
        /\ p.free_end = IF n + 1 = 1 THEN PAGE_SIZE ELSE p.slots[n].cell_offset
        /\ \A i \in 1..n :
              /\ p.slots[i].cell_offset + p.slots[i].cell_size
                    = IF i = 1 THEN PAGE_SIZE ELSE p.slots[i - 1].cell_offset
              /\ p.slots[i].cell_size = p.slots[i].data.size
    <3>1. LaidOut(p)
      BY GoodPageFields
    <3>2. (n + 1) - 1 = n
      BY <1>1
    <3> QED
      BY <1>5, <3>1, <3>2 DEF LaidOut, HEAP_HEADER_SIZE, SLOT_SIZE
  <2>2. k.free_start = 21 + 4 * (n + 1) /\ k.free_start <= k.free_end
    BY <1>1, <1>4, <2>1
  <2>3. k.free_end = IF (n + 1) + 1 = 1 THEN PAGE_SIZE ELSE k.slots[((n + 1) + 1) - 1].cell_offset
    <3>1. ((n + 1) + 1) - 1 = n + 1 /\ (n + 1) + 1 # 1
      BY <1>1
    <3> QED
      BY <1>2, <1>4, <1>5, <3>1
  <2>4. ASSUME NEW i \in 1..n + 1
        PROVE  /\ k.slots[i].cell_offset + k.slots[i].cell_size
                    = IF i = 1 THEN PAGE_SIZE ELSE k.slots[i - 1].cell_offset
               /\ k.slots[i].cell_size = k.slots[i].data.size
    <3>1. CASE i = n + 1
      <4>1. k.slots[i] = cell
        BY <1>5, <3>1
      <4>2. k.slots[i].cell_offset + k.slots[i].cell_size = p.free_end
        BY <1>1, <1>2, <4>1
      <4>3. IF i = 1 THEN p.free_end = PAGE_SIZE ELSE p.free_end = k.slots[i - 1].cell_offset
        <5>1. CASE n = 0
          BY <2>1, <3>1, <5>1
        <5>2. CASE n # 0
          <6>1. i # 1 /\ n + 1 # 1 /\ i - 1 = n /\ n \in 1..n
            BY <1>1, <3>1, <5>2
          <6>2. k.slots[n] = p.slots[n]
            BY <1>5, <6>1
          <6> QED
            BY <2>1, <6>1, <6>2
        <5> QED
          BY <5>1, <5>2
      <4> QED
        BY <1>2, <4>1, <4>2, <4>3
    <3>2. CASE i # n + 1
      <4>1. i \in 1..n /\ (i # 1 => i - 1 \in 1..n)
        BY <1>1, <3>2
      <4>2. k.slots[i] = p.slots[i] /\ (i # 1 => k.slots[i - 1] = p.slots[i - 1])
        BY <1>5, <4>1
      <4> QED
        BY <2>1, <4>1, <4>2
    <3> QED
      BY <3>1, <3>2
  <2> QED
    BY <1>5, <2>2, <2>3, <2>4 DEF LaidOut, HEAP_HEADER_SIZE, SLOT_SIZE
<1>7. k \in GoodPages
  <2>1. k.free_start \in Nat /\ k.free_end \in Nat
    BY <1>1, <1>4
  <2>2. p.primary \in BOOLEAN /\ p.has_overflow \in BOOLEAN /\ p.ptr \in Nat
    BY GoodPageFields
  <2>3. Free(k) <= Room
    <3>1. Free(p) <= Room /\ Room \in Int
      BY GoodPageFields, HeapAssumption DEF Room, HEAP_HEADER_SIZE
    <3> QED
      BY <1>1, <1>4, <3>1 DEF Free
  <2> QED
    BY <1>3, <1>4, <1>5, <1>6, <2>1, <2>2, <2>3 DEF GoodPages
<1>8. Data(k) = Append(Data(p), r)
  <2> DEFINE d == Data(p)
             e == Data(k)
  <2>1. d = [j \in 1..n |-> p.slots[j].data] /\ e = [j \in 1..n + 1 |-> k.slots[j].data]
    BY <1>5 DEF Data
  <2> HIDE DEF d, e
  <2>2. d \in Seq(Records) /\ Len(d) = n
    BY <2>1, DataTyped DEF d
  <2>3. e \in Seq(Records) /\ Len(e) = n + 1
    BY <1>7, <1>5, DataTyped DEF e
  <2>4. ASSUME NEW j \in 1..n + 1 PROVE e[j] = Append(d, r)[j]
    <3>1. CASE j = n + 1
      <4>1. Append(d, r)[n + 1] = r
        BY <2>2
      <4> QED
        BY <1>2, <1>5, <2>1, <3>1, <4>1
    <3>2. CASE j # n + 1
      <4>1. j \in 1..n
        BY <1>1, <3>2
      <4>2. Append(d, r)[j] = d[j]
        BY <2>2, <4>1
      <4> QED
        BY <1>5, <2>1, <4>1, <4>2
    <3> QED
      BY <3>1, <3>2
  <2>5. Append(d, r) \in Seq(Records) /\ Len(Append(d, r)) = n + 1
    BY <2>2
  <2>6. e = Append(d, r)
    BY <2>3, <2>4, <2>5, SeqEqual
  <2> QED
    BY <2>6 DEF d, e
<1>9. Free(k) = Free(p) - (r.size + SLOT_SIZE)
  BY <1>1, <1>4 DEF Free, SLOT_SIZE
<1> QED
  BY <1>4, <1>7, <1>8, <1>9 DEF k
-----------------------------------------------------------------------------
(* Chains.  An overflow page is allocated after the page that leads to it,  *)
(* so ids grow along a chain: it ends, and Chain finds the one there is.    *)

FileOK(h) ==
    LET N == Cardinality(DOMAIN h)
    IN  /\ N \in Nat
        /\ h \in [0..N - 1 -> GoodPages]
        /\ \A id \in DOMAIN h : h[id].has_overflow => id < h[id].ptr /\ h[id].ptr < N
        /\ \A id \in DOMAIN h : ~h[id].has_overflow => h[id].ptr = 0
        /\ \A p, q \in DOMAIN h :
              h[p].has_overflow /\ h[q].has_overflow /\ h[p].ptr = h[q].ptr => p = q

FollowsLinks(h, c) == \A i \in 1..Len(c) - 1 : h[c[i]].has_overflow /\ h[c[i]].ptr = c[i + 1]

IsChain(h, c, id) ==
    /\ c \in Seq(DOMAIN h) /\ Len(c) > 0 /\ c[1] = id
    /\ FollowsLinks(h, c)
    /\ ~h[c[Len(c)]].has_overflow

\* The ways from a page along the links, as far as they are gone.
Walks(h, id) ==
    {c \in Seq(DOMAIN h) :
        /\ Len(c) > 0 /\ c[1] = id
        /\ FollowsLinks(h, c)
        /\ Len(c) - 1 <= c[Len(c)]}

HopFrom(h, c) == IF h[Last(c)].has_overflow THEN Append(c, h[Last(c)].ptr) ELSE c

LEMMA HopWalks ==
    ASSUME NEW h, FileOK(h), NEW id \in DOMAIN h, NEW c \in Walks(h, id)
    PROVE  /\ HopFrom(h, c) \in Walks(h, id)
           /\ Last(c) = c[Len(c)] /\ c[Len(c)] \in DOMAIN h /\ Len(c) \in Nat
           /\ h[Last(c)].has_overflow => Len(HopFrom(h, c)) = Len(c) + 1
           /\ ~h[Last(c)].has_overflow => HopFrom(h, c) = c
<1> DEFINE n == Len(c)
           v == h[c[n]].ptr
           d == Append(c, v)
<1>1. /\ c \in Seq(DOMAIN h) /\ n \in Nat /\ n > 0 /\ c[1] = id /\ n - 1 <= c[n]
      /\ FollowsLinks(h, c)
  BY DEF Walks
<1>2. n \in 1..n /\ c[n] \in DOMAIN h /\ Last(c) = c[n]
  BY <1>1 DEF Last
<1>3. CASE ~h[Last(c)].has_overflow
  BY <1>1, <1>2, <1>3 DEF HopFrom
<1>4. CASE h[Last(c)].has_overflow
  <2>1. c[n] \in Nat /\ v \in DOMAIN h /\ c[n] < v /\ v \in Nat
    <3>1. PICK N : N \in Nat /\ DOMAIN h = 0..N - 1 /\ c[n] < v /\ v < N
      BY <1>2, <1>4 DEF FileOK
    <3>2. v \in Nat
      <4>1. h[c[n]] \in GoodPages
        BY <1>2 DEF FileOK
      <4> QED
        BY <4>1, GoodPageFields
    <3> QED
      BY <1>2, <3>1, <3>2
  <2>2. HopFrom(h, c) = d
    BY <1>2, <1>4 DEF HopFrom
  <2>3. /\ d \in Seq(DOMAIN h) /\ Len(d) = n + 1 /\ d[n + 1] = v
        /\ \A i \in 1..n : d[i] = c[i]
    BY <1>1, <2>1
  <2>4. d[1] = id /\ Len(d) > 0 /\ Len(d) - 1 <= d[Len(d)]
    BY <1>1, <2>1, <2>3
  <2>5. FollowsLinks(h, d)
    <3> SUFFICES ASSUME NEW i \in 1..n PROVE h[d[i]].has_overflow /\ h[d[i]].ptr = d[i + 1]
      BY <1>1, <2>3 DEF FollowsLinks
    <3>1. CASE i = n
      BY <1>2, <1>4, <2>3, <3>1
    <3>2. CASE i # n
      <4>1. i \in 1..n - 1 /\ i + 1 \in 1..n
        BY <1>1, <3>2
      <4>2. d[i] = c[i] /\ d[i + 1] = c[i + 1]
        BY <2>3, <4>1
      <4> QED
        BY <1>1, <4>1, <4>2 DEF FollowsLinks
    <3> QED
      BY <3>1, <3>2
  <2>6. d \in Walks(h, id)
    BY <2>3, <2>4, <2>5 DEF Walks
  <2> QED
    BY <1>1, <1>2, <1>4, <2>2, <2>3, <2>6
<1> QED
  BY <1>3, <1>4

\* What find_tail_id and free_chain go along is the chain of the page's links.
LEMMA ChainIsChain ==
    ASSUME NEW h, FileOK(h), NEW id \in DOMAIN h
    PROVE  IsChain(h, Chain(h, id), id) /\ Chain(h, id) # Endless
<1> DEFINE N == Cardinality(DOMAIN h)
           W == Walks(h, id)
           base == <<id>>
           G == [x \in (1..N) \X W |-> HopFrom(h, x[2])]
           Runs(g) == g = [n \in 0..N |-> IF n = 0 THEN base ELSE HopFrom(h, g[n - 1])]
           walk == CHOOSE g : Runs(g)
<1>1. N \in Nat /\ DOMAIN h = 0..N - 1
  BY DEF FileOK
<1>0. base \in Seq(DOMAIN h) /\ Len(base) = 1 /\ base[1] = id
  OBVIOUS
<1>2. base \in W
  <2> HIDE DEF base
  <2>1. 1..Len(base) - 1 = {} /\ Len(base) - 1 <= base[Len(base)] /\ Len(base) > 0
    BY <1>0, <1>1
  <2> QED
    BY <1>0, <2>1 DEF Walks, FollowsLinks
<1>3. G \in [(1..N) \X W -> W]
  BY HopWalks
<1>4. PICK f : IsRun(f, N, W, base, G)
  <2> HIDE DEF G, W, N, base
  <2> QED
    BY <1>1, <1>2, <1>3, LoopRuns
<1>5. ASSUME NEW i \in 1..N PROVE f[i] = HopFrom(h, f[i - 1])
  <2>1. <<i, f[i - 1]>> \in (1..N) \X W
    <3> HIDE DEF N, W
    <3> QED
      BY <1>1, <1>4 DEF IsRun
  <2>2. f[i] = G[<<i, f[i - 1]>>]
    BY <1>4 DEF IsRun
  <2> QED
    BY <2>1, <2>2
<1>6. walk = f
  <2>1. Runs(f)
    <3>1. ASSUME NEW n \in 0..N
          PROVE  f[n] = IF n = 0 THEN base ELSE HopFrom(h, f[n - 1])
      <4>1. n = 0 \/ n \in 1..N
        BY <1>1
      <4>2. f[0] = base
        BY <1>4 DEF IsRun
      <4> QED
        BY <1>5, <4>1, <4>2
    <3>2. f = [n \in 0..N |-> f[n]]
      BY <1>4 DEF IsRun
    <3> HIDE DEF N, W, G
    <3> QED
      BY <3>1, <3>2
  <2>2. Runs(walk)
    <3> HIDE DEF Runs
    <3> QED
      BY <2>1
  <2> HIDE DEF walk
  <2>3. walk = [n \in 0..N |-> walk[n]] /\ walk[0] = base
    BY <1>1, <2>2
  <2>4. ASSUME NEW i \in 1..N, walk[i - 1] \in W PROVE walk[i] = G[<<i, walk[i - 1]>>]
    <3>1. i \in 0..N /\ i # 0
      BY <1>1
    <3>2. walk[i] = HopFrom(h, walk[i - 1])
      BY <2>2, <3>1
    <3>3. <<i, walk[i - 1]>> \in (1..N) \X W
      BY <2>4
    <3> QED
      BY <3>2, <3>3
  <2> HIDE DEF G, W, N, base
  <2> QED
    BY <1>4, <2>3, <2>4 DEF IsRun
<1>7. Chain(h, id) = IF h[Last(f[N])].has_overflow THEN <<>> ELSE f[N]
  <2>1. Chain(h, id) = IF h[Last(walk[N])].has_overflow THEN <<>> ELSE walk[N]
    BY Zenon DEF Chain, HopFrom, Endless
  <2> HIDE DEF walk
  <2> QED
    BY <1>6, <2>1
<1> DEFINE P == {n \in 0..N : h[Last(f[n])].has_overflow => Len(f[n]) = n + 1}
<1>8. \A n \in 0..N : n \in P
  <2>1. 0 \in P
    <3>1. f[0] = base
      BY <1>4 DEF IsRun
    <3> HIDE DEF base
    <3> QED
      BY <1>0, <1>1, <3>1
  <2>2. ASSUME NEW n \in 1..N, n - 1 \in P PROVE n \in P
    <3>1. f[n - 1] \in Walks(h, id) /\ n \in 0..N /\ n - 1 \in 0..N
      BY <1>1, <1>4 DEF IsRun
    <3>2. f[n] = HopFrom(h, f[n - 1])
      BY <1>5
    <3>3. CASE h[Last(f[n - 1])].has_overflow
      BY <2>2, <3>1, <3>2, <3>3, HopWalks
    <3>4. CASE ~h[Last(f[n - 1])].has_overflow
      <4>1. f[n] = f[n - 1]
        BY <3>1, <3>2, <3>4, HopWalks
      <4> QED
        BY <3>1, <3>4, <4>1
    <3> QED
      BY <3>3, <3>4
  <2> HIDE DEF P, N
  <2> QED
    BY <1>1, <2>1, <2>2, UpTo
<1>9. f[N] \in Walks(h, id) /\ N \in P
  BY <1>1, <1>4, <1>8 DEF IsRun
<1>10. ~h[Last(f[N])].has_overflow
  <2> SUFFICES ASSUME h[Last(f[N])].has_overflow PROVE FALSE
    OBVIOUS
  <2>1. Len(f[N]) = N + 1
    BY <1>9
  <2>2. f[N][Len(f[N])] \in 0..N - 1
    BY <1>1, <1>9, HopWalks
  <2>3. Len(f[N]) - 1 <= f[N][Len(f[N])]
    BY <1>9 DEF Walks
  <2> QED
    BY <1>1, <2>1, <2>2, <2>3
<1>11. Chain(h, id) = f[N]
  BY <1>7, <1>10
<1>12. IsChain(h, f[N], id)
  <2>1. Last(f[N]) = f[N][Len(f[N])]
    BY <1>9, HopWalks
  <2> QED
    BY <1>9, <1>10, <2>1 DEF IsChain, Walks
<1>13. f[N] # <<>>
  BY <1>12 DEF IsChain
<1> QED
  BY <1>11, <1>12, <1>13 DEF Endless

LEMMA OneChain ==
    ASSUME NEW h, NEW id, NEW c, NEW d, IsChain(h, c, id), IsChain(h, d, id)
    PROVE  c = d
<1> DEFINE N == Len(c) - 1
           P == {i \in 0..N : i + 1 <= Len(d) /\ c[i + 1] = d[i + 1]}
<1>1. /\ c \in Seq(DOMAIN h) /\ d \in Seq(DOMAIN h) /\ Len(c) \in Nat /\ Len(d) \in Nat
      /\ Len(c) > 0 /\ Len(d) > 0 /\ N \in Nat /\ c[1] = d[1]
  BY DEF IsChain
<1>2. 0 \in P
  BY <1>1
<1>3. ASSUME NEW i \in 1..N, i - 1 \in P PROVE i \in P
  <2>1. i <= Len(d) /\ c[i] = d[i] /\ i \in Nat /\ i > 0
    <3>1. (i - 1) + 1 = i
      OBVIOUS
    <3> QED
      BY <1>1, <1>3, <3>1
  <2>2. h[c[i]].has_overflow /\ h[c[i]].ptr = c[i + 1]
    BY DEF IsChain, FollowsLinks
  <2>3. i # Len(d)
    BY <2>1, <2>2 DEF IsChain
  <2>4. i \in 1..Len(d) - 1
    BY <1>1, <2>1, <2>3
  <2>5. d[i + 1] = c[i + 1]
    BY <2>1, <2>2, <2>4 DEF IsChain, FollowsLinks
  <2> QED
    BY <1>1, <2>4, <2>5
<1>4. \A i \in 0..N : i \in P
  <2> HIDE DEF P, N
  <2> QED
    BY <1>1, <1>2, <1>3, UpTo
<1>5. ASSUME NEW j \in 1..Len(c) PROVE j <= Len(d) /\ c[j] = d[j]
  <2>1. j - 1 \in 0..N /\ (j - 1) + 1 = j
    BY <1>1
  <2>2. j - 1 \in P
    BY <1>4, <2>1
  <2> QED
    BY <2>1, <2>2
<1>6. Len(c) = Len(d)
  <2>1. Len(c) <= Len(d) /\ c[Len(c)] = d[Len(c)]
    BY <1>1, <1>5
  <2>2. ~h[d[Len(c)]].has_overflow
    BY <2>1 DEF IsChain
  <2>3. Len(c) \notin 1..Len(d) - 1
    BY <2>2 DEF IsChain, FollowsLinks
  <2> QED
    BY <1>1, <2>1, <2>3
<1> QED
  BY <1>1, <1>5, <1>6, SeqEqual

LEMMA ChainFound ==
    ASSUME NEW h, FileOK(h), NEW id \in DOMAIN h, NEW c, IsChain(h, c, id)
    PROVE  Chain(h, id) = c
BY ChainIsChain, OneChain

SameLink(p, q) == (p.has_overflow <=> q.has_overflow) /\ p.ptr = q.ptr

\* A chain whose pages keep their links stays the chain.
LEMMA ChainKept ==
    ASSUME NEW h, NEW k, FileOK(h), FileOK(k), NEW id \in DOMAIN h, id \in DOMAIN k,
           NEW c, IsChain(h, c, id),
           \A i \in 1..Len(c) : c[i] \in DOMAIN k /\ SameLink(h[c[i]], k[c[i]])
    PROVE  Chain(k, id) = c
<1>1. /\ c \in Seq(DOMAIN h) /\ Len(c) \in Nat /\ Len(c) > 0 /\ c[1] = id
      /\ FollowsLinks(h, c) /\ ~h[c[Len(c)]].has_overflow
  BY DEF IsChain
<1>2. c \in Seq(DOMAIN k)
  BY <1>1, SeqDef
<1>3. FollowsLinks(k, c)
  <2> SUFFICES ASSUME NEW i \in 1..Len(c) - 1
               PROVE  k[c[i]].has_overflow /\ k[c[i]].ptr = c[i + 1]
    BY DEF FollowsLinks
  <2>1. i \in 1..Len(c)
    BY <1>1
  <2> QED
    BY <1>1, <2>1 DEF FollowsLinks, SameLink
<1>4. ~k[c[Len(c)]].has_overflow
  BY <1>1 DEF SameLink
<1>5. IsChain(k, c, id)
  BY <1>1, <1>2, <1>3, <1>4 DEF IsChain
<1> QED
  BY <1>5, ChainFound
-----------------------------------------------------------------------------
(* What the pages of a chain hold together. *)

PagesOK(h) == \A q \in DOMAIN h : h[q] \in GoodPages

ReadRun(h, c, f) ==
    /\ f \in [0..Len(c) -> Seq(Records)]
    /\ f[0] = <<>>
    /\ \A i \in 1..Len(c) : f[i] = f[i - 1] \o Data(h[c[i]])

LEMMA CollectedRun ==
    ASSUME NEW h, PagesOK(h), NEW c \in Seq(DOMAIN h)
    PROVE  \E f : ReadRun(h, c, f) /\ Collected(h, c) = f[Len(c)]
<1> DEFINE N == Len(c)
           S == Seq(Records)
           base == <<>>
           G == [x \in (1..N) \X S |-> x[2] \o Data(h[c[x[1]]])]
           Runs(g) == g = [i \in 0..N |-> IF i = 0 THEN base ELSE g[i - 1] \o Data(h[c[i]])]
           read == CHOOSE g : Runs(g)
<1>1. N \in Nat /\ base \in S
  OBVIOUS
<1>2. ASSUME NEW i \in 1..N PROVE Data(h[c[i]]) \in S
  <2>1. h[c[i]] \in GoodPages
    BY DEF PagesOK
  <2> QED
    BY <2>1, DataTyped
<1>3. G \in [(1..N) \X S -> S]
  <2>1. ASSUME NEW x \in (1..N) \X S PROVE x[2] \o Data(h[c[x[1]]]) \in S
    <3>1. x[1] \in 1..N /\ x[2] \in S
      OBVIOUS
    <3>2. Data(h[c[x[1]]]) \in S
      BY <1>2, <3>1
    <3> QED
      BY <3>1, <3>2, ConcatProperties
  <2> HIDE DEF S, N
  <2> QED
    BY <2>1
<1>4. PICK f : IsRun(f, N, S, base, G)
  <2> HIDE DEF G, S, N, base
  <2> QED
    BY <1>1, <1>3, LoopRuns
<1>5. ASSUME NEW g, NEW i \in 1..N, g[i - 1] \in S PROVE G[<<i, g[i - 1]>>] = g[i - 1] \o Data(h[c[i]])
  <2>1. <<i, g[i - 1]>> \in (1..N) \X S
    BY <1>5
  <2> QED
    BY <2>1
<1>6. /\ f \in [0..N -> S] /\ f[0] = base
      /\ \A i \in 1..N : f[i] = f[i - 1] \o Data(h[c[i]])
  <2>1. f \in [0..N -> S] /\ f[0] = base
    BY <1>4 DEF IsRun
  <2>2. ASSUME NEW i \in 1..N PROVE f[i] = f[i - 1] \o Data(h[c[i]])
    <3>1. f[i - 1] \in S
      BY <1>1, <2>1
    <3>2. f[i] = G[<<i, f[i - 1]>>]
      BY <1>4 DEF IsRun
    <3> HIDE DEF G, S
    <3> QED
      BY <1>5, <3>1, <3>2
  <2> QED
    BY <2>1, <2>2
<1>7. Runs(read)
  <2>1. Runs(f)
    <3>1. ASSUME NEW i \in 0..N
          PROVE  f[i] = IF i = 0 THEN base ELSE f[i - 1] \o Data(h[c[i]])
      <4>1. i = 0 \/ i \in 1..N
        BY <1>1
      <4> QED
        BY <1>6, <4>1
    <3>2. f = [i \in 0..N |-> f[i]]
      BY <1>6
    <3> HIDE DEF N, S, G
    <3> QED
      BY <3>1, <3>2
  <2> HIDE DEF Runs
  <2> QED
    BY <2>1
<1>8. Collected(h, c) = read[N]
  BY Zenon DEF Collected
<1>9. read = f
  <2> HIDE DEF read
  <2>1. read = [i \in 0..N |-> read[i]] /\ read[0] = base
    BY <1>1, <1>7
  <2>2. ASSUME NEW i \in 1..N, read[i - 1] \in S PROVE read[i] = G[<<i, read[i - 1]>>]
    <3>1. i \in 0..N /\ i # 0
      BY <1>1
    <3>2. read[i] = read[i - 1] \o Data(h[c[i]])
      BY <1>7, <3>1
    <3> HIDE DEF G, S
    <3> QED
      BY <1>5, <2>2, <3>2
  <2> HIDE DEF G, S, N, base
  <2> QED
    BY <1>4, <2>1, <2>2 DEF IsRun
<1>10. ReadRun(h, c, f)
  BY <1>6 DEF ReadRun
<1> QED
  BY <1>8, <1>9, <1>10

\* Two chains read alike as far as their pages hold the same.
LEMMA ReadsAgree ==
    ASSUME NEW h, NEW c, NEW f, ReadRun(h, c, f), NEW k, NEW d, NEW g, ReadRun(k, d, g),
           Len(c) \in Nat, Len(d) \in Nat, NEW n \in Nat, n <= Len(c), n <= Len(d),
           \A i \in 1..n : Data(h[c[i]]) = Data(k[d[i]])
    PROVE  f[n] = g[n]
<1> DEFINE P == {i \in 0..n : f[i] = g[i]}
<1>1. 0 \in P
  BY DEF ReadRun
<1>2. ASSUME NEW i \in 1..n, i - 1 \in P PROVE i \in P
  <2>1. i \in 1..Len(c) /\ i \in 1..Len(d)
    OBVIOUS
  <2>2. f[i] = f[i - 1] \o Data(h[c[i]]) /\ g[i] = g[i - 1] \o Data(k[d[i]])
    BY <2>1 DEF ReadRun
  <2>3. f[i - 1] = g[i - 1] /\ Data(h[c[i]]) = Data(k[d[i]]) /\ i \in 0..n
    BY <1>2
  <2>4. f[i] = g[i]
    BY <2>2, <2>3, Zenon
  <2> QED
    BY <2>3, <2>4
<1>3. \A i \in 0..n : i \in P
  <2> HIDE DEF P
  <2> QED
    BY <1>1, <1>2, UpTo
<1> QED
  BY <1>3

SameData(h, k, c, n) == \A i \in 1..n : Data(h[c[i]]) = Data(k[c[i]])

LEMMA CollectedSame ==
    ASSUME NEW h, PagesOK(h), NEW k, PagesOK(k), NEW c \in Seq(DOMAIN h), c \in Seq(DOMAIN k),
           SameData(h, k, c, Len(c))
    PROVE  Collected(k, c) = Collected(h, c)
<1>1. PICK f : ReadRun(h, c, f) /\ Collected(h, c) = f[Len(c)]
  BY CollectedRun
<1>2. PICK g : ReadRun(k, c, g) /\ Collected(k, c) = g[Len(c)]
  BY CollectedRun
<1>3. Len(c) \in Nat /\ Len(c) <= Len(c)
  OBVIOUS
<1>4. f[Len(c)] = g[Len(c)]
  BY <1>1, <1>2, <1>3, ReadsAgree DEF SameData
<1> QED
  BY <1>1, <1>2, <1>4

\* One more page at the end.
LEMMA CollectedAppend ==
    ASSUME NEW h, PagesOK(h), NEW c \in Seq(DOMAIN h), NEW x \in DOMAIN h
    PROVE  /\ Collected(h, Append(c, x)) = Collected(h, c) \o Data(h[x])
           /\ Collected(h, c) \in Seq(Records)
<1> DEFINE d == Append(c, x)
<1>1. /\ d \in Seq(DOMAIN h) /\ Len(d) = Len(c) + 1 /\ d[Len(c) + 1] = x
      /\ \A i \in 1..Len(c) : d[i] = c[i]
      /\ Len(c) \in Nat /\ Len(d) \in Nat /\ Len(c) <= Len(d) /\ Len(c) <= Len(c)
      /\ Len(d) \in 1..Len(d) /\ Len(d) - 1 = Len(c)
  OBVIOUS
<1> HIDE DEF d
<1>2. PICK f : ReadRun(h, c, f) /\ Collected(h, c) = f[Len(c)]
  BY CollectedRun
<1>3. PICK g : ReadRun(h, d, g) /\ Collected(h, d) = g[Len(d)]
  BY <1>1, CollectedRun
<1>4. f[Len(c)] = g[Len(c)]
  <2>1. \A i \in 1..Len(c) : Data(h[c[i]]) = Data(h[d[i]])
    BY <1>1
  <2> QED
    BY <1>1, <1>2, <1>3, <2>1, ReadsAgree
<1>5. g[Len(d)] = g[Len(c)] \o Data(h[x])
  BY <1>1, <1>3 DEF ReadRun
<1>6. f[Len(c)] \in Seq(Records)
  BY <1>1, <1>2 DEF ReadRun
<1> QED
  BY <1>2, <1>3, <1>4, <1>5, <1>6 DEF d

\* More on the last page.
LEMMA CollectedLast ==
    ASSUME NEW h, PagesOK(h), NEW k, PagesOK(k), NEW c \in Seq(DOMAIN h), c \in Seq(DOMAIN k),
           Len(c) > 0, NEW more \in Seq(Records),
           SameData(h, k, c, Len(c) - 1),
           Data(k[c[Len(c)]]) = Data(h[c[Len(c)]]) \o more
    PROVE  Collected(k, c) = Collected(h, c) \o more
<1> DEFINE n == Len(c) - 1
<1>1. /\ Len(c) \in Nat /\ n \in Nat /\ n <= Len(c) /\ n + 1 = Len(c) /\ Len(c) \in 1..Len(c)
      /\ n \in 0..Len(c) /\ Len(c) - 1 = n
  OBVIOUS
<1>2. PICK f : ReadRun(h, c, f) /\ Collected(h, c) = f[Len(c)]
  BY CollectedRun
<1>3. PICK g : ReadRun(k, c, g) /\ Collected(k, c) = g[Len(c)]
  BY CollectedRun
<1>4. \A i \in 1..n : Data(h[c[i]]) = Data(k[c[i]])
  BY DEF SameData
<1> HIDE DEF n
<1>5. f[n] = g[n]
  BY <1>1, <1>2, <1>3, <1>4, ReadsAgree
<1>6. f[n] \in Seq(Records) /\ Data(h[c[Len(c)]]) \in Seq(Records)
  <2>1. h[c[Len(c)]] \in GoodPages
    BY <1>1 DEF PagesOK
  <2> QED
    BY <1>1, <1>2, <2>1, DataTyped DEF ReadRun
<1>7. f[Len(c)] = f[n] \o Data(h[c[Len(c)]])
  BY <1>1, <1>2 DEF ReadRun
<1>8. g[Len(c)] = g[n] \o (Data(h[c[Len(c)]]) \o more)
  BY <1>1, <1>3 DEF ReadRun
<1>9. f[n] \o (Data(h[c[Len(c)]]) \o more) = (f[n] \o Data(h[c[Len(c)]])) \o more
  <2> DEFINE a == f[n]
             b == Data(h[c[Len(c)]])
  <2>1. a \in Seq(Records) /\ b \in Seq(Records)
    BY <1>6
  <2> HIDE DEF a, b
  <2>2. (a \o b) \o more = a \o (b \o more)
    BY <2>1, ConcatAssociative
  <2> QED
    BY <2>2 DEF a, b
<1>10. g[Len(c)] = f[n] \o (Data(h[c[Len(c)]]) \o more)
  BY <1>5, <1>8, Zenon
<1>11. g[Len(c)] = f[Len(c)] \o more
  BY <1>7, <1>9, <1>10, Zenon
<1> QED
  BY <1>2, <1>3, <1>11, Zenon
-----------------------------------------------------------------------------
(* What the operations do to the file and to its chains. *)

LEMMA LinkedGood ==
    ASSUME NEW p \in GoodPages, NEW n \in Nat
    PROVE  /\ Linked(p, n) \in GoodPages
           /\ Linked(p, n).has_overflow /\ Linked(p, n).ptr = n
           /\ Data(Linked(p, n)) = Data(p)
<1> DEFINE k == Linked(p, n)
<1>1. PICK a, b, c, d, e, f :
         p = [primary |-> a, has_overflow |-> b, ptr |-> c,
              free_start |-> d, free_end |-> e, slots |-> f]
  BY Zenon DEF GoodPages
<1>2. k = [primary |-> a, has_overflow |-> TRUE, ptr |-> n,
           free_start |-> d, free_end |-> e, slots |-> f]
  <2>1. k = [p EXCEPT !.has_overflow = TRUE, !.ptr = n]
    BY Zenon DEF Linked
  <2> HIDE DEF k
  <2> QED
    BY <1>1, <2>1
<1> HIDE DEF k
<1>3. /\ k.has_overflow /\ k.ptr = n /\ k.slots = p.slots /\ k.free_start = p.free_start
      /\ k.free_end = p.free_end
  BY <1>1, <1>2
<1>4. LaidOut(k)
  <2>1. LaidOut(p)
    BY GoodPageFields
  <2> QED
    BY <1>3, <2>1 DEF LaidOut
<1>5. a \in BOOLEAN /\ d \in Nat /\ e \in Nat /\ f \in Seq(Cells)
  BY <1>1, GoodPageFields
<1>6. k \in GoodPages
  <2>1. Free(k) <= Room
    BY <1>3, GoodPageFields DEF Free
  <2> QED
    BY <1>2, <1>4, <1>5, <2>1 DEF GoodPages
<1>7. Data(k) = Data(p)
  BY <1>3 DEF Data
<1> QED
  BY <1>3, <1>6, <1>7 DEF k

LEMMA FileFacts ==
    ASSUME NEW h, FileOK(h)
    PROVE  /\ Cardinality(DOMAIN h) \in Nat
           /\ DOMAIN h = 0..Cardinality(DOMAIN h) - 1
           /\ Cardinality(DOMAIN h) \notin DOMAIN h
           /\ PagesOK(h)
<1>1. PICK N : N = Cardinality(DOMAIN h) /\ N \in Nat /\ h \in [0..N - 1 -> GoodPages]
  BY DEF FileOK
<1> QED
  BY <1>1 DEF PagesOK

LEMMA CountTo ==
    ASSUME NEW n \in Nat
    PROVE  Cardinality(0..n) = n + 1 /\ Cardinality(0..n - 1) = n
<1>1. 0 \in Int /\ n \in Int /\ n - 1 \in Int /\ ~(0 > n) /\ (0 > n - 1 <=> n = 0)
  OBVIOUS
<1>2. Cardinality(0..n) = n - 0 + 1
  BY <1>1, FS_Interval
<1>3. Cardinality(0..n - 1) = IF 0 > n - 1 THEN 0 ELSE (n - 1) - 0 + 1
  BY <1>1, FS_Interval
<1> QED
  BY <1>1, <1>2, <1>3

Changed(h, k, cur, page) ==
    cur \in DOMAIN h /\ SameLink(h[cur], page) /\ k = [h EXCEPT ![cur] = page]

\* A page changed in place, its link as it was.
LEMMA InPlace ==
    ASSUME NEW h, FileOK(h), NEW cur, NEW page \in GoodPages, NEW k, Changed(h, k, cur, page)
    PROVE  /\ FileOK(k) /\ DOMAIN k = DOMAIN h
           /\ \A id \in DOMAIN h : Chain(k, id) = Chain(h, id)
<1>1. PICK N : /\ N = Cardinality(DOMAIN h) /\ N \in Nat /\ h \in [0..N - 1 -> GoodPages]
               /\ \A id \in DOMAIN h : h[id].has_overflow => id < h[id].ptr /\ h[id].ptr < N
               /\ \A id \in DOMAIN h : ~h[id].has_overflow => h[id].ptr = 0
               /\ \A p, q \in DOMAIN h :
                     h[p].has_overflow /\ h[q].has_overflow /\ h[p].ptr = h[q].ptr => p = q
  BY Zenon DEF FileOK
<1>2. /\ DOMAIN k = DOMAIN h /\ k \in [0..N - 1 -> GoodPages]
      /\ \A q \in DOMAIN h : SameLink(h[q], k[q])
  BY <1>1 DEF SameLink, Changed
<1>3. FileOK(k)
  <2>1. Cardinality(DOMAIN k) = N
    BY <1>1, <1>2
  <2> QED
    BY <1>1, <1>2, <2>1 DEF FileOK, SameLink
<1>4. ASSUME NEW id \in DOMAIN h PROVE Chain(k, id) = Chain(h, id)
  <2>1. IsChain(h, Chain(h, id), id)
    BY ChainIsChain
  <2> DEFINE c == Chain(h, id)
  <2> HIDE DEF c
  <2>2. IsChain(h, c, id)
    BY <2>1 DEF c
  <2>3. ASSUME NEW i \in 1..Len(c)
        PROVE  c[i] \in DOMAIN k /\ SameLink(h[c[i]], k[c[i]])
    <3>1. c[i] \in DOMAIN h
      BY <2>2 DEF IsChain
    <3> QED
      BY <1>2, <3>1
  <2>4. Chain(k, id) = c
    BY <1>2, <1>3, <2>2, <2>3, ChainKept
  <2> QED
    BY <2>4 DEF c
<1> QED
  BY <1>2, <1>3, <1>4

\* A page of its own.
LEMMA AllocateApart ==
    ASSUME NEW h, FileOK(h), NEW page \in GoodPages, ~page.has_overflow, page.ptr = 0
    PROVE  LET n == Cardinality(DOMAIN h)
               k == Allocated(h, page)
           IN  /\ FileOK(k) /\ DOMAIN k = 0..n /\ Cardinality(DOMAIN k) = n + 1
               /\ k[n] = page /\ \A id \in DOMAIN h : k[id] = h[id]
               /\ \A id \in DOMAIN h : Chain(k, id) = Chain(h, id)
               /\ Chain(k, n) = <<n>>
<1> DEFINE n == Cardinality(DOMAIN h)
           k == Allocated(h, page)
<1>1. /\ n \in Nat /\ h \in [0..n - 1 -> GoodPages]
      /\ \A id \in DOMAIN h : h[id].has_overflow => id < h[id].ptr /\ h[id].ptr < n
      /\ \A id \in DOMAIN h : ~h[id].has_overflow => h[id].ptr = 0
      /\ \A p, q \in DOMAIN h :
            h[p].has_overflow /\ h[q].has_overflow /\ h[p].ptr = h[q].ptr => p = q
  BY Zenon DEF FileOK
<1>2. k = [q \in DOMAIN h \cup {n} |-> IF q \in DOMAIN h THEN h[q] ELSE page]
  BY Zenon DEF Allocated
<1> HIDE DEF n, k
<1>3. DOMAIN h = 0..n - 1 /\ DOMAIN h \cup {n} = 0..n /\ n \notin DOMAIN h
  BY <1>1
<1>4. /\ DOMAIN k = 0..n /\ k[n] = page /\ \A q \in DOMAIN h : k[q] = h[q]
      /\ k \in [0..n -> GoodPages]
  BY <1>1, <1>2, <1>3
<1>5. Cardinality(DOMAIN k) = n + 1
  BY <1>1, <1>4, CountTo
<1>6. FileOK(k)
  <2>1. /\ n + 1 \in Nat /\ (n + 1) - 1 = n
        /\ \A q \in DOMAIN k : q \in DOMAIN h \/ q = n
        /\ \A q \in DOMAIN k : k[q].has_overflow => q \in DOMAIN h /\ k[q] = h[q]
    BY <1>1, <1>3, <1>4
  <2>2. \A q \in DOMAIN k : k[q].has_overflow => q < k[q].ptr /\ k[q].ptr < n + 1
    <3> SUFFICES ASSUME NEW q \in DOMAIN k, k[q].has_overflow
                 PROVE  q < k[q].ptr /\ k[q].ptr < n + 1
      OBVIOUS
    <3>1. q \in DOMAIN h /\ k[q] = h[q]
      BY <2>1
    <3>2. h[q].ptr \in Nat /\ q < h[q].ptr /\ h[q].ptr < n
      BY <1>1, <3>1, GoodPageFields
    <3> QED
      BY <1>1, <3>1, <3>2
  <2>3. \A q \in DOMAIN k : ~k[q].has_overflow => k[q].ptr = 0
    BY <1>1, <1>4, <2>1
  <2>4. \A p, q \in DOMAIN k :
          k[p].has_overflow /\ k[q].has_overflow /\ k[p].ptr = k[q].ptr => p = q
    BY <1>1, <2>1
  <2> QED
    BY <1>4, <1>5, <2>1, <2>2, <2>3, <2>4 DEF FileOK
<1>7. ASSUME NEW id \in DOMAIN h PROVE Chain(k, id) = Chain(h, id)
  <2>1. IsChain(h, Chain(h, id), id)
    BY ChainIsChain
  <2> DEFINE c == Chain(h, id)
  <2> HIDE DEF c
  <2>2. IsChain(h, c, id)
    BY <2>1 DEF c
  <2>3. DOMAIN h \subseteq DOMAIN k
    BY <1>1, <1>3, <1>4
  <2>4. ASSUME NEW i \in 1..Len(c) PROVE c[i] \in DOMAIN k /\ SameLink(h[c[i]], k[c[i]])
    <3>1. c[i] \in DOMAIN h
      BY <2>2 DEF IsChain
    <3> QED
      BY <1>4, <2>3, <3>1 DEF SameLink
  <2>5. Chain(k, id) = c
    BY <1>6, <2>2, <2>3, <2>4, ChainKept
  <2> QED
    BY <2>5 DEF c
<1>8. Chain(k, n) = <<n>>
  <2> DEFINE c == <<n>>
  <2>1. n \in DOMAIN k
    BY <1>1, <1>4
  <2>2. c \in Seq(DOMAIN k) /\ Len(c) = 1 /\ c[1] = n
    BY <2>1
  <2> HIDE DEF c
  <2>3. 1..Len(c) - 1 = {} /\ Len(c) > 0 /\ c[Len(c)] = n
    BY <2>2
  <2>4. IsChain(k, c, n)
    BY <1>4, <2>2, <2>3 DEF IsChain, FollowsLinks
  <2>5. Chain(k, n) = c
    BY <1>6, <2>1, <2>4, ChainFound
  <2> QED
    BY <2>5 DEF c
<1> QED
  BY <1>4, <1>5, <1>6, <1>7, <1>8 DEF n, k

Extended(h, k, cur, n, page) ==
    n = Cardinality(DOMAIN h) /\ k = Allocated([h EXCEPT ![cur] = Linked(@, n)], page)

\* A page that the page cur, until now the end of its chain, leads to.
LEMMA AllocateNext ==
    ASSUME NEW h, FileOK(h), NEW cur \in DOMAIN h, ~h[cur].has_overflow,
           NEW page \in GoodPages, ~page.has_overflow, page.ptr = 0,
           NEW n, NEW k, Extended(h, k, cur, n, page)
    PROVE  /\ FileOK(k) /\ DOMAIN k = 0..n /\ Cardinality(DOMAIN k) = n + 1
           /\ k[n] = page /\ k[cur] = Linked(h[cur], n)
           /\ \A id \in DOMAIN h \ {cur} : k[id] = h[id]
           /\ \A id \in DOMAIN h : Chain(k, id) = IF Last(Chain(h, id)) = cur
                                                  THEN Append(Chain(h, id), n)
                                                  ELSE Chain(h, id)
<1> DEFINE l == Linked(h[cur], n)
<1>0. n = Cardinality(DOMAIN h) /\ k = Allocated([h EXCEPT ![cur] = Linked(@, n)], page)
  BY Zenon DEF Extended
<1>1. /\ n \in Nat /\ h \in [0..n - 1 -> GoodPages]
      /\ \A id \in DOMAIN h : h[id].has_overflow => id < h[id].ptr /\ h[id].ptr < n
      /\ \A id \in DOMAIN h : ~h[id].has_overflow => h[id].ptr = 0
      /\ \A p, q \in DOMAIN h :
            h[p].has_overflow /\ h[q].has_overflow /\ h[p].ptr = h[q].ptr => p = q
  BY <1>0, Zenon DEF FileOK
<1>2. l \in GoodPages /\ l.has_overflow /\ l.ptr = n
  BY <1>1, LinkedGood
<1>3. DOMAIN h = 0..n - 1 /\ DOMAIN h \cup {n} = 0..n /\ n \notin DOMAIN h
  BY <1>1
<1>4. k = [q \in DOMAIN h \cup {n} |-> IF q \in DOMAIN h THEN IF q = cur THEN l ELSE h[q]
                                      ELSE page]
  <2> HIDE DEF l
  <2>1. [h EXCEPT ![cur] = Linked(@, n)] = [q \in DOMAIN h |-> IF q = cur THEN l ELSE h[q]]
    BY <1>1 DEF l
  <2> DEFINE g == [q \in DOMAIN h |-> IF q = cur THEN l ELSE h[q]]
  <2>2. DOMAIN g = DOMAIN h
    OBVIOUS
  <2>3. k = [q \in DOMAIN g \cup {Cardinality(DOMAIN g)} |-> IF q \in DOMAIN g THEN g[q] ELSE page]
    BY <1>0, <2>1, Zenon DEF Allocated
  <2>4. Cardinality(DOMAIN g) = n
    BY <1>0, <2>2
  <2> QED
    BY <2>2, <2>3, <2>4
<1> HIDE DEF l
<1>5. /\ DOMAIN k = 0..n /\ k[n] = page /\ k[cur] = l
      /\ \A q \in DOMAIN h \ {cur} : k[q] = h[q]
      /\ k \in [0..n -> GoodPages]
  <2>1. DOMAIN k = 0..n
    BY <1>3, <1>4
  <2>2. k[cur] = l
    BY <1>3, <1>4
  <2>3. k[n] = page
    BY <1>3, <1>4
  <2>4. \A q \in DOMAIN h \ {cur} : k[q] = h[q]
    BY <1>3, <1>4
  <2>5. ASSUME NEW q \in 0..n PROVE k[q] \in GoodPages
    <3>1. q = n \/ q = cur \/ q \in DOMAIN h \ {cur}
      BY <1>3
    <3>2. q \in DOMAIN h => h[q] \in GoodPages
      BY <1>1
    <3> QED
      BY <1>2, <2>2, <2>3, <2>4, <3>1, <3>2
  <2>6. k = [q \in 0..n |-> k[q]]
    BY <1>3, <1>4
  <2> QED
    BY <2>1, <2>2, <2>3, <2>4, <2>5, <2>6
<1>6. Cardinality(DOMAIN k) = n + 1
  BY <1>1, <1>5, CountTo
<1>7. /\ n + 1 \in Nat /\ (n + 1) - 1 = n
      /\ \A q \in DOMAIN k : q \in DOMAIN h \/ q = n
      /\ \A q \in DOMAIN k : k[q].has_overflow => q = cur \/ (q \in DOMAIN h \ {cur} /\ k[q] = h[q])
  <2>1. \A q \in DOMAIN k : q \in DOMAIN h \/ q = n
    BY <1>3, <1>5
  <2>2. \A q \in DOMAIN k : k[q].has_overflow => q # n
    BY <1>5
  <2>3. n + 1 \in Nat /\ (n + 1) - 1 = n
    BY <1>1
  <2>4. ASSUME NEW q \in DOMAIN k, k[q].has_overflow, q # cur
        PROVE  q \in DOMAIN h \ {cur} /\ k[q] = h[q]
    BY <1>5, <2>1, <2>2, <2>4
  <2> QED
    BY <2>1, <2>3, <2>4
<1>8. ASSUME NEW q \in DOMAIN h \ {cur}, h[q].has_overflow
      PROVE  h[q].ptr \in Nat /\ q < h[q].ptr /\ h[q].ptr < n
  BY <1>1, <1>8, GoodPageFields
<1>9. FileOK(k)
  <2>1. \A q \in DOMAIN k : k[q].has_overflow => q < k[q].ptr /\ k[q].ptr < n + 1
    <3> SUFFICES ASSUME NEW q \in DOMAIN k, k[q].has_overflow
                 PROVE  q < k[q].ptr /\ k[q].ptr < n + 1
      OBVIOUS
    <3>1. CASE q = cur
      BY <1>1, <1>2, <1>3, <1>5, <3>1
    <3>2. CASE q \in DOMAIN h \ {cur} /\ k[q] = h[q]
      BY <1>1, <1>8, <3>2
    <3> QED
      BY <1>7, <3>1, <3>2
  <2>2. \A q \in DOMAIN k : ~k[q].has_overflow => k[q].ptr = 0
    <3> SUFFICES ASSUME NEW q \in DOMAIN k, ~k[q].has_overflow PROVE k[q].ptr = 0
      OBVIOUS
    <3>1. q # cur
      BY <1>2, <1>5
    <3>2. q = n \/ q \in DOMAIN h \ {cur}
      BY <1>7, <3>1
    <3> QED
      BY <1>1, <1>5, <3>2
  <2>3. \A p, q \in DOMAIN k :
          k[p].has_overflow /\ k[q].has_overflow /\ k[p].ptr = k[q].ptr => p = q
    <3> SUFFICES ASSUME NEW p \in DOMAIN k, NEW q \in DOMAIN k,
                        k[p].has_overflow, k[q].has_overflow, k[p].ptr = k[q].ptr
                 PROVE  p = q
      OBVIOUS
    <3>1. (p = cur \/ (p \in DOMAIN h \ {cur} /\ k[p] = h[p]))
          /\ (q = cur \/ (q \in DOMAIN h \ {cur} /\ k[q] = h[q]))
      BY <1>7
    <3>2. k[cur].ptr = n
      BY <1>2, <1>5
    <3>3. CASE p = cur /\ q # cur
      BY <1>1, <1>8, <3>1, <3>2, <3>3
    <3>4. CASE p # cur /\ q = cur
      BY <1>1, <1>8, <3>1, <3>2, <3>4
    <3>5. CASE p # cur /\ q # cur
      BY <1>1, <3>1, <3>5
    <3> QED
      BY <3>3, <3>4, <3>5
  <2> DEFINE N == Cardinality(DOMAIN k)
  <2>4. N = n + 1 /\ N \in Nat /\ N - 1 = n
    BY <1>6, <1>7
  <2> HIDE DEF N
  <2>5. /\ N \in Nat /\ k \in [0..N - 1 -> GoodPages]
        /\ \A q \in DOMAIN k : k[q].has_overflow => q < k[q].ptr /\ k[q].ptr < N
    BY <1>5, <2>1, <2>4
  <2> QED
    BY <2>2, <2>3, <2>5, Zenon DEF FileOK, N
<1>10. ASSUME NEW id \in DOMAIN h
       PROVE  Chain(k, id) = IF Last(Chain(h, id)) = cur THEN Append(Chain(h, id), n)
                             ELSE Chain(h, id)
  <2>1. PICK c : c = Chain(h, id) /\ IsChain(h, c, id)
    BY ChainIsChain
  <2>2. /\ c \in Seq(DOMAIN h) /\ Len(c) \in Nat /\ Len(c) > 0 /\ c[1] = id
        /\ FollowsLinks(h, c) /\ ~h[c[Len(c)]].has_overflow
        /\ \A i \in 1..Len(c) : c[i] \in DOMAIN h
        /\ Last(c) = c[Len(c)]
    BY <2>1 DEF IsChain, Last
  <2>3. \A i \in 1..Len(c) - 1 : c[i] # cur
    BY <2>2 DEF FollowsLinks
  <2>4. DOMAIN h \subseteq DOMAIN k /\ id \in DOMAIN k /\ n \in DOMAIN k
    BY <1>1, <1>3, <1>5
  <2>5. CASE Last(c) # cur
    <3>1. \A i \in 1..Len(c) : c[i] # cur
      BY <2>2, <2>3, <2>5
    <3>2. ASSUME NEW i \in 1..Len(c)
          PROVE  c[i] \in DOMAIN k /\ SameLink(h[c[i]], k[c[i]])
      <4>1. c[i] \in DOMAIN h \ {cur}
        BY <2>2, <3>1
      <4>2. k[c[i]] = h[c[i]]
        BY <1>5, <4>1
      <4> QED
        BY <2>4, <4>1, <4>2 DEF SameLink
    <3>3. Chain(k, id) = c
      BY <1>9, <2>1, <2>4, <3>2, ChainKept
    <3> QED
      BY <2>1, <2>5, <3>3
  <2>6. CASE Last(c) = cur
    <3> DEFINE d == Append(c, n)
    <3>1. /\ d \in Seq(DOMAIN k) /\ Len(d) = Len(c) + 1 /\ d[Len(c) + 1] = n
          /\ \A i \in 1..Len(c) : d[i] = c[i]
      <4>1. c \in Seq(DOMAIN k)
        BY <2>2, <2>4, SeqMonotonic
      <4> QED
        BY <2>4, <4>1
    <3> HIDE DEF d
    <3>2. FollowsLinks(k, d)
      <4> SUFFICES ASSUME NEW i \in 1..Len(c)
                   PROVE  k[d[i]].has_overflow /\ k[d[i]].ptr = d[i + 1]
        <5>1. 1..Len(d) - 1 = 1..Len(c)
          BY <2>2, <3>1
        <5> QED
          BY <5>1 DEF FollowsLinks
      <4>1. CASE i = Len(c)
        BY <1>2, <1>5, <2>2, <2>6, <3>1, <4>1
      <4>2. CASE i # Len(c)
        <5>1. i \in 1..Len(c) - 1 /\ i + 1 \in 1..Len(c)
          BY <2>2, <4>2
        <5>2. d[i] = c[i] /\ d[i + 1] = c[i + 1] /\ c[i] \in DOMAIN h \ {cur}
          BY <2>2, <2>3, <3>1, <5>1
        <5>3. h[c[i]].has_overflow /\ h[c[i]].ptr = c[i + 1]
          BY <2>2, <5>1 DEF FollowsLinks
        <5>4. k[c[i]] = h[c[i]]
          BY <1>5, <5>2
        <5> QED
          BY <5>2, <5>3, <5>4
      <4> QED
        BY <4>1, <4>2
    <3>3. Len(d) > 0 /\ d[1] = id /\ ~k[d[Len(d)]].has_overflow
      <4>1. 1 \in 1..Len(c)
        BY <2>2
      <4> QED
        BY <1>5, <2>2, <3>1, <4>1
    <3>4. IsChain(k, d, id)
      BY <3>1, <3>2, <3>3 DEF IsChain
    <3>5. Chain(k, id) = d
      BY <1>9, <2>4, <3>4, ChainFound
    <3> QED
      BY <2>1, <2>6, <3>5 DEF d
  <2> QED
    BY <2>5, <2>6, <2>1
<1> QED
  BY <1>5, <1>6, <1>9, <1>10 DEF l
-----------------------------------------------------------------------------
(* add_records. *)

AddStates == [page : GoodPages, ok : BOOLEAN]

LEMMA FitsFree ==
    ASSUME NEW p \in GoodPages, NEW r \in Records
    PROVE  /\ Fits(p, r) <=> r.size + SLOT_SIZE <= Free(p)
           /\ r.size \in Nat
BY GoodPageFields, HeapAssumption DEF Fits, Free, SLOT_SIZE

LEMMA AddStateIn ==
    ASSUME NEW page \in GoodPages, NEW ok \in BOOLEAN
    PROVE  [page |-> page, ok |-> ok] \in AddStates
BY DEF AddStates

LEMMA AddStateFields ==
    ASSUME NEW page \in GoodPages, NEW ok \in BOOLEAN, NEW at, at = [page |-> page, ok |-> ok]
    PROVE  at.page = page /\ at.ok = ok
OBVIOUS

LEMMA AddRecordStep ==
    ASSUME NEW page \in GoodPages, NEW ok \in BOOLEAN, NEW r \in Records,
           NEW at, at = [page |-> page, ok |-> ok]
    PROVE  /\ AddRecord(at, r) \in AddStates
           /\ ok /\ Fits(page, r) =>
                 AddRecord(at, r) = [page |-> AddCell(page, r), ok |-> TRUE]
           /\ ~(ok /\ Fits(page, r)) => AddRecord(at, r) = [page |-> page, ok |-> FALSE]
<1>1. at.page = page /\ at.ok = ok
  OBVIOUS
<1>2. CASE ok /\ Fits(page, r)
  <2>1. AddRecord(at, r) = [page |-> AddCell(page, r), ok |-> TRUE]
    BY <1>1, <1>2 DEF AddRecord
  <2>2. AddCell(page, r) \in GoodPages
    BY <1>2, AddCellGood
  <2>3. [page |-> AddCell(page, r), ok |-> TRUE] \in AddStates
    BY <2>2, AddStateIn
  <2>4. AddRecord(at, r) \in AddStates
    BY <2>1, <2>3, Zenon
  <2> QED
    BY <1>2, <2>1, <2>4, Zenon
<1>3. CASE ~(ok /\ Fits(page, r))
  <2>1. AddRecord(at, r) = [page |-> page, ok |-> FALSE]
    BY <1>1, <1>3 DEF AddRecord
  <2>2. [page |-> page, ok |-> FALSE] \in AddStates
    BY AddStateIn
  <2>3. AddRecord(at, r) \in AddStates
    BY <2>1, <2>2, Zenon
  <2> QED
    BY <1>3, <2>1, <2>3, Zenon
<1> QED
  BY <1>2, <1>3

LEMMA AddRecordsRun ==
    ASSUME NEW p \in GoodPages, NEW row \in Seq(Records)
    PROVE  \E f : /\ f \in [0..Len(row) -> AddStates]
                  /\ f[0] = [page |-> p, ok |-> TRUE]
                  /\ \A i \in 1..Len(row) : f[i] = AddRecord(f[i - 1], row[i])
                  /\ AddRecords(p, row) = f[Len(row)]
<1> DEFINE N == Len(row)
           S == AddStates
           base == [page |-> p, ok |-> TRUE]
           G == [x \in (1..N) \X S |-> AddRecord(x[2], row[x[1]])]
           Runs(g) == g = [n \in 0..N |-> IF n = 0 THEN base ELSE AddRecord(g[n - 1], row[n])]
           at == CHOOSE g : Runs(g)
<1>1. N \in Nat /\ base \in S
  BY DEF AddStates
<1>2. G \in [(1..N) \X S -> S]
  <2>1. ASSUME NEW x \in (1..N) \X S PROVE AddRecord(x[2], row[x[1]]) \in S
    <3>1. x[1] \in 1..N /\ x[2] \in AddStates /\ row[x[1]] \in Records
      OBVIOUS
    <3>2. PICK page \in GoodPages, ok \in BOOLEAN : x[2] = [page |-> page, ok |-> ok]
      BY <3>1 DEF AddStates
    <3> QED
      BY <3>1, <3>2, AddRecordStep
  <2> HIDE DEF S, N
  <2> QED
    BY <2>1
<1>3. PICK f : IsRun(f, N, S, base, G)
  <2> HIDE DEF G, S, N, base
  <2> QED
    BY <1>1, <1>2, LoopRuns
<1>4. ASSUME NEW g, NEW i \in 1..N, g[i - 1] \in S PROVE G[<<i, g[i - 1]>>] = AddRecord(g[i - 1], row[i])
  <2>1. <<i, g[i - 1]>> \in (1..N) \X S
    BY <1>4
  <2> QED
    BY <2>1
<1>5. /\ f \in [0..N -> S] /\ f[0] = base
      /\ \A i \in 1..N : f[i] = AddRecord(f[i - 1], row[i])
  <2>1. f \in [0..N -> S] /\ f[0] = base
    BY <1>3 DEF IsRun
  <2>2. ASSUME NEW i \in 1..N PROVE f[i] = AddRecord(f[i - 1], row[i])
    <3>1. f[i - 1] \in S
      BY <1>1, <2>1
    <3>2. f[i] = G[<<i, f[i - 1]>>]
      BY <1>3 DEF IsRun
    <3> HIDE DEF G, S
    <3> QED
      BY <1>4, <3>1, <3>2
  <2> QED
    BY <2>1, <2>2
<1>6. Runs(at)
  <2>1. Runs(f)
    <3>1. ASSUME NEW i \in 0..N
          PROVE  f[i] = IF i = 0 THEN base ELSE AddRecord(f[i - 1], row[i])
      <4>1. i = 0 \/ i \in 1..N
        BY <1>1
      <4> HIDE DEF base
      <4> QED
        BY <1>5, <4>1
    <3>2. f = [i \in 0..N |-> f[i]]
      BY <1>5
    <3> HIDE DEF N, S, G, base
    <3> QED
      BY <3>1, <3>2
  <2> HIDE DEF Runs
  <2> QED
    BY <2>1
<1>7. AddRecords(p, row) = at[N]
  BY Zenon DEF AddRecords
<1>8. at = f
  <2> HIDE DEF at, base
  <2>1. at = [i \in 0..N |-> at[i]] /\ at[0] = base
    BY <1>1, <1>6
  <2>2. ASSUME NEW i \in 1..N, at[i - 1] \in S PROVE at[i] = G[<<i, at[i - 1]>>]
    <3>1. i \in 0..N /\ i # 0
      BY <1>1
    <3>2. at[i] = AddRecord(at[i - 1], row[i])
      BY <1>6, <3>1
    <3> HIDE DEF G, S
    <3> QED
      BY <1>4, <2>2, <3>2
  <2> HIDE DEF G, S, N
  <2> QED
    BY <1>3, <2>1, <2>2 DEF IsRun
<1> QED
  BY <1>5, <1>7, <1>8

LEMMA TakenRun ==
    ASSUME NEW row \in Seq(Records)
    PROVE  \E f : /\ f \in [0..Len(row) -> Nat] /\ f[0] = 0
                  /\ \A i \in 1..Len(row) : f[i] = f[i - 1] + row[i].size + SLOT_SIZE
                  /\ Taken(row) = f[Len(row)]
<1> DEFINE N == Len(row)
           G == [x \in (1..N) \X Nat |-> x[2] + row[x[1]].size + SLOT_SIZE]
           Runs(g) == g = [n \in 0..N |-> IF n = 0 THEN 0 ELSE g[n - 1] + row[n].size + SLOT_SIZE]
           sum == CHOOSE g : Runs(g)
<1>1. N \in Nat
  OBVIOUS
<1>2. G \in [(1..N) \X Nat -> Nat]
  <2>1. ASSUME NEW x \in (1..N) \X Nat PROVE x[2] + row[x[1]].size + SLOT_SIZE \in Nat
    <3>1. x[1] \in 1..N /\ x[2] \in Nat /\ row[x[1]] \in Records
      OBVIOUS
    <3>2. row[x[1]].size \in Nat
      BY <3>1, HeapAssumption
    <3> QED
      BY <3>1, <3>2 DEF SLOT_SIZE
  <2> HIDE DEF N
  <2> QED
    BY <2>1
<1>3. PICK f : IsRun(f, N, Nat, 0, G)
  <2> HIDE DEF G, N
  <2> QED
    BY <1>1, <1>2, LoopRuns
<1>4. ASSUME NEW g, NEW i \in 1..N, g[i - 1] \in Nat
      PROVE  G[<<i, g[i - 1]>>] = g[i - 1] + row[i].size + SLOT_SIZE
  <2>1. <<i, g[i - 1]>> \in (1..N) \X Nat
    BY <1>4
  <2> QED
    BY <2>1
<1>5. /\ f \in [0..N -> Nat] /\ f[0] = 0
      /\ \A i \in 1..N : f[i] = f[i - 1] + row[i].size + SLOT_SIZE
  <2>1. f \in [0..N -> Nat] /\ f[0] = 0
    BY <1>3 DEF IsRun
  <2>2. ASSUME NEW i \in 1..N PROVE f[i] = f[i - 1] + row[i].size + SLOT_SIZE
    <3>1. f[i - 1] \in Nat
      BY <1>1, <2>1
    <3>2. f[i] = G[<<i, f[i - 1]>>]
      BY <1>3 DEF IsRun
    <3> HIDE DEF G
    <3> QED
      BY <1>4, <3>1, <3>2
  <2> QED
    BY <2>1, <2>2
<1>6. Runs(sum)
  <2>1. Runs(f)
    <3>1. ASSUME NEW i \in 0..N
          PROVE  f[i] = IF i = 0 THEN 0 ELSE f[i - 1] + row[i].size + SLOT_SIZE
      <4>1. i = 0 \/ i \in 1..N
        BY <1>1
      <4> QED
        BY <1>5, <4>1
    <3>2. f = [i \in 0..N |-> f[i]]
      BY <1>5
    <3> HIDE DEF N, G
    <3> QED
      BY <3>1, <3>2
  <2> HIDE DEF Runs
  <2> QED
    BY <2>1
<1>7. Taken(row) = sum[N]
  BY Zenon DEF Taken
<1>8. sum = f
  <2> HIDE DEF sum
  <2>1. sum = [i \in 0..N |-> sum[i]] /\ sum[0] = 0
    BY <1>1, <1>6
  <2>2. ASSUME NEW i \in 1..N, sum[i - 1] \in Nat PROVE sum[i] = G[<<i, sum[i - 1]>>]
    <3>1. i \in 0..N /\ i # 0
      BY <1>1
    <3>2. sum[i] = sum[i - 1] + row[i].size + SLOT_SIZE
      BY <1>6, <3>1
    <3> HIDE DEF G
    <3> QED
      BY <1>4, <2>2, <3>2
  <2> HIDE DEF G, N
  <2> QED
    BY <1>3, <2>1, <2>2 DEF IsRun
<1> QED
  BY <1>5, <1>7, <1>8

\* add_records on an empty page puts the whole row there, unless it is too large.
LEMMA AddRecordsResult ==
    ASSUME NEW row \in Seq(Records), NEW put, put = AddRecords(NewPage(FALSE), row)
    PROVE  /\ put.page \in GoodPages /\ ~put.page.has_overflow /\ put.page.ptr = 0
           /\ put.ok \in BOOLEAN
           /\ put.ok => Data(put.page) = row
           /\ put.ok <=> Taken(row) <= Room
<1> DEFINE N == Len(row)
           new == NewPage(FALSE)
<1>1. N \in Nat /\ Room \in Int /\ Room >= 0
  BY HeapAssumption DEF Room, HEAP_HEADER_SIZE
<1>2. new \in GoodPages /\ new.ptr = 0 /\ ~new.has_overflow /\ Data(new) = <<>> /\ Free(new) = Room
  BY NewPageGood
<1> HIDE DEF new
<1>3. PICK f : /\ f \in [0..N -> AddStates]
               /\ f[0] = [page |-> new, ok |-> TRUE]
               /\ \A i \in 1..N : f[i] = AddRecord(f[i - 1], row[i])
               /\ put = f[N]
  BY <1>2, AddRecordsRun DEF new
<1>4. PICK g : /\ g \in [0..N -> Nat] /\ g[0] = 0
               /\ \A i \in 1..N : g[i] = g[i - 1] + row[i].size + SLOT_SIZE
               /\ Taken(row) = g[N]
  BY TakenRun
<1> DEFINE Sound(page, ok, i) ==
              /\ ~page.has_overflow /\ page.ptr = 0
              /\ ok => /\ Len(Data(page)) = i
                       /\ \A j \in 1..i : Data(page)[j] = row[j]
                       /\ Free(page) = Room - g[i]
              /\ ok <=> g[i] <= Room
           Reached(i) == \E page \in GoodPages, ok \in BOOLEAN :
                            f[i] = [page |-> page, ok |-> ok] /\ Sound(page, ok, i)
           P == {i \in 0..N : Reached(i)}
<1>5. 0 \in P
  <2>1. Len(Data(new)) = 0
    BY <1>2
  <2>2. Sound(new, TRUE, 0)
    BY <1>1, <1>2, <1>4, <2>1
  <2> HIDE DEF Sound
  <2>3. Reached(0)
    BY <1>2, <1>3, <2>2
  <2> HIDE DEF Reached
  <2> QED
    BY <1>1, <2>3
<1>6. ASSUME NEW i \in 1..N, i - 1 \in P PROVE i \in P
  <2>1. PICK page \in GoodPages, ok \in BOOLEAN :
           f[i - 1] = [page |-> page, ok |-> ok] /\ Sound(page, ok, i - 1)
    <3>1. Reached(i - 1)
      BY <1>6
    <3> HIDE DEF Sound
    <3> QED
      BY <3>1
  <2>2. /\ ~page.has_overflow /\ page.ptr = 0
        /\ ok => /\ Len(Data(page)) = i - 1
                 /\ \A j \in 1..i - 1 : Data(page)[j] = row[j]
                 /\ Free(page) = Room - g[i - 1]
        /\ ok <=> g[i - 1] <= Room
    BY <2>1
  <2> DEFINE r == row[i]
  <2>3. r \in Records /\ r.size \in Nat /\ g[i - 1] \in Nat /\ g[i] = g[i - 1] + r.size + 4
    <3>1. r \in Records
      OBVIOUS
    <3>2. r.size \in Nat
      BY <3>1, HeapAssumption
    <3>3. g[i - 1] \in Nat
      BY <1>1, <1>4
    <3> QED
      BY <1>4, <3>1, <3>2, <3>3 DEF SLOT_SIZE
  <2>4. f[i] = AddRecord(f[i - 1], r)
    BY <1>3
  <2>5. (Fits(page, r) <=> r.size + 4 <= Free(page)) /\ Free(page) \in Nat
    BY <2>3, FitsFree, GoodPageFields DEF SLOT_SIZE
  <2> HIDE DEF r
  <2>6. CASE ok /\ Fits(page, r)
    <3> DEFINE k == AddCell(page, r)
    <3>1. f[i] = [page |-> k, ok |-> TRUE]
      BY <2>1, <2>3, <2>4, <2>6, AddRecordStep
    <3>2. /\ k \in GoodPages /\ ~k.has_overflow /\ k.ptr = 0
          /\ Data(k) = Append(Data(page), r) /\ Free(k) = Free(page) - (r.size + 4)
      BY <2>2, <2>3, <2>6, AddCellGood DEF SLOT_SIZE
    <3> HIDE DEF k
    <3>4. Data(page) \in Seq(Records) /\ Len(Data(page)) = i - 1
      BY <2>2, <2>6, DataTyped
    <3>5. /\ Len(Data(k)) = i /\ Data(k)[i] = r
          /\ \A j \in 1..i - 1 : Data(k)[j] = Data(page)[j]
      <4> DEFINE d == Data(page)
      <4>1. d \in Seq(Records) /\ Len(d) = i - 1
        BY <3>4
      <4> HIDE DEF d
      <4>2. Len(Append(d, r)) = i /\ Append(d, r)[i] = r /\ \A j \in 1..i - 1 : Append(d, r)[j] = d[j]
        BY <4>1
      <4> QED
        BY <3>2, <4>2 DEF d
    <3>6. \A j \in 1..i : Data(k)[j] = row[j]
      <4> SUFFICES ASSUME NEW j \in 1..i PROVE Data(k)[j] = row[j]
        OBVIOUS
      <4>1. CASE j = i
        BY <3>5, <4>1 DEF r
      <4>2. CASE j \in 1..i - 1
        BY <2>2, <2>6, <3>5, <4>2
      <4> QED
        BY <4>1, <4>2
    <3>7. Free(k) = Room - g[i] /\ g[i] <= Room
      <4>1. Free(page) = Room - g[i - 1] /\ r.size + 4 <= Free(page)
        BY <2>2, <2>5, <2>6
      <4>2. Free(k) = Free(page) - (r.size + 4)
        BY <3>2
      <4> QED
        BY <1>1, <2>3, <4>1, <4>2
    <3>8. Sound(k, TRUE, i)
      BY <3>2, <3>5, <3>6, <3>7
    <3> HIDE DEF Sound
    <3>9. Reached(i)
      BY <3>1, <3>2, <3>8
    <3> HIDE DEF Reached
    <3> QED
      BY <3>9
  <2>7. CASE ~(ok /\ Fits(page, r))
    <3>1. f[i] = [page |-> page, ok |-> FALSE]
      BY <2>1, <2>3, <2>4, <2>7, AddRecordStep
    <3>3. ~(g[i] <= Room)
      <4>1. CASE ~ok
        BY <1>1, <2>2, <2>3, <4>1
      <4>2. CASE ok
        BY <1>1, <2>2, <2>3, <2>5, <2>7, <4>2
      <4> QED
        BY <4>1, <4>2
    <3>4. Sound(page, FALSE, i)
      BY <2>2, <3>3
    <3> HIDE DEF Sound
    <3>5. Reached(i)
      BY <3>1, <3>4
    <3> HIDE DEF Reached
    <3> QED
      BY <3>5
  <2> QED
    BY <2>6, <2>7
<1>7. \A i \in 0..N : i \in P
  <2> HIDE DEF P, N
  <2> QED
    BY <1>1, <1>5, <1>6, UpTo
<1>8. PICK page \in GoodPages, ok \in BOOLEAN :
         put = [page |-> page, ok |-> ok] /\ Sound(page, ok, N)
  <2>1. N \in P
    <3> HIDE DEF P
    <3> QED
      BY <1>1, <1>7
  <2>2. Reached(N)
    <3> HIDE DEF Reached
    <3> QED
      BY <2>1
  <2> HIDE DEF Sound
  <2> QED
    BY <1>3, <2>2
<1>9. ok => Data(page) = row
  <2> SUFFICES ASSUME ok PROVE Data(page) = row
    OBVIOUS
  <2>1. Data(page) \in Seq(Records) /\ Len(Data(page)) = Len(row)
    BY <1>8, DataTyped
  <2>2. \A j \in 1..Len(Data(page)) : Data(page)[j] = row[j]
    BY <1>8, <2>1
  <2> QED
    BY <2>1, <2>2, SeqEqual
<1>10. put.page = page /\ put.ok = ok
  <2>1. put = [page |-> page, ok |-> ok]
    <3> HIDE DEF Sound
    <3> QED
      BY <1>8
  <2> QED
    BY <2>1, AddStateFields
<1>11. (ok <=> Taken(row) <= Room) /\ ~page.has_overflow /\ page.ptr = 0
  BY <1>4, <1>8
<1> QED
  BY <1>9, <1>10, <1>11
-----------------------------------------------------------------------------
(* insert_records. *)

HasRoom(page, r) == RemainingSpace(page) >= r.size + SLOT_SIZE

LEMMA RoomFits ==
    ASSUME NEW page \in GoodPages, NEW r \in Records, HasRoom(page, r)
    PROVE  Fits(page, r) /\ r.size + SLOT_SIZE <= Room
<1>1. /\ page.free_start \in Nat /\ page.free_end \in Nat /\ r.size \in Nat
      /\ Free(page) <= Room /\ Room \in Int
  BY GoodPageFields, HeapAssumption DEF Room, HEAP_HEADER_SIZE
<1>2. RemainingSpace(page) >= r.size + 4
  BY DEF HasRoom, SLOT_SIZE
<1> QED
  BY <1>1, <1>2 DEF RemainingSpace, Fits, Free, SLOT_SIZE

\* The four ways of one record, field by field.
PutCases(at, h, cur, put, ok, r, n, linked) ==
    /\ ok /\ HasRoom(h[cur], r) =>
          Put(at, r) = [heap |-> [h EXCEPT ![cur] = AddCell(@, r)], cur |-> cur,
                        put |-> Append(put, r), ok |-> TRUE]
    /\ ok /\ ~HasRoom(h[cur], r) /\ Fits(NewPage(FALSE), r) =>
          Put(at, r) = [heap |-> [linked EXCEPT ![n] = AddCell(@, r)], cur |-> n,
                        put |-> Append(put, r), ok |-> TRUE]
    /\ ok /\ ~HasRoom(h[cur], r) /\ ~Fits(NewPage(FALSE), r) =>
          Put(at, r) = [heap |-> linked, cur |-> cur, put |-> put, ok |-> FALSE]
    /\ ~ok => Put(at, r) = at

NextLinked(h, cur) ==
    Allocated([h EXCEPT ![cur] = Linked(@, Cardinality(DOMAIN h))], NewPage(FALSE))

LEMMA PutValue ==
    ASSUME NEW h, NEW cur, NEW put, NEW ok \in BOOLEAN, NEW r,
           NEW at, at = [heap |-> h, cur |-> cur, put |-> put, ok |-> ok]
    PROVE  PutCases(at, h, cur, put, ok, r, Cardinality(DOMAIN h), NextLinked(h, cur))
<1> DEFINE n == Cardinality(DOMAIN h)
           linked == NextLinked(h, cur)
<1>1. at.heap = h /\ at.cur = cur /\ at.put = put /\ at.ok = ok
  OBVIOUS
<1> DEFINE fits == Fits(NewPage(FALSE), r)
           room == HasRoom(h[cur], r)
<1>2. Put(at, r) =
        CASE ok /\ room ->
               [heap |-> [h EXCEPT ![cur] = AddCell(@, r)], cur |-> cur,
                put |-> Append(put, r), ok |-> TRUE]
          [] ok /\ ~room /\ fits ->
               [heap |-> [linked EXCEPT ![n] = AddCell(@, r)], cur |-> n,
                put |-> Append(put, r), ok |-> TRUE]
          [] ok /\ ~room /\ ~fits -> [heap |-> linked, cur |-> cur, put |-> put, ok |-> FALSE]
          [] ~ok -> at
  BY <1>1, Zenon DEF Put, HasRoom, NextTail, NextLinked
<1> HIDE DEF fits, room, n, linked
<1>5. ASSUME ok, room
      PROVE  Put(at, r) = [heap |-> [h EXCEPT ![cur] = AddCell(@, r)], cur |-> cur,
                           put |-> Append(put, r), ok |-> TRUE]
  BY <1>2, <1>5
<1>6. ASSUME ok, ~room, fits
      PROVE  Put(at, r) = [heap |-> [linked EXCEPT ![n] = AddCell(@, r)], cur |-> n,
                           put |-> Append(put, r), ok |-> TRUE]
  BY <1>2, <1>6
<1>7. ASSUME ok, ~room, ~fits
      PROVE  Put(at, r) = [heap |-> linked, cur |-> cur, put |-> put, ok |-> FALSE]
  BY <1>2, <1>7
<1>8. ASSUME ~ok PROVE Put(at, r) = at
  BY <1>2, <1>8
<1> QED
  BY <1>5, <1>6, <1>7, <1>8, Zenon DEF PutCases, fits, room, n, linked

PutStart(h, id) == [heap |-> h, cur |-> From(h, id), put |-> <<>>, ok |-> TRUE]

PutRun(f, h, id, row, S) ==
    /\ f \in [0..Len(row) -> S]
    /\ f[0] = PutStart(h, id)
    /\ \A i \in 1..Len(row) : f[i] = Put(f[i - 1], row[i])
    /\ PutAll(h, id, row) = f[Len(row)]

\* insert_records stays in any states that it starts in and no record leads out of.
LEMMA PutAllRun ==
    ASSUME NEW h, NEW id, NEW row \in Seq(Records), NEW S, PutStart(h, id) \in S,
           \A at \in S, r \in Records : Put(at, r) \in S
    PROVE  \E f : PutRun(f, h, id, row, S)
<1> DEFINE N == Len(row)
           base == PutStart(h, id)
           G == [x \in (1..N) \X S |-> Put(x[2], row[x[1]])]
           Runs(g) == g = [n \in 0..N |-> IF n = 0 THEN base ELSE Put(g[n - 1], row[n])]
           at == CHOOSE g : Runs(g)
<1>1. N \in Nat /\ base \in S
  OBVIOUS
<1>2. G \in [(1..N) \X S -> S]
  <2>1. ASSUME NEW x \in (1..N) \X S PROVE Put(x[2], row[x[1]]) \in S
    <3>1. x[2] \in S /\ row[x[1]] \in Records
      OBVIOUS
    <3> QED
      BY <3>1
  <2> HIDE DEF N
  <2> QED
    BY <2>1
<1>3. PICK f : IsRun(f, N, S, base, G)
  <2> HIDE DEF G, N, base
  <2> QED
    BY <1>1, <1>2, LoopRuns
<1>4. ASSUME NEW g, NEW i \in 1..N, g[i - 1] \in S PROVE G[<<i, g[i - 1]>>] = Put(g[i - 1], row[i])
  <2>1. <<i, g[i - 1]>> \in (1..N) \X S
    BY <1>4
  <2> QED
    BY <2>1
<1> HIDE DEF base
<1>5. /\ f \in [0..N -> S] /\ f[0] = base
      /\ \A i \in 1..N : f[i] = Put(f[i - 1], row[i])
  <2>1. f \in [0..N -> S] /\ f[0] = base
    BY <1>3 DEF IsRun
  <2>2. ASSUME NEW i \in 1..N PROVE f[i] = Put(f[i - 1], row[i])
    <3>1. f[i - 1] \in S
      BY <1>1, <2>1
    <3>2. f[i] = G[<<i, f[i - 1]>>]
      BY <1>3 DEF IsRun
    <3> HIDE DEF G
    <3> QED
      BY <1>4, <3>1, <3>2
  <2> QED
    BY <2>1, <2>2
<1>6. Runs(at)
  <2>1. Runs(f)
    <3>1. ASSUME NEW i \in 0..N
          PROVE  f[i] = IF i = 0 THEN base ELSE Put(f[i - 1], row[i])
      <4>1. i = 0 \/ i \in 1..N
        BY <1>1
      <4> QED
        BY <1>5, <4>1
    <3>2. f = [i \in 0..N |-> f[i]]
      BY <1>5
    <3> HIDE DEF N, G
    <3> QED
      BY <3>1, <3>2
  <2> HIDE DEF Runs
  <2> QED
    BY <2>1
<1>7. PutAll(h, id, row) = at[N]
  BY Zenon DEF PutAll, PutStart, base
<1>8. at = f
  <2> HIDE DEF at
  <2>1. at = [i \in 0..N |-> at[i]] /\ at[0] = base
    BY <1>1, <1>6
  <2>2. ASSUME NEW i \in 1..N, at[i - 1] \in S PROVE at[i] = G[<<i, at[i - 1]>>]
    <3>1. i \in 0..N /\ i # 0
      BY <1>1
    <3>2. at[i] = Put(at[i - 1], row[i])
      BY <1>6, <3>1
    <3> HIDE DEF G
    <3> QED
      BY <1>4, <2>2, <3>2
  <2> HIDE DEF G, N
  <2> QED
    BY <1>3, <2>1, <2>2 DEF IsRun
<1> QED
  BY <1>5, <1>7, <1>8 DEF base, PutRun
-----------------------------------------------------------------------------
(* No byte has two owners. *)

Heaps == UNION {[0..n - 1 -> GoodPages] : n \in Nat}

LEMMA HeapsFacts ==
    ASSUME NEW h \in Heaps, NEW n, n = Cardinality(DOMAIN h)
    PROVE  n \in Nat /\ h \in [0..n - 1 -> GoodPages] /\ n \notin DOMAIN h
<1>1. PICK m \in Nat : h \in [0..m - 1 -> GoodPages]
  BY DEF Heaps
<1>2. n = m
  BY <1>1, CountTo
<1> QED
  BY <1>1, <1>2

LEMMA HeapsAllocate ==
    ASSUME NEW h \in Heaps, NEW page \in GoodPages
    PROVE  /\ Allocated(h, page) \in Heaps
           /\ Allocated(h, page)[Cardinality(DOMAIN h)] = page
           /\ Cardinality(DOMAIN h) \in DOMAIN Allocated(h, page)
<1> DEFINE n == Cardinality(DOMAIN h)
           k == Allocated(h, page)
<1>1. n \in Nat /\ h \in [0..n - 1 -> GoodPages] /\ n \notin DOMAIN h
  BY HeapsFacts
<1>2. k = [q \in DOMAIN h \cup {n} |-> IF q \in DOMAIN h THEN h[q] ELSE page]
  BY Zenon DEF Allocated
<1> HIDE DEF n, k
<1>3. DOMAIN h \cup {n} = 0..n /\ (n + 1) - 1 = n /\ n + 1 \in Nat
  BY <1>1
<1>4. k \in [0..n -> GoodPages] /\ k[n] = page /\ n \in DOMAIN k
  BY <1>1, <1>2, <1>3
<1>5. k \in [0..(n + 1) - 1 -> GoodPages]
  BY <1>3, <1>4
<1>6. k \in Heaps
  BY <1>3, <1>5 DEF Heaps
<1> QED
  BY <1>4, <1>6 DEF n, k

LEMMA HeapsSet ==
    ASSUME NEW h \in Heaps, NEW cur, NEW page, cur \in DOMAIN h => page \in GoodPages
    PROVE  [h EXCEPT ![cur] = page] \in Heaps
<1>1. PICK m \in Nat : h \in [0..m - 1 -> GoodPages]
  BY DEF Heaps
<1>2. [h EXCEPT ![cur] = page] \in [0..m - 1 -> GoodPages]
  BY <1>1
<1> QED
  BY <1>2 DEF Heaps

\* What insert_records may have in its hands, wherever it is told to begin.
PutStates(from) == [heap : Heaps, cur : Nat \cup {from}, put : Seq(Records), ok : BOOLEAN]

LEMMA PutStateIn ==
    ASSUME NEW from, NEW h \in Heaps, NEW cur \in Nat \cup {from}, NEW put \in Seq(Records),
           NEW ok \in BOOLEAN
    PROVE  [heap |-> h, cur |-> cur, put |-> put, ok |-> ok] \in PutStates(from)
BY DEF PutStates

LEMMA PutLaidOut ==
    ASSUME NEW from, NEW at \in PutStates(from), NEW r \in Records
    PROVE  Put(at, r) \in PutStates(from)
<1>1. PICK h \in Heaps, cur \in Nat \cup {from}, put \in Seq(Records), ok \in BOOLEAN :
         at = [heap |-> h, cur |-> cur, put |-> put, ok |-> ok]
  BY DEF PutStates
<1> DEFINE n == Cardinality(DOMAIN h)
           new == NewPage(FALSE)
           linked == NextLinked(h, cur)
<1>2. n \in Nat /\ h \in [0..n - 1 -> GoodPages] /\ new \in GoodPages
  BY HeapsFacts, NewPageGood
<1>3. linked \in Heaps /\ linked[n] = new /\ n \in DOMAIN linked
  <2> DEFINE g == [h EXCEPT ![cur] = Linked(@, n)]
  <2>1. g \in Heaps
    <3>1. cur \in DOMAIN h => Linked(h[cur], n) \in GoodPages
      BY <1>2, LinkedGood
    <3> HIDE DEF n
    <3> QED
      BY <3>1, HeapsSet
  <2>2. Cardinality(DOMAIN g) = n
    OBVIOUS
  <2> HIDE DEF g, n, new
  <2>3. Allocated(g, new) \in Heaps /\ Allocated(g, new)[n] = new /\ n \in DOMAIN Allocated(g, new)
    BY <1>2, <2>1, <2>2, HeapsAllocate
  <2> QED
    BY <2>3, Zenon DEF g, n, new, NextLinked
<1>9. PutCases(at, h, cur, put, ok, r, n, linked)
  BY <1>1, PutValue
<1>4. Append(put, r) \in Seq(Records)
  OBVIOUS
<1>5. CASE ok /\ HasRoom(h[cur], r)
  <2> DEFINE k == [h EXCEPT ![cur] = AddCell(@, r)]
  <2>1. k \in Heaps
    <3>1. cur \in DOMAIN h => AddCell(h[cur], r) \in GoodPages
      <4> SUFFICES ASSUME cur \in DOMAIN h PROVE AddCell(h[cur], r) \in GoodPages
        OBVIOUS
      <4>1. h[cur] \in GoodPages
        BY <1>2
      <4> QED
        BY <1>5, <4>1, RoomFits, AddCellGood
    <3> QED
      BY <3>1, HeapsSet
  <2>2. Put(at, r) = [heap |-> k, cur |-> cur, put |-> Append(put, r), ok |-> TRUE]
    BY <1>5, <1>9, Zenon DEF PutCases
  <2> HIDE DEF k
  <2>3. [heap |-> k, cur |-> cur, put |-> Append(put, r), ok |-> TRUE] \in PutStates(from)
    BY <1>4, <2>1, PutStateIn
  <2> QED
    BY <2>2, <2>3, Zenon
<1>6. CASE ok /\ ~HasRoom(h[cur], r) /\ Fits(new, r)
  <2> DEFINE k == [linked EXCEPT ![n] = AddCell(@, r)]
  <2>1. Put(at, r) = [heap |-> k, cur |-> n, put |-> Append(put, r), ok |-> TRUE]
    BY <1>6, <1>9, Zenon DEF PutCases
  <2> HIDE DEF linked, n
  <2>2. k \in Heaps
    <3>1. AddCell(linked[n], r) \in GoodPages
      BY <1>2, <1>3, <1>6, AddCellGood
    <3> QED
      BY <1>3, <3>1, HeapsSet
  <2> HIDE DEF k
  <2>3. [heap |-> k, cur |-> n, put |-> Append(put, r), ok |-> TRUE] \in PutStates(from)
    BY <1>2, <1>4, <2>2, PutStateIn
  <2> QED
    BY <2>1, <2>3, Zenon
<1>7. CASE ok /\ ~HasRoom(h[cur], r) /\ ~Fits(new, r)
  <2>1. Put(at, r) = [heap |-> linked, cur |-> cur, put |-> put, ok |-> FALSE]
    BY <1>7, <1>9, Zenon DEF PutCases
  <2> HIDE DEF linked
  <2>2. [heap |-> linked, cur |-> cur, put |-> put, ok |-> FALSE] \in PutStates(from)
    BY <1>3, PutStateIn
  <2> QED
    BY <2>1, <2>2, Zenon
<1>8. CASE ~ok
  <2>1. Put(at, r) = at
    BY <1>8, <1>9, Zenon DEF PutCases
  <2> QED
    BY <2>1
<1> QED
  BY <1>5, <1>6, <1>7, <1>8

\* A row's records are records.
LEMMA RowsTyped ==
    ASSUME NEW row \in Rows
    PROVE  row \in Seq(Records)
BY HeapAssumption

LEMMA HeapLaidOut == heap \in Heaps /\ [Next]_vars => (heap \in Heaps)'
<1> SUFFICES ASSUME heap \in Heaps, [Next]_vars PROVE heap' \in Heaps
  OBVIOUS
<1>1. ASSUME NEW key \in Keys, NEW row \in Rows, NEW indexed \in BOOLEAN,
              Insert(key, row, indexed)
       PROVE heap' \in Heaps
  <2> DEFINE put == AddRecords(NewPage(FALSE), row)
  <2>1. heap' = Allocated(heap, put.page)
    BY <1>1 DEF Insert
  <2>2. put.page \in GoodPages
    BY RowsTyped, AddRecordsResult
  <2> HIDE DEF put
  <2> QED
    BY <2>1, <2>2, HeapsAllocate
<1>2. ASSUME NEW key \in Keys, Delete(key) PROVE heap' \in Heaps
  BY <1>2 DEF Delete
<1>3. CASE AllocatePrimary
  BY <1>3, NewPageGood, HeapsAllocate DEF AllocatePrimary
<1>4. ASSUME NEW id \in DOMAIN heap, NEW row \in Rows, InsertRecords(id, row) PROVE heap' \in Heaps
  <2> DEFINE from == From(heap, id)
             put == PutAll(heap, id, row)
  <2>1. heap' = put.heap
    BY <1>4 DEF InsertRecords
  <2>2. PutStart(heap, id) \in PutStates(from)
    <3>1. /\ from \in Nat \cup {from} /\ <<>> \in Seq(Records) /\ TRUE \in BOOLEAN
      OBVIOUS
    <3> HIDE DEF from
    <3>2. [heap |-> heap, cur |-> from, put |-> <<>>, ok |-> TRUE] \in PutStates(from)
      BY <3>1, PutStateIn
    <3> QED
      BY <3>2, Zenon DEF PutStart, from
  <2> HIDE DEF from
  <2>3. \A at \in PutStates(from), r \in Records : Put(at, r) \in PutStates(from)
    BY PutLaidOut
  <2> DEFINE S == PutStates(from)
  <2> HIDE DEF S
  <2>4. PICK f : PutRun(f, heap, id, row, S)
    <3>1. PutStart(heap, id) \in S /\ \A at \in S, r \in Records : Put(at, r) \in S
      BY <2>2, <2>3 DEF S
    <3>2. row \in Seq(Records)
      BY RowsTyped
    <3> QED
      BY <3>1, <3>2, PutAllRun
  <2>5. put \in S
    BY <2>4, RowsTyped DEF PutRun
  <2> HIDE DEF put
  <2> QED
    BY <2>1, <2>5 DEF S, PutStates
<1>5. CASE UNCHANGED vars
  BY <1>5 DEF vars
<1> QED
  BY <1>1, <1>2, <1>3, <1>4, <1>5 DEF Next

\* No byte of a page has two owners, wherever callers have insert_records begin:
\* the byte arithmetic of add_cell and remaining_space leaves no record over
\* another or over the slots.
THEOREM LayoutHolds == Spec => []Layout
<1>1. Init => heap \in Heaps
  <2> SUFFICES ASSUME heap = <<>> PROVE heap \in Heaps
    BY DEF Init
  <2>1. heap \in [0..0 - 1 -> GoodPages]
    OBVIOUS
  <2> QED
    BY <2>1 DEF Heaps
<1>2. heap \in Heaps => Layout
  <2> SUFFICES ASSUME heap \in Heaps, NEW id \in DOMAIN heap PROVE LaidOut(heap[id])
    BY DEF Layout
  <2>1. heap[id] \in GoodPages
    BY DEF Heaps
  <2> QED
    BY <2>1 DEF GoodPages
<1> QED
  BY <1>1, <1>2, HeapLaidOut, PTL DEF Spec
-----------------------------------------------------------------------------
(* What was stored is there. *)

Unreached(h, D) == \A p \in DOMAIN h : h[p].has_overflow => h[p].ptr \notin D

\* The pages of rows hold rows, and no chain of another page leads to one.
HoldsRows(h, rows) ==
    /\ FileOK(h)
    /\ DOMAIN rows \subseteq DOMAIN h
    /\ Unreached(h, DOMAIN rows)
    /\ \A q \in DOMAIN rows : GetRecord(h, q) = rows[q]

\* Chains from two of these pages have no page in common: going back along the
\* links from it would lead to both.
LEMMA HeadsApart ==
    ASSUME NEW h, FileOK(h), NEW D, Unreached(h, D),
           NEW id \in D, NEW q \in D, NEW c, IsChain(h, c, id), NEW d, IsChain(h, d, q),
           NEW i \in 1..Len(c), NEW j \in 1..Len(d), c[i] = d[j]
    PROVE  id = q
<1> DEFINE N == Len(c) - 1
           P == {n \in 0..N : \A m \in 1..Len(d) : c[n + 1] = d[m] => id = q}
<1>1. /\ c \in Seq(DOMAIN h) /\ d \in Seq(DOMAIN h) /\ Len(c) \in Nat /\ Len(d) \in Nat
      /\ Len(c) > 0 /\ Len(d) > 0 /\ N \in Nat /\ c[1] = id /\ d[1] = q
      /\ FollowsLinks(h, c) /\ FollowsLinks(h, d)
  BY DEF IsChain
<1>2. ASSUME NEW n \in 1..Len(c) - 1
      PROVE  /\ c[n] \in DOMAIN h /\ h[c[n]].has_overflow
             /\ h[c[n]].ptr = c[n + 1] /\ c[n + 1] \notin D
  <2>1. n \in 1..Len(c)
    BY <1>1
  <2> QED
    BY <1>1, <2>1 DEF FollowsLinks, Unreached
<1>3. ASSUME NEW n \in 1..Len(d) - 1
      PROVE  /\ d[n] \in DOMAIN h /\ h[d[n]].has_overflow
             /\ h[d[n]].ptr = d[n + 1] /\ d[n + 1] \notin D
  <2>1. n \in 1..Len(d)
    BY <1>1
  <2> QED
    BY <1>1, <2>1 DEF FollowsLinks, Unreached
<1>4. 0 \in P
  <2> SUFFICES ASSUME NEW m \in 1..Len(d), id = d[m] PROVE id = q
    BY <1>1
  <2>1. CASE m = 1
    BY <1>1, <2>1
  <2>2. CASE m # 1
    <3>1. m - 1 \in 1..Len(d) - 1 /\ (m - 1) + 1 = m
      BY <1>1, <2>2
    <3>2. d[m] \notin D
      BY <1>3, <3>1
    <3> QED
      BY <3>2
  <2> QED
    BY <2>1, <2>2
<1>5. ASSUME NEW n \in 1..N, n - 1 \in P PROVE n \in P
  <2> SUFFICES ASSUME NEW m \in 1..Len(d), c[n + 1] = d[m] PROVE id = q
    BY <1>1
  <2>1. c[n + 1] \notin D /\ c[n] \in DOMAIN h /\ h[c[n]].has_overflow /\ h[c[n]].ptr = c[n + 1]
    BY <1>2
  <2>2. m # 1
    BY <1>1, <2>1
  <2>3. m - 1 \in 1..Len(d) - 1 /\ (m - 1) + 1 = m /\ m - 1 \in 1..Len(d)
    BY <1>1, <2>2
  <2>4. d[m - 1] \in DOMAIN h /\ h[d[m - 1]].has_overflow /\ h[d[m - 1]].ptr = d[m]
    BY <1>3, <2>3
  <2>5. c[n] = d[m - 1]
    BY <2>1, <2>4 DEF FileOK
  <2>6. \A l \in 1..Len(d) : c[(n - 1) + 1] = d[l] => id = q
    BY <1>5
  <2>7. (n - 1) + 1 = n
    OBVIOUS
  <2> QED
    BY <2>3, <2>5, <2>6, <2>7
<1>6. \A n \in 0..N : n \in P
  <2> HIDE DEF P, N
  <2> QED
    BY <1>1, <1>4, <1>5, UpTo
<1>7. i - 1 \in 0..N /\ (i - 1) + 1 = i
  BY <1>1
<1>8. i - 1 \in P
  <2> HIDE DEF P
  <2> QED
    BY <1>6, <1>7
<1> QED
  BY <1>7, <1>8

LEMMA HeldFacts ==
    ASSUME NEW h, NEW rows, HoldsRows(h, rows), NEW q \in DOMAIN rows
    PROVE  \E c : /\ c = Chain(h, q) /\ IsChain(h, c, q)
                  /\ c \in Seq(DOMAIN h) /\ Len(c) \in Nat /\ Len(c) > 0
                  /\ Last(c) = c[Len(c)] /\ Len(c) \in 1..Len(c)
                  /\ Last(c) \in DOMAIN h /\ ~h[Last(c)].has_overflow
                  /\ \A i \in 1..Len(c) : c[i] \in DOMAIN h
                  /\ rows[q] = Collected(h, c) /\ rows[q] \in Seq(Records)
<1> DEFINE c == Chain(h, q)
<1>1. q \in DOMAIN h /\ FileOK(h)
  BY DEF HoldsRows
<1>2. IsChain(h, c, q)
  BY <1>1, ChainIsChain
<1>3. rows[q] = Collected(h, c)
  BY Zenon DEF HoldsRows, GetRecord
<1> HIDE DEF c
<1>4. /\ c \in Seq(DOMAIN h) /\ Len(c) \in Nat /\ Len(c) > 0 /\ c[1] = q
      /\ ~h[c[Len(c)]].has_overflow
  BY <1>2 DEF IsChain
<1>5. Len(c) \in 1..Len(c) /\ (\A i \in 1..Len(c) : c[i] \in DOMAIN h) /\ Last(c) = c[Len(c)]
  BY <1>4 DEF Last
<1>6. PagesOK(h)
  BY <1>1, FileFacts
<1>7. Collected(h, c) \in Seq(Records)
  BY <1>1, <1>4, <1>6, CollectedAppend
<1> QED
  BY <1>2, <1>3, <1>4, <1>5, <1>7 DEF c

Longer(rows, id, more) == [rows EXCEPT ![id] = @ \o more]

\* More records on the last page of a row.
LEMMA HoldsInPlace ==
    ASSUME NEW h, NEW rows, HoldsRows(h, rows), NEW id \in DOMAIN rows,
           NEW cur, cur = Last(Chain(h, id)), NEW more \in Seq(Records),
           NEW page \in GoodPages, Data(page) = Data(h[cur]) \o more,
           NEW k, Changed(h, k, cur, page)
    PROVE  HoldsRows(k, Longer(rows, id, more))
<1> DEFINE new == [rows EXCEPT ![id] = @ \o more]
<1>1. PICK c : /\ c = Chain(h, id) /\ IsChain(h, c, id)
               /\ c \in Seq(DOMAIN h) /\ Len(c) \in Nat /\ Len(c) > 0
               /\ Last(c) = c[Len(c)] /\ Len(c) \in 1..Len(c)
               /\ Last(c) \in DOMAIN h /\ ~h[Last(c)].has_overflow
               /\ \A i \in 1..Len(c) : c[i] \in DOMAIN h
               /\ rows[id] = Collected(h, c) /\ rows[id] \in Seq(Records)
  BY HeldFacts
<1>2. FileOK(h) /\ cur \in DOMAIN h /\ id \in DOMAIN h /\ DOMAIN rows \subseteq DOMAIN h
  BY <1>1 DEF HoldsRows
<1>3. /\ FileOK(k) /\ DOMAIN k = DOMAIN h
      /\ \A q \in DOMAIN h : Chain(k, q) = Chain(h, q)
  <2>1. FileOK(h) /\ Changed(h, k, cur, page)
    BY <1>2
  <2>2. FileOK(k)
    BY <2>1, InPlace
  <2>3. DOMAIN k = DOMAIN h
    BY <2>1, InPlace
  <2>4. \A q \in DOMAIN h : Chain(k, q) = Chain(h, q)
    BY <2>1, InPlace
  <2> QED
    BY <2>2, <2>3, <2>4
<1>4. /\ k[cur] = page /\ SameLink(h[cur], page)
      /\ \A q \in DOMAIN h \ {cur} : k[q] = h[q]
  BY <1>2 DEF Changed
<1>5. PagesOK(h) /\ PagesOK(k)
  BY <1>2, <1>3, FileFacts
<1>6. /\ DOMAIN new = DOMAIN rows /\ new[id] = rows[id] \o more
      /\ \A q \in DOMAIN rows \ {id} : new[q] = rows[q]
  OBVIOUS
<1> HIDE DEF new
<1>7. Unreached(k, DOMAIN new)
  <2> SUFFICES ASSUME NEW p \in DOMAIN h, k[p].has_overflow PROVE k[p].ptr \notin DOMAIN rows
    BY <1>3, <1>6 DEF Unreached
  <2>1. h[p].has_overflow /\ k[p].ptr = h[p].ptr
    BY <1>4 DEF SameLink
  <2> QED
    BY <2>1 DEF HoldsRows, Unreached
<1>8. GetRecord(k, id) = new[id]
  <2>1. SameData(h, k, c, Len(c) - 1)
    <3> SUFFICES ASSUME NEW i \in 1..Len(c) - 1 PROVE Data(h[c[i]]) = Data(k[c[i]])
      BY DEF SameData
    <3>1. i \in 1..Len(c) /\ h[c[i]].has_overflow
      BY <1>1 DEF IsChain, FollowsLinks
    <3>2. c[i] # cur /\ c[i] \in DOMAIN h
      BY <1>1, <3>1
    <3> QED
      BY <1>4, <3>2
  <2>2. Data(k[c[Len(c)]]) = Data(h[c[Len(c)]]) \o more
    BY <1>1, <1>4
  <2>3. c \in Seq(DOMAIN k)
    BY <1>1, <1>3
  <2>4. Collected(k, c) = Collected(h, c) \o more
    BY <1>1, <1>5, <2>1, <2>2, <2>3, CollectedLast
  <2>5. GetRecord(k, id) = Collected(k, c)
    BY <1>1, <1>2, <1>3, Zenon DEF GetRecord
  <2> QED
    BY <1>1, <1>6, <2>4, <2>5, Zenon
<1>9. ASSUME NEW q \in DOMAIN rows, q # id PROVE GetRecord(k, q) = new[q]
  <2>1. PICK d : /\ d = Chain(h, q) /\ IsChain(h, d, q)
                 /\ d \in Seq(DOMAIN h) /\ Len(d) \in Nat
                 /\ \A i \in 1..Len(d) : d[i] \in DOMAIN h
                 /\ rows[q] = Collected(h, d)
    BY HeldFacts
  <2>2. SameData(h, k, d, Len(d))
    <3> SUFFICES ASSUME NEW i \in 1..Len(d) PROVE Data(h[d[i]]) = Data(k[d[i]])
      BY DEF SameData
    <3>1. d[i] # cur
      <4> SUFFICES ASSUME d[i] = cur PROVE FALSE
        OBVIOUS
      <4>1. c[Len(c)] = d[i]
        BY <1>1
      <4>2. Unreached(h, DOMAIN rows)
        BY DEF HoldsRows
      <4> DEFINE D == DOMAIN rows
      <4>3. /\ FileOK(h) /\ Unreached(h, D) /\ id \in D /\ q \in D
            /\ IsChain(h, c, id) /\ IsChain(h, d, q)
            /\ Len(c) \in 1..Len(c) /\ i \in 1..Len(d) /\ c[Len(c)] = d[i]
        BY <1>1, <1>2, <2>1, <4>1, <4>2
      <4> HIDE DEF D
      <4>4. id = q
        BY <4>3, HeadsApart
      <4> QED
        BY <1>9, <4>4
    <3>2. d[i] \in DOMAIN h \ {cur}
      BY <2>1, <3>1
    <3> QED
      BY <1>4, <3>2
  <2>3. Collected(k, d) = Collected(h, d)
    BY <1>3, <1>5, <2>1, <2>2, CollectedSame
  <2>4. GetRecord(k, q) = Collected(k, d)
    BY <1>2, <1>3, <2>1, Zenon DEF GetRecord
  <2> QED
    BY <1>6, <1>9, <2>1, <2>3, <2>4
<1>10. HoldsRows(k, new)
  <2>1. DOMAIN new \subseteq DOMAIN k
    BY <1>2, <1>3, <1>6
  <2>2. \A q \in DOMAIN new : GetRecord(k, q) = new[q]
    BY <1>6, <1>8, <1>9
  <2> QED
    BY <1>3, <1>7, <2>1, <2>2, Zenon DEF HoldsRows
<1> QED
  BY <1>10 DEF new, Longer

LEMMA SeqWider ==
    ASSUME NEW S, NEW T, S \subseteq T, NEW c \in Seq(S)
    PROVE  c \in Seq(T)
<1>1. Len(c) \in Nat /\ c \in [1..Len(c) -> T]
  OBVIOUS
<1> QED
  BY <1>1, SeqDef

\* The row goes on on a new page, linked to the last one.
LEMMA HoldsNext ==
    ASSUME NEW h, NEW rows, HoldsRows(h, rows), NEW id \in DOMAIN rows,
           NEW cur, cur = Last(Chain(h, id)),
           NEW page \in GoodPages, ~page.has_overflow, page.ptr = 0,
           NEW n, n = Cardinality(DOMAIN h), NEW k,
           k = Allocated([h EXCEPT ![cur] = Linked(@, n)], page)
    PROVE  /\ HoldsRows(k, Longer(rows, id, Data(page)))
           /\ Last(Chain(k, id)) = n
<1> DEFINE new == [rows EXCEPT ![id] = @ \o Data(page)]
<1>1. PICK c : /\ c = Chain(h, id) /\ IsChain(h, c, id)
               /\ c \in Seq(DOMAIN h) /\ Len(c) \in Nat /\ Len(c) > 0
               /\ Last(c) = c[Len(c)] /\ Len(c) \in 1..Len(c)
               /\ Last(c) \in DOMAIN h /\ ~h[Last(c)].has_overflow
               /\ \A i \in 1..Len(c) : c[i] \in DOMAIN h
               /\ rows[id] = Collected(h, c) /\ rows[id] \in Seq(Records)
  BY HeldFacts
<1>2. /\ FileOK(h) /\ cur \in DOMAIN h /\ ~h[cur].has_overflow /\ id \in DOMAIN h
      /\ DOMAIN rows \subseteq DOMAIN h
  BY <1>1 DEF HoldsRows
<1>3. n \in Nat /\ n \notin DOMAIN h /\ DOMAIN h = 0..n - 1 /\ PagesOK(h)
  BY <1>2, FileFacts
<1>4. /\ FileOK(k) /\ DOMAIN k = 0..n /\ k[n] = page /\ k[cur] = Linked(h[cur], n)
      /\ \A q \in DOMAIN h \ {cur} : k[q] = h[q]
      /\ \A q \in DOMAIN h : Chain(k, q) = IF Last(Chain(h, q)) = cur
                                           THEN Append(Chain(h, q), n)
                                           ELSE Chain(h, q)
  <2>1. /\ FileOK(h) /\ cur \in DOMAIN h /\ ~h[cur].has_overflow /\ page \in GoodPages
        /\ ~page.has_overflow /\ page.ptr = 0 /\ Extended(h, k, cur, n, page)
    BY <1>2 DEF Extended
  <2>2. FileOK(k) /\ DOMAIN k = 0..n
    BY <2>1, AllocateNext
  <2>3. k[n] = page /\ k[cur] = Linked(h[cur], n)
    BY <2>1, AllocateNext
  <2>4. \A q \in DOMAIN h \ {cur} : k[q] = h[q]
    BY <2>1, AllocateNext
  <2>5. \A q \in DOMAIN h : Chain(k, q) = IF Last(Chain(h, q)) = cur
                                           THEN Append(Chain(h, q), n)
                                           ELSE Chain(h, q)
    BY <2>1, AllocateNext
  <2> QED
    BY <2>2, <2>3, <2>4, <2>5
<1>5. /\ PagesOK(k) /\ n \in DOMAIN k /\ DOMAIN h \subseteq DOMAIN k
      /\ \A q \in DOMAIN k : q = n \/ q = cur \/ q \in DOMAIN h \ {cur}
  <2>1. PagesOK(k)
    BY <1>4, FileFacts
  <2>2. n \in 0..n /\ 0..n - 1 \subseteq 0..n /\ \A q \in 0..n : q = n \/ q \in 0..n - 1
    BY <1>3
  <2>3. n \in DOMAIN k /\ DOMAIN h \subseteq DOMAIN k
    BY <1>3, <1>4, <2>2
  <2>4. \A q \in DOMAIN k : q = n \/ q \in DOMAIN h
    BY <1>3, <1>4, <2>2
  <2> QED
    BY <2>1, <2>3, <2>4
<1>6. /\ DOMAIN new = DOMAIN rows /\ new[id] = rows[id] \o Data(page)
      /\ \A q \in DOMAIN rows \ {id} : new[q] = rows[q]
  OBVIOUS
<1> HIDE DEF new
<1>7. h[cur] \in GoodPages /\ k[cur].ptr = n /\ Data(k[cur]) = Data(h[cur])
  <2>1. h[cur] \in GoodPages
    BY <1>2, <1>3 DEF PagesOK
  <2> QED
    BY <1>3, <1>4, <2>1, LinkedGood
<1>8. \A q \in DOMAIN h : Data(k[q]) = Data(h[q])
  BY <1>4, <1>7
<1>9. Unreached(k, DOMAIN rows)
  <2> SUFFICES ASSUME NEW p \in DOMAIN k, k[p].has_overflow PROVE k[p].ptr \notin DOMAIN rows
    BY DEF Unreached
  <2>1. CASE p = n
    BY <1>4, <2>1
  <2>2. CASE p = cur
    BY <1>2, <1>3, <1>7, <2>2
  <2>3. CASE p \in DOMAIN h \ {cur}
    BY <1>4, <2>3 DEF HoldsRows, Unreached
  <2> QED
    BY <1>5, <2>1, <2>2, <2>3
<1>10. Chain(k, id) = Append(c, n) /\ Last(Append(c, n)) = n
  <2>1. Chain(k, id) = Append(c, n)
    BY <1>1, <1>2, <1>4
  <2>2. Len(Append(c, n)) = Len(c) + 1 /\ Append(c, n)[Len(c) + 1] = n
    BY <1>1
  <2> QED
    BY <2>1, <2>2 DEF Last
<1>11. GetRecord(k, id) = new[id]
  <2>1. c \in Seq(DOMAIN k)
    BY <1>1, <1>5, SeqWider
  <2>2. SameData(h, k, c, Len(c))
    BY <1>1, <1>8 DEF SameData
  <2>3. Collected(k, c) = Collected(h, c)
    <3>1. PagesOK(h) /\ PagesOK(k) /\ c \in Seq(DOMAIN h)
      BY <1>1, <1>3, <1>5
    <3> QED
      BY <2>1, <2>2, <3>1, CollectedSame
  <2>4. Collected(k, Append(c, n)) = Collected(k, c) \o Data(k[n])
    BY <1>5, <2>1, CollectedAppend
  <2>5. GetRecord(k, id) = Collected(k, Append(c, n))
    BY <1>10, Zenon DEF GetRecord
  <2> QED
    BY <1>1, <1>4, <1>6, <2>3, <2>4, <2>5
<1>12. ASSUME NEW q \in DOMAIN rows, q # id PROVE GetRecord(k, q) = new[q]
  <2>1. PICK d : /\ d = Chain(h, q) /\ IsChain(h, d, q)
                 /\ d \in Seq(DOMAIN h) /\ Len(d) \in Nat
                 /\ Last(d) = d[Len(d)] /\ Len(d) \in 1..Len(d)
                 /\ \A i \in 1..Len(d) : d[i] \in DOMAIN h
                 /\ rows[q] = Collected(h, d)
    BY HeldFacts
  <2>2. Last(d) # cur
    <3> SUFFICES ASSUME Last(d) = cur PROVE FALSE
      OBVIOUS
    <3> DEFINE D == DOMAIN rows
    <3>1. /\ FileOK(h) /\ Unreached(h, D) /\ id \in D /\ q \in D
          /\ IsChain(h, c, id) /\ IsChain(h, d, q)
          /\ Len(c) \in 1..Len(c) /\ Len(d) \in 1..Len(d) /\ c[Len(c)] = d[Len(d)]
      BY <1>1, <1>2, <2>1 DEF HoldsRows
    <3> HIDE DEF D
    <3>2. id = q
      BY <3>1, HeadsApart
    <3> QED
      BY <1>12, <3>2
  <2>3. Chain(k, q) = d
    BY <1>2, <1>4, <2>1, <2>2
  <2>4. d \in Seq(DOMAIN k)
    BY <1>5, <2>1, SeqWider
  <2>5. SameData(h, k, d, Len(d))
    BY <1>8, <2>1 DEF SameData
  <2>6. Collected(k, d) = Collected(h, d)
    <3>1. PagesOK(h) /\ PagesOK(k) /\ d \in Seq(DOMAIN h)
      BY <1>3, <1>5, <2>1
    <3> QED
      BY <2>4, <2>5, <3>1, CollectedSame
  <2>7. GetRecord(k, q) = Collected(k, d)
    BY <2>3, Zenon DEF GetRecord
  <2> QED
    BY <1>6, <1>12, <2>1, <2>6, <2>7
<1>13. HoldsRows(k, new)
  <2>1. DOMAIN new \subseteq DOMAIN k
    BY <1>2, <1>5, <1>6
  <2>2. \A q \in DOMAIN new : GetRecord(k, q) = new[q]
    BY <1>6, <1>11, <1>12
  <2> QED
    BY <1>4, <1>6, <1>9, <2>1, <2>2, Zenon DEF HoldsRows
<1> QED
  BY <1>10, <1>13 DEF new, Longer

\* A page of its own leaves the rows alone, and may hold one.
LEMMA HoldsApart ==
    ASSUME NEW h, NEW rows, HoldsRows(h, rows),
           NEW page \in GoodPages, ~page.has_overflow, page.ptr = 0,
           NEW n, n = Cardinality(DOMAIN h), NEW k, k = Allocated(h, page)
    PROVE  /\ HoldsRows(k, rows)
           /\ HoldsRows(k, With(rows, n, Data(page)))
           /\ n \notin DOMAIN rows
<1>1. FileOK(h) /\ DOMAIN rows \subseteq DOMAIN h
  BY DEF HoldsRows
<1>2. n \in Nat /\ n \notin DOMAIN h /\ DOMAIN h = 0..n - 1 /\ PagesOK(h)
  BY <1>1, FileFacts
<1>3. /\ FileOK(k) /\ DOMAIN k = 0..n /\ k[n] = page
      /\ \A q \in DOMAIN h : k[q] = h[q]
      /\ \A q \in DOMAIN h : Chain(k, q) = Chain(h, q)
      /\ Chain(k, n) = <<n>>
  BY <1>1, AllocateApart
<1>4. /\ PagesOK(k) /\ n \in DOMAIN k /\ DOMAIN h \subseteq DOMAIN k
      /\ \A q \in DOMAIN k : q = n \/ q \in DOMAIN h
  <2>1. PagesOK(k)
    BY <1>3, FileFacts
  <2>2. n \in 0..n /\ 0..n - 1 \subseteq 0..n /\ \A q \in 0..n : q = n \/ q \in 0..n - 1
    BY <1>2
  <2>3. n \in DOMAIN k /\ DOMAIN h \subseteq DOMAIN k
    BY <1>2, <1>3, <2>2
  <2>4. \A q \in DOMAIN k : q = n \/ q \in DOMAIN h
    BY <1>2, <1>3, <2>2
  <2> QED
    BY <2>1, <2>3, <2>4
<1>5. ASSUME NEW p \in DOMAIN k, k[p].has_overflow
      PROVE  k[p].ptr \notin DOMAIN rows \cup {n}
  <2>1. p \in DOMAIN h /\ k[p] = h[p]
    BY <1>3, <1>4, <1>5
  <2>2. h[p].ptr \notin DOMAIN rows
    BY <1>5, <2>1 DEF HoldsRows, Unreached
  <2>3. h[p].ptr # n
    <3>1. h[p].ptr < n
      BY <1>1, <1>5, <2>1 DEF FileOK
    <3> QED
      BY <1>2, <3>1
  <2> QED
    BY <2>1, <2>2, <2>3
<1>6. ASSUME NEW q \in DOMAIN rows PROVE GetRecord(k, q) = rows[q]
  <2>1. PICK d : /\ d = Chain(h, q) /\ IsChain(h, d, q)
                 /\ d \in Seq(DOMAIN h) /\ Len(d) \in Nat
                 /\ \A i \in 1..Len(d) : d[i] \in DOMAIN h
                 /\ rows[q] = Collected(h, d)
    BY HeldFacts
  <2>2. Chain(k, q) = d
    BY <1>1, <1>3, <2>1
  <2>3. d \in Seq(DOMAIN k)
    BY <1>4, <2>1, SeqWider
  <2>4. SameData(h, k, d, Len(d))
    BY <1>3, <2>1 DEF SameData
  <2>5. Collected(k, d) = Collected(h, d)
    BY <1>2, <1>4, <2>1, <2>3, <2>4, CollectedSame
  <2>6. GetRecord(k, q) = Collected(k, d)
    BY <2>2, Zenon DEF GetRecord
  <2> QED
    BY <2>1, <2>5, <2>6
<1>7. GetRecord(k, n) = Data(page)
  <2>1. <<>> \in Seq(DOMAIN k) /\ Append(<<>>, n) = <<n>>
    OBVIOUS
  <2>2. Collected(k, <<n>>) = Collected(k, <<>>) \o Data(k[n]) /\ Collected(k, <<>>) \in Seq(Records)
    <3> DEFINE e == <<>>
    <3>1. e \in Seq(DOMAIN k)
      BY <2>1
    <3> HIDE DEF e
    <3>2. Collected(k, Append(e, n)) = Collected(k, e) \o Data(k[n]) /\ Collected(k, e) \in Seq(Records)
      BY <1>4, <3>1, CollectedAppend
    <3> QED
      BY <2>1, <3>2, Zenon DEF e
  <2>3. Collected(k, <<>>) = <<>>
    <3> DEFINE e == <<>>
    <3>1. e \in Seq(DOMAIN k) /\ Len(e) = 0
      BY <2>1
    <3> HIDE DEF e
    <3>2. PICK f : ReadRun(k, e, f) /\ Collected(k, e) = f[Len(e)]
      BY <1>4, <3>1, CollectedRun
    <3>3. Collected(k, e) = <<>>
      BY <3>1, <3>2 DEF ReadRun
    <3> QED
      BY <3>3 DEF e
  <2>4. Data(page) \in Seq(Records)
    BY DataTyped
  <2>5. <<>> \o Data(page) = Data(page)
    BY <2>4
  <2>6. GetRecord(k, n) = Collected(k, <<n>>)
    BY <1>3, Zenon DEF GetRecord
  <2> QED
    BY <1>3, <2>2, <2>3, <2>5, <2>6
<1>8. HoldsRows(k, rows)
  <2>1. DOMAIN rows \subseteq DOMAIN k /\ Unreached(k, DOMAIN rows)
    BY <1>1, <1>4, <1>5 DEF Unreached
  <2> QED
    BY <1>3, <1>6, <2>1, Zenon DEF HoldsRows
<1>9. HoldsRows(k, With(rows, n, Data(page)))
  <2> DEFINE new == With(rows, n, Data(page))
  <2>1. /\ DOMAIN new = DOMAIN rows \cup {n} /\ new[n] = Data(page)
        /\ \A q \in DOMAIN rows : q # n /\ new[q] = rows[q]
    BY <1>1, <1>2 DEF With
  <2> HIDE DEF new
  <2>2. DOMAIN new \subseteq DOMAIN k /\ Unreached(k, DOMAIN new)
    BY <1>1, <1>4, <1>5, <2>1 DEF Unreached
  <2>3. \A q \in DOMAIN new : GetRecord(k, q) = new[q]
    BY <1>6, <1>7, <2>1
  <2>4. HoldsRows(k, new)
    BY <1>3, <2>2, <2>3, Zenon DEF HoldsRows
  <2> QED
    BY <2>4 DEF new
<1> QED
  BY <1>1, <1>2, <1>8, <1>9

LEMMA LongerTwice ==
    ASSUME NEW rows, NEW id \in DOMAIN rows, rows[id] \in Seq(Records),
           NEW a \in Seq(Records), NEW b \in Seq(Records)
    PROVE  Longer(Longer(rows, id, a), id, b) = Longer(rows, id, a \o b)
<1> DEFINE s == rows[id]
<1>1. (s \o a) \o b = s \o (a \o b)
  BY ConcatAssociative
<1>2. [rows EXCEPT ![id] = @ \o a][id] = s \o a
  OBVIOUS
<1>3. [[rows EXCEPT ![id] = @ \o a] EXCEPT ![id] = (s \o a) \o b] = [rows EXCEPT ![id] = (s \o a) \o b]
  OBVIOUS
<1> QED
  BY <1>1, <1>2, <1>3 DEF Longer

\* Where insert_records is on its way, with put of the page id's new records in the file.
HoldsPut(h, cur, put, ok, rows, id) ==
    /\ HoldsRows(h, Longer(rows, id, put))
    /\ ok => cur = Last(Chain(h, id))

Holding(rows, id) ==
    {at \in PutStates(0) : HoldsPut(at.heap, at.cur, at.put, at.ok, rows, id)}

LEMMA HoldingIn ==
    ASSUME NEW rows, NEW id, NEW h, NEW cur, NEW put, NEW ok, NEW at \in PutStates(0),
           at = [heap |-> h, cur |-> cur, put |-> put, ok |-> ok],
           HoldsPut(h, cur, put, ok, rows, id)
    PROVE  at \in Holding(rows, id)
<1>1. at.heap = h /\ at.cur = cur /\ at.put = put /\ at.ok = ok
  OBVIOUS
<1>2. HoldsPut(at.heap, at.cur, at.put, at.ok, rows, id)
  BY <1>1, Zenon
<1> QED
  BY <1>2 DEF Holding

\* One record of insert_records is added to the row, or refused for its size.
LEMMA PutKeeps ==
    ASSUME NEW rows, NEW id \in DOMAIN rows, rows[id] \in Seq(Records),
           NEW at \in Holding(rows, id), NEW r \in Records
    PROVE  /\ Put(at, r) \in Holding(rows, id)
           /\ Put(at, r).ok <=> (at.ok /\ r.size + SLOT_SIZE <= Room)
<1>1. at \in PutStates(0) /\ HoldsPut(at.heap, at.cur, at.put, at.ok, rows, id)
  BY DEF Holding
<1>2. PICK h \in Heaps, cur \in Nat \cup {0}, put \in Seq(Records), ok \in BOOLEAN :
         at = [heap |-> h, cur |-> cur, put |-> put, ok |-> ok]
  BY <1>1 DEF PutStates
<1>3. at.heap = h /\ at.cur = cur /\ at.put = put /\ at.ok = ok
  BY <1>2
<1>4. HoldsPut(h, cur, put, ok, rows, id)
  BY <1>1, <1>3, Zenon
<1> DEFINE n == Cardinality(DOMAIN h)
           new == NewPage(FALSE)
           linked == NextLinked(h, cur)
           now == Longer(rows, id, put)
<1>5. PutCases(at, h, cur, put, ok, r, n, linked)
  BY <1>2, PutValue
<1>6. Put(at, r) \in PutStates(0)
  BY <1>1, PutLaidOut
<1>7. HoldsRows(h, now) /\ id \in DOMAIN now
  BY <1>4 DEF HoldsPut, Longer
<1>8. /\ new \in GoodPages /\ new.ptr = 0 /\ ~new.has_overflow
      /\ Data(new) = <<>> /\ Free(new) = Room
  BY NewPageGood
<1>9. Fits(new, r) <=> r.size + SLOT_SIZE <= Room
  BY <1>8, FitsFree
<1>10. /\ <<>> \in Seq(Records) /\ <<r>> \in Seq(Records) /\ Append(put, r) = put \o <<r>>
       /\ put \o <<>> = put
  BY AppendIsConcat, ConcatEmptySeq
<1>17. ASSUME NEW more \in Seq(Records)
       PROVE  Longer(now, id, more) = Longer(rows, id, put \o more)
  BY LongerTwice
<1> HIDE DEF n, new, linked, now
<1>11. ASSUME ok PROVE cur = Last(Chain(h, id)) /\ cur \in DOMAIN h /\ h[cur] \in GoodPages
  <2>1. cur = Last(Chain(h, id))
    BY <1>4, <1>11 DEF HoldsPut
  <2>2. cur \in DOMAIN h
    BY <1>7, <2>1, HeldFacts
  <2>3. PagesOK(h)
    BY <1>7, FileFacts DEF HoldsRows
  <2> QED
    BY <2>1, <2>2, <2>3 DEF PagesOK
<1>12. ASSUME ok PROVE HoldsRows(linked, now) /\ Last(Chain(linked, id)) = n /\ linked[n] = new
  <2>1. n = Cardinality(DOMAIN h) /\ linked = Allocated([h EXCEPT ![cur] = Linked(@, n)], new)
    BY Zenon DEF n, new, linked, NextLinked
  <2>2. /\ HoldsRows(linked, Longer(now, id, Data(new)))
        /\ Last(Chain(linked, id)) = n
    BY <1>7, <1>8, <1>11, <1>12, <2>1, HoldsNext
  <2>3. Longer(now, id, Data(new)) = now
    BY <1>8, <1>10, <1>17 DEF now
  <2>4. linked[n] = new
    <3> DEFINE g == [h EXCEPT ![cur] = Linked(@, n)]
    <3>1. DOMAIN g = DOMAIN h /\ n \notin DOMAIN h
      BY <2>1, HeapsFacts
    <3>2. linked = Allocated(g, new)
      BY <2>1
    <3> HIDE DEF g
    <3> QED
      BY <2>1, <3>1, <3>2 DEF Allocated
  <2> QED
    BY <2>2, <2>3, <2>4
<1>13. CASE ok /\ HasRoom(h[cur], r)
  <2> DEFINE page == AddCell(h[cur], r)
             k == [h EXCEPT ![cur] = page]
  <2>1. Put(at, r) = [heap |-> k, cur |-> cur, put |-> Append(put, r), ok |-> TRUE]
    BY <1>5, <1>13, Zenon DEF PutCases
  <2>2. Fits(h[cur], r) /\ r.size + SLOT_SIZE <= Room
    BY <1>11, <1>13, RoomFits
  <2>3. page \in GoodPages /\ SameLink(h[cur], page) /\ Data(page) = Data(h[cur]) \o <<r>>
    <3>1. /\ page \in GoodPages /\ page.ptr = h[cur].ptr
          /\ page.has_overflow = h[cur].has_overflow
          /\ Data(page) = Append(Data(h[cur]), r)
      BY <1>11, <1>13, <2>2, AddCellGood
    <3>2. Append(Data(h[cur]), r) = Data(h[cur]) \o <<r>>
      BY <1>11, <1>13, DataTyped, AppendIsConcat
    <3> HIDE DEF page
    <3> QED
      BY <3>1, <3>2 DEF SameLink
  <2> HIDE DEF page
  <2>4. Changed(h, k, cur, page)
    BY <1>11, <1>13, <2>3 DEF Changed
  <2> HIDE DEF k
  <2> DEFINE more == <<r>>
  <2>10. more \in Seq(Records) /\ Data(page) = Data(h[cur]) \o more
    BY <1>10, <2>3
  <2> HIDE DEF more
  <2>11. HoldsRows(k, Longer(now, id, more))
    BY <1>7, <1>11, <1>13, <2>3, <2>4, <2>10, HoldsInPlace
  <2>12. Chain(k, id) = Chain(h, id)
    <3>1. FileOK(h) /\ id \in DOMAIN h
      BY <1>7, <1>11, <1>13 DEF HoldsRows
    <3>2. \A q \in DOMAIN h : Chain(k, q) = Chain(h, q)
      BY <2>3, <2>4, <3>1, InPlace
    <3> QED
      BY <3>1, <3>2
  <2>5. HoldsRows(k, Longer(now, id, <<r>>)) /\ Chain(k, id) = Chain(h, id)
    BY <2>11, <2>12 DEF more
  <2>6. Longer(now, id, <<r>>) = Longer(rows, id, Append(put, r))
    BY <1>10, <1>17
  <2>7. HoldsPut(k, cur, Append(put, r), TRUE, rows, id)
    BY <1>11, <1>13, <2>5, <2>6 DEF HoldsPut
  <2>8. Put(at, r) \in Holding(rows, id)
    BY <1>6, <2>1, <2>7, HoldingIn
  <2>9. Put(at, r).ok
    BY <2>1
  <2> QED
    BY <1>3, <1>13, <2>2, <2>8, <2>9
<1>14. CASE ok /\ ~HasRoom(h[cur], r) /\ Fits(new, r)
  <2> DEFINE page == AddCell(linked[n], r)
             k == [linked EXCEPT ![n] = page]
  <2>1. Put(at, r) = [heap |-> k, cur |-> n, put |-> Append(put, r), ok |-> TRUE]
    BY <1>5, <1>14, Zenon DEF PutCases, new
  <2>10. n \in DOMAIN linked
    BY <1>7, <1>12, <1>14, HeldFacts
  <2>2. linked[n] \in GoodPages /\ Fits(linked[n], r)
    BY <1>8, <1>12, <1>14
  <2>3. page \in GoodPages /\ SameLink(linked[n], page) /\ Data(page) = Data(linked[n]) \o <<r>>
    <3>1. /\ page \in GoodPages /\ page.ptr = linked[n].ptr
          /\ page.has_overflow = linked[n].has_overflow
          /\ Data(page) = Append(Data(linked[n]), r)
      BY <2>2, AddCellGood
    <3>2. Append(Data(linked[n]), r) = Data(linked[n]) \o <<r>>
      BY <2>2, DataTyped, AppendIsConcat
    <3> HIDE DEF page
    <3> QED
      BY <3>1, <3>2 DEF SameLink
  <2> HIDE DEF page
  <2>4. Changed(linked, k, n, page)
    BY <1>12, <1>14, <2>3, <2>10 DEF Changed
  <2> HIDE DEF k
  <2> DEFINE more == <<r>>
  <2>13. more \in Seq(Records) /\ Data(page) = Data(linked[n]) \o more
    BY <1>10, <2>3
  <2> HIDE DEF more
  <2>11. HoldsRows(k, Longer(now, id, more))
    BY <1>7, <1>12, <1>14, <2>3, <2>4, <2>13, HoldsInPlace
  <2>12. Chain(k, id) = Chain(linked, id)
    <3>1. FileOK(linked) /\ id \in DOMAIN linked
      BY <1>7, <1>12, <1>14 DEF HoldsRows
    <3>2. \A q \in DOMAIN linked : Chain(k, q) = Chain(linked, q)
      BY <2>3, <2>4, <3>1, InPlace
    <3> QED
      BY <3>1, <3>2
  <2>5. HoldsRows(k, Longer(now, id, <<r>>)) /\ Chain(k, id) = Chain(linked, id)
    BY <2>11, <2>12 DEF more
  <2>6. Longer(now, id, <<r>>) = Longer(rows, id, Append(put, r))
    BY <1>10, <1>17
  <2>7. HoldsPut(k, n, Append(put, r), TRUE, rows, id)
    BY <1>12, <1>14, <2>5, <2>6 DEF HoldsPut
  <2>8. Put(at, r) \in Holding(rows, id)
    BY <1>6, <2>1, <2>7, HoldingIn
  <2>9. Put(at, r).ok
    BY <2>1
  <2> QED
    BY <1>3, <1>9, <1>14, <2>8, <2>9
<1>15. CASE ok /\ ~HasRoom(h[cur], r) /\ ~Fits(new, r)
  <2>1. Put(at, r) = [heap |-> linked, cur |-> cur, put |-> put, ok |-> FALSE]
    BY <1>5, <1>15, Zenon DEF PutCases, new
  <2>2. HoldsPut(linked, cur, put, FALSE, rows, id)
    BY <1>12, <1>15 DEF HoldsPut, now
  <2>3. Put(at, r) \in Holding(rows, id)
    BY <1>6, <2>1, <2>2, HoldingIn
  <2>4. ~Put(at, r).ok
    BY <2>1
  <2> QED
    BY <1>9, <1>15, <2>3, <2>4
<1>16. CASE ~ok
  <2>1. Put(at, r) = at
    BY <1>5, <1>16, Zenon DEF PutCases
  <2> QED
    BY <1>3, <1>16, <2>1, Zenon
<1> QED
  BY <1>13, <1>14, <1>15, <1>16

WorksOn(h, id) == IF h[id].primary THEN id = 0 ELSE ~h[id].has_overflow

\* Where find_tail_id has insert_records begin is the end of the page's own chain,
\* for the pages it works for.
LEMMA FromTail ==
    ASSUME NEW h, FileOK(h), NEW id \in DOMAIN h, WorksOn(h, id)
    PROVE  From(h, id) = Last(Chain(h, id))
<1>1. PICK c : c = Chain(h, id) /\ IsChain(h, c, id)
  BY ChainIsChain
<1>2. /\ c \in Seq(DOMAIN h) /\ Len(c) \in Nat /\ Len(c) > 0 /\ c[1] = id
      /\ ~h[c[Len(c)]].has_overflow /\ Last(c) = c[Len(c)]
      /\ FollowsLinks(h, c)
  BY <1>1 DEF IsChain, Last
<1> DEFINE m == Len(c)
<1>5. m \in Nat /\ m > 0
  BY <1>2
<1> HIDE DEF m
<1>3. CASE ~h[id].has_overflow
  <2>1. Len(c) = 1
    <3>1. \A i \in 1..Len(c) - 1 : h[c[i]].has_overflow
      BY <1>2 DEF FollowsLinks
    <3>2. 1 \notin 1..m - 1
      BY <1>2, <1>3, <3>1 DEF m
    <3>3. m = 1
      BY <1>5, <3>2
    <3> QED
      BY <3>3 DEF m
  <2>2. Last(c) = id
    BY <1>2, <2>1
  <2>3. h[id].ptr = 0
    BY <1>3 DEF FileOK
  <2>4. From(h, id) = Last(c)
    <3>1. CASE h[id].primary
      <4>1. h[id].ptr = id
        BY <2>3, <3>1 DEF WorksOn
      <4>2. From(h, id) = Last(Chain(h, h[id].ptr))
        BY <3>1, Zenon DEF From
      <4> QED
        BY <1>1, <4>1, <4>2, Zenon
    <3>2. CASE ~h[id].primary
      BY <2>2, <3>2, Zenon DEF From
    <3> QED
      BY <3>1, <3>2
  <2> QED
    BY <1>1, <2>4
<1>4. CASE h[id].has_overflow
  <2> DEFINE v == h[id].ptr
  <2>1. m > 1 /\ 1 \in 1..m - 1
    <3>1. m # 1
      BY <1>2, <1>4 DEF m
    <3> QED
      BY <1>5, <3>1
  <2>2. PICK d : /\ d \in Seq(DOMAIN h) /\ Len(d) = Len(c) - 1 /\ Len(d) \in Nat /\ Len(d) > 0
                 /\ \A i \in 1..Len(d) : d[i] = c[i + 1]
    <3>1. Len(c) \in Nat /\ Len(c) > 1 /\ c \in Seq(DOMAIN h) /\ c # <<>>
      BY <1>2, <2>1 DEF m
    <3>2. Tail(c) \in Seq(DOMAIN h) /\ Len(Tail(c)) = Len(c) - 1
      BY <3>1
    <3>3. \A i \in 1..Len(c) - 1 : Tail(c)[i] = c[i + 1]
      BY <3>1
    <3> DEFINE t == Tail(c)
    <3>4. /\ t \in Seq(DOMAIN h) /\ Len(t) = Len(c) - 1 /\ Len(t) \in Nat /\ Len(t) > 0
          /\ \A i \in 1..Len(t) : t[i] = c[i + 1]
      BY <3>1, <3>2, <3>3
    <3> HIDE DEF t
    <3> QED
      BY <3>4, Zenon
  <2>3. 1 \in 1..Len(c) - 1
    BY <2>1 DEF m
  <2>4. d[1] = v
    <3>1. h[c[1]].ptr = c[1 + 1]
      BY <1>2, <2>3 DEF FollowsLinks
    <3>2. 1 \in 1..Len(d)
      BY <2>2
    <3>3. d[1] = c[1 + 1]
      BY <2>2, <3>2
    <3> QED
      BY <1>2, <3>1, <3>3
  <2>5. FollowsLinks(h, d)
    <3> SUFFICES ASSUME NEW i \in 1..Len(d) - 1
                 PROVE  h[d[i]].has_overflow /\ h[d[i]].ptr = d[i + 1]
      BY DEF FollowsLinks
    <3>1. i \in 1..Len(d) /\ i + 1 \in 1..Len(d) /\ i + 1 \in 1..Len(c) - 1
      BY <1>2, <2>2
    <3>2. h[c[i + 1]].has_overflow /\ h[c[i + 1]].ptr = c[(i + 1) + 1]
      BY <1>2, <3>1 DEF FollowsLinks
    <3> QED
      BY <2>2, <3>1, <3>2
  <2>6. d[Len(d)] = c[Len(c)]
    <3>1. Len(d) \in 1..Len(d) /\ Len(d) + 1 = Len(c)
      BY <1>2, <2>2
    <3> QED
      BY <2>2, <3>1
  <2>7. v \in DOMAIN h
    <3>1. 1 \in 1..Len(d)
      BY <2>2
    <3> QED
      BY <2>2, <2>4, <3>1
  <2>8. IsChain(h, d, v)
    BY <1>2, <2>2, <2>4, <2>5, <2>6 DEF IsChain
  <2> HIDE DEF v
  <2>9. Chain(h, v) = d
    BY <2>7, <2>8, ChainFound
  <2>10. h[id].primary
    BY <1>4, Zenon DEF WorksOn
  <2>11. From(h, id) = Last(Chain(h, v))
    BY <2>10, Zenon DEF From, v
  <2>12. Last(d) = d[Len(d)]
    BY DEF Last
  <2> QED
    BY <1>1, <1>2, <2>6, <2>9, <2>11, <2>12
<1> QED
  BY <1>3, <1>4

\* The pages hold what was stored, and the index leads each key to a page of its own.
RowsInv ==
    /\ HoldsRows(heap, stored)
    /\ \A k \in DOMAIN index : index[k] \in DOMAIN stored
    /\ \A j, k \in DOMAIN index : index[j] = index[k] => j = k

\* insert_records adds a beginning of the row to the page's records, the whole of
\* it unless a record is too large for a page.
LEMMA InsertRecordsKeeps ==
    ASSUME NEW h, NEW rows, HoldsRows(h, rows), NEW id \in DOMAIN rows, WorksOn(h, id),
           NEW row \in Seq(Records)
    PROVE  /\ PutAll(h, id, row) \in Holding(rows, id)
           /\ PutAll(h, id, row).ok <=> \A i \in DOMAIN row : row[i].size + SLOT_SIZE <= Room
<1> DEFINE S == Holding(rows, id)
           base == PutStart(h, id)
           put == PutAll(h, id, row)
<1>1. FileOK(h) /\ id \in DOMAIN h /\ rows[id] \in Seq(Records)
  <2>1. rows[id] \in Seq(Records)
    BY HeldFacts
  <2> QED
    BY <2>1 DEF HoldsRows
<1>2. base \in S /\ base.ok
  <2>1. From(h, id) = Last(Chain(h, id))
    BY <1>1, FromTail
  <2>2. From(h, id) \in DOMAIN h
    BY <2>1, HeldFacts
  <2> DEFINE cur == From(h, id)
  <2> HIDE DEF cur
  <2>3. h \in Heaps /\ cur \in Nat
    <3>1. PICK N : N \in Nat /\ h \in [0..N - 1 -> GoodPages]
      BY <1>1 DEF FileOK
    <3> QED
      BY <2>2, <3>1 DEF Heaps, cur
  <2> DEFINE none == <<>>
  <2>4. none \in Seq(Records)
    OBVIOUS
  <2>5. HoldsRows(h, Longer(rows, id, none))
    <3> DEFINE new == Longer(rows, id, none)
    <3>1. DOMAIN new = DOMAIN rows /\ \A q \in DOMAIN rows : new[q] = rows[q]
      <4>1. rows[id] \o none = rows[id]
        BY <1>1, ConcatEmptySeq
      <4> QED
        BY <4>1 DEF Longer
    <3> HIDE DEF new
    <3>2. HoldsRows(h, new)
      BY <3>1 DEF HoldsRows
    <3> QED
      BY <3>2 DEF new
  <2>6. base = [heap |-> h, cur |-> cur, put |-> none, ok |-> TRUE]
    BY Zenon DEF PutStart, cur
  <2> HIDE DEF none, base
  <2>7. HoldsPut(h, cur, none, TRUE, rows, id)
    BY <2>1, <2>5 DEF HoldsPut, cur
  <2>8. base \in PutStates(0)
    BY <2>3, <2>4, <2>6, PutStateIn
  <2>9. base \in S
    BY <2>6, <2>7, <2>8, HoldingIn
  <2> QED
    BY <2>6, <2>9
<1>3. \A at \in S, r \in Records :
         Put(at, r) \in S /\ (Put(at, r).ok <=> (at.ok /\ r.size + SLOT_SIZE <= Room))
  BY <1>1, PutKeeps
<1> HIDE DEF S, base
<1>4. PICK f : PutRun(f, h, id, row, S)
  BY <1>2, <1>3, PutAllRun DEF base
<1> DEFINE N == Len(row)
           P == {i \in 0..N : f[i].ok <=> \A j \in 1..i : row[j].size + SLOT_SIZE <= Room}
<1>5. /\ N \in Nat /\ f \in [0..N -> S] /\ f[0] = base
      /\ \A i \in 1..N : f[i] = Put(f[i - 1], row[i])
      /\ put = f[N]
  BY <1>4 DEF PutRun, base
<1>6. 0 \in P
  BY <1>2, <1>5
<1>7. ASSUME NEW i \in 1..N, i - 1 \in P PROVE i \in P
  <2>1. i \in 0..N /\ i - 1 \in 0..N /\ row[i] \in Records /\ f[i - 1] \in S
    BY <1>5
  <2>2. f[i].ok <=> (f[i - 1].ok /\ row[i].size + SLOT_SIZE <= Room)
    BY <1>3, <1>5, <2>1
  <2>3. f[i - 1].ok <=> \A j \in 1..i - 1 : row[j].size + SLOT_SIZE <= Room
    BY <1>7
  <2>4. (\A j \in 1..i : row[j].size + SLOT_SIZE <= Room)
        <=> ((\A j \in 1..i - 1 : row[j].size + SLOT_SIZE <= Room)
             /\ row[i].size + SLOT_SIZE <= Room)
    <3>1. i \in 1..i /\ 1..i - 1 \subseteq 1..i /\ \A j \in 1..i : j = i \/ j \in 1..i - 1
      BY <2>1
    <3> HIDE DEF N
    <3> QED
      BY <3>1, Zenon
  <2> QED
    BY <2>1, <2>2, <2>3, <2>4
<1>8. \A i \in 0..N : i \in P
  <2> HIDE DEF P, N
  <2> QED
    BY <1>5, <1>6, <1>7, UpTo
<1>9. N \in 0..N /\ DOMAIN row = 1..N
  BY <1>5
<1>10. put.ok <=> \A i \in 1..N : row[i].size + SLOT_SIZE <= Room
  <2>1. N \in P
    <3> HIDE DEF P
    <3> QED
      BY <1>8, <1>9
  <2> QED
    BY <1>5, <2>1
<1>11. put \in S
  BY <1>5, <1>9
<1> QED
  BY <1>9, <1>10, <1>11 DEF S

LEMMA RowsInvInit == Init => RowsInv
<1> SUFFICES ASSUME Init PROVE RowsInv
  OBVIOUS
<1>1. heap = <<>> /\ index = <<>> /\ stored = <<>>
  BY DEF Init
<1>2. DOMAIN heap = {} /\ DOMAIN stored = {} /\ DOMAIN index = {}
  BY <1>1
<1>3. Cardinality({}) = 0
  BY FS_EmptySet
<1>4. heap \in [0..0 - 1 -> GoodPages]
  BY <1>1
<1>5. FileOK(heap)
  BY <1>2, <1>3, <1>4 DEF FileOK
<1> QED
  BY <1>2, <1>5 DEF RowsInv, HoldsRows, Unreached

LEMMA RowsInvNext ==
    ASSUME HeadsAlone, RowsInv, [Next]_vars
    PROVE  RowsInv'
<1> DEFINE n == Cardinality(DOMAIN heap)
<1>1. HoldsRows(heap, stored)
  BY DEF RowsInv
<1>2. /\ \A k \in DOMAIN index : index[k] \in DOMAIN stored
      /\ \A j, k \in DOMAIN index : index[j] = index[k] => j = k
  BY DEF RowsInv
<1>3. ASSUME NEW key \in Keys, NEW row \in Rows, NEW indexed \in BOOLEAN,
              Insert(key, row, indexed)
       PROVE RowsInv'
  <2> DEFINE put == AddRecords(NewPage(FALSE), row)
  <2>1. /\ heap' = Allocated(heap, put.page) /\ key \notin DOMAIN index
        /\ put.ok /\ indexed => index' = With(index, key, n) /\ stored' = With(stored, n, row)
        /\ ~(put.ok /\ indexed) => index' = index /\ stored' = stored
    BY <1>3, Zenon DEF Insert, next_id
  <2>2. /\ put.page \in GoodPages /\ ~put.page.has_overflow /\ put.page.ptr = 0
        /\ put.ok \in BOOLEAN /\ (put.ok => Data(put.page) = row)
    BY RowsTyped, AddRecordsResult
  <2> DEFINE page == put.page
             ok == put.ok
  <2> HIDE DEF put
  <2>3. /\ HoldsRows(heap', stored) /\ HoldsRows(heap', With(stored, n, Data(page)))
        /\ n \notin DOMAIN stored
    <3> HIDE DEF n, page
    <3>1. page \in GoodPages /\ ~page.has_overflow /\ page.ptr = 0 /\ heap' = Allocated(heap, page)
      BY <2>1, <2>2 DEF page
    <3>2. n = Cardinality(DOMAIN heap)
      BY DEF n
    <3> DEFINE k == heap'
    <3>3. k = Allocated(heap, page)
      BY <3>1
    <3> HIDE DEF k
    <3>4. HoldsRows(k, stored) /\ n \notin DOMAIN stored
      BY <1>1, <3>1, <3>2, <3>3, HoldsApart
    <3>5. HoldsRows(k, With(stored, n, Data(page)))
      BY <1>1, <3>1, <3>2, <3>3, HoldsApart
    <3> QED
      BY <3>4, <3>5 DEF k
  <2>4. CASE put.ok /\ indexed
    <3>1. index' = With(index, key, n) /\ stored' = With(stored, n, row)
      BY <2>1, <2>4
    <3>2. HoldsRows(heap', stored')
      <4>1. stored' = With(stored, n, Data(page))
        BY <2>2, <2>4, <3>1, Zenon
      <4> QED
        BY <2>3, <4>1, Zenon
    <3> HIDE DEF n
    <3>3. /\ DOMAIN index' = DOMAIN index \cup {key} /\ index'[key] = n
          /\ \A k \in DOMAIN index : index'[k] = index[k]
          /\ DOMAIN stored' = DOMAIN stored \cup {n}
      BY <2>1, <3>1 DEF With
    <3>4. \A k \in DOMAIN index' : index'[k] \in DOMAIN stored'
      BY <1>2, <3>3
    <3>5. \A j, k \in DOMAIN index' : index'[j] = index'[k] => j = k
      BY <1>2, <2>3, <3>3
    <3> QED
      BY <3>2, <3>4, <3>5 DEF RowsInv
  <2>5. CASE ~(put.ok /\ indexed)
    BY <1>2, <2>1, <2>3, <2>5 DEF RowsInv
  <2> QED
    BY <2>4, <2>5
<1>4. ASSUME NEW key \in Keys, Delete(key) PROVE RowsInv'
  <2> DEFINE gone == index[key]
  <2>1. /\ key \in DOMAIN index /\ heap' = heap
        /\ index' = [k \in DOMAIN index \ {key} |-> index[k]]
        /\ stored' = [q \in DOMAIN stored \ {gone} |-> stored[q]]
    BY <1>4 DEF Delete
  <2> HIDE DEF gone
  <2>2. /\ DOMAIN stored' = DOMAIN stored \ {gone} /\ \A q \in DOMAIN stored' : stored'[q] = stored[q]
    BY <2>1
  <2>3. /\ DOMAIN index' = DOMAIN index \ {key} /\ \A k \in DOMAIN index' : index'[k] = index[k]
    BY <2>1
  <2>4. HoldsRows(heap', stored')
    <3>1. /\ FileOK(heap) /\ DOMAIN stored \subseteq DOMAIN heap
          /\ Unreached(heap, DOMAIN stored)
          /\ \A q \in DOMAIN stored : GetRecord(heap, q) = stored[q]
      BY <1>1 DEF HoldsRows
    <3>2. Unreached(heap, DOMAIN stored')
      BY <2>2, <3>1 DEF Unreached
    <3>3. HoldsRows(heap, stored')
      BY <2>2, <3>1, <3>2 DEF HoldsRows
    <3> QED
      BY <2>1, <3>3
  <2>5. \A k \in DOMAIN index' : index'[k] \in DOMAIN stored'
    BY <1>2, <2>1, <2>2, <2>3 DEF gone
  <2>6. \A j, k \in DOMAIN index' : index'[j] = index'[k] => j = k
    BY <1>2, <2>3
  <2> QED
    BY <2>4, <2>5, <2>6 DEF RowsInv
<1>5. CASE AllocatePrimary
  <2> DEFINE page == NewPage(TRUE)
  <2>1. /\ heap' = Allocated(heap, page) /\ stored' = With(stored, n, <<>>) /\ index' = index
    BY <1>5, Zenon DEF AllocatePrimary, next_id
  <2>2. page \in GoodPages /\ ~page.has_overflow /\ page.ptr = 0 /\ Data(page) = <<>>
    BY NewPageGood
  <2> HIDE DEF page
  <2>3. HoldsRows(heap', With(stored, n, Data(page)))
    <3> DEFINE k == heap'
    <3>1. k = Allocated(heap, page)
      BY <2>1
    <3>2. n = Cardinality(DOMAIN heap)
      OBVIOUS
    <3> HIDE DEF k, n
    <3>3. HoldsRows(k, With(stored, n, Data(page)))
      BY <1>1, <2>2, <3>1, <3>2, HoldsApart
    <3> QED
      BY <3>3 DEF k
  <2>4. HoldsRows(heap', stored')
    <3>1. stored' = With(stored, n, Data(page))
      BY <2>1, <2>2, Zenon
    <3> QED
      BY <2>3, <3>1, Zenon
  <2>5. DOMAIN stored \subseteq DOMAIN stored'
    BY <2>1 DEF With
  <2> QED
    BY <1>2, <2>1, <2>4, <2>5 DEF RowsInv
<1>6. ASSUME NEW id \in DOMAIN heap, NEW row \in Rows, InsertRecords(id, row) PROVE RowsInv'
  <2> DEFINE put == PutAll(heap, id, row)
  <2>1. /\ heap' = put.heap /\ stored' = Longer(stored, id, put.put) /\ index' = index
        /\ id \in DOMAIN stored /\ WorksOn(heap, id)
    BY <1>6 DEF InsertRecords, Longer, WorksOn, WorksFor
  <2>2. put \in Holding(stored, id)
    BY <1>1, <2>1, RowsTyped, InsertRecordsKeeps
  <2> HIDE DEF put
  <2>3. HoldsRows(put.heap, Longer(stored, id, put.put))
    BY <2>2, Zenon DEF Holding, HoldsPut
  <2>4. HoldsRows(heap', stored')
    BY <2>1, <2>3, Zenon
  <2>5. DOMAIN stored' = DOMAIN stored
    BY <2>1 DEF Longer
  <2> QED
    BY <1>2, <2>1, <2>4, <2>5 DEF RowsInv
<1>7. CASE UNCHANGED vars
  <2>1. heap' = heap /\ stored' = stored /\ index' = index
    BY <1>7 DEF vars
  <2>2. HoldsRows(heap', stored')
    BY <1>1, <2>1, Zenon
  <2> QED
    BY <1>2, <2>1, <2>2 DEF RowsInv
<1> QED
  BY <1>3, <1>4, <1>5, <1>6, <1>7 DEF Next

LEMMA RowsInvKept == RowsInv => RowsKept
<1> SUFFICES ASSUME RowsInv PROVE RowsKept
  OBVIOUS
<1>1. /\ FileOK(heap) /\ Unreached(heap, DOMAIN stored)
      /\ \A q \in DOMAIN stored : GetRecord(heap, q) = stored[q]
      /\ \A k \in DOMAIN index : index[k] \in DOMAIN stored
  BY DEF RowsInv, HoldsRows
<1>2. ReadsBack
  BY <1>1 DEF ReadsBack
<1>3. \A id \in DOMAIN heap : Chain(heap, id) # Endless
  BY <1>1, ChainIsChain
<1>4. \A p \in DOMAIN heap : heap[p].has_overflow => heap[p].ptr \notin DOMAIN stored
  BY <1>1 DEF Unreached
<1>5. \A p, q \in DOMAIN heap :
         heap[p].has_overflow /\ heap[q].has_overflow /\ heap[p].ptr = heap[q].ptr => p = q
  BY <1>1 DEF FileOK
<1>6. ChainsApart
  BY <1>3, <1>4, <1>5 DEF ChainsApart
<1> QED
  BY <1>2, <1>6 DEF RowsKept

\* While callers of insert_records keep to the pages it works for, what was put into
\* the file reads back whole and in order, each chain comes to an end, and no page is
\* on two of them.
THEOREM RowsKeptHolds ==
    ASSUME HeadsAlone
    PROVE  Spec => []RowsKept
<1>1. RowsInv /\ [Next]_vars => RowsInv'
  BY RowsInvNext
<1> QED
  BY <1>1, RowsInvInit, RowsInvKept, PTL DEF Spec

\* Under the same rule a row is refused for its size only, never for where its page is
\* or how full the file's pages are.
THEOREM RefusedForSizeHolds ==
    ASSUME HeadsAlone
    PROVE  Spec => []RefusedForSize
<1>1. Init => RefusedForSize
  <2> SUFFICES ASSUME last = [op |-> "none", row |-> <<>>, ok |-> TRUE] PROVE RefusedForSize
    BY DEF Init
  <2>1. last.op = "none" /\ last.ok
    OBVIOUS
  <2> QED
    BY <2>1 DEF RefusedForSize
<1>2. ASSUME RowsInv, RefusedForSize, [Next]_vars PROVE RefusedForSize'
  <2>1. ASSUME NEW key \in Keys, NEW row \in Rows, NEW indexed \in BOOLEAN,
              Insert(key, row, indexed)
       PROVE RefusedForSize'
    <3> DEFINE put == AddRecords(NewPage(FALSE), row)
    <3>1. put.ok \in BOOLEAN /\ (put.ok <=> Taken(row) <= Room)
      BY RowsTyped, AddRecordsResult
    <3>2. last' = [op |-> "insert", row |-> row, ok |-> put.ok]
      BY <2>1 DEF Insert
    <3> HIDE DEF put
    <3>3. last'.op = "insert" /\ last'.row = row /\ last'.ok = put.ok
      BY <3>2
    <3> QED
      BY <3>1, <3>3 DEF RefusedForSize, Room
  <2>2. ASSUME NEW key \in Keys, Delete(key) PROVE RefusedForSize'
    BY <1>2, <2>2 DEF Delete, RefusedForSize, Room
  <2>3. CASE AllocatePrimary
    BY <1>2, <2>3 DEF AllocatePrimary, RefusedForSize, Room
  <2>4. ASSUME NEW id \in DOMAIN heap, NEW row \in Rows, InsertRecords(id, row) PROVE RefusedForSize'
    <3> DEFINE put == PutAll(heap, id, row)
    <3>1. /\ last' = [op |-> "insert_records", row |-> row, ok |-> put.ok]
          /\ id \in DOMAIN stored /\ WorksOn(heap, id)
      BY <2>4 DEF InsertRecords, WorksOn, WorksFor
    <3>2. put.ok <=> \A i \in DOMAIN row : row[i].size + SLOT_SIZE <= Room
      BY <1>2, <3>1, RowsTyped, InsertRecordsKeeps DEF RowsInv
    <3> HIDE DEF put
    <3>3. last'.op = "insert_records" /\ last'.row = row /\ last'.ok = put.ok
      BY <3>1
    <3> QED
      BY <3>2, <3>3 DEF RefusedForSize, Room
  <2>5. CASE UNCHANGED vars
    BY <1>2, <2>5 DEF vars, RefusedForSize, Room
  <2> QED
    BY <1>2, <2>1, <2>2, <2>3, <2>4, <2>5 DEF Next
<1>3. RowsInv /\ [Next]_vars => RowsInv'
  BY RowsInvNext
<1> QED
  BY <1>1, <1>2, <1>3, RowsInvInit, PTL DEF Spec
=============================================================================
