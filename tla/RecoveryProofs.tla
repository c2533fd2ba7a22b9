--------------------------- MODULE RecoveryProofs ---------------------------
(***************************************************************************)
(* Crash recovery is right, for any number of transactions, pages, items    *)
(* and changes, any number of crashes, and checkpoints and evictions at any *)
(* time: whenever the tree answers calls, what it shows is what committed,  *)
(* but for what transactions that have not ended have done.  The            *)
(* hypothesis is Orderly, the discipline of Recovery.                       *)
(*                                                                          *)
(* CommittedSurvive says nothing of the log, of the pages' files or of a    *)
(* checkpoint half taken, which is all that is left after a crash.          *)
(* RecoveryInv adds, with every page read off the log by Shows:             *)
(*   LogOK, Meaning   what each record was when it was appended, and that   *)
(*       the log, without any of the open transactions' changes, shows      *)
(*       what the others did;                                               *)
(*   Current   each page is what the log shows, but for the changes that    *)
(*       recovery has yet to undo;                                          *)
(*   Filed, Pooled, CkptOK   from where on the log brings each page's file  *)
(*       up to date, for the last checkpoint and for one half taken;        *)
(*   EndsDurable, UpdatesDurable, Flushed   what the log file has;          *)
(*   UndoneOK, TodoOK, Compensated   how far a recovery has come.           *)
(* From the first change of an open transaction on, a page has changes of   *)
(* that transaction only, so to leave out all from there on is to undo it.  *)
(*                                                                          *)
(* RecoveryTyped (the types) comes before; PagesLogged (the write-ahead     *)
(* rule), at the end, has an invariant of its own, LoggedInv.  Both assume  *)
(* NoOrphans only.                                                          *)
(***************************************************************************)
EXTENDS Recovery, WellFoundedInduction, TLAPS

-----------------------------------------------------------------------------
(* Induction over the natural numbers, of sets and not of operators, and loops. *)

\* The smallest counterexample, which the proofs by induction refute.
LEMMA LeastNatural ==
    ASSUME NEW S \in SUBSET Nat, S # {}
    PROVE  \E m \in S : \A k \in S : m <= k
<1> DEFINE R == {p \in Nat \X Nat : p[1] < p[2]}
<1>1. IsWellFoundedOn(OpToRel(<, Nat), Nat)
      BY NatLessThanWellFounded
<1>2. IsWellFoundedOn(R, Nat)
      BY <1>1 DEF OpToRel
<1> HIDE DEF R
<1>3. PICK m \in S : \A k \in S : <<k, m>> \notin R
      BY <1>2, WFMin
<1>4. ASSUME NEW k \in S
      PROVE  m <= k
  <2>1. <<k, m>> \notin R /\ <<k, m>> \in Nat \X Nat
        BY <1>3
  <2>2. ~(k < m)
        BY <2>1, Zenon DEF R
  <2> QED  BY <2>2
<1> QED  BY <1>4

\* What holds of 0, and of each number of a loop's counter if it does of the one
\* before, holds up to its end.
LEMMA UpTo ==
    ASSUME NEW N \in Nat, NEW P, 0 \in P, \A i \in 1..N : i - 1 \in P => i \in P
    PROVE  \A i \in 0..N : i \in P
<1> DEFINE Bad == {i \in 0..N : i \notin P}
<1> SUFFICES ASSUME Bad # {} PROVE FALSE
  OBVIOUS
<1>1. PICK n \in Bad : \A k \in Bad : n <= k
  <2>1. Bad \in SUBSET Nat
    OBVIOUS
  <2> HIDE DEF Bad
  <2> QED
    BY <2>1, LeastNatural
<1>2. n \in 1..N /\ n - 1 \in 0..N
  OBVIOUS
<1>3. n - 1 \notin Bad
  <2>1. ~(n <= n - 1)
    BY <1>2
  <2> HIDE DEF Bad
  <2> QED
    BY <1>1, <2>1
<1> QED
  BY <1>2, <1>3

\* A run of a loop: from start, by the step G, through the states of S, and the only one.
IsRun(f, N, S, start, G) ==
    /\ f \in [0..N -> S]
    /\ f[0] = start
    /\ \A i \in 1..N : f[i] = G[<<i, f[i - 1]>>]
    /\ \A g : /\ g = [i \in 0..N |-> g[i]]
              /\ g[0] = start
              /\ \A i \in 1..N : g[i - 1] \in S => g[i] = G[<<i, g[i - 1]>>]
              => g = f

\* A loop that starts in a state of S and stays in S has a run.
LEMMA LoopRuns ==
    ASSUME NEW N \in Nat, NEW S, NEW start \in S, NEW G \in [(1..N) \X S -> S]
    PROVE  \E f : IsRun(f, N, S, start, G)
<1> DEFINE Runs(f, n) == /\ f \in [0..n -> S] /\ f[0] = start
                         /\ \A i \in 1..n : f[i] = G[<<i, f[i - 1]>>]
           P == {n \in 0..N : \E f : Runs(f, n)}
<1>1. 0 \in P
  <2>1. Runs([i \in 0..0 |-> start], 0)
    OBVIOUS
  <2> HIDE DEF Runs
  <2> QED
    BY <2>1
<1>2. ASSUME NEW n \in 1..N, n - 1 \in P PROVE n \in P
  <2>1. PICK f : Runs(f, n - 1)
    BY <1>2
  <2> DEFINE v == G[<<n, f[n - 1]>>]
             h == [i \in 0..n |-> IF i = n THEN v ELSE f[i]]
  <2>2. v \in S
    <3>1. f[n - 1] \in S
      BY <2>1
    <3>2. <<n, f[n - 1]>> \in (1..N) \X S
      BY <3>1
    <3> QED
      BY <3>2
  <2>3. \A i \in 0..n - 1 : h[i] = f[i]
    OBVIOUS
  <2>4. h \in [0..n -> S]
    <3>1. \A i \in 0..n : i # n => i \in 0..n - 1
      OBVIOUS
    <3> HIDE DEF v
    <3> QED
      BY <2>1, <2>2, <3>1
  <2>5. h[0] = start
    BY <2>1, <2>3
  <2>6. ASSUME NEW i \in 1..n PROVE h[i] = G[<<i, h[i - 1]>>]
    <3>1. h[i - 1] = f[i - 1]
      BY <2>3
    <3>2. CASE i = n
      BY <3>1, <3>2
    <3>3. CASE i # n
      <4>1. i \in 1..n - 1 /\ i \in 0..n - 1
        BY <3>3
      <4>2. h[i] = f[i]
        BY <2>3, <4>1
      <4> HIDE DEF h, v
      <4> QED
        BY <2>1, <3>1, <4>1, <4>2
    <3> QED
      BY <3>2, <3>3
  <2>7. Runs(h, n)
    <3> HIDE DEF h, v
    <3> QED
      BY <2>4, <2>5, <2>6
  <2> HIDE DEF Runs, h, v
  <2> QED
    BY <2>7
<1>3. PICK f : Runs(f, N)
  <2>1. N \in P
    <3> HIDE DEF P
    <3> QED
      BY <1>1, <1>2, UpTo
  <2> HIDE DEF Runs
  <2> QED
    BY <2>1
<1>4. ASSUME NEW g, g = [i \in 0..N |-> g[i]], g[0] = start,
             \A i \in 1..N : g[i - 1] \in S => g[i] = G[<<i, g[i - 1]>>]
      PROVE  g = f
  <2> DEFINE Same == {i \in 0..N : g[i] = f[i]}
  <2>1. 0 \in Same
    BY <1>3, <1>4
  <2>2. ASSUME NEW i \in 1..N, i - 1 \in Same PROVE i \in Same
    <3>1. i - 1 \in 0..N /\ g[i - 1] = f[i - 1] /\ f[i - 1] \in S
      BY <1>3, <2>2
    <3>2. g[i] = G[<<i, g[i - 1]>>]
      BY <1>4, <3>1
    <3>3. f[i] = G[<<i, f[i - 1]>>]
      BY <1>3
    <3> QED
      BY <3>1, <3>2, <3>3
  <2>3. \A i \in 0..N : i \in Same
    <3> HIDE DEF Same
    <3> QED
      BY <2>1, <2>2, UpTo
  <2>4. \A i \in 0..N : g[i] = f[i]
    BY <2>3
  <2>5. f = [i \in 0..N |-> f[i]]
    BY <1>3
  <2> QED
    BY <1>4, <2>4, <2>5
<1> HIDE DEF P
<1> QED
  BY <1>3, <1>4 DEF IsRun

-----------------------------------------------------------------------------
(* What a log says. *)

Table == UNION {[S -> Nat] : S \in SUBSET Pages}

Record == [type : {"Begin", "Commit", "Abort"}, txn : Txns]
          \cup [type : Changes, txn : Txns \cup {AutoTxn}, page : Pages,
                from : SUBSET Items, to : SUBSET Items]
          \cup [type : {"Checkpoint"}, dpt : Table, att : SUBSET Txns]

IsChange(L, n, p) == L[n].type \in Changes /\ L[n].page = p
IsUpdate(L, n, p, U) == L[n].type = "Update" /\ L[n].page = p /\ L[n].txn \in U
IsEnd(L, n, t) == L[n].type \in {"Commit", "Abort"} /\ L[n].txn = t
OfTxn(L, n, t) == L[n].type # "Checkpoint" /\ L[n].txn = t
Names(L, n, t) == IF L[n].type = "Checkpoint" THEN t \in L[n].att ELSE L[n].txn = t

\* What a record does to an item of its page: keep it as it is, or put it in or out.
Keeps(r, i) == i \in r.from /\ i \in r.to
Puts(r, i) == i \in r.to /\ i \notin r.from
\* An item is in one of the record's images only.
Moves(r, i) == (i \in r.from) # (i \in r.to)

\* The changes of a page up to the first update by one of U.
Counted(L, U, p, n) == IsChange(L, n, p) /\ \A m \in 1..n : ~IsUpdate(L, m, p, U)

\* The page shows the item after the first n records, if what begins with the
\* first update by one of U is left out.
Shows(L, U, p, n, i) ==
    \E m \in 1..n :
        /\ Counted(L, U, p, m) /\ Puts(L[m], i)
        /\ \A k \in m + 1..n : Counted(L, U, p, k) => Keeps(L[k], i)

\* The transactions with updates and no end.
Open(L) == {t \in Txns : /\ \E n \in 1..Len(L) : L[n].type = "Update" /\ L[n].txn = t
                         /\ \A n \in 1..Len(L) : ~IsEnd(L, n, t)}

\* The first n records of two logs are the same.
Agree(L, M, n) == \A k \in 1..n : L[k] = M[k]

LEMMA ShowsNothing ==
  ASSUME NEW L, NEW U, NEW p, NEW i
  PROVE  ~Shows(L, U, p, 0, i)
BY DEF Shows

\* What one more record does.
LEMMA ShowsNext ==
  ASSUME NEW L, NEW U, NEW p, NEW i, NEW n \in Nat \ {0}
  PROVE  Shows(L, U, p, n, i) <=>
             IF Counted(L, U, p, n) /\ ~Keeps(L[n], i) THEN Puts(L[n], i)
             ELSE Shows(L, U, p, n - 1, i)
<1> DEFINE C(k) == Counted(L, U, p, k)
           K(k) == Keeps(L[k], i)
           P(k) == Puts(L[k], i)
           S(m) == \E k \in 1..m : C(k) /\ P(k) /\ \A j \in k + 1..m : C(j) => K(j)
<1>1. \A m : Shows(L, U, p, m, i) <=> S(m)
  BY DEF Shows
<1>2. \A k : ~(K(k) /\ P(k))
  BY DEF Keeps, Puts
<1> HIDE DEF C, K, P
<1>3. CASE C(n) /\ ~K(n)
  <2>1. S(n) => P(n)
    <3> SUFFICES ASSUME S(n) PROVE P(n)
      OBVIOUS
    <3>1. PICK k \in 1..n : C(k) /\ P(k) /\ \A j \in k + 1..n : C(j) => K(j)
      OBVIOUS
    <3>2. k = n \/ n \in k + 1..n
      OBVIOUS
    <3> QED BY <1>3, <3>1, <3>2
  <2>2. P(n) => S(n)
    <3>1. \A j \in n + 1..n : C(j) => K(j)
      OBVIOUS
    <3>2. n \in 1..n
      OBVIOUS
    <3> QED BY <1>3, <3>1, <3>2
  <2> QED BY <1>1, <1>3, <2>1, <2>2 DEF C, K, P
<1>4. CASE ~(C(n) /\ ~K(n))
  <2>1. ASSUME S(n) PROVE S(n - 1)
    <3>1. PICK k \in 1..n : C(k) /\ P(k) /\ \A j \in k + 1..n : C(j) => K(j)
      BY <2>1
    <3>2. k # n
      BY <1>2, <1>4, <3>1
    <3>3. k \in 1..n - 1 /\ \A j \in k + 1..n - 1 : j \in k + 1..n
      BY <3>2
    <3> QED BY <3>1, <3>3
  <2>2. ASSUME S(n - 1) PROVE S(n)
    <3>1. PICK k \in 1..n - 1 : C(k) /\ P(k) /\ \A j \in k + 1..n - 1 : C(j) => K(j)
      BY <2>2
    <3>2. k \in 1..n /\ \A j \in k + 1..n : j = n \/ j \in k + 1..n - 1
      OBVIOUS
    <3>3. \A j \in k + 1..n : C(j) => K(j)
      BY <1>4, <3>1, <3>2
    <3> QED BY <3>1, <3>2, <3>3
  <2> QED BY <1>1, <1>4, <2>1, <2>2 DEF C, K
<1> QED BY <1>3, <1>4

\* Only what the log says up to there counts.
LEMMA ShowsPrefix ==
  ASSUME NEW L, NEW M, NEW n \in Nat, Agree(L, M, n), NEW U, NEW p, NEW i
  PROVE  Shows(M, U, p, n, i) <=> Shows(L, U, p, n, i)
<1>1. \A m \in 1..n : Counted(M, U, p, m) <=> Counted(L, U, p, m)
  <2> SUFFICES ASSUME NEW m \in 1..n PROVE Counted(M, U, p, m) <=> Counted(L, U, p, m)
    OBVIOUS
  <2>1. \A k \in 1..m : k \in 1..n
    OBVIOUS
  <2> QED BY <2>1 DEF Counted, Agree, IsChange, IsUpdate
<1>2. \A m \in 1..n : \A k \in m + 1..n : k \in 1..n
  OBVIOUS
<1> QED BY <1>1, <1>2 DEF Shows, Agree

\* Records that do nothing to an item.
LEMMA ShowsSame ==
  ASSUME NEW L, NEW U, NEW p, NEW i, NEW m \in Nat, NEW n \in Nat, m <= n,
         \A k \in m + 1..n : Shows(L, U, p, k, i) <=> Shows(L, U, p, k - 1, i)
  PROVE  Shows(L, U, p, n, i) <=> Shows(L, U, p, m, i)
<1> DEFINE P == {d \in 0..n - m : Shows(L, U, p, m + d, i) <=> Shows(L, U, p, m, i)}
<1>1. 0 \in P /\ n - m \in Nat
  OBVIOUS
<1>2. ASSUME NEW d \in 1..n - m, d - 1 \in P PROVE d \in P
  <2>1. m + d \in m + 1..n /\ (m + d) - 1 = m + (d - 1)
    OBVIOUS
  <2> QED BY <1>2, <2>1
<1>3. \A d \in 0..n - m : d \in P
  <2> HIDE DEF P
  <2> QED BY <1>1, <1>2, UpTo
<1>4. n - m \in P /\ m + (n - m) = n
  BY <1>1, <1>3
<1> QED BY <1>4

LEMMA ShowsUncounted ==
  ASSUME NEW L, NEW U, NEW p, NEW i, NEW m \in Nat, NEW n \in Nat, m <= n,
         \A k \in m + 1..n : ~Counted(L, U, p, k) \/ Keeps(L[k], i)
  PROVE  Shows(L, U, p, n, i) <=> Shows(L, U, p, m, i)
<1>1. \A k \in m + 1..n : k \in Nat \ {0}
  OBVIOUS
<1>2. \A k \in m + 1..n : Shows(L, U, p, k, i) <=> Shows(L, U, p, k - 1, i)
  BY <1>1, ShowsNext
<1> QED BY <1>2, ShowsSame

\* From the first update by one of U on nothing counts.
LEMMA ShowsCut ==
  ASSUME NEW L, NEW U, NEW p, NEW i, NEW m \in Nat, NEW n \in Nat, m <= n,
         \E k \in 1..m + 1 : IsUpdate(L, k, p, U)
  PROVE  Shows(L, U, p, n, i) <=> Shows(L, U, p, m, i)
<1>1. \A k \in m + 1..n : \A j \in 1..m + 1 : j \in 1..k
  OBVIOUS
<1>2. \A k \in m + 1..n : ~Counted(L, U, p, k)
  BY <1>1 DEF Counted
<1> QED BY <1>2, ShowsUncounted

\* Without such an update all counts.
LEMMA ShowsAll ==
  ASSUME NEW L, NEW U, NEW p, NEW i, NEW n \in Nat, \A k \in 1..n : ~IsUpdate(L, k, p, U)
  PROVE  Shows(L, U, p, n, i) <=> Shows(L, {}, p, n, i)
<1>1. \A m \in 1..n : \A k \in 1..m : k \in 1..n
  OBVIOUS
<1>2. \A m \in 1..n : Counted(L, U, p, m) <=> Counted(L, {}, p, m)
  BY <1>1 DEF Counted, IsUpdate
<1>3. \A m \in 1..n : \A k \in m + 1..n : k \in 1..n
  OBVIOUS
<1> QED BY <1>2, <1>3 DEF Shows

\* Who is left out matters only as far as they have updates of the page.
LEMMA ShowsLike ==
  ASSUME NEW L, NEW U, NEW V, NEW p, NEW i, NEW n \in Nat,
         \A k \in 1..n : IsUpdate(L, k, p, U) <=> IsUpdate(L, k, p, V)
  PROVE  Shows(L, U, p, n, i) <=> Shows(L, V, p, n, i)
<1>1. \A m \in 1..n : \A k \in 1..m : k \in 1..n
  OBVIOUS
<1>2. \A m \in 1..n : Counted(L, U, p, m) <=> Counted(L, V, p, m)
  BY <1>1 DEF Counted
<1>3. \A m \in 1..n : \A k \in m + 1..n : k \in 1..n
  OBVIOUS
<1> QED BY <1>2, <1>3 DEF Shows

LEMMA CountedAll ==
  ASSUME NEW L, NEW p, NEW n
  PROVE  Counted(L, {}, p, n) <=> IsChange(L, n, p)
BY DEF Counted, IsUpdate

-----------------------------------------------------------------------------
(* Appending, and how far the log is durable after. *)

\* Where the loop over the records of AppendAll leaves the durable end.
Full(n, t, k) ==
    LET full[i \in 0..k] ==
            IF i = 0 THEN t
            ELSE IF n + i - 1 - full[i - 1] >= MaxFrames THEN n + i - 1
            ELSE full[i - 1]
    IN  full[k]

LEMMA FullBounds ==
    ASSUME NEW n \in Nat, NEW t \in 0..n, NEW k \in Nat
    PROVE  Full(n, t, k) \in t..n + k
<1> DEFINE S == t..n + k
           Step(i, v) == IF n + i - 1 - v >= MaxFrames THEN n + i - 1 ELSE v
           G == [x \in (1..k) \X S |-> Step(x[1], x[2])]
           Runs(g) == g = [i \in 0..k |-> IF i = 0 THEN t ELSE Step(i, g[i - 1])]
           full == CHOOSE g : Runs(g)
<1>0. MaxFrames \in Nat \ {0}
  BY RecoveryAssumption
<1>1. t \in S
  OBVIOUS
<1>2. ASSUME NEW i \in 1..k, NEW v \in S PROVE Step(i, v) \in S
  BY <1>0
<1>3. G \in [(1..k) \X S -> S]
  <2> HIDE DEF S, Step
  <2> QED BY <1>2
<1>4. PICK f : IsRun(f, k, S, t, G)
  <2> HIDE DEF G, S
  <2> QED BY <1>1, <1>3, LoopRuns
<1>5. ASSUME NEW g, NEW i \in 1..k, g[i - 1] \in S PROVE G[<<i, g[i - 1]>>] = Step(i, g[i - 1])
  <2> HIDE DEF S, Step
  <2> QED BY <1>5
<1> HIDE DEF G, S
<1>6. f \in [0..k -> S] /\ f[0] = t /\ \A i \in 1..k : f[i] = G[<<i, f[i - 1]>>]
  BY <1>4 DEF IsRun
<1>7. Runs(f)
  <2>1. ASSUME NEW i \in 0..k PROVE f[i] = IF i = 0 THEN t ELSE Step(i, f[i - 1])
    <3>1. CASE i = 0
      BY <1>6, <3>1
    <3>2. CASE i # 0
      <4>1. i \in 1..k /\ i - 1 \in 0..k
        BY <3>2
      <4>2. f[i - 1] \in S
        BY <1>6, <4>1
      <4>3. f[i] = Step(i, f[i - 1])
        <5> HIDE DEF Step
        <5> QED BY <1>5, <1>6, <4>1, <4>2
      <4> HIDE DEF Step
      <4> QED BY <3>2, <4>3
    <3> QED BY <3>1, <3>2
  <2>2. f = [i \in 0..k |-> f[i]]
    BY <1>6
  <2> HIDE DEF Step
  <2> QED BY <2>1, <2>2
<1>8. Runs(full)
  <2> HIDE DEF Runs
  <2> QED BY <1>7
<1> HIDE DEF full
<1>9. full = f
  <2>1. full = [i \in 0..k |-> full[i]] /\ full[0] = t
    <3> HIDE DEF Step
    <3> QED BY <1>8
  <2>2. ASSUME NEW i \in 1..k, full[i - 1] \in S PROVE full[i] = G[<<i, full[i - 1]>>]
    <3>1. i \in 0..k /\ i # 0
      OBVIOUS
    <3>2. full[i] = Step(i, full[i - 1])
      <4> HIDE DEF Step
      <4> QED BY <1>8, <3>1
    <3> HIDE DEF Step
    <3> QED BY <1>5, <2>2, <3>2
  <2> QED BY <1>4, <2>1, <2>2 DEF IsRun
<1>10. Full(n, t, k) = full[k]
  BY Zenon DEF Full, full
<1>11. full[k] \in S
  BY <1>6, <1>9
<1> QED BY <1>10, <1>11 DEF S

LEMMA Appended ==
    ASSUME NEW L \in Seq(Record), NEW recs \in Seq(Record)
    PROVE  /\ L \o recs \in Seq(Record) /\ Len(L \o recs) = Len(L) + Len(recs)
           /\ Agree(L, L \o recs, Len(L))
           /\ \A i \in 1..Len(recs) : (L \o recs)[Len(L) + i] = recs[i]
BY DEF Agree

\* What AppendAll does to the log.
LEMMA AppendAllDoes ==
    ASSUME log \in Seq(Record), tail \in 0..Len(log), orphans = <<>>,
           NEW recs \in Seq(Record), AppendAll(recs)
    PROVE  /\ log' = log \o recs /\ log' \in Seq(Record)
           /\ tail' \in tail..Len(log') /\ orphans' = <<>>
<1>1. log' = log \o recs /\ FlushTo(Full(Len(log), tail, Len(recs)))
  BY Zenon DEF AppendAll, Full
<1>2. Len(log) \in Nat /\ Len(recs) \in Nat
  OBVIOUS
<1>3. Full(Len(log), tail, Len(recs)) \in tail..Len(log) + Len(recs)
  BY <1>2, FullBounds
<1>4. log' \in Seq(Record) /\ Len(log') = Len(log) + Len(recs)
  BY <1>1, Appended
<1> DEFINE full == Full(Len(log), tail, Len(recs))
<1>5. tail' = Larger(tail, Smaller(full, Len(log'))) /\ orphans' = <<>>
  BY <1>1 DEF FlushTo
<1> HIDE DEF full
<1>6. full \in tail..Len(log) + Len(recs)
  BY <1>3 DEF full
<1>7. Larger(tail, Smaller(full, Len(log'))) \in tail..Len(log')
  BY <1>2, <1>4, <1>6 DEF Larger, Smaller
<1> QED BY <1>1, <1>4, <1>5, <1>7

LEMMA AppendForcedDoes ==
    ASSUME log \in Seq(Record), tail \in 0..Len(log), orphans = <<>>,
           NEW r \in Record, AppendForced(r)
    PROVE  /\ log' = log \o <<r>> /\ log' \in Seq(Record)
           /\ tail' = Len(log) + 1 /\ orphans' = <<>>
<1>1. <<r>> \in Seq(Record) /\ Len(<<r>>) = 1
  OBVIOUS
<1>2. log' = log \o <<r>> /\ FlushTo(Len(log) + 1)
  BY DEF AppendForced
<1>3. log' \in Seq(Record) /\ Len(log') = Len(log) + 1 /\ Len(log) \in Nat
  BY <1>1, <1>2, Appended
<1>4. tail' = Larger(tail, Smaller(Len(log) + 1, Len(log'))) /\ orphans' = <<>>
  BY <1>2 DEF FlushTo
<1>5. Larger(tail, Smaller(Len(log) + 1, Len(log'))) = Len(log) + 1
  BY <1>3 DEF Larger, Smaller
<1> QED BY <1>2, <1>3, <1>4, <1>5

\* What flushing does.
LEMMA FlushDoes ==
    ASSUME log \in Seq(Record), tail \in 0..Len(log), orphans = <<>>, log' = log,
           NEW lsn \in Nat, FlushTo(lsn)
    PROVE  /\ tail' \in tail..Len(log) /\ orphans' = <<>>
           /\ lsn <= Len(log) => lsn <= tail'
<1>1. Len(log) \in Nat
  OBVIOUS
<1>2. tail' = Larger(tail, Smaller(lsn, Len(log))) /\ orphans' = <<>>
  BY DEF FlushTo
<1>3. /\ Larger(tail, Smaller(lsn, Len(log))) \in tail..Len(log)
      /\ lsn <= Len(log) => lsn <= Larger(tail, Smaller(lsn, Len(log)))
  BY <1>1 DEF Larger, Smaller
<1> QED BY <1>2, <1>3
-----------------------------------------------------------------------------
(* The least and the greatest of some records. *)

LEMMA MinOfIs ==
    ASSUME NEW S \in SUBSET Nat, S # {}
    PROVE  MinOf(S) \in S /\ \A m \in S : MinOf(S) <= m
<1>1. PICK n \in S : \A m \in S : n <= m
  BY LeastNatural
<1> QED BY <1>1 DEF MinOf

LEMMA MaxOfIs ==
    ASSUME NEW N \in Nat, NEW S \in SUBSET (0..N), S # {}
    PROVE  MaxOf(S) \in S /\ \A m \in S : m <= MaxOf(S)
<1> DEFINE T == {N - n : n \in S}
<1>1. T \in SUBSET Nat /\ T # {}
  <2>1. ASSUME NEW n \in S PROVE N - n \in Nat
    <3>1. n \in 0..N
      OBVIOUS
    <3> QED BY <3>1
  <2> QED BY <2>1
<1>2. PICK d \in T : \A e \in T : d <= e
  <2> HIDE DEF T
  <2> QED BY <1>1, LeastNatural
<1>3. PICK n \in S : d = N - n
  BY <1>2
<1>5. S \subseteq Int /\ N \in Int
  OBVIOUS
<1>4. ASSUME NEW m \in S PROVE m <= n
  <2>1. N - n <= N - m
    BY <1>2, <1>3
  <2>2. n \in Int /\ m \in Int
    BY <1>5
  <2> QED BY <1>5, <2>1, <2>2
<1> HIDE DEF T
<1> QED BY <1>4 DEF MaxOf

-----------------------------------------------------------------------------
(* Types. *)

Frame(n) == [data : SUBSET Items, page_lsn : 0..n, rec_lsn : 0..n]

LogTyped(L, t, o, last) ==
    /\ L \in Seq(Record) /\ t \in 0..Len(L) /\ o = <<>> /\ last \in 0..t
    /\ last # 0 => L[last].type = "Checkpoint"
PoolTyped(P, n) ==
    /\ P \in [DOMAIN P -> Frame(n)] /\ DOMAIN P \subseteq Pages
    /\ \A p \in DOMAIN P : P[p].rec_lsn <= P[p].page_lsn
FilesTyped(w, s) == w \in [Pages -> SUBSET Items] /\ s \in [Pages -> SUBSET Items]
CkptStates == {Quiet, [pc |-> "synced"]} \cup [pc : {"dpt"}, dpt : Table]
              \cup [pc : {"att"}, dpt : Table, att : SUBSET Txns] \cup [pc : {"header"}, lsn : Nat]
CkptTyped(c, L, t) ==
    /\ c \in CkptStates
    /\ c.pc = "header" => c.lsn \in 1..t /\ L[c.lsn].type = "Checkpoint"
PhaseTyped(ph, c, to, lo) ==
    /\ ph \in {"running", "crashed", "undo"} /\ lo \subseteq Txns
    /\ c # Quiet => ph = "running"
    /\ to # {} => ph = "undo"
TodoTyped(to, L, t) == \A n \in to : n \in 1..t /\ L[n].type = "Update"
HistoryTyped(x, d, b) ==
    /\ x \in [Txns -> {"new", "active", "committed", "aborted", "lost"}]
    /\ d \in [Txns \cup {AutoTxn} -> SUBSET Items] /\ b \subseteq Items

TypeInv ==
    /\ LogTyped(log, tail, orphans, last_ckpt)
    /\ PoolTyped(pool, Len(log))
    /\ FilesTyped(written, synced)
    /\ CkptTyped(ckpt, log, tail)
    /\ PhaseTyped(phase, ckpt, todo, losers)
    /\ TodoTyped(todo, log, tail)
    /\ HistoryTyped(txn, did, base)
    /\ crashes \in 0..MaxCrashes
    /\ phase = "crashed" => tail = Len(log)

\* Pages are on their way to their files while lookups run.
LeavingTyped == leaving \subseteq DOMAIN pool /\ (phase # "running" => leaving = {})

LEMMA TypeInvImplies ==
    ASSUME TypeInv, LeavingTyped PROVE TypeOK
<1> USE DEF TypeInv
<1>1. tail \in 0..Len(log) /\ last_ckpt \in 0..tail
  BY DEF LogTyped
<1>2. DOMAIN pool \subseteq Pages
  BY DEF PoolTyped
<1>3. \A p \in DOMAIN pool : pool[p].data \subseteq Items /\ pool[p].page_lsn >= pool[p].rec_lsn
  <2> SUFFICES ASSUME NEW p \in DOMAIN pool
               PROVE  pool[p].data \subseteq Items /\ pool[p].page_lsn >= pool[p].rec_lsn
    OBVIOUS
  <2>1. pool[p] \in Frame(Len(log)) /\ pool[p].rec_lsn <= pool[p].page_lsn /\ Len(log) \in Nat
    BY DEF PoolTyped, LogTyped
  <2> QED BY <2>1 DEF Frame
<1>4. written \in [Pages -> SUBSET Items] /\ synced \in [Pages -> SUBSET Items]
  BY DEF FilesTyped
<1>5. ckpt.pc \in {"idle", "synced", "dpt", "att", "header"}
  <2>1. ckpt \in CkptStates
    BY DEF CkptTyped
  <2> QED BY <2>1 DEF CkptStates, Quiet
<1>6. /\ ckpt # Quiet => phase = "running"
      /\ phase \in {"running", "crashed", "undo"} /\ losers \subseteq Txns
  BY DEF PhaseTyped
<1>7. todo \subseteq 1..tail
  BY DEF TodoTyped
<1>8. /\ txn \in [Txns -> {"new", "active", "committed", "aborted", "lost"}]
      /\ did \in [Txns \cup {AutoTxn} -> SUBSET Items] /\ base \subseteq Items
      /\ crashes \in 0..MaxCrashes
  BY DEF HistoryTyped
<1> QED BY <1>1, <1>2, <1>3, <1>4, <1>5, <1>6, <1>7, <1>8 DEF TypeOK, LeavingTyped

\* One page of a pool is replaced or added.
Put(P, Q, p, e) ==
    /\ Q = [x \in DOMAIN Q |-> Q[x]] /\ DOMAIN Q = DOMAIN P \cup {p} /\ Q[p] = e
    /\ \A x \in DOMAIN P : x # p => Q[x] = P[x]

LEMMA PutOne ==
    ASSUME NEW P, NEW p, NEW e
    PROVE  Put(P, With(P, p, e), p, e)
BY DEF Put, With

LEMMA PutTyped ==
    ASSUME NEW n \in Nat, NEW m \in Nat, n <= m, NEW P, PoolTyped(P, n), NEW p \in Pages, NEW Q,
           NEW e \in Frame(m), e.rec_lsn <= e.page_lsn, Put(P, Q, p, e)
    PROVE  PoolTyped(Q, m)
<1>1. \A x \in DOMAIN P : P[x] \in Frame(n)
  BY DEF PoolTyped
<1>2. \A f \in Frame(n) : f \in Frame(m)
  BY DEF Frame
<1>3. ASSUME NEW x \in DOMAIN Q PROVE Q[x] \in Frame(m) /\ Q[x].rec_lsn <= Q[x].page_lsn
  <2>1. CASE x = p
    BY <2>1 DEF Put
  <2>2. CASE x # p
    <3>1. x \in DOMAIN P /\ Q[x] = P[x]
      BY <2>2 DEF Put
    <3> QED BY <1>1, <1>2, <3>1 DEF PoolTyped
  <2> QED BY <2>1, <2>2
<1>4. DOMAIN Q \subseteq Pages /\ Q = [x \in DOMAIN Q |-> Q[x]]
  BY DEF Put, PoolTyped
<1> QED BY <1>3, <1>4 DEF PoolTyped

LEMMA PoolTypedUp ==
    ASSUME NEW n \in Nat, NEW m \in Nat, n <= m, NEW P, PoolTyped(P, n)
    PROVE  PoolTyped(P, m)
<1>1. \A x \in DOMAIN P : P[x] \in Frame(n)
  BY DEF PoolTyped
<1>2. \A f \in Frame(n) : f \in Frame(m)
  BY DEF Frame
<1> QED BY <1>1, <1>2 DEF PoolTyped

\* A page's frame after a change.
FrameAfter(P, p, data, lsn) ==
    LET rec == IF p \in DOMAIN P THEN P[p].rec_lsn ELSE 0
    IN  [data |-> data, page_lsn |-> lsn, rec_lsn |-> IF rec = 0 THEN lsn ELSE rec]

LEMMA FrameAfterTyped ==
    ASSUME NEW n \in Nat, NEW P, PoolTyped(P, n), NEW p, NEW data \in SUBSET Items
    PROVE  /\ FrameAfter(P, p, data, n + 1) \in Frame(n + 1)
           /\ FrameAfter(P, p, data, n + 1).rec_lsn <= FrameAfter(P, p, data, n + 1).page_lsn
<1> DEFINE rec == IF p \in DOMAIN P THEN P[p].rec_lsn ELSE 0
<1>1. rec \in 0..n
  <2>1. p \in DOMAIN P => P[p] \in Frame(n)
    BY DEF PoolTyped
  <2> QED BY <2>1 DEF Frame
<1>2. FrameAfter(P, p, data, n + 1) = [data |-> data, page_lsn |-> n + 1, rec_lsn |-> IF rec = 0 THEN n + 1 ELSE rec]
  BY DEF FrameAfter
<1> HIDE DEF rec
<1> QED BY <1>1, <1>2 DEF Frame

DataIn(P, w, p) == IF p \in DOMAIN P THEN P[p].data ELSE w[p]

LEMMA DataTyped ==
    ASSUME NEW n, NEW P, PoolTyped(P, n), NEW w \in [Pages -> SUBSET Items], NEW p \in Pages
    PROVE  DataIn(P, w, p) \in SUBSET Items
<1>1. p \in DOMAIN P => P[p] \in Frame(n)
  BY DEF PoolTyped
<1> QED BY <1>1 DEF DataIn, Frame

\* What a change does to the pool.
LEMMA DirtiedPuts ==
    ASSUME NEW P, NEW p, NEW data, NEW lsn
    PROVE  Put(P, Dirtied(P, p, data, lsn), p, FrameAfter(P, p, data, lsn))
<1>1. Dirtied(P, p, data, lsn) = With(P, p, FrameAfter(P, p, data, lsn))
  BY DEF Dirtied, FrameAfter
<1> QED BY <1>1, PutOne

\* A log that goes on from another, and is durable no less far.
GoesOn(L, t, M, u) ==
    /\ M \in Seq(Record) /\ Len(L) <= Len(M) /\ Agree(L, M, Len(L)) /\ u \in t..Len(M)

LEMMA GoesOnTyped ==
    ASSUME NEW L, NEW t, NEW M, NEW u, NEW last, NEW c, NEW to, GoesOn(L, t, M, u),
           LogTyped(L, t, <<>>, last), CkptTyped(c, L, t), TodoTyped(to, L, t)
    PROVE  LogTyped(M, u, <<>>, last) /\ CkptTyped(c, M, u) /\ TodoTyped(to, M, u)
<1>1. /\ L \in Seq(Record) /\ t \in 0..Len(L) /\ last \in 0..t
      /\ last # 0 => L[last].type = "Checkpoint"
  BY DEF LogTyped
<1>2. Len(L) \in Nat /\ Len(M) \in Nat /\ Len(L) <= Len(M) /\ M \in Seq(Record) /\ u \in t..Len(M)
  BY <1>1 DEF GoesOn
<1>3. \A n \in 1..t : n \in 1..u /\ M[n] = L[n]
  BY <1>1, <1>2 DEF GoesOn, Agree
<1>4. LogTyped(M, u, <<>>, last)
  <2>1. last # 0 => M[last].type = "Checkpoint"
    BY <1>1, <1>3
  <2> QED BY <1>1, <1>2, <2>1 DEF LogTyped
<1>5. CkptTyped(c, M, u)
  BY <1>3 DEF CkptTyped
<1>6. TodoTyped(to, M, u)
  BY <1>3 DEF TodoTyped
<1> QED BY <1>4, <1>5, <1>6

LEMMA AppendGoesOn ==
    ASSUME TypeInv, NEW recs \in Seq(Record), AppendAll(recs)
    PROVE  /\ log' = log \o recs /\ Len(log') = Len(log) + Len(recs)
           /\ GoesOn(log, tail, log', tail') /\ orphans' = <<>>
<1>1. log \in Seq(Record) /\ tail \in 0..Len(log) /\ orphans = <<>>
  BY DEF TypeInv, LogTyped
<1>2. log' = log \o recs /\ log' \in Seq(Record) /\ tail' \in tail..Len(log') /\ orphans' = <<>>
  BY <1>1, AppendAllDoes
<1>3. Len(log \o recs) = Len(log) + Len(recs) /\ Agree(log, log \o recs, Len(log))
  BY <1>1, Appended
<1>4. Len(log) \in Nat /\ Len(recs) \in Nat
  BY <1>1
<1>5. Len(log) <= Len(log')
  BY <1>2, <1>3, <1>4
<1> QED BY <1>2, <1>3, <1>5 DEF GoesOn

LEMMA ForcedGoesOn ==
    ASSUME TypeInv, NEW r \in Record, AppendForced(r)
    PROVE  /\ log' = log \o <<r>> /\ Len(log') = Len(log) + 1 /\ log'[Len(log) + 1] = r
           /\ tail' = Len(log')
           /\ GoesOn(log, tail, log', tail') /\ orphans' = <<>>
<1>1. log \in Seq(Record) /\ tail \in 0..Len(log) /\ orphans = <<>>
  BY DEF TypeInv, LogTyped
<1>2. log' = log \o <<r>> /\ log' \in Seq(Record) /\ tail' = Len(log) + 1 /\ orphans' = <<>>
  BY <1>1, AppendForcedDoes
<1>3. <<r>> \in Seq(Record) /\ Len(<<r>>) = 1
  OBVIOUS
<1>4. Len(log \o <<r>>) = Len(log) + 1 /\ Agree(log, log \o <<r>>, Len(log))
  BY <1>1, <1>3, Appended
<1>5. Len(log) \in Nat /\ log'[Len(log) + 1] = r
  BY <1>1, <1>2
<1>6. Len(log) <= Len(log') /\ tail' \in tail..Len(log')
  BY <1>1, <1>2, <1>4, <1>5
<1> QED BY <1>2, <1>4, <1>5, <1>6 DEF GoesOn

LEMMA FlushGoesOn ==
    ASSUME TypeInv, UNCHANGED log, NEW lsn \in Nat, FlushTo(lsn)
    PROVE  /\ GoesOn(log, tail, log', tail') /\ orphans' = <<>>
           /\ lsn <= Len(log) => lsn <= tail'
<1>1. log \in Seq(Record) /\ tail \in 0..Len(log) /\ orphans = <<>>
  BY DEF TypeInv, LogTyped
<1>2. tail' \in tail..Len(log) /\ orphans' = <<>> /\ (lsn <= Len(log) => lsn <= tail')
  BY <1>1, FlushDoes
<1>3. Agree(log, log, Len(log)) /\ Len(log) \in Nat
  BY <1>1 DEF Agree
<1> QED BY <1>1, <1>2, <1>3 DEF GoesOn

LEMMA ForcedLog ==
    ASSUME TypeInv, GoesOn(log, tail, log', tail'), orphans' = <<>>
    PROVE  /\ \A last \in 0..tail :
                 (last # 0 => log[last].type = "Checkpoint") => LogTyped(log', tail', orphans', last)
           /\ CkptTyped(ckpt, log', tail') /\ TodoTyped(todo, log', tail')
           /\ PoolTyped(pool, Len(log'))
<1>1. LogTyped(log, tail, <<>>, last_ckpt) /\ CkptTyped(ckpt, log, tail) /\ TodoTyped(todo, log, tail)
  BY DEF TypeInv, LogTyped
<1>2. \A last \in 0..tail : (last # 0 => log[last].type = "Checkpoint") => LogTyped(log, tail, <<>>, last)
  BY <1>1 DEF LogTyped
<1>3. PoolTyped(pool, Len(log'))
  <2>1. Len(log) \in Nat /\ Len(log') \in Nat /\ Len(log) <= Len(log')
    BY <1>1 DEF GoesOn, LogTyped
  <2> QED BY <2>1, PoolTypedUp DEF TypeInv
<1> QED BY <1>1, <1>2, <1>3, GoesOnTyped

LEMMA Records ==
    /\ \A t \in Txns : /\ [type |-> "Begin", txn |-> t] \in Record
                       /\ [type |-> "Commit", txn |-> t] \in Record
                       /\ [type |-> "Abort", txn |-> t] \in Record
    /\ \A d \in Table, a \in SUBSET Txns : [type |-> "Checkpoint", dpt |-> d, att |-> a] \in Record
    /\ \A t \in Txns \cup {AutoTxn}, p \in Pages, f \in SUBSET Items, g \in SUBSET Items :
          /\ [type |-> "Update", txn |-> t, page |-> p, from |-> f, to |-> g] \in Record
          /\ [type |-> "Clr", txn |-> t, page |-> p, from |-> f, to |-> g] \in Record
BY DEF Record, Changes

LEMMA One ==
    ASSUME NEW S, NEW r \in S
    PROVE  <<r>> \in Seq(S) /\ Len(<<r>>) = 1 /\ <<r>>[1] = r
OBVIOUS

LEMMA Two ==
    ASSUME NEW S, NEW r \in S, NEW q \in S
    PROVE  <<r, q>> \in Seq(S) /\ Len(<<r, q>>) = 2 /\ <<r, q>>[1] = r /\ <<r, q>>[2] = q
OBVIOUS

LEMMA ChangeRecord ==
    ASSUME NEW L \in Seq(Record), NEW n \in 1..Len(L), L[n].type \in Changes
    PROVE  L[n].page \in Pages /\ L[n].txn \in Txns \cup {AutoTxn}
           /\ L[n].from \in SUBSET Items /\ L[n].to \in SUBSET Items
<1>1. L[n] \in Record
  OBVIOUS
<1> QED BY <1>1 DEF Record, Changes

\* A loop over records that applies those of D to what a page holds.
Applied(A, D, f) ==
    LET data[n \in 0..Len(A)] ==
            IF n = 0 THEN f
            ELSE IF n \in D THEN Cover(data[n - 1], A[n].from, A[n].to)
            ELSE data[n - 1]
    IN  data[Len(A)]

\* What the page holds after each record.
Applies(g, A, D, f) ==
    /\ g \in [0..Len(A) -> SUBSET Items] /\ g[0] = f
    /\ \A n \in 1..Len(A) : g[n] = IF n \in D THEN Cover(g[n - 1], A[n].from, A[n].to) ELSE g[n - 1]

LEMMA AppliedRuns ==
    ASSUME NEW A \in Seq(Record), NEW f \in SUBSET Items,
           NEW D \in SUBSET {n \in 1..Len(A) : A[n].type \in Changes}
    PROVE  \E g : Applies(g, A, D, f) /\ Applied(A, D, f) = g[Len(A)]
<1> DEFINE k == Len(A)
           S == SUBSET Items
           Step(n, v) == IF n \in D THEN Cover(v, A[n].from, A[n].to) ELSE v
           G == [x \in (1..k) \X S |-> Step(x[1], x[2])]
           Runs(g) == g = [n \in 0..k |-> IF n = 0 THEN f ELSE Step(n, g[n - 1])]
           full == CHOOSE g : Runs(g)
<1>1. f \in S /\ k \in Nat
  OBVIOUS
<1>2. ASSUME NEW n \in 1..k, NEW v \in S PROVE Step(n, v) \in S
  <2>1. n \in D => A[n].to \in SUBSET Items
    BY ChangeRecord
  <2> QED BY <2>1 DEF Cover
<1> HIDE DEF k
<1>3. G \in [(1..k) \X S -> S]
  <2> HIDE DEF S, Step
  <2> QED BY <1>2
<1>4. PICK g : IsRun(g, k, S, f, G)
  <2> HIDE DEF G, S
  <2> QED BY <1>1, <1>3, LoopRuns
<1>5. ASSUME NEW h, NEW i \in 1..k, h[i - 1] \in S PROVE G[<<i, h[i - 1]>>] = Step(i, h[i - 1])
  <2> HIDE DEF S, Step
  <2> QED BY <1>5
<1> HIDE DEF G, S
<1>6. g \in [0..k -> S] /\ g[0] = f /\ \A i \in 1..k : g[i] = G[<<i, g[i - 1]>>]
  BY <1>4 DEF IsRun
<1>6a. ASSUME NEW i \in 1..k PROVE g[i] = Step(i, g[i - 1])
  <2>1. i - 1 \in 0..k
    BY <1>1
  <2>2. g[i - 1] \in S
    BY <1>6, <2>1
  <2> HIDE DEF Step
  <2> QED BY <1>5, <1>6, <2>2
<1>7. Runs(g)
  <2>1. ASSUME NEW i \in 0..k PROVE g[i] = IF i = 0 THEN f ELSE Step(i, g[i - 1])
    <3>1. i # 0 => i \in 1..k
      BY <1>1
    <3> HIDE DEF Step
    <3> QED BY <1>6, <1>6a, <3>1
  <2>2. g = [i \in 0..k |-> g[i]]
    BY <1>6
  <2> HIDE DEF Step
  <2> QED BY <2>1, <2>2
<1>8. Runs(full)
  <2> HIDE DEF Runs
  <2> QED BY <1>7
<1> HIDE DEF full
<1>9. full = g
  <2>1. full = [i \in 0..k |-> full[i]] /\ full[0] = f
    <3> HIDE DEF Step
    <3> QED BY <1>1, <1>8
  <2>2. ASSUME NEW i \in 1..k, full[i - 1] \in S PROVE full[i] = G[<<i, full[i - 1]>>]
    <3>1. i \in 0..k /\ i # 0
      BY <1>1
    <3>2. full[i] = Step(i, full[i - 1])
      <4> HIDE DEF Step
      <4> QED BY <1>8, <3>1
    <3> HIDE DEF Step
    <3> QED BY <1>5, <2>2, <3>2
  <2> QED BY <1>4, <2>1, <2>2 DEF IsRun
<1>10. Applied(A, D, f) = full[k]
  BY Zenon DEF Applied, full, k
<1>11. Applies(g, A, D, f)
  <2>1. \A n \in 1..k : g[n] = IF n \in D THEN Cover(g[n - 1], A[n].from, A[n].to) ELSE g[n - 1]
    BY <1>6a
  <2> QED BY <1>6, <2>1 DEF Applies, S, k
<1> QED BY <1>9, <1>10, <1>11 DEF k

-----------------------------------------------------------------------------
(* Every action keeps the types. *)

LEMMA LogFacts ==
    ASSUME TypeInv
    PROVE  /\ log \in Seq(Record) /\ Len(log) \in Nat /\ tail \in 0..Len(log) /\ orphans = <<>>
           /\ last_ckpt \in 0..tail /\ (last_ckpt # 0 => log[last_ckpt].type = "Checkpoint")
BY DEF TypeInv, LogTyped

LEMMA DataIsIn ==
    ASSUME NEW p
    PROVE  Data(p) = DataIn(pool, written, p)
BY DEF Data, DataIn

LEMMA BeginTyped ==
    ASSUME TypeInv, NEW t \in Txns, Begin(t)
    PROVE  TypeInv'
<1> DEFINE r == [type |-> "Begin", txn |-> t]
<1>1. r \in Record /\ <<r>> \in Seq(Record)
  BY Records, One
<1>2. GoesOn(log, tail, log', tail') /\ orphans' = <<>>
  <2>1. AppendAll(<<r>>)
    BY DEF Begin
  <2> QED BY <1>1, <2>1, AppendGoesOn
<1>3. UNCHANGED <<pool, written, synced, ckpt, last_ckpt, phase, todo, losers, crashes, did, base>>
      /\ txn' = [txn EXCEPT ![t] = "active"] /\ phase = "running"
  BY DEF Begin, fileVars, recoverVars, Calls
<1>4. HistoryTyped(txn', did', base')
  BY <1>3 DEF TypeInv, HistoryTyped
<1> QED BY <1>2, <1>3, <1>4, ForcedLog, LogFacts DEF TypeInv

LEMMA EndTyped ==
    ASSUME TypeInv, NEW t \in Txns, Commit(t) \/ Abort(t)
    PROVE  TypeInv'
<1>1. PICK r \in Record : AppendForced(r)
  BY Records DEF Commit, Abort
<1>2. GoesOn(log, tail, log', tail') /\ orphans' = <<>>
  BY <1>1, ForcedGoesOn
<1>3. /\ UNCHANGED <<pool, written, synced, ckpt, last_ckpt, phase, todo, losers, crashes>>
      /\ phase = "running"
  BY DEF Commit, Abort, fileVars, recoverVars
<1>4. HistoryTyped(txn', did', base')
  <2>1. HistoryTyped(txn, did, base) /\ did[t] \subseteq Items
    BY DEF TypeInv, HistoryTyped
  <2>2. CASE Commit(t)
    <3>1. /\ txn' = [txn EXCEPT ![t] = "committed"] /\ did' = [did EXCEPT ![t] = {}]
          /\ base' = (base \ did[t]) \cup (did[t] \ base)
      BY <2>2 DEF Commit
    <3>2. base' \subseteq Items
      BY <2>1, <3>1 DEF HistoryTyped
    <3> QED BY <2>1, <3>1, <3>2 DEF HistoryTyped
  <2>3. CASE Abort(t)
    <3>1. txn' = [txn EXCEPT ![t] = "aborted"] /\ UNCHANGED <<did, base>>
      BY <2>3 DEF Abort
    <3> QED BY <2>1, <3>1 DEF HistoryTyped
  <2> QED BY <2>2, <2>3
<1> QED BY <1>2, <1>3, <1>4, ForcedLog, LogFacts DEF TypeInv

LEMMA AbortLoserTyped ==
    ASSUME TypeInv, NEW t \in Txns, AbortLoser(t)
    PROVE  TypeInv'
<1>1. PICK r \in Record : AppendForced(r)
  BY Records DEF AbortLoser
<1>2. GoesOn(log, tail, log', tail') /\ orphans' = <<>>
  BY <1>1, ForcedGoesOn
<1>3. /\ UNCHANGED <<pool, written, synced, ckpt, last_ckpt, phase, todo, crashes, txn, did, base>>
      /\ losers' = losers \ {t} /\ phase = "undo"
  BY DEF AbortLoser, fileVars, historyVars
<1>4. PhaseTyped(phase', ckpt', todo', losers')
  BY <1>3 DEF TypeInv, PhaseTyped
<1> QED BY <1>2, <1>3, <1>4, ForcedLog, LogFacts DEF TypeInv

LEMMA UpdateTyped ==
    ASSUME TypeInv, NEW t \in Txns \cup {AutoTxn}, NEW p \in Pages, NEW to \in SUBSET Items
    PROVE  /\ Update(t, p, to) \in Record
           /\ PoolTyped(Dirtied(pool, p, to, Len(log) + 1), Len(log) + 1)
<1>1. Data(p) \in SUBSET Items
  BY DataIsIn, DataTyped DEF TypeInv, FilesTyped
<1>2. Update(t, p, to) \in Record
  BY <1>1, Records DEF Update
<1>3. PoolTyped(Dirtied(pool, p, to, Len(log) + 1), Len(log) + 1)
  <2> DEFINE n == Len(log)
  <2>1. n \in Nat /\ n + 1 \in Nat /\ n <= n + 1 /\ PoolTyped(pool, n)
    BY LogFacts DEF TypeInv
  <2> HIDE DEF n
  <2>2. PoolTyped(Dirtied(pool, p, to, n + 1), n + 1)
    BY <2>1, FrameAfterTyped, DirtiedPuts, PutTyped
  <2> QED BY <2>2 DEF n
<1> QED BY <1>2, <1>3

LEMMA ToggleTyped ==
    ASSUME TypeInv, NEW t \in Txns \cup {AutoTxn}, NEW p \in Pages, NEW i \in Items, Toggle(t, p, i)
    PROVE  TypeInv'
<1> DEFINE to == IF i \in Data(p) THEN Data(p) \ {i} ELSE Data(p) \cup {i}
           r == Update(t, p, to)
<1>0. Data(p) \in SUBSET Items
  BY DataIsIn, DataTyped DEF TypeInv, FilesTyped
<1>1. /\ AppendAll(<<r>>) /\ pool' = Dirtied(pool, p, to, Len(log) + 1)
      /\ did' = Touched(t, i) /\ phase = "running"
      /\ UNCHANGED <<written, synced, ckpt, last_ckpt, phase, todo, losers, crashes, txn, base>>
  BY DEF Toggle, fileVars, recoverVars, MayUpdate, Calls
<1>2. to \in SUBSET Items
  BY <1>0
<1> HIDE DEF to, r
<1>3. r \in Record /\ PoolTyped(pool', Len(log) + 1)
  BY <1>1, <1>2, UpdateTyped DEF r
<1>4. <<r>> \in Seq(Record) /\ Len(<<r>>) = 1
  BY <1>3, One
<1>5. GoesOn(log, tail, log', tail') /\ orphans' = <<>> /\ Len(log') = Len(log) + 1
  BY <1>1, <1>4, AppendGoesOn
<1>6. HistoryTyped(txn', did', base')
  <2>1. Touched(t, i) \in [Txns \cup {AutoTxn} -> SUBSET Items]
    BY DEF TypeInv, HistoryTyped, Touched
  <2> QED BY <1>1, <2>1 DEF TypeInv, HistoryTyped
<1> QED BY <1>1, <1>3, <1>5, <1>6, ForcedLog, LogFacts DEF TypeInv

LEMMA SplitTyped ==
    ASSUME TypeInv, NEW t \in Txns \cup {AutoTxn}, NEW p \in Pages, NEW q \in Pages,
           NEW moved \in SUBSET Items, Split(t, p, q, moved)
    PROVE  TypeInv'
<1> DEFINE left == Data(p) \ moved
           right == Data(q) \cup moved
           a == Update(t, p, left)
           b == Update(t, q, right)
           P == Dirtied(pool, p, left, Len(log) + 1)
<1>0. Data(p) \in SUBSET Items /\ Data(q) \in SUBSET Items
  BY DataIsIn, DataTyped DEF TypeInv, FilesTyped
<1>1. /\ AppendAll(<<a, b>>) /\ pool' = Dirtied(P, q, right, Len(log) + 2) /\ phase = "running"
      /\ UNCHANGED <<written, synced, ckpt, last_ckpt, phase, todo, losers, crashes, txn, did, base>>
  BY DEF Split, fileVars, recoverVars, historyVars, MayUpdate, Calls
<1>2. left \in SUBSET Items /\ right \in SUBSET Items
  BY <1>0
<1> HIDE DEF left, right, a, b, P
<1>3. a \in Record /\ b \in Record /\ PoolTyped(P, Len(log) + 1)
  BY <1>2, UpdateTyped DEF a, b, P
<1>4. PoolTyped(pool', Len(log) + 2)
  <2> DEFINE n == Len(log) + 1
  <2>1. n \in Nat /\ n + 1 \in Nat /\ n <= n + 1 /\ PoolTyped(P, n) /\ n + 1 = Len(log) + 2
    BY <1>3, LogFacts
  <2> HIDE DEF n
  <2>2. PoolTyped(Dirtied(P, q, right, n + 1), n + 1)
    BY <1>2, <2>1, FrameAfterTyped, DirtiedPuts, PutTyped
  <2> QED BY <1>1, <2>1, <2>2
<1>5. <<a, b>> \in Seq(Record) /\ Len(<<a, b>>) = 2
  BY <1>3, Two
<1>6. GoesOn(log, tail, log', tail') /\ orphans' = <<>> /\ Len(log') = Len(log) + 2
  BY <1>1, <1>5, AppendGoesOn
<1> QED BY <1>1, <1>4, <1>6, ForcedLog, LogFacts DEF TypeInv

\* What is evicted is in the pool, of which a crash leaves nothing.
LEMMA EvictedPage ==
    ASSUME LeavingTyped, NEW p, Evict(p)
    PROVE  p \in DOMAIN pool /\ phase # "crashed"
BY DEF LeavingTyped, Evict

LEMMA EvictTyped ==
    ASSUME TypeInv, LeavingTyped, NEW p \in Pages, Evict(p)
    PROVE  TypeInv'
<1>1. /\ UNCHANGED log /\ FlushTo(pool[p].page_lsn) /\ p \in DOMAIN pool /\ phase # "crashed"
      /\ written' = [written EXCEPT ![p] = pool[p].data]
      /\ pool' = [q \in DOMAIN pool \ {p} |-> pool[q]]
      /\ UNCHANGED <<synced, ckpt, last_ckpt, phase, todo, losers, crashes, txn, did, base>>
  BY EvictedPage DEF Evict, EvictLsn, recoverVars, historyVars
<1>2. \A q \in DOMAIN pool : pool[q] \in Frame(Len(log)) /\ pool[q].rec_lsn <= pool[q].page_lsn
  BY DEF TypeInv, PoolTyped
<1>3. pool[p].data \in SUBSET Items /\ pool[p].page_lsn \in Nat
  BY <1>1, <1>2, LogFacts DEF Frame
<1>4. GoesOn(log, tail, log', tail') /\ orphans' = <<>>
  BY <1>1, <1>3, FlushGoesOn
<1>5. FilesTyped(written', synced')
  BY <1>1, <1>3 DEF TypeInv, FilesTyped
<1>6. PoolTyped(pool', Len(log'))
  <2>1. DOMAIN pool \subseteq Pages
    BY DEF TypeInv, PoolTyped
  <2> QED BY <1>1, <1>2, <2>1 DEF PoolTyped
<1> QED BY <1>1, <1>4, <1>5, <1>6, ForcedLog, LogFacts DEF TypeInv

LEMMA CheckpointTyped ==
    ASSUME TypeInv, SyncData \/ ReadDirtyPages \/ ReadActiveTxns \/ SetCheckpoint
    PROVE  TypeInv'
<1>1. UNCHANGED <<log, tail, orphans, pool, written, phase, todo, losers, crashes, txn, did, base>>
  BY DEF SyncData, ReadDirtyPages, ReadActiveTxns, SetCheckpoint, walVars, fileVars, recoverVars, historyVars
<1>2. ckpt \in CkptStates /\ (ckpt # Quiet => phase = "running")
  BY DEF TypeInv, CkptTyped, PhaseTyped
<1>3. Quiet.pc = "idle"
  BY DEF Quiet
<1>4. FilesTyped(written', synced')
  BY <1>1 DEF TypeInv, FilesTyped, SyncData, ReadDirtyPages, ReadActiveTxns, SetCheckpoint, fileVars
<1>5. CkptTyped(ckpt', log', tail') /\ phase = "running"
  <2>1. CASE SyncData
    <3>1. ckpt' = [pc |-> "synced"] /\ phase = "running"
      BY <2>1 DEF SyncData, Calls
    <3> QED BY <3>1 DEF CkptTyped, CkptStates
  <2>2. CASE ReadDirtyPages
    <3> DEFINE d == [p \in DOMAIN pool \ leaving |-> pool[p].rec_lsn]
    <3>1. ckpt' = [pc |-> "dpt", dpt |-> d] /\ ckpt.pc = "synced"
      BY <2>2 DEF ReadDirtyPages
    <3>2. \A p \in DOMAIN pool : pool[p] \in Frame(Len(log))
      BY DEF TypeInv, PoolTyped
    <3>3. \A p \in DOMAIN pool : pool[p].rec_lsn \in Nat
      BY <3>2, LogFacts DEF Frame
    <3>4. d \in Table
      <4>1. d \in [DOMAIN pool \ leaving -> Nat] /\ DOMAIN pool \ leaving \in SUBSET Pages
        BY <3>3 DEF TypeInv, PoolTyped
      <4> HIDE DEF d
      <4> QED BY <4>1 DEF Table
    <3> HIDE DEF d
    <3> QED BY <1>2, <1>3, <3>1, <3>4 DEF CkptTyped, CkptStates
  <2>3. CASE ReadActiveTxns
    <3>1. ckpt' = [pc |-> "att", dpt |-> ckpt.dpt, att |-> Active] /\ ckpt.pc = "dpt"
      BY <2>3 DEF ReadActiveTxns
    <3>2. ckpt.dpt \in Table
      BY <1>2, <3>1 DEF CkptStates, Quiet
    <3>3. Active \in SUBSET Txns
      BY DEF Active
    <3> QED BY <1>2, <1>3, <3>1, <3>2, <3>3 DEF CkptTyped, CkptStates
  <2>4. CASE SetCheckpoint
    <3>1. ckpt' = Quiet /\ ckpt.pc = "header"
      BY <2>4 DEF SetCheckpoint
    <3> QED BY <1>2, <1>3, <3>1 DEF CkptTyped, CkptStates
  <2> QED BY <2>1, <2>2, <2>3, <2>4
<1>6. LogTyped(log', tail', orphans', last_ckpt')
  <2>1. CASE SetCheckpoint
    <3>1. last_ckpt' = ckpt.lsn /\ ckpt.pc = "header"
      BY <2>1 DEF SetCheckpoint
    <3>2. ckpt.lsn \in 1..tail /\ log[ckpt.lsn].type = "Checkpoint"
      BY <3>1 DEF TypeInv, CkptTyped
    <3> QED BY <1>1, <3>1, <3>2 DEF TypeInv, LogTyped
  <2>2. CASE ~SetCheckpoint
    <3>1. last_ckpt' = last_ckpt
      BY <2>2 DEF SyncData, ReadDirtyPages, ReadActiveTxns
    <3> QED BY <1>1, <3>1 DEF TypeInv
  <2> QED BY <2>1, <2>2
<1>7. PhaseTyped(phase', ckpt', todo', losers')
  BY <1>1, <1>5 DEF TypeInv, PhaseTyped
<1> QED BY <1>1, <1>4, <1>5, <1>6, <1>7 DEF TypeInv

LEMMA WriteCheckpointTyped ==
    ASSUME TypeInv, WriteCheckpoint
    PROVE  TypeInv'
<1> DEFINE r == [type |-> "Checkpoint", dpt |-> ckpt.dpt, att |-> ckpt.att]
<1>0. ckpt \in CkptStates /\ (ckpt # Quiet => phase = "running")
  BY DEF TypeInv, CkptTyped, PhaseTyped
<1>1. /\ AppendForced(r) /\ ckpt.pc = "att" /\ ckpt' = [pc |-> "header", lsn |-> Len(log) + 1]
      /\ UNCHANGED <<pool, written, synced, last_ckpt, phase, todo, losers, crashes, txn, did, base>>
  BY DEF WriteCheckpoint, fileVars, recoverVars, historyVars
<1>2. ckpt.dpt \in Table /\ ckpt.att \in SUBSET Txns /\ phase = "running"
  BY <1>0, <1>1 DEF CkptStates, Quiet
<1>3. r \in Record
  BY <1>2, Records
<1>4. /\ GoesOn(log, tail, log', tail') /\ orphans' = <<>>
      /\ Len(log') = Len(log) + 1 /\ log'[Len(log) + 1] = r /\ tail' = Len(log')
  <2> HIDE DEF r
  <2> QED BY <1>1, <1>3, ForcedGoesOn
<1>5. CkptTyped(ckpt', log', tail')
  <2>1. Len(log) + 1 \in Nat /\ Len(log) + 1 \in 1..tail'
    BY <1>4, LogFacts
  <2> QED BY <1>1, <1>4, <2>1 DEF CkptTyped, CkptStates
<1>6. PhaseTyped(phase', ckpt', todo', losers')
  BY <1>1, <1>2 DEF TypeInv, PhaseTyped
<1> QED BY <1>1, <1>2, <1>4, <1>5, <1>6, ForcedLog, LogFacts DEF TypeInv

LEMMA CrashTyped ==
    ASSUME TypeInv, Crash, NoOrphans
    PROVE  TypeInv'
<1>1. /\ log' = SubSeq(log, 1, tail) /\ orphans' = <<>> /\ pool' = <<>> /\ ckpt' = Quiet
      /\ phase' = "crashed" /\ todo' = {} /\ losers' = {} /\ crashes' = crashes + 1
      /\ crashes < MaxCrashes /\ written' = synced' /\ synced' \in [Pages -> SUBSET Items]
      /\ UNCHANGED <<tail, last_ckpt, base>>
      /\ txn' = [t \in Txns |-> IF t \in Active THEN "lost" ELSE txn[t]]
      /\ did' = [t \in DOMAIN did |-> IF t \in Active THEN {} ELSE did[t]]
  BY DEF Crash, NoOrphans
<1>2. log' \in Seq(Record) /\ Len(log') = tail /\ \A n \in 1..tail : log'[n] = log[n]
  BY <1>1, LogFacts
<1>3. LogTyped(log', tail', orphans', last_ckpt')
  BY <1>1, <1>2, LogFacts DEF LogTyped
<1>4. PoolTyped(pool', Len(log'))
  <2>1. DOMAIN <<>> = {}
    OBVIOUS
  <2> QED BY <1>1, <2>1 DEF PoolTyped
<1>5. CkptTyped(ckpt', log', tail') /\ PhaseTyped(phase', ckpt', todo', losers')
  BY <1>1 DEF CkptTyped, CkptStates, Quiet, PhaseTyped
<1>6. TodoTyped(todo', log', tail')
  BY <1>1 DEF TodoTyped
<1>7. HistoryTyped(txn', did', base')
  BY <1>1 DEF TypeInv, HistoryTyped
<1>8. crashes' \in 0..MaxCrashes
  BY <1>1, RecoveryAssumption DEF TypeInv
<1>9. FilesTyped(written', synced')
  BY <1>1 DEF FilesTyped
<1> QED BY <1>1, <1>2, <1>3, <1>4, <1>5, <1>6, <1>7, <1>8, <1>9 DEF TypeInv

LEMMA RedoneFacts ==
    ASSUME TypeInv, NEW p
    PROVE  /\ Redone(log, p) \in SUBSET {n \in 1..Len(log) : log[n].type \in Changes}
           /\ Redone(log, p) \in SUBSET (0..Len(log))
           /\ Redone(log, p) # {} =>
                 /\ MinOf(Redone(log, p)) \in Redone(log, p)
                 /\ MaxOf(Redone(log, p)) \in Redone(log, p)
                 /\ \A n \in Redone(log, p) : MinOf(Redone(log, p)) <= n /\ n <= MaxOf(Redone(log, p))
<1> DEFINE R == Redone(log, p)
<1>1. DOMAIN log = 1..Len(log) /\ Len(log) \in Nat
  BY LogFacts
<1>2. R \in SUBSET {n \in 1..Len(log) : log[n].type \in Changes} /\ R \in SUBSET (0..Len(log))
  BY <1>1 DEF Redone
<1>3. R \in SUBSET Nat
  BY <1>1, <1>2
<1> HIDE DEF R
<1>4. R # {} => MinOf(R) \in R /\ \A n \in R : MinOf(R) <= n
  BY <1>3, MinOfIs
<1>5. R # {} => MaxOf(R) \in R /\ \A n \in R : n <= MaxOf(R)
  BY <1>1, <1>2, MaxOfIs
<1> QED BY <1>2, <1>4, <1>5 DEF R

LEMMA RedoneData ==
    ASSUME NEW all, NEW p
    PROVE  RedoData(all, p) = Applied(all, Redone(all, p), written[p])
BY Zenon DEF RedoData, Applied

LEMMA RedoIs ==
    ASSUME TypeInv, Redo
    PROVE  /\ phase = "crashed" /\ phase' = "undo"
           /\ pool' = [p \in {q \in Pages : Redone(log, q) # {}} |->
                          [data |-> Applied(log, Redone(log, p), written[p]),
                           page_lsn |-> MaxOf(Redone(log, p)), rec_lsn |-> MinOf(Redone(log, p))]]
           /\ losers' = LosersOf(log)
           /\ todo' = {n \in 1..Len(log) : log[n].type = "Update" /\ log[n].txn \in losers'}
           /\ UNCHANGED <<log, tail, orphans, written, synced, ckpt, last_ckpt, crashes, txn, did, base>>
<1>1. log \o orphans = log /\ DOMAIN log = 1..Len(log)
  BY LogFacts
<1> QED BY <1>1, RedoneData DEF Redo, walVars, fileVars, historyVars

LEMMA RedoTyped ==
    ASSUME TypeInv, Redo
    PROVE  TypeInv'
<1>1. phase = "crashed" /\ tail = Len(log) /\ ckpt = Quiet
  BY RedoIs DEF TypeInv, PhaseTyped
<1>2. ASSUME NEW p \in Pages, Redone(log, p) # {}
      PROVE  /\ [data |-> Applied(log, Redone(log, p), written[p]), page_lsn |-> MaxOf(Redone(log, p)),
                 rec_lsn |-> MinOf(Redone(log, p))] \in Frame(Len(log))
             /\ MinOf(Redone(log, p)) <= MaxOf(Redone(log, p))
  <2>1. written[p] \in SUBSET Items
    BY DEF TypeInv, FilesTyped
  <2>2. PICK g : /\ Applies(g, log, Redone(log, p), written[p])
                 /\ Applied(log, Redone(log, p), written[p]) = g[Len(log)]
    BY <2>1, LogFacts, RedoneFacts, AppliedRuns
  <2>3. g[Len(log)] \in SUBSET Items
    BY <2>2, LogFacts DEF Applies
  <2>4. /\ MinOf(Redone(log, p)) \in 0..Len(log) /\ MaxOf(Redone(log, p)) \in 0..Len(log)
        /\ MinOf(Redone(log, p)) <= MaxOf(Redone(log, p))
    BY <1>2, RedoneFacts
  <2> QED BY <2>2, <2>3, <2>4 DEF Frame
<1>3. PoolTyped(pool', Len(log'))
  BY <1>2, RedoIs DEF PoolTyped
<1>4. TodoTyped(todo', log', tail')
  BY <1>1, RedoIs DEF TodoTyped
<1>5. PhaseTyped(phase', ckpt', todo', losers')
  <2>1. LosersOf(log) \subseteq Txns
    BY DEF LosersOf
  <2> QED BY <1>1, <2>1, RedoIs DEF PhaseTyped
<1> QED BY <1>3, <1>4, <1>5, RedoIs DEF TypeInv

LEMMA UndoIs ==
    ASSUME TypeInv, Undo
    PROVE  LET m == MaxOf(todo)
               r == log[m]
               c == [type |-> "Clr", txn |-> r.txn, page |-> r.page, from |-> r.to, to |-> r.from]
               e == [data |-> Cover(DataIn(pool, written, r.page), r.to, r.from),
                     page_lsn |-> IF r.page \in DOMAIN pool THEN pool[r.page].page_lsn ELSE 0,
                     rec_lsn |-> IF r.page \in DOMAIN pool THEN pool[r.page].rec_lsn ELSE 0]
           IN  /\ m \in todo /\ (\A n \in todo : n <= m)
               /\ m \in 1..tail /\ m \in 1..Len(log) /\ r.type = "Update"
               /\ r.page \in Pages /\ r.txn \in Txns \cup {AutoTxn}
               /\ r.from \in SUBSET Items /\ r.to \in SUBSET Items
               /\ c \in Record /\ e \in Frame(Len(log)) /\ e.rec_lsn <= e.page_lsn
               /\ AppendAll(<<c>>) /\ Put(pool, pool', r.page, e) /\ todo' = todo \ {m}
               /\ phase = "undo"
               /\ UNCHANGED <<written, synced, ckpt, last_ckpt, phase, losers, crashes, txn, did, base>>
<1> DEFINE m == MaxOf(todo)
           r == log[m]
           c == [type |-> "Clr", txn |-> r.txn, page |-> r.page, from |-> r.to, to |-> r.from]
           e == [data |-> Cover(DataIn(pool, written, r.page), r.to, r.from),
                 page_lsn |-> IF r.page \in DOMAIN pool THEN pool[r.page].page_lsn ELSE 0,
                 rec_lsn |-> IF r.page \in DOMAIN pool THEN pool[r.page].rec_lsn ELSE 0]
           lsns == IF r.page \in DOMAIN pool THEN pool[r.page] ELSE [page_lsn |-> 0, rec_lsn |-> 0]
<1>1. todo # {} /\ phase = "undo" /\ UNCHANGED <<written, synced, ckpt, last_ckpt, phase, losers, crashes, txn, did, base>>
  BY DEF Undo, fileVars, historyVars
<1>2. \A n \in todo : n \in 1..tail /\ log[n].type = "Update"
  BY DEF TypeInv, TodoTyped
<1>3. m \in todo /\ (\A n \in todo : n <= m)
  <2>1. todo \in SUBSET (0..Len(log)) /\ Len(log) \in Nat
    BY <1>2, LogFacts
  <2> QED BY <1>1, <2>1, MaxOfIs
<1>4. m \in 1..tail /\ m \in 1..Len(log) /\ r.type = "Update"
  BY <1>2, <1>3, LogFacts
<1>5. /\ AppendAll(<<c>>) /\ todo' = todo \ {m}
      /\ pool' = With(pool, r.page, [data |-> Cover(Data(r.page), r.to, r.from),
                                     page_lsn |-> lsns.page_lsn, rec_lsn |-> lsns.rec_lsn])
  BY DEF Undo, UndoNext
<1> HIDE DEF m
<1>6. /\ r.page \in Pages /\ r.txn \in Txns \cup {AutoTxn}
      /\ r.from \in SUBSET Items /\ r.to \in SUBSET Items
  BY <1>4, ChangeRecord, LogFacts DEF Changes
<1> HIDE DEF r
<1>7. c \in Record
  BY <1>6, Records
<1>8. [data |-> Cover(Data(r.page), r.to, r.from), page_lsn |-> lsns.page_lsn, rec_lsn |-> lsns.rec_lsn] = e
  BY DataIsIn
<1>9. e \in Frame(Len(log)) /\ e.rec_lsn <= e.page_lsn
  <2>1. DataIn(pool, written, r.page) \in SUBSET Items
    BY <1>6, DataTyped DEF TypeInv, FilesTyped
  <2>2. Cover(DataIn(pool, written, r.page), r.to, r.from) \in SUBSET Items
    BY <1>6, <2>1 DEF Cover
  <2>3. r.page \in DOMAIN pool => pool[r.page] \in Frame(Len(log)) /\ pool[r.page].rec_lsn <= pool[r.page].page_lsn
    BY DEF TypeInv, PoolTyped
  <2> QED BY <2>2, <2>3, LogFacts DEF Frame
<1>10. Put(pool, pool', r.page, e)
  <2> HIDE DEF e
  <2> QED BY <1>5, <1>8, PutOne
<1> HIDE DEF c, e
<1>11. /\ m \in todo /\ (\A n \in todo : n <= m)
       /\ m \in 1..tail /\ m \in 1..Len(log) /\ r.type = "Update"
       /\ r.page \in Pages /\ r.txn \in Txns \cup {AutoTxn}
       /\ r.from \in SUBSET Items /\ r.to \in SUBSET Items
       /\ c \in Record /\ e \in Frame(Len(log)) /\ e.rec_lsn <= e.page_lsn
       /\ AppendAll(<<c>>) /\ Put(pool, pool', r.page, e) /\ todo' = todo \ {m}
       /\ phase = "undo"
       /\ UNCHANGED <<written, synced, ckpt, last_ckpt, phase, losers, crashes, txn, did, base>>
  BY <1>1, <1>3, <1>4, <1>5, <1>6, <1>7, <1>9, <1>10
<1> QED BY <1>11, Zenon DEF m, r, c, e

LEMMA UndoTyped ==
    ASSUME TypeInv, Undo
    PROVE  TypeInv'
<1>1. PICK c \in Record, e \in Frame(Len(log)), p \in Pages, m \in todo :
            /\ AppendAll(<<c>>) /\ Put(pool, pool', p, e) /\ e.rec_lsn <= e.page_lsn
            /\ todo' = todo \ {m} /\ phase = "undo"
            /\ UNCHANGED <<written, synced, ckpt, last_ckpt, phase, losers, crashes, txn, did, base>>
  BY UndoIs, Zenon
<1>2. <<c>> \in Seq(Record) /\ Len(<<c>>) = 1
  BY <1>1, One
<1>3. GoesOn(log, tail, log', tail') /\ orphans' = <<>> /\ Len(log') = Len(log) + 1
  BY <1>1, <1>2, AppendGoesOn
<1>4. PoolTyped(pool', Len(log'))
  <2>1. PoolTyped(pool', Len(log))
    BY <1>1, PutTyped, LogFacts DEF TypeInv
  <2>2. Len(log) \in Nat /\ Len(log') \in Nat /\ Len(log) <= Len(log')
    BY <1>3, LogFacts
  <2> QED BY <2>1, <2>2, PoolTypedUp
<1>5. TodoTyped(todo', log', tail') /\ LogTyped(log', tail', orphans', last_ckpt') /\ CkptTyped(ckpt', log', tail')
  BY <1>1, <1>3, ForcedLog, LogFacts DEF TodoTyped
<1>6. PhaseTyped(phase', ckpt', todo', losers')
  BY <1>1 DEF TypeInv, PhaseTyped
<1> QED BY <1>1, <1>4, <1>5, <1>6 DEF TypeInv

LEMMA RecoveredTyped ==
    ASSUME TypeInv, Recovered
    PROVE  TypeInv'
<1>1. /\ UNCHANGED log /\ FlushTo(Len(log)) /\ phase = "undo" /\ phase' = "running" /\ todo = {}
      /\ UNCHANGED <<pool, written, synced, ckpt, last_ckpt, todo, losers, crashes, txn, did, base>>
  BY DEF Recovered, fileVars, historyVars
<1>2. GoesOn(log, tail, log', tail') /\ orphans' = <<>>
  BY <1>1, FlushGoesOn, LogFacts
<1>3. PhaseTyped(phase', ckpt', todo', losers')
  BY <1>1 DEF TypeInv, PhaseTyped
<1> QED BY <1>1, <1>2, <1>3, ForcedLog, LogFacts DEF TypeInv

LEMMA InitTyped ==
    ASSUME Init PROVE TypeInv
<1>1. LogTyped(log, tail, orphans, last_ckpt)
  BY DEF Init, LogTyped
<1>2. PoolTyped(pool, Len(log)) /\ FilesTyped(written, synced)
  BY DEF Init, PoolTyped, FilesTyped
<1>3. CkptTyped(ckpt, log, tail) /\ PhaseTyped(phase, ckpt, todo, losers) /\ TodoTyped(todo, log, tail)
  BY DEF Init, CkptTyped, CkptStates, PhaseTyped, TodoTyped, Quiet
<1>4. HistoryTyped(txn, did, base)
  BY DEF Init, HistoryTyped
<1> QED BY <1>1, <1>2, <1>3, <1>4, RecoveryAssumption DEF Init, TypeInv

\* What no step, or a lookup that takes a page out, leaves alone.
Same == UNCHANGED <<log, tail, orphans, pool, written, synced, ckpt, last_ckpt, phase, todo,
                    losers, txn, did, base, crashes>>

LEMMA SameIs ==
    ASSUME UNCHANGED vars \/ \E p \in Pages : TakeOut(p)
    PROVE  Same
BY DEF Same, vars, TakeOut, walVars, recoverVars, historyVars

LEMMA StutterTyped ==
    ASSUME TypeInv, Same
    PROVE  TypeInv'
BY DEF TypeInv, Same

LEMMA NextTyped ==
    ASSUME TypeInv, LeavingTyped, Next, NoOrphans
    PROVE  TypeInv'
<1>1. (\E p \in Pages : TakeOut(p)) => TypeInv'
  BY SameIs, StutterTyped
<1> QED BY <1>1, BeginTyped, EndTyped, AbortLoserTyped, ToggleTyped, SplitTyped, EvictTyped,
           CheckpointTyped, WriteCheckpointTyped, CrashTyped, RedoTyped, UndoTyped,
           RecoveredTyped DEF Next

\* Only a lookup takes a page out, and it goes with its frame.
LEMMA NextLeaving ==
    ASSUME LeavingTyped, [Next]_vars
    PROVE  LeavingTyped'
<1> USE DEF LeavingTyped, fileVars, recoverVars
<1>1. CASE UNCHANGED <<pool, leaving, phase>>
  BY <1>1
<1>2. ASSUME NEW t \in Txns, Begin(t) \/ Commit(t) \/ Abort(t) \/ AbortLoser(t)
      PROVE  LeavingTyped'
  BY <1>1, <1>2 DEF Begin, Commit, Abort, AbortLoser
<1>3. ASSUME NEW t, NEW p, NEW i, Toggle(t, p, i) PROVE LeavingTyped'
  BY <1>3 DEF Toggle, MayUpdate, Calls
<1>4. ASSUME NEW t, NEW p, NEW q, NEW moved, Split(t, p, q, moved) PROVE LeavingTyped'
  BY <1>4 DEF Split, MayUpdate, Calls
<1>5. ASSUME NEW p \in Pages, TakeOut(p) PROVE LeavingTyped'
  BY <1>5 DEF TakeOut
<1>6. ASSUME NEW p \in Pages, Evict(p) PROVE LeavingTyped'
  <2>1. DOMAIN pool' = DOMAIN pool \ {p} /\ leaving' = leaving \ {p} /\ phase' = phase
    BY <1>6 DEF Evict
  <2> QED BY <2>1
<1>7. CASE SyncData \/ ReadDirtyPages \/ ReadActiveTxns \/ WriteCheckpoint \/ SetCheckpoint
  BY <1>1, <1>7 DEF SyncData, ReadDirtyPages, ReadActiveTxns, WriteCheckpoint, SetCheckpoint
<1>8. CASE Crash
  BY <1>8 DEF Crash
<1>9. CASE Redo \/ Undo
  <2>1. leaving = {} /\ leaving' = leaving
    BY <1>9 DEF Redo, Undo
  <2> QED BY <2>1
<1>10. CASE Recovered
  BY <1>10 DEF Recovered
<1>11. CASE UNCHANGED vars
  BY <1>1, <1>11 DEF vars
<1> QED BY <1>2, <1>3, <1>4, <1>5, <1>6, <1>7, <1>8, <1>9, <1>10, <1>11 DEF Next

\* The types of Recovery, LSNs within the log and page LSNs among them, through
\* every call, eviction, checkpoint, crash and recovery, as long as no crash leaves
\* records that the header of the log file does not account for.
THEOREM RecoveryTyped ==
    Spec /\ [][NoOrphans]_vars => []TypeOK
<1>1. Init => TypeInv /\ LeavingTyped
  BY InitTyped DEF Init, LeavingTyped
<1>2. TypeInv /\ LeavingTyped /\ [Next]_vars /\ [NoOrphans]_vars => TypeInv' /\ LeavingTyped'
  BY NextTyped, NextLeaving, SameIs, StutterTyped
<1>3. TypeInv /\ LeavingTyped => TypeOK
  BY TypeInvImplies
<1> QED BY <1>1, <1>2, <1>3, PTL DEF Spec

-----------------------------------------------------------------------------
(* What a log that recovery can work with looks like. *)

\* An update has the page as the log has it.
ExactAt(L, n) ==
    L[n].type = "Update" =>
        \A i \in Items : i \in L[n].from <=> Shows(L, {}, L[n].page, n - 1, i)

\* A CLR takes one earlier update of its transaction back.
Mirror(L, n, m) ==
    /\ L[m].type = "Update" /\ L[n].page = L[m].page /\ L[n].txn = L[m].txn
    /\ L[n].from = L[m].to /\ L[n].to = L[m].from
MirrorsAt(L, n) ==
    L[n].type = "Clr" => L[n].txn \in Txns /\ \E m \in 1..n - 1 : Mirror(L, n, m)

\* Nothing of a transaction comes after its end.
EndsLastAt(L, n) == \A m \in 1..n - 1 : \A t \in Txns : IsEnd(L, m, t) => ~OfTxn(L, n, t)

\* A checkpoint's pages have first records before it, and its transactions are
\* those with updates and no end, and others with no end.
CheckpointAt(L, n) ==
    L[n].type = "Checkpoint" =>
        /\ \A p \in DOMAIN L[n].dpt : L[n].dpt[p] \in 0..n - 1
        /\ \A t \in Txns : t \in L[n].att => \A m \in 1..n : ~IsEnd(L, m, t)
        /\ \A t \in Txns : /\ \E m \in 1..n : L[m].type = "Update" /\ L[m].txn = t
                           /\ \A m \in 1..n : ~IsEnd(L, m, t)
                           => t \in L[n].att

RecordOK(L, n) == ExactAt(L, n) /\ MirrorsAt(L, n) /\ EndsLastAt(L, n) /\ CheckpointAt(L, n)

\* A page with updates of an open transaction is from then on changed by it only.
Alone(L) ==
    \A p \in Pages : \A n \in 1..Len(L) : \A m \in 1..n - 1 :
        IsUpdate(L, m, p, Open(L)) /\ IsChange(L, n, p) => L[n].txn = L[m].txn

LogOK(L) == L \in Seq(Record) /\ (\A n \in 1..Len(L) : RecordOK(L, n)) /\ Alone(L)

LEMMA RecordOKPrefix ==
    ASSUME NEW L, NEW M, NEW n \in Nat \ {0}, Agree(L, M, n), RecordOK(L, n)
    PROVE  RecordOK(M, n)
<1>1. n \in 1..n /\ M[n] = L[n] /\ \A m \in 1..n - 1 : m \in 1..n
  BY DEF Agree
<1>2. \A m \in 1..n : M[m] = L[m]
  BY DEF Agree
<1>3. ExactAt(M, n)
  <2>1. n - 1 \in Nat /\ Agree(L, M, n - 1)
    BY <1>1, <1>2 DEF Agree
  <2>2. \A p, i : Shows(M, {}, p, n - 1, i) <=> Shows(L, {}, p, n - 1, i)
    BY <2>1, ShowsPrefix
  <2> QED BY <1>1, <2>2 DEF RecordOK, ExactAt
<1>4. MirrorsAt(M, n)
  <2>1. \A m \in 1..n - 1 : Mirror(L, n, m) => Mirror(M, n, m)
    BY <1>1, <1>2 DEF Mirror
  <2> QED BY <1>1, <2>1 DEF RecordOK, MirrorsAt
<1>5. \A m \in 1..n : \A t : IsEnd(M, m, t) <=> IsEnd(L, m, t)
  BY <1>2 DEF IsEnd
<1>6. EndsLastAt(M, n)
  <2>1. \A t : OfTxn(M, n, t) <=> OfTxn(L, n, t)
    BY <1>1 DEF OfTxn
  <2> QED BY <1>1, <1>5, <2>1 DEF RecordOK, EndsLastAt
<1>7. CheckpointAt(M, n)
  BY <1>1, <1>2, <1>5 DEF RecordOK, CheckpointAt
<1> QED BY <1>3, <1>4, <1>6, <1>7 DEF RecordOK

\* A log with one record more.
OneMore(L, M, r) ==
    /\ L \in Seq(Record) /\ M \in Seq(Record) /\ r \in Record
    /\ Len(M) = Len(L) + 1 /\ Agree(L, M, Len(L)) /\ M[Len(M)] = r

LEMMA OneMoreIs ==
    ASSUME NEW L \in Seq(Record), NEW r \in Record
    PROVE  OneMore(L, L \o <<r>>, r)
<1>1. <<r>> \in Seq(Record) /\ Len(<<r>>) = 1
  OBVIOUS
<1>2. /\ L \o <<r>> \in Seq(Record) /\ Len(L \o <<r>>) = Len(L) + 1
      /\ Agree(L, L \o <<r>>, Len(L))
  BY <1>1, Appended
<1>3. (L \o <<r>>)[Len(L) + 1] = r
  OBVIOUS
<1> QED BY <1>2, <1>3 DEF OneMore

LEMMA TwoMore ==
    ASSUME NEW L \in Seq(Record), NEW r \in Record, NEW q \in Record
    PROVE  OneMore(L, L \o <<r>>, r) /\ OneMore(L \o <<r>>, L \o <<r, q>>, q)
<1>1. OneMore(L, L \o <<r>>, r)
  BY OneMoreIs
<1>2. L \o <<r>> \in Seq(Record)
  BY <1>1 DEF OneMore
<1> DEFINE s == <<r, q>>
<1>3. s \in Seq(Record) /\ Len(s) = 2 /\ s[1] = r /\ s[2] = q
  BY Two
<1> HIDE DEF s
<1>4. /\ L \o s \in Seq(Record) /\ Len(L \o s) = Len(L) + 2
      /\ Agree(L, L \o s, Len(L)) /\ Len(L) \in Nat
  BY <1>3, Appended
<1>5. (L \o s)[Len(L) + 1] = r /\ (L \o s)[Len(L) + 2] = q
  <2>1. \A i \in 1..Len(s) : (L \o s)[Len(L) + i] = s[i]
    BY <1>3, Appended
  <2>2. 1 \in 1..Len(s) /\ 2 \in 1..Len(s)
    BY <1>3
  <2>3. (L \o s)[Len(L) + 1] = s[1] /\ (L \o s)[Len(L) + 2] = s[2]
    BY <2>1, <2>2
  <2> QED BY <1>3, <2>3
<1>6. /\ Len(L \o <<r>>) = Len(L) + 1 /\ (L \o <<r>>)[Len(L) + 1] = r
      /\ Agree(L, L \o <<r>>, Len(L))
  BY <1>1 DEF OneMore
<1>7. Agree(L \o <<r>>, L \o s, Len(L \o <<r>>))
  <2> SUFFICES ASSUME NEW k \in 1..Len(L) + 1 PROVE (L \o <<r>>)[k] = (L \o s)[k]
    BY <1>6 DEF Agree
  <2>1. CASE k = Len(L) + 1
    BY <1>5, <1>6, <2>1
  <2>2. CASE k # Len(L) + 1
    <3>1. k \in 1..Len(L)
      BY <1>4, <2>2
    <3> QED BY <1>4, <1>6, <3>1 DEF Agree
  <2> QED BY <2>1, <2>2
<1>8. Len(L \o s) = Len(L \o <<r>>) + 1 /\ (L \o s)[Len(L \o s)] = q
  BY <1>4, <1>5, <1>6
<1> QED BY <1>1, <1>2, <1>4, <1>7, <1>8 DEF OneMore, s

LEMMA OneMoreFacts ==
    ASSUME NEW L, NEW M, NEW r, OneMore(L, M, r)
    PROVE  /\ Len(L) \in Nat /\ Len(M) \in Nat /\ Len(M) = Len(L) + 1 /\ Len(M) # 0
           /\ Len(M) - 1 = Len(L) /\ Len(L) <= Len(M) /\ Len(M) \in 1..Len(M)
           /\ L \in Seq(Record) /\ M \in Seq(Record) /\ r \in Record
           /\ M[Len(M)] = r /\ Agree(L, M, Len(L))
           /\ \A n \in 1..Len(L) : n \in 1..Len(M) /\ M[n] = L[n]
           /\ \A n \in 1..Len(M) : n \in 1..Len(L) \/ n = Len(M)
BY DEF OneMore, Agree

\* The last record of the log does or does not something to a page.
LEMMA OneMoreShows ==
    ASSUME NEW L, NEW M, NEW r, OneMore(L, M, r), NEW U, NEW p, NEW i
    PROVE  /\ Shows(M, U, p, Len(L), i) <=> Shows(L, U, p, Len(L), i)
           /\ Shows(M, U, p, Len(M), i) <=>
                 IF Counted(M, U, p, Len(M)) /\ ~Keeps(r, i) THEN Puts(r, i)
                 ELSE Shows(L, U, p, Len(L), i)
<1>1. Shows(M, U, p, Len(L), i) <=> Shows(L, U, p, Len(L), i)
  BY OneMoreFacts, ShowsPrefix
<1>2. Len(M) \in Nat \ {0} /\ Len(M) - 1 = Len(L) /\ M[Len(M)] = r
  BY OneMoreFacts
<1>3. Shows(M, U, p, Len(M), i) <=>
         IF Counted(M, U, p, Len(M)) /\ ~Keeps(M[Len(M)], i) THEN Puts(M[Len(M)], i)
         ELSE Shows(M, U, p, Len(M) - 1, i)
  BY <1>2, ShowsNext
<1> QED BY <1>1, <1>2, <1>3

\* One that is no change of the page does nothing.
LEMMA ElsewhereShows ==
    ASSUME NEW L, NEW M, NEW r, OneMore(L, M, r), NEW U, NEW p, NEW i,
           ~(r.type \in Changes /\ r.page = p)
    PROVE  Shows(M, U, p, Len(M), i) <=> Shows(L, U, p, Len(L), i)
<1>1. ~Counted(M, U, p, Len(M))
  BY OneMoreFacts DEF Counted, IsChange
<1> QED BY <1>1, OneMoreShows

\* One that is left out does nothing.
LEMMA LeftOutShows ==
    ASSUME NEW L, NEW M, NEW r, OneMore(L, M, r), NEW U, NEW p, NEW i,
           \E n \in 1..Len(M) : IsUpdate(M, n, p, U)
    PROVE  Shows(M, U, p, Len(M), i) <=> Shows(L, U, p, Len(L), i)
<1>1. ~Counted(M, U, p, Len(M))
  BY OneMoreFacts DEF Counted
<1> QED BY <1>1, OneMoreShows

\* Who is open when a record is appended.
LEMMA OpenSame ==
    ASSUME NEW L, NEW M, NEW r, OneMore(L, M, r),
           r.type \notin {"Update", "Commit", "Abort"}
    PROVE  Open(M) = Open(L)
<1>1. \A t : /\ (\E n \in 1..Len(M) : M[n].type = "Update" /\ M[n].txn = t) <=>
                (\E n \in 1..Len(L) : L[n].type = "Update" /\ L[n].txn = t)
             /\ (\A n \in 1..Len(M) : ~IsEnd(M, n, t)) <=> (\A n \in 1..Len(L) : ~IsEnd(L, n, t))
  <2> TAKE t
  <2>1. ~IsEnd(M, Len(M), t) /\ M[Len(M)].type # "Update"
    BY OneMoreFacts DEF IsEnd
  <2>2. \A n \in 1..Len(L) : (IsEnd(M, n, t) <=> IsEnd(L, n, t)) /\ M[n] = L[n]
    BY OneMoreFacts DEF IsEnd
  <2> QED BY <2>1, <2>2, OneMoreFacts
<1> QED BY <1>1 DEF Open

LEMMA OpenEnded ==
    ASSUME NEW L, NEW M, NEW r, OneMore(L, M, r), r.type \in {"Commit", "Abort"}
    PROVE  Open(M) = Open(L) \ {r.txn}
<1>1. \A t : /\ (\E n \in 1..Len(M) : M[n].type = "Update" /\ M[n].txn = t) <=>
                (\E n \in 1..Len(L) : L[n].type = "Update" /\ L[n].txn = t)
             /\ (\A n \in 1..Len(M) : ~IsEnd(M, n, t)) <=>
                (t # r.txn /\ \A n \in 1..Len(L) : ~IsEnd(L, n, t))
  <2> TAKE t
  <2>1. (IsEnd(M, Len(M), t) <=> t = r.txn) /\ M[Len(M)].type # "Update"
    BY OneMoreFacts DEF IsEnd
  <2>2. \A n \in 1..Len(L) : (IsEnd(M, n, t) <=> IsEnd(L, n, t)) /\ M[n] = L[n]
    BY OneMoreFacts DEF IsEnd
  <2> QED BY <2>1, <2>2, OneMoreFacts
<1> QED BY <1>1 DEF Open

LEMMA OpenUpdated ==
    ASSUME NEW L, NEW M, NEW r, OneMore(L, M, r), r.type = "Update"
    PROVE  /\ Open(M) \subseteq Open(L) \cup {r.txn}
           /\ \A n \in 1..Len(L) : \A p : IsUpdate(L, n, p, Open(M)) => IsUpdate(L, n, p, Open(L))
<1>1. \A t : \A n \in 1..Len(L) : (IsEnd(M, n, t) <=> IsEnd(L, n, t)) /\ M[n] = L[n] /\ n \in 1..Len(M)
  BY OneMoreFacts DEF IsEnd
<1>2. \A t \in Open(M) : t \in Txns /\ \A n \in 1..Len(L) : ~IsEnd(L, n, t)
  BY <1>1 DEF Open
<1>3. ASSUME NEW t \in Open(M), t # r.txn PROVE t \in Open(L)
  <2>1. PICK n \in 1..Len(M) : M[n].type = "Update" /\ M[n].txn = t
    BY DEF Open
  <2>2. n \in 1..Len(L)
    BY <1>3, <2>1, OneMoreFacts
  <2> QED BY <1>1, <1>2, <2>1, <2>2 DEF Open
<1>4. ASSUME NEW n \in 1..Len(L), NEW p, IsUpdate(L, n, p, Open(M)) PROVE IsUpdate(L, n, p, Open(L))
  <2>1. L[n].txn \in Open(M) /\ L[n].type = "Update"
    BY <1>4 DEF IsUpdate
  <2>2. L[n].txn \in Open(L)
    BY <1>2, <2>1 DEF Open
  <2> QED BY <1>4, <2>2 DEF IsUpdate
<1> QED BY <1>3, <1>4
-----------------------------------------------------------------------------
(* A log that is OK stays so. *)

LEMMA OneMoreOK ==
    ASSUME NEW L, NEW M, NEW r, OneMore(L, M, r), LogOK(L), RecordOK(M, Len(M)), Alone(M)
    PROVE  LogOK(M)
<1>1. ASSUME NEW n \in 1..Len(L) PROVE RecordOK(M, n)
  <2>1. n \in Nat \ {0} /\ Agree(L, M, n)
    BY OneMoreFacts DEF Agree
  <2>2. RecordOK(L, n)
    BY DEF LogOK
  <2> QED BY <2>1, <2>2, RecordOKPrefix
<1> QED BY <1>1, OneMoreFacts DEF LogOK

\* A record that is no change of a page disturbs no one.
LEMMA AloneQuiet ==
    ASSUME NEW L, NEW M, NEW r, OneMore(L, M, r), Alone(L), r.type \notin Changes
    PROVE  Alone(M)
<1>1. Open(M) \subseteq Open(L)
  <2>1. r.type # "Update"
    BY DEF Changes
  <2> QED BY <2>1, OpenSame, OpenEnded
<1>2. ASSUME NEW p \in Pages, NEW n \in 1..Len(M), NEW m \in 1..n - 1,
             IsUpdate(M, m, p, Open(M)), IsChange(M, n, p)
      PROVE  M[n].txn = M[m].txn
  <2>1. n # Len(M)
    BY <1>2, OneMoreFacts DEF IsChange
  <2>2. n \in 1..Len(L) /\ m \in 1..Len(L)
    BY <2>1, OneMoreFacts
  <2>3. M[n] = L[n] /\ M[m] = L[m]
    BY <2>2, OneMoreFacts
  <2>4. IsUpdate(L, m, p, Open(L)) /\ IsChange(L, n, p)
    BY <1>1, <1>2, <2>3 DEF IsUpdate, IsChange
  <2> QED BY <2>2, <2>3, <2>4 DEF Alone
<1> QED BY <1>2 DEF Alone

LEMMA TxnRecordOK ==
    ASSUME NEW L, NEW M, NEW r, OneMore(L, M, r), LogOK(L), r.type \in {"Begin", "Commit", "Abort"},
           \A n \in 1..Len(L) : ~IsEnd(L, n, r.txn)
    PROVE  LogOK(M)
<1>1. Alone(M)
  BY AloneQuiet DEF LogOK, Changes
<1>2. EndsLastAt(M, Len(M))
  <2> SUFFICES ASSUME NEW m \in 1..Len(M) - 1, NEW t \in Txns, IsEnd(M, m, t), OfTxn(M, Len(M), t)
               PROVE  FALSE
    BY DEF EndsLastAt
  <2>1. t = r.txn /\ m \in 1..Len(L)
    BY OneMoreFacts DEF OfTxn
  <2> QED BY <2>1, OneMoreFacts DEF IsEnd
<1>3. RecordOK(M, Len(M))
  BY <1>2, OneMoreFacts DEF RecordOK, ExactAt, MirrorsAt, CheckpointAt
<1> QED BY <1>1, <1>3, OneMoreOK

LEMMA CheckpointOK ==
    ASSUME NEW L, NEW M, NEW r, OneMore(L, M, r), LogOK(L), r.type = "Checkpoint",
           \A p \in DOMAIN r.dpt : r.dpt[p] \in 0..Len(L),
           \A t \in r.att : \A n \in 1..Len(L) : ~IsEnd(L, n, t),
           Open(L) \subseteq r.att
    PROVE  LogOK(M)
<1>1. Alone(M)
  BY AloneQuiet DEF LogOK, Changes
<1>2. CheckpointAt(M, Len(M))
  <2>1. M[Len(M)] = r /\ Len(M) - 1 = Len(L)
    BY OneMoreFacts
  <2>2. \A t : ~IsEnd(M, Len(M), t)
    BY OneMoreFacts DEF IsEnd
  <2>3. \A t \in r.att : \A n \in 1..Len(M) : ~IsEnd(M, n, t)
    BY <2>2, OneMoreFacts DEF IsEnd
  <2>4. Open(M) = Open(L)
    BY OpenSame
  <2> QED BY <2>1, <2>3, <2>4 DEF CheckpointAt, Open
<1>3. RecordOK(M, Len(M))
  BY <1>2, OneMoreFacts DEF RecordOK, ExactAt, MirrorsAt, EndsLastAt, OfTxn
<1> QED BY <1>1, <1>3, OneMoreOK

\* A change keeps its page to its transaction.
LEMMA AloneChange ==
    ASSUME NEW L, NEW M, NEW r, OneMore(L, M, r), Alone(L), r.type \in Changes,
           \A n \in 1..Len(L) : IsUpdate(L, n, r.page, Open(L)) => L[n].txn = r.txn
    PROVE  Alone(M)
<1>1. \A n \in 1..Len(L) : \A p : IsUpdate(L, n, p, Open(M)) => IsUpdate(L, n, p, Open(L))
  <2>1. CASE r.type = "Update"
    BY <2>1, OpenUpdated
  <2>2. CASE r.type # "Update"
    <3>1. Open(M) = Open(L)
      BY <2>2, OpenSame DEF Changes
    <3> QED BY <3>1
  <2> QED BY <2>1, <2>2
<1>2. ASSUME NEW p \in Pages, NEW n \in 1..Len(M), NEW m \in 1..n - 1,
             IsUpdate(M, m, p, Open(M)), IsChange(M, n, p)
      PROVE  M[n].txn = M[m].txn
  <2>1. m \in 1..Len(L)
    BY OneMoreFacts
  <2>2. M[m] = L[m] /\ IsUpdate(L, m, p, Open(M))
    BY <1>2, <2>1, OneMoreFacts DEF IsUpdate
  <2>3. IsUpdate(L, m, p, Open(L))
    BY <1>1, <2>1, <2>2
  <2>4. CASE n = Len(M)
    <3>1. M[n] = r /\ r.page = p
      BY <1>2, <2>4, OneMoreFacts DEF IsChange
    <3> QED BY <2>1, <2>2, <2>3, <3>1
  <2>5. CASE n # Len(M)
    <3>1. n \in 1..Len(L) /\ M[n] = L[n]
      BY <2>5, OneMoreFacts
    <3>2. IsChange(L, n, p)
      BY <1>2, <3>1 DEF IsChange
    <3> QED BY <2>2, <2>3, <3>1, <3>2 DEF Alone
  <2> QED BY <2>4, <2>5
<1> QED BY <1>2 DEF Alone

LEMMA UpdateOK ==
    ASSUME NEW L, NEW M, NEW r, OneMore(L, M, r), LogOK(L), r.type = "Update",
           \A n \in 1..Len(L) : IsUpdate(L, n, r.page, Open(L)) => L[n].txn = r.txn,
           r.txn \in Txns => \A n \in 1..Len(L) : ~IsEnd(L, n, r.txn),
           \A i \in Items : i \in r.from <=> Shows(L, {}, r.page, Len(L), i)
    PROVE  LogOK(M)
<1>1. Alone(M)
  BY AloneChange DEF LogOK, Changes
<1>2. EndsLastAt(M, Len(M))
  <2> SUFFICES ASSUME NEW m \in 1..Len(M) - 1, NEW t \in Txns, IsEnd(M, m, t), OfTxn(M, Len(M), t)
               PROVE  FALSE
    BY DEF EndsLastAt
  <2>1. t = r.txn /\ m \in 1..Len(L)
    BY OneMoreFacts DEF OfTxn
  <2> QED BY <2>1, OneMoreFacts DEF IsEnd
<1>3. ExactAt(M, Len(M))
  <2>1. M[Len(M)] = r /\ Len(M) - 1 = Len(L)
    BY OneMoreFacts
  <2>2. \A i : Shows(M, {}, r.page, Len(L), i) <=> Shows(L, {}, r.page, Len(L), i)
    BY OneMoreShows
  <2> QED BY <2>1, <2>2 DEF ExactAt
<1>4. RecordOK(M, Len(M))
  BY <1>2, <1>3, OneMoreFacts DEF RecordOK, MirrorsAt, CheckpointAt
<1> QED BY <1>1, <1>4, OneMoreOK

LEMMA ClrOK ==
    ASSUME NEW L, NEW M, NEW r, OneMore(L, M, r), LogOK(L), r.type = "Clr", r.txn \in Txns,
           \A n \in 1..Len(L) : IsUpdate(L, n, r.page, Open(L)) => L[n].txn = r.txn,
           \A n \in 1..Len(L) : ~IsEnd(L, n, r.txn),
           \E m \in 1..Len(L) : Mirror(M, Len(M), m)
    PROVE  LogOK(M)
<1>1. Alone(M)
  BY AloneChange DEF LogOK, Changes
<1>2. EndsLastAt(M, Len(M))
  <2> SUFFICES ASSUME NEW m \in 1..Len(M) - 1, NEW t \in Txns, IsEnd(M, m, t), OfTxn(M, Len(M), t)
               PROVE  FALSE
    BY DEF EndsLastAt
  <2>1. t = r.txn /\ m \in 1..Len(L)
    BY OneMoreFacts DEF OfTxn
  <2> QED BY <2>1, OneMoreFacts DEF IsEnd
<1>3. MirrorsAt(M, Len(M))
  <2>1. M[Len(M)] = r /\ Len(M) - 1 = Len(L)
    BY OneMoreFacts
  <2> QED BY <2>1 DEF MirrorsAt
<1>4. RecordOK(M, Len(M))
  BY <1>2, <1>3, OneMoreFacts DEF RecordOK, ExactAt, CheckpointAt
<1> QED BY <1>1, <1>4, OneMoreOK

\* A log of which the end is lost, but the end of no transaction.
LEMMA CutFacts ==
    ASSUME NEW L \in Seq(Record), NEW t \in 0..Len(L)
    PROVE  LET M == SubSeq(L, 1, t)
           IN  M \in Seq(Record) /\ Len(M) = t /\ Agree(L, M, t) /\ t \in Nat
BY DEF Agree

LEMMA CutOpen ==
    ASSUME NEW L, NEW M, NEW t \in 0..Len(L), Len(L) \in Nat, Len(M) = t, Agree(L, M, t),
           \A n \in 1..Len(L) : \A u \in Txns : IsEnd(L, n, u) => n <= t
    PROVE  /\ Open(M) = {u \in Open(L) : \E n \in 1..t : L[n].type = "Update" /\ L[n].txn = u}
           /\ Open(M) \subseteq Open(L)
<1>1. \A n \in 1..t : n \in 1..Len(L) /\ M[n] = L[n]
  BY DEF Agree
<1>2. \A n \in 1..t : \A u : IsEnd(M, n, u) <=> IsEnd(L, n, u)
  BY <1>1 DEF IsEnd
<1>3. \A n \in 1..Len(L) : \A u \in Txns : IsEnd(L, n, u) => n \in 1..t
  OBVIOUS
<1>4. \A u \in Txns : (\A n \in 1..t : ~IsEnd(M, n, u)) <=> (\A n \in 1..Len(L) : ~IsEnd(L, n, u))
  BY <1>1, <1>2, <1>3
<1> QED BY <1>1, <1>4 DEF Open

LEMMA CutOK ==
    ASSUME NEW L, NEW M \in Seq(Record), NEW t \in 0..Len(L), Len(M) = t, Agree(L, M, t), LogOK(L),
           \A n \in 1..Len(L) : \A u \in Txns : IsEnd(L, n, u) => n <= t
    PROVE  LogOK(M)
<1>0. Len(L) \in Nat /\ t \in Nat
  BY DEF LogOK
<1>1. ASSUME NEW n \in 1..t PROVE RecordOK(M, n)
  <2>1. n \in Nat \ {0} /\ Agree(L, M, n) /\ n \in 1..Len(L)
    BY <1>0 DEF Agree
  <2> QED BY <2>1, RecordOKPrefix DEF LogOK
<1>2. Alone(M)
  <2> SUFFICES ASSUME NEW p \in Pages, NEW n \in 1..t, NEW m \in 1..n - 1,
                      IsUpdate(M, m, p, Open(M)), IsChange(M, n, p)
               PROVE  M[n].txn = M[m].txn
    BY DEF Alone
  <2>1. n \in 1..Len(L) /\ m \in 1..t /\ M[n] = L[n] /\ M[m] = L[m]
    BY <1>0 DEF Agree
  <2>2. Open(M) \subseteq Open(L)
    BY <1>0, CutOpen
  <2>3. IsUpdate(L, m, p, Open(L)) /\ IsChange(L, n, p)
    BY <2>1, <2>2 DEF IsUpdate, IsChange
  <2> QED BY <2>1, <2>3 DEF LogOK, Alone
<1> QED BY <1>1, <1>2 DEF LogOK

-----------------------------------------------------------------------------
(* What open transactions have done to a page. *)

LEMMA AfterOpen ==
    ASSUME NEW L, LogOK(L), NEW p \in Pages, NEW n \in 1..Len(L), NEW m \in 1..n - 1,
           IsUpdate(L, m, p, Open(L)), IsChange(L, n, p)
    PROVE  L[n].txn = L[m].txn
BY DEF LogOK, Alone

LEMMA LogLen ==
    ASSUME NEW L, LogOK(L)
    PROVE  L \in Seq(Record) /\ Len(L) \in Nat
BY DEF LogOK

LEMMA OneOpen ==
    ASSUME NEW L, LogOK(L), NEW p \in Pages, NEW n \in 1..Len(L), NEW m \in 1..Len(L),
           IsUpdate(L, m, p, Open(L)), IsUpdate(L, n, p, Open(L))
    PROVE  L[n].txn = L[m].txn
<1>1. IsChange(L, n, p) /\ IsChange(L, m, p)
  BY DEF IsUpdate, IsChange, Changes
<1>2. n = m \/ m \in 1..n - 1 \/ n \in 1..m - 1
  BY LogLen
<1> QED BY <1>1, <1>2, AfterOpen

\* The updates of open transactions that do nothing to an item, and their CLRs,
\* leave it as it was.
LEMMA Untouched ==
    ASSUME NEW L, LogOK(L), NEW p \in Pages, NEW i \in Items, NEW N \in 0..Len(L),
           \A n \in 1..N : IsUpdate(L, n, p, Open(L)) => ~Moves(L[n], i)
    PROVE  Shows(L, {}, p, N, i) <=> Shows(L, Open(L), p, N, i)
<1> DEFINE U == Open(L)
           B == {n \in 1..N : IsUpdate(L, n, p, U)}
           S(k) == Shows(L, {}, p, k, i)
<1>0. Len(L) \in Nat /\ N \in Nat /\ N <= Len(L)
  BY LogLen
<1>1. CASE B = {}
  <2>1. \A n \in 1..N : ~IsUpdate(L, n, p, U)
    BY <1>1
  <2> QED BY <1>0, <2>1, ShowsAll
<1>2. CASE B # {}
  <2>1. PICK m \in B : \A k \in B : m <= k
    <3>1. B \in SUBSET Nat
      OBVIOUS
    <3> HIDE DEF B
    <3> QED BY <1>2, <3>1, LeastNatural
  <2>2. m \in 1..N /\ IsUpdate(L, m, p, U) /\ m - 1 \in Nat /\ m - 1 <= N /\ m \in 1..(m - 1) + 1 /\ m \in 1..Len(L)
    BY <1>0, <2>1
  <2>3. \A k \in 1..m - 1 : ~IsUpdate(L, k, p, U)
    <3> SUFFICES ASSUME NEW k \in 1..m - 1, IsUpdate(L, k, p, U) PROVE FALSE
      OBVIOUS
    <3>1. k \in B /\ k < m
      BY <2>2
    <3> HIDE DEF B
    <3> QED BY <2>1, <3>1
  <2>4. Shows(L, U, p, N, i) <=> Shows(L, U, p, m - 1, i)
    BY <1>0, <2>2, ShowsCut
  <2>5. Shows(L, U, p, m - 1, i) <=> S(m - 1)
    BY <2>2, <2>3, ShowsAll
  <2> DEFINE d == N - (m - 1)
             P == {e \in 0..d : \A k \in m - 1..(m - 1) + e : S(k) <=> S(m - 1)}
  <2>6. d \in Nat /\ 0 \in P
    BY <1>0, <2>2
  <2>7. ASSUME NEW e \in 1..d, e - 1 \in P PROVE e \in P
    <3> DEFINE n == (m - 1) + e
    <3>1. n \in m..N /\ n - 1 = (m - 1) + (e - 1) /\ n \in Nat \ {0} /\ n \in 1..Len(L) /\ n - 1 \in m - 1..n - 1
      BY <1>0, <2>2
    <3>2. \A k \in m - 1..n - 1 : S(k) <=> S(m - 1)
      <4>1. \A k \in m - 1..(m - 1) + (e - 1) : S(k) <=> S(m - 1)
        <5> HIDE DEF S, d
        <5> QED BY <2>7
      <4> HIDE DEF n, S, d
      <4> QED BY <3>1, <4>1
    <3> HIDE DEF n
    <3>3. S(n) <=> S(n - 1)
      <4>1. S(n) <=> IF Counted(L, {}, p, n) /\ ~Keeps(L[n], i) THEN Puts(L[n], i) ELSE S(n - 1)
        BY <3>1, ShowsNext
      <4>2. CASE ~(Counted(L, {}, p, n) /\ ~Keeps(L[n], i))
        BY <4>1, <4>2
      <4>3. CASE Counted(L, {}, p, n) /\ ~Keeps(L[n], i)
        <5>1. IsChange(L, n, p) /\ RecordOK(L, n)
          BY <3>1, <4>3 DEF Counted, LogOK
        <5>2. L[n].txn \in U
          <6>1. L[m].txn \in U
            BY <2>2 DEF IsUpdate
          <6>2. n = m \/ m \in 1..n - 1
            BY <2>2, <3>1
          <6>3. m \in 1..n - 1 => L[n].txn = L[m].txn
            BY <2>2, <3>1, <5>1, AfterOpen
          <6> QED BY <6>1, <6>2, <6>3
        <5>3. CASE L[n].type = "Update"
          <6>1. IsUpdate(L, n, p, U)
            BY <5>1, <5>2, <5>3 DEF IsUpdate, IsChange
          <6>2. n \in 1..N
            BY <1>0, <3>1
          <6>3. ~Moves(L[n], i)
            BY <6>1, <6>2
          <6>4. i \notin L[n].from /\ ~Puts(L[n], i)
            BY <4>3, <6>3 DEF Moves, Keeps, Puts
          <6>5. ~S(n - 1)
            BY <5>1, <5>3, <6>4 DEF RecordOK, ExactAt, IsChange
          <6> QED BY <4>1, <4>3, <6>4, <6>5
        <5>4. CASE L[n].type = "Clr"
          <6>1. PICK j \in 1..n - 1 : Mirror(L, n, j)
            BY <5>1, <5>4 DEF RecordOK, MirrorsAt
          <6>2. IsUpdate(L, j, p, U)
            BY <5>1, <5>2, <6>1 DEF Mirror, IsUpdate, IsChange
          <6>3. j \in 1..N /\ j \in 1..Len(L)
            BY <1>0, <3>1
          <6>4. j >= m
            BY <2>1, <6>2, <6>3
          <6>5. ~Moves(L[j], i)
            BY <6>2, <6>3
          <6>6. i \notin L[j].from /\ ~Puts(L[n], i)
            BY <4>3, <6>1, <6>5 DEF Moves, Keeps, Puts, Mirror
          <6>7. ~S(j - 1)
            <7>1. RecordOK(L, j) /\ L[j].type = "Update" /\ L[j].page = p
              BY <6>2, <6>3 DEF LogOK, IsUpdate
            <7> QED BY <6>6, <7>1 DEF RecordOK, ExactAt
          <6>8. j - 1 \in m - 1..n - 1
            BY <2>2, <3>1, <6>4
          <6>9. ~S(n - 1)
            <7> HIDE DEF S
            <7> QED BY <3>1, <3>2, <6>7, <6>8
          <6> QED BY <4>1, <4>3, <6>6, <6>9
        <5> QED BY <5>1, <5>3, <5>4 DEF IsChange, Changes
      <4> QED BY <4>2, <4>3
    <3>4. \A k \in m - 1..n : k = n \/ k \in m - 1..n - 1
      BY <3>1
    <3>5. \A k \in m - 1..n : S(k) <=> S(m - 1)
      <4> HIDE DEF S
      <4> QED BY <3>1, <3>2, <3>3, <3>4
    <3> HIDE DEF S, d
    <3> QED BY <3>5 DEF n
  <2>8. \A e \in 0..d : e \in P
    <3> HIDE DEF P, d
    <3> QED BY <2>6, <2>7, UpTo
  <2>9. d \in P /\ N \in m - 1..(m - 1) + d
    BY <1>0, <2>2, <2>6, <2>8
  <2>10. S(N) <=> S(m - 1)
    <3> HIDE DEF S, d
    <3> QED BY <2>9
  <2> QED BY <2>4, <2>5, <2>10
<1> QED BY <1>1, <1>2

\* When all updates and ends are durable, no record after them counts.
LEMMA TailLeftOut ==
    ASSUME NEW L, LogOK(L), NEW p \in Pages, NEW t \in 0..Len(L), NEW n \in t + 1..Len(L),
           \A m \in 1..Len(L) : L[m].type = "Update" => m <= t,
           \A m \in 1..Len(L) : \A u \in Txns : IsEnd(L, m, u) => m <= t
    PROVE  ~Counted(L, Open(L), p, n)
<1> SUFFICES ASSUME IsChange(L, n, p) PROVE \E m \in 1..n : IsUpdate(L, m, p, Open(L))
  BY DEF Counted
<1>1. n \in 1..Len(L) /\ ~(n <= t) /\ n \in Nat /\ t \in Nat /\ Len(L) \in Nat
  BY LogLen
<1>2. L[n].type = "Clr" /\ RecordOK(L, n)
  BY <1>1 DEF IsChange, Changes, LogOK
<1>3. L[n].txn \in Txns
  BY <1>2 DEF RecordOK, MirrorsAt
<1>4. PICK m \in 1..n - 1 : Mirror(L, n, m)
  BY <1>2 DEF RecordOK, MirrorsAt
<1>5. m \in 1..Len(L) /\ m \in 1..n
  BY <1>1
<1>6. \A k \in 1..Len(L) : ~IsEnd(L, k, L[n].txn)
  <2> SUFFICES ASSUME NEW k \in 1..Len(L), IsEnd(L, k, L[n].txn) PROVE FALSE
    OBVIOUS
  <2>1. k <= t
    BY <1>3
  <2>2. k \in 1..n - 1
    BY <1>1, <2>1
  <2>3. OfTxn(L, n, L[n].txn)
    BY <1>2 DEF OfTxn
  <2> QED BY <1>2, <1>3, <2>2, <2>3 DEF RecordOK, EndsLastAt
<1>7. L[m].type = "Update" /\ L[m].page = L[n].page /\ L[m].txn = L[n].txn
  BY <1>4 DEF Mirror
<1>8. L[m].txn \in Open(L)
  BY <1>3, <1>5, <1>6, <1>7 DEF Open
<1> QED BY <1>5, <1>7, <1>8 DEF IsUpdate, IsChange

\* A CLR puts its page back, for the items no update before it moves that is to be
\* undone too.
LEMMA ClrShows ==
    ASSUME NEW L, NEW M, NEW c, OneMore(L, M, c), LogOK(L), c.type = "Clr",
           NEW m \in 1..Len(L), Mirror(M, Len(M), m), L[m].txn \in Open(L),
           NEW i \in Items, ~Keeps(c, i), NEW p \in Pages, c.page = p,
           \A n \in 1..m - 1 : IsUpdate(L, n, p, Open(L)) => ~Moves(L[n], i)
    PROVE  Shows(M, {}, p, Len(M), i) <=> Shows(L, Open(L), p, Len(L), i)
<1>0. /\ Len(L) \in Nat /\ m \in Nat \ {0} /\ m - 1 \in 0..Len(L) /\ m - 1 <= Len(L) /\ m - 1 \in Nat
      /\ m \in 1..(m - 1) + 1
  BY OneMoreFacts
<1>1. L[m].type = "Update" /\ L[m].page = p /\ c.from = L[m].to /\ c.to = L[m].from
  BY OneMoreFacts DEF Mirror
<1>2. Counted(M, {}, p, Len(M))
  BY OneMoreFacts, CountedAll DEF IsChange, Changes
<1>3. Shows(M, {}, p, Len(M), i) <=> Puts(c, i)
  BY <1>2, OneMoreShows
<1>4. Puts(c, i) <=> i \in L[m].from
  BY <1>1 DEF Puts, Keeps
<1>5. i \in L[m].from <=> Shows(L, {}, p, m - 1, i)
  BY <1>1 DEF LogOK, RecordOK, ExactAt
<1>6. Shows(L, {}, p, m - 1, i) <=> Shows(L, Open(L), p, m - 1, i)
  BY <1>0, Untouched
<1>7. Shows(L, Open(L), p, Len(L), i) <=> Shows(L, Open(L), p, m - 1, i)
  <2>1. IsUpdate(L, m, p, Open(L))
    BY <1>1 DEF IsUpdate
  <2> QED BY <1>0, <2>1, ShowsCut
<1> QED BY <1>3, <1>4, <1>5, <1>6, <1>7
-----------------------------------------------------------------------------
(* From where on a page's changes bring it up to date. *)

\* If what f says of the item is not what the log says, one of the changes of
\* the page from lo to hi sets it.
Redoable(L, p, i, f, lo, hi) ==
    \/ \E n \in 1..hi : n >= lo /\ IsChange(L, n, p) /\ ~Keeps(L[n], i)
    \/ i \in f <=> Shows(L, {}, p, hi, i)

LEMMA RedoableUp ==
    ASSUME NEW L, NEW p, NEW i, NEW f, NEW lo \in Nat, NEW hi \in Nat, NEW to \in Nat,
           hi <= to, lo <= hi + 1, Redoable(L, p, i, f, lo, hi)
    PROVE  Redoable(L, p, i, f, lo, to)
<1>1. CASE \E n \in 1..to : n >= lo /\ IsChange(L, n, p) /\ ~Keeps(L[n], i)
  BY <1>1 DEF Redoable
<1>2. CASE ~\E n \in 1..to : n >= lo /\ IsChange(L, n, p) /\ ~Keeps(L[n], i)
  <2>1. \A n \in 1..hi : n \in 1..to
    OBVIOUS
  <2>2. i \in f <=> Shows(L, {}, p, hi, i)
    BY <1>2, <2>1 DEF Redoable
  <2>3. \A n \in hi + 1..to : ~Counted(L, {}, p, n) \/ Keeps(L[n], i)
    <3>1. \A n \in hi + 1..to : n \in 1..to /\ n >= lo
      OBVIOUS
    <3> QED BY <1>2, <3>1, CountedAll
  <2>4. Shows(L, {}, p, to, i) <=> Shows(L, {}, p, hi, i)
    BY <2>3, ShowsUncounted
  <2> QED BY <2>2, <2>4 DEF Redoable
<1> QED BY <1>1, <1>2

LEMMA RedoableLower ==
    ASSUME NEW L, NEW p, NEW i, NEW f, NEW lo \in Nat, NEW hi \in Nat, NEW from \in Nat,
           from <= lo, Redoable(L, p, i, f, lo, hi)
    PROVE  Redoable(L, p, i, f, from, hi)
BY DEF Redoable

LEMMA RedoablePrefix ==
    ASSUME NEW L, NEW M, NEW p, NEW i, NEW f, NEW lo, NEW hi \in Nat, Agree(L, M, hi),
           Redoable(L, p, i, f, lo, hi)
    PROVE  Redoable(M, p, i, f, lo, hi)
<1>1. Shows(M, {}, p, hi, i) <=> Shows(L, {}, p, hi, i)
  BY ShowsPrefix
<1>2. \A n \in 1..hi : M[n] = L[n] /\ (IsChange(M, n, p) <=> IsChange(L, n, p))
  BY DEF Agree, IsChange
<1> QED BY <1>1, <1>2 DEF Redoable

LEMMA RedoableDown ==
    ASSUME NEW L, NEW p, NEW i, NEW f, NEW lo \in Nat, NEW hi \in Nat, NEW to \in Nat, hi <= to,
           \A n \in hi + 1..to : ~IsChange(L, n, p), Redoable(L, p, i, f, lo, to)
    PROVE  Redoable(L, p, i, f, lo, hi)
<1>1. Shows(L, {}, p, to, i) <=> Shows(L, {}, p, hi, i)
  <2>1. \A n \in hi + 1..to : ~Counted(L, {}, p, n)
    BY CountedAll
  <2> QED BY <2>1, ShowsUncounted
<1>2. \A n \in 1..to : n \in 1..hi \/ n \in hi + 1..to
  OBVIOUS
<1> QED BY <1>1, <1>2 DEF Redoable

\* What redo makes of the page.
LEMMA AppliedShows ==
    ASSUME NEW A \in Seq(Record), NEW p, NEW i, NEW f, NEW lo \in Nat, NEW g, NEW D,
           D = {n \in 1..Len(A) : n >= lo /\ IsChange(A, n, p)},
           Applies(g, A, D, f), Redoable(A, p, i, f, lo, Len(A))
    PROVE  i \in g[Len(A)] <=> Shows(A, {}, p, Len(A), i)
<1> DEFINE N == Len(A)
           S(k) == Shows(A, {}, p, k, i)
           Set(n) == \E k \in 1..n : k \in D /\ ~Keeps(A[k], i)
           Right(n) == IF Set(n) THEN i \in g[n] <=> S(n) ELSE i \in g[n] <=> i \in f
           P == {n \in 0..N : Right(n)}
<1>0. N \in Nat
  OBVIOUS
<1>1. g[0] = f /\ \A n \in 1..N : g[n] = IF n \in D THEN Cover(g[n - 1], A[n].from, A[n].to) ELSE g[n - 1]
  BY DEF Applies
<1>2. 0 \in P
  BY <1>0, <1>1
<1>3. ASSUME NEW n \in 1..N, n - 1 \in P PROVE n \in P
  <2>0. n \in 0..N /\ n \in Nat \ {0}
    BY <1>0
  <2>1. S(n) <=> IF IsChange(A, n, p) /\ ~Keeps(A[n], i) THEN Puts(A[n], i) ELSE S(n - 1)
    BY <2>0, ShowsNext, CountedAll
  <2>2. Set(n) <=> Set(n - 1) \/ (n \in D /\ ~Keeps(A[n], i))
    <3>1. \A k \in 1..n : k = n \/ k \in 1..n - 1
      BY <1>0
    <3>2. \A k \in 1..n - 1 : k \in 1..n
      BY <1>0
    <3>3. n \in 1..n
      BY <2>0
    <3> QED BY <3>1, <3>2, <3>3
  <2>3. Right(n - 1)
    BY <1>3
  <2>4. CASE n \in D
    <3>1. IsChange(A, n, p)
      BY <2>4
    <3>2. i \in g[n] <=> (i \in g[n - 1] /\ Keeps(A[n], i)) \/ Puts(A[n], i)
      BY <1>1, <2>4 DEF Cover, Keeps, Puts
    <3>3. ~(Keeps(A[n], i) /\ Puts(A[n], i))
      BY DEF Keeps, Puts
    <3> HIDE DEF S, Set
    <3>4. Right(n)
      BY <2>1, <2>2, <2>3, <2>4, <3>1, <3>2, <3>3
    <3> HIDE DEF Right
    <3> QED BY <2>0, <3>4
  <2>5. CASE n \notin D
    <3>1. g[n] = g[n - 1]
      BY <1>1, <2>5
    <3>2. Set(n - 1) => (S(n) <=> S(n - 1))
      <4> SUFFICES ASSUME Set(n - 1) PROVE ~IsChange(A, n, p)
        BY <2>1
      <4>1. PICK k \in 1..n - 1 : k \in D
        OBVIOUS
      <4>2. k >= lo /\ n >= k
        BY <1>0, <4>1
      <4>3. n >= lo
        BY <2>0, <4>1, <4>2
      <4> QED BY <2>5, <4>3
    <3> HIDE DEF S, Set
    <3>3. Right(n)
      BY <2>2, <2>3, <2>5, <3>1, <3>2
    <3> HIDE DEF Right
    <3> QED BY <2>0, <3>3
  <2> QED BY <2>4, <2>5
<1>4. \A n \in 0..N : n \in P
  <2> HIDE DEF P, N
  <2> QED BY <1>0, <1>2, <1>3, UpTo
<1>5. Right(N)
  BY <1>0, <1>4
<1>6. ~Set(N) => (i \in f <=> S(N))
  BY DEF Redoable
<1> QED BY <1>5, <1>6
-----------------------------------------------------------------------------
(* Whom recovery takes for a loser. *)

LEMMA LosersRight ==
    ASSUME TypeInv, LogOK(log)
    PROVE  /\ Open(log) \subseteq LosersOf(log)
           /\ \A t \in LosersOf(log) : t \in Txns /\ \A n \in 1..Len(log) : ~IsEnd(log, n, t)
           /\ \A t \in LosersOf(log) : \E n \in 1..Len(log) : Names(log, n, t)
<1>1. /\ last_ckpt \in 0..Len(log) /\ last_ckpt \in Nat /\ Len(log) \in Nat
      /\ last_ckpt # 0 => last_ckpt \in 1..Len(log) /\ log[last_ckpt].type = "Checkpoint"
  BY LogFacts
<1> SUFFICES ASSUME NEW t \in Txns
             PROVE  /\ t \in Open(log) => t \in LosersOf(log)
                    /\ t \in LosersOf(log) => \A n \in 1..Len(log) : ~IsEnd(log, n, t)
                    /\ t \in LosersOf(log) => \E n \in 1..Len(log) : Names(log, n, t)
  BY DEF Open, LosersOf
<1> DEFINE own == {n \in last_ckpt + 1..Len(log) : log[n].type # "Checkpoint" /\ log[n].txn = t}
<1>2. t \in LosersOf(log) <=> IF own = {} THEN t \in CheckpointTxns
                              ELSE log[MaxOf(own)].type \notin {"Commit", "Abort"}
  BY DEF LosersOf
<1>3. \A n \in 1..Len(log) : OfTxn(log, n, t) => n <= last_ckpt \/ n \in own
  BY <1>1 DEF OfTxn
<1>4. \A n \in 1..Len(log) : IsEnd(log, n, t) => OfTxn(log, n, t)
  BY DEF IsEnd, OfTxn
<1>5. own # {} => MaxOf(own) \in own /\ \A n \in own : n <= MaxOf(own)
  <2>1. own \in SUBSET (0..Len(log))
    BY <1>1
  <2> HIDE DEF own
  <2> QED BY <1>1, <2>1, MaxOfIs
<1>6. t \in CheckpointTxns <=> last_ckpt # 0 /\ t \in log[last_ckpt].att
  BY DEF CheckpointTxns
<1>7. last_ckpt # 0 => CheckpointAt(log, last_ckpt)
  BY <1>1 DEF LogOK, RecordOK
<1>8. own \subseteq 1..Len(log)
  BY <1>1
<1>9. ASSUME t \in Open(log) PROVE t \in LosersOf(log)
  <2>1. \A n \in 1..Len(log) : ~IsEnd(log, n, t)
    BY <1>9 DEF Open
  <2>2. CASE own = {}
    <3>1. PICK n \in 1..Len(log) : log[n].type = "Update" /\ log[n].txn = t
      BY <1>9 DEF Open
    <3>2. n <= last_ckpt
      BY <1>3, <2>2, <3>1 DEF OfTxn
    <3>3. last_ckpt # 0 /\ n \in 1..last_ckpt
      BY <1>1, <3>2
    <3>4. \A m \in 1..last_ckpt : m \in 1..Len(log)
      BY <1>1
    <3>5. log[last_ckpt].type = "Checkpoint"
      BY <1>1, <3>3
    <3>6. t \in log[last_ckpt].att
      BY <1>7, <2>1, <3>1, <3>3, <3>4, <3>5 DEF CheckpointAt
    <3> QED BY <1>2, <1>6, <2>2, <3>3, <3>6
  <2>3. CASE own # {}
    <3> DEFINE m == MaxOf(own)
    <3>1. m \in own
      BY <1>5, <2>3
    <3>2. m \in 1..Len(log) /\ log[m].txn = t
      BY <1>8, <3>1
    <3>3. log[m].type \notin {"Commit", "Abort"}
      <4> HIDE DEF m
      <4> QED BY <2>1, <3>2 DEF IsEnd
    <3> HIDE DEF own
    <3> QED BY <1>2, <2>3, <3>3
  <2> QED BY <2>2, <2>3
<1>10. ASSUME t \in LosersOf(log), NEW n \in 1..Len(log), IsEnd(log, n, t) PROVE FALSE
  <2>1. n <= last_ckpt \/ n \in own
    BY <1>3, <1>4, <1>10
  <2>2. CASE own = {}
    <3>1. last_ckpt # 0 /\ t \in log[last_ckpt].att
      BY <1>2, <1>6, <1>10, <2>2
    <3>2. n \in 1..last_ckpt
      BY <1>1, <2>1, <2>2
    <3> QED BY <1>1, <1>7, <1>10, <3>1, <3>2 DEF CheckpointAt
  <2>3. CASE own # {}
    <3> DEFINE m == MaxOf(own)
    <3>1. m \in own /\ \A k \in own : k <= m
      BY <1>5, <2>3
    <3>2. m \in 1..Len(log) /\ log[m].txn = t /\ log[m].type # "Checkpoint" /\ last_ckpt < m
      BY <1>1, <1>8, <3>1
    <3>3. log[m].type \notin {"Commit", "Abort"}
      <4> HIDE DEF own
      <4> QED BY <1>2, <1>10, <2>3
    <3> HIDE DEF m
    <3>4. n # m
      BY <1>10, <3>3 DEF IsEnd
    <3>5. ~(n \in 1..m - 1)
      <4>1. RecordOK(log, m) /\ OfTxn(log, m, t)
        BY <3>2 DEF LogOK, OfTxn
      <4> QED BY <1>10, <4>1 DEF RecordOK, EndsLastAt
    <3>6. n > m
      BY <1>1, <3>2, <3>4, <3>5
    <3>7. n \in own
      BY <1>1, <2>1, <3>2, <3>6
    <3>8. n <= m
      <4> HIDE DEF own
      <4> QED BY <3>1, <3>7
    <3> QED BY <1>1, <3>2, <3>6, <3>8
  <2> QED BY <2>2, <2>3
<1>11. ASSUME t \in LosersOf(log) PROVE \E n \in 1..Len(log) : Names(log, n, t)
  <2>1. CASE own = {}
    <3>1. last_ckpt \in 1..Len(log) /\ t \in log[last_ckpt].att /\ log[last_ckpt].type = "Checkpoint"
      BY <1>1, <1>2, <1>6, <1>11, <2>1
    <3> QED BY <3>1 DEF Names
  <2>2. CASE own # {}
    <3>1. PICK n \in own : TRUE
      BY <2>2
    <3>2. n \in 1..Len(log) /\ log[n].type # "Checkpoint" /\ log[n].txn = t
      BY <1>8
    <3> QED BY <3>2 DEF Names
  <2> QED BY <2>1, <2>2
<1> QED BY <1>9, <1>10, <1>11

-----------------------------------------------------------------------------
(* The inductive invariant, part by part. *)

ActiveOf(x) == {t \in Txns : x[t] = "active"}

\* What a transaction's history says of its records.
StatusOK(L, x, d, ph) ==
    \A t \in Txns :
        /\ x[t] = "new" => \A n \in 1..Len(L) : ~Names(L, n, t)
        /\ x[t] = "active" => ph = "running" /\ \A n \in 1..Len(L) : ~IsEnd(L, n, t)
        /\ t \in Open(L) => x[t] = IF ph = "running" THEN "active" ELSE "lost"
        /\ x[t] \in {"new", "committed", "lost"} => d[t] = {}

\* Ends are forced; a crash leaves no update that is not durable.
EndsDurable(L, t) == \A n \in 1..Len(L) : \A u \in Txns : IsEnd(L, n, u) => n <= t
UpdatesDurable(L, t, ph) ==
    ph # "running" => \A n \in 1..Len(L) : L[n].type = "Update" => n <= t

\* A call outside transactions moves its own items, and no item is two callers'.
AutoItems(L, d) ==
    \A n \in 1..Len(L) : L[n].type = "Update" /\ L[n].txn = AutoTxn =>
        \A i \in Items : Moves(L[n], i) => i \in d[AutoTxn]
DidsApart(d) ==
    \A t \in Txns \cup {AutoTxn}, u \in Txns \cup {AutoTxn} : t # u => d[t] \cap d[u] = {}

\* What the log says when the transactions of U are left out: an item is in one
\* page at most, and is there if the others made it so.
MeantFor(L, U, d, b) ==
    \A i \in Items \ d[AutoTxn] :
        /\ \A p \in Pages, q \in Pages :
              Shows(L, U, p, Len(L), i) /\ Shows(L, U, q, Len(L), i) => p = q
        /\ (\E p \in Pages : Shows(L, U, p, Len(L), i))
              <=> ~(i \in b <=> \E u \in Txns \ U : i \in d[u])
Meaning(L, x, d, b, ph) ==
    IF ph = "running" THEN \A U \in SUBSET ActiveOf(x) : MeantFor(L, U, d, b)
    ELSE MeantFor(L, Open(L), d, b)

\* An update moves the item that is still to be undone, or that open transactions did.
TodoDoubt(L, to, p, i) == \E n \in to : L[n].page = p /\ Moves(L[n], i)
Doubtful(L, U, p, i) == \E n \in 1..Len(L) : IsUpdate(L, n, p, U) /\ Moves(L[n], i)
Doubted(L, ph) == IF ph = "running" THEN {} ELSE Open(L)

\* The pages are as the log says.
Current(L, P, w, to, ph) ==
    ph # "crashed" =>
        \A p \in Pages, i \in Items :
            TodoDoubt(L, to, p, i) \/ (i \in DataIn(P, w, p) <=> Shows(L, {}, p, Len(L), i))

\* What is undone is as if the open transactions had not been.
UndoneOK(L, to, ph) ==
    ph = "undo" =>
        \A p \in Pages, i \in Items :
            \/ TodoDoubt(L, to, p, i)
            \/ (Shows(L, {}, p, Len(L), i) <=> Shows(L, Open(L), p, Len(L), i))

TodoOK(L, to, lo, ph) ==
    /\ \A n \in to : L[n].txn \in lo
    /\ \A n \in to : \A m \in 1..Len(L) :
          m <= n /\ L[m].type = "Update" /\ L[m].txn \in lo => m \in to
    /\ ph = "undo" => Open(L) \subseteq lo
    /\ \A t \in lo : \A n \in 1..Len(L) : ~IsEnd(L, n, t)
    /\ \A t \in lo : \E n \in 1..Len(L) : Names(L, n, t)
    /\ ph # "undo" => lo = {}

\* What is undone has a CLR, which a redo would apply.
Compensated(L, to, lo, P, last, ph) ==
    ph = "undo" =>
        \A m \in 1..Len(L) : L[m].type = "Update" /\ L[m].txn \in lo /\ m \notin to =>
            \E n \in last + 1..Len(L) :
                /\ L[n].type = "Clr" /\ Mirror(L, n, m)
                /\ L[m].page \in DOMAIN P => n >= P[L[m].page].rec_lsn

\* From where on recovery would redo a page's changes.
Start(L, last, p) ==
    IF last # 0 /\ p \in DOMAIN L[last].dpt THEN L[last].dpt[p] ELSE last + 1

\* Redo brings what is in the files up to date, and the changes since the first
\* one of a dirty page do.
Filed(L, U, t, last, w, s) ==
    \A p \in Pages, i \in Items :
        \/ Doubtful(L, U, p, i)
        \/ /\ Redoable(L, p, i, w[p], Start(L, last, p), t)
           /\ Redoable(L, p, i, s[p], Start(L, last, p), t)
Pooled(L, U, P, w) ==
    \A p \in DOMAIN P, i \in Items :
        Doubtful(L, U, p, i) \/ Redoable(L, p, i, w[p], P[p].rec_lsn, Len(L))

\* A change that is not durable keeps its page in the pool.
Flushed(L, P, t) ==
    \A p \in Pages : \A n \in 1..Len(L) :
        IsChange(L, n, p) => n <= t \/ (p \in DOMAIN P /\ n <= P[p].page_lsn)

\* The checkpoint in progress.
TableOK(T, L, P, w, s) ==
    \A p \in Pages :
        /\ p \notin DOMAIN T => p \notin DOMAIN P /\ s[p] = w[p]
        /\ p \in DOMAIN T =>
              /\ T[p] \in 0..Len(L)
              /\ \A i \in Items : /\ Redoable(L, p, i, w[p], T[p], Len(L))
                                  /\ Redoable(L, p, i, s[p], T[p], Len(L))
CkptOK(c, L, P, w, s, x) ==
    /\ c.pc = "synced" => s = w
    /\ c.pc \in {"dpt", "att"} => TableOK(c.dpt, L, P, w, s)
    /\ c.pc = "att" => Open(L) \subseteq c.att /\ c.att \subseteq ActiveOf(x)
    /\ c.pc = "header" =>
          /\ TableOK(L[c.lsn].dpt, L, P, w, s)
          /\ \A n \in c.lsn + 1..Len(L) : L[n].type \notin Changes

RecoveryInv ==
    /\ TypeInv /\ LogOK(log)
    /\ StatusOK(log, txn, did, phase)
    /\ EndsDurable(log, tail) /\ UpdatesDurable(log, tail, phase)
    /\ AutoItems(log, did) /\ DidsApart(did)
    /\ Meaning(log, txn, did, base, phase)
    /\ Current(log, pool, written, todo, phase)
    /\ UndoneOK(log, todo, phase)
    /\ TodoOK(log, todo, losers, phase)
    /\ Compensated(log, todo, losers, pool, last_ckpt, phase)
    /\ Filed(log, Doubted(log, phase), tail, last_ckpt, written, synced)
    /\ Pooled(log, Doubted(log, phase), pool, written)
    /\ phase = "running" => Flushed(log, pool, tail)
    /\ CkptOK(ckpt, log, pool, written, synced, txn)
-----------------------------------------------------------------------------
(* The parts of the invariant when a record is appended. *)

LEMMA NoDoubt ==
    ASSUME NEW L, NEW p, NEW i PROVE ~Doubtful(L, {}, p, i)
BY DEF Doubtful, IsUpdate

LEMMA DoubtMore ==
    ASSUME NEW L, NEW M, NEW r, OneMore(L, M, r), NEW U, NEW p, NEW i, Doubtful(L, U, p, i)
    PROVE  Doubtful(M, U, p, i)
<1>1. PICK n \in 1..Len(L) : IsUpdate(L, n, p, U) /\ Moves(L[n], i)
  BY DEF Doubtful
<1>2. n \in 1..Len(M) /\ M[n] = L[n]
  BY OneMoreFacts
<1> QED BY <1>1, <1>2 DEF Doubtful, IsUpdate

LEMMA EndsDurableMore ==
    ASSUME NEW L, NEW M, NEW r, OneMore(L, M, r), NEW t \in Nat, NEW u \in Nat, t <= u,
           EndsDurable(L, t), r.type \in {"Commit", "Abort"} => Len(M) <= u
    PROVE  EndsDurable(M, u)
<1> SUFFICES ASSUME NEW n \in 1..Len(M), NEW v \in Txns, IsEnd(M, n, v) PROVE n <= u
  BY DEF EndsDurable
<1>1. CASE n = Len(M)
  BY <1>1, OneMoreFacts DEF IsEnd
<1>2. CASE n # Len(M)
  <2>1. n \in 1..Len(L) /\ M[n] = L[n] /\ n \in Nat
    BY <1>2, OneMoreFacts
  <2>2. n <= t
    BY <2>1 DEF EndsDurable, IsEnd
  <2> QED BY <2>1, <2>2
<1> QED BY <1>1, <1>2

LEMMA AutoItemsMore ==
    ASSUME NEW L, NEW M, NEW r, OneMore(L, M, r), NEW d, NEW e, AutoItems(L, d), d[AutoTxn] \subseteq e[AutoTxn],
           r.type = "Update" /\ r.txn = AutoTxn =>
               \A i \in Items : Moves(r, i) => i \in e[AutoTxn]
    PROVE  AutoItems(M, e)
<1> SUFFICES ASSUME NEW n \in 1..Len(M), M[n].type = "Update", M[n].txn = AutoTxn,
                    NEW i \in Items, Moves(M[n], i)
             PROVE  i \in e[AutoTxn]
  BY DEF AutoItems
<1>1. CASE n = Len(M)
  BY <1>1, OneMoreFacts
<1>2. CASE n # Len(M)
  <2>1. n \in 1..Len(L) /\ M[n] = L[n]
    BY <1>2, OneMoreFacts
  <2> QED BY <2>1 DEF AutoItems
<1> QED BY <1>1, <1>2

LEMMA MeantQuiet ==
    ASSUME NEW L, NEW M, NEW r, OneMore(L, M, r), r.type \notin Changes,
           NEW U, NEW d, NEW b, MeantFor(L, U, d, b)
    PROVE  MeantFor(M, U, d, b)
<1>1. \A p, i : Shows(M, U, p, Len(M), i) <=> Shows(L, U, p, Len(L), i)
  BY ElsewhereShows
<1> QED BY <1>1 DEF MeantFor

LEMMA TodoDoubtMore ==
    ASSUME NEW L, NEW M, NEW r, OneMore(L, M, r), NEW to, to \subseteq 1..Len(L), NEW p, NEW i
    PROVE  TodoDoubt(M, to, p, i) <=> TodoDoubt(L, to, p, i)
<1>1. \A n \in to : M[n] = L[n]
  BY OneMoreFacts
<1> QED BY <1>1 DEF TodoDoubt

LEMMA CurrentQuiet ==
    ASSUME NEW L, NEW M, NEW r, OneMore(L, M, r), r.type \notin Changes,
           NEW P, NEW w, NEW to, to \subseteq 1..Len(L), NEW ph, Current(L, P, w, to, ph)
    PROVE  Current(M, P, w, to, ph)
<1>1. \A p, i : Shows(M, {}, p, Len(M), i) <=> Shows(L, {}, p, Len(L), i)
  BY ElsewhereShows
<1>2. \A p, i : TodoDoubt(M, to, p, i) <=> TodoDoubt(L, to, p, i)
  BY TodoDoubtMore
<1> QED BY <1>1, <1>2 DEF Current

LEMMA FlushedQuiet ==
    ASSUME NEW L, NEW M, NEW r, OneMore(L, M, r), r.type \notin Changes,
           NEW P, NEW t \in Nat, NEW u \in Nat, t <= u, Flushed(L, P, t)
    PROVE  Flushed(M, P, u)
<1> SUFFICES ASSUME NEW p \in Pages, NEW n \in 1..Len(M), IsChange(M, n, p)
             PROVE  n <= u \/ (p \in DOMAIN P /\ n <= P[p].page_lsn)
  BY DEF Flushed
<1>1. n # Len(M)
  BY OneMoreFacts DEF IsChange
<1>2. n \in 1..Len(L) /\ M[n] = L[n] /\ n \in Nat
  BY <1>1, OneMoreFacts
<1>3. n <= t \/ (p \in DOMAIN P /\ n <= P[p].page_lsn)
  BY <1>2 DEF Flushed, IsChange
<1> QED BY <1>2, <1>3

LEMMA StartFacts ==
    ASSUME NEW L, LogOK(L), NEW t, NEW o, NEW last, LogTyped(L, t, o, last), NEW p
    PROVE  Start(L, last, p) \in Nat /\ Start(L, last, p) <= last + 1 /\ Start(L, last, p) <= t + 1
<1>1. last \in 0..t /\ t \in 0..Len(L) /\ Len(L) \in Nat /\ (last # 0 => L[last].type = "Checkpoint")
  BY LogLen DEF LogTyped
<1>2. CASE last # 0 /\ p \in DOMAIN L[last].dpt
  <2>1. last \in 1..Len(L)
    BY <1>1, <1>2
  <2>2. L[last].dpt[p] \in 0..last - 1
    BY <1>1, <1>2, <2>1 DEF LogOK, RecordOK, CheckpointAt
  <2>3. Start(L, last, p) = L[last].dpt[p]
    BY <1>2 DEF Start
  <2> QED BY <1>1, <2>1, <2>2, <2>3
<1>3. CASE ~(last # 0 /\ p \in DOMAIN L[last].dpt)
  <2>1. Start(L, last, p) = last + 1
    BY <1>3 DEF Start
  <2> QED BY <1>1, <2>1
<1> QED BY <1>2, <1>3

\* More of the log is durable.
LEMMA FiledTail ==
    ASSUME NEW L, LogOK(L), NEW U, NEW t, NEW u, NEW last, LogTyped(L, t, <<>>, last), u \in t..Len(L),
           NEW w, NEW s, Filed(L, U, t, last, w, s)
    PROVE  Filed(L, U, u, last, w, s)
<1>0. t \in Nat /\ u \in Nat /\ t <= u
  BY LogLen DEF LogTyped
<1> SUFFICES ASSUME NEW p \in Pages, NEW i \in Items, ~Doubtful(L, U, p, i)
             PROVE  /\ Redoable(L, p, i, w[p], Start(L, last, p), u)
                    /\ Redoable(L, p, i, s[p], Start(L, last, p), u)
  BY DEF Filed
<1>1. Start(L, last, p) \in Nat /\ Start(L, last, p) <= t + 1
  BY StartFacts
<1>2. /\ Redoable(L, p, i, w[p], Start(L, last, p), t)
      /\ Redoable(L, p, i, s[p], Start(L, last, p), t)
  BY DEF Filed
<1> QED BY <1>0, <1>1, <1>2, RedoableUp

\* The log has one record more.
LEMMA FiledMore ==
    ASSUME NEW L, NEW M, NEW r, OneMore(L, M, r), NEW U, NEW V, NEW t, NEW last,
           LogTyped(L, t, <<>>, last), NEW w, NEW s, Filed(L, U, t, last, w, s),
           \A p \in Pages, i \in Items : Doubtful(L, U, p, i) =>
               \/ Doubtful(M, V, p, i)
               \/ /\ Redoable(L, p, i, w[p], Start(L, last, p), t)
                  /\ Redoable(L, p, i, s[p], Start(L, last, p), t)
    PROVE  Filed(M, V, t, last, w, s)
<1>0. t \in Nat /\ Agree(L, M, t) /\ last \in 0..t /\ t \in 0..Len(L) /\ Len(L) \in Nat
  <2>1. t \in 0..Len(L) /\ last \in 0..t
    BY DEF LogTyped
  <2> QED BY <2>1, OneMoreFacts DEF Agree
<1>1. \A p : Start(M, last, p) = Start(L, last, p)
  <2>1. last # 0 => M[last] = L[last]
    BY <1>0, OneMoreFacts
  <2> QED BY <2>1 DEF Start
<1> SUFFICES ASSUME NEW p \in Pages, NEW i \in Items, ~Doubtful(M, V, p, i)
             PROVE  /\ Redoable(M, p, i, w[p], Start(L, last, p), t)
                    /\ Redoable(M, p, i, s[p], Start(L, last, p), t)
  BY <1>1 DEF Filed
<1>2. /\ Redoable(L, p, i, w[p], Start(L, last, p), t)
      /\ Redoable(L, p, i, s[p], Start(L, last, p), t)
  BY DEF Filed
<1> QED BY <1>0, <1>2, RedoablePrefix

LEMMA RedoableMore ==
    ASSUME NEW L, NEW M, NEW r, OneMore(L, M, r), NEW p, NEW i, NEW f, NEW lo \in 0..Len(L) + 1,
           Redoable(L, p, i, f, lo, Len(L))
    PROVE  Redoable(M, p, i, f, lo, Len(M))
<1>1. Redoable(M, p, i, f, lo, Len(L))
  BY RedoablePrefix, OneMoreFacts
<1>2. lo \in Nat /\ Len(L) \in Nat /\ Len(M) \in Nat /\ Len(L) <= Len(M) /\ lo <= Len(L) + 1
  BY OneMoreFacts
<1> QED BY <1>1, <1>2, RedoableUp

LEMMA PooledMore ==
    ASSUME NEW L, NEW M, NEW r, OneMore(L, M, r), NEW U, NEW V, NEW P, PoolTyped(P, Len(L)),
           NEW w, Pooled(L, U, P, w),
           \A p \in DOMAIN P, i \in Items : Doubtful(L, U, p, i) =>
               Doubtful(M, V, p, i) \/ Redoable(L, p, i, w[p], P[p].rec_lsn, Len(L))
    PROVE  Pooled(M, V, P, w)
<1> SUFFICES ASSUME NEW p \in DOMAIN P, NEW i \in Items, ~Doubtful(M, V, p, i)
             PROVE  Redoable(M, p, i, w[p], P[p].rec_lsn, Len(M))
  BY DEF Pooled
<1>1. Redoable(L, p, i, w[p], P[p].rec_lsn, Len(L))
  BY DEF Pooled
<1>2. P[p] \in Frame(Len(L)) /\ Len(L) \in Nat
  BY OneMoreFacts DEF PoolTyped
<1>3. P[p].rec_lsn \in 0..Len(L) + 1
  BY <1>2 DEF Frame
<1> QED BY <1>1, <1>3, RedoableMore

LEMMA TableMore ==
    ASSUME NEW L, NEW M, NEW r, OneMore(L, M, r), NEW T, NEW P, NEW w, NEW s, TableOK(T, L, P, w, s)
    PROVE  TableOK(T, M, P, w, s)
<1> SUFFICES ASSUME NEW p \in Pages, p \in DOMAIN T
             PROVE  /\ T[p] \in 0..Len(M)
                    /\ \A i \in Items : /\ Redoable(M, p, i, w[p], T[p], Len(M))
                                        /\ Redoable(M, p, i, s[p], T[p], Len(M))
  BY DEF TableOK
<1>1. /\ T[p] \in 0..Len(L)
      /\ \A i \in Items : /\ Redoable(L, p, i, w[p], T[p], Len(L))
                          /\ Redoable(L, p, i, s[p], T[p], Len(L))
  BY DEF TableOK
<1>2. T[p] \in 0..Len(L) + 1 /\ T[p] \in 0..Len(M)
  BY <1>1, OneMoreFacts
<1>3. \A i \in Items : /\ Redoable(M, p, i, w[p], T[p], Len(M))
                       /\ Redoable(M, p, i, s[p], T[p], Len(M))
  BY <1>1, <1>2, RedoableMore
<1> QED BY <1>2, <1>3

\* Open transactions have updates that move the items to be undone.
LEMMA TodoDoubtful ==
    ASSUME NEW L, LogOK(L), NEW t, NEW to, TodoTyped(to, L, t), t \in 0..Len(L), NEW lo, NEW ph,
           TodoOK(L, to, lo, ph), lo \subseteq Txns, NEW p, NEW i, TodoDoubt(L, to, p, i)
    PROVE  Doubtful(L, Open(L), p, i)
<1>1. PICK n \in to : L[n].page = p /\ Moves(L[n], i)
  BY DEF TodoDoubt
<1>2. n \in 1..t /\ L[n].type = "Update" /\ L[n].txn \in lo
  BY DEF TodoTyped, TodoOK
<1>3. n \in 1..Len(L)
  BY <1>2, LogLen
<1>4. L[n].txn \in Open(L)
  BY <1>2, <1>3 DEF Open, TodoOK
<1> QED BY <1>1, <1>2, <1>3, <1>4 DEF Doubtful, IsUpdate

-----------------------------------------------------------------------------
(* A transaction begins, commits or aborts; a checkpoint's record is written. *)

LEMMA InvFacts ==
    ASSUME RecoveryInv
    PROVE  /\ TypeInv /\ LogOK(log) /\ log \in Seq(Record) /\ Len(log) \in Nat /\ tail \in Nat
           /\ tail \in 0..Len(log)
           /\ LogTyped(log, tail, <<>>, last_ckpt) /\ PoolTyped(pool, Len(log))
           /\ TodoTyped(todo, log, tail) /\ todo \subseteq 1..Len(log) /\ losers \subseteq Txns
           /\ phase \in {"running", "crashed", "undo"}
           /\ phase = "running" => todo = {} /\ losers = {}
           /\ written \in [Pages -> SUBSET Items] /\ synced \in [Pages -> SUBSET Items]
           /\ txn \in [Txns -> {"new", "active", "committed", "aborted", "lost"}]
           /\ did \in [Txns \cup {AutoTxn} -> SUBSET Items] /\ AutoTxn \notin Txns
<1>1. TypeInv /\ LogOK(log)
  BY DEF RecoveryInv
<1>2. LogTyped(log, tail, <<>>, last_ckpt) /\ PoolTyped(pool, Len(log)) /\ TodoTyped(todo, log, tail)
  BY <1>1 DEF TypeInv, LogTyped
<1>3. log \in Seq(Record) /\ Len(log) \in Nat /\ tail \in Nat /\ tail \in 0..Len(log)
  BY <1>2 DEF LogTyped
<1>4. todo \subseteq 1..Len(log)
  BY <1>2, <1>3 DEF TodoTyped
<1>5. losers \subseteq Txns /\ phase \in {"running", "crashed", "undo"} /\ (phase = "running" => todo = {} /\ losers = {})
  BY DEF RecoveryInv, TypeInv, PhaseTyped, TodoOK
<1>6. /\ written \in [Pages -> SUBSET Items] /\ synced \in [Pages -> SUBSET Items]
      /\ txn \in [Txns -> {"new", "active", "committed", "aborted", "lost"}]
      /\ did \in [Txns \cup {AutoTxn} -> SUBSET Items]
  BY <1>1 DEF TypeInv, FilesTyped, HistoryTyped
<1> QED BY <1>1, <1>2, <1>3, <1>4, <1>5, <1>6, RecoveryAssumption

LEMMA ForcedOne ==
    ASSUME RecoveryInv, NEW r \in Record, AppendForced(r)
    PROVE  /\ OneMore(log, log', r) /\ tail' \in tail..Len(log') /\ tail' = Len(log')
           /\ tail' \in Nat /\ tail <= tail'
<1>1. log' = log \o <<r>> /\ tail' = Len(log') /\ GoesOn(log, tail, log', tail')
  BY ForcedGoesOn, InvFacts
<1>2. OneMore(log, log', r)
  BY <1>1, OneMoreIs, InvFacts
<1> QED BY <1>1, <1>2, InvFacts DEF GoesOn

LEMMA AppendOne ==
    ASSUME RecoveryInv, NEW r \in Record, AppendAll(<<r>>)
    PROVE  /\ OneMore(log, log', r) /\ tail' \in tail..Len(log') /\ tail' \in Nat /\ tail <= tail'
<1>0. <<r>> \in Seq(Record)
  BY One
<1>1. log' = log \o <<r>> /\ GoesOn(log, tail, log', tail')
  BY <1>0, AppendGoesOn, InvFacts
<1>2. OneMore(log, log', r)
  BY <1>1, OneMoreIs, InvFacts
<1> QED BY <1>1, <1>2, InvFacts DEF GoesOn

\* What needs no more than that the record is no change of a page.
LEMMA QuietRunning ==
    ASSUME RecoveryInv, phase = "running", phase' = "running",
           NEW r, OneMore(log, log', r), r.type \notin Changes,
           tail' \in tail..Len(log'), tail' \in Nat, tail <= tail', r.type \in {"Commit", "Abort"} => Len(log') <= tail',
           UNCHANGED <<pool, written, synced, last_ckpt, todo, losers>>, did'[AutoTxn] = did[AutoTxn],
           LogOK(log')
    PROVE  /\ EndsDurable(log', tail') /\ UpdatesDurable(log', tail', phase')
           /\ AutoItems(log', did')
           /\ Current(log', pool', written', todo', phase')
           /\ UndoneOK(log', todo', phase')
           /\ TodoOK(log', todo', losers', phase')
           /\ Compensated(log', todo', losers', pool', last_ckpt', phase')
           /\ Filed(log', Doubted(log', phase'), tail', last_ckpt', written', synced')
           /\ Pooled(log', Doubted(log', phase'), pool', written')
           /\ phase' = "running" => Flushed(log', pool', tail')
<1>0. todo = {} /\ losers = {} /\ r.type # "Update"
  BY InvFacts DEF Changes
<1>1. EndsDurable(log', tail')
  BY EndsDurableMore, InvFacts DEF RecoveryInv
<1>2. AutoItems(log', did')
  BY <1>0, AutoItemsMore DEF RecoveryInv
<1>3. Current(log', pool', written', todo', phase')
  <2>1. Current(log', pool, written, todo, phase)
    BY CurrentQuiet, InvFacts DEF RecoveryInv
  <2> QED BY <2>1
<1>4. Doubted(log, phase) = {} /\ Doubted(log', phase') = {}
  BY DEF Doubted
<1>5. Filed(log', {}, tail', last_ckpt, written, synced)
  <2>1. Filed(log, {}, tail, last_ckpt, written, synced)
    BY <1>4 DEF RecoveryInv
  <2>2. Filed(log', {}, tail, last_ckpt, written, synced)
    BY <2>1, FiledMore, NoDoubt, InvFacts
  <2>3. LogTyped(log', tail, <<>>, last_ckpt)
    <3>1. GoesOn(log, tail, log', tail)
      BY OneMoreFacts, InvFacts DEF GoesOn
    <3> QED BY <3>1, GoesOnTyped, InvFacts DEF TypeInv
  <2> QED BY <2>2, <2>3, FiledTail
<1>6. Pooled(log', {}, pool, written)
  <2>1. Pooled(log, {}, pool, written)
    BY <1>4 DEF RecoveryInv
  <2> QED BY <2>1, PooledMore, NoDoubt, InvFacts
<1>7. Flushed(log', pool, tail')
  BY FlushedQuiet, InvFacts DEF RecoveryInv
<1>8. TodoOK(log', todo', losers', phase')
  BY <1>0 DEF TodoOK
<1>9. UndoneOK(log', todo', phase') /\ Compensated(log', todo', losers', pool', last_ckpt', phase')
      /\ UpdatesDurable(log', tail', phase')
  BY DEF UndoneOK, Compensated, UpdatesDurable
<1> QED BY <1>1, <1>2, <1>3, <1>4, <1>5, <1>6, <1>7, <1>8, <1>9

LEMMA CkptQuiet ==
    ASSUME NEW L, NEW M, NEW r, OneMore(L, M, r), r.type \notin Changes,
           NEW c, NEW t \in 0..Len(L), CkptTyped(c, L, t), NEW P, NEW w, NEW s, NEW x, NEW y,
           CkptOK(c, L, P, w, s, x),
           c.pc = "att" => ActiveOf(x) \subseteq ActiveOf(y)
    PROVE  CkptOK(c, M, P, w, s, y)
<1>1. Open(M) \subseteq Open(L)
  <2>1. r.type # "Update"
    BY DEF Changes
  <2> QED BY <2>1, OpenSame, OpenEnded
<1>2. c.pc = "header" => TableOK(M[c.lsn].dpt, M, P, w, s)
  <2> SUFFICES ASSUME c.pc = "header" PROVE TableOK(M[c.lsn].dpt, M, P, w, s)
    OBVIOUS
  <2>1. c.lsn \in 1..Len(L)
    BY OneMoreFacts DEF CkptTyped
  <2>2. M[c.lsn] = L[c.lsn]
    BY <2>1, OneMoreFacts
  <2>3. TableOK(L[c.lsn].dpt, L, P, w, s)
    BY DEF CkptOK
  <2> QED BY <2>2, <2>3, TableMore
<1>3. c.pc = "header" => \A n \in c.lsn + 1..Len(M) : M[n].type \notin Changes
  <2> SUFFICES ASSUME c.pc = "header", NEW n \in c.lsn + 1..Len(M) PROVE M[n].type \notin Changes
    OBVIOUS
  <2>1. c.lsn \in Nat
    BY DEF CkptTyped
  <2>2. n = Len(M) \/ (n \in c.lsn + 1..Len(L) /\ n \in 1..Len(L))
    BY <2>1, OneMoreFacts
  <2> QED BY <2>2, OneMoreFacts DEF CkptOK
<1>4. c.pc \in {"dpt", "att"} => TableOK(c.dpt, M, P, w, s)
  BY TableMore DEF CkptOK
<1> QED BY <1>1, <1>2, <1>3, <1>4 DEF CkptOK

LEMMA ActiveIs == Active = ActiveOf(txn)
BY DEF Active, ActiveOf

LEMMA BeginInv ==
    ASSUME RecoveryInv, NEW t \in Txns, Begin(t), FreshIds
    PROVE  RecoveryInv'
<1> DEFINE r == [type |-> "Begin", txn |-> t]
<1>1. TypeInv'
  BY BeginTyped, InvFacts
<1>2. /\ AppendAll(<<r>>) /\ txn' = [txn EXCEPT ![t] = "active"] /\ txn[t] \notin {"active", "aborted"}
      /\ phase = "running"
      /\ UNCHANGED <<pool, written, synced, ckpt, last_ckpt, phase, todo, losers, crashes, did, base>>
  BY DEF Begin, Calls, fileVars, recoverVars
<1>3. txn[t] = "new" /\ txn'[t] = "active" /\ \A u \in Txns : u # t => txn'[u] = txn[u]
  BY <1>2, InvFacts DEF FreshIds
<1>4. r \in Record
  BY Records
<1>r. r.type = "Begin" /\ r.txn = t
  OBVIOUS
<1> HIDE DEF r
<1>5. OneMore(log, log', r) /\ tail' \in tail..Len(log') /\ tail' \in Nat /\ tail <= tail'
  BY <1>2, <1>4, AppendOne
<1>6. StatusOK(log, txn, did, phase)
  BY DEF RecoveryInv
<1>7. \A n \in 1..Len(log) : ~Names(log, n, t)
  BY <1>3, <1>6 DEF StatusOK
<1>8. \A n \in 1..Len(log) : ~IsEnd(log, n, t)
  BY <1>7 DEF Names, IsEnd
<1>9. LogOK(log')
  BY <1>5, <1>8, <1>r, TxnRecordOK, InvFacts
<1>10. Open(log') = Open(log)
  BY <1>5, <1>r, OpenSame
<1>11. StatusOK(log', txn', did', phase')
  <2> SUFFICES ASSUME NEW u \in Txns
               PROVE  /\ txn'[u] = "new" => \A n \in 1..Len(log') : ~Names(log', n, u)
                      /\ txn'[u] = "active" => \A n \in 1..Len(log') : ~IsEnd(log', n, u)
                      /\ u \in Open(log) => txn'[u] = "active"
                      /\ txn'[u] \in {"new", "committed", "lost"} => did[u] = {}
    BY <1>2, <1>10 DEF StatusOK
  <2>1. \A n \in 1..Len(log') : IsEnd(log', n, u) => n \in 1..Len(log) /\ IsEnd(log, n, u)
    BY <1>5, <1>r, OneMoreFacts DEF IsEnd
  <2>2. \A n \in 1..Len(log') : Names(log', n, u) => u = t \/ (n \in 1..Len(log) /\ Names(log, n, u))
    BY <1>5, <1>r, OneMoreFacts DEF Names
  <2>3. CASE u = t
    BY <1>3, <1>8, <2>1, <2>3
  <2>4. CASE u # t
    BY <1>2, <1>3, <1>6, <2>1, <2>2, <2>4 DEF StatusOK
  <2> QED BY <2>3, <2>4
<1>12. Meaning(log', txn', did', base', phase')
  <2> SUFFICES ASSUME NEW U \in SUBSET ActiveOf(txn') PROVE MeantFor(log', U, did, base)
    BY <1>2 DEF Meaning
  <2> DEFINE V == U \ {t}
  <2>1. V \subseteq ActiveOf(txn)
    BY <1>3 DEF ActiveOf
  <2>2. MeantFor(log, V, did, base)
    BY <1>2, <2>1 DEF RecoveryInv, Meaning
  <2>3. did[t] = {}
    BY <1>3, <1>6 DEF StatusOK
  <2>4. \A p : \A n \in 1..Len(log) : IsUpdate(log, n, p, U) <=> IsUpdate(log, n, p, V)
    <3>1. \A n \in 1..Len(log) : log[n].type = "Update" => log[n].txn # t
      BY <1>7 DEF Names
    <3> QED BY <3>1 DEF IsUpdate
  <2>5. \A p, i : Shows(log, U, p, Len(log), i) <=> Shows(log, V, p, Len(log), i)
    BY <2>4, ShowsLike, InvFacts
  <2>6. \A i : (\E u \in Txns \ U : i \in did[u]) <=> (\E u \in Txns \ V : i \in did[u])
    BY <2>3
  <2>7. MeantFor(log, U, did, base)
    <3> HIDE DEF V
    <3> QED BY <2>2, <2>5, <2>6 DEF MeantFor
  <2> QED BY <1>5, <1>r, <2>7, MeantQuiet DEF Changes
<1>13. CkptOK(ckpt', log', pool', written', synced', txn')
  <2>1. ActiveOf(txn) \subseteq ActiveOf(txn')
    BY <1>3 DEF ActiveOf
  <2>2. CkptTyped(ckpt, log, tail) /\ CkptOK(ckpt, log, pool, written, synced, txn)
    BY DEF RecoveryInv, TypeInv
  <2>3. CkptOK(ckpt, log', pool, written, synced, txn')
    BY <1>5, <1>r, <2>1, <2>2, CkptQuiet, InvFacts DEF Changes
  <2> QED BY <1>2, <2>3
<1>14. DidsApart(did')
  BY <1>2 DEF RecoveryInv
<1>15. /\ EndsDurable(log', tail') /\ UpdatesDurable(log', tail', phase')
       /\ AutoItems(log', did')
       /\ Current(log', pool', written', todo', phase')
       /\ UndoneOK(log', todo', phase')
       /\ TodoOK(log', todo', losers', phase')
       /\ Compensated(log', todo', losers', pool', last_ckpt', phase')
       /\ Filed(log', Doubted(log', phase'), tail', last_ckpt', written', synced')
       /\ Pooled(log', Doubted(log', phase'), pool', written')
       /\ phase' = "running" => Flushed(log', pool', tail')
  BY <1>2, <1>5, <1>9, <1>r, QuietRunning DEF Changes
<1> QED BY <1>1, <1>9, <1>11, <1>12, <1>13, <1>14, <1>15 DEF RecoveryInv

\* What Commit and Abort share.
LEMMA EndInv ==
    ASSUME RecoveryInv, NEW t \in Txns, NEW r \in Record, r.type \in {"Commit", "Abort"}, r.txn = t,
           AppendForced(r), phase = "running", t \in Active, QuietTxns,
           NEW v \in {"committed", "aborted"}, txn' = [txn EXCEPT ![t] = v],
           v = "committed" => did'[t] = {}, \A u \in Txns \cup {AutoTxn} : u # t => did'[u] = did[u],
           UNCHANGED <<pool, written, synced, ckpt, last_ckpt, phase, todo, losers>>
    PROVE  /\ OneMore(log, log', r) /\ LogOK(log')
           /\ StatusOK(log', txn', did', phase')
           /\ CkptOK(ckpt', log', pool', written', synced', txn')
           /\ EndsDurable(log', tail') /\ UpdatesDurable(log', tail', phase')
           /\ AutoItems(log', did')
           /\ Current(log', pool', written', todo', phase')
           /\ UndoneOK(log', todo', phase')
           /\ TodoOK(log', todo', losers', phase')
           /\ Compensated(log', todo', losers', pool', last_ckpt', phase')
           /\ Filed(log', Doubted(log', phase'), tail', last_ckpt', written', synced')
           /\ Pooled(log', Doubted(log', phase'), pool', written')
           /\ phase' = "running" => Flushed(log', pool', tail')
           /\ ActiveOf(txn') = ActiveOf(txn) \ {t}
<1>1. /\ OneMore(log, log', r) /\ tail' \in tail..Len(log') /\ tail' = Len(log')
      /\ tail' \in Nat /\ tail <= tail'
  BY ForcedOne
<1>2. txn[t] = "active" /\ txn'[t] = v /\ v # "active" /\ v # "new"
      /\ \A u \in Txns : u # t => txn'[u] = txn[u]
  BY InvFacts DEF Active
<1>3. StatusOK(log, txn, did, phase)
  BY DEF RecoveryInv
<1>4. \A n \in 1..Len(log) : ~IsEnd(log, n, t)
  BY <1>2, <1>3 DEF StatusOK
<1>5. LogOK(log')
  BY <1>1, <1>4, TxnRecordOK, InvFacts
<1>6. Open(log') = Open(log) \ {t}
  BY <1>1, OpenEnded
<1>7. StatusOK(log', txn', did', phase')
  <2> SUFFICES ASSUME NEW u \in Txns
               PROVE  /\ txn'[u] = "new" => \A n \in 1..Len(log') : ~Names(log', n, u)
                      /\ txn'[u] = "active" => \A n \in 1..Len(log') : ~IsEnd(log', n, u)
                      /\ u \in Open(log') => txn'[u] = "active"
                      /\ txn'[u] \in {"new", "committed", "lost"} => did'[u] = {}
    BY DEF StatusOK
  <2>1. \A n \in 1..Len(log') : IsEnd(log', n, u) => u = t \/ (n \in 1..Len(log) /\ IsEnd(log, n, u))
    BY <1>1, OneMoreFacts DEF IsEnd
  <2>2. \A n \in 1..Len(log') : Names(log', n, u) => u = t \/ (n \in 1..Len(log) /\ Names(log, n, u))
    BY <1>1, OneMoreFacts DEF Names
  <2>3. CASE u = t
    BY <1>2, <1>6, <2>3
  <2>4. CASE u # t
    <3>1. txn'[u] = txn[u] /\ did'[u] = did[u] /\ (u \in Open(log') => u \in Open(log))
      BY <1>2, <1>6, <2>4
    <3> QED BY <1>3, <2>1, <2>2, <2>4, <3>1 DEF StatusOK
  <2> QED BY <2>3, <2>4
<1>8. ActiveOf(txn') = ActiveOf(txn) \ {t}
  BY <1>2 DEF ActiveOf
<1>9. CkptOK(ckpt', log', pool', written', synced', txn')
  <2>1. ckpt.pc # "att"
    <3>1. ActiveIs'
      BY DEF Active, ActiveOf
    <3>2. ~(Active \subseteq Active')
      BY <1>8, <3>1, ActiveIs
    <3> QED BY <3>2 DEF QuietTxns
  <2>2. CkptTyped(ckpt, log, tail) /\ CkptOK(ckpt, log, pool, written, synced, txn)
    BY DEF RecoveryInv, TypeInv
  <2>3. CkptOK(ckpt, log', pool, written, synced, txn')
    BY <1>1, <2>1, <2>2, CkptQuiet, InvFacts DEF Changes
  <2> QED BY <2>3
<1>10. /\ EndsDurable(log', tail') /\ UpdatesDurable(log', tail', phase')
       /\ AutoItems(log', did')
       /\ Current(log', pool', written', todo', phase')
       /\ UndoneOK(log', todo', phase')
       /\ TodoOK(log', todo', losers', phase')
       /\ Compensated(log', todo', losers', pool', last_ckpt', phase')
       /\ Filed(log', Doubted(log', phase'), tail', last_ckpt', written', synced')
       /\ Pooled(log', Doubted(log', phase'), pool', written')
       /\ phase' = "running" => Flushed(log', pool', tail')
  <2>1. did'[AutoTxn] = did[AutoTxn]
    BY InvFacts
  <2>2. Len(log') <= tail' /\ r.type \notin Changes
    BY <1>1 DEF Changes
  <2> QED BY <1>1, <1>5, <2>1, <2>2, QuietRunning
<1> QED BY <1>1, <1>5, <1>7, <1>8, <1>9, <1>10

\* Only one caller's items change.
OthersKeep(d, e, t) == \A u \in Txns \cup {AutoTxn} : u # t => e[u] = d[u]

\* The items of s are in c if they are not in b.
Flipped(b, c, s) == c = (b \ s) \cup (s \ b)

LEMMA MeantEnded ==
    ASSUME NEW L, NEW U, NEW d, NEW b, NEW e, NEW c, NEW t \in Txns, t \notin U, MeantFor(L, U, d, b),
           DidsApart(d), AutoTxn \notin Txns, e[t] = {}, OthersKeep(d, e, t),
           Flipped(b, c, d[t])
    PROVE  MeantFor(L, U, e, c)
<1> SUFFICES ASSUME NEW i \in Items \ d[AutoTxn]
             PROVE  /\ \A p \in Pages, q \in Pages :
                          Shows(L, U, p, Len(L), i) /\ Shows(L, U, q, Len(L), i) => p = q
                    /\ (\E p \in Pages : Shows(L, U, p, Len(L), i))
                          <=> ~(i \in c <=> \E u \in Txns \ U : i \in e[u])
  <2>1. e[AutoTxn] = d[AutoTxn]
    BY DEF OthersKeep
  <2> QED BY <2>1 DEF MeantFor
<1> DEFINE X == \E p \in Pages : Shows(L, U, p, Len(L), i)
           E == \E u \in Txns \ U : i \in d[u]
           F == \E u \in Txns \ U : i \in e[u]
<1>1. /\ \A p \in Pages, q \in Pages :
             Shows(L, U, p, Len(L), i) /\ Shows(L, U, q, Len(L), i) => p = q
      /\ X <=> ~(i \in b <=> E)
  BY DEF MeantFor
<1>2. i \in d[t] => ~F
  <2> SUFFICES ASSUME i \in d[t], NEW u \in Txns \ U, i \in e[u] PROVE FALSE
    OBVIOUS
  <2>1. u # t /\ i \in d[u]
    BY DEF OthersKeep
  <2> QED BY <2>1 DEF DidsApart
<1>3. E <=> i \in d[t] \/ F
  <2>1. ASSUME E PROVE i \in d[t] \/ F
    <3>1. PICK u \in Txns \ U : i \in d[u]
      BY <2>1
    <3>2. u = t \/ e[u] = d[u]
      BY DEF OthersKeep
    <3> QED BY <3>1, <3>2
  <2>2. ASSUME F PROVE E
    <3>1. PICK u \in Txns \ U : i \in e[u]
      BY <2>2
    <3>2. u # t
      BY <3>1
    <3>3. e[u] = d[u]
      BY <3>2 DEF OthersKeep
    <3> QED BY <3>1, <3>3
  <2>3. i \in d[t] => E
    OBVIOUS
  <2> QED BY <2>1, <2>2, <2>3
<1>4. i \in c <=> ~(i \in b <=> i \in d[t])
  BY DEF Flipped
<1> HIDE DEF X, E, F
<1>5. X <=> ~(i \in c <=> F)
  BY <1>1, <1>2, <1>3, <1>4
<1> QED BY <1>1, <1>5 DEF X, F

LEMMA CommitInv ==
    ASSUME RecoveryInv, NEW t \in Txns, Commit(t), QuietTxns
    PROVE  RecoveryInv'
<1> DEFINE r == [type |-> "Commit", txn |-> t]
<1>1. TypeInv'
  BY EndTyped, InvFacts
<1>2. /\ AppendForced(r) /\ txn' = [txn EXCEPT ![t] = "committed"] /\ t \in Active
      /\ did' = [did EXCEPT ![t] = {}] /\ base' = (base \ did[t]) \cup (did[t] \ base)
      /\ phase = "running"
      /\ UNCHANGED <<pool, written, synced, ckpt, last_ckpt, phase, todo, losers, crashes>>
  BY DEF Commit, fileVars, recoverVars
<1>3. r \in Record /\ r.type \in {"Commit", "Abort"} /\ r.txn = t /\ r.type \notin Changes
  BY Records DEF Changes
<1> HIDE DEF r
<1>4. did'[t] = {} /\ \A u \in Txns \cup {AutoTxn} : u # t => did'[u] = did[u]
  BY <1>2, InvFacts
<1>5. /\ OneMore(log, log', r) /\ LogOK(log')
      /\ StatusOK(log', txn', did', phase')
      /\ CkptOK(ckpt', log', pool', written', synced', txn')
      /\ EndsDurable(log', tail') /\ UpdatesDurable(log', tail', phase')
      /\ AutoItems(log', did')
      /\ Current(log', pool', written', todo', phase')
      /\ UndoneOK(log', todo', phase')
      /\ TodoOK(log', todo', losers', phase')
      /\ Compensated(log', todo', losers', pool', last_ckpt', phase')
      /\ Filed(log', Doubted(log', phase'), tail', last_ckpt', written', synced')
      /\ Pooled(log', Doubted(log', phase'), pool', written')
      /\ phase' = "running" => Flushed(log', pool', tail')
      /\ ActiveOf(txn') = ActiveOf(txn) \ {t}
  BY <1>2, <1>3, <1>4, EndInv
<1>6. Meaning(log', txn', did', base', phase')
  <2> SUFFICES ASSUME NEW U \in SUBSET ActiveOf(txn') PROVE MeantFor(log', U, did', base')
    BY <1>2 DEF Meaning
  <2>1. U \subseteq ActiveOf(txn) /\ t \notin U
    BY <1>5
  <2>2. MeantFor(log, U, did, base)
    BY <1>2, <2>1 DEF RecoveryInv, Meaning
  <2>3. MeantFor(log, U, did', base')
    <3>1. OthersKeep(did, did', t) /\ DidsApart(did) /\ AutoTxn \notin Txns
      BY <1>4, InvFacts DEF OthersKeep, RecoveryInv
    <3>2. Flipped(base, base', did[t])
      BY <1>2 DEF Flipped
    <3> QED BY <1>4, <2>1, <2>2, <3>1, <3>2, MeantEnded
  <2> QED BY <1>3, <1>5, <2>3, MeantQuiet
<1>7. DidsApart(did')
  <2>1. DidsApart(did)
    BY DEF RecoveryInv
  <2> QED BY <1>4, <2>1 DEF DidsApart
<1> QED BY <1>1, <1>5, <1>6, <1>7 DEF RecoveryInv

LEMMA AbortInv ==
    ASSUME RecoveryInv, NEW t \in Txns, Abort(t), QuietTxns
    PROVE  RecoveryInv'
<1> DEFINE r == [type |-> "Abort", txn |-> t]
<1>1. TypeInv'
  BY EndTyped, InvFacts
<1>2. /\ AppendForced(r) /\ txn' = [txn EXCEPT ![t] = "aborted"] /\ t \in Active
      /\ phase = "running"
      /\ UNCHANGED <<pool, written, synced, ckpt, last_ckpt, phase, todo, losers, crashes, did, base>>
  BY DEF Abort, fileVars, recoverVars
<1>3. r \in Record /\ r.type \in {"Commit", "Abort"} /\ r.txn = t /\ r.type \notin Changes
  BY Records DEF Changes
<1> HIDE DEF r
<1>5. /\ OneMore(log, log', r) /\ LogOK(log')
      /\ StatusOK(log', txn', did', phase')
      /\ CkptOK(ckpt', log', pool', written', synced', txn')
      /\ EndsDurable(log', tail') /\ UpdatesDurable(log', tail', phase')
      /\ AutoItems(log', did')
      /\ Current(log', pool', written', todo', phase')
      /\ UndoneOK(log', todo', phase')
      /\ TodoOK(log', todo', losers', phase')
      /\ Compensated(log', todo', losers', pool', last_ckpt', phase')
      /\ Filed(log', Doubted(log', phase'), tail', last_ckpt', written', synced')
      /\ Pooled(log', Doubted(log', phase'), pool', written')
      /\ phase' = "running" => Flushed(log', pool', tail')
      /\ ActiveOf(txn') = ActiveOf(txn) \ {t}
  BY <1>2, <1>3, EndInv
<1>6. Meaning(log', txn', did', base', phase')
  <2> SUFFICES ASSUME NEW U \in SUBSET ActiveOf(txn') PROVE MeantFor(log', U, did, base)
    BY <1>2 DEF Meaning
  <2>1. U \subseteq ActiveOf(txn)
    BY <1>5
  <2>2. MeantFor(log, U, did, base)
    BY <1>2, <2>1 DEF RecoveryInv, Meaning
  <2> QED BY <1>3, <1>5, <2>2, MeantQuiet
<1>7. DidsApart(did')
  BY <1>2 DEF RecoveryInv
<1> QED BY <1>1, <1>5, <1>6, <1>7 DEF RecoveryInv

LEMMA WriteCheckpointInv ==
    ASSUME RecoveryInv, WriteCheckpoint
    PROVE  RecoveryInv'
<1> DEFINE r == [type |-> "Checkpoint", dpt |-> ckpt.dpt, att |-> ckpt.att]
<1>1. TypeInv'
  BY WriteCheckpointTyped, InvFacts
<1>2. /\ AppendForced(r) /\ ckpt.pc = "att" /\ ckpt' = [pc |-> "header", lsn |-> Len(log) + 1]
      /\ UNCHANGED <<pool, written, synced, last_ckpt, phase, todo, losers, crashes, txn, did, base>>
  BY DEF WriteCheckpoint, fileVars, recoverVars, historyVars
<1>3. phase = "running" /\ ckpt.dpt \in Table /\ ckpt.att \in SUBSET Txns
  <2>1. ckpt \in CkptStates /\ (ckpt # Quiet => phase = "running")
    BY DEF RecoveryInv, TypeInv, CkptTyped, PhaseTyped
  <2> QED BY <1>2, <2>1 DEF CkptStates, Quiet
<1>4. r \in Record /\ r.type = "Checkpoint" /\ r.dpt = ckpt.dpt /\ r.att = ckpt.att
  BY <1>3, Records
<1> HIDE DEF r
<1>5. /\ OneMore(log, log', r) /\ tail' \in tail..Len(log') /\ tail' = Len(log')
      /\ tail' \in Nat /\ tail <= tail'
  BY <1>2, <1>4, ForcedOne
<1>6. StatusOK(log, txn, did, phase) /\ CkptOK(ckpt, log, pool, written, synced, txn)
  BY DEF RecoveryInv
<1>7. /\ TableOK(ckpt.dpt, log, pool, written, synced)
      /\ Open(log) \subseteq ckpt.att /\ ckpt.att \subseteq ActiveOf(txn)
  BY <1>2, <1>6 DEF CkptOK
<1>8. LogOK(log')
  <2>1. \A p \in DOMAIN r.dpt : r.dpt[p] \in 0..Len(log)
    <3>1. DOMAIN ckpt.dpt \subseteq Pages
      BY <1>3 DEF Table
    <3> QED BY <1>4, <1>7, <3>1 DEF TableOK
  <2>2. \A t \in r.att : \A n \in 1..Len(log) : ~IsEnd(log, n, t)
    BY <1>4, <1>6, <1>7 DEF ActiveOf, StatusOK
  <2> QED BY <1>4, <1>5, <1>7, <2>1, <2>2, CheckpointOK, InvFacts
<1>9. Open(log') = Open(log)
  BY <1>4, <1>5, OpenSame
<1>10. StatusOK(log', txn', did', phase')
  <2>1. \A n \in 1..Len(log'), t \in Txns : /\ IsEnd(log', n, t) => n \in 1..Len(log) /\ IsEnd(log, n, t)
                                            /\ Names(log', n, t) =>
                                                  t \in ckpt.att \/ (n \in 1..Len(log) /\ Names(log, n, t))
    BY <1>4, <1>5, OneMoreFacts DEF IsEnd, Names
  <2>2. \A t \in ckpt.att : txn[t] = "active"
    BY <1>7 DEF ActiveOf
  <2> QED BY <1>2, <1>3, <1>6, <1>9, <2>1, <2>2 DEF StatusOK
<1>11. Meaning(log', txn', did', base', phase')
  <2> SUFFICES ASSUME NEW U \in SUBSET ActiveOf(txn) PROVE MeantFor(log', U, did, base)
    BY <1>2, <1>3 DEF Meaning
  <2>1. MeantFor(log, U, did, base)
    BY <1>3 DEF RecoveryInv, Meaning
  <2> QED BY <1>4, <1>5, <2>1, MeantQuiet DEF Changes
<1>12. CkptOK(ckpt', log', pool', written', synced', txn')
  <2>1. ckpt'.pc = "header" /\ ckpt'.lsn = Len(log') /\ log'[Len(log')].dpt = ckpt.dpt
    BY <1>2, <1>4, <1>5, OneMoreFacts
  <2>2. TableOK(ckpt.dpt, log', pool, written, synced)
    BY <1>5, <1>7, TableMore
  <2>3. Len(log') + 1..Len(log') = {}
    BY <1>5, OneMoreFacts
  <2> QED BY <1>2, <2>1, <2>2, <2>3 DEF CkptOK
<1>13. DidsApart(did')
  BY <1>2 DEF RecoveryInv
<1>14. /\ EndsDurable(log', tail') /\ UpdatesDurable(log', tail', phase')
       /\ AutoItems(log', did')
       /\ Current(log', pool', written', todo', phase')
       /\ UndoneOK(log', todo', phase')
       /\ TodoOK(log', todo', losers', phase')
       /\ Compensated(log', todo', losers', pool', last_ckpt', phase')
       /\ Filed(log', Doubted(log', phase'), tail', last_ckpt', written', synced')
       /\ Pooled(log', Doubted(log', phase'), pool', written')
       /\ phase' = "running" => Flushed(log', pool', tail')
  BY <1>2, <1>3, <1>4, <1>5, <1>8, QuietRunning DEF Changes
<1> QED BY <1>1, <1>8, <1>10, <1>11, <1>12, <1>13, <1>14 DEF RecoveryInv

-----------------------------------------------------------------------------
(* The steps of a checkpoint that leave the log alone. *)

\* What depends on neither the synced pages nor the checkpoints.
LEMMA CheckpointStep ==
    ASSUME RecoveryInv, phase = "running",
           UNCHANGED <<log, tail, pool, written, phase, todo, losers, txn, did, base>>
    PROVE  /\ LogOK(log') /\ StatusOK(log', txn', did', phase')
           /\ EndsDurable(log', tail') /\ UpdatesDurable(log', tail', phase')
           /\ AutoItems(log', did') /\ DidsApart(did')
           /\ Meaning(log', txn', did', base', phase')
           /\ Current(log', pool', written', todo', phase')
           /\ UndoneOK(log', todo', phase') /\ TodoOK(log', todo', losers', phase')
           /\ Compensated(log', todo', losers', pool', last_ckpt', phase')
           /\ Pooled(log', Doubted(log', phase'), pool', written')
           /\ phase' = "running" => Flushed(log', pool', tail')
<1>1. Compensated(log', todo', losers', pool', last_ckpt', phase')
  BY DEF Compensated
<1> QED BY <1>1 DEF RecoveryInv

LEMMA RunningFiled ==
    ASSUME RecoveryInv, phase = "running", NEW p \in Pages, NEW i \in Items
    PROVE  /\ Redoable(log, p, i, written[p], Start(log, last_ckpt, p), tail)
           /\ Redoable(log, p, i, synced[p], Start(log, last_ckpt, p), tail)
<1>1. Filed(log, {}, tail, last_ckpt, written, synced)
  BY DEF RecoveryInv, Doubted
<1> QED BY <1>1, NoDoubt DEF Filed

LEMMA RunningCurrent ==
    ASSUME RecoveryInv, phase = "running", NEW p \in Pages, NEW i \in Items
    PROVE  i \in DataIn(pool, written, p) <=> Shows(log, {}, p, Len(log), i)
<1>1. todo = {} /\ Current(log, pool, written, todo, phase)
  BY InvFacts DEF RecoveryInv
<1>2. ~TodoDoubt(log, {}, p, i)
  BY DEF TodoDoubt
<1> QED BY <1>1, <1>2 DEF Current

LEMMA SyncDataInv ==
    ASSUME RecoveryInv, SyncData
    PROVE  RecoveryInv'
<1>1. TypeInv'
  BY CheckpointTyped, InvFacts
<1>2. /\ synced' = written /\ ckpt' = [pc |-> "synced"] /\ phase = "running"
      /\ UNCHANGED <<log, tail, pool, written, last_ckpt, phase, todo, losers, txn, did, base>>
  BY DEF SyncData, Calls, walVars, recoverVars, historyVars
<1>3. Filed(log', Doubted(log', phase'), tail', last_ckpt', written', synced')
  <2>1. Filed(log, {}, tail, last_ckpt, written, written)
    BY <1>2, RunningFiled DEF Filed
  <2> QED BY <1>2, <2>1 DEF Doubted
<1>4. CkptOK(ckpt', log', pool', written', synced', txn')
  BY <1>2 DEF CkptOK
<1> QED BY <1>1, <1>2, <1>3, <1>4, CheckpointStep DEF RecoveryInv

LEMMA ReadDirtyPagesInv ==
    ASSUME RecoveryInv, ReadDirtyPages, QuietPool
    PROVE  RecoveryInv'
<1>1. TypeInv'
  BY CheckpointTyped, InvFacts
<1> DEFINE T == [p \in DOMAIN pool |-> pool[p].rec_lsn]
<1>2. /\ ckpt' = [pc |-> "dpt", dpt |-> [p \in DOMAIN pool \ leaving |-> pool[p].rec_lsn]]
      /\ ckpt.pc = "synced"
      /\ UNCHANGED <<log, tail, pool, written, synced, last_ckpt, phase, todo, losers, txn, did, base>>
  BY DEF ReadDirtyPages, walVars, fileVars, recoverVars, historyVars
<1>3. phase = "running"
  <2>1. ckpt # Quiet
    BY <1>2 DEF Quiet
  <2> QED BY <2>1 DEF RecoveryInv, TypeInv, PhaseTyped
<1>8. ckpt' = [pc |-> "dpt", dpt |-> T]
  <2>1. leaving = {}
    BY <1>2, <1>3 DEF QuietPool
  <2>2. DOMAIN pool \ leaving = DOMAIN pool
    BY <2>1
  <2> QED BY <1>2, <2>2
<1>4. synced = written
  BY <1>2 DEF RecoveryInv, CkptOK
<1>5. TableOK(T, log, pool, written, synced)
  <2> SUFFICES ASSUME NEW p \in Pages, p \in DOMAIN pool
               PROVE  /\ pool[p].rec_lsn \in 0..Len(log)
                      /\ \A i \in Items : Redoable(log, p, i, written[p], pool[p].rec_lsn, Len(log))
    BY <1>4 DEF TableOK
  <2>1. pool[p] \in Frame(Len(log))
    BY InvFacts DEF PoolTyped
  <2>2. Pooled(log, {}, pool, written)
    BY <1>3 DEF RecoveryInv, Doubted
  <2> QED BY <2>1, <2>2, NoDoubt DEF Frame, Pooled
<1> HIDE DEF T
<1>6. CkptOK(ckpt', log', pool', written', synced', txn')
  BY <1>2, <1>5, <1>8 DEF CkptOK
<1>7. Filed(log', Doubted(log', phase'), tail', last_ckpt', written', synced')
  BY <1>2 DEF RecoveryInv
<1> QED BY <1>1, <1>2, <1>3, <1>6, <1>7, CheckpointStep DEF RecoveryInv

LEMMA ReadActiveTxnsInv ==
    ASSUME RecoveryInv, ReadActiveTxns
    PROVE  RecoveryInv'
<1>1. TypeInv'
  BY CheckpointTyped, InvFacts
<1>2. /\ ckpt' = [pc |-> "att", dpt |-> ckpt.dpt, att |-> Active] /\ ckpt.pc = "dpt"
      /\ UNCHANGED <<log, tail, pool, written, synced, last_ckpt, phase, todo, losers, txn, did, base>>
  BY DEF ReadActiveTxns, walVars, fileVars, recoverVars, historyVars
<1>3. phase = "running"
  <2>1. ckpt # Quiet
    BY <1>2 DEF Quiet
  <2> QED BY <2>1 DEF RecoveryInv, TypeInv, PhaseTyped
<1>4. TableOK(ckpt.dpt, log, pool, written, synced)
  BY <1>2 DEF RecoveryInv, CkptOK
<1>5. Open(log) \subseteq Active
  <2>1. StatusOK(log, txn, did, phase)
    BY DEF RecoveryInv
  <2>2. Open(log) \subseteq Txns
    BY DEF Open
  <2> QED BY <1>3, <2>1, <2>2 DEF StatusOK, Active
<1>6. CkptOK(ckpt', log', pool', written', synced', txn')
  BY <1>2, <1>4, <1>5, ActiveIs DEF CkptOK
<1>7. Filed(log', Doubted(log', phase'), tail', last_ckpt', written', synced')
  BY <1>2 DEF RecoveryInv
<1> QED BY <1>1, <1>2, <1>3, <1>6, <1>7, CheckpointStep DEF RecoveryInv

LEMMA SetCheckpointInv ==
    ASSUME RecoveryInv, SetCheckpoint
    PROVE  RecoveryInv'
<1>1. TypeInv'
  BY CheckpointTyped, InvFacts
<1>2. /\ last_ckpt' = ckpt.lsn /\ ckpt' = Quiet /\ ckpt.pc = "header"
      /\ UNCHANGED <<log, tail, pool, written, synced, phase, todo, losers, txn, did, base>>
  BY DEF SetCheckpoint, walVars, fileVars, recoverVars, historyVars
<1>3. phase = "running"
  <2>1. ckpt # Quiet
    BY <1>2 DEF Quiet
  <2> QED BY <2>1 DEF RecoveryInv, TypeInv, PhaseTyped
<1> DEFINE c == ckpt.lsn
           T == log[c].dpt
<1>4. /\ TableOK(T, log, pool, written, synced)
      /\ \A n \in c + 1..Len(log) : log[n].type \notin Changes
  BY <1>2 DEF RecoveryInv, CkptOK
<1>5. c \in 1..tail /\ log[c].type = "Checkpoint"
  BY <1>2 DEF RecoveryInv, TypeInv, CkptTyped
<1> HIDE DEF c
<1>6. c # 0 /\ c \in Nat /\ c \in 1..Len(log) /\ tail \in Nat /\ Len(log) \in Nat /\ tail <= Len(log)
  BY <1>5, InvFacts
<1>7. \A p : \A n \in tail + 1..Len(log) : ~IsChange(log, n, p)
  <2>1. \A n \in tail + 1..Len(log) : n \in c + 1..Len(log)
    BY <1>5, <1>6
  <2> QED BY <1>4, <2>1 DEF IsChange
<1>8. ASSUME NEW p \in Pages, NEW i \in Items
      PROVE  /\ Redoable(log, p, i, written[p], Start(log, c, p), tail)
             /\ Redoable(log, p, i, synced[p], Start(log, c, p), tail)
  <2>1. CASE p \in DOMAIN T
    <3>1. /\ T[p] \in 0..Len(log)
          /\ Redoable(log, p, i, written[p], T[p], Len(log))
          /\ Redoable(log, p, i, synced[p], T[p], Len(log))
      BY <1>4, <2>1 DEF TableOK
    <3>2. Start(log, c, p) = T[p] /\ T[p] \in Nat
      BY <1>6, <2>1, <3>1 DEF Start
    <3> HIDE DEF T
    <3> QED BY <1>6, <1>7, <3>1, <3>2, RedoableDown
  <2>2. CASE p \notin DOMAIN T
    <3>1. p \notin DOMAIN pool /\ synced[p] = written[p]
      BY <1>4, <2>2 DEF TableOK
    <3>2. Start(log, c, p) = c + 1 /\ c + 1 \in Nat
      BY <1>6, <2>2 DEF Start
    <3>3. i \in written[p] <=> Shows(log, {}, p, Len(log), i)
      BY <1>3, <3>1, RunningCurrent DEF DataIn
    <3>4. Redoable(log, p, i, written[p], c + 1, Len(log))
      BY <3>3 DEF Redoable
    <3>5. Redoable(log, p, i, written[p], c + 1, tail)
      BY <1>6, <1>7, <3>2, <3>4, RedoableDown
    <3> QED BY <3>1, <3>2, <3>5
  <2> QED BY <2>1, <2>2
<1>9. Filed(log', Doubted(log', phase'), tail', last_ckpt', written', synced')
  <2>1. Filed(log, Doubted(log, phase), tail, c, written, synced)
    BY <1>8 DEF Filed
  <2> QED BY <1>2, <2>1 DEF c
<1>10. CkptOK(ckpt', log', pool', written', synced', txn')
  BY <1>2 DEF CkptOK, Quiet
<1> QED BY <1>1, <1>2, <1>3, <1>9, <1>10, CheckpointStep DEF RecoveryInv
-----------------------------------------------------------------------------
(* A page is evicted. *)

\* What recovery is still to undo, or has not yet ended, is in doubt.
LEMMA DoubtOr ==
    ASSUME RecoveryInv, phase # "crashed", NEW p \in Pages, NEW i \in Items,
           ~Doubtful(log, Doubted(log, phase), p, i)
    PROVE  /\ i \in DataIn(pool, written, p) <=> Shows(log, {}, p, Len(log), i)
           /\ phase = "undo" =>
                (Shows(log, {}, p, Len(log), i) <=> Shows(log, Open(log), p, Len(log), i))
<1>1. ~TodoDoubt(log, todo, p, i)
  <2>1. CASE phase = "running"
    BY <2>1, InvFacts DEF TodoDoubt
  <2>2. CASE phase # "running"
    <3>1. ~Doubtful(log, Open(log), p, i)
      BY <2>2 DEF Doubted
    <3> QED BY <3>1, TodoDoubtful, InvFacts DEF RecoveryInv
  <2> QED BY <2>1, <2>2
<1> QED BY <1>1 DEF RecoveryInv, Current, UndoneOK

LEMMA EvictInv ==
    ASSUME RecoveryInv, LeavingTyped, NEW p \in Pages, Evict(p), QuietPool
    PROVE  RecoveryInv'
<1> DEFINE data == pool[p].data
<1>1. TypeInv'
  BY EvictTyped, InvFacts
<1>2. /\ UNCHANGED log /\ FlushTo(pool[p].page_lsn) /\ p \in DOMAIN pool /\ phase # "crashed"
      /\ written' = [written EXCEPT ![p] = data]
      /\ pool' = [q \in DOMAIN pool \ {p} |-> pool[q]]
      /\ UNCHANGED <<synced, ckpt, last_ckpt, phase, todo, losers, txn, did, base>>
  BY EvictedPage DEF Evict, EvictLsn, recoverVars, historyVars
<1>3. pool[p] \in Frame(Len(log))
  BY <1>2, InvFacts DEF PoolTyped
<1>4. pool[p].page_lsn \in 0..Len(log) /\ pool[p].rec_lsn \in 0..Len(log) /\ data = DataIn(pool, written, p)
  BY <1>2, <1>3 DEF Frame, DataIn
<1>5. tail' \in tail..Len(log) /\ pool[p].page_lsn <= tail' /\ tail' \in Nat /\ tail <= tail' /\ tail' \in 0..Len(log)
  <2>1. pool[p].page_lsn \in Nat /\ pool[p].page_lsn <= Len(log)
    BY <1>4
  <2>2. GoesOn(log, tail, log', tail') /\ (pool[p].page_lsn <= Len(log) => pool[p].page_lsn <= tail')
    BY <1>2, <2>1, FlushGoesOn, InvFacts
  <2> QED BY <1>2, <2>1, <2>2, InvFacts DEF GoesOn
<1>6. written'[p] = data /\ \A q \in Pages : q # p => written'[q] = written[q]
  BY <1>2, InvFacts
<1>7. DOMAIN pool' = DOMAIN pool \ {p} /\ \A q \in DOMAIN pool' : pool'[q] = pool[q] /\ q # p
  BY <1>2
<1> HIDE DEF data
<1>8. \A q \in Pages : DataIn(pool', written', q) = DataIn(pool, written, q)
  BY <1>4, <1>6, <1>7 DEF DataIn
<1>9. Current(log', pool', written', todo', phase')
  BY <1>2, <1>8 DEF RecoveryInv, Current
<1>10. EndsDurable(log', tail') /\ UpdatesDurable(log', tail', phase')
  <2>1. \A n \in 1..Len(log) : n <= tail => n <= tail'
    BY <1>5, InvFacts
  <2> QED BY <1>2, <2>1 DEF RecoveryInv, EndsDurable, UpdatesDurable
<1>11. Compensated(log', todo', losers', pool', last_ckpt', phase')
  BY <1>2, <1>7 DEF RecoveryInv, Compensated
\* The page as it is written is what the durable log says, or in doubt.
<1>12. ASSUME NEW i \in Items, ~Doubtful(log, Doubted(log, phase), p, i)
       PROVE  i \in data <=> Shows(log, {}, p, tail', i)
  <2>1. /\ i \in data <=> Shows(log, {}, p, Len(log), i)
        /\ phase = "undo" => (Shows(log, {}, p, Len(log), i) <=> Shows(log, Open(log), p, Len(log), i))
    BY <1>2, <1>4, <1>12, DoubtOr
  <2>2. CASE phase = "running"
    <3>1. \A n \in tail' + 1..Len(log) : ~IsChange(log, n, p)
      <4> SUFFICES ASSUME NEW n \in tail' + 1..Len(log), IsChange(log, n, p) PROVE FALSE
        OBVIOUS
      <4>1. n \in 1..Len(log) /\ ~(n <= tail) /\ ~(n <= pool[p].page_lsn)
        BY <1>4, <1>5, InvFacts
      <4> QED BY <2>2, <4>1 DEF RecoveryInv, Flushed
    <3>2. Shows(log, {}, p, Len(log), i) <=> Shows(log, {}, p, tail', i)
      <4>1. tail' \in Nat /\ Len(log) \in Nat /\ tail' <= Len(log)
        BY <1>5, InvFacts
      <4>2. \A n \in tail' + 1..Len(log) : ~Counted(log, {}, p, n) \/ Keeps(log[n], i)
        BY <3>1, CountedAll
      <4> QED BY <4>1, <4>2, ShowsUncounted
    <3> QED BY <2>1, <3>2
  <2>3. CASE phase = "undo"
    <3>1. \A n \in tail' + 1..Len(log) : ~Counted(log, Open(log), p, n)
      <4>1. /\ \A m \in 1..Len(log) : log[m].type = "Update" => m <= tail'
            /\ \A m \in 1..Len(log) : \A u \in Txns : IsEnd(log, m, u) => m <= tail'
        BY <1>2, <1>10, <2>3 DEF EndsDurable, UpdatesDurable
      <4> QED BY <1>5, <4>1, TailLeftOut, InvFacts
    <3>2. Shows(log, Open(log), p, Len(log), i) <=> Shows(log, Open(log), p, tail', i)
      <4> DEFINE U == Open(log)
      <4>1. tail' \in Nat /\ Len(log) \in Nat /\ tail' <= Len(log)
        BY <1>5, InvFacts
      <4>2. \A n \in tail' + 1..Len(log) : ~Counted(log, U, p, n) \/ Keeps(log[n], i)
        BY <3>1
      <4> HIDE DEF U
      <4>3. Shows(log, U, p, Len(log), i) <=> Shows(log, U, p, tail', i)
        BY <4>1, <4>2, ShowsUncounted
      <4> QED BY <4>3 DEF U
    <3>3. Shows(log, {}, p, tail', i) <=> Shows(log, Open(log), p, tail', i)
      <4>1. \A n \in 1..tail' : IsUpdate(log, n, p, Open(log)) => ~Moves(log[n], i)
        <5>1. \A n \in 1..tail' : n \in 1..Len(log)
          BY <1>5, InvFacts
        <5>2. ~Doubtful(log, Open(log), p, i)
          BY <1>12, <2>3 DEF Doubted
        <5> QED BY <5>1, <5>2 DEF Doubtful
      <4> QED BY <1>5, <4>1, Untouched, InvFacts
    <3> QED BY <2>1, <2>3, <3>2, <3>3
  <2> QED BY <1>2, <2>2, <2>3, InvFacts
<1>13. Filed(log', Doubted(log', phase'), tail', last_ckpt', written', synced')
  <2>1. Filed(log, Doubted(log, phase), tail', last_ckpt, written, synced)
    BY <1>5, FiledTail, InvFacts DEF RecoveryInv
  <2>2. Filed(log, Doubted(log, phase), tail', last_ckpt, written', synced)
    <3> SUFFICES ASSUME NEW q \in Pages, NEW i \in Items, ~Doubtful(log, Doubted(log, phase), q, i)
                 PROVE  Redoable(log, q, i, written'[q], Start(log, last_ckpt, q), tail')
      BY <2>1 DEF Filed
    <3>1. CASE q = p
      BY <1>6, <1>12, <3>1 DEF Redoable
    <3>2. CASE q # p
      BY <1>6, <2>1, <3>2 DEF Filed
    <3> QED BY <3>1, <3>2
  <2> QED BY <1>2, <2>2
<1>14. Pooled(log', Doubted(log', phase'), pool', written')
  <2>1. Pooled(log, Doubted(log, phase), pool, written)
    BY DEF RecoveryInv
  <2>2. DOMAIN pool \subseteq Pages
    BY InvFacts DEF PoolTyped
  <2> QED BY <1>2, <1>6, <1>7, <2>1, <2>2 DEF Pooled
<1>15. phase' = "running" => Flushed(log', pool', tail')
  <2> SUFFICES ASSUME phase = "running", NEW q \in Pages, NEW n \in 1..Len(log), IsChange(log, n, q)
               PROVE  n <= tail' \/ (q \in DOMAIN pool' /\ n <= pool'[q].page_lsn)
    BY <1>2 DEF Flushed
  <2>1. n <= tail \/ (q \in DOMAIN pool /\ n <= pool[q].page_lsn)
    BY DEF RecoveryInv, Flushed
  <2>2. CASE n <= tail
    BY <1>5, <2>2, InvFacts
  <2>3. CASE q = p /\ n <= pool[p].page_lsn
    BY <1>4, <1>5, <2>3, InvFacts
  <2>4. CASE q # p /\ q \in DOMAIN pool /\ n <= pool[q].page_lsn
    BY <1>7, <2>4
  <2> QED BY <2>1, <2>2, <2>3, <2>4
<1>16. CkptOK(ckpt', log', pool', written', synced', txn')
  <2>1. CkptOK(ckpt, log, pool, written, synced, txn)
    BY DEF RecoveryInv
  <2>2. ckpt.pc = "synced" => synced = written'
    <3> SUFFICES ASSUME ckpt.pc = "synced" PROVE synced = written'
      OBVIOUS
    <3>1. written' = written
      <4>1. phase' # "crashed"
        BY <1>2
      <4> QED BY <4>1 DEF QuietPool
    <3> QED BY <2>1, <3>1 DEF CkptOK
  <2>3. ASSUME NEW T, TableOK(T, log, pool, written, synced), phase = "running"
        PROVE  TableOK(T, log, pool', written', synced)
    <3> SUFFICES ASSUME NEW q \in Pages
                 PROVE  /\ q \notin DOMAIN T => q \notin DOMAIN pool' /\ synced[q] = written'[q]
                        /\ q \in DOMAIN T => \A i \in Items : Redoable(log, q, i, written'[q], T[q], Len(log))
      BY <2>3 DEF TableOK
    <3>1. CASE q # p
      BY <1>6, <1>7, <2>3, <3>1 DEF TableOK
    <3>2. CASE q = p
      <4>1. q \in DOMAIN T
        BY <1>2, <2>3, <3>2 DEF TableOK
      <4>2. \A i \in Items : i \in written'[q] <=> Shows(log, {}, q, Len(log), i)
        BY <1>4, <1>6, <2>3, <3>2, RunningCurrent
      <4> QED BY <4>1, <4>2 DEF Redoable
    <3> QED BY <3>1, <3>2
  <2>4. ckpt.pc \in {"dpt", "att", "header"} => phase = "running"
    <3>1. ckpt # Quiet => phase = "running"
      BY DEF RecoveryInv, TypeInv, PhaseTyped
    <3> QED BY <3>1 DEF Quiet
  <2>5. ckpt.pc \in {"dpt", "att"} => TableOK(ckpt.dpt, log, pool', written', synced)
    BY <2>1, <2>3, <2>4 DEF CkptOK
  <2>6. ckpt.pc = "header" => TableOK(log[ckpt.lsn].dpt, log, pool', written', synced)
    BY <2>1, <2>3, <2>4 DEF CkptOK
  <2> QED BY <1>2, <2>1, <2>2, <2>5, <2>6 DEF CkptOK
<1>17. /\ LogOK(log') /\ StatusOK(log', txn', did', phase')
       /\ AutoItems(log', did') /\ DidsApart(did')
       /\ Meaning(log', txn', did', base', phase')
       /\ UndoneOK(log', todo', phase') /\ TodoOK(log', todo', losers', phase')
  BY <1>2 DEF RecoveryInv
<1> QED BY <1>1, <1>9, <1>10, <1>11, <1>13, <1>14, <1>15, <1>16, <1>17 DEF RecoveryInv

-----------------------------------------------------------------------------
(* Recovery aborts a loser, and ends. *)

\* What is undone has a CLR that redo would apply, wherever it starts.
LEMMA CompensatedRedo ==
    ASSUME RecoveryInv, phase = "undo", NEW p \in Pages, NEW i \in Items,
           NEW m \in 1..Len(log), log[m].type = "Update", log[m].page = p, Moves(log[m], i),
           log[m].txn \in losers, m \notin todo
    PROVE  /\ \A f : Redoable(log, p, i, f, Start(log, last_ckpt, p), Len(log))
           /\ p \in DOMAIN pool => \A f : Redoable(log, p, i, f, pool[p].rec_lsn, Len(log))
<1>1. PICK n \in last_ckpt + 1..Len(log) :
          /\ log[n].type = "Clr" /\ Mirror(log, n, m)
          /\ log[m].page \in DOMAIN pool => n >= pool[log[m].page].rec_lsn
  BY DEF RecoveryInv, Compensated
<1>2. IsChange(log, n, p) /\ ~Keeps(log[n], i)
  BY <1>1 DEF IsChange, Changes, Mirror, Moves, Keeps
<1>3. /\ last_ckpt \in Nat /\ Start(log, last_ckpt, p) \in Nat
      /\ Start(log, last_ckpt, p) <= last_ckpt + 1
  BY StartFacts, InvFacts DEF LogTyped
<1>4. n \in 1..Len(log) /\ n >= Start(log, last_ckpt, p)
  BY <1>1, <1>3, InvFacts
<1> QED BY <1>1, <1>2, <1>4 DEF Redoable

\* No checkpoint is in progress while recovery runs.
LEMMA NoCheckpoint ==
    ASSUME RecoveryInv, phase # "running", NEW L, NEW P, NEW w, NEW s, NEW x
    PROVE  ckpt = Quiet /\ CkptOK(ckpt, L, P, w, s, x)
<1>1. ckpt = Quiet
  BY DEF RecoveryInv, TypeInv, PhaseTyped
<1>2. ckpt.pc = "idle"
  BY <1>1 DEF Quiet
<1> QED BY <1>1, <1>2 DEF CkptOK

LEMMA AbortLoserInv ==
    ASSUME RecoveryInv, NEW t \in Txns, AbortLoser(t)
    PROVE  RecoveryInv'
<1> DEFINE r == [type |-> "Abort", txn |-> t]
<1>1. TypeInv'
  BY AbortLoserTyped, InvFacts
<1>2. /\ AppendForced(r) /\ phase = "undo" /\ todo = {} /\ t \in losers /\ losers' = losers \ {t}
      /\ UNCHANGED <<pool, written, synced, ckpt, last_ckpt, phase, todo, crashes, txn, did, base>>
  BY DEF AbortLoser, fileVars, historyVars
<1>3. r \in Record /\ r.type = "Abort" /\ r.txn = t /\ r.type \notin Changes
  BY Records DEF Changes
<1> HIDE DEF r
<1>4. /\ OneMore(log, log', r) /\ tail' \in tail..Len(log') /\ tail' = Len(log')
      /\ tail' \in Nat /\ tail <= tail'
  BY <1>2, <1>3, ForcedOne
<1>5. TodoOK(log, {}, losers, "undo") /\ StatusOK(log, txn, did, "undo")
  BY <1>2 DEF RecoveryInv
<1>6. /\ \A n \in 1..Len(log) : ~IsEnd(log, n, t)
      /\ Open(log) \subseteq losers /\ \E n \in 1..Len(log) : Names(log, n, t)
  BY <1>2, <1>5 DEF TodoOK
<1>7. LogOK(log')
  BY <1>3, <1>4, <1>6, TxnRecordOK, InvFacts
<1>8. Open(log') = Open(log) \ {t}
  BY <1>3, <1>4, OpenEnded
<1>9. \A n \in 1..Len(log), u \in Txns : /\ IsEnd(log', n, u) <=> IsEnd(log, n, u)
                                         /\ Names(log', n, u) <=> Names(log, n, u)
  BY <1>4, OneMoreFacts DEF IsEnd, Names
<1>10. \A u \in Txns : u # t => ~IsEnd(log', Len(log'), u) /\ ~Names(log', Len(log'), u)
  BY <1>3, <1>4, OneMoreFacts DEF IsEnd, Names
<1>11. StatusOK(log', txn', did', phase')
  <2>1. txn[t] # "new"
    BY <1>5, <1>6 DEF StatusOK
  <2>2. \A u \in Txns : txn[u] = "new" => \A n \in 1..Len(log') : ~Names(log', n, u)
    BY <1>4, <1>5, <1>9, <1>10, <2>1, OneMoreFacts DEF StatusOK
  <2> QED BY <1>2, <1>5, <1>8, <2>2 DEF StatusOK
<1>12. EndsDurable(log', tail') /\ UpdatesDurable(log', tail', phase')
  <2>1. EndsDurable(log, tail) /\ Len(log') <= tail'
    BY <1>4 DEF RecoveryInv
  <2>2. EndsDurable(log', tail')
    BY <1>4, <2>1, EndsDurableMore, InvFacts
  <2> QED BY <1>4, <2>2 DEF UpdatesDurable
<1>13. AutoItems(log', did')
  <2>1. AutoItems(log, did) /\ did[AutoTxn] \subseteq did'[AutoTxn]
    BY <1>2 DEF RecoveryInv
  <2> QED BY <1>3, <1>4, <2>1, AutoItemsMore
\* The page of the loser is as if it had not been.
<1>14. ASSUME NEW p \in Pages, NEW i \in Items
       PROVE  Shows(log', Open(log'), p, Len(log'), i) <=> Shows(log, Open(log), p, Len(log), i)
  <2> DEFINE U == Open(log)
             V == Open(log')
  <2>1. Shows(log', V, p, Len(log'), i) <=> Shows(log, V, p, Len(log), i)
    BY <1>3, <1>4, ElsewhereShows
  <2>2. CASE \E n \in 1..Len(log) : IsUpdate(log, n, p, U) /\ log[n].txn = t
    <3>1. \A n \in 1..Len(log) : IsUpdate(log, n, p, U) => log[n].txn = t
      BY <2>2, OneOpen, InvFacts
    <3>2. \A n \in 1..Len(log) : ~IsUpdate(log, n, p, V)
      BY <1>8, <3>1 DEF IsUpdate
    <3>3. Shows(log, {}, p, Len(log), i) <=> Shows(log, U, p, Len(log), i)
      BY <1>2 DEF RecoveryInv, UndoneOK, TodoDoubt
    <3> HIDE DEF U, V
    <3>4. Shows(log, V, p, Len(log), i) <=> Shows(log, {}, p, Len(log), i)
      BY <3>2, ShowsAll, InvFacts
    <3> QED BY <2>1, <3>3, <3>4 DEF U, V
  <2>3. CASE ~\E n \in 1..Len(log) : IsUpdate(log, n, p, U) /\ log[n].txn = t
    <3>1. \A n \in 1..Len(log) : IsUpdate(log, n, p, U) <=> IsUpdate(log, n, p, V)
      BY <1>8, <2>3 DEF IsUpdate
    <3> HIDE DEF U, V
    <3>2. Shows(log, U, p, Len(log), i) <=> Shows(log, V, p, Len(log), i)
      BY <3>1, ShowsLike, InvFacts
    <3> QED BY <2>1, <3>2 DEF U, V
  <2> QED BY <2>2, <2>3
<1>15. Meaning(log', txn', did', base', phase')
  <2>1. MeantFor(log, Open(log), did, base)
    BY <1>2 DEF RecoveryInv, Meaning
  <2>2. \A i : (\E u \in Txns \ Open(log) : i \in did[u]) <=> (\E u \in Txns \ Open(log') : i \in did[u])
    <3>1. t \in Open(log) => did[t] = {}
      BY <1>5 DEF StatusOK
    <3> QED BY <1>8, <3>1
  <2>3. MeantFor(log', Open(log'), did, base)
    BY <1>14, <2>1, <2>2 DEF MeantFor
  <2> QED BY <1>2, <2>3 DEF Meaning
<1>16. Current(log', pool', written', todo', phase')
  <2>1. Current(log, pool, written, todo, phase)
    BY DEF RecoveryInv
  <2>2. Current(log', pool, written, todo, phase)
    BY <1>3, <1>4, <2>1, CurrentQuiet, InvFacts
  <2> QED BY <1>2, <2>2
<1>17. UndoneOK(log', todo', phase')
  <2>1. \A p, i : Shows(log', {}, p, Len(log'), i) <=> Shows(log, {}, p, Len(log), i)
    BY <1>3, <1>4, ElsewhereShows
  <2>2. \A p \in Pages, i \in Items :
           Shows(log, {}, p, Len(log), i) <=> Shows(log, Open(log), p, Len(log), i)
    BY <1>2 DEF RecoveryInv, UndoneOK, TodoDoubt
  <2> QED BY <1>14, <2>1, <2>2 DEF UndoneOK
<1>18. TodoOK(log', todo', losers', phase')
  <2>1. \A u \in losers' : \A n \in 1..Len(log') : ~IsEnd(log', n, u)
    BY <1>2, <1>4, <1>5, <1>9, <1>10, OneMoreFacts, InvFacts DEF TodoOK
  <2>2. \A u \in losers' : \E n \in 1..Len(log') : Names(log', n, u)
    BY <1>2, <1>4, <1>5, <1>9, OneMoreFacts, InvFacts DEF TodoOK
  <2> QED BY <1>2, <1>6, <1>8, <2>1, <2>2 DEF TodoOK
<1>19. Compensated(log', todo', losers', pool', last_ckpt', phase')
  <2> SUFFICES ASSUME NEW m \in 1..Len(log'), log'[m].type = "Update", log'[m].txn \in losers'
               PROVE  \E n \in last_ckpt + 1..Len(log') :
                          /\ log'[n].type = "Clr" /\ Mirror(log', n, m)
                          /\ log'[m].page \in DOMAIN pool => n >= pool[log'[m].page].rec_lsn
    BY <1>2 DEF Compensated
  <2>1. m \in 1..Len(log) /\ log'[m] = log[m]
    BY <1>3, <1>4, OneMoreFacts
  <2>2. PICK n \in last_ckpt + 1..Len(log) :
            /\ log[n].type = "Clr" /\ Mirror(log, n, m)
            /\ log[m].page \in DOMAIN pool => n >= pool[log[m].page].rec_lsn
    BY <1>2, <2>1 DEF RecoveryInv, Compensated
  <2>3. n \in 1..Len(log) /\ n \in last_ckpt + 1..Len(log')
    BY <1>4, OneMoreFacts, InvFacts DEF LogTyped
  <2>4. log'[n] = log[n]
    BY <1>4, <2>3, OneMoreFacts
  <2> QED BY <2>1, <2>2, <2>3, <2>4 DEF Mirror
\* What was in doubt for the loser's sake would be redone.
<1>20. ASSUME NEW p \in Pages, NEW i \in Items, Doubtful(log, Open(log), p, i)
       PROVE  \/ Doubtful(log', Open(log'), p, i)
              \/ /\ \A f : Redoable(log, p, i, f, Start(log, last_ckpt, p), Len(log))
                 /\ p \in DOMAIN pool => \A f : Redoable(log, p, i, f, pool[p].rec_lsn, Len(log))
  <2>1. PICK n \in 1..Len(log) : IsUpdate(log, n, p, Open(log)) /\ Moves(log[n], i)
    BY <1>20 DEF Doubtful
  <2>2. CASE log[n].txn = t
    BY <1>2, <2>1, <2>2, CompensatedRedo DEF IsUpdate
  <2>3. CASE log[n].txn # t
    <3>1. n \in 1..Len(log') /\ log'[n] = log[n]
      BY <1>4, OneMoreFacts
    <3> QED BY <1>8, <2>1, <2>3, <3>1 DEF IsUpdate, Doubtful
  <2> QED BY <2>2, <2>3
<1>21. Filed(log', Doubted(log', phase'), tail', last_ckpt', written', synced')
  <2>1. /\ LogTyped(log, Len(log), <<>>, last_ckpt) /\ LogTyped(log', Len(log), <<>>, last_ckpt)
        /\ Len(log) \in tail..Len(log) /\ tail' \in Len(log)..Len(log')
    BY <1>4, OneMoreFacts, InvFacts DEF LogTyped
  <2>2. Filed(log, Open(log), Len(log), last_ckpt, written, synced)
    <3>1. Filed(log, Open(log), tail, last_ckpt, written, synced)
      BY <1>2 DEF RecoveryInv, Doubted
    <3> QED BY <2>1, <3>1, FiledTail, InvFacts
  <2>3. Filed(log', Open(log'), Len(log), last_ckpt, written, synced)
    BY <1>4, <1>20, <2>1, <2>2, FiledMore
  <2>4. Filed(log', Open(log'), tail', last_ckpt, written, synced)
    BY <1>7, <2>1, <2>3, FiledTail
  <2> QED BY <1>2, <2>4 DEF Doubted
<1>22. Pooled(log', Doubted(log', phase'), pool', written')
  <2>1. Pooled(log, Open(log), pool, written) /\ PoolTyped(pool, Len(log)) /\ DOMAIN pool \subseteq Pages
    BY <1>2, InvFacts DEF RecoveryInv, Doubted, PoolTyped
  <2>2. \A p \in DOMAIN pool, i \in Items : Doubtful(log, Open(log), p, i) =>
           Doubtful(log', Open(log'), p, i) \/ Redoable(log, p, i, written[p], pool[p].rec_lsn, Len(log))
    BY <1>20, <2>1
  <2>3. Pooled(log', Open(log'), pool, written)
    BY <1>4, <2>1, <2>2, PooledMore
  <2> QED BY <1>2, <2>3 DEF Doubted
<1>23. CkptOK(ckpt', log', pool', written', synced', txn')
  BY <1>2, NoCheckpoint
<1>24. DidsApart(did') /\ phase' # "running"
  BY <1>2 DEF RecoveryInv
<1> QED BY <1>1, <1>7, <1>11, <1>12, <1>13, <1>15, <1>16, <1>17, <1>18, <1>19, <1>21, <1>22,
           <1>23, <1>24 DEF RecoveryInv

LEMMA RecoveredInv ==
    ASSUME RecoveryInv, Recovered
    PROVE  RecoveryInv'
<1>1. TypeInv'
  BY RecoveredTyped, InvFacts
<1>2. /\ phase = "undo" /\ phase' = "running" /\ todo = {} /\ losers = {} /\ log' = log
      /\ FlushTo(Len(log))
      /\ UNCHANGED <<pool, written, synced, ckpt, last_ckpt, todo, losers, crashes, txn, did, base>>
  BY DEF Recovered, fileVars, historyVars
<1>3. tail' \in tail..Len(log) /\ tail' = Len(log)
  <2>1. tail' \in tail..Len(log) /\ Len(log) <= tail'
    BY <1>2, FlushDoes, InvFacts DEF LogTyped, RecoveryInv, TypeInv
  <2> QED BY <2>1, InvFacts
<1>4. Open(log) = {}
  BY <1>2 DEF RecoveryInv, TodoOK
<1>5. ActiveOf(txn) = {}
  BY <1>2 DEF RecoveryInv, StatusOK, ActiveOf
<1>6. StatusOK(log', txn', did', phase')
  BY <1>2, <1>4, <1>5 DEF RecoveryInv, StatusOK, ActiveOf
<1>7. Meaning(log', txn', did', base', phase')
  <2>1. MeantFor(log, {}, did, base)
    BY <1>2, <1>4 DEF RecoveryInv, Meaning
  <2>2. \A U \in SUBSET ActiveOf(txn') : U = {}
    BY <1>2, <1>5
  <2> QED BY <1>2, <2>1, <2>2 DEF Meaning
<1>8. /\ Doubted(log, phase) = {} /\ Doubted(log', phase') = {}
  BY <1>2, <1>4 DEF Doubted
<1>9. Filed(log', Doubted(log', phase'), tail', last_ckpt', written', synced')
  <2>1. Filed(log, {}, tail, last_ckpt, written, synced)
    BY <1>8 DEF RecoveryInv
  <2>2. Filed(log, {}, tail', last_ckpt, written, synced)
    BY <1>3, <2>1, FiledTail, InvFacts
  <2> QED BY <1>2, <1>8, <2>2
<1>10. Pooled(log', Doubted(log', phase'), pool', written')
  BY <1>2, <1>8 DEF RecoveryInv
<1>11. EndsDurable(log', tail') /\ UpdatesDurable(log', tail', phase')
  <2>1. \A n \in 1..Len(log) : n <= tail'
    BY <1>3
  <2> QED BY <1>2, <2>1 DEF EndsDurable, UpdatesDurable
<1>12. Flushed(log', pool', tail')
  <2>1. \A n \in 1..Len(log) : n <= tail'
    BY <1>3
  <2> QED BY <1>2, <2>1 DEF Flushed
<1>13. Current(log', pool', written', todo', phase')
  BY <1>2 DEF RecoveryInv, Current
<1>14. /\ UndoneOK(log', todo', phase') /\ TodoOK(log', todo', losers', phase')
       /\ Compensated(log', todo', losers', pool', last_ckpt', phase')
  BY <1>2 DEF UndoneOK, TodoOK, Compensated
<1>15. LogOK(log') /\ AutoItems(log', did') /\ DidsApart(did')
  BY <1>2 DEF RecoveryInv
<1>16. CkptOK(ckpt', log', pool', written', synced', txn')
  BY <1>2, NoCheckpoint
<1> QED BY <1>1, <1>6, <1>7, <1>9, <1>10, <1>11, <1>12, <1>13, <1>14, <1>15, <1>16 DEF RecoveryInv

-----------------------------------------------------------------------------
(* Redo. *)

\* The records redone are the page's changes from its start on.
LEMMA RedoneIs ==
    ASSUME TypeInv, LogOK(log), NEW p \in Pages
    PROVE  Redone(log, p) =
               {n \in 1..Len(log) : n >= Start(log, last_ckpt, p) /\ IsChange(log, n, p)}
<1> DEFINE later == {n \in last_ckpt + 1..Len(log) : log[n].type \in Changes /\ log[n].page = p}
           D == {n \in 1..Len(log) : n >= Start(log, last_ckpt, p) /\ IsChange(log, n, p)}
<1>1. /\ last_ckpt \in 0..tail /\ tail \in 0..Len(log) /\ Len(log) \in Nat /\ DOMAIN log = 1..Len(log)
      /\ last_ckpt \in Nat
  BY LogFacts
<1>2. Redone(log, p) = {n \in 1..Len(log) : n >= RedoStart(log, p) /\ IsChange(log, n, p)}
  BY <1>1 DEF Redone, IsChange
<1>3. p \in DOMAIN CheckpointPages <=> last_ckpt # 0 /\ p \in DOMAIN log[last_ckpt].dpt
  BY DEF CheckpointPages
<1>4. CASE p \in DOMAIN CheckpointPages
  <2>1. RedoStart(log, p) = Start(log, last_ckpt, p)
    BY <1>3, <1>4 DEF RedoStart, Start, CheckpointPages
  <2> QED BY <1>2, <2>1
<1>5. CASE p \notin DOMAIN CheckpointPages
  <2>1. Start(log, last_ckpt, p) = last_ckpt + 1
    BY <1>3, <1>5 DEF Start
  <2>2. D = later
    BY <1>1, <2>1 DEF IsChange
  <2>3. RedoStart(log, p) = IF later # {} THEN MinOf(later) ELSE Len(log) + 1
    BY <1>5 DEF RedoStart
  <2>4. later \in SUBSET Nat /\ later \subseteq 1..Len(log) /\ \A n \in 1..Len(log) : n >= last_ckpt + 1 /\ IsChange(log, n, p) => n \in later
    BY <1>1 DEF IsChange
  <2>5. \A n \in later : n >= last_ckpt + 1 /\ IsChange(log, n, p) /\ n \in Nat
    BY <1>1 DEF IsChange
  <2> HIDE DEF later, D
  <2>6. CASE later = {}
    <3>1. \A n \in 1..Len(log) : ~(n >= Len(log) + 1)
      BY <1>1
    <3> QED BY <1>2, <2>2, <2>3, <2>6, <3>1 DEF D
  <2>7. CASE later # {}
    <3>1. MinOf(later) \in later /\ \A n \in later : MinOf(later) <= n
      BY <2>4, <2>7, MinOfIs
    <3>2. MinOf(later) \in Nat /\ MinOf(later) >= last_ckpt + 1
      BY <2>5, <3>1
    <3>3. \A n \in 1..Len(log) : IsChange(log, n, p) => (n >= MinOf(later) <=> n \in later)
      <4> SUFFICES ASSUME NEW n \in 1..Len(log), IsChange(log, n, p) PROVE n >= MinOf(later) <=> n \in later
        OBVIOUS
      <4>1. n >= MinOf(later) => n >= last_ckpt + 1
        BY <1>1, <3>2
      <4>2. n \in later => n >= MinOf(later)
        BY <1>1, <2>5, <3>1, <3>2
      <4> QED BY <2>4, <4>1, <4>2
    <3>4. Redone(log, p) = later
      BY <1>2, <2>3, <2>4, <2>5, <2>7, <3>3
    <3> QED BY <2>2, <3>4 DEF D
  <2> QED BY <2>6, <2>7 DEF D
<1> QED BY <1>4, <1>5

LEMMA RedoInv ==
    ASSUME RecoveryInv, Redo
    PROVE  RecoveryInv'
<1>1. TypeInv'
  BY RedoTyped, InvFacts
<1>2. /\ phase = "crashed" /\ phase' = "undo"
      /\ pool' = [p \in {q \in Pages : Redone(log, q) # {}} |->
                     [data |-> Applied(log, Redone(log, p), written[p]),
                      page_lsn |-> MaxOf(Redone(log, p)), rec_lsn |-> MinOf(Redone(log, p))]]
      /\ losers' = LosersOf(log)
      /\ todo' = {n \in 1..Len(log) : log[n].type = "Update" /\ log[n].txn \in losers'}
      /\ UNCHANGED <<log, tail, orphans, written, synced, ckpt, last_ckpt, crashes, txn, did, base>>
  BY RedoIs, InvFacts
<1>3. tail = Len(log)
  BY <1>2 DEF RecoveryInv, TypeInv
<1>4. /\ Open(log) \subseteq losers'
      /\ \A t \in losers' : t \in Txns /\ \A n \in 1..Len(log) : ~IsEnd(log, n, t)
      /\ \A t \in losers' : \E n \in 1..Len(log) : Names(log, n, t)
  BY <1>2, LosersRight, InvFacts
<1>5. ASSUME NEW p \in Pages, NEW i \in Items, Doubtful(log, Open(log), p, i)
      PROVE  TodoDoubt(log, todo', p, i)
  BY <1>2, <1>4, <1>5 DEF Doubtful, TodoDoubt, IsUpdate
<1>6. ASSUME NEW p \in Pages, NEW i \in Items, ~Doubtful(log, Open(log), p, i)
      PROVE  Redoable(log, p, i, written[p], Start(log, last_ckpt, p), Len(log))
  BY <1>2, <1>3, <1>6 DEF RecoveryInv, Filed, Doubted
<1>7. \A p \in Pages : Redone(log, p) =
          {n \in 1..Len(log) : n >= Start(log, last_ckpt, p) /\ IsChange(log, n, p)}
  BY RedoneIs, InvFacts
<1>8. ASSUME NEW p \in Pages, NEW i \in Items, ~Doubtful(log, Open(log), p, i)
      PROVE  i \in DataIn(pool', written', p) <=> Shows(log, {}, p, Len(log), i)
  <2> DEFINE D == Redone(log, p)
             f == written[p]
             lo == Start(log, last_ckpt, p)
  <2>1. Redoable(log, p, i, f, lo, Len(log)) /\ lo \in Nat
    BY <1>6, <1>8, StartFacts, InvFacts
  <2>2. D = {n \in 1..Len(log) : n >= lo /\ IsChange(log, n, p)}
    BY <1>7
  <2>3. CASE D = {}
    <3>1. DataIn(pool', written', p) = f
      BY <1>2, <2>3 DEF DataIn
    <3>2. ~\E n \in 1..Len(log) : n >= lo /\ IsChange(log, n, p) /\ ~Keeps(log[n], i)
      BY <2>2, <2>3
    <3> QED BY <2>1, <3>1, <3>2 DEF Redoable
  <2>4. CASE D # {}
    <3>1. DataIn(pool', written', p) = Applied(log, D, f)
      BY <1>2, <2>4 DEF DataIn
    <3>2. D \in SUBSET {n \in 1..Len(log) : log[n].type \in Changes} /\ f \in SUBSET Items
      BY RedoneFacts, InvFacts
    <3>3. log \in Seq(Record)
      BY InvFacts
    <3> HIDE DEF D, f, lo
    <3>4. PICK g : Applies(g, log, D, f) /\ Applied(log, D, f) = g[Len(log)]
      BY <3>2, <3>3, AppliedRuns
    <3>5. i \in g[Len(log)] <=> Shows(log, {}, p, Len(log), i)
      BY <2>1, <2>2, <3>3, <3>4, AppliedShows
    <3> QED BY <3>1, <3>4, <3>5
  <2> QED BY <2>3, <2>4
<1>9. Current(log', pool', written', todo', phase')
  BY <1>2, <1>5, <1>8 DEF Current
<1>10. UndoneOK(log', todo', phase')
  <2> SUFFICES ASSUME NEW p \in Pages, NEW i \in Items, ~Doubtful(log, Open(log), p, i)
               PROVE  Shows(log, {}, p, Len(log), i) <=> Shows(log, Open(log), p, Len(log), i)
    BY <1>2, <1>5 DEF UndoneOK
  <2>1. \A n \in 1..Len(log) : IsUpdate(log, n, p, Open(log)) => ~Moves(log[n], i)
    BY DEF Doubtful
  <2>2. Len(log) \in 0..Len(log)
    BY InvFacts
  <2> QED BY <2>1, <2>2, Untouched, InvFacts
<1>11. TodoOK(log', todo', losers', phase')
  BY <1>2, <1>4 DEF TodoOK
<1>12. Compensated(log', todo', losers', pool', last_ckpt', phase')
  BY <1>2 DEF Compensated
<1>13. Filed(log', Doubted(log', phase'), tail', last_ckpt', written', synced')
  BY <1>2 DEF RecoveryInv, Doubted
<1>14. Pooled(log', Doubted(log', phase'), pool', written')
  <2> SUFFICES ASSUME NEW p \in Pages, Redone(log, p) # {}, NEW i \in Items,
                      ~Doubtful(log, Open(log), p, i)
               PROVE  Redoable(log, p, i, written[p], MinOf(Redone(log, p)), Len(log))
    BY <1>2 DEF Pooled, Doubted
  <2>1. Redoable(log, p, i, written[p], Start(log, last_ckpt, p), Len(log))
    BY <1>6
  <2>2. \A n \in 1..Len(log) : n >= Start(log, last_ckpt, p) /\ IsChange(log, n, p) =>
            n >= MinOf(Redone(log, p))
    <3>1. /\ MinOf(Redone(log, p)) \in Redone(log, p)
          /\ \A n \in Redone(log, p) : MinOf(Redone(log, p)) <= n
      BY RedoneFacts, InvFacts
    <3> DEFINE lo == MinOf(Redone(log, p))
    <3>2. \A n \in 1..Len(log) : n >= Start(log, last_ckpt, p) /\ IsChange(log, n, p) => lo <= n
      BY <1>7, <3>1
    <3>3. lo \in 1..Len(log) /\ Len(log) \in Nat
      BY <1>7, <3>1, InvFacts
    <3> HIDE DEF lo
    <3>4. \A n \in 1..Len(log) : lo <= n => n >= lo
      BY <3>3
    <3> QED BY <3>2, <3>4 DEF lo
  <2> QED BY <2>1, <2>2 DEF Redoable
<1>15. StatusOK(log', txn', did', phase')
  BY <1>2 DEF RecoveryInv, StatusOK
<1>16. EndsDurable(log', tail') /\ UpdatesDurable(log', tail', phase')
  BY <1>2 DEF RecoveryInv, EndsDurable, UpdatesDurable
<1>17. Meaning(log', txn', did', base', phase')
  BY <1>2 DEF RecoveryInv, Meaning
<1>18. LogOK(log') /\ AutoItems(log', did') /\ DidsApart(did') /\ phase' # "running"
  BY <1>2 DEF RecoveryInv
<1>19. CkptOK(ckpt', log', pool', written', synced', txn')
  BY <1>2, NoCheckpoint
<1> QED BY <1>1, <1>9, <1>10, <1>11, <1>12, <1>13, <1>14, <1>15, <1>16, <1>17, <1>18, <1>19
        DEF RecoveryInv

-----------------------------------------------------------------------------
(* Undo. *)

LEMMA UndoInv ==
    ASSUME RecoveryInv, Undo
    PROVE  RecoveryInv'
<1> DEFINE m == MaxOf(todo)
           r == log[m]
           c == [type |-> "Clr", txn |-> r.txn, page |-> r.page, from |-> r.to, to |-> r.from]
           e == [data |-> Cover(DataIn(pool, written, r.page), r.to, r.from),
                 page_lsn |-> IF r.page \in DOMAIN pool THEN pool[r.page].page_lsn ELSE 0,
                 rec_lsn |-> IF r.page \in DOMAIN pool THEN pool[r.page].rec_lsn ELSE 0]
           pg == r.page
           U == Open(log)
<1>1. TypeInv'
  BY UndoTyped, InvFacts
<1>2. /\ m \in todo /\ (\A n \in todo : n <= m)
      /\ m \in 1..tail /\ m \in 1..Len(log) /\ r.type = "Update"
      /\ pg \in Pages /\ r.txn \in Txns \cup {AutoTxn}
      /\ r.from \in SUBSET Items /\ r.to \in SUBSET Items
      /\ c \in Record /\ e \in Frame(Len(log)) /\ e.rec_lsn <= e.page_lsn
      /\ AppendAll(<<c>>) /\ Put(pool, pool', pg, e) /\ todo' = todo \ {m}
      /\ phase = "undo"
      /\ UNCHANGED <<written, synced, ckpt, last_ckpt, phase, losers, crashes, txn, did, base>>
  BY UndoIs, InvFacts
<1>3. /\ c.type = "Clr" /\ c.txn = r.txn /\ c.page = pg /\ c.from = r.to /\ c.to = r.from
      /\ c.type \in Changes
  BY DEF Changes
<1>4. /\ e.data = Cover(DataIn(pool, written, pg), r.to, r.from)
      /\ pg \in DOMAIN pool => e.rec_lsn = pool[pg].rec_lsn
      /\ pg \notin DOMAIN pool => e.rec_lsn = 0
  OBVIOUS
<1>5. r.type = "Update" /\ r = log[m]
  BY <1>2
<1> HIDE DEF c, e, r, m
<1>6. OneMore(log, log', c) /\ tail' \in tail..Len(log') /\ tail' \in Nat /\ tail <= tail'
  BY <1>2, AppendOne
<1>7. /\ DOMAIN pool' = DOMAIN pool \cup {pg} /\ pool'[pg] = e
      /\ \A p \in DOMAIN pool : p # pg => pool'[p] = pool[p]
  BY <1>2 DEF Put
<1>8. TodoOK(log, todo, losers, "undo") /\ StatusOK(log, txn, did, "undo")
  BY <1>2 DEF RecoveryInv
<1>9. r.txn \in losers /\ r.txn \in Txns /\ r.txn \in U /\ \A n \in 1..Len(log) : ~IsEnd(log, n, r.txn)
  <2>1. r.txn \in losers /\ \A n \in 1..Len(log) : ~IsEnd(log, n, r.txn)
    BY <1>2, <1>5, <1>8 DEF TodoOK
  <2>2. r.txn \in Txns
    BY <2>1, InvFacts
  <2> QED BY <1>2, <1>5, <2>1, <2>2 DEF Open
<1>10. IsUpdate(log, m, pg, U)
  BY <1>2, <1>5, <1>9 DEF IsUpdate
<1>11. Open(log') = U
  BY <1>3, <1>6, OpenSame
<1>12. Mirror(log', Len(log'), m)
  <2>1. log'[m] = r /\ log'[Len(log')] = c
    BY <1>2, <1>5, <1>6, OneMoreFacts
  <2> QED BY <1>2, <1>3, <2>1 DEF Mirror
<1>13. LogOK(log')
  <2>1. \A n \in 1..Len(log) : IsUpdate(log, n, c.page, Open(log)) => log[n].txn = c.txn
    BY <1>2, <1>3, <1>5, <1>10, OneOpen, InvFacts
  <2>2. \E k \in 1..Len(log) : Mirror(log', Len(log'), k)
    BY <1>2, <1>12
  <2> QED BY <1>3, <1>6, <1>9, <2>1, <2>2, ClrOK, InvFacts
<1>14. \A n \in 1..Len(log), u \in Txns : /\ IsEnd(log', n, u) <=> IsEnd(log, n, u)
                                          /\ Names(log', n, u) <=> Names(log, n, u)
  BY <1>6, OneMoreFacts DEF IsEnd, Names
<1>15. \A u \in Txns : /\ ~IsEnd(log', Len(log'), u)
                       /\ Names(log', Len(log'), u) => u = r.txn
  BY <1>3, <1>6, OneMoreFacts DEF IsEnd, Names
<1>16. StatusOK(log', txn', did', phase')
  <2>1. txn[r.txn] = "lost"
    BY <1>8, <1>9 DEF StatusOK
  <2>2. \A u \in Txns : txn[u] = "new" => \A n \in 1..Len(log') : ~Names(log', n, u)
    BY <1>6, <1>8, <1>14, <1>15, <2>1, OneMoreFacts DEF StatusOK
  <2> QED BY <1>2, <1>8, <1>11, <2>2 DEF StatusOK
<1>17. EndsDurable(log', tail') /\ UpdatesDurable(log', tail', phase')
  <2>1. EndsDurable(log, tail) /\ UpdatesDurable(log, tail, phase)
    BY DEF RecoveryInv
  <2>2. EndsDurable(log', tail')
    BY <1>3, <1>6, <2>1, EndsDurableMore, InvFacts
  <2>3. \A n \in 1..Len(log') : log'[n].type = "Update" => n <= tail'
    <3> SUFFICES ASSUME NEW n \in 1..Len(log'), log'[n].type = "Update" PROVE n <= tail'
      OBVIOUS
    <3>1. n \in 1..Len(log) /\ log'[n] = log[n]
      BY <1>3, <1>6, OneMoreFacts
    <3>2. n <= tail
      BY <1>2, <2>1, <3>1 DEF UpdatesDurable
    <3> QED BY <1>6, <3>2, InvFacts
  <2> QED BY <2>2, <2>3 DEF UpdatesDurable
<1>18. AutoItems(log', did')
  <2>1. AutoItems(log, did) /\ did[AutoTxn] \subseteq did'[AutoTxn]
    BY <1>2 DEF RecoveryInv
  <2> QED BY <1>3, <1>6, <2>1, AutoItemsMore
\* The CLR is left out with the loser's updates.
<1>19. ASSUME NEW p \in Pages, NEW i \in Items
       PROVE  Shows(log', U, p, Len(log'), i) <=> Shows(log, U, p, Len(log), i)
  <2>1. CASE p = pg
    <3>1. IsUpdate(log', m, p, U) /\ m \in 1..Len(log')
      BY <1>2, <1>6, <1>10, <2>1, OneMoreFacts DEF IsUpdate
    <3> HIDE DEF U
    <3> QED BY <1>6, <3>1, LeftOutShows
  <2>2. CASE p # pg
    <3> HIDE DEF U
    <3> QED BY <1>3, <1>6, <2>2, ElsewhereShows
  <2> QED BY <2>1, <2>2
<1>20. Meaning(log', txn', did', base', phase')
  <2>1. MeantFor(log, U, did, base)
    BY <1>2 DEF RecoveryInv, Meaning
  <2>2. MeantFor(log', U, did, base)
    <3> HIDE DEF U
    <3> QED BY <1>19, <2>1 DEF MeantFor
  <2> QED BY <1>2, <1>11, <2>2 DEF Meaning
<1>21. todo \subseteq 1..Len(log)
  BY InvFacts
<1>22. \A p, i : TodoDoubt(log, todo, p, i) <=>
                     TodoDoubt(log', todo', p, i) \/ (p = pg /\ Moves(r, i))
  <2>1. \A n \in todo : log'[n] = log[n]
    BY <1>6, <1>21, OneMoreFacts
  <2> QED BY <1>2, <1>5, <2>1 DEF TodoDoubt
\* A page that is not the update's.
<1>23. ASSUME NEW p \in Pages, NEW i \in Items, p # pg
       PROVE  /\ DataIn(pool', written', p) = DataIn(pool, written, p)
              /\ Shows(log', {}, p, Len(log'), i) <=> Shows(log, {}, p, Len(log), i)
              /\ TodoDoubt(log', todo', p, i) <=> TodoDoubt(log, todo, p, i)
  <2>1. DataIn(pool', written', p) = DataIn(pool, written, p)
    BY <1>2, <1>7, <1>23 DEF DataIn
  <2>2. Shows(log', {}, p, Len(log'), i) <=> Shows(log, {}, p, Len(log), i)
    BY <1>3, <1>6, <1>23, ElsewhereShows
  <2>3. TodoDoubt(log', todo', p, i) <=> TodoDoubt(log, todo, p, i)
    BY <1>22, <1>23
  <2> QED BY <2>1, <2>2, <2>3
\* What the update left as it was, and what it moved.
<1>24. Counted(log', {}, pg, Len(log'))
  BY <1>3, <1>6, CountedAll, OneMoreFacts DEF IsChange
<1>25. \A i \in Items : Shows(log', {}, pg, Len(log'), i) <=>
            IF ~Keeps(c, i) THEN Puts(c, i) ELSE Shows(log, {}, pg, Len(log), i)
  BY <1>6, <1>24, OneMoreShows
<1>26. \A i \in Items : i \in DataIn(pool', written', pg) <=>
            IF ~Keeps(c, i) THEN Puts(c, i) ELSE i \in DataIn(pool, written, pg)
  <2>1. DataIn(pool', written', pg) = Cover(DataIn(pool, written, pg), r.to, r.from)
    BY <1>4, <1>7 DEF DataIn
  <2> QED BY <1>3, <2>1 DEF Cover, Keeps, Puts
<1>27. ASSUME NEW i \in Items, Keeps(c, i)
       PROVE  TodoDoubt(log', todo', pg, i) <=> TodoDoubt(log, todo, pg, i)
  <2>1. ~Moves(r, i)
    BY <1>3, <1>27 DEF Keeps, Moves
  <2> QED BY <1>22, <2>1
<1>28. Current(log', pool', written', todo', phase')
  <2> SUFFICES ASSUME NEW p \in Pages, NEW i \in Items, ~TodoDoubt(log', todo', p, i)
               PROVE  i \in DataIn(pool', written', p) <=> Shows(log', {}, p, Len(log'), i)
    BY DEF Current
  <2>1. Current(log, pool, written, todo, "undo")
    BY <1>2 DEF RecoveryInv
  <2>2. TodoDoubt(log, todo, p, i) \/ (i \in DataIn(pool, written, p) <=> Shows(log, {}, p, Len(log), i))
    BY <2>1 DEF Current
  <2>3. CASE p # pg
    BY <1>23, <2>2, <2>3
  <2>4. CASE p = pg
    BY <1>25, <1>26, <1>27, <2>2, <2>4
  <2> QED BY <2>3, <2>4
<1>29. UndoneOK(log', todo', phase')
  <2> SUFFICES ASSUME NEW p \in Pages, NEW i \in Items, ~TodoDoubt(log', todo', p, i)
               PROVE  Shows(log', {}, p, Len(log'), i) <=> Shows(log', U, p, Len(log'), i)
    BY <1>11 DEF UndoneOK
  <2>1. UndoneOK(log, todo, "undo")
    BY <1>2 DEF RecoveryInv
  <2>2. TodoDoubt(log, todo, p, i) \/ (Shows(log, {}, p, Len(log), i) <=> Shows(log, U, p, Len(log), i))
    BY <2>1 DEF UndoneOK
  <2>3. CASE p # pg
    BY <1>19, <1>23, <2>2, <2>3
  <2>4. CASE p = pg /\ Keeps(c, i)
    BY <1>19, <1>25, <1>27, <2>2, <2>4
  <2>5. CASE p = pg /\ ~Keeps(c, i)
    <3>1. \A n \in 1..m - 1 : IsUpdate(log, n, p, Open(log)) => ~Moves(log[n], i)
      <4> SUFFICES ASSUME NEW n \in 1..m - 1, IsUpdate(log, n, p, Open(log)), Moves(log[n], i)
                   PROVE  FALSE
        OBVIOUS
      <4>1. n \in 1..Len(log) /\ n <= m /\ n # m
        BY <1>2, InvFacts
      <4>2. n \in todo
        BY <1>2, <1>8, <4>1 DEF TodoOK, IsUpdate
      <4>3. n \in todo' /\ log'[n] = log[n]
        BY <1>2, <1>6, <4>1, <4>2, OneMoreFacts
      <4> QED BY <4>3 DEF TodoDoubt, IsUpdate
    <3>2. log[m].txn \in Open(log) /\ m \in 1..Len(log) /\ c.page = p
      BY <1>2, <1>3, <1>5, <1>9, <2>5
    <3>3. Shows(log', {}, p, Len(log'), i) <=> Shows(log, Open(log), p, Len(log), i)
      BY <1>3, <1>6, <1>12, <2>5, <3>1, <3>2, ClrShows, InvFacts
    <3> QED BY <1>19, <3>3
  <2> QED BY <2>3, <2>4, <2>5
<1>30. TodoOK(log', todo', losers', phase')
  <2>1. \A n \in todo' : n \in todo /\ log'[n] = log[n] /\ n \in 1..Len(log)
    BY <1>2, <1>6, <1>21, OneMoreFacts
  <2>2. ASSUME NEW n \in todo', NEW k \in 1..Len(log'), k <= n,
               log'[k].type = "Update", log'[k].txn \in losers
        PROVE  k \in todo'
    <3>1. k \in 1..Len(log) /\ log'[k] = log[k]
      BY <1>3, <1>6, <2>2, OneMoreFacts
    <3>2. k \in todo
      BY <1>8, <2>1, <2>2, <3>1 DEF TodoOK
    <3>3. n <= m /\ n # m /\ m \in Nat /\ n \in Nat
      BY <1>2, <2>1
    <3>4. k # m
      BY <2>2, <3>3
    <3> QED BY <1>2, <3>2, <3>4
  <2>3. \A u \in losers : \A n \in 1..Len(log') : ~IsEnd(log', n, u)
    BY <1>6, <1>8, <1>14, <1>15, OneMoreFacts, InvFacts DEF TodoOK
  <2>4. \A u \in losers : \E n \in 1..Len(log') : Names(log', n, u)
    BY <1>6, <1>8, <1>14, OneMoreFacts, InvFacts DEF TodoOK
  <2>5. \A n \in todo' : log'[n].txn \in losers
    BY <1>8, <2>1 DEF TodoOK
  <2>6. U \subseteq losers
    BY <1>8 DEF TodoOK
  <2> HIDE DEF U
  <2> QED BY <1>2, <1>11, <2>2, <2>3, <2>4, <2>5, <2>6 DEF TodoOK
<1>31. Compensated(log', todo', losers', pool', last_ckpt', phase')
  <2> SUFFICES ASSUME NEW k \in 1..Len(log'), log'[k].type = "Update", log'[k].txn \in losers,
                      k \notin todo'
               PROVE  \E n \in last_ckpt + 1..Len(log') :
                          /\ log'[n].type = "Clr" /\ Mirror(log', n, k)
                          /\ log'[k].page \in DOMAIN pool' => n >= pool'[log'[k].page].rec_lsn
    BY <1>2 DEF Compensated
  <2>1. k \in 1..Len(log) /\ log'[k] = log[k]
    BY <1>3, <1>6, OneMoreFacts
  <2>2. CASE k = m
    <3>1. Len(log') \in last_ckpt + 1..Len(log') /\ log'[Len(log')] = c
      BY <1>6, OneMoreFacts, InvFacts DEF LogTyped
    <3>2. Len(log') >= pool'[pg].rec_lsn
      <4>1. e.rec_lsn \in 0..Len(log)
        BY <1>2 DEF Frame
      <4> QED BY <1>6, <1>7, <4>1, OneMoreFacts
    <3> QED BY <1>3, <1>5, <1>12, <2>1, <2>2, <3>1, <3>2
  <2>3. CASE k # m
    <3>1. k \notin todo
      BY <1>2, <2>3
    <3>2. PICK n \in last_ckpt + 1..Len(log) :
              /\ log[n].type = "Clr" /\ Mirror(log, n, k)
              /\ log[k].page \in DOMAIN pool => n >= pool[log[k].page].rec_lsn
      BY <1>2, <2>1, <3>1 DEF RecoveryInv, Compensated
    <3>3. n \in 1..Len(log) /\ n \in last_ckpt + 1..Len(log') /\ n \in Nat
      BY <1>6, OneMoreFacts, InvFacts DEF LogTyped
    <3>4. log'[n] = log[n]
      BY <1>6, <3>3, OneMoreFacts
    <3>5. log[k].page \in DOMAIN pool' => n >= pool'[log[k].page].rec_lsn
      BY <1>4, <1>7, <3>2, <3>3
    <3> QED BY <2>1, <3>2, <3>3, <3>4, <3>5 DEF Mirror
  <2> QED BY <2>2, <2>3
<1>32. Filed(log', U, tail, last_ckpt, written, synced)
  <2>1. Filed(log, U, tail, last_ckpt, written, synced)
    BY <1>2 DEF RecoveryInv, Doubted
  <2> HIDE DEF U
  <2>2. \A p \in Pages, i \in Items : Doubtful(log, U, p, i) => Doubtful(log', U, p, i)
    BY <1>6, DoubtMore
  <2>3. LogTyped(log, tail, <<>>, last_ckpt)
    BY InvFacts
  <2> QED BY <1>6, <2>1, <2>2, <2>3, FiledMore
<1>33. LogTyped(log', tail, <<>>, last_ckpt) /\ tail' \in tail..Len(log') /\ LogTyped(log', tail', <<>>, last_ckpt)
  <2>1. last_ckpt # 0 => log'[last_ckpt] = log[last_ckpt]
    BY <1>6, OneMoreFacts, InvFacts DEF LogTyped
  <2> QED BY <1>6, <2>1, OneMoreFacts, InvFacts DEF LogTyped
<1>34. Filed(log', U, tail', last_ckpt, written, synced)
  BY <1>13, <1>32, <1>33, FiledTail
<1>35. Filed(log', Doubted(log', phase'), tail', last_ckpt', written', synced')
  BY <1>2, <1>11, <1>34 DEF Doubted
<1>36. Pooled(log', U, pool', written)
  <2> SUFFICES ASSUME NEW p \in DOMAIN pool', NEW i \in Items, ~Doubtful(log', U, p, i)
               PROVE  Redoable(log', p, i, written[p], pool'[p].rec_lsn, Len(log'))
    BY DEF Pooled
  <2>1. p \in Pages
    BY <1>2, <1>7, InvFacts DEF PoolTyped
  <2>2. CASE p \in DOMAIN pool
    <3>1. pool'[p].rec_lsn = pool[p].rec_lsn
      BY <1>4, <1>7, <2>2
    <3>2. ~Doubtful(log, U, p, i)
      <4> HIDE DEF U
      <4> QED BY <1>6, DoubtMore
    <3>3. Redoable(log, p, i, written[p], pool[p].rec_lsn, Len(log))
      BY <1>2, <2>2, <3>2 DEF RecoveryInv, Doubted, Pooled
    <3>4. pool[p].rec_lsn \in 0..Len(log) + 1
      <4>1. pool[p] \in Frame(Len(log)) /\ Len(log) \in Nat
        BY <2>2, InvFacts DEF PoolTyped
      <4> QED BY <4>1 DEF Frame
    <3>5. Redoable(log', p, i, written[p], pool[p].rec_lsn, Len(log'))
      BY <1>6, <3>3, <3>4, RedoableMore
    <3> QED BY <3>1, <3>5
  <2>3. CASE p \notin DOMAIN pool
    <3>1. p = pg /\ pool'[p].rec_lsn = 0
      BY <1>4, <1>7, <2>3
    <3> DEFINE lo == Start(log', last_ckpt, p)
    <3>2. Redoable(log', p, i, written[p], lo, tail')
      BY <1>34, <2>1 DEF Filed
    <3>3. lo \in Nat /\ lo <= tail' + 1
      BY <1>13, <1>33, StartFacts
    <3>4. Len(log') \in Nat /\ tail' \in Nat /\ tail' <= Len(log') /\ 0 \in Nat /\ 0 <= lo
      BY <1>6, <3>3, OneMoreFacts
    <3> HIDE DEF lo
    <3>5. Redoable(log', p, i, written[p], lo, Len(log'))
      BY <3>2, <3>3, <3>4, RedoableUp
    <3>6. Redoable(log', p, i, written[p], 0, Len(log'))
      BY <3>3, <3>4, <3>5, RedoableLower
    <3> QED BY <3>1, <3>6
  <2> QED BY <2>2, <2>3
<1>37. Pooled(log', Doubted(log', phase'), pool', written')
  BY <1>2, <1>11, <1>36 DEF Doubted
<1>38. CkptOK(ckpt', log', pool', written', synced', txn')
  BY <1>2, NoCheckpoint
<1>39. DidsApart(did') /\ phase' # "running"
  BY <1>2 DEF RecoveryInv
<1> QED BY <1>1, <1>13, <1>16, <1>17, <1>18, <1>20, <1>28, <1>29, <1>30, <1>31, <1>35, <1>37,
           <1>38, <1>39 DEF RecoveryInv

-----------------------------------------------------------------------------
(* A crash. *)

\* While the system runs, the records a crash can take are those of active
\* transactions, and of calls outside transactions.
LEMMA TailShows ==
    ASSUME RecoveryInv, phase = "running", NEW p \in Pages, NEW i \in Items \ did[AutoTxn]
    PROVE  Shows(log, Active, p, Len(log), i) <=> Shows(log, Active, p, tail, i)
<1> DEFINE A == Active
<1>1. tail \in Nat /\ Len(log) \in Nat /\ tail <= Len(log) /\ log \in Seq(Record)
  BY InvFacts
<1>2. \A u \in Open(log) : u \in A
  BY ActiveIs DEF RecoveryInv, StatusOK, ActiveOf, Open
<1>3. ASSUME NEW k \in tail + 1..Len(log)
      PROVE  Shows(log, A, p, k, i) <=> Shows(log, A, p, k - 1, i)
  <2>1. k \in Nat \ {0} /\ k - 1 \in Nat /\ k \in 1..Len(log) /\ k > tail
    BY <1>1
  <2>2. RecordOK(log, k)
    BY <2>1, InvFacts DEF LogOK
  <2>3. ASSUME NEW u \in Txns, OfTxn(log, k, u) PROVE \A n \in 1..Len(log) : ~IsEnd(log, n, u)
    <3> SUFFICES ASSUME NEW n \in 1..Len(log), IsEnd(log, n, u) PROVE FALSE
      OBVIOUS
    <3>1. n <= tail
      BY DEF RecoveryInv, EndsDurable
    <3>2. n \in 1..k - 1
      BY <1>1, <2>1, <3>1
    <3> QED BY <2>2, <2>3, <3>2 DEF RecordOK, EndsLastAt
  <2>4. ASSUME Counted(log, A, p, k), ~Keeps(log[k], i)
        PROVE  ~Puts(log[k], i) /\ ~Shows(log, A, p, k - 1, i)
    <3>1. IsChange(log, k, p) /\ \A n \in 1..k : ~IsUpdate(log, n, p, A)
      BY <2>4 DEF Counted
    <3>2. log[k].type # "Clr"
      <4> SUFFICES ASSUME log[k].type = "Clr" PROVE FALSE
        OBVIOUS
      <4>1. log[k].txn \in Txns
        BY <2>2 DEF RecordOK, MirrorsAt
      <4>2. PICK n \in 1..k - 1 : Mirror(log, k, n)
        BY <2>2 DEF RecordOK, MirrorsAt
      <4>3. n \in 1..Len(log) /\ n \in 1..k
        BY <2>1
      <4>4. log[n].type = "Update" /\ log[n].page = p /\ log[n].txn = log[k].txn
        BY <3>1, <4>2 DEF Mirror, IsChange
      <4>5. log[k].txn \in Open(log)
        BY <2>3, <4>1, <4>3, <4>4 DEF Open, OfTxn
      <4>6. IsUpdate(log, n, p, A)
        BY <1>2, <4>4, <4>5 DEF IsUpdate
      <4> QED BY <3>1, <4>3, <4>6
    <3>3. log[k].type = "Update" /\ log[k].page = p
      BY <3>1, <3>2 DEF IsChange, Changes
    <3>4. log[k].txn = AutoTxn
      <4>1. log[k].txn \in Txns \cup {AutoTxn}
        BY <1>1, <2>1, <3>3, ChangeRecord DEF Changes
      <4> SUFFICES ASSUME log[k].txn \in Txns PROVE FALSE
        BY <4>1
      <4>2. log[k].txn \in Open(log)
        BY <2>1, <2>3, <3>3 DEF Open, OfTxn
      <4>3. IsUpdate(log, k, p, A) /\ k \in 1..k
        BY <1>2, <2>1, <3>3, <4>2 DEF IsUpdate
      <4> QED BY <3>1, <4>3
    <3>5. ~Moves(log[k], i)
      BY <2>1, <3>3, <3>4 DEF RecoveryInv, AutoItems
    <3>6. i \notin log[k].from /\ i \notin log[k].to
      BY <2>4, <3>5 DEF Moves, Keeps
    <3>7. ~Shows(log, {}, p, k - 1, i)
      BY <2>2, <3>3, <3>6 DEF RecordOK, ExactAt
    <3>8. \A n \in 1..k - 1 : ~IsUpdate(log, n, p, A)
      BY <2>1, <3>1
    <3> HIDE DEF A
    <3>9. ~Shows(log, A, p, k - 1, i)
      BY <2>1, <3>7, <3>8, ShowsAll
    <3> QED BY <3>6, <3>9 DEF Puts
  <2> HIDE DEF A
  <2>5. Shows(log, A, p, k, i) <=>
          IF Counted(log, A, p, k) /\ ~Keeps(log[k], i) THEN Puts(log[k], i)
          ELSE Shows(log, A, p, k - 1, i)
    BY <2>1, ShowsNext
  <2> QED BY <2>4, <2>5
<1> HIDE DEF A
<1>4. Shows(log, A, p, Len(log), i) <=> Shows(log, A, p, tail, i)
  BY <1>1, <1>3, ShowsSame
<1> QED BY <1>4 DEF A

\* Whose items are left, when the changes of W are left out instead of those of V.
SameOthers(V, e, W, d) ==
    \A i \in Items : (\E u \in Txns \ V : i \in e[u]) <=> (\E u \in Txns \ W : i \in d[u])

LEMMA MeantCut ==
    ASSUME NEW L, NEW M, NEW V, NEW W, NEW d, NEW e, NEW b, MeantFor(L, W, d, b),
           e[AutoTxn] = d[AutoTxn], SameOthers(V, e, W, d),
           \A p \in Pages, i \in Items \ d[AutoTxn] :
              Shows(M, V, p, Len(M), i) <=> Shows(L, W, p, Len(L), i)
    PROVE  MeantFor(M, V, e, b)
BY DEF MeantFor, SameOthers

LEMMA CrashInv ==
    ASSUME RecoveryInv, Crash, NoOrphans
    PROVE  RecoveryInv'
<1> DEFINE U == Open(log)
           V == Open(log')
<1>1. TypeInv'
  BY CrashTyped, InvFacts
<1>2. /\ phase # "crashed" /\ log' = SubSeq(log, 1, tail)
      /\ synced' \in [Pages -> SUBSET Items]
      /\ \A p \in Pages : synced'[p] \in {synced[p], written[p]}
      /\ written' = synced' /\ pool' = <<>> /\ ckpt' = Quiet
      /\ phase' = "crashed" /\ todo' = {} /\ losers' = {}
      /\ txn' = [t \in Txns |-> IF t \in Active THEN "lost" ELSE txn[t]]
      /\ did' = [t \in DOMAIN did |-> IF t \in Active THEN {} ELSE did[t]]
      /\ tail' = tail /\ last_ckpt' = last_ckpt /\ base' = base
  BY DEF Crash
<1>3. log' \in Seq(Record) /\ Len(log') = tail /\ Agree(log, log', tail) /\ tail \in Nat
      /\ tail \in 0..Len(log) /\ Len(log) \in Nat
  <2> DEFINE M == SubSeq(log, 1, tail)
  <2>1. tail \in 0..Len(log) /\ Len(log) \in Nat
    BY InvFacts
  <2>2. M \in Seq(Record) /\ Len(M) = tail /\ Agree(log, M, tail) /\ tail \in Nat
    BY CutFacts, InvFacts
  <2>3. log' = M
    BY <1>2
  <2> HIDE DEF M
  <2> QED BY <2>1, <2>2, <2>3
<1>4. \A n \in 1..tail : n \in 1..Len(log) /\ log'[n] = log[n]
  BY <1>3 DEF Agree
<1>5. EndsDurable(log, tail) /\ UpdatesDurable(log, tail, phase) /\ StatusOK(log, txn, did, phase)
  BY DEF RecoveryInv
<1>6. LogOK(log')
  BY <1>3, <1>5, CutOK, InvFacts DEF EndsDurable
<1>7. V = {u \in U : \E n \in 1..tail : log[n].type = "Update" /\ log[n].txn = u} /\ V \subseteq U
  BY <1>3, <1>5, CutOpen DEF EndsDurable
<1>8. /\ \A t \in Txns : txn'[t] = IF t \in Active THEN "lost" ELSE txn[t]
      /\ \A t \in Txns : did'[t] = IF t \in Active THEN {} ELSE did[t]
      /\ did'[AutoTxn] = did[AutoTxn]
  BY <1>2, InvFacts DEF Active
<1>9. /\ phase = "running" => \A u \in U : u \in Active
      /\ phase # "running" => Active = {} /\ \A u \in U : txn[u] = "lost"
  BY <1>5, ActiveIs DEF StatusOK, ActiveOf, Open
<1>10. StatusOK(log', txn', did', phase')
  <2> SUFFICES ASSUME NEW t \in Txns
               PROVE  /\ txn'[t] = "new" => \A n \in 1..Len(log') : ~Names(log', n, t)
                      /\ txn'[t] # "active"
                      /\ t \in V => txn'[t] = "lost"
                      /\ txn'[t] \in {"new", "committed", "lost"} => did'[t] = {}
    BY <1>2 DEF StatusOK
  <2>1. txn'[t] = "new" => \A n \in 1..Len(log') : ~Names(log', n, t)
    BY <1>3, <1>4, <1>5, <1>8 DEF StatusOK, Names
  <2>2. txn'[t] # "active"
    BY <1>8 DEF Active
  <2>3. t \in V => txn'[t] = "lost"
    BY <1>7, <1>8, <1>9
  <2>4. txn'[t] \in {"new", "committed", "lost"} => did'[t] = {}
    BY <1>5, <1>8 DEF StatusOK
  <2> QED BY <2>1, <2>2, <2>3, <2>4
<1>11. EndsDurable(log', tail') /\ UpdatesDurable(log', tail', phase')
  <2>1. \A n \in 1..Len(log') : n <= tail'
    BY <1>2, <1>3
  <2> QED BY <2>1 DEF EndsDurable, UpdatesDurable
<1>12. AutoItems(log', did')
  BY <1>3, <1>4, <1>8 DEF RecoveryInv, AutoItems
<1>13. DidsApart(did')
  <2>1. \A t \in Txns \cup {AutoTxn} : did'[t] \subseteq did[t]
    BY <1>8
  <2> QED BY <2>1 DEF RecoveryInv, DidsApart
\* What is left of the log says what the others made of the items.
<1>14. \A p, i : Shows(log', V, p, Len(log'), i) <=> Shows(log, V, p, tail, i)
  <2> HIDE DEF V
  <2> QED BY <1>3, ShowsPrefix
<1>15. Meaning(log', txn', did', base', phase')
  <2>1. CASE phase = "running"
    <3> DEFINE W == Active
    <3>1. MeantFor(log, W, did, base)
      BY <2>1, ActiveIs DEF RecoveryInv, Meaning
    <3>2. SameOthers(V, did', W, did)
      <4>1. V \subseteq W
        BY <1>7, <1>9, <2>1
      <4> HIDE DEF V
      <4> QED BY <1>8, <4>1 DEF SameOthers
    <3>3. ASSUME NEW p \in Pages, NEW i \in Items \ did[AutoTxn]
          PROVE  Shows(log', V, p, Len(log'), i) <=> Shows(log, W, p, Len(log), i)
      <4>1. \A k \in 1..tail : IsUpdate(log, k, p, V) <=> IsUpdate(log, k, p, W)
        <5> SUFFICES ASSUME NEW k \in 1..tail PROVE IsUpdate(log, k, p, V) <=> IsUpdate(log, k, p, W)
          OBVIOUS
        <5>1. IsUpdate(log, k, p, W) => IsUpdate(log, k, p, V)
          <6> SUFFICES ASSUME IsUpdate(log, k, p, W) PROVE log[k].txn \in V
            BY DEF IsUpdate
          <6>1. k \in 1..Len(log)
            BY <1>4
          <6>2. log[k].txn \in Txns /\ txn[log[k].txn] = "active" /\ log[k].type = "Update"
            BY DEF IsUpdate, Active
          <6>3. log[k].txn \in U
            BY <1>5, <6>1, <6>2 DEF StatusOK, Open
          <6> QED BY <1>7, <6>2, <6>3
        <5>2. V \subseteq W
          BY <1>7, <1>9, <2>1
        <5> QED BY <5>1, <5>2 DEF IsUpdate
      <4>2. Shows(log, W, p, Len(log), i) <=> Shows(log, W, p, tail, i)
        BY <2>1, TailShows
      <4> HIDE DEF V, W
      <4>3. Shows(log, V, p, tail, i) <=> Shows(log, W, p, tail, i)
        BY <1>3, <4>1, ShowsLike
      <4> QED BY <1>14, <4>2, <4>3
    <3> HIDE DEF V, W
    <3>4. MeantFor(log', V, did', base)
      BY <1>8, <3>1, <3>2, <3>3, MeantCut
    <3> QED BY <1>2, <3>4 DEF Meaning, V
  <2>2. CASE phase # "running"
    <3>1. MeantFor(log, U, did, base)
      BY <2>2 DEF RecoveryInv, Meaning
    <3>2. V = U
      <4>1. \A u \in U : \E n \in 1..Len(log) : log[n].type = "Update" /\ log[n].txn = u
        BY DEF Open
      <4>2. \A n \in 1..Len(log) : log[n].type = "Update" => n \in 1..tail
        BY <1>3, <1>5, <2>2 DEF UpdatesDurable
      <4> HIDE DEF U, V
      <4> QED BY <1>7, <4>1, <4>2
    <3>3. SameOthers(V, did', U, did)
      <4>1. \A u \in Txns : did'[u] = did[u]
        BY <1>8, <1>9, <2>2
      <4> HIDE DEF U, V
      <4> QED BY <3>2, <4>1 DEF SameOthers
    <3>4. ASSUME NEW p \in Pages, NEW i \in Items
          PROVE  Shows(log', V, p, Len(log'), i) <=> Shows(log, U, p, Len(log), i)
      <4>1. \A n \in tail + 1..Len(log) : ~Counted(log, U, p, n)
        <5>1. /\ \A m \in 1..Len(log) : log[m].type = "Update" => m <= tail
              /\ \A m \in 1..Len(log) : \A u \in Txns : IsEnd(log, m, u) => m <= tail
          BY <1>5, <2>2 DEF EndsDurable, UpdatesDurable
        <5> QED BY <1>3, <5>1, TailLeftOut, InvFacts
      <4>2. \A n \in tail + 1..Len(log) : ~Counted(log, U, p, n) \/ Keeps(log[n], i)
        BY <4>1
      <4>3. tail <= Len(log)
        BY <1>3
      <4> HIDE DEF U, V
      <4>4. Shows(log, U, p, Len(log), i) <=> Shows(log, U, p, tail, i)
        BY <1>3, <4>2, <4>3, ShowsUncounted
      <4> QED BY <1>14, <3>2, <4>4
    <3> HIDE DEF U, V
    <3>5. MeantFor(log', V, did', base)
      BY <1>8, <3>1, <3>3, <3>4, MeantCut
    <3> QED BY <1>2, <3>5 DEF Meaning, V
  <2> QED BY <2>1, <2>2
<1>16. /\ Current(log', pool', written', todo', phase')
       /\ UndoneOK(log', todo', phase') /\ TodoOK(log', todo', losers', phase')
       /\ Compensated(log', todo', losers', pool', last_ckpt', phase')
  BY <1>2 DEF Current, UndoneOK, TodoOK, Compensated
<1>17. Filed(log', Doubted(log', phase'), tail', last_ckpt', written', synced')
  <2>1. Filed(log, Doubted(log, phase), tail, last_ckpt, written, synced)
    BY DEF RecoveryInv
  <2>2. ASSUME NEW p \in Pages, NEW i \in Items, Doubtful(log, Doubted(log, phase), p, i)
        PROVE  Doubtful(log', V, p, i)
    <3>1. phase # "running" /\ Doubtful(log, U, p, i)
      BY <2>2, NoDoubt DEF Doubted
    <3>2. PICK n \in 1..Len(log) : IsUpdate(log, n, p, U) /\ Moves(log[n], i)
      BY <3>1 DEF Doubtful
    <3>3. n \in 1..tail
      BY <1>3, <1>5, <3>1, <3>2 DEF UpdatesDurable, IsUpdate
    <3>4. log[n].txn \in V /\ log'[n] = log[n] /\ n \in 1..Len(log')
      BY <1>3, <1>4, <1>7, <3>2, <3>3 DEF IsUpdate
    <3> HIDE DEF U, V
    <3> QED BY <3>2, <3>4 DEF IsUpdate, Doubtful
  <2>3. \A p : Start(log', last_ckpt, p) = Start(log, last_ckpt, p)
    <3>1. last_ckpt # 0 => last_ckpt \in 1..tail
      BY InvFacts DEF LogTyped
    <3> QED BY <1>4, <3>1 DEF Start
  <2> SUFFICES ASSUME NEW p \in Pages, NEW i \in Items, ~Doubtful(log', V, p, i)
               PROVE  Redoable(log', p, i, synced'[p], Start(log', last_ckpt, p), tail)
    BY <1>2 DEF Filed, Doubted
  <2> DEFINE lo == Start(log, last_ckpt, p)
  <2>4. Redoable(log, p, i, written[p], lo, tail) /\ Redoable(log, p, i, synced[p], lo, tail)
    BY <2>1, <2>2 DEF Filed
  <2>5. Redoable(log, p, i, synced'[p], lo, tail)
    <3> HIDE DEF lo
    <3>1. CASE synced'[p] = synced[p]
      BY <2>4, <3>1
    <3>2. CASE synced'[p] = written[p]
      BY <2>4, <3>2
    <3> QED BY <1>2, <3>1, <3>2
  <2> HIDE DEF lo
  <2>6. Redoable(log', p, i, synced'[p], lo, tail)
    BY <1>3, <2>5, RedoablePrefix
  <2> QED BY <2>3, <2>6 DEF lo
<1>18. Pooled(log', Doubted(log', phase'), pool', written')
  <2>1. DOMAIN pool' = {}
    BY <1>2
  <2> QED BY <2>1 DEF Pooled
<1>19. CkptOK(ckpt', log', pool', written', synced', txn')
  <2>1. ckpt'.pc = "idle"
    BY <1>2 DEF Quiet
  <2> QED BY <2>1 DEF CkptOK
<1>20. phase' # "running"
  BY <1>2
<1> QED BY <1>1, <1>6, <1>10, <1>11, <1>12, <1>13, <1>15, <1>16, <1>17, <1>18, <1>19, <1>20
        DEF RecoveryInv

-----------------------------------------------------------------------------
(* An update, of which an insertion or a deletion has one, or a split two. *)

\* What of the invariant an update of a page disturbs, while the system runs.
Sound(L, P, x, d, t, last, w, s) ==
    /\ LogOK(L) /\ LogTyped(L, t, <<>>, last) /\ PoolTyped(P, Len(L))
    /\ StatusOK(L, x, d, "running") /\ EndsDurable(L, t)
    /\ Current(L, P, w, {}, "running")
    /\ Filed(L, {}, t, last, w, s) /\ Pooled(L, {}, P, w) /\ Flushed(L, P, t)

\* A transaction updates a page that no other active one has updated.
UpdateOf(L, P, x, w, r) ==
    /\ r.type = "Update" /\ r.page \in Pages /\ r.to \in SUBSET Items
    /\ r.txn = AutoTxn \/ r.txn \in ActiveOf(x)
    /\ r.from = DataIn(P, w, r.page)
    /\ \A n \in 1..Len(L) : IsUpdate(L, n, r.page, ActiveOf(x)) => L[n].txn = r.txn
    /\ r.page \in DOMAIN P => P[r.page].rec_lsn # 0

LEMMA OpenActive ==
    ASSUME NEW L, NEW x, NEW d, StatusOK(L, x, d, "running")
    PROVE  Open(L) \subseteq ActiveOf(x)
BY DEF StatusOK, ActiveOf, Open

LEMMA SoundRecord ==
    ASSUME NEW L, NEW P, NEW x, NEW d, NEW t, NEW last, NEW w, NEW s, Sound(L, P, x, d, t, last, w, s),
           NEW r, UpdateOf(L, P, x, w, r), NEW M, OneMore(L, M, r)
    PROVE  /\ \A i \in Items : i \in r.from <=> Shows(L, {}, r.page, Len(L), i)
           /\ \A i \in Items : i \in r.to <=> Shows(M, {}, r.page, Len(M), i)
           /\ LogOK(M)
<1>1. \A i \in Items : i \in r.from <=> Shows(L, {}, r.page, Len(L), i)
  <2>1. Current(L, P, w, {}, "running") /\ r.from = DataIn(P, w, r.page) /\ r.page \in Pages
    BY DEF Sound, UpdateOf
  <2> QED BY <2>1 DEF Current, TodoDoubt
<1>2. \A i \in Items : i \in r.to <=> Shows(M, {}, r.page, Len(M), i)
  <2> SUFFICES ASSUME NEW i \in Items PROVE i \in r.to <=> Shows(M, {}, r.page, Len(M), i)
    OBVIOUS
  <2>1. IsChange(M, Len(M), r.page)
    BY OneMoreFacts DEF IsChange, Changes, UpdateOf
  <2>2. Counted(M, {}, r.page, Len(M))
    BY <2>1, CountedAll
  <2>3. Shows(M, {}, r.page, Len(M), i) <=>
            IF ~Keeps(r, i) THEN Puts(r, i) ELSE Shows(L, {}, r.page, Len(L), i)
    BY <2>2, OneMoreShows
  <2> QED BY <1>1, <2>3 DEF Keeps, Puts
<1>3. LogOK(M)
  <2>1. \A n \in 1..Len(L) : IsUpdate(L, n, r.page, Open(L)) => L[n].txn = r.txn
    <3>1. Open(L) \subseteq ActiveOf(x)
      BY OpenActive DEF Sound
    <3> QED BY <3>1 DEF UpdateOf, IsUpdate
  <2>2. r.txn \in Txns => \A n \in 1..Len(L) : ~IsEnd(L, n, r.txn)
    <3>1. StatusOK(L, x, d, "running") /\ (r.txn = AutoTxn \/ r.txn \in ActiveOf(x))
      BY DEF Sound, UpdateOf
    <3> QED BY <3>1, RecoveryAssumption DEF StatusOK, ActiveOf
  <2>3. LogOK(L) /\ r.type = "Update"
    BY DEF Sound, UpdateOf
  <2> QED BY <1>1, <2>1, <2>2, <2>3, UpdateOK
<1> QED BY <1>1, <1>2, <1>3

\* What the log says of the pages, whoever is left out.
LEMMA UpdateShows ==
    ASSUME NEW L, NEW P, NEW x, NEW d, NEW t, NEW last, NEW w, NEW s, Sound(L, P, x, d, t, last, w, s),
           NEW r, UpdateOf(L, P, x, w, r), NEW M, OneMore(L, M, r),
           NEW U, U \subseteq ActiveOf(x), NEW p \in Pages, NEW i \in Items
    PROVE  /\ p # r.page \/ r.txn \in U =>
                 (Shows(M, U, p, Len(M), i) <=> Shows(L, U, p, Len(L), i))
           /\ p = r.page /\ r.txn \notin U =>
                 /\ Shows(M, U, p, Len(M), i) <=> i \in r.to
                 /\ Shows(L, U, p, Len(L), i) <=> i \in r.from
<1>1. CASE p # r.page
  BY <1>1, ElsewhereShows
<1>2. CASE p = r.page /\ r.txn \in U
  <2>1. IsUpdate(M, Len(M), p, U) /\ Len(M) \in 1..Len(M)
    BY <1>2, OneMoreFacts DEF IsUpdate, UpdateOf
  <2> QED BY <1>2, <2>1, LeftOutShows
<1>3. CASE p = r.page /\ r.txn \notin U
  <2>1. \A n \in 1..Len(L) : ~IsUpdate(L, n, p, U)
    BY <1>3 DEF UpdateOf, IsUpdate
  <2>2. \A n \in 1..Len(M) : ~IsUpdate(M, n, p, U)
    <3> SUFFICES ASSUME NEW n \in 1..Len(M), IsUpdate(M, n, p, U) PROVE FALSE
      OBVIOUS
    <3>1. CASE n = Len(M)
      BY <1>3, <3>1, OneMoreFacts DEF IsUpdate
    <3>2. CASE n # Len(M)
      <4>1. n \in 1..Len(L) /\ M[n] = L[n]
        BY <3>2, OneMoreFacts
      <4> QED BY <2>1, <4>1 DEF IsUpdate
    <3> QED BY <3>1, <3>2
  <2>3. Shows(L, U, p, Len(L), i) <=> Shows(L, {}, p, Len(L), i)
    BY <2>1, ShowsAll, OneMoreFacts
  <2>4. Shows(M, U, p, Len(M), i) <=> Shows(M, {}, p, Len(M), i)
    BY <2>2, ShowsAll, OneMoreFacts
  <2>5. /\ i \in r.from <=> Shows(L, {}, r.page, Len(L), i)
        /\ i \in r.to <=> Shows(M, {}, r.page, Len(M), i)
    BY SoundRecord
  <2> QED BY <1>3, <2>3, <2>4, <2>5
<1> QED BY <1>1, <1>2, <1>3

LEMMA UpdateStep ==
    ASSUME NEW L, NEW P, NEW x, NEW d, NEW t, NEW last, NEW w, NEW s, Sound(L, P, x, d, t, last, w, s),
           NEW r, UpdateOf(L, P, x, w, r), NEW M, OneMore(L, M, r),
           NEW Q, Put(P, Q, r.page, FrameAfter(P, r.page, r.to, Len(M)))
    PROVE  Sound(M, Q, x, d, t, last, w, s)
<1> DEFINE p == r.page
           e == FrameAfter(P, p, r.to, Len(M))
<1>1. /\ LogOK(L) /\ LogTyped(L, t, <<>>, last) /\ PoolTyped(P, Len(L))
      /\ StatusOK(L, x, d, "running") /\ EndsDurable(L, t)
      /\ Current(L, P, w, {}, "running")
      /\ Filed(L, {}, t, last, w, s) /\ Pooled(L, {}, P, w) /\ Flushed(L, P, t)
  BY DEF Sound
<1>2. /\ r.type = "Update" /\ p \in Pages /\ r.to \in SUBSET Items
      /\ r.txn = AutoTxn \/ r.txn \in ActiveOf(x)
      /\ r.from = DataIn(P, w, p)
      /\ p \in DOMAIN P => P[p].rec_lsn # 0
  BY DEF UpdateOf
<1>3. /\ \A i \in Items : i \in r.from <=> Shows(L, {}, p, Len(L), i)
      /\ \A i \in Items : i \in r.to <=> Shows(M, {}, p, Len(M), i)
      /\ LogOK(M)
  BY SoundRecord
<1>4. /\ DOMAIN Q = DOMAIN P \cup {p} /\ Q[p] = e
      /\ \A q \in DOMAIN P : q # p => Q[q] = P[q]
  BY DEF Put
<1>5. /\ e.data = r.to /\ e.page_lsn = Len(M)
      /\ p \in DOMAIN P => e.rec_lsn = P[p].rec_lsn
      /\ p \notin DOMAIN P => e.rec_lsn = Len(M)
  BY <1>2 DEF FrameAfter
<1>6. /\ t \in Nat /\ Len(L) \in Nat /\ t <= Len(L) /\ Len(M) = Len(L) + 1
      /\ last \in 0..t
  BY <1>1, OneMoreFacts DEF LogTyped
<1>7. PoolTyped(Q, Len(M))
  <2>1. e \in Frame(Len(M)) /\ e.rec_lsn <= e.page_lsn
    BY <1>1, <1>2, <1>6, FrameAfterTyped
  <2>2. Put(P, Q, p, e) /\ Len(L) <= Len(M) /\ Len(M) \in Nat
    BY <1>6
  <2> HIDE DEF e, p
  <2> QED BY <1>1, <1>2, <1>6, <2>1, <2>2, PutTyped
<1>8. LogTyped(M, t, <<>>, last)
  <2>1. last # 0 => M[last] = L[last]
    BY <1>6, OneMoreFacts
  <2> QED BY <1>1, <1>6, <2>1, OneMoreFacts DEF LogTyped
<1>9. StatusOK(M, x, d, "running")
  <2> SUFFICES ASSUME NEW v \in Txns
               PROVE  /\ x[v] = "new" => \A n \in 1..Len(M) : ~Names(M, n, v)
                      /\ x[v] = "active" => \A n \in 1..Len(M) : ~IsEnd(M, n, v)
                      /\ v \in Open(M) => x[v] = "active"
                      /\ x[v] \in {"new", "committed", "lost"} => d[v] = {}
    BY DEF StatusOK
  <2>1. \A n \in 1..Len(L) : (IsEnd(M, n, v) <=> IsEnd(L, n, v)) /\ (Names(M, n, v) <=> Names(L, n, v))
    BY OneMoreFacts DEF IsEnd, Names
  <2>2. ~IsEnd(M, Len(M), v) /\ (Names(M, Len(M), v) => v = r.txn)
    BY <1>2, OneMoreFacts DEF IsEnd, Names
  <2>3. v = r.txn => x[v] = "active"
    BY <1>2, RecoveryAssumption DEF ActiveOf
  <2>4. v \in Open(M) => v \in Open(L) \/ v = r.txn
    BY <1>2, OpenUpdated
  <2> QED BY <1>1, <2>1, <2>2, <2>3, <2>4, OneMoreFacts DEF StatusOK
<1>10. EndsDurable(M, t)
  <2>1. t <= t
    BY <1>6
  <2> QED BY <1>1, <1>2, <1>6, <2>1, EndsDurableMore
<1>11. Current(M, Q, w, {}, "running")
  <2> SUFFICES ASSUME NEW q \in Pages, NEW i \in Items
               PROVE  i \in DataIn(Q, w, q) <=> Shows(M, {}, q, Len(M), i)
    BY DEF Current
  <2>1. CASE q = p
    BY <1>3, <1>4, <1>5, <2>1 DEF DataIn
  <2>2. CASE q # p
    <3>1. DataIn(Q, w, q) = DataIn(P, w, q)
      BY <1>4, <2>2 DEF DataIn
    <3>2. Shows(M, {}, q, Len(M), i) <=> Shows(L, {}, q, Len(L), i)
      BY <2>2, ElsewhereShows
    <3>3. i \in DataIn(P, w, q) <=> Shows(L, {}, q, Len(L), i)
      BY <1>1 DEF Current, TodoDoubt
    <3> QED BY <3>1, <3>2, <3>3
  <2> QED BY <2>1, <2>2
<1>12. Filed(M, {}, t, last, w, s)
  <2>1. \A q \in Pages, i \in Items : ~Doubtful(L, {}, q, i)
    BY NoDoubt
  <2> QED BY <1>1, <2>1, FiledMore
<1>13. Pooled(M, {}, Q, w)
  <2> SUFFICES ASSUME NEW q \in DOMAIN Q, NEW i \in Items
               PROVE  Redoable(M, q, i, w[q], Q[q].rec_lsn, Len(M))
    BY DEF Pooled
  <2>1. CASE q \in DOMAIN P
    <3>1. Redoable(L, q, i, w[q], P[q].rec_lsn, Len(L))
      BY <1>1, <2>1, NoDoubt DEF Pooled
    <3>2. P[q].rec_lsn \in 0..Len(L) + 1
      <4>1. P[q] \in Frame(Len(L))
        BY <1>1, <2>1 DEF PoolTyped
      <4> QED BY <1>6, <4>1 DEF Frame
    <3>3. Q[q].rec_lsn = P[q].rec_lsn
      BY <1>4, <1>5, <2>1
    <3>4. Redoable(M, q, i, w[q], P[q].rec_lsn, Len(M))
      BY <3>1, <3>2, RedoableMore
    <3> QED BY <3>3, <3>4
  <2>2. CASE q \notin DOMAIN P
    <3>1. q = p /\ Q[q].rec_lsn = Len(M) /\ r.from = w[p]
      BY <1>2, <1>4, <1>5, <2>2 DEF DataIn
    <3>2. CASE ~Keeps(r, i)
      <4>1. Len(M) \in 1..Len(M) /\ Len(M) >= Len(M) /\ M[Len(M)] = r /\ IsChange(M, Len(M), p)
        BY <1>2, <1>6, OneMoreFacts DEF IsChange, Changes
      <4> QED BY <3>1, <3>2, <4>1 DEF Redoable
    <3>3. CASE Keeps(r, i)
      BY <1>3, <3>1, <3>3 DEF Redoable, Keeps
    <3> QED BY <3>2, <3>3
  <2> QED BY <2>1, <2>2
<1>14. Flushed(M, Q, t)
  <2> SUFFICES ASSUME NEW q \in Pages, NEW n \in 1..Len(M), IsChange(M, n, q)
               PROVE  n <= t \/ (q \in DOMAIN Q /\ n <= Q[q].page_lsn)
    BY DEF Flushed
  <2>1. CASE n = Len(M)
    <3>1. q = p
      BY <2>1, OneMoreFacts DEF IsChange
    <3>2. n <= Len(M)
      BY <1>6, <2>1
    <3> QED BY <1>4, <1>5, <3>1, <3>2
  <2>2. CASE n # Len(M)
    <3>1. n \in 1..Len(L) /\ M[n] = L[n]
      BY <2>2, OneMoreFacts
    <3>2. n <= t \/ (q \in DOMAIN P /\ n <= P[q].page_lsn)
      BY <1>1, <3>1 DEF Flushed, IsChange
    <3>3. n <= Len(M)
      BY <1>6
    <3> QED BY <1>4, <1>5, <3>2, <3>3
  <2> QED BY <2>1, <2>2
<1> QED BY <1>3, <1>7, <1>8, <1>9, <1>10, <1>11, <1>12, <1>13, <1>14 DEF Sound

\* More of the log is durable.
LEMMA SoundTail ==
    ASSUME NEW L, NEW P, NEW x, NEW d, NEW t, NEW u, NEW last, NEW w, NEW s,
           Sound(L, P, x, d, t, last, w, s), u \in t..Len(L)
    PROVE  Sound(L, P, x, d, u, last, w, s)
<1>1. /\ LogOK(L) /\ LogTyped(L, t, <<>>, last) /\ EndsDurable(L, t)
      /\ Filed(L, {}, t, last, w, s) /\ Flushed(L, P, t)
  BY DEF Sound
<1>2. t \in Nat /\ Len(L) \in Nat /\ u \in Nat /\ t <= u /\ \A n \in 1..Len(L) : n <= t => n <= u
  BY <1>1, LogLen DEF LogTyped
<1>3. LogTyped(L, u, <<>>, last)
  BY <1>1, <1>2 DEF LogTyped
<1>4. EndsDurable(L, u) /\ Flushed(L, P, u)
  BY <1>1, <1>2 DEF EndsDurable, Flushed
<1>5. Filed(L, {}, u, last, w, s)
  BY <1>1, FiledTail
<1> QED BY <1>3, <1>4, <1>5 DEF Sound

\* The rest of the invariant says nothing of a system that runs.
LEMMA SoundNow ==
    ASSUME RecoveryInv, phase = "running"
    PROVE  Sound(log, pool, txn, did, tail, last_ckpt, written, synced)
<1>1. todo = {} /\ LogTyped(log, tail, <<>>, last_ckpt) /\ PoolTyped(pool, Len(log))
  BY InvFacts
<1>2. Doubted(log, phase) = {}
  BY DEF Doubted
<1> QED BY <1>1, <1>2 DEF RecoveryInv, Sound

LEMMA SoundAgain ==
    ASSUME TypeInv', phase' = "running", todo' = {}, losers' = {}, ckpt' = Quiet,
           Sound(log', pool', txn', did', tail', last_ckpt', written', synced'),
           AutoItems(log', did'), DidsApart(did'), Meaning(log', txn', did', base', phase')
    PROVE  RecoveryInv'
<1>1. ckpt'.pc = "idle"
  BY DEF Quiet
<1>2. CkptOK(ckpt', log', pool', written', synced', txn')
  BY <1>1 DEF CkptOK
<1>3. /\ UndoneOK(log', todo', phase') /\ TodoOK(log', todo', losers', phase')
      /\ Compensated(log', todo', losers', pool', last_ckpt', phase')
      /\ UpdatesDurable(log', tail', phase')
  BY DEF UndoneOK, TodoOK, Compensated, UpdatesDurable
<1>4. Doubted(log', phase') = {}
  BY DEF Doubted
<1> QED BY <1>2, <1>3, <1>4 DEF RecoveryInv, Sound

\* The items of d after the transaction v changed i.
TouchedIs(d, e, v, i) ==
    \/ /\ v = AutoTxn \/ \E u \in Txns \cup {AutoTxn} : u # v /\ i \in d[u]
       /\ e[AutoTxn] = d[AutoTxn] \cup {i} /\ \A u \in Txns : e[u] = d[u] \ {i}
    \/ /\ v \in Txns /\ \A u \in Txns \cup {AutoTxn} : u # v => i \notin d[u]
       /\ e[v] = (IF i \in d[v] THEN d[v] \ {i} ELSE d[v] \cup {i}) /\ OthersKeep(d, e, v)

\* A transaction that goes on is not new, nor ended.
LEMMA SoundDid ==
    ASSUME NEW L, NEW P, NEW x, NEW d, NEW e, NEW t, NEW last, NEW w, NEW s, NEW v, NEW i,
           Sound(L, P, x, d, t, last, w, s), v = AutoTxn \/ v \in ActiveOf(x), TouchedIs(d, e, v, i)
    PROVE  Sound(L, P, x, e, t, last, w, s)
<1>1. StatusOK(L, x, d, "running")
  BY DEF Sound
<1>2. \A u \in Txns : x[u] \in {"new", "committed", "lost"} => d[u] = {} /\ u # v
  BY <1>1, RecoveryAssumption DEF ActiveOf, StatusOK
<1>3. \A u \in Txns : x[u] \in {"new", "committed", "lost"} => e[u] = {}
  BY <1>2 DEF TouchedIs, OthersKeep
<1>4. StatusOK(L, x, e, "running")
  BY <1>1, <1>3 DEF StatusOK
<1> QED BY <1>4 DEF Sound

-----------------------------------------------------------------------------
(* Insertions, deletions and splits. *)

\* The callers' discipline, for one record.
LEMMA OrderlyUpdate ==
    ASSUME RecoveryInv, NEW t \in Txns \cup {AutoTxn}, MayUpdate(t), Isolated, UndoneWritten,
           NEW r, r \in NewRecords, r.type = "Update", r.txn = t, r.page \in Pages
    PROVE  /\ t = AutoTxn \/ t \in ActiveOf(txn)
           /\ \A n \in 1..Len(log) : IsUpdate(log, n, r.page, ActiveOf(txn)) => log[n].txn = t
           /\ r.page \in DOMAIN pool => pool[r.page].rec_lsn # 0
<1>1. phase = "running" /\ (t = AutoTxn \/ t \in ActiveOf(txn))
  BY ActiveIs DEF MayUpdate, Calls
<1>2. \A n \in 1..Len(log) : IsUpdate(log, n, r.page, ActiveOf(txn)) => log[n].txn = t
  <2>1. DOMAIN log = 1..Len(log)
    BY InvFacts
  <2>2. \A n \in DOMAIN log :
          log[n].type = "Update" /\ log[n].page = r.page => log[n].txn \notin Active \ {r.txn}
    BY <1>1 DEF Isolated
  <2> QED BY <2>1, <2>2, ActiveIs DEF IsUpdate
<1>3. r.page \in DOMAIN pool => pool[r.page].rec_lsn # 0
  BY <1>1 DEF UndoneWritten
<1> QED BY <1>1, <1>2, <1>3

\* What a page's one insertion or deletion means.
LEMMA MeantToggled ==
    ASSUME NEW L, NEW M, NEW U, NEW d, NEW e, NEW b, NEW t \in Txns \cup {AutoTxn}, NEW i \in Items,
           NEW p \in Pages, NEW from, NEW to, AutoTxn \notin Txns,
           MeantFor(L, U, d, b), TouchedIs(d, e, t, i),
           \A j : j # i => (j \in to <=> j \in from), i \in to <=> i \notin from,
           \A q \in Pages, j \in Items : q # p \/ t \in U =>
               (Shows(M, U, q, Len(M), j) <=> Shows(L, U, q, Len(L), j)),
           \A j \in Items : t \notin U => /\ Shows(M, U, p, Len(M), j) <=> j \in to
                                          /\ Shows(L, U, p, Len(L), j) <=> j \in from,
           i \in from \/ i \in d[AutoTxn] \/ (i \in b <=> \E u \in Txns : i \in d[u])
    PROVE  MeantFor(M, U, e, b)
<1> SUFFICES ASSUME NEW j \in Items \ e[AutoTxn]
             PROVE  /\ \A a \in Pages, c \in Pages :
                          Shows(M, U, a, Len(M), j) /\ Shows(M, U, c, Len(M), j) => a = c
                    /\ (\E a \in Pages : Shows(M, U, a, Len(M), j))
                          <=> ~(j \in b <=> \E u \in Txns \ U : j \in e[u])
  BY DEF MeantFor
<1> DEFINE S(a) == Shows(L, U, a, Len(L), j)
           T(a) == Shows(M, U, a, Len(M), j)
           D == \E u \in Txns \ U : j \in d[u]
           E == \E u \in Txns \ U : j \in e[u]
<1>1. j \in Items \ d[AutoTxn] /\ \A u \in Txns : j # i => (j \in e[u] <=> j \in d[u])
  BY DEF TouchedIs, OthersKeep
\* If the item is still someone's, it is t's alone.
<1>2. j = i => /\ t \in Txns /\ (\A u \in Txns : u # t => i \notin d[u] /\ i \notin e[u])
               /\ (i \in e[t] <=> i \notin d[t]) /\ i \notin d[AutoTxn]
  BY <1>1 DEF TouchedIs, OthersKeep
<1>3. /\ \A a \in Pages, c \in Pages : S(a) /\ S(c) => a = c
      /\ (\E a \in Pages : S(a)) <=> ~(j \in b <=> D)
  BY <1>1 DEF MeantFor
<1>4. /\ \A a \in Pages : a # p \/ t \in U => (T(a) <=> S(a))
      /\ t \notin U => (T(p) <=> j \in to) /\ (S(p) <=> j \in from)
  OBVIOUS
<1>5. j # i \/ t \in U => (D <=> E)
  <2>1. CASE j # i
    BY <1>1, <2>1
  <2>2. CASE j = i /\ t \in U
    BY <1>2, <2>2
  <2> QED BY <2>1, <2>2
<1>6. j = i /\ t \notin U => (D <=> i \in d[t]) /\ (E <=> ~D)
  BY <1>2
<1>7. j = i /\ i \notin from => (i \in b <=> i \in d[t])
  BY <1>2
<1> HIDE DEF S, T, D, E
<1>8. CASE j # i \/ t \in U
  <2>1. \A a \in Pages : T(a) <=> S(a)
    BY <1>4, <1>8
  <2>2. (\E a \in Pages : T(a)) <=> ~(j \in b <=> E)
    BY <1>3, <1>5, <1>8, <2>1
  <2> QED BY <1>3, <2>1, <2>2 DEF T, E
<1>9. CASE j = i /\ t \notin U
  <2>1. CASE i \in from
    <3>1. S(p) /\ ~T(p) /\ i \notin to
      BY <1>4, <1>9, <2>1
    <3>2. \A a \in Pages : ~T(a)
      BY <1>3, <1>4, <3>1
    <3>3. j \in b <=> E
      BY <1>3, <1>6, <1>9, <3>1
    <3> QED BY <3>2, <3>3 DEF T, E
  <2>2. CASE i \notin from
    <3>1. T(p) /\ ~(j \in b <=> E)
      BY <1>4, <1>6, <1>7, <1>9, <2>2
    <3>2. \A a \in Pages : ~S(a)
      BY <1>3, <1>6, <1>7, <1>9, <2>2
    <3>3. \A a \in Pages : T(a) <=> a = p
      BY <1>4, <3>1, <3>2
    <3> QED BY <3>1, <3>3 DEF T, E
  <2> QED BY <2>1, <2>2
<1> QED BY <1>8, <1>9

LEMMA TouchedSo ==
    ASSUME did \in [Txns \cup {AutoTxn} -> SUBSET Items], NEW t \in Txns \cup {AutoTxn}, NEW i,
           did' = Touched(t, i)
    PROVE  TouchedIs(did, did', t, i)
<1>1. AutoTxn \notin Txns /\ DOMAIN did = Txns \cup {AutoTxn}
  BY RecoveryAssumption
<1> DEFINE Shared == t = AutoTxn \/ \E u \in Txns \cup {AutoTxn} : u # t /\ i \in did[u]
<1>2. CASE Shared
  <2>1. did' = [u \in DOMAIN did |-> IF u = AutoTxn THEN did[u] \cup {i} ELSE did[u] \ {i}]
    BY <1>1, <1>2 DEF Touched
  <2> QED BY <1>1, <1>2, <2>1 DEF TouchedIs
<1>3. CASE ~Shared
  <2>1. did' = [did EXCEPT ![t] = IF i \in @ THEN @ \ {i} ELSE @ \cup {i}]
    BY <1>1, <1>3 DEF Touched
  <2> QED BY <1>1, <1>3, <2>1 DEF TouchedIs, OthersKeep
<1> QED BY <1>2, <1>3

LEMMA ApartTouched ==
    ASSUME NEW d, NEW e, NEW t, NEW i, DidsApart(d), TouchedIs(d, e, t, i)
    PROVE  DidsApart(e)
<1>1. \A u, v \in Txns \cup {AutoTxn} : \A j : u # v /\ j \in d[u] => j \notin d[v]
  BY DEF DidsApart
<1>2. \A u, v \in Txns \cup {AutoTxn} : \A j : u # v /\ j \in e[u] => j \notin e[v]
  BY <1>1, RecoveryAssumption DEF TouchedIs, OthersKeep
<1> QED BY <1>2 DEF DidsApart

LEMMA ToggleInv ==
    ASSUME RecoveryInv, NEW t \in Txns \cup {AutoTxn}, NEW p \in Pages, NEW i \in Items,
           Toggle(t, p, i), Isolated, UndoneWritten
    PROVE  RecoveryInv'
<1> DEFINE from == DataIn(pool, written, p)
           to == IF i \in from THEN from \ {i} ELSE from \cup {i}
           r == Update(t, p, to)
<1>1. TypeInv'
  BY ToggleTyped, InvFacts
<1>2. /\ MayUpdate(t) /\ (i \in from \/ i \notin Visible)
      /\ AppendAll(<<r>>) /\ pool' = Dirtied(pool, p, to, Len(log) + 1)
      /\ did' = Touched(t, i)
      /\ UNCHANGED <<written, synced, ckpt, last_ckpt, phase, todo, losers, crashes, txn, base>>
  BY DataIsIn DEF Toggle, fileVars, recoverVars
<1>3. phase = "running" /\ ckpt = Quiet /\ todo = {} /\ losers = {}
  BY <1>2, InvFacts DEF MayUpdate, Calls
<1>4. from \in SUBSET Items
  BY DataTyped, InvFacts
<1>5. to \in SUBSET Items /\ (\A j : j # i => (j \in to <=> j \in from)) /\ (i \in to <=> i \notin from)
  BY <1>4
<1> HIDE DEF to
<1>6. r \in Record
  BY <1>5, UpdateTyped, InvFacts
<1>7. r.type = "Update" /\ r.txn = t /\ r.page = p /\ r.from = from /\ r.to = to
  BY DataIsIn DEF Update
<1> HIDE DEF r
<1>8. OneMore(log, log', r) /\ tail' \in tail..Len(log') /\ tail' \in Nat /\ tail <= tail'
  BY <1>2, <1>6, AppendOne
<1>9. r \in NewRecords
  <2>1. Len(log') \in Len(log) + 1..Len(log') /\ log'[Len(log')] = r
    BY <1>8, OneMoreFacts
  <2> QED BY <2>1 DEF NewRecords
<1>10. UpdateOf(log, pool, txn, written, r)
  BY <1>2, <1>5, <1>7, <1>9, OrderlyUpdate DEF UpdateOf
<1>11. Sound(log, pool, txn, did, tail, last_ckpt, written, synced)
  BY <1>3, SoundNow
<1>13. TouchedIs(did, did', t, i)
  BY <1>2, TouchedSo, InvFacts
<1>12. Sound(log', pool', txn', did', tail', last_ckpt', written', synced')
  <2>1. Put(pool, pool', r.page, FrameAfter(pool, r.page, r.to, Len(log')))
    <3>1. Len(log') = Len(log) + 1
      BY <1>8, OneMoreFacts
    <3> QED BY <1>2, <1>7, <3>1, DirtiedPuts
  <2>2. Sound(log', pool', txn, did, tail, last_ckpt, written, synced)
    BY <1>8, <1>10, <1>11, <2>1, UpdateStep
  <2>3. Sound(log', pool', txn, did, tail', last_ckpt, written, synced)
    BY <1>8, <2>2, SoundTail
  <2>5. t = AutoTxn \/ t \in ActiveOf(txn)
    BY <1>7, <1>10 DEF UpdateOf
  <2>6. Sound(log', pool', txn, did', tail', last_ckpt, written, synced)
    BY <2>3, <2>5, <1>13, SoundDid
  <2> QED BY <1>2, <2>6
<1>14. AutoItems(log', did')
  <2>1. AutoItems(log, did) /\ did[AutoTxn] \subseteq did'[AutoTxn] /\ (t = AutoTxn => i \in did'[AutoTxn])
    BY <1>13, RecoveryAssumption DEF RecoveryInv, OthersKeep, TouchedIs
  <2>2. r.type = "Update" /\ r.txn = AutoTxn => \A j \in Items : Moves(r, j) => j \in did'[AutoTxn]
    BY <1>5, <1>7, <2>1 DEF Moves
  <2> QED BY <1>8, <2>1, <2>2, AutoItemsMore
<1>15. DidsApart(did')
  <2>1. DidsApart(did)
    BY DEF RecoveryInv
  <2> QED BY <1>13, <2>1, ApartTouched
\* An item that no page shows is in neither the base nor a transaction, or in both.
<1>16. i \in from \/ i \in did[AutoTxn] \/ (i \in base <=> \E u \in Txns : i \in did[u])
  <2> SUFFICES ASSUME i \notin Visible, i \notin did[AutoTxn]
               PROVE  i \in base <=> \E u \in Txns : i \in did[u]
    BY <1>2
  <2>1. \A q \in Pages : ~Shows(log, {}, q, Len(log), i)
    <3> SUFFICES ASSUME NEW q \in Pages PROVE ~Shows(log, {}, q, Len(log), i)
      OBVIOUS
    <3>1. i \notin DataIn(pool, written, q)
      BY DataIsIn DEF Visible
    <3> QED BY <1>3, <3>1, RunningCurrent
  <2>2. MeantFor(log, {}, did, base)
    BY <1>3 DEF RecoveryInv, Meaning
  <2>3. i \in Items \ did[AutoTxn]
    OBVIOUS
  <2>4. (\E q \in Pages : Shows(log, {}, q, Len(log), i)) <=> ~(i \in base <=> \E u \in Txns \ {} : i \in did[u])
    BY <2>2, <2>3 DEF MeantFor
  <2> QED BY <2>1, <2>4
<1>17. Meaning(log', txn', did', base', phase')
  <2> SUFFICES ASSUME NEW U \in SUBSET ActiveOf(txn) PROVE MeantFor(log', U, did', base)
    BY <1>2, <1>3 DEF Meaning
  <2>1. MeantFor(log, U, did, base)
    BY <1>3 DEF RecoveryInv, Meaning
  <2>2. \A q \in Pages, j \in Items : q # p \/ t \in U =>
            (Shows(log', U, q, Len(log'), j) <=> Shows(log, U, q, Len(log), j))
    BY <1>7, <1>8, <1>10, <1>11, UpdateShows
  <2>3. \A j \in Items : t \notin U => /\ Shows(log', U, p, Len(log'), j) <=> j \in to
                                       /\ Shows(log, U, p, Len(log), j) <=> j \in from
    BY <1>7, <1>8, <1>10, <1>11, UpdateShows
  <2> HIDE DEF from
  <2> QED BY <1>5, <1>13, <1>16, <2>1, <2>2, <2>3, MeantToggled, RecoveryAssumption
<1> QED BY <1>1, <1>2, <1>3, <1>12, <1>14, <1>15, <1>17, SoundAgain

\* What moving items from one page to another means: nothing.
LEMMA MeantMoved ==
    ASSUME NEW L, NEW M, NEW U, NEW d, NEW b, NEW p \in Pages, NEW q \in Pages, p # q,
           MeantFor(L, U, d, b), NEW moved,
           \A a \in Pages \ {p, q}, j \in Items :
               Shows(M, U, a, Len(M), j) <=> Shows(L, U, a, Len(L), j),
           \A j \in Items : j \in moved => Shows(L, U, p, Len(L), j),
           \A j \in Items : Shows(M, U, p, Len(M), j) <=> Shows(L, U, p, Len(L), j) /\ j \notin moved,
           \A j \in Items : Shows(M, U, q, Len(M), j) <=> Shows(L, U, q, Len(L), j) \/ j \in moved
    PROVE  MeantFor(M, U, d, b)
<1> SUFFICES ASSUME NEW j \in Items \ d[AutoTxn]
             PROVE  /\ \A a \in Pages, c \in Pages :
                          Shows(M, U, a, Len(M), j) /\ Shows(M, U, c, Len(M), j) => a = c
                    /\ (\E a \in Pages : Shows(M, U, a, Len(M), j))
                          <=> ~(j \in b <=> \E u \in Txns \ U : j \in d[u])
  BY DEF MeantFor
<1> DEFINE S(a) == Shows(L, U, a, Len(L), j)
           T(a) == Shows(M, U, a, Len(M), j)
           D == \E u \in Txns \ U : j \in d[u]
<1>1. /\ \A a \in Pages, c \in Pages : S(a) /\ S(c) => a = c
      /\ (\E a \in Pages : S(a)) <=> ~(j \in b <=> D)
  BY DEF MeantFor
<1>2. /\ \A a \in Pages : a # p /\ a # q => (T(a) <=> S(a))
      /\ j \in moved => S(p)
      /\ T(p) <=> S(p) /\ j \notin moved
      /\ T(q) <=> S(q) \/ j \in moved
  OBVIOUS
<1> HIDE DEF S, T, D
<1>3. CASE j \in moved
  <2>1. \A a \in Pages : T(a) <=> a = q
    BY <1>1, <1>2, <1>3
  <2>2. (\E a \in Pages : T(a)) <=> (\E a \in Pages : S(a))
    BY <1>2, <1>3, <2>1
  <2> QED BY <1>1, <2>1, <2>2 DEF T, D
<1>4. CASE j \notin moved
  <2>1. \A a \in Pages : T(a) <=> S(a)
    BY <1>2, <1>4
  <2> QED BY <1>1, <2>1 DEF T, D
<1> QED BY <1>3, <1>4

LEMMA SplitInv ==
    ASSUME RecoveryInv, NEW t \in Txns \cup {AutoTxn}, NEW p \in Pages, NEW q \in Pages,
           NEW moved \in SUBSET Items, Split(t, p, q, moved), Isolated, UndoneWritten, AutoOnePage
    PROVE  RecoveryInv'
<1> DEFINE left == DataIn(pool, written, p) \ moved
           right == DataIn(pool, written, q) \cup moved
           a == Update(t, p, left)
           b == Update(t, q, right)
           P == Dirtied(pool, p, left, Len(log) + 1)
           M == log \o <<a>>
<1>1. TypeInv'
  BY SplitTyped, InvFacts
<1>2. /\ MayUpdate(t) /\ p # q /\ moved \subseteq DataIn(pool, written, p)
      /\ AppendAll(<<a, b>>) /\ pool' = Dirtied(P, q, right, Len(log) + 2)
      /\ UNCHANGED <<written, synced, ckpt, last_ckpt, phase, todo, losers, crashes, txn, did, base>>
  BY DataIsIn DEF Split, fileVars, recoverVars, historyVars
<1>3. phase = "running" /\ ckpt = Quiet /\ todo = {} /\ losers = {}
  BY <1>2, InvFacts DEF MayUpdate, Calls
<1>4. left \in SUBSET Items /\ right \in SUBSET Items
  BY DataTyped, InvFacts
<1>5. a \in Record /\ b \in Record
  <2> HIDE DEF left, right
  <2> QED BY <1>4, UpdateTyped, InvFacts
<1>6. /\ a.type = "Update" /\ a.txn = t /\ a.page = p /\ a.from = DataIn(pool, written, p) /\ a.to = left
      /\ b.type = "Update" /\ b.txn = t /\ b.page = q /\ b.from = DataIn(pool, written, q) /\ b.to = right
  BY DataIsIn DEF Update
<1> HIDE DEF a, b, left, right, P
<1>7. log' = log \o <<a, b>> /\ tail' \in tail..Len(log')
  <2> DEFINE recs == <<a, b>>
  <2>1. recs \in Seq(Record)
    BY <1>5, Two
  <2>2. AppendAll(recs)
    BY <1>2
  <2> HIDE DEF recs
  <2>3. log' = log \o recs /\ GoesOn(log, tail, log', tail')
    BY <2>1, <2>2, AppendGoesOn, InvFacts
  <2> QED BY <2>3 DEF GoesOn, recs
<1>8. OneMore(log, M, a) /\ OneMore(M, log', b)
  BY <1>5, <1>7, TwoMore, InvFacts
<1> HIDE DEF M
<1>9. Len(M) = Len(log) + 1 /\ Len(log') = Len(log) + 2 /\ Len(log) \in Nat
      /\ log'[Len(log) + 1] = a /\ log'[Len(log) + 2] = b
  <2>1. Len(M) = Len(log) + 1 /\ Len(log') = Len(M) + 1 /\ Len(log) \in Nat
    BY <1>8, OneMoreFacts
  <2>2. log'[Len(M)] = M[Len(M)] /\ M[Len(M)] = a /\ log'[Len(log')] = b
    BY <1>8, OneMoreFacts
  <2> QED BY <2>1, <2>2
<1>10. a \in NewRecords /\ b \in NewRecords
  <2>1. Len(log) + 1 \in Len(log) + 1..Len(log') /\ Len(log) + 2 \in Len(log) + 1..Len(log')
    BY <1>9
  <2> QED BY <1>9, <2>1 DEF NewRecords
<1>11. t # AutoTxn
  BY <1>6, <1>9 DEF AutoOnePage
<1>12. UpdateOf(log, pool, txn, written, a)
  BY <1>2, <1>4, <1>6, <1>10, OrderlyUpdate DEF UpdateOf
<1>13. Put(pool, P, p, FrameAfter(pool, p, left, Len(M)))
  BY <1>9, DirtiedPuts DEF P
<1>14. UpdateOf(M, P, txn, written, b)
  <2>1. /\ t = AutoTxn \/ t \in ActiveOf(txn)
        /\ \A n \in 1..Len(log) : IsUpdate(log, n, q, ActiveOf(txn)) => log[n].txn = t
        /\ q \in DOMAIN pool => pool[q].rec_lsn # 0
    BY <1>2, <1>6, <1>10, OrderlyUpdate
  <2>2. \A n \in 1..Len(M) : IsUpdate(M, n, q, ActiveOf(txn)) => M[n].txn = t
    <3> SUFFICES ASSUME NEW n \in 1..Len(M), IsUpdate(M, n, q, ActiveOf(txn)) PROVE M[n].txn = t
      OBVIOUS
    <3>1. CASE n = Len(M)
      BY <1>6, <1>8, <3>1, OneMoreFacts
    <3>2. CASE n # Len(M)
      <4>1. n \in 1..Len(log) /\ M[n] = log[n]
        BY <1>8, <3>2, OneMoreFacts
      <4> QED BY <2>1, <4>1 DEF IsUpdate
    <3> QED BY <3>1, <3>2
  <2>3. (q \in DOMAIN P <=> q \in DOMAIN pool) /\ (q \in DOMAIN pool => P[q] = pool[q])
    BY <1>2, <1>13 DEF Put
  <2>4. DataIn(P, written, q) = DataIn(pool, written, q)
    BY <2>3 DEF DataIn
  <2> QED BY <1>4, <1>6, <2>1, <2>2, <2>3, <2>4 DEF UpdateOf
<1>15. Sound(log, pool, txn, did, tail, last_ckpt, written, synced)
  BY <1>3, SoundNow
<1>16. Sound(M, P, txn, did, tail, last_ckpt, written, synced)
  BY <1>6, <1>8, <1>12, <1>13, <1>15, UpdateStep
<1>17. Sound(log', pool', txn, did, tail, last_ckpt, written, synced)
  <2>1. Put(P, pool', q, FrameAfter(P, q, right, Len(log')))
    BY <1>2, <1>9, DirtiedPuts
  <2> QED BY <1>6, <1>8, <1>14, <1>16, <2>1, UpdateStep
<1>18. Sound(log', pool', txn', did', tail', last_ckpt', written', synced')
  <2>1. Sound(log', pool', txn, did, tail', last_ckpt, written, synced)
    BY <1>7, <1>17, SoundTail
  <2> QED BY <1>2, <2>1
<1>19. AutoItems(log', did') /\ DidsApart(did')
  <2>1. AutoItems(log, did) /\ DidsApart(did) /\ did[AutoTxn] \subseteq did[AutoTxn]
    BY DEF RecoveryInv
  <2>2. AutoItems(M, did)
    BY <1>6, <1>8, <1>11, <2>1, AutoItemsMore
  <2>3. AutoItems(log', did)
    BY <1>6, <1>8, <1>11, <2>1, <2>2, AutoItemsMore
  <2> QED BY <1>2, <2>1, <2>3
<1>20. Meaning(log', txn', did', base', phase')
  <2> SUFFICES ASSUME NEW U \in SUBSET ActiveOf(txn) PROVE MeantFor(log', U, did, base)
    BY <1>2, <1>3 DEF Meaning
  <2>1. MeantFor(log, U, did, base)
    BY <1>3 DEF RecoveryInv, Meaning
  <2>2. ASSUME NEW c \in Pages, NEW j \in Items
        PROVE  /\ c # p \/ t \in U => (Shows(M, U, c, Len(M), j) <=> Shows(log, U, c, Len(log), j))
               /\ c = p /\ t \notin U => /\ Shows(M, U, c, Len(M), j) <=> j \in left
                                         /\ Shows(log, U, c, Len(log), j) <=> j \in a.from
    BY <1>6, <1>8, <1>12, <1>15, UpdateShows
  <2>3. ASSUME NEW c \in Pages, NEW j \in Items
        PROVE  /\ c # q \/ t \in U => (Shows(log', U, c, Len(log'), j) <=> Shows(M, U, c, Len(M), j))
               /\ c = q /\ t \notin U => /\ Shows(log', U, c, Len(log'), j) <=> j \in right
                                         /\ Shows(M, U, c, Len(M), j) <=> j \in b.from
    BY <1>6, <1>8, <1>14, <1>16, UpdateShows
  <2>4. CASE t \in U
    <3>1. \A c \in Pages, j \in Items :
              Shows(log', U, c, Len(log'), j) <=> Shows(log, U, c, Len(log), j)
      BY <2>2, <2>3, <2>4
    <3> QED BY <2>1, <3>1 DEF MeantFor
  <2>5. CASE t \notin U
    <3>1. \A c \in Pages \ {p, q}, j \in Items :
              Shows(log', U, c, Len(log'), j) <=> Shows(log, U, c, Len(log), j)
      BY <2>2, <2>3
    <3>2. \A j \in Items : j \in moved => Shows(log, U, p, Len(log), j)
      BY <1>2, <1>6, <2>2, <2>5
    <3>3. \A j \in Items : Shows(log', U, p, Len(log'), j) <=>
                               Shows(log, U, p, Len(log), j) /\ j \notin moved
      BY <1>2, <1>6, <2>2, <2>3, <2>5 DEF left
    <3>4. \A j \in Items : Shows(log', U, q, Len(log'), j) <=>
                               Shows(log, U, q, Len(log), j) \/ j \in moved
      BY <1>2, <1>6, <2>2, <2>3, <2>5 DEF right
    <3> QED BY <1>2, <2>1, <3>1, <3>2, <3>3, <3>4, MeantMoved
  <2> QED BY <2>4, <2>5
<1> QED BY <1>1, <1>2, <1>3, <1>18, <1>19, <1>20, SoundAgain

-----------------------------------------------------------------------------
(* The invariant holds as long as the callers keep to their discipline. *)

LEMMA InitInv ==
    ASSUME Init PROVE RecoveryInv
<1>1. TypeInv /\ log = <<>> /\ tail = 0 /\ pool = <<>> /\ ckpt = Quiet /\ last_ckpt = 0
      /\ phase = "running" /\ todo = {} /\ losers = {} /\ base = {}
      /\ (\A p \in Pages : written[p] = {} /\ synced[p] = {})
      /\ (\A t \in Txns : txn[t] = "new") /\ (\A t \in Txns \cup {AutoTxn} : did[t] = {})
  BY InitTyped DEF Init
<1>2. Len(log) = 0 /\ 1..Len(log) = {} /\ DOMAIN pool = {} /\ \A n : n \notin 1..Len(log)
  BY <1>1
<1>3. \A U, p, i : ~Shows(log, U, p, Len(log), i)
  BY <1>2, ShowsNothing
<1>4. LogOK(log)
  BY <1>1, <1>2 DEF LogOK, Alone, TypeInv, LogTyped
<1>5. StatusOK(log, txn, did, phase)
  BY <1>1, <1>2 DEF StatusOK, Open
<1>6. /\ EndsDurable(log, tail) /\ UpdatesDurable(log, tail, phase)
      /\ AutoItems(log, did) /\ DidsApart(did) /\ Flushed(log, pool, tail)
  BY <1>1, <1>2 DEF EndsDurable, UpdatesDurable, AutoItems, DidsApart, Flushed
<1>7. Meaning(log, txn, did, base, phase)
  BY <1>1, <1>3 DEF Meaning, MeantFor
<1>8. Current(log, pool, written, todo, phase)
  BY <1>1, <1>2, <1>3 DEF Current, DataIn
<1>9. /\ UndoneOK(log, todo, phase) /\ TodoOK(log, todo, losers, phase)
      /\ Compensated(log, todo, losers, pool, last_ckpt, phase)
  BY <1>1 DEF UndoneOK, TodoOK, Compensated
<1>10. Filed(log, Doubted(log, phase), tail, last_ckpt, written, synced)
  <2>1. tail = Len(log)
    BY <1>1, <1>2
  <2> QED BY <1>1, <1>3, <2>1 DEF Filed, Redoable
<1>11. Pooled(log, Doubted(log, phase), pool, written)
  BY <1>2 DEF Pooled
<1>12. CkptOK(ckpt, log, pool, written, synced, txn)
  BY <1>1 DEF CkptOK, Quiet
<1> QED BY <1>1, <1>4, <1>5, <1>6, <1>7, <1>8, <1>9, <1>10, <1>11, <1>12 DEF RecoveryInv

LEMMA StutterInv ==
    ASSUME RecoveryInv, Same
    PROVE  RecoveryInv'
<1>1. TypeInv'
  BY StutterTyped DEF RecoveryInv
<1>2. UNCHANGED <<log, tail, pool, written, synced, ckpt, last_ckpt, phase, todo, losers, txn, did, base>>
  BY DEF Same
<1>3. LogOK(log') /\ StatusOK(log', txn', did', phase')
      /\ EndsDurable(log', tail') /\ UpdatesDurable(log', tail', phase')
      /\ AutoItems(log', did') /\ DidsApart(did')
      /\ Meaning(log', txn', did', base', phase')
  BY <1>2 DEF RecoveryInv
<1>4. /\ Current(log', pool', written', todo', phase')
      /\ UndoneOK(log', todo', phase') /\ TodoOK(log', todo', losers', phase')
      /\ Compensated(log', todo', losers', pool', last_ckpt', phase')
  BY <1>2 DEF RecoveryInv
<1>5. /\ Filed(log', Doubted(log', phase'), tail', last_ckpt', written', synced')
      /\ Pooled(log', Doubted(log', phase'), pool', written')
      /\ phase' = "running" => Flushed(log', pool', tail')
      /\ CkptOK(ckpt', log', pool', written', synced', txn')
  BY <1>2 DEF RecoveryInv
<1> QED BY <1>1, <1>3, <1>4, <1>5 DEF RecoveryInv

LEMMA NextInv ==
    ASSUME RecoveryInv, LeavingTyped, Next, Orderly
    PROVE  RecoveryInv'
<1>1. ASSUME NEW t \in Txns, Begin(t) \/ Commit(t) \/ Abort(t) \/ AbortLoser(t)
      PROVE  RecoveryInv'
  BY <1>1, BeginInv, CommitInv, AbortInv, AbortLoserInv DEF Orderly
<1>2. ASSUME NEW t \in Txns \cup {AutoTxn}, NEW p \in Pages, NEW i \in Items, Toggle(t, p, i)
      PROVE  RecoveryInv'
  BY <1>2, ToggleInv DEF Orderly
<1>3. ASSUME NEW t \in Txns \cup {AutoTxn}, NEW p \in Pages, NEW q \in Pages,
             NEW moved \in SUBSET Items, Split(t, p, q, moved)
      PROVE  RecoveryInv'
  BY <1>3, SplitInv DEF Orderly
<1>4. ASSUME NEW p \in Pages, TakeOut(p) \/ Evict(p)
      PROVE  RecoveryInv'
  BY <1>4, EvictInv, SameIs, StutterInv DEF Orderly
<1>5. CASE SyncData \/ ReadDirtyPages \/ ReadActiveTxns \/ WriteCheckpoint \/ SetCheckpoint
  BY <1>5, SyncDataInv, ReadDirtyPagesInv, ReadActiveTxnsInv, WriteCheckpointInv, SetCheckpointInv
     DEF Orderly
<1>6. CASE Crash \/ Redo \/ Undo \/ Recovered
  BY <1>6, CrashInv, RedoInv, UndoInv, RecoveredInv DEF Orderly
<1> QED BY <1>1, <1>2, <1>3, <1>4, <1>5, <1>6 DEF Next

LEMMA InvSurvives ==
    ASSUME RecoveryInv PROVE CommittedSurvive
<1> SUFFICES ASSUME phase = "running", NEW i \in Items, \A t \in DOMAIN did : i \notin did[t]
             PROVE  i \in Visible <=> i \in base
  BY DEF CommittedSurvive
<1>1. MeantFor(log, {}, did, base)
  BY DEF RecoveryInv, Meaning
<1>2. \A t \in Txns \cup {AutoTxn} : i \notin did[t]
  BY InvFacts
<1>3. (\E p \in Pages : Shows(log, {}, p, Len(log), i)) <=> i \in base
  <2>1. i \in Items \ did[AutoTxn]
    BY <1>2
  <2> QED BY <1>1, <1>2, <2>1 DEF MeantFor
<1>4. \A p \in Pages : i \in Data(p) <=> Shows(log, {}, p, Len(log), i)
  BY RunningCurrent, DataIsIn
<1> QED BY <1>3, <1>4 DEF Visible

\* Pager::recover, with the write-ahead rule of eviction and the checkpoints as they
\* are taken, keeps what committed and removes what did not, however often it is
\* interrupted, as long as the callers and the environment are Orderly.
THEOREM RecoveryRight ==
    Spec /\ [][Orderly]_vars => []CommittedSurvive
<1>1. Init => RecoveryInv /\ LeavingTyped
  BY InitInv DEF Init, LeavingTyped
<1>2. RecoveryInv /\ LeavingTyped /\ [Next]_vars /\ [Orderly]_vars => RecoveryInv' /\ LeavingTyped'
  BY NextInv, NextLeaving, SameIs, StutterInv
<1>3. RecoveryInv => CommittedSurvive
  BY InvSurvives
<1> QED BY <1>1, <1>2, <1>3, PTL DEF Spec

-----------------------------------------------------------------------------
(* What is in the files has records. *)

\* One of the first n records of the log put the item in the page.
PutBy(L, p, n, i) == \E k \in 1..n : IsChange(L, k, p) /\ i \in L[k].to

\* The pages in the files, those in the pool once the log is durable up to their
\* LSN, and what an update found.
FilesPut(L, n, w, s) == \A p \in Pages, i \in Items : i \in w[p] \/ i \in s[p] => PutBy(L, p, n, i)
FramePut(L, n, p, e) == \A i \in e.data : PutBy(L, p, n, i) \/ PutBy(L, p, e.page_lsn, i)
PoolPut(L, n, P) == \A p \in DOMAIN P : FramePut(L, n, p, P[p])
FoundPut(L) ==
    \A n \in 1..Len(L) : L[n].type = "Update" => \A i \in L[n].from : PutBy(L, L[n].page, n - 1, i)

LoggedInv ==
    /\ TypeInv
    /\ FilesPut(log, tail, written, synced) /\ PoolPut(log, tail, pool) /\ FoundPut(log)

LEMMA PutByUp ==
    ASSUME NEW L, NEW M, NEW n \in Nat, NEW m \in Nat, n <= m, Agree(L, M, n), NEW p, NEW i, PutBy(L, p, n, i)
    PROVE  PutBy(M, p, m, i)
BY DEF PutBy, Agree, IsChange

\* The log goes on.
LEMMA PutsGoOn ==
    ASSUME LoggedInv, GoesOn(log, tail, log', tail')
    PROVE  /\ FilesPut(log', tail', written, synced) /\ PoolPut(log', tail', pool)
           /\ \A n \in 1..Len(log) : log'[n].type = "Update" =>
                 \A i \in log'[n].from : PutBy(log', log'[n].page, n - 1, i)
<1>1. /\ Len(log) \in Nat /\ tail \in 0..Len(log) /\ tail' \in tail..Len(log') /\ Len(log') \in Nat
      /\ Len(log) <= Len(log') /\ \A n \in 1..Len(log) : log'[n] = log[n]
  BY LogFacts DEF LoggedInv, GoesOn, Agree
<1>2. ASSUME NEW n \in 0..Len(log), NEW m \in Nat, n <= m, NEW p, NEW i, PutBy(log, p, n, i)
      PROVE  PutBy(log', p, m, i)
  <2>1. n \in Nat /\ Agree(log, log', n)
    BY <1>1 DEF Agree
  <2> QED BY <1>2, <2>1, PutByUp
<1>3. tail' \in Nat /\ tail <= tail'
  BY <1>1
<1>4. FilesPut(log', tail', written, synced)
  BY <1>1, <1>2, <1>3 DEF LoggedInv, FilesPut
<1>5. PoolPut(log', tail', pool)
  <2> SUFFICES ASSUME NEW p \in DOMAIN pool PROVE FramePut(log', tail', p, pool[p])
    BY DEF PoolPut
  <2>1. FramePut(log, tail, p, pool[p]) /\ pool[p] \in Frame(Len(log))
    BY DEF LoggedInv, PoolPut, TypeInv, PoolTyped
  <2>2. pool[p].page_lsn \in 0..Len(log) /\ pool[p].page_lsn \in Nat /\ pool[p].page_lsn <= pool[p].page_lsn
    BY <1>1, <2>1 DEF Frame
  <2> QED BY <1>1, <1>2, <1>3, <2>1, <2>2 DEF FramePut
<1>6. ASSUME NEW n \in 1..Len(log), log'[n].type = "Update", NEW i \in log'[n].from
      PROVE  PutBy(log', log'[n].page, n - 1, i)
  <2>1. PutBy(log, log[n].page, n - 1, i) /\ n - 1 \in 0..Len(log) /\ n - 1 \in Nat /\ n - 1 <= n - 1
    BY <1>1, <1>6 DEF LoggedInv, FoundPut
  <2> QED BY <1>1, <1>2, <2>1
<1> QED BY <1>4, <1>5, <1>6

\* What a page has, in the pool or in its file, has records.
LEMMA DataPut ==
    ASSUME LoggedInv, NEW p \in Pages, NEW i \in Data(p)
    PROVE  PutBy(log, p, Len(log), i)
<1>1. Len(log) \in Nat /\ tail \in 0..Len(log) /\ Agree(log, log, Len(log))
  BY LogFacts DEF LoggedInv, Agree
<1>2. ASSUME NEW n \in 0..Len(log), PutBy(log, p, n, i) PROVE PutBy(log, p, Len(log), i)
  BY <1>1, <1>2 DEF PutBy
<1>3. CASE p \in DOMAIN pool
  <2>1. pool[p] \in Frame(Len(log)) /\ i \in pool[p].data
    BY <1>3 DEF LoggedInv, TypeInv, PoolTyped, Data
  <2>2. pool[p].page_lsn \in 0..Len(log)
    BY <2>1 DEF Frame
  <2>3. PutBy(log, p, tail, i) \/ PutBy(log, p, pool[p].page_lsn, i)
    BY <1>3, <2>1 DEF LoggedInv, PoolPut, FramePut
  <2> QED BY <1>1, <1>2, <2>2, <2>3
<1>4. CASE p \notin DOMAIN pool
  <2>1. i \in written[p] /\ i \in Items
    BY <1>4 DEF Data, LoggedInv, TypeInv, FilesTyped
  <2> QED BY <1>1, <1>2, <2>1 DEF LoggedInv, FilesPut
<1> QED BY <1>3, <1>4

\* Records that change no page, or undo a change: the log goes on and the pool stays.
LEMMA EndPut ==
    ASSUME LoggedInv, TypeInv', NEW r \in Record, r.type # "Update", log' = log \o <<r>>,
           GoesOn(log, tail, log', tail'), UNCHANGED <<pool, written, synced>>
    PROVE  LoggedInv'
<1>1. log \in Seq(Record) /\ Len(log) \in Nat
  BY LogFacts DEF LoggedInv
<1>2. Len(log') = Len(log) + 1 /\ log'[Len(log) + 1] = r
  BY <1>1
<1>3. FoundPut(log')
  <2> SUFFICES ASSUME NEW n \in 1..Len(log'), log'[n].type = "Update"
               PROVE  \A i \in log'[n].from : PutBy(log', log'[n].page, n - 1, i)
    BY DEF FoundPut
  <2>1. n \in 1..Len(log)
    BY <1>1, <1>2
  <2> QED BY <2>1, PutsGoOn
<1> QED BY <1>3, PutsGoOn DEF LoggedInv

LEMMA InitPut ==
    ASSUME Init PROVE LoggedInv
<1>1. TypeInv /\ log = <<>> /\ pool = <<>> /\ \A p \in Pages : written[p] = {} /\ synced[p] = {}
  BY InitTyped DEF Init
<1>2. Len(<<>>) = 0 /\ DOMAIN <<>> = {}
  OBVIOUS
<1> QED BY <1>1, <1>2 DEF LoggedInv, FilesPut, PoolPut, FoundPut

\* A record that is no change is appended.
LEMMA RecordsPut ==
    ASSUME LoggedInv, TypeInv',
           WriteCheckpoint \/ \E t \in Txns : Begin(t) \/ Commit(t) \/ Abort(t) \/ AbortLoser(t)
    PROVE  LoggedInv'
<1>1. TypeInv
  BY DEF LoggedInv
<1>2. UNCHANGED <<pool, written, synced>>
  BY DEF Begin, Commit, Abort, AbortLoser, WriteCheckpoint, fileVars
<1>3. ASSUME NEW r \in Record, r.type # "Update", AppendForced(r) PROVE LoggedInv'
  <2>1. log' = log \o <<r>> /\ GoesOn(log, tail, log', tail')
    BY <1>1, <1>3, ForcedGoesOn
  <2> QED BY <1>2, <1>3, <2>1, EndPut
<1>4. ASSUME NEW t \in Txns, Begin(t) PROVE LoggedInv'
  <2> DEFINE r == [type |-> "Begin", txn |-> t]
  <2>1. r \in Record /\ r.type # "Update" /\ AppendAll(<<r>>)
    BY <1>4, Records DEF Begin
  <2> HIDE DEF r
  <2>2. log' = log \o <<r>> /\ GoesOn(log, tail, log', tail')
    BY <1>1, <2>1, One, AppendGoesOn
  <2> QED BY <1>2, <2>1, <2>2, EndPut
<1>5. ASSUME NEW t \in Txns, Commit(t) \/ Abort(t) \/ AbortLoser(t) PROVE LoggedInv'
  <2>1. PICK r \in Record : AppendForced(r) /\ r.type # "Update"
    BY <1>5, Records DEF Commit, Abort, AbortLoser
  <2> QED BY <1>3, <2>1
<1>6. CASE WriteCheckpoint
  <2>1. ckpt \in CkptStates /\ ckpt.pc = "att"
    BY <1>1, <1>6 DEF TypeInv, CkptTyped, WriteCheckpoint
  <2>2. ckpt.dpt \in Table /\ ckpt.att \in SUBSET Txns
    BY <2>1 DEF CkptStates, Quiet
  <2>3. PICK r \in Record : AppendForced(r) /\ r.type # "Update"
    BY <1>6, <2>2, Records DEF WriteCheckpoint
  <2> QED BY <1>3, <2>3
<1> QED BY <1>4, <1>5, <1>6

LEMMA CheckpointPut ==
    ASSUME LoggedInv, TypeInv', SyncData \/ ReadDirtyPages \/ ReadActiveTxns \/ SetCheckpoint
    PROVE  LoggedInv'
<1>1. UNCHANGED <<log, tail, pool, written>> /\ (synced' = synced \/ synced' = written)
  BY DEF SyncData, ReadDirtyPages, ReadActiveTxns, SetCheckpoint, walVars, fileVars
<1>2. FilesPut(log', tail', written', synced')
  BY <1>1 DEF LoggedInv, FilesPut
<1> QED BY <1>1, <1>2 DEF LoggedInv

\* The log is flushed up to the page's LSN first.
LEMMA EvictPut ==
    ASSUME LoggedInv, LeavingTyped, TypeInv', NEW p \in Pages, Evict(p)
    PROVE  LoggedInv'
<1>1. /\ UNCHANGED <<log, synced>> /\ FlushTo(pool[p].page_lsn) /\ p \in DOMAIN pool
      /\ written' = [written EXCEPT ![p] = pool[p].data]
      /\ pool' = [q \in DOMAIN pool \ {p} |-> pool[q]]
  BY EvictedPage DEF Evict, EvictLsn
<1>2. TypeInv /\ pool[p] \in Frame(Len(log)) /\ written \in [Pages -> SUBSET Items]
  BY <1>1 DEF LoggedInv, TypeInv, PoolTyped, FilesTyped
<1>3. pool[p].page_lsn \in 0..Len(log) /\ pool[p].page_lsn \in Nat
  BY <1>2, LogFacts DEF Frame
<1>4. GoesOn(log, tail, log', tail') /\ pool[p].page_lsn <= tail'
  BY <1>1, <1>2, <1>3, FlushGoesOn
<1>5. /\ FilesPut(log', tail', written, synced) /\ PoolPut(log', tail', pool)
      /\ FoundPut(log')
  BY <1>1, <1>4, PutsGoOn DEF FoundPut
<1>6. ASSUME NEW i \in pool[p].data PROVE PutBy(log', p, tail', i)
  <2>1. PutBy(log', p, tail', i) \/ PutBy(log', p, pool[p].page_lsn, i)
    BY <1>1, <1>5 DEF PoolPut, FramePut
  <2>2. tail' \in Nat
    BY LogFacts DEF TypeInv, LogTyped
  <2> QED BY <1>3, <1>4, <2>1, <2>2 DEF PutBy
<1>7. FilesPut(log', tail', written', synced')
  <2> SUFFICES ASSUME NEW q \in Pages, NEW i \in Items, i \in written'[q] \/ i \in synced'[q]
               PROVE  PutBy(log', q, tail', i)
    BY DEF FilesPut
  <2>1. written'[q] = IF q = p THEN pool[p].data ELSE written[q]
    BY <1>1, <1>2
  <2> QED BY <1>1, <1>5, <1>6, <2>1 DEF FilesPut
<1>8. PoolPut(log', tail', pool')
  BY <1>1, <1>5 DEF PoolPut
<1> QED BY <1>5, <1>7, <1>8 DEF LoggedInv

LEMMA CrashPut ==
    ASSUME LoggedInv, TypeInv', Crash
    PROVE  LoggedInv'
<1>1. /\ log' = SubSeq(log, 1, tail) /\ pool' = <<>> /\ tail' = tail /\ written' = synced'
      /\ \A p \in Pages : synced'[p] \in {synced[p], written[p]}
  BY DEF Crash
<1>2. TypeInv
  BY DEF LoggedInv
<1>3. log \in Seq(Record) /\ Len(log) \in Nat /\ tail \in 0..Len(log) /\ tail \in Nat
  BY <1>2, LogFacts
<1>4. Len(log') = tail /\ \A n \in 1..tail : log'[n] = log[n]
  BY <1>1, <1>3
<1>5. ASSUME NEW n \in 0..tail, NEW p, NEW i, PutBy(log, p, n, i) PROVE PutBy(log', p, n, i)
  BY <1>3, <1>4, <1>5 DEF PutBy, IsChange
<1>6. FilesPut(log', tail', written', synced')
  <2> SUFFICES ASSUME NEW p \in Pages, NEW i \in Items, i \in synced'[p] PROVE PutBy(log', p, tail, i)
    BY <1>1 DEF FilesPut
  <2>1. PutBy(log, p, tail, i)
    BY <1>1 DEF LoggedInv, FilesPut
  <2>2. tail \in 0..tail
    BY <1>3
  <2> QED BY <1>5, <2>1, <2>2
<1>7. DOMAIN <<>> = {}
  OBVIOUS
<1>8. PoolPut(log', tail', pool')
  BY <1>1, <1>7 DEF PoolPut
<1>9. FoundPut(log')
  <2> SUFFICES ASSUME NEW n \in 1..Len(log'), log'[n].type = "Update", NEW i \in log'[n].from
               PROVE  PutBy(log', log'[n].page, n - 1, i)
    BY DEF FoundPut
  <2>1. n \in 1..Len(log) /\ log'[n] = log[n] /\ n - 1 \in 0..tail
    BY <1>3, <1>4
  <2>2. PutBy(log, log[n].page, n - 1, i)
    BY <2>1 DEF LoggedInv, FoundPut
  <2> QED BY <1>5, <2>1, <2>2
<1> QED BY <1>6, <1>8, <1>9 DEF LoggedInv

\* Redo puts in what the records of the page put in.
LEMMA RedoPut ==
    ASSUME LoggedInv, TypeInv', Redo
    PROVE  LoggedInv'
<1>1. TypeInv /\ tail = Len(log) /\ log \in Seq(Record) /\ Len(log) \in Nat
  BY RedoIs, LogFacts DEF LoggedInv, TypeInv
<1>2. /\ UNCHANGED <<log, tail, written, synced>>
      /\ pool' = [p \in {q \in Pages : Redone(log, q) # {}} |->
                     [data |-> Applied(log, Redone(log, p), written[p]),
                      page_lsn |-> MaxOf(Redone(log, p)), rec_lsn |-> MinOf(Redone(log, p))]]
  BY <1>1, RedoIs
<1>3. ASSUME NEW p \in Pages, NEW i \in Applied(log, Redone(log, p), written[p])
      PROVE  PutBy(log, p, tail, i)
  <2> DEFINE D == Redone(log, p)
  <2>1. written[p] \in SUBSET Items /\ D \in SUBSET {n \in 1..Len(log) : log[n].type \in Changes}
        /\ \A n \in D : log[n].page = p
    BY <1>1, RedoneFacts DEF TypeInv, FilesTyped, Redone
  <2> HIDE DEF D
  <2>2. PICK g : Applies(g, log, D, written[p]) /\ Applied(log, D, written[p]) = g[Len(log)]
    BY <1>1, <2>1, AppliedRuns
  <2> DEFINE T(n) == \A j \in g[n] : PutBy(log, p, tail, j)
             N == Len(log)
  <2>3. T(0)
    BY <2>1, <2>2 DEF Applies, LoggedInv, FilesPut
  <2>4. ASSUME NEW n \in 1..N, T(n - 1) PROVE T(n)
    <3>1. CASE n \in D
      <4>1. g[n] \subseteq g[n - 1] \cup log[n].to
        BY <2>2, <3>1 DEF Applies, Cover
      <4>2. \A j \in log[n].to : PutBy(log, p, tail, j)
        BY <1>1, <2>1, <3>1 DEF PutBy, IsChange
      <4> QED BY <2>4, <4>1, <4>2
    <3>2. CASE n \notin D
      BY <2>2, <2>4, <3>2 DEF Applies
    <3> QED BY <3>1, <3>2
  <2>5. T(N)
    <3> DEFINE S == {n \in 0..N : T(n)}
    <3>1. N \in Nat /\ 0 \in S /\ \A n \in 1..N : n - 1 \in S => n \in S
      <4> HIDE DEF T
      <4> QED BY <1>1, <2>3, <2>4
    <3> HIDE DEF N, S
    <3>2. N \in S
      BY <3>1, UpTo
    <3> QED BY <3>2 DEF S
  <2> QED BY <1>3, <2>2, <2>5 DEF D
<1>4. PoolPut(log', tail', pool')
  BY <1>2, <1>3 DEF PoolPut, FramePut
<1> QED BY <1>2, <1>4 DEF LoggedInv

LEMMA PutFrame ==
    ASSUME NEW L, NEW n, NEW P, NEW Q, NEW p, NEW e, Put(P, Q, p, e), PoolPut(L, n, P), FramePut(L, n, p, e)
    PROVE  PoolPut(L, n, Q)
<1> SUFFICES ASSUME NEW x \in DOMAIN Q PROVE FramePut(L, n, x, Q[x])
  BY DEF PoolPut
<1>1. CASE x = p
  BY <1>1 DEF Put
<1>2. CASE x # p
  <2>1. x \in DOMAIN P /\ Q[x] = P[x]
    BY <1>2 DEF Put
  <2> QED BY <2>1 DEF PoolPut
<1> QED BY <1>1, <1>2

\* A page's frame after a change that is in the log.
LEMMA ChangedFrame ==
    ASSUME NEW L \in Seq(Record), NEW k \in 1..Len(L), L[k].type = "Update", NEW n, NEW P
    PROVE  FramePut(L, n, L[k].page, FrameAfter(P, L[k].page, L[k].to, k))
<1>1. /\ FrameAfter(P, L[k].page, L[k].to, k).data = L[k].to
      /\ FrameAfter(P, L[k].page, L[k].to, k).page_lsn = k
  BY DEF FrameAfter
<1>2. k \in 1..k /\ IsChange(L, k, L[k].page)
  BY DEF IsChange, Changes
<1> QED BY <1>1, <1>2 DEF FramePut, PutBy

LEMMA TogglePut ==
    ASSUME LoggedInv, TypeInv', NEW t \in Txns \cup {AutoTxn}, NEW p \in Pages, NEW i \in Items, Toggle(t, p, i)
    PROVE  LoggedInv'
<1> DEFINE to == IF i \in Data(p) THEN Data(p) \ {i} ELSE Data(p) \cup {i}
           r == Update(t, p, to)
           n == Len(log)
<1>1. AppendAll(<<r>>) /\ pool' = Dirtied(pool, p, to, n + 1) /\ UNCHANGED <<written, synced>>
  BY DEF Toggle, fileVars
<1>2. TypeInv /\ Data(p) \in SUBSET Items
  BY DataIsIn, DataTyped DEF LoggedInv, TypeInv, FilesTyped
<1>3. to \in SUBSET Items
  BY <1>2
<1>4. r.type = "Update" /\ r.page = p /\ r.from = Data(p) /\ r.to = to
  BY DEF Update
<1> HIDE DEF to, r
<1>5. r \in Record
  BY <1>2, <1>3, UpdateTyped DEF r
<1>6. log' = log \o <<r>> /\ GoesOn(log, tail, log', tail')
  BY <1>1, <1>2, <1>5, One, AppendGoesOn
<1>7. n \in Nat /\ log' \in Seq(Record) /\ Len(log') = n + 1 /\ log'[n + 1] = r /\ Agree(log, log', n)
  BY <1>2, <1>5, <1>6, LogFacts DEF GoesOn
<1>8. PoolPut(log', tail', pool')
  <2>1. FramePut(log', tail', p, FrameAfter(pool, p, to, n + 1))
    BY <1>4, <1>7, ChangedFrame
  <2>2. Put(pool, pool', p, FrameAfter(pool, p, to, n + 1))
    BY <1>1, DirtiedPuts
  <2>3. PoolPut(log', tail', pool)
    BY <1>6, PutsGoOn
  <2> QED BY <2>1, <2>2, <2>3, PutFrame
<1>9. FoundPut(log')
  <2> SUFFICES ASSUME NEW m \in 1..Len(log'), log'[m].type = "Update", NEW j \in log'[m].from
               PROVE  PutBy(log', log'[m].page, m - 1, j)
    BY DEF FoundPut
  <2>1. CASE m = n + 1
    <3>1. PutBy(log, p, n, j) /\ n <= n /\ m - 1 = n
      BY <1>4, <1>7, <2>1, DataPut
    <3> QED BY <1>4, <1>7, <2>1, <3>1, PutByUp
  <2>2. CASE m # n + 1
    <3>1. m \in 1..Len(log)
      BY <1>7, <2>2
    <3> QED BY <1>6, <3>1, PutsGoOn
  <2> QED BY <2>1, <2>2
<1> QED BY <1>1, <1>6, <1>8, <1>9, PutsGoOn DEF LoggedInv

LEMMA SplitPut ==
    ASSUME LoggedInv, TypeInv', NEW t \in Txns \cup {AutoTxn}, NEW p \in Pages, NEW q \in Pages,
           NEW moved \in SUBSET Items, Split(t, p, q, moved)
    PROVE  LoggedInv'
<1> DEFINE left == Data(p) \ moved
           right == Data(q) \cup moved
           a == Update(t, p, left)
           b == Update(t, q, right)
           n == Len(log)
           P == Dirtied(pool, p, left, n + 1)
<1>1. AppendAll(<<a, b>>) /\ pool' = Dirtied(P, q, right, n + 2) /\ UNCHANGED <<written, synced>>
  BY DEF Split, fileVars
<1>2. TypeInv /\ Data(p) \in SUBSET Items /\ Data(q) \in SUBSET Items
  BY DataIsIn, DataTyped DEF LoggedInv, TypeInv, FilesTyped
<1>3. left \in SUBSET Items /\ right \in SUBSET Items
  BY <1>2
<1>4. /\ a.type = "Update" /\ a.page = p /\ a.from = Data(p) /\ a.to = left
      /\ b.type = "Update" /\ b.page = q /\ b.from = Data(q) /\ b.to = right
  BY DEF Update
<1> HIDE DEF left, right, a, b
<1>5. a \in Record /\ b \in Record
  BY <1>2, <1>3, UpdateTyped DEF a, b
<1>6. log' = log \o <<a, b>> /\ GoesOn(log, tail, log', tail')
  BY <1>1, <1>2, <1>5, Two, AppendGoesOn
<1>7. /\ n \in Nat /\ log' \in Seq(Record) /\ Len(log') = n + 2 /\ Agree(log, log', n)
      /\ log'[n + 1] = a /\ log'[n + 2] = b
  BY <1>2, <1>5, <1>6, LogFacts DEF GoesOn
<1>8. PoolPut(log', tail', pool')
  <2>1. n + 1 \in 1..Len(log') /\ n + 2 \in 1..Len(log')
    BY <1>7
  <2>2. /\ FramePut(log', tail', p, FrameAfter(pool, p, left, n + 1))
        /\ FramePut(log', tail', q, FrameAfter(P, q, right, n + 2))
    <3> HIDE DEF P
    <3> QED BY <1>4, <1>7, <2>1, ChangedFrame
  <2>3. Put(pool, P, p, FrameAfter(pool, p, left, n + 1))
    BY DirtiedPuts
  <2> HIDE DEF P
  <2>4. Put(P, pool', q, FrameAfter(P, q, right, n + 2))
    BY <1>1, DirtiedPuts
  <2>5. PoolPut(log', tail', pool)
    BY <1>6, PutsGoOn
  <2>6. PoolPut(log', tail', P)
    BY <2>2, <2>3, <2>5, PutFrame
  <2> QED BY <2>2, <2>4, <2>6, PutFrame
<1>9. FoundPut(log')
  <2> SUFFICES ASSUME NEW m \in 1..Len(log'), log'[m].type = "Update", NEW j \in log'[m].from
               PROVE  PutBy(log', log'[m].page, m - 1, j)
    BY DEF FoundPut
  <2>1. CASE m = n + 1 \/ m = n + 2
    <3>1. PutBy(log, log'[m].page, n, j)
      BY <1>4, <1>7, <2>1, DataPut
    <3>2. m - 1 \in Nat /\ n <= m - 1
      BY <1>7, <2>1
    <3> QED BY <1>7, <3>1, <3>2, PutByUp
  <2>2. CASE m # n + 1 /\ m # n + 2
    <3>1. m \in 1..Len(log)
      BY <1>7, <2>2
    <3> QED BY <1>6, <3>1, PutsGoOn
  <2> QED BY <2>1, <2>2
<1> QED BY <1>1, <1>6, <1>8, <1>9, PutsGoOn DEF LoggedInv

\* Undo puts in what the update found.
LEMMA UndoPut ==
    ASSUME LoggedInv, TypeInv', Undo
    PROVE  LoggedInv'
<1>1. TypeInv
  BY DEF LoggedInv
<1>2. PICK m \in 1..tail, c \in Record, e \in Frame(Len(log)), p \in Pages :
          /\ log[m].type = "Update" /\ log[m].page = p /\ c.type = "Clr"
          /\ e.data = Cover(Data(p), log[m].to, log[m].from)
          /\ e.page_lsn = IF p \in DOMAIN pool THEN pool[p].page_lsn ELSE 0
          /\ AppendAll(<<c>>) /\ Put(pool, pool', p, e) /\ UNCHANGED <<written, synced>>
  <2> DEFINE m == MaxOf(todo)
             r == log[m]
             c == [type |-> "Clr", txn |-> r.txn, page |-> r.page, from |-> r.to, to |-> r.from]
             e == [data |-> Cover(DataIn(pool, written, r.page), r.to, r.from),
                   page_lsn |-> IF r.page \in DOMAIN pool THEN pool[r.page].page_lsn ELSE 0,
                   rec_lsn |-> IF r.page \in DOMAIN pool THEN pool[r.page].rec_lsn ELSE 0]
  <2>1. /\ m \in 1..tail /\ r.type = "Update" /\ r.page \in Pages
        /\ c \in Record /\ e \in Frame(Len(log))
        /\ AppendAll(<<c>>) /\ Put(pool, pool', r.page, e) /\ UNCHANGED <<written, synced>>
    BY <1>1, UndoIs, Zenon
  <2>2. /\ c.type = "Clr" /\ e.data = Cover(Data(r.page), r.to, r.from)
        /\ e.page_lsn = IF r.page \in DOMAIN pool THEN pool[r.page].page_lsn ELSE 0
    BY DataIsIn
  <2> HIDE DEF c, e, m
  <2> QED BY <2>1, <2>2
<1>3. log' = log \o <<c>> /\ GoesOn(log, tail, log', tail')
  BY <1>1, <1>2, One, AppendGoesOn
<1>4. /\ log \in Seq(Record) /\ Len(log) \in Nat /\ tail \in 0..Len(log) /\ m \in 1..Len(log) /\ m \in Nat
      /\ Len(log') = Len(log) + 1 /\ log'[Len(log) + 1] = c /\ tail' \in Nat /\ tail <= tail'
      /\ Agree(log, log', Len(log)) /\ log'[m] = log[m] /\ m <= tail'
  BY <1>1, <1>2, <1>3, LogFacts DEF GoesOn, Agree
<1>5. FramePut(log', tail', p, e)
  <2> SUFFICES ASSUME NEW i \in e.data
               PROVE  PutBy(log', p, tail', i) \/ PutBy(log', p, e.page_lsn, i)
    BY DEF FramePut
  <2>1. i \in Data(p) \/ i \in log[m].from
    BY <1>2 DEF Cover
  <2>2. CASE i \in log[m].from
    <3>1. PutBy(log', p, m - 1, i)
      BY <1>2, <1>3, <1>4, <2>2, PutsGoOn
    <3> QED BY <1>4, <3>1 DEF PutBy
  <2>3. CASE i \in Data(p) /\ p \in DOMAIN pool
    BY <1>2, <1>3, <2>3, PutsGoOn DEF Data, PoolPut, FramePut
  <2>4. CASE i \in Data(p) /\ p \notin DOMAIN pool
    <3>1. i \in written[p] /\ i \in Items
      BY <1>1, <2>4 DEF Data, TypeInv, FilesTyped
    <3> QED BY <1>3, <3>1, PutsGoOn DEF FilesPut
  <2> QED BY <2>1, <2>2, <2>3, <2>4
<1>6. PoolPut(log', tail', pool')
  BY <1>2, <1>3, <1>5, PutFrame, PutsGoOn
<1>7. FoundPut(log')
  <2> SUFFICES ASSUME NEW n \in 1..Len(log'), log'[n].type = "Update"
               PROVE  \A i \in log'[n].from : PutBy(log', log'[n].page, n - 1, i)
    BY DEF FoundPut
  <2>1. n \in 1..Len(log)
    BY <1>2, <1>4
  <2> QED BY <1>3, <2>1, PutsGoOn
<1> QED BY <1>2, <1>3, <1>6, <1>7, PutsGoOn DEF LoggedInv

LEMMA RecoveredPut ==
    ASSUME LoggedInv, TypeInv', Recovered
    PROVE  LoggedInv'
<1>1. TypeInv /\ Len(log) \in Nat
  BY LogFacts DEF LoggedInv
<1>2. UNCHANGED <<log, pool, written, synced>> /\ GoesOn(log, tail, log', tail')
  BY <1>1, FlushGoesOn DEF Recovered, fileVars
<1>3. FoundPut(log')
  BY <1>2 DEF LoggedInv, FoundPut
<1> QED BY <1>2, <1>3, PutsGoOn DEF LoggedInv

LEMMA SamePut ==
    ASSUME LoggedInv, Same
    PROVE  LoggedInv'
<1>1. TypeInv'
  BY StutterTyped DEF LoggedInv
<1>2. UNCHANGED <<log, tail, written, synced, pool>>
  BY DEF Same
<1> QED BY <1>1, <1>2 DEF LoggedInv

LEMMA NextPut ==
    ASSUME LoggedInv, LeavingTyped, Next, NoOrphans
    PROVE  LoggedInv'
<1>1. TypeInv'
  BY NextTyped DEF LoggedInv
<1>2. ASSUME NEW t \in Txns, Begin(t) \/ Commit(t) \/ Abort(t) \/ AbortLoser(t)
      PROVE  LoggedInv'
  BY <1>1, <1>2, RecordsPut
<1>3. CASE WriteCheckpoint
  BY <1>1, <1>3, RecordsPut
<1>4. ASSUME NEW t \in Txns \cup {AutoTxn}, NEW p \in Pages, NEW i \in Items, Toggle(t, p, i)
      PROVE  LoggedInv'
  BY <1>1, <1>4, TogglePut
<1>5. ASSUME NEW t \in Txns \cup {AutoTxn}, NEW p \in Pages, NEW q \in Pages,
             NEW moved \in SUBSET Items, Split(t, p, q, moved)
      PROVE  LoggedInv'
  BY <1>1, <1>5, SplitPut
<1>6. ASSUME NEW p \in Pages, TakeOut(p) \/ Evict(p) PROVE LoggedInv'
  BY <1>1, <1>6, EvictPut, SameIs, SamePut
<1>7. CASE SyncData \/ ReadDirtyPages \/ ReadActiveTxns \/ SetCheckpoint
  BY <1>1, <1>7, CheckpointPut
<1>8. CASE Crash \/ Redo \/ Undo
  BY <1>1, <1>8, CrashPut, RedoPut, UndoPut
<1>9. CASE Recovered
  BY <1>1, <1>9, RecoveredPut
<1> QED BY <1>2, <1>3, <1>4, <1>5, <1>6, <1>7, <1>8, <1>9 DEF Next

\* Evictions keep the write-ahead rule: EvictLsn flushes the log before the page is
\* written, and what redo and undo put in a page without giving it an LSN was
\* durable before. It takes none of the callers' discipline.
THEOREM PagesLogged ==
    Spec /\ [][NoOrphans]_vars => []PagesAreLogged
<1>1. Init => LoggedInv /\ LeavingTyped
  BY InitPut DEF Init, LeavingTyped
<1>2. LoggedInv /\ LeavingTyped /\ [Next]_vars /\ [NoOrphans]_vars => LoggedInv' /\ LeavingTyped'
  BY NextPut, NextLeaving, SameIs, SamePut
<1>3. LoggedInv => PagesAreLogged
  <2> SUFFICES ASSUME LoggedInv, NEW p \in Pages, NEW i \in written[p]
               PROVE  \E n \in 1..tail : log[n].type \in Changes /\ log[n].page = p /\ i \in log[n].to
    BY DEF PagesAreLogged
  <2>1. i \in Items
    BY DEF LoggedInv, TypeInv, FilesTyped
  <2> QED BY <2>1 DEF LoggedInv, FilesPut, PutBy, IsChange
<1> QED BY <1>1, <1>2, <1>3, PTL DEF Spec
=============================================================================
