-------------------------- MODULE BplusTreeProofs --------------------------
(***************************************************************************)
(* While no call fails half way, searches of the index find every key and   *)
(* its leaves are a map, for every ORDER of at least 3, every set of keys   *)
(* and records and every bound.                                             *)
(*                                                                          *)
(* The proof adds one witness to the levels of BplusTreeTypeProofs, the     *)
(* routes: for each level, the page that a search for each integer comes to *)
(* there.  What a step does to the entries of a key is a relation of the    *)
(* leaves of the routes before it and after.                                *)
(***************************************************************************)
EXTENDS BplusTreeTypeProofs

-----------------------------------------------------------------------------
(* Routes: the page of each level to which a key leads. *)

\* On a level g sends keys to pages: those of a page's cells, and what is just below
\* the separators of an internal page, to that page.
Own(P, n, g) ==
    \A k \in Int : \A x \in KeysOf(P[g[k]]) : g[x] = g[k] /\ (n # 0 => g[x - 1] = g[k])

\* Pages of the level where g sends keys are children of those where f sends them, each of one
\* page, in one slot.
Link(P, f, g) ==
    /\ \A k \in Int : g[k] = Child(P[f[k]], k)
    /\ \A k, m \in Int : g[k] = g[m] => f[k] = f[m] /\ SameSlot(P[f[k]], k, m)

\* at[n][k] is the page of level n to which k leads.
Routes(P, h, root, at) ==
    /\ h \in Nat /\ at \in [Nat -> [Int -> Nat]]
    /\ \A k \in Int : at[h][k] = root
    /\ \A n \in 0..h : Own(P, n, at[n])
    /\ \A n \in 1..h : Link(P, at[n], at[n - 1])

\* A route goes down one level at a time.
LEMMA RouteLevels ==
    ASSUME NEW P, NEW N, NEW lv, NEW L, NEW root, Shape(P, N, lv, L, root),
           NEW at, Routes(P, lv[root], root, at)
    PROVE  \A n \in 0..lv[root], k \in Int : at[n][k] \in L /\ lv[at[n][k]] = n
<1> DEFINE h == lv[root]
           Good == {i \in 0..h : \A k \in Int : at[h - i][k] \in L /\ lv[at[h - i][k]] = h - i}
<1>1. h \in Nat /\ root \in L /\ \A k \in Int : at[h][k] = root
  BY DEF Routes, Shape, Live
<1>2. \A n \in 1..h : \A k \in Int : at[n - 1][k] = Child(P[at[n][k]], k)
  BY DEF Routes, Link
<1> HIDE DEF h
<1>3. 0 \in Good
  <2>1. h - 0 = h
    BY <1>1
  <2> QED
    BY <1>1, <2>1 DEF h
<1>4. ASSUME NEW i \in 1..h, i - 1 \in Good PROVE i \in Good
  <2>1. PICK n \in 1..h : n = h - (i - 1) /\ n - 1 = h - i
    <3>1. h - (i - 1) \in 1..h /\ h - (i - 1) - 1 = h - i
      BY <1>1
    <3> QED
      BY <3>1
  <2>2. \A k \in Int : at[n][k] \in L /\ lv[at[n][k]] = n
    BY <1>4, <2>1
  <2>3. ASSUME NEW k \in Int PROVE at[n - 1][k] \in L /\ lv[at[n - 1][k]] = n - 1
    <3>1. lv[at[n][k]] # 0 /\ at[n][k] \in L /\ lv[at[n][k]] = n
      BY <1>1, <2>1, <2>2
    <3>2. Child(P[at[n][k]], k) \in L /\ lv[Child(P[at[n][k]], k)] = lv[at[n][k]] - 1
      BY <3>1, DownChild
    <3> QED
      BY <1>2, <3>1, <3>2
  <2>4. i \in 0..h
    BY <1>1
  <2> QED
    BY <2>1, <2>3, <2>4
<1>5. \A i \in 0..h : i \in Good
  <2> HIDE DEF Good
  <2> QED
    BY <1>1, <1>3, <1>4, UpTo
<1>6. ASSUME NEW n \in 0..h, NEW k \in Int PROVE at[n][k] \in L /\ lv[at[n][k]] = n
  <2>1. PICK i \in 0..h : h - i = n
    <3>1. h - n \in 0..h /\ h - (h - n) = n
      BY <1>1
    <3> QED
      BY <3>1
  <2>2. i \in Good
    BY <1>5
  <2> QED
    BY <2>1, <2>2
<1> QED
  BY <1>6 DEF h

\* What is one page on a level is one page on those above it.
LEMMA RouteUp ==
    ASSUME NEW P, NEW h, NEW root, NEW at, Routes(P, h, root, at), NEW n \in 0..h, NEW k \in Int, NEW m \in Int,
           at[n][k] = at[n][m]
    PROVE  \A j \in n..h : at[j][k] = at[j][m]
<1> DEFINE d == h - n
           Good == {i \in 0..d : at[n + i][k] = at[n + i][m]}
<1>1. h \in Nat /\ d \in Nat /\ n \in Nat
  BY DEF Routes
<1>2. \A j \in 1..h : at[j - 1][k] = at[j - 1][m] => at[j][k] = at[j][m]
  BY DEF Routes, Link
<1>3. 0 \in Good
  BY <1>1
<1>4. ASSUME NEW i \in 1..d, i - 1 \in Good PROVE i \in Good
  <2>1. PICK j \in 1..h : j = n + i /\ j - 1 = n + (i - 1)
    <3>1. n + i \in 1..h /\ n + i - 1 = n + (i - 1)
      BY <1>1
    <3> QED
      BY <3>1
  <2>2. at[j - 1][k] = at[j - 1][m]
    BY <1>4, <2>1
  <2>3. i \in 0..d
    BY <1>1
  <2> QED
    BY <1>2, <2>1, <2>2, <2>3
<1>5. \A i \in 0..d : i \in Good
  <2> HIDE DEF Good, d
  <2> QED
    BY <1>1, <1>3, <1>4, UpTo
<1>6. ASSUME NEW j \in n..h PROVE at[j][k] = at[j][m]
  <2>1. PICK i \in 0..d : n + i = j
    <3>1. j - n \in 0..d /\ n + (j - n) = j
      BY <1>1
    <3> QED
      BY <3>1
  <2>2. i \in Good
    BY <1>5
  <2> QED
    BY <2>1, <2>2
<1> QED
  BY <1>6

\* The keys of a page on a level follow each other.
LEMMA RouteConvex ==
    ASSUME NEW P, NEW N, NEW lv, NEW L, NEW root, Shape(P, N, lv, L, root),
           NEW at, Routes(P, lv[root], root, at), NEW k \in Int, NEW m \in Int, NEW j \in Int, k <= j, j <= m
    PROVE  \A n \in 0..lv[root] : at[n][k] = at[n][m] => at[n][j] = at[n][k]
<1> DEFINE h == lv[root]
           Good == {i \in 0..h : at[h - i][k] = at[h - i][m] => at[h - i][j] = at[h - i][k]}
<1>1. h \in Nat /\ \A i \in Int : at[h][i] = root
  BY DEF Routes
<1>2. ASSUME NEW n \in 1..h, at[n][k] = at[n][m] => at[n][j] = at[n][k], at[n - 1][k] = at[n - 1][m]
      PROVE  at[n - 1][j] = at[n - 1][k]
  <2>1. Link(P, at[n], at[n - 1])
    BY DEF Routes
  <2>2. at[n][k] = at[n][m] /\ SameSlot(P[at[n][k]], k, m)
    BY <1>2, <2>1 DEF Link
  <2>3. at[n][j] = at[n][k]
    BY <1>2, <2>2
  <2>4. at[n - 1][j] = Child(P[at[n][k]], j) /\ at[n - 1][k] = Child(P[at[n][k]], k)
    BY <2>1, <2>3 DEF Link
  <2>5. \A x \in KeysOf(P[at[n][k]]) : x \in Int
    <3>1. at[n][k] \in L /\ n \in 0..h
      BY <1>1, RouteLevels
    <3>2. PageAt(P[at[n][k]], lv[at[n][k]], lv, L, Ids(N))
      BY <3>1, ShapeFacts
    <3> QED
      BY <3>2, PageFacts DEF PageAt
  <2>6. SameSlot(P[at[n][k]], k, j)
    BY <2>2, <2>5 DEF SameSlot
  <2> QED
    BY <2>4, <2>6, SameChild
<1> HIDE DEF h
<1>3. 0 \in Good
  BY <1>1
<1>4. ASSUME NEW i \in 1..h, i - 1 \in Good PROVE i \in Good
  <2>1. PICK n \in 1..h : n = h - (i - 1) /\ n - 1 = h - i
    <3>1. h - (i - 1) \in 1..h /\ h - (i - 1) - 1 = h - i
      BY <1>1
    <3> QED
      BY <3>1
  <2>2. at[n][k] = at[n][m] => at[n][j] = at[n][k]
    BY <1>4, <2>1
  <2>3. i \in 0..h
    BY <1>1
  <2> QED
    BY <1>2, <2>1, <2>2, <2>3
<1>5. \A i \in 0..h : i \in Good
  <2> HIDE DEF Good
  <2> QED
    BY <1>1, <1>3, <1>4, UpTo
<1>6. ASSUME NEW n \in 0..h PROVE at[n][k] = at[n][m] => at[n][j] = at[n][k]
  <2>1. PICK i \in 0..h : h - i = n
    <3>1. h - n \in 0..h /\ h - (h - n) = n
      BY <1>1
    <3> QED
      BY <3>1
  <2>2. i \in Good
    BY <1>5
  <2> QED
    BY <2>1, <2>2
<1> QED
  BY <1>6 DEF h

-----------------------------------------------------------------------------
(* Pages that change below one parent. *)

\* The pages Q send the keys of page q, on the level of f, to other pages of the level below:
\* where g says and not e.  d is where the level below that sends keys.
Regroups(Q, f, g, d, q, n) ==
    /\ \A x \in KeysOf(Q[q]) : f[x] = q /\ f[x - 1] = q
    /\ \A k \in Int : f[k] = q =>
          /\ g[k] = Child(Q[q], k)
          /\ \A x \in KeysOf(Q[g[k]]) : g[x] = g[k] /\ (n # 0 => g[x - 1] = g[k])
          /\ \A m \in Int : g[k] = g[m] => f[m] = q /\ SameSlot(Q[q], k, m)
          /\ n # 0 =>
                /\ d[k] = Child(Q[g[k]], k)
                /\ \A m \in Int : d[k] = d[m] => g[k] = g[m] /\ SameSlot(Q[g[k]], k, m)

\* Everything else is as before.
Elsewhere(P, Q, lv, L, f, e, g, q, u) ==
    /\ \A i \in L : lv[i] # u /\ lv[i] # u - 1 => Q[i] = P[i]
    /\ \A k \in Int : f[k] # q => Q[f[k]] = P[f[k]] /\ g[k] = e[k] /\ Q[e[k]] = P[e[k]]

\* Pages regrouped below one parent keep routes.
LEMMA Regrouped ==
    ASSUME NEW P, NEW N, NEW lv, NEW L, NEW root, Shape(P, N, lv, L, root),
           NEW at, Routes(P, lv[root], root, at), NEW u \in 1..lv[root], NEW q, NEW Q, NEW g \in [Int -> Nat],
           Elsewhere(P, Q, lv, L, at[u], at[u - 1], g, q, u),
           Regroups(Q, at[u], g, at[u - 2], q, u - 1)
    PROVE  Routes(Q, lv[root], root, [at EXCEPT ![u - 1] = g])
<1> DEFINE h == lv[root]
           b == [at EXCEPT ![u - 1] = g]
<1>1. /\ h \in Nat /\ at \in [Nat -> [Int -> Nat]]
      /\ \A k \in Int : at[h][k] = root
      /\ \A n \in 0..h : Own(P, n, at[n])
      /\ \A n \in 1..h : Link(P, at[n], at[n - 1])
  BY DEF Routes
<1>2. \A n \in 0..h, k \in Int : at[n][k] \in L /\ lv[at[n][k]] = n
  BY RouteLevels
<1>0. u \in 1..h /\ h \in Nat
  BY <1>1
<1> HIDE DEF h
<1>3. PICK n \in 0..h : n = u - 1 /\ n # u /\ n + 1 = u /\ n # h
  <2>1. u \in Int /\ u - 1 \in 0..h /\ u - 1 # u /\ u - 1 + 1 = u /\ u - 1 # h
    BY <1>0
  <2> QED
    BY <2>1
<1>4. u \in 1..h /\ u \in 0..h /\ u \in Nat /\ n \in Nat /\ h \in Nat
  BY <1>0, <1>3
<1>5. b \in [Nat -> [Int -> Nat]] /\ b[n] = g /\ \A j \in Nat : j # n => b[j] = at[j]
  BY <1>1, <1>3, <1>4
<1> HIDE DEF b
<1>6. \A j \in 0..h : j # u /\ j # n => \A k \in Int : Q[at[j][k]] = P[at[j][k]]
  BY <1>2, <1>3 DEF Elsewhere
<1>7. \A k \in Int : at[u][k] # q => Q[at[u][k]] = P[at[u][k]] /\ g[k] = at[n][k] /\ Q[at[n][k]] = P[at[n][k]]
  BY <1>3 DEF Elsewhere
<1>8. ASSUME NEW j \in 0..h, NEW k \in Int, NEW x \in KeysOf(P[at[j][k]]) PROVE x \in Int /\ x - 1 \in Int
  <2>1. at[j][k] \in L
    BY <1>2
  <2>2. PageAt(P[at[j][k]], lv[at[j][k]], lv, L, Ids(N))
    BY <2>1, ShapeFacts
  <2>3. x \in Int
    BY <2>2, PageFacts DEF PageAt
  <2> QED
    BY <2>3
<1>9. ASSUME NEW j \in 0..h PROVE Own(Q, j, b[j])
  <2>1. CASE j = n
    <3>1. ASSUME NEW k \in Int, NEW x \in KeysOf(Q[g[k]]) PROVE g[x] = g[k] /\ (n # 0 => g[x - 1] = g[k])
      <4>1. CASE at[u][k] = q
        BY <1>3, <3>1, <4>1 DEF Regroups
      <4>2. CASE at[u][k] # q
        <5>1. Q[at[u][k]] = P[at[u][k]] /\ g[k] = at[n][k] /\ Q[at[n][k]] = P[at[n][k]]
          BY <1>7, <4>2
        <5>2. x \in KeysOf(P[at[n][k]])
          BY <3>1, <5>1
        <5>3. x \in Int /\ x - 1 \in Int
          BY <1>8, <5>2
        <5>4. at[n][x] = at[n][k] /\ (n # 0 => at[n][x - 1] = at[n][k])
          BY <1>1, <5>2 DEF Own
        <5>5. Link(P, at[u], at[n])
          BY <1>1, <1>3, <1>4
        <5>6. at[u][x] = at[u][k] /\ (n # 0 => at[u][x - 1] = at[u][k])
          BY <5>3, <5>4, <5>5 DEF Link
        <5>7. g[x] = at[n][x] /\ (n # 0 => g[x - 1] = at[n][x - 1])
          BY <1>7, <4>2, <5>3, <5>6
        <5> QED
          BY <5>1, <5>4, <5>7
      <4> QED
        BY <4>1, <4>2
    <3> QED
      BY <1>5, <2>1, <3>1 DEF Own
  <2>2. CASE j = u
    <3>1. ASSUME NEW k \in Int, NEW x \in KeysOf(Q[at[u][k]])
          PROVE at[u][x] = at[u][k] /\ (u # 0 => at[u][x - 1] = at[u][k])
      <4>1. CASE at[u][k] = q
        BY <3>1, <4>1 DEF Regroups
      <4>2. CASE at[u][k] # q
        <5>1. x \in KeysOf(P[at[u][k]])
          BY <1>7, <3>1, <4>2
        <5> QED
          BY <1>1, <1>4, <5>1 DEF Own
      <4> QED
        BY <4>1, <4>2
    <3>2. b[u] = at[u]
      BY <1>3, <1>4, <1>5
    <3> QED
      BY <2>2, <3>1, <3>2 DEF Own
  <2>3. CASE j # n /\ j # u
    <3>1. b[j] = at[j]
      BY <1>4, <1>5, <2>3
    <3>2. \A k \in Int : Q[at[j][k]] = P[at[j][k]]
      BY <1>6, <2>3
    <3>3. Own(P, j, at[j])
      BY <1>1
    <3> QED
      BY <3>1, <3>2, <3>3 DEF Own
  <2> QED
    BY <2>1, <2>2, <2>3
<1>10. Link(Q, at[u], g)
  <2>1. Link(P, at[u], at[n])
    BY <1>1, <1>3, <1>4
  <2>2. ASSUME NEW k \in Int PROVE g[k] = Child(Q[at[u][k]], k)
    <3>1. CASE at[u][k] = q
      BY <3>1 DEF Regroups
    <3>2. CASE at[u][k] # q
      BY <1>7, <2>1, <3>2 DEF Link
    <3> QED
      BY <3>1, <3>2
  <2>3. ASSUME NEW k \in Int, NEW m \in Int, g[k] = g[m]
        PROVE  at[u][k] = at[u][m] /\ SameSlot(Q[at[u][k]], k, m)
    <3>1. CASE at[u][k] = q
      BY <2>3, <3>1 DEF Regroups
    <3>2. CASE at[u][k] # q /\ at[u][m] = q
      BY <2>3, <3>2 DEF Regroups
    <3>3. CASE at[u][k] # q /\ at[u][m] # q
      <4>1. at[n][k] = at[n][m]
        BY <1>7, <2>3, <3>3
      <4> QED
        BY <1>7, <2>1, <3>3, <4>1 DEF Link
    <3> QED
      BY <3>1, <3>2, <3>3
  <2> QED
    BY <2>2, <2>3 DEF Link
<1>11. ASSUME n # 0 PROVE Link(Q, g, at[n - 1])
  <2>1. n \in 1..h /\ u - 2 = n - 1
    BY <1>3, <1>4, <1>11
  <2>2. Link(P, at[n], at[n - 1])
    BY <1>1, <2>1
  <2>3. /\ \A k \in Int : at[u][k] = q =>
             /\ at[n - 1][k] = Child(Q[g[k]], k)
             /\ \A m \in Int : at[n - 1][k] = at[n - 1][m] => g[k] = g[m] /\ SameSlot(Q[g[k]], k, m)
    BY <1>3, <1>11, <2>1 DEF Regroups
  <2>4. ASSUME NEW k \in Int PROVE at[n - 1][k] = Child(Q[g[k]], k)
    <3>1. CASE at[u][k] = q
      BY <2>3, <3>1
    <3>2. CASE at[u][k] # q
      BY <1>7, <2>2, <3>2 DEF Link
    <3> QED
      BY <3>1, <3>2
  <2>5. ASSUME NEW k \in Int, NEW m \in Int, at[n - 1][k] = at[n - 1][m]
        PROVE  g[k] = g[m] /\ SameSlot(Q[g[k]], k, m)
    <3>1. CASE at[u][k] = q
      BY <2>3, <2>5, <3>1
    <3>2. CASE at[u][k] # q
      <4>1. at[n][k] = at[n][m] /\ SameSlot(P[at[n][k]], k, m)
        BY <2>2, <2>5 DEF Link
      <4>2. Link(P, at[u], at[n])
        BY <1>1, <1>3, <1>4
      <4>3. at[u][k] = at[u][m]
        BY <4>1, <4>2 DEF Link
      <4> QED
        BY <1>7, <3>2, <4>1, <4>3
    <3> QED
      BY <3>1, <3>2
  <2> QED
    BY <2>4, <2>5 DEF Link
<1>12. ASSUME NEW j \in 1..h PROVE Link(Q, b[j], b[j - 1])
  <2>1. PICK i \in Nat : i = j - 1 /\ j \in Nat /\ j \in 0..h
    <3>1. j - 1 \in Nat /\ j \in Nat /\ j \in 0..h
      BY <1>4
    <3> QED
      BY <3>1
  <2>2. CASE j = u
    <3>1. b[j] = at[u] /\ b[i] = g
      BY <1>3, <1>5, <2>1, <2>2
    <3> QED
      BY <1>10, <2>1, <3>1
  <2>3. CASE j = n
    <3>0. n # 0 /\ i = n - 1 /\ i # n
      BY <1>4, <2>1, <2>3
    <3>1. b[j] = g /\ b[i] = at[i] /\ n # 0 /\ i = n - 1
      BY <1>5, <2>1, <2>3, <3>0
    <3> QED
      BY <1>11, <2>1, <3>1
  <2>4. CASE j # u /\ j # n
    <3>1. i # n
      BY <1>3, <1>4, <2>1, <2>4
    <3>2. b[j] = at[j] /\ b[i] = at[i]
      BY <1>5, <2>1, <2>4, <3>1
    <3>3. Link(P, at[j], at[i])
      BY <1>1, <2>1
    <3>4. \A k \in Int : Q[at[j][k]] = P[at[j][k]]
      BY <1>6, <2>1, <2>4
    <3>5. Link(Q, at[j], at[i])
      BY <3>3, <3>4 DEF Link
    <3> QED
      BY <2>1, <3>2, <3>5
  <2> QED
    BY <2>2, <2>3, <2>4
<1>13. \A k \in Int : b[h][k] = root
  BY <1>1, <1>3, <1>4, <1>5
<1> QED
  BY <1>1, <1>5, <1>9, <1>12, <1>13, <1>3 DEF Routes, b, h

\* What a page of a route is, and its keys.
LEMMA RoutePage ==
    ASSUME NEW P, NEW N, NEW lv, NEW L, NEW root, Shape(P, N, lv, L, root),
           NEW at, Routes(P, lv[root], root, at), NEW n \in 0..lv[root], NEW k \in Int, NEW id, at[n][k] = id
    PROVE  /\ id \in L /\ lv[id] = n /\ n \in Nat
           /\ P[id] \in PagesOf(Vals(lv, L, n), Ptrs(lv, L, n, Ids(N)))
           /\ KeysOf(P[id]) \subseteq Keys
           /\ \A x \in KeysOf(P[id]) : /\ x \in Int /\ x - 1 \in Int
                                       /\ at[n][x] = id /\ (n # 0 => at[n][x - 1] = id)
<1>1. id \in L /\ lv[id] = n
  BY RouteLevels
<1>2. PageAt(P[id], n, lv, L, Ids(N)) /\ n \in Nat
  BY <1>1, ShapeFacts
<1>3. P[id] \in PagesOf(Vals(lv, L, n), Ptrs(lv, L, n, Ids(N)))
  BY <1>2, PageAtFacts
<1>4. KeysOf(P[id]) \subseteq Keys /\ \A x \in KeysOf(P[id]) : x \in Int
  BY <1>3, PageFacts
<1>5. Own(P, n, at[n])
  BY DEF Routes
<1> QED
  BY <1>1, <1>2, <1>3, <1>4, <1>5 DEF Own

\* The link from a level to the one below.
LEMMA RouteLink ==
    ASSUME NEW P, NEW h, NEW root, NEW at, Routes(P, h, root, at), NEW u \in 1..h
    PROVE  /\ \A k \in Int : at[u - 1][k] = Child(P[at[u][k]], k)
           /\ \A k, m \in Int : at[u - 1][k] = at[u - 1][m] => at[u][k] = at[u][m] /\ SameSlot(P[at[u][k]], k, m)
           /\ u \in 0..h /\ u - 1 \in 0..h /\ u \in Nat /\ u - 1 \in Nat /\ h \in Nat
<1>1. Link(P, at[u], at[u - 1]) /\ h \in Nat
  BY DEF Routes
<1> QED
  BY <1>1 DEF Link

\* Two keys that lead to a page and its parent: no separator between them.
LEMMA OwnKey ==
    ASSUME NEW P, NEW N, NEW lv, NEW L, NEW root, Shape(P, N, lv, L, root),
           NEW at, Routes(P, lv[root], root, at), NEW u \in 1..lv[root], NEW q, NEW id, NEW k \in Int,
           at[u][k] = q, at[u - 1][k] = id, NEW x \in Int, NEW s \in Int, at[u - 1][x] = id, at[u - 1][s] = id, x < s
    PROVE  /\ at[u][s] = q /\ at[u][s - 1] = q /\ s \notin KeysOf(P[q])
           /\ \A y \in KeysOf(P[q]) : ~(x < y /\ y <= s)
<1>1. at[u][s] = q /\ at[u][x] = q /\ SameSlot(P[q], x, s)
  BY RouteLink
<1>2. at[u][s - 1] = q
  <2>1. s - 1 \in Int /\ x <= s - 1 /\ s - 1 <= s
    OBVIOUS
  <2>2. u \in 0..lv[root]
    BY RouteLink
  <2> QED
    BY <1>1, <2>1, <2>2, RouteConvex
<1>3. \A y \in KeysOf(P[q]) : y \in Int
  <2>1. u \in 0..lv[root]
    BY RouteLink
  <2>2. at[u][s] = q
    BY <1>1
  <2>3. \A y \in KeysOf(P[q]) : y \in Int /\ y - 1 \in Int /\ at[u][y] = q /\ (u # 0 => at[u][y - 1] = q)
    BY <2>1, <2>2, RoutePage
  <2> QED
    BY <2>3
<1> QED
  BY <1>1, <1>2, <1>3 DEF SameSlot

\* k leads to page q of level u, and to its i-th child.
LeadsTo(P, at, u, q, i, k) == at[u][k] = q /\ at[u - 1][k] = Kid(P[q], i) /\ Between(P[q], i, k)

\* A key leads to each child of a page to which a key leads.
LEMMA KidRouted ==
    ASSUME NEW P, NEW N, NEW lv, NEW L, NEW root, Shape(P, N, lv, L, root),
           NEW at, Routes(P, lv[root], root, at), NEW u \in 1..lv[root], NEW q, NEW m \in Int, at[u][m] = q,
           NEW i \in 1..Len(P[q].cells) + 1
    PROVE  \E k \in Int : LeadsTo(P, at, u, q, i, k)
<1> DEFINE p == P[q]
           V == Vals(lv, L, u)
<1>1. u \in 0..lv[root] /\ u # 0 /\ u \in Nat
  BY RouteLink
<1>2. /\ p \in PagesOf(V, Ptrs(lv, L, u, Ids(N)))
      /\ \A x \in KeysOf(p) : x \in Int /\ x - 1 \in Int /\ at[u][x] = q /\ at[u][x - 1] = q
  BY <1>1, RoutePage
<1> HIDE DEF p, V
<1>3. /\ p.cells \in Lists(V) /\ Len(p.cells) \in Nat
      /\ \A j \in 1..Len(p.cells) : p.cells[j].key \in KeysOf(p) /\ p.cells[j].key \in Int
      /\ \A a, b \in 1..Len(p.cells) : a < b <=> p.cells[a].key < p.cells[b].key
  <2>1. p.cells \in Lists(V) /\ KeysOf(p) = {p.cells[j].key : j \in 1..Len(p.cells)}
    BY <1>2, PageFacts
  <2> QED
    BY <2>1, ListFacts
<1>4. \E k \in Int : at[u][k] = q /\ Between(p, i, k)
  <2>1. CASE Len(p.cells) = 0
    <3>1. i = 1
      BY <2>1 DEF p
    <3>2. Between(p, i, m)
      BY <2>1, <3>1 DEF Between
    <3> QED
      BY <3>2
  <2>2. CASE Len(p.cells) # 0 /\ i = 1
    <3>1. 1 \in 1..Len(p.cells)
      BY <1>3, <2>2
    <3>2. PICK s \in KeysOf(p) : s = p.cells[1].key
      BY <1>3, <3>1
    <3>3. s \in Int /\ s - 1 \in Int /\ at[u][s - 1] = q
      BY <1>2
    <3>4. Between(p, i, s - 1)
      BY <1>3, <2>2, <3>2, <3>3 DEF Between
    <3> QED
      BY <3>3, <3>4
  <2>3. CASE i # 1
    <3>1. PICK j \in 1..Len(p.cells) : j = i - 1 /\ i \in Int
      <4>1. i - 1 \in 1..Len(p.cells) /\ i \in Int
        BY <1>3, <2>3 DEF p
      <4> QED
        BY <4>1
    <3>2. PICK s \in KeysOf(p) : s = p.cells[j].key
      BY <1>3
    <3>3. s \in Int /\ at[u][s] = q
      BY <1>2
    <3>4. i \in 1..Len(p.cells) + 1
      BY DEF p
    <3>5. p.cells[i - 1].key <= s
      BY <3>1, <3>2, <3>3
    <3>6. i <= Len(p.cells) => s < p.cells[i].key
      <4>1. i <= Len(p.cells) => i \in 1..Len(p.cells) /\ j < i
        BY <1>3, <3>1, <3>4
      <4> QED
        BY <1>3, <3>1, <3>2, <4>1
    <3>7. Between(p, i, s)
      BY <3>4, <3>5, <3>6 DEF Between
    <3> QED
      BY <3>3, <3>7
  <2> QED
    BY <2>1, <2>2, <2>3
<1>5. PICK k \in Int : at[u][k] = q /\ Between(p, i, k)
  BY <1>4
<1>6. at[u - 1][k] = Child(p, k)
  BY <1>5, RouteLink DEF p
<1>7. Child(p, k) = Kid(p, i)
  BY <1>3, <1>5, ChildIs
<1> QED
  BY <1>5, <1>6, <1>7 DEF p, LeadsTo

\* The pages of a trail are pages to which keys lead.
LEMMA TrailRouted ==
    ASSUME NEW P, NEW N, NEW lv, NEW L, NEW root, Shape(P, N, lv, L, root),
           NEW at, Routes(P, lv[root], root, at), NEW t, Trail(P, lv, L, root, t)
    PROVE  \E k \in Int : at[lv[Last(t)]][k] = Last(t)
<1> DEFINE h == lv[root]
           Good == {i \in 0..Len(t) - 1 : \E k \in Int : at[h - i][k] = t[i + 1]}
<1>1. /\ Len(t) \in Nat /\ Len(t) >= 1 /\ Last(t) \in L /\ lv[Last(t)] = h + 1 - Len(t)
      /\ \A j \in 1..Len(t) : t[j] \in L
  BY TrailFacts
<1>2. /\ t \in Seq(L) /\ t[1] = root /\ \A j \in 1..Len(t) : lv[t[j]] = h + 1 - j
      /\ \A j \in 2..Len(t) : t[j] \in Kids(P[t[j - 1]])
  BY DEF Trail
<1>3. h \in Nat /\ \A k \in Int : at[h][k] = root
  BY DEF Routes
<1>4. \A i \in L : lv[i] \in Nat
  BY ShapeFacts
<1> HIDE DEF h
<1>5. 0 \in Good
  <2>1. h - 0 = h /\ 0 \in Int /\ 0 + 1 = 1
    BY <1>3
  <2> QED
    BY <1>1, <1>2, <1>3, <2>1
<1>6. ASSUME NEW i \in 1..Len(t) - 1, i - 1 \in Good PROVE i \in Good
  <2>1. PICK k \in Int : at[h - (i - 1)][k] = t[i - 1 + 1]
    BY <1>6
  <2>2. PICK j \in 2..Len(t) : j = i + 1 /\ j - 1 = i /\ i - 1 + 1 = i
    <3>1. i + 1 \in 2..Len(t) /\ i + 1 - 1 = i /\ i - 1 + 1 = i
      BY <1>1
    <3> QED
      BY <3>1
  <2>3. lv[t[j]] = h + 1 - j /\ lv[t[j]] \in Nat /\ t[j] \in Kids(P[t[i]])
    BY <1>1, <1>2, <1>4, <2>2
  <2>4. PICK u \in 1..h : u = h - (i - 1) /\ u - 1 = h - i
    <3>1. PICK n \in Nat : n = lv[t[j]]
      BY <2>3
    <3>2. h \in Nat /\ i \in Nat /\ i # 0
      BY <1>1, <1>3, <1>6
    <3>3. n = h + 1 - (i + 1)
      BY <2>2, <2>3, <3>1
    <3>4. h - (i - 1) \in 1..h /\ h - (i - 1) - 1 = h - i
      BY <3>2, <3>3
    <3> QED
      BY <3>4
  <2>5. at[u][k] = t[i]
    BY <2>1, <2>2, <2>4
  <2>6. PICK c \in 1..Len(P[t[i]].cells) + 1 : t[j] = Kid(P[t[i]], c)
    BY <2>3 DEF Kids
  <2>7. \E m \in Int : at[u - 1][m] = Kid(P[t[i]], c)
    <3>1. PICK q : q = t[i]
      OBVIOUS
    <3>2. at[u][k] = q /\ c \in 1..Len(P[q].cells) + 1 /\ u \in 1..lv[root]
      BY <2>4, <2>5, <3>1 DEF h
    <3>3. \E m \in Int : LeadsTo(P, at, u, q, c, m)
      <4> HIDE DEF Good
      <4> QED
        BY <3>2, KidRouted
    <3> QED
      BY <3>1, <3>3 DEF LeadsTo
  <2>8. i \in 0..Len(t) - 1
    BY <1>1
  <2> QED
    BY <2>2, <2>4, <2>6, <2>7, <2>8
<1>7. \A i \in 0..Len(t) - 1 : i \in Good
  <2>1. Len(t) - 1 \in Nat
    BY <1>1
  <2> HIDE DEF Good
  <2> QED
    BY <1>5, <1>6, <2>1, UpTo
<1>8. PICK i \in 0..Len(t) - 1 : i + 1 = Len(t) /\ h - i = lv[Last(t)]
  <2>1. Len(t) - 1 \in 0..Len(t) - 1 /\ Len(t) - 1 + 1 = Len(t) /\ h - (Len(t) - 1) = lv[Last(t)]
    BY <1>1, <1>3
  <2> QED
    BY <2>1
<1>9. Last(t) = t[Len(t)]
  BY DEF Last
<1> QED
  BY <1>7, <1>8, <1>9

-----------------------------------------------------------------------------
(* Splits keep routes. *)

\* The halves l and r of a page p of level n, cut at s.
Halved(p, l, r, s, n) ==
    /\ s \in KeysOf(p) /\ s \in Int /\ \E x \in KeysOf(p) : x < s
    /\ \A x \in KeysOf(l) : x \in KeysOf(p) /\ x < s
    /\ \A x \in KeysOf(r) : x \in KeysOf(p) /\ s <= x /\ (n # 0 => s < x)
    /\ n # 0 => \A k \in Int : /\ k < s => Child(l, k) = Child(p, k)
                               /\ s <= k => Child(r, k) = Child(p, k)
    /\ n = 0 => /\ ToSet(l.cells) = {c \in ToSet(p.cells) : c.key < s}
                /\ ToSet(r.cells) = {c \in ToSet(p.cells) : s <= c.key}

\* w2 is the parent w with the separator s between id and the new page on its right.
Promoted(w, w2, s, id, new) ==
    /\ KeysOf(w2) = KeysOf(w) \cup {s}
    /\ \A k \in Int : Child(w2, k) = IF k < s /\ \A x \in KeysOf(w) : ~(k < x /\ x < s) THEN id
                                     ELSE IF Child(w, k) = id THEN new ELSE Child(w, k)

\* Where keys of page id are sent when those from s on have a new page.
SplitAt(e, id, s, new) == [k \in Int |-> IF e[k] = id /\ s <= k THEN new ELSE e[k]]

\* What a split says of one key k of the parent q's: it was in another page, or is in the left
\* or the right half.
SplitCases(P, Q, e, g, id, s, new, k) ==
    \/ e[k] # id /\ g[k] = e[k] /\ Q[g[k]] = P[e[k]]
    \/ e[k] = id /\ k < s /\ g[k] = id
    \/ e[k] = id /\ s <= k /\ g[k] = new

\* Where the keys of a page that was split are sent.
LEMMA SplitChoice ==
    ASSUME NEW P, NEW Q, NEW e, NEW id, NEW s \in Int, NEW new, NEW k \in Int, e[k] # id => Q[e[k]] = P[e[k]]
    PROVE  SplitCases(P, Q, e, SplitAt(e, id, s, new), id, s, new, k)
<1>1. SplitAt(e, id, s, new)[k] = IF e[k] = id /\ s <= k THEN new ELSE e[k]
  BY DEF SplitAt
<1>2. (k < s \/ s <= k) /\ ~(k < s /\ s <= k)
  OBVIOUS
<1> QED
  BY <1>1, <1>2 DEF SplitCases

\* Q has the halves of page id of level n, which are cut at s, and their parent q.
SplitOf(P, Q, L, id, q, s, new, n) ==
    /\ new \notin L
    /\ Halved(P[id], Q[id], Q[new], s, n) /\ Promoted(P[q], Q[q], s, id, new)
    /\ \A i \in L : i # id /\ i # q => Q[i] = P[i]

\* A split regroups the pages below the parent.
LEMMA SplitRegroups ==
    ASSUME NEW P, NEW N, NEW lv, NEW L, NEW root, Shape(P, N, lv, L, root),
           NEW at, Routes(P, lv[root], root, at), NEW u \in 1..lv[root], NEW q, NEW id, NEW k0 \in Int,
           at[u][k0] = q, at[u - 1][k0] = id, NEW new, NEW s, NEW Q,
           SplitOf(P, Q, L, id, q, s, new, u - 1)
    PROVE  Regroups(Q, at[u], SplitAt(at[u - 1], id, s, new), at[u - 2], q, u - 1) /\ s \notin KeysOf(P[q])
<1> DEFINE f == at[u]
           e == at[u - 1]
           g == SplitAt(e, id, s, new)
<1> USE DEF SplitOf
<1>1. u \in 0..lv[root] /\ u - 1 \in 0..lv[root] /\ u \in Nat /\ u - 1 \in Nat /\ u # 0 /\ u # u - 1
  BY RouteLink
<1>2. /\ \A k \in Int : e[k] = Child(P[f[k]], k)
      /\ \A k, m \in Int : e[k] = e[m] => f[k] = f[m] /\ SameSlot(P[f[k]], k, m)
  BY RouteLink
<1>3. \A x \in KeysOf(P[id]) : x \in Int /\ x - 1 \in Int /\ e[x] = id /\ (u - 1 # 0 => e[x - 1] = id)
  BY <1>1, RoutePage
<1>4. \A x \in KeysOf(P[q]) : x \in Int /\ x - 1 \in Int /\ f[x] = q /\ f[x - 1] = q
  BY <1>1, RoutePage
<1>5. \A k \in Int : e[k] \in L /\ lv[e[k]] = u - 1 /\ e[k] # q
  BY <1>1, RouteLevels
<1>6. s \in KeysOf(P[id]) /\ s \in Int /\ e[s] = id
  BY <1>3 DEF Halved
<1>7. f[s] = q /\ f[s - 1] = q /\ s \notin KeysOf(P[q])
  <2>1. PICK x \in KeysOf(P[id]) : x < s
    BY DEF Halved
  <2>2. x \in Int /\ at[u - 1][x] = id /\ at[u - 1][s] = id
    BY <1>3, <1>6, <2>1
  <2> QED
    BY <1>6, <2>1, <2>2, OwnKey
<1>8. \A k \in Int : e[k] = id => f[k] = q /\ SameSlot(P[q], k, s)
  BY <1>2, <1>6, <1>7
<1>9. id # new /\ id \in L
  BY <1>5
<1>10. \A k \in Int : g[k] = IF e[k] = id /\ s <= k THEN new ELSE e[k]
  BY DEF SplitAt
<1> HIDE DEF g
<1>11. ASSUME NEW k \in Int PROVE SplitCases(P, Q, e, g, id, s, new, k)
  <2>1. s \in Int /\ (e[k] # id => Q[e[k]] = P[e[k]])
    BY <1>5, <1>6
  <2> HIDE DEF e
  <2>2. SplitCases(P, Q, e, SplitAt(e, id, s, new), id, s, new, k)
    BY <2>1, SplitChoice
  <2> QED
    BY <2>2 DEF g
<1>12. ASSUME NEW k \in Int, f[k] = q
       PROVE  (k < s /\ \A x \in KeysOf(P[q]) : ~(k < x /\ x < s)) <=> (e[k] = id /\ k < s)
  <2>1. ASSUME e[k] = id, k < s, NEW x \in KeysOf(P[q]), k < x, x < s PROVE FALSE
    <3>1. x <= k <=> x <= s
      BY <1>8, <2>1 DEF SameSlot
    <3>2. x \in Int /\ s \in Int
      BY <1>4, <1>6
    <3> HIDE DEF e, f
    <3> QED
      BY <2>1, <3>1, <3>2
  <2>2. ASSUME k < s, \A x \in KeysOf(P[q]) : ~(k < x /\ x < s) PROVE e[k] = id
    <3>1. ASSUME NEW x \in KeysOf(P[q]) PROVE x <= k <=> x <= s
      <4>1. x \in Int /\ x # s /\ ~(k < x /\ x < s)
        BY <1>4, <1>7, <2>2
      <4> QED
        BY <1>6, <2>2, <4>1
    <3>2. Child(P[q], k) = Child(P[q], s)
      BY <3>1, SameChild DEF SameSlot
    <3> QED
      BY <1>2, <1>6, <1>7, <1>12, <3>2
  <2> QED
    BY <2>1, <2>2
<1>13. \A x \in KeysOf(Q[q]) : f[x] = q /\ f[x - 1] = q
  BY <1>4, <1>7 DEF Promoted
<1>14. ASSUME NEW k \in Int, f[k] = q PROVE g[k] = Child(Q[q], k)
  <2>1. e[k] = Child(P[q], k)
    BY <1>2, <1>14
  <2>2. Child(Q[q], k) = IF e[k] = id /\ k < s THEN id ELSE IF e[k] = id THEN new ELSE e[k]
    BY <1>12, <1>14, <2>1 DEF Promoted
  <2>3. ~(k < s /\ s <= k)
    BY <1>6
  <2> QED
    BY <1>11, <2>2, <2>3 DEF SplitCases
<1>15. ASSUME NEW k \in Int, f[k] = q, NEW x \in KeysOf(Q[g[k]])
       PROVE  g[x] = g[k] /\ (u - 1 # 0 => g[x - 1] = g[k])
  <2>1. CASE e[k] # id
    <3>1. x \in KeysOf(P[e[k]]) /\ g[k] = e[k]
      BY <1>11, <1>15, <2>1 DEF SplitCases
    <3>2. x \in Int /\ x - 1 \in Int /\ e[x] = e[k] /\ (u - 1 # 0 => e[x - 1] = e[k])
      BY <1>1, <3>1, RoutePage
    <3> QED
      BY <1>10, <2>1, <3>1, <3>2
  <2>2. CASE e[k] = id /\ k < s /\ g[k] = id
    <3>1. x \in KeysOf(P[id]) /\ x < s
      BY <1>15, <2>2 DEF Halved
    <3>2. x \in Int /\ x - 1 \in Int /\ ~(s <= x) /\ ~(s <= x - 1)
      <4>1. x \in Int /\ s \in Int
        BY <1>3, <1>6, <3>1
      <4> HIDE DEF e, f
      <4> QED
        BY <3>1, <4>1
    <3> QED
      BY <1>3, <1>10, <2>2, <3>1, <3>2
  <2>3. CASE e[k] = id /\ s <= k /\ g[k] = new
    <3>1. x \in KeysOf(P[id]) /\ s <= x /\ (u - 1 # 0 => s < x)
      BY <1>15, <2>3 DEF Halved
    <3>2. x \in Int /\ x - 1 \in Int /\ (u - 1 # 0 => s <= x - 1)
      <4>1. x \in Int /\ s \in Int
        BY <1>3, <1>6, <3>1
      <4>2. s < x => s <= x - 1
        BY <4>1
      <4> QED
        BY <3>1, <4>1, <4>2
    <3> QED
      BY <1>3, <1>10, <2>3, <3>1, <3>2
  <2> QED
    BY <1>11, <2>1, <2>2, <2>3 DEF SplitCases
<1>16. ASSUME NEW k \in Int, f[k] = q, NEW m \in Int, g[k] = g[m] PROVE f[m] = q /\ SameSlot(Q[q], k, m)
  <2>1. e[k] = e[m] /\ (s <= k <=> s <= m)
    <3>1. ~(k < s /\ s <= k) /\ ~(m < s /\ s <= m)
      BY <1>6
    <3>2. SplitCases(P, Q, e, g, id, s, new, k) /\ SplitCases(P, Q, e, g, id, s, new, m)
      BY <1>11
    <3>3. e[k] # new /\ e[m] # new
      BY <1>5
    <3>4. e[k] = e[m]
      BY <1>9, <1>16, <3>2, <3>3 DEF SplitCases
    <3>5. CASE e[k] = id
      BY <1>9, <1>16, <3>1, <3>2, <3>3, <3>4, <3>5 DEF SplitCases
    <3>6. CASE e[k] # id
      <4>1. SameSlot(P[q], k, m) /\ f[m] = q
        BY <1>2, <1>16, <3>4
      <4>2. ASSUME NEW a \in Int, NEW b \in Int, a < s, s <= b, f[a] = q, SameSlot(P[q], a, b) PROVE e[a] = id
        <5>1. ASSUME NEW x \in KeysOf(P[q]) PROVE x <= a <=> x <= s
          <6>1. x \in Int /\ (x <= a <=> x <= b)
            BY <1>4, <4>2 DEF SameSlot
          <6> QED
            BY <1>6, <4>2, <6>1
        <5>2. Child(P[q], a) = Child(P[q], s)
          BY <5>1, SameChild DEF SameSlot
        <5> QED
          BY <1>2, <1>6, <1>7, <4>2, <5>2
      <4>3. SameSlot(P[q], m, k)
        BY <4>1 DEF SameSlot
      <4>4. ~(k < s /\ s <= m)
        BY <1>16, <3>6, <4>1, <4>2
      <4>5. ~(m < s /\ s <= k)
        BY <3>4, <3>6, <4>1, <4>2, <4>3
      <4>6. s \in Int
        BY <1>6
      <4> HIDE DEF e, f
      <4> QED
        BY <3>4, <4>4, <4>5, <4>6
    <3> QED
      BY <3>4, <3>5, <3>6
  <2>2. f[m] = q /\ SameSlot(P[q], k, m)
    BY <1>2, <1>16, <2>1
  <2> QED
    BY <2>1, <2>2 DEF SameSlot, Promoted
<1>17. ASSUME u - 1 # 0, NEW k \in Int, f[k] = q
       PROVE  /\ at[u - 2][k] = Child(Q[g[k]], k)
              /\ \A m \in Int : at[u - 2][k] = at[u - 2][m] => g[k] = g[m] /\ SameSlot(Q[g[k]], k, m)
  <2>1. PICK v \in 1..lv[root] : v = u - 1 /\ v - 1 = u - 2
    <3>1. u - 1 \in 1..lv[root] /\ u - 1 - 1 = u - 2
      BY <1>1, <1>17
    <3> QED
      BY <3>1
  <2>2. /\ \A a \in Int : at[v - 1][a] = Child(P[at[v][a]], a)
        /\ \A a, b \in Int : at[v - 1][a] = at[v - 1][b] => at[v][a] = at[v][b] /\ SameSlot(P[at[v][a]], a, b)
    BY RouteLink
  <2>3. at[u - 2][k] = Child(P[e[k]], k)
    BY <2>1, <2>2
  <2>4. at[u - 2][k] = Child(Q[g[k]], k)
    <3>1. SplitCases(P, Q, e, g, id, s, new, k)
      BY <1>11
    <3> QED
      BY <1>17, <2>3, <3>1 DEF SplitCases, Halved
  <2>5. ASSUME NEW m \in Int, at[u - 2][k] = at[u - 2][m] PROVE g[k] = g[m] /\ SameSlot(Q[g[k]], k, m)
    <3>1. e[k] = e[m] /\ SameSlot(P[e[k]], k, m)
      BY <2>1, <2>2, <2>5
    <3>2. e[k] = id => (s <= k <=> s <= m)
      BY <1>6, <3>1 DEF SameSlot
    <3>3. SplitCases(P, Q, e, g, id, s, new, k)
      BY <1>11
    <3>4. g[k] = g[m]
      BY <1>10, <3>1, <3>2
    <3>5. \A x \in KeysOf(Q[g[k]]) : x \in KeysOf(P[e[k]])
      BY <3>3 DEF SplitCases, Halved
    <3> QED
      BY <3>1, <3>4, <3>5 DEF SameSlot
  <2> QED
    BY <2>4, <2>5
<1>18. Regroups(Q, f, g, at[u - 2], q, u - 1)
  BY <1>13, <1>14, <1>15, <1>16, <1>17 DEF Regroups
<1> QED
  BY <1>7, <1>18 DEF g

\* Every key has the entry on the pages Q that it has on P.
SameEntries(P, e, Q, g) ==
    \A c : c.key \in Int => (c \in ToSet(Q[g[c.key]].cells) <=> c \in ToSet(P[e[c.key]].cells))

\* handle_overfull's halves.
LEMMA HalvedIs ==
    ASSUME NEW lv, NEW S, NEW ids, NEW n \in Nat, NEW p, PageAt(p, n, lv, S, ids), Len(p.cells) = ORDER, NEW right
    PROVE  Halved(p, LeftHalf(p, right), RightHalf(p), Separator(p).key, n)
<1> DEFINE V == Vals(lv, S, n)
           W == Ptrs(lv, S, n, ids)
           X == V \cup W \cup {right}
           l == LeftHalf(p, right)
           r == RightHalf(p)
           s == Separator(p).key
<1>1. p \in PagesOf(V, W) /\ (IsLeafLevel(p) <=> n = 0)
  BY PageAtFacts
<1>2. W \subseteq X /\ (IF IsLeafLevel(p) THEN right \in X ELSE V \subseteq X)
  OBVIOUS
<1> HIDE DEF V, W, X, s, l, r
<1>3. /\ l \in PagesOf(V, X) /\ l.ptr = LeftPtr(p, right, Separator(p))
      /\ Len(l.cells) = DEGREE /\ \A i \in 1..DEGREE : l.cells[i] = p.cells[i]
      /\ r \in PagesOf(V, X) /\ r.ptr = p.ptr
      /\ Len(r.cells) = ORDER - Skipped(p)
      /\ \A i \in 1..ORDER - Skipped(p) : r.cells[i] = p.cells[Skipped(p) + i]
  <2>1. p \in PagesOf(V, W) /\ Len(p.cells) = ORDER
    BY <1>1
  <2> QED
    BY <1>2, <2>1, SMTT(60), HalvesAre DEF l, r
<1>4. l.cells \in Lists(V) /\ r.cells \in Lists(V)
  BY <1>3, PageFacts
<1>5. ~IsLeafLevel(p) => l.ptr = Separator(p).val
  BY <1>3 DEF LeftPtr
<1>6. s = Separator(p).key
  BY DEF s
<1>7. Cut(p, l, r, s)
  <2>1. /\ p \in PagesOf(V, W) /\ Len(p.cells) = ORDER /\ s = Separator(p).key
        /\ l.cells \in Lists(V) /\ r.cells \in Lists(V)
        /\ Len(l.cells) = DEGREE /\ \A i \in 1..DEGREE : l.cells[i] = p.cells[i]
        /\ Len(r.cells) = ORDER - Skipped(p)
        /\ \A i \in 1..ORDER - Skipped(p) : r.cells[i] = p.cells[Skipped(p) + i]
    BY <1>1, <1>3, <1>4, <1>6
  <2> QED
    BY <2>1, HalvesSplit
<1>8. \A x \in KeysOf(p) : x \in Int
  BY <1>1, PageFacts
<1>9. \A x \in KeysOf(r) : x \in KeysOf(p) /\ s <= x /\ (n # 0 => s < x)
  <2>1. \A x \in Int : s \in Int /\ s < x => s <= x
    OBVIOUS
  <2> QED
    BY <1>1, <1>7, <1>8, <2>1 DEF Cut
<1>10. n # 0 => \A k \in Int : /\ k < s => Child(l, k) = Child(p, k)
                               /\ s <= k => Child(r, k) = Child(p, k)
  BY <1>1, <1>3, <1>5, <1>7 DEF Cut
<1>11. Halved(p, l, r, s, n)
  BY <1>1, <1>7, <1>9, <1>10 DEF Halved, Cut
<1> QED
  BY <1>11 DEF l, r, s

\* The parent of a page that was split.
LEMMA PromotedIs ==
    ASSUME NEW V, NEW w \in PagesOf(V, V), NEW id \in V, NEW new, NEW s \in Keys, s \notin KeysOf(w)
    PROVE  LET added == AddCell(Repoint(w, id, new), s, id)
           IN  added.ok => Promoted(w, added.page, s, id, new)
<1> DEFINE X == V \cup {new}
           p == Repoint(w, id, new)
           added == AddCell(p, s, id)
<1>1. w \in PagesOf(X, X) /\ id \in X /\ new \in X
  <2>1. V \subseteq X
    OBVIOUS
  <2> HIDE DEF X
  <2>2. w \in PagesOf(X, X)
    BY <2>1, MorePages
  <2> QED
    BY <2>1, <2>2 DEF X
<1> HIDE DEF X
<1>2. /\ p \in PagesOf(X, X) /\ KeysOf(p) = KeysOf(w)
      /\ \A k \in Int : Child(p, k) = IF Child(w, k) = id THEN new ELSE Child(w, k)
  BY <1>1, RepointIs
<1> HIDE DEF p
<1>3. added.page \in PagesOf(X, X) /\ (added.ok => Added(p, s, id, added.page))
  BY <1>1, <1>2, AddCellIs
<1> HIDE DEF added
<1>4. ASSUME added.ok PROVE Promoted(w, added.page, s, id, new)
  <2>1. Added(p, s, id, added.page) /\ s \in Int /\ s \notin KeysOf(p)
    BY <1>2, <1>3, <1>4, Constants
  <2>2. KeysOf(added.page) = KeysOf(w) \cup {s}
    BY <1>2, <1>3, <2>1, AddedKeys
  <2>3. ASSUME NEW k \in Int
        PROVE  Child(added.page, k) = IF k < s /\ \A x \in KeysOf(w) : ~(k < x /\ x < s) THEN id
                                      ELSE IF Child(w, k) = id THEN new ELSE Child(w, k)
    <3>1. Child(added.page, k) = IF k < s /\ \A x \in KeysOf(p) : ~(k < x /\ x < s) THEN id ELSE Child(p, k)
      BY <1>2, <1>3, <2>1, AddedChild
    <3> QED
      BY <1>2, <3>1
  <2> QED
    BY <2>2, <2>3 DEF Promoted
<1> QED
  BY <1>4 DEF added, p

\* The pages of a split.
LEMMA SplitWrites ==
    ASSUME NEW P, NEW id, NEW right, NEW parent, right \notin DOMAIN P, id \in DOMAIN P, parent \in DOMAIN P,
           id # parent
    PROVE  LET Q == SplitPages(P, id, right, parent)
           IN  /\ Q[id] = LeftHalf(P[id], right) /\ Q[right] = RightHalf(P[id])
               /\ Q[parent] = AddCell(Repoint(P[parent], id, right), Separator(P[id]).key, id).page
               /\ \A i \in DOMAIN P : i # id /\ i # parent => Q[i] = P[i]
  BY DEF SplitPages, With

\* Page id is full, and its parent q takes the promoted cell.
CanSplit(P, id, right, q) ==
    /\ Len(P[id].cells) = ORDER
    /\ AddCell(Repoint(P[q], id, right), Separator(P[id]).key, id).ok

\* A split below the root keeps routes, and entries.
LEMMA SplitRoutes ==
    ASSUME NEW P, NEW N, NEW lv, NEW L, NEW root, Shape(P, N, lv, L, root),
           NEW at, Routes(P, lv[root], root, at), NEW u \in 1..lv[root], NEW q, NEW id, NEW k0 \in Int,
           at[u][k0] = q, at[u - 1][k0] = id, CanSplit(P, id, N, q)
    PROVE  \E b : /\ Routes(SplitPages(P, id, N, q), lv[root], root, b)
                  /\ SameEntries(P, at[0], SplitPages(P, id, N, q), b[0])
<1> DEFINE f == at[u]
           e == at[u - 1]
           Q == SplitPages(P, id, N, q)
           s == Separator(P[id]).key
           g == SplitAt(e, id, s, N)
           b == [at EXCEPT ![u - 1] = g]
<1>1. /\ u \in 0..lv[root] /\ u - 1 \in 0..lv[root] /\ u \in Nat /\ u - 1 \in Nat /\ u # 0 /\ u # u - 1
      /\ lv[root] \in Nat
  BY RouteLink
<1>0. Len(P[id].cells) = ORDER /\ AddCell(Repoint(P[q], id, N), Separator(P[id]).key, id).ok
  BY DEF CanSplit
<1>2. /\ N \in Nat /\ DOMAIN P = Ids(N) /\ L \subseteq Ids(N) /\ N \notin Ids(N)
      /\ \A i \in L : PageAt(P[i], lv[i], lv, L, Ids(N))
  BY ShapeFacts, NextNumber
<1>3. \A k \in Int : e[k] \in L /\ lv[e[k]] = u - 1 /\ f[k] \in L /\ lv[f[k]] = u
  BY <1>1, RouteLevels
<1>4. id \in L /\ q \in L /\ lv[id] = u - 1 /\ lv[q] = u /\ id # q /\ N \notin L
  BY <1>1, <1>2, <1>3
<1>5. \A k \in Int : e[k] # q
  BY <1>1, <1>3, <1>4
<1>6. /\ Q[id] = LeftHalf(P[id], N) /\ Q[N] = RightHalf(P[id])
      /\ Q[q] = AddCell(Repoint(P[q], id, N), s, id).page
      /\ \A i \in L : i # id /\ i # q => Q[i] = P[i]
  <2>1. N \notin DOMAIN P /\ id \in DOMAIN P /\ q \in DOMAIN P
    BY <1>2, <1>4
  <2>2. \A i \in L : i \in DOMAIN P
    BY <1>2
  <2> QED
    BY <1>4, <2>1, <2>2, SplitWrites
<1>7. Halved(P[id], Q[id], Q[N], s, u - 1)
  <2>1. PageAt(P[id], u - 1, lv, L, Ids(N))
    BY <1>2, <1>4
  <2> HIDE DEF Q
  <2> QED
    BY <1>0, <1>1, <1>6, <2>1, HalvedIs
<1>8. s \in KeysOf(P[id]) /\ s \in Int /\ s \in Keys
  <2>1. s \in KeysOf(P[id]) /\ s \in Int
    BY <1>7 DEF Halved
  <2>2. KeysOf(P[id]) \subseteq Keys
    BY <1>1, RoutePage
  <2> QED
    BY <2>1, <2>2
<1>9. s \notin KeysOf(P[q])
  <2>0. \A y \in KeysOf(P[id]) : y \in Int /\ y - 1 \in Int /\ e[y] = id /\ (u - 1 # 0 => e[y - 1] = id)
    <3>1. PICK v \in 0..lv[root] : v = u - 1
      BY <1>1
    <3>2. at[v][k0] = id
      BY <3>1
    <3>3. \A y \in KeysOf(P[id]) : y \in Int /\ y - 1 \in Int /\ at[v][y] = id /\ (v # 0 => at[v][y - 1] = id)
      BY <3>2, RoutePage
    <3> QED
      BY <3>1, <3>3
  <2> HIDE DEF Q, s
  <2>1. PICK x \in KeysOf(P[id]) : x < s
    BY <1>7 DEF Halved
  <2>2. \A y \in KeysOf(P[id]) : y \in Int /\ at[u - 1][y] = id
    BY <2>0
  <2>3. /\ x \in Int /\ s \in Int /\ at[u - 1][x] = id /\ at[u - 1][s] = id /\ x < s
        /\ at[u][k0] = q /\ at[u - 1][k0] = id
    BY <1>8, <2>1, <2>2
  <2> QED
    BY <2>3, OwnKey
<1>10. Promoted(P[q], Q[q], s, id, N)
  <2>1. P[q] \in PagesOf(Below(lv, L, u), Below(lv, L, u))
    <3>1. lv[q] # 0 /\ lv[q] = u
      BY <1>1, <1>4
    <3> QED
      BY <1>4, <3>1, ParentPage
  <2>2. id \in Below(lv, L, u)
    BY <1>4 DEF Below
  <2> HIDE DEF Q, s
  <2>3. LET added == AddCell(Repoint(P[q], id, N), s, id) IN added.ok => Promoted(P[q], added.page, s, id, N)
    BY <1>8, <1>9, <2>1, <2>2, PromotedIs
  <2> QED
    BY <1>0, <1>6, <2>3 DEF s
<1> HIDE DEF Q, s
<1>11. Regroups(Q, f, g, at[u - 2], q, u - 1)
  <2>1. at[u][k0] = q /\ at[u - 1][k0] = id /\ SplitOf(P, Q, L, id, q, s, N, u - 1)
    BY <1>4, <1>6, <1>7, <1>10 DEF SplitOf
  <2> HIDE DEF f, e, g, b
  <2>2. Regroups(Q, at[u], SplitAt(at[u - 1], id, s, N), at[u - 2], q, u - 1) /\ s \notin KeysOf(P[q])
    BY <2>1, SplitRegroups
  <2> QED
    BY <2>2 DEF f, e, g
<1>12. g \in [Int -> Nat]
  <2>1. \A k \in Int : e[k] \in Nat
    BY <1>2, <1>3, ShapeFacts
  <2> QED
    BY <1>2, <2>1 DEF SplitAt
<1>13. ASSUME NEW k \in Int PROVE SplitCases(P, Q, e, g, id, s, N, k)
  <2>1. s \in Int /\ (e[k] # id => Q[e[k]] = P[e[k]])
    BY <1>3, <1>5, <1>6, <1>8
  <2> HIDE DEF e
  <2> QED
    BY <2>1, SplitChoice
<1>14. Elsewhere(P, Q, lv, L, f, e, g, q, u)
  <2>1. \A i \in L : lv[i] # u /\ lv[i] # u - 1 => Q[i] = P[i]
    BY <1>4, <1>6
  <2>2. ASSUME NEW k \in Int, f[k] # q PROVE Q[f[k]] = P[f[k]] /\ g[k] = e[k] /\ Q[e[k]] = P[e[k]]
    <3>1. f[k] # id
      BY <1>1, <1>3, <1>4
    <3>2. Q[f[k]] = P[f[k]]
      BY <1>3, <1>6, <2>2, <3>1
    <3>3. \A m \in Int : e[m] = e[k0] => f[m] = f[k0]
      <4>1. k0 \in Int
        BY <1>1
      <4>2. \A x, m \in Int : at[u - 1][x] = at[u - 1][m] => at[u][x] = at[u][m]
        <5> HIDE DEF Q, s, g, e, f, b
        <5>1. Link(P, at[u], at[u - 1])
          BY DEF Routes
        <5> QED
          BY <5>1 DEF Link
      <4> HIDE DEF Q, s, g
      <4> QED
        BY <4>1, <4>2
    <3>4. k0 \in Int /\ e[k0] = id /\ f[k0] = q
      BY <1>1
    <3>5. e[k] # id
      <4> HIDE DEF e, f
      <4> QED
        BY <2>2, <3>3, <3>4
    <3> QED
      BY <1>13, <3>2, <3>5 DEF SplitCases
  <2> QED
    BY <2>1, <2>2 DEF Elsewhere
<1>15. Routes(Q, lv[root], root, b)
  <2> HIDE DEF g
  <2> QED
    BY <1>11, <1>12, <1>14, Regrouped
<1>16. SameEntries(P, at[0], Q, b[0])
  <2>1. at \in [Nat -> [Int -> Nat]]
    BY DEF Routes
  <2>2. CASE u - 1 = 0
    <3>1. b[0] = g /\ at[0] = e
      BY <2>1, <2>2
    <3>2. ASSUME NEW c, c.key \in Int PROVE c \in ToSet(Q[g[c.key]].cells) <=> c \in ToSet(P[e[c.key]].cells)
      <4>1. SplitCases(P, Q, e, g, id, s, N, c.key)
        BY <1>13, <3>2
      <4>2. ~(c.key < s /\ s <= c.key)
        BY <1>8, <3>2
      <4>3. /\ ToSet(Q[id].cells) = {d \in ToSet(P[id].cells) : d.key < s}
            /\ ToSet(Q[N].cells) = {d \in ToSet(P[id].cells) : s <= d.key}
        BY <1>7, <2>2 DEF Halved
      <4> QED
        BY <4>1, <4>2, <4>3 DEF SplitCases
    <3> QED
      BY <3>1, <3>2 DEF SameEntries
  <2>3. CASE u - 1 # 0
    <3>1. b[0] = at[0]
      BY <2>1, <2>3
    <3>2. \A k \in Int : at[0][k] \in L /\ lv[at[0][k]] = 0
      <4>1. 0 \in 0..lv[root]
        BY <1>1
      <4> QED
        BY <4>1, RouteLevels
    <3>3. \A k \in Int : Q[at[0][k]] = P[at[0][k]]
      BY <1>1, <1>4, <1>6, <2>3, <3>2
    <3> QED
      BY <3>1, <3>3 DEF SameEntries
  <2> QED
    BY <2>2, <2>3
<1> QED
  BY <1>15, <1>16 DEF Q

\* A page that has to be split.
Full(p) == Len(p.cells) = ORDER

\* Where the new root sends keys.
LEMMA OverRootChild ==
    ASSUME NEW s \in Keys, NEW id, NEW right, NEW k \in Int
    PROVE  /\ Child(OverRoot(s, id, right), k) = IF k < s THEN id ELSE right
           /\ KeysOf(OverRoot(s, id, right)) = {s} /\ s \in Int
<1> DEFINE V == {id, right}
           p == OverRoot(s, id, right)
<1>1. p.cells = <<[key |-> s, val |-> id]>> /\ p.ptr = right
  BY DEF OverRoot, NewPage
<1>2. Len(p.cells) = 1 /\ p.cells[1].key = s /\ p.cells[1].val = id
  BY <1>1
<1>3. p \in PagesOf(V, V) /\ s \in Int
  BY OverRootIs, Constants
<1> HIDE DEF V, p
<1>4. p.cells \in Lists(V) /\ KeysOf(p) = {p.cells[i].key : i \in 1..Len(p.cells)}
  BY <1>3, PageFacts
<1>5. KeysOf(p) = {s}
  BY <1>2, <1>4
<1>6. CASE k < s
  <2>1. Between(p, 1, k)
    BY <1>2, <1>6 DEF Between
  <2>2. Child(p, k) = Kid(p, 1)
    BY <1>4, <2>1, ChildIs
  <2> QED
    BY <1>2, <1>3, <1>5, <1>6, <2>2 DEF Kid, p
<1>7. CASE ~(k < s)
  <2>1. Between(p, 2, k)
    BY <1>2, <1>3, <1>7 DEF Between
  <2>2. Child(p, k) = Kid(p, 2)
    BY <1>4, <2>1, ChildIs
  <2>3. Kid(p, 2) = p.ptr
    BY <1>2 DEF Kid
  <2> QED
    BY <1>1, <1>3, <1>5, <1>7, <2>2, <2>3 DEF p
<1> QED
  BY <1>6, <1>7

\* The pages of a split of the root.
LEMMA SplitRootWrites ==
    ASSUME NEW P, NEW N \in Nat, DOMAIN P = Ids(N), NEW root \in Ids(N)
    PROVE  LET Q == SplitRoot(P, root, N)
           IN  /\ Q[root] = LeftHalf(P[root], N) /\ Q[N] = RightHalf(P[root])
               /\ Q[N + 1] = OverRoot(Separator(P[root]).key, root, N)
               /\ \A i \in Ids(N) : i # root => Q[i] = P[i]
<1>1. N # N + 1 /\ \A i \in Ids(N) : i # N /\ i # N + 1
  BY DEF Ids
<1> QED
  BY <1>1 DEF SplitRoot, With

\* The routes when the root on level h is split at s: N has its right half, top is the new root.
UnderTop(at, h, s, root, N, top) ==
    [at EXCEPT ![h] = SplitAt(at[h], root, s, N), ![h + 1] = [k \in Int |-> top]]

\* A split of the root keeps entries, and routes with a level more.
LEMMA SplitRootRoutes ==
    ASSUME NEW P, NEW N, NEW lv, NEW L, NEW root, Shape(P, N, lv, L, root),
           NEW at, Routes(P, lv[root], root, at), Full(P[root])
    PROVE  \E b : /\ Routes(SplitRoot(P, root, N), lv[root] + 1, N + 1, b)
                  /\ SameEntries(P, at[0], SplitRoot(P, root, N), b[0])
<1> DEFINE h == lv[root]
           Q == SplitRoot(P, root, N)
           s == Separator(P[root]).key
           g == SplitAt(at[h], root, s, N)
           top == [k \in Int |-> N + 1]
           b == UnderTop(at, h, s, root, N, N + 1)
<1>1. /\ N \in Nat /\ DOMAIN P = Ids(N) /\ L \subseteq Ids(N) /\ root \in L /\ root \in Ids(N)
      /\ PageAt(P[root], h, lv, L, Ids(N)) /\ N \notin Ids(N) /\ root \in Nat
  BY ShapeFacts, NextNumber
<1>2. /\ h \in Nat /\ at \in [Nat -> [Int -> Nat]]
      /\ \A k \in Int : at[h][k] = root
      /\ \A n \in 0..h : Own(P, n, at[n])
      /\ \A n \in 1..h : Link(P, at[n], at[n - 1])
  BY DEF Routes
<1>3. \A n \in 0..h, k \in Int : at[n][k] \in L /\ lv[at[n][k]] = n
  BY RouteLevels
<1>0. P[root] \in PagesOf(Vals(lv, L, h), Ptrs(lv, L, h, Ids(N)))
  BY <1>1 DEF PageAt
<1>4. Halved(P[root], LeftHalf(P[root], N), RightHalf(P[root]), s, h)
  <2>1. Len(P[root].cells) = ORDER
    BY DEF Full
  <2> QED
    BY <1>1, <1>2, <2>1, HalvedIs
<1>5. s \in KeysOf(P[root]) /\ s \in Int /\ s \in Keys
  <2>1. s \in KeysOf(P[root]) /\ s \in Int
    BY <1>4 DEF Halved
  <2>2. KeysOf(P[root]) \subseteq Keys
    BY <1>0, PageFacts
  <2> QED
    BY <2>1, <2>2
<1>6. /\ Q[root] = LeftHalf(P[root], N) /\ Q[N] = RightHalf(P[root])
      /\ Q[N + 1] = OverRoot(s, root, N) /\ \A i \in Ids(N) : i # root => Q[i] = P[i]
  BY <1>1, SplitRootWrites
<1>7. Halved(P[root], Q[root], Q[N], s, h)
  BY <1>4, <1>6
<1> HIDE DEF Q, s, h
<1>8. /\ \A k \in Int : Child(Q[N + 1], k) = IF k < s THEN root ELSE N
      /\ KeysOf(Q[N + 1]) = {s}
  <2>1. \A k \in Int : Child(OverRoot(s, root, N), k) = IF k < s THEN root ELSE N
    BY <1>5, OverRootChild
  <2>2. KeysOf(OverRoot(s, root, N)) = {s}
    <3>1. PICK k \in Int : k = 0
      OBVIOUS
    <3> QED
      BY <1>5, <3>1, OverRootChild
  <2>3. Q[N + 1] = OverRoot(s, root, N)
    BY <1>6
  <2> QED
    BY <2>1, <2>2, <2>3
<1>9. \A k \in Int : /\ k < s => g[k] = root
                     /\ s <= k => g[k] = N
                     /\ k < s \/ s <= k
                     /\ ~(k < s /\ s <= k)
  BY <1>2, <1>5 DEF SplitAt
<1>10. g \in [Int -> Nat]
  BY <1>1, <1>2 DEF SplitAt
<1> HIDE DEF g
<1>10a. PICK h1 \in Nat : h1 = h + 1
  BY <1>2
<1>11. h1 \in Nat /\ h1 = h + 1 /\ h1 # h /\ h1 - 1 = h /\ h1 \notin 0..h
  BY <1>2, <1>10a
<1>12. /\ b \in [Nat -> [Int -> Nat]] /\ b[h1] = top /\ b[h] = g /\ \A n \in Nat : n # h /\ n # h1 => b[n] = at[n]
  <2>1. top \in [Int -> Nat]
    BY <1>1
  <2>2. b = [at EXCEPT ![h] = g, ![h1] = top]
    BY <1>11 DEF UnderTop, g
  <2> HIDE DEF top, b
  <2> QED
    BY <1>2, <1>10, <1>11, <2>1, <2>2
<1>13. \A k \in Int : top[k] = N + 1
  OBVIOUS
<1> HIDE DEF b, top
<1>14. \A n \in 0..h : n # h => \A k \in Int : Q[at[n][k]] = P[at[n][k]]
  <2>1. \A i \in L : lv[i] # h => Q[i] = P[i]
    BY <1>1, <1>6 DEF h
  <2> QED
    BY <1>3, <2>1
<1>15. ASSUME NEW k \in Int, NEW x \in KeysOf(Q[g[k]]) PROVE g[x] = g[k] /\ (h # 0 => g[x - 1] = g[k])
  <2>1. \A y \in KeysOf(P[root]) : y \in Int /\ y - 1 \in Int
    <3>1. \A y \in KeysOf(P[root]) : y \in Int
      BY <1>0, PageFacts
    <3> QED
      BY <3>1
  <2>2. CASE k < s
    <3>1. x \in KeysOf(P[root]) /\ x < s
      BY <1>7, <1>9, <1>15, <2>2 DEF Halved
    <3>2. x \in Int /\ x - 1 \in Int /\ x - 1 < s
      BY <1>5, <2>1, <3>1
    <3> QED
      BY <1>9, <2>2, <3>1, <3>2
  <2>3. CASE s <= k
    <3>1. x \in KeysOf(P[root]) /\ s <= x /\ (h # 0 => s < x)
      BY <1>7, <1>9, <1>15, <2>3 DEF Halved
    <3>2. x \in Int /\ x - 1 \in Int /\ (s < x => s <= x - 1)
      BY <1>5, <2>1, <3>1
    <3> QED
      BY <1>9, <2>3, <3>1, <3>2
  <2> QED
    BY <1>9, <2>2, <2>3
<1>16. ASSUME NEW n \in 0..h1 PROVE Own(Q, n, b[n])
  <2>1. CASE n = h1
    <3>1. ASSUME NEW k \in Int, NEW x \in KeysOf(Q[N + 1]) PROVE top[x] = N + 1 /\ top[x - 1] = N + 1
      <4>1. x = s /\ s - 1 \in Int
        BY <1>5, <1>8
      <4> QED
        BY <1>5, <1>13, <4>1
    <3> QED
      BY <1>12, <1>13, <2>1, <3>1 DEF Own
  <2>2. CASE n = h
    BY <1>12, <1>15, <2>2 DEF Own
  <2>3. CASE n # h1 /\ n # h
    <3>1. n \in 0..h /\ n \in Nat
      BY <1>2, <1>11, <2>3
    <3>2. Own(P, n, at[n]) /\ b[n] = at[n] /\ \A k \in Int : Q[at[n][k]] = P[at[n][k]]
      BY <1>2, <1>12, <1>14, <2>3, <3>1
    <3> QED
      BY <3>2 DEF Own
  <2> QED
    BY <2>1, <2>2, <2>3
<1>17. Link(Q, top, g)
  BY <1>5, <1>8, <1>9, <1>13, <1>1 DEF Link, SameSlot
<1>18. ASSUME h # 0 PROVE Link(Q, g, at[h - 1])
  <2>1. Link(P, at[h], at[h - 1])
    BY <1>2, <1>18
  <2>2. ASSUME NEW k \in Int PROVE at[h - 1][k] = Child(Q[g[k]], k)
    <3>1. at[h - 1][k] = Child(P[root], k)
      BY <1>2, <2>1 DEF Link
    <3> QED
      BY <1>7, <1>9, <1>18, <3>1 DEF Halved
  <2>3. ASSUME NEW k \in Int, NEW m \in Int, at[h - 1][k] = at[h - 1][m] PROVE g[k] = g[m] /\ SameSlot(Q[g[k]], k, m)
    <3>1. SameSlot(P[root], k, m)
      BY <1>2, <2>1, <2>3 DEF Link
    <3>2. s <= k <=> s <= m
      BY <1>5, <3>1 DEF SameSlot
    <3>3. g[k] = g[m]
      BY <1>9, <3>2
    <3>4. \A x \in KeysOf(Q[g[k]]) : x \in KeysOf(P[root])
      BY <1>7, <1>9 DEF Halved
    <3> QED
      BY <3>1, <3>3, <3>4 DEF SameSlot
  <2> QED
    BY <2>2, <2>3 DEF Link
<1>19. ASSUME NEW n \in 1..h1 PROVE Link(Q, b[n], b[n - 1])
  <2>1. CASE n = h1
    BY <1>11, <1>12, <1>17, <2>1
  <2>2. CASE n = h
    <3>1. h # 0 /\ h - 1 \in Nat /\ h - 1 # h /\ h - 1 # h1
      BY <1>2, <1>11, <2>2
    <3> QED
      BY <1>12, <1>18, <2>2, <3>1
  <2>3. CASE n # h1 /\ n # h
    <3>1. PICK j \in 0..h : j = n - 1 /\ j # h /\ j # h1 /\ n \in 1..h /\ n \in 0..h /\ n \in Nat /\ j \in Nat
      <4>1. n - 1 \in 0..h /\ n - 1 # h /\ n - 1 # h1 /\ n \in 1..h /\ n \in 0..h /\ n \in Nat /\ n - 1 \in Nat
        BY <1>2, <1>11, <2>3
      <4> QED
        BY <4>1
    <3>2. Link(P, at[n], at[j]) /\ b[n] = at[n] /\ b[j] = at[j] /\ \A k \in Int : Q[at[n][k]] = P[at[n][k]]
      BY <1>2, <1>12, <1>14, <2>3, <3>1
    <3>3. Link(Q, b[n], b[j])
      BY <3>2 DEF Link
    <3> QED
      BY <3>1, <3>3
  <2> QED
    BY <2>1, <2>2, <2>3
<1>20. Routes(Q, h1, N + 1, b)
  BY <1>11, <1>12, <1>13, <1>16, <1>19 DEF Routes
<1>21. SameEntries(P, at[0], Q, b[0])
  <2>1. CASE h = 0
    <3>1. b[0] = g
      BY <1>12, <2>1
    <3>2. ASSUME NEW c, c.key \in Int PROVE c \in ToSet(Q[g[c.key]].cells) <=> c \in ToSet(P[at[0][c.key]].cells)
      <4>1. /\ ToSet(Q[root].cells) = {d \in ToSet(P[root].cells) : d.key < s}
            /\ ToSet(Q[N].cells) = {d \in ToSet(P[root].cells) : s <= d.key}
        BY <1>7, <2>1 DEF Halved
      <4>2. at[0][c.key] = root
        BY <1>2, <2>1, <3>2
      <4> QED
        BY <1>9, <3>2, <4>1, <4>2
    <3> QED
      BY <3>1, <3>2 DEF SameEntries
  <2>2. CASE h # 0
    <3>1. b[0] = at[0] /\ 0 \in 0..h
      BY <1>2, <1>11, <1>12, <2>2
    <3> QED
      BY <1>14, <2>2, <3>1 DEF SameEntries
  <2> QED
    BY <2>1, <2>2
<1> QED
  BY <1>11, <1>20, <1>21 DEF Q, h

-----------------------------------------------------------------------------
(* Records added and taken. *)

\* A leaf whose keys lead to it replaced by another of which that is true.
LEMMA LeafRoutes ==
    ASSUME NEW P, NEW N, NEW lv, NEW L, NEW root, Shape(P, N, lv, L, root),
           NEW at, Routes(P, lv[root], root, at), NEW leaf, lv[leaf] = 0, NEW Q,
           \A i \in L : i # leaf => Q[i] = P[i],
           \A x \in KeysOf(Q[leaf]) : at[0][x] = leaf
    PROVE  Routes(Q, lv[root], root, at)
<1> DEFINE h == lv[root]
<1>1. /\ h \in Nat /\ at \in [Nat -> [Int -> Nat]]
      /\ \A k \in Int : at[h][k] = root
      /\ \A n \in 0..h : Own(P, n, at[n])
      /\ \A n \in 1..h : Link(P, at[n], at[n - 1])
  BY DEF Routes
<1>2. \A n \in 0..h, k \in Int : at[n][k] \in L /\ lv[at[n][k]] = n
  BY RouteLevels
<1> HIDE DEF h
<1>3. \A n \in 0..h, k \in Int : n # 0 => Q[at[n][k]] = P[at[n][k]]
  BY <1>2
<1>4. ASSUME NEW n \in 0..h PROVE Own(Q, n, at[n])
  <2>1. Own(P, n, at[n])
    BY <1>1
  <2>2. CASE n = 0
    <3>1. ASSUME NEW k \in Int, NEW x \in KeysOf(Q[at[0][k]]) PROVE at[0][x] = at[0][k]
      <4>1. CASE at[0][k] = leaf
        BY <3>1, <4>1
      <4>2. CASE at[0][k] # leaf
        <5>1. Q[at[0][k]] = P[at[0][k]]
          BY <1>2, <2>2, <4>2
        <5> QED
          BY <2>1, <2>2, <3>1, <5>1 DEF Own
      <4> QED
        BY <4>1, <4>2
    <3> QED
      BY <2>2, <3>1 DEF Own
  <2>3. CASE n # 0
    BY <1>3, <2>1, <2>3 DEF Own
  <2> QED
    BY <2>2, <2>3
<1>5. ASSUME NEW n \in 1..h PROVE Link(Q, at[n], at[n - 1])
  <2>1. Link(P, at[n], at[n - 1])
    BY <1>1
  <2>2. n \in 0..h /\ n # 0
    BY <1>1
  <2> QED
    BY <1>3, <2>1, <2>2 DEF Link
<1> QED
  BY <1>1, <1>4, <1>5 DEF Routes, h

\* A record in its leaf: no other entry changes.
EntryAdded(P, e, Q, g, key, val) ==
    \A c : c.key \in Int => (c \in ToSet(Q[g[c.key]].cells) <=>
                               c \in ToSet(P[e[c.key]].cells) \/ c = [key |-> key, val |-> val])

\* A record added to its leaf keeps routes.
LEMMA InsertRoutes ==
    ASSUME NEW P, NEW N, NEW lv, NEW L, NEW root, Shape(P, N, lv, L, root),
           NEW at, Routes(P, lv[root], root, at), NEW key \in Keys, NEW val \in AllRecords, NEW leaf, leaf = at[0][key],
           NEW page, page \in PagesOf(AllRecords, Ids(N)), Added(P[leaf], key, val, page)
    PROVE  /\ Routes(With(P, leaf, page), lv[root], root, at)
           /\ EntryAdded(P, at[0], With(P, leaf, page), at[0], key, val)
<1> DEFINE Q == With(P, leaf, page)
<1>1. key \in Int /\ 0 \in 0..lv[root]
  <2>1. lv[root] \in Nat
    BY DEF Routes
  <2> QED
    BY <2>1, Constants
<1>2. /\ leaf \in L /\ lv[leaf] = 0
      /\ P[leaf] \in PagesOf(Vals(lv, L, 0), Ptrs(lv, L, 0, Ids(N)))
      /\ \A x \in KeysOf(P[leaf]) : x \in Int /\ at[0][x] = leaf
  <2>1. at[0][key] = leaf
    OBVIOUS
  <2> QED
    BY <1>1, <2>1, RoutePage
<1>3. P[leaf] \in PagesOf(AllRecords, Ids(N))
  BY <1>2 DEF Vals, Ptrs
<1>4. KeysOf(page) = KeysOf(P[leaf]) \cup {key} /\ ToSet(page.cells) = ToSet(P[leaf].cells) \cup {[key |-> key, val |-> val]}
  BY <1>3, AddedKeys
<1>5. Q[leaf] = page /\ \A i \in L : i # leaf => Q[i] = P[i]
  <2>1. \A i \in L : i \in DOMAIN P
    BY ShapeFacts
  <2> QED
    BY <1>2, <2>1, WithIs
<1> HIDE DEF Q
<1>6. \A x \in KeysOf(Q[leaf]) : at[0][x] = leaf
  BY <1>2, <1>4, <1>5
<1>7. Routes(Q, lv[root], root, at)
  BY <1>2, <1>5, <1>6, LeafRoutes
<1>8. ASSUME NEW c, c.key \in Int
      PROVE  c \in ToSet(Q[at[0][c.key]].cells) <=> c \in ToSet(P[at[0][c.key]].cells) \/ c = [key |-> key, val |-> val]
  <2>1. at[0][c.key] \in L
    BY <1>1, <1>8, RouteLevels
  <2>2. CASE at[0][c.key] = leaf
    BY <1>4, <1>5, <2>2
  <2>3. CASE at[0][c.key] # leaf
    BY <1>5, <2>1, <2>3
  <2> QED
    BY <2>2, <2>3
<1>9. EntryAdded(P, at[0], Q, at[0], key, val)
  BY <1>8 DEF EntryAdded
<1> QED
  BY <1>7, <1>9 DEF Q

\* The i-th cell of p is that of the key.
CellIs(p, i, key) == i \in 1..Len(p.cells) /\ p.cells[i].key = key

\* Page q is p without the cell of a key.
Lacks(p, q, key) ==
    /\ KeysOf(p) = KeysOf(q) \cup {key} /\ key \notin KeysOf(q)
    /\ \A c : c \in ToSet(q.cells) <=> c \in ToSet(p.cells) /\ c.key # key

\* A page without one of its cells.
LEMMA RemovedLacks ==
    ASSUME NEW V, NEW ids, NEW p \in PagesOf(V, ids), NEW i, NEW key, CellIs(p, i, key)
    PROVE  Lacks(p, RemoveCellAt(p, i), key)
<1> DEFINE q == RemoveCellAt(p, i)
<1>1. i \in 1..Len(p.cells) /\ p.cells[i].key = key
  BY DEF CellIs
<1>2. /\ RemoveCellAt(p, i) \in PagesOf(V, ids) /\ Len(RemoveCellAt(p, i).cells) = Len(p.cells) - 1
      /\ Added(RemoveCellAt(p, i), p.cells[i].key, p.cells[i].val, p)
      /\ p.cells[i].key \notin KeysOf(RemoveCellAt(p, i))
  <2> HIDE DEF q
  <2> QED
    BY <1>1, RemoveCellAtIs
<1>0. /\ KeysOf(p) = KeysOf(q) \cup {p.cells[i].key}
      /\ ToSet(p.cells) = ToSet(q.cells) \cup {[key |-> p.cells[i].key, val |-> p.cells[i].val]}
  <2> HIDE DEF q
  <2> QED
    BY <1>2, AddedKeys DEF q
<1>3. \A d \in ToSet(q.cells) : d.key \in KeysOf(q)
  BY DEF ToSet, KeysOf
<1> HIDE DEF q
<1>4. Lacks(p, q, key)
  BY <1>0, <1>1, <1>2, <1>3 DEF Lacks, q
<1> QED
  BY <1>4 DEF q

\* A key taken from its leaf: the entries of all others stay.
EntriesLess(P, e, Q, g, key) ==
    \A c : c.key \in Int => (c \in ToSet(Q[g[c.key]].cells) <=> c \in ToSet(P[e[c.key]].cells) /\ c.key # key)

\* A record taken from its leaf keeps routes.
LEMMA RemoveRoutes ==
    ASSUME NEW P, NEW N, NEW lv, NEW L, NEW root, Shape(P, N, lv, L, root),
           NEW at, Routes(P, lv[root], root, at), NEW key \in Keys, NEW leaf, leaf = at[0][key],
           NEW i, CellIs(P[leaf], i, key)
    PROVE  /\ Routes(With(P, leaf, RemoveCellAt(P[leaf], i)), lv[root], root, at)
           /\ EntriesLess(P, at[0], With(P, leaf, RemoveCellAt(P[leaf], i)), at[0], key)
<1> DEFINE p == P[leaf]
           page == RemoveCellAt(p, i)
           Q == With(P, leaf, page)
<1>1. key \in Int /\ 0 \in 0..lv[root]
  <2>1. lv[root] \in Nat
    BY DEF Routes
  <2> QED
    BY <2>1, Constants
<1>2. /\ leaf \in L /\ lv[leaf] = 0
      /\ p \in PagesOf(Vals(lv, L, 0), Ptrs(lv, L, 0, Ids(N)))
      /\ \A x \in KeysOf(p) : x \in Int /\ at[0][x] = leaf
  <2>1. at[0][key] = leaf
    OBVIOUS
  <2> HIDE DEF p
  <2>2. /\ leaf \in L /\ lv[leaf] = 0
        /\ P[leaf] \in PagesOf(Vals(lv, L, 0), Ptrs(lv, L, 0, Ids(N)))
        /\ \A x \in KeysOf(P[leaf]) : x \in Int /\ x - 1 \in Int /\ at[0][x] = leaf /\ (0 # 0 => at[0][x - 1] = leaf)
    BY <1>1, <2>1, RoutePage
  <2> QED
    BY <2>2 DEF p
<1>0. CellIs(p, i, key)
  OBVIOUS
<1>5. Q[leaf] = page /\ \A j \in L : j # leaf => Q[j] = P[j]
  <2>1. \A j \in L : j \in DOMAIN P
    BY ShapeFacts
  <2> QED
    BY <1>2, <2>1, WithIs
<1> HIDE DEF p
<1>4. Lacks(p, page, key)
  BY <1>0, <1>2, RemovedLacks
<1> HIDE DEF Q, page
<1>6. \A x \in KeysOf(Q[leaf]) : at[0][x] = leaf
  BY <1>2, <1>4, <1>5 DEF Lacks
<1>7. Routes(Q, lv[root], root, at)
  BY <1>2, <1>5, <1>6, LeafRoutes
<1>8. ASSUME NEW c, c.key \in Int
      PROVE  c \in ToSet(Q[at[0][c.key]].cells) <=> c \in ToSet(P[at[0][c.key]].cells) /\ c.key # key
  <2>1. at[0][c.key] \in L
    BY <1>1, <1>8, RouteLevels
  <2>2. CASE at[0][c.key] = leaf
    BY <1>4, <1>5, <2>2 DEF p, Lacks
  <2>3. CASE at[0][c.key] # leaf
    <3>1. c.key # key
      BY <2>3
    <3> QED
      BY <1>5, <2>1, <2>3, <3>1
  <2> QED
    BY <2>2, <2>3
<1>9. EntriesLess(P, at[0], Q, at[0], key)
  BY <1>8 DEF EntriesLess
<1> QED
  BY <1>7, <1>9 DEF Q, page, p

-----------------------------------------------------------------------------
(* Separators renamed. *)

\* The separator s of page q of level u is to be t: the next larger key of the leaf that s leads
\* to, and s is a key neither of that leaf nor of the pages between.
CanRename(P, at, u, q, s, t) ==
    /\ s < t /\ s \in KeysOf(P[q]) /\ at[u][s] = q /\ at[0][s] = at[0][t]
    /\ \A x \in KeysOf(P[at[0][s]]) : ~(s <= x /\ x < t)
    /\ \A n \in 1..u - 1 : s \notin KeysOf(P[at[n][s]])

\* Where a key from s on and below t leads then, those just below s lead already.
Lower(s, t) == [k \in Int |-> IF s <= k /\ k < t THEN s - 1 ELSE k]

\* Page w2 is w with the separator t for s.
Renames(w, w2, s, t) ==
    /\ KeysOf(w2) = {IF x = s THEN t ELSE x : x \in KeysOf(w)}
    /\ \A k \in Int : Child(w2, k) = Child(w, Lower(s, t)[k])

\* Lower's values.
LEMMA LowerIs ==
    ASSUME NEW s \in Int, NEW t \in Int, NEW k \in Int
    PROVE  /\ Lower(s, t)[k] \in Int
           /\ s <= k /\ k < t => Lower(s, t)[k] = s - 1
           /\ ~(s <= k /\ k < t) => Lower(s, t)[k] = k
  BY DEF Lower

\* No key from s to t in pages below q, but t in its leaf.
Gap(P, at, h, u, q, s, t) ==
    /\ \A n \in 0..h, k \in Int : s <= k /\ k <= t => at[n][k] = at[n][s]
    /\ \A n \in 0..u - 1, k \in Int : \A x \in KeysOf(P[at[n][k]]) :
          x \in Int /\ x - 1 \in Int /\ ~(s <= x /\ x < t) /\ (n # 0 => x # t)
    /\ \A x \in KeysOf(P[q]) : x \in Int /\ x - 1 \in Int /\ ~(s < x /\ x <= t)
    /\ at[u][s - 1] = q

\* What CanRename says of the keys between the two separators.
LEMMA RenameGap ==
    ASSUME NEW P, NEW N, NEW lv, NEW L, NEW root, Shape(P, N, lv, L, root),
           NEW at, Routes(P, lv[root], root, at), NEW u \in 1..lv[root], NEW q, NEW s \in Int, NEW t \in Int,
           CanRename(P, at, u, q, s, t)
    PROVE  Gap(P, at, lv[root], u, q, s, t)
<1> DEFINE h == lv[root]
<1>1. /\ s < t /\ s \in KeysOf(P[q]) /\ at[u][s] = q /\ at[0][s] = at[0][t]
      /\ \A x \in KeysOf(P[at[0][s]]) : ~(s <= x /\ x < t)
      /\ \A n \in 1..u - 1 : s \notin KeysOf(P[at[n][s]])
  BY DEF CanRename
<1>2. /\ h \in Nat /\ \A n \in 0..h : Own(P, n, at[n])
      /\ \A n \in 1..h : Link(P, at[n], at[n - 1])
  BY DEF Routes
<1>3. \A n \in 0..h : at[n][s] = at[n][t]
  <2>1. 0 \in 0..h
    BY <1>2
  <2> QED
    BY <1>1, <2>1, RouteUp
<1>4. ASSUME NEW n \in 0..h, NEW k \in Int, s <= k, k <= t PROVE at[n][k] = at[n][s]
  BY <1>3, <1>4, RouteConvex
<1>5. \A n \in 0..h, k \in Int : \A x \in KeysOf(P[at[n][k]]) :
         x \in Int /\ x - 1 \in Int /\ at[n][x] = at[n][k] /\ (n # 0 => at[n][x - 1] = at[n][k])
  BY RoutePage
<1> HIDE DEF h
<1>0. u \in 1..h /\ u \in 0..h /\ u \in Nat /\ u # 0 /\ \A n \in 0..u - 1 : n \in 0..h /\ n # h
  <2>1. u \in 1..h
    BY DEF h
  <2> QED
    BY <1>2, <2>1
<1>6. ASSUME NEW n \in 1..h, NEW x \in KeysOf(P[at[n][s]]) PROVE x \in Int /\ ~(s < x /\ x <= t)
  <2>1. n \in 0..h /\ n - 1 \in 0..h
    BY <1>2
  <2>2. at[n - 1][s] = at[n - 1][t]
    BY <1>3, <2>1
  <2>3. Link(P, at[n], at[n - 1])
    BY <1>2
  <2>4. x <= s <=> x <= t
    BY <2>2, <2>3 DEF Link, SameSlot
  <2>5. x \in Int
    BY <1>5, <2>1
  <2> QED
    BY <2>4, <2>5
<1>7. ASSUME NEW n \in 0..u - 1, NEW k \in Int, NEW x \in KeysOf(P[at[n][k]])
      PROVE  x \in Int /\ x - 1 \in Int /\ ~(s <= x /\ x < t) /\ (n # 0 => x # t)
  <2>1. n \in 0..h /\ x \in Int /\ x - 1 \in Int /\ at[n][x] = at[n][k]
    BY <1>0, <1>5
  <2>2. ASSUME s <= x, x <= t PROVE n = 0 /\ ~(x < t)
    <3>1. at[n][x] = at[n][s]
      BY <1>4, <2>1, <2>2
    <3>2. x \in KeysOf(P[at[n][s]])
      BY <2>1, <3>1
    <3>3. CASE n = 0
      BY <1>1, <2>2, <3>2, <3>3
    <3>4. CASE n # 0
      <4>1. n \in 1..h /\ n \in 1..u - 1
        BY <1>0, <2>1, <3>4
      <4>2. ~(s < x /\ x <= t) /\ s \notin KeysOf(P[at[n][s]])
        BY <1>1, <1>6, <3>2, <4>1
      <4> QED
        BY <2>1, <2>2, <3>2, <4>2
    <3> QED
      BY <3>3, <3>4
  <2> QED
    BY <1>1, <2>1, <2>2
<1>8. \A x \in KeysOf(P[q]) : x \in Int /\ x - 1 \in Int /\ ~(s < x /\ x <= t)
  BY <1>0, <1>1, <1>5, <1>6
<1>9. at[u][s - 1] = q
  BY <1>0, <1>1, <1>5
<1>10. Gap(P, at, h, u, q, s, t)
  BY <1>4, <1>7, <1>8, <1>9 DEF Gap
<1> QED
  BY <1>10 DEF h

\* The routes then.
Lowered(at, u, s, t) ==
    [n \in Nat |-> IF n < u THEN [k \in Int |-> at[n][Lower(s, t)[k]]] ELSE at[n]]

\* A separator renamed keeps routes and entries.
LEMMA RenameRoutes ==
    ASSUME NEW P, NEW N, NEW lv, NEW L, NEW root, Shape(P, N, lv, L, root),
           NEW at, Routes(P, lv[root], root, at), NEW u \in 1..lv[root], NEW q, NEW s \in Int, NEW t \in Int,
           CanRename(P, at, u, q, s, t), NEW Q, Renames(P[q], Q[q], s, t), \A i \in L : i # q => Q[i] = P[i]
    PROVE  \E b : Routes(Q, lv[root], root, b) /\ SameEntries(P, at[0], Q, b[0])
<1> DEFINE h == lv[root]
           r == Lower(s, t)
           b == Lowered(at, u, s, t)
<1>1. /\ h \in Nat /\ at \in [Nat -> [Int -> Nat]]
      /\ \A k \in Int : at[h][k] = root
      /\ \A n \in 0..h : Own(P, n, at[n])
      /\ \A n \in 1..h : Link(P, at[n], at[n - 1])
  BY DEF Routes
<1>2. \A n \in 0..h, k \in Int : at[n][k] \in L /\ lv[at[n][k]] = n
  BY RouteLevels
<1>3. /\ \A n \in 0..h, k \in Int : s <= k /\ k <= t => at[n][k] = at[n][s]
      /\ \A n \in 0..u - 1, k \in Int : \A x \in KeysOf(P[at[n][k]]) :
            x \in Int /\ x - 1 \in Int /\ ~(s <= x /\ x < t) /\ (n # 0 => x # t)
      /\ \A x \in KeysOf(P[q]) : x \in Int /\ x - 1 \in Int /\ ~(s < x /\ x <= t)
      /\ at[u][s - 1] = q
  <2>1. Gap(P, at, h, u, q, s, t)
    BY RenameGap
  <2> HIDE DEF h
  <2> QED
    BY <2>1 DEF Gap
<1>4. s < t /\ s \in KeysOf(P[q]) /\ at[u][s] = q /\ \A x \in KeysOf(P[at[0][s]]) : ~(s <= x /\ x < t)
  BY DEF CanRename
<1>5. \A k \in Int : /\ r[k] \in Int
                     /\ s <= k /\ k < t => r[k] = s - 1
                     /\ ~(s <= k /\ k < t) => r[k] = k
  BY LowerIs
<1> HIDE DEF h, r
<1>6. u \in 1..h /\ u \in 0..h /\ u \in Nat /\ u # 0 /\ \A n \in 0..u - 1 : n \in 0..h /\ n # h /\ n < u /\ n # u
  <2>1. u \in 1..h
    BY DEF h
  <2>2. u \in 0..h /\ u \in Nat /\ u # 0
    <3>1. h \in Nat
      BY <1>1
    <3> QED
      BY <2>1, <3>1
  <2>3. \A n \in 0..u - 1 : n \in 0..h /\ n # h
    <3>1. h \in Nat
      BY <1>1
    <3> QED
      BY <2>1, <3>1
  <2>4. \A n \in 0..u - 1 : n < u /\ n # u
    BY <2>2
  <2> QED
    BY <2>1, <2>2, <2>3, <2>4
<1>7. /\ b \in [Nat -> [Int -> Nat]]
      /\ \A n \in Nat : n < u => \A k \in Int : b[n][k] = at[n][r[k]]
      /\ \A n \in Nat : ~(n < u) => b[n] = at[n]
  <2>1. b = [n \in Nat |-> IF n < u THEN [k \in Int |-> at[n][r[k]]] ELSE at[n]]
    BY DEF Lowered, r
  <2> HIDE DEF b
  <2> QED
    BY <1>1, <1>5, <2>1
<1> HIDE DEF b
<1>8. q \in L /\ lv[q] = u
  BY <1>2, <1>4, <1>6
<1>9. \A n \in 0..h, k \in Int : n # u => Q[at[n][k]] = P[at[n][k]]
  BY <1>2, <1>8
<1>10. \A k \in Int : at[u][r[k]] = at[u][k]
  <2>1. ASSUME NEW k \in Int, s <= k, k < t PROVE at[u][k] = q
    BY <1>3, <1>4, <1>6, <2>1
  <2> QED
    BY <1>3, <1>5, <2>1
<1>11. ASSUME NEW n \in 0..u - 1, NEW k \in Int, NEW x \in KeysOf(P[at[n][k]]), NEW m \in Int
       PROVE  (x <= r[m] <=> x <= m) \/ (n = 0 /\ x = t)
  <2>1. x \in Int /\ ~(s <= x /\ x < t) /\ (n # 0 => x # t)
    BY <1>3
  <2>2. CASE s <= m /\ m < t
    BY <1>5, <2>1, <2>2
  <2>3. CASE ~(s <= m /\ m < t)
    BY <1>5, <2>3
  <2> QED
    BY <2>2, <2>3
<1>12. ASSUME NEW n \in 0..h PROVE Own(Q, n, b[n])
  <2>1. Own(P, n, at[n])
    BY <1>1
  <2>2. CASE n < u
    <3>1. n \in 0..u - 1 /\ n \in Nat
      BY <1>1, <1>6, <2>2
    <3>2. ASSUME NEW k \in Int, NEW x \in KeysOf(Q[b[n][k]]) PROVE b[n][x] = b[n][k] /\ (n # 0 => b[n][x - 1] = b[n][k])
      <4>1. b[n][k] = at[n][r[k]] /\ r[k] \in Int
        BY <1>5, <1>7, <2>2, <3>1
      <4>2. x \in KeysOf(P[at[n][r[k]]])
        BY <1>6, <1>9, <3>1, <3>2, <4>1
      <4>3. x \in Int /\ x - 1 \in Int /\ ~(s <= x /\ x < t) /\ (n # 0 => x # t)
        BY <1>3, <3>1, <4>1, <4>2
      <4>4. at[n][x] = at[n][r[k]] /\ (n # 0 => at[n][x - 1] = at[n][r[k]])
        BY <2>1, <4>1, <4>2 DEF Own
      <4>5. r[x] = x /\ (n # 0 => r[x - 1] = x - 1)
        <5>1. n # 0 => ~(s <= x - 1 /\ x - 1 < t)
          BY <1>4, <4>3
        <5> QED
          BY <1>5, <4>3, <5>1
      <4> QED
        BY <1>7, <2>2, <3>1, <4>1, <4>3, <4>4, <4>5
    <3> QED
      BY <3>2 DEF Own
  <2>3. CASE n = u
    <3>1. ASSUME NEW k \in Int, NEW x \in KeysOf(Q[at[u][k]]) PROVE at[u][x] = at[u][k] /\ at[u][x - 1] = at[u][k]
      <4>1. CASE at[u][k] = q
        <5>1. x = t \/ x \in KeysOf(P[q])
          BY <3>1, <4>1 DEF Renames
        <5>2. t - 1 \in Int /\ s <= t - 1 /\ t - 1 <= t /\ s <= t /\ t <= t
          BY <1>4
        <5>3. at[u][t] = q /\ at[u][t - 1] = q
          BY <1>3, <1>4, <1>6, <5>2
        <5>4. x \in KeysOf(P[q]) => at[u][x] = q /\ at[u][x - 1] = q
          BY <1>4, <1>6, <2>1, <2>3 DEF Own
        <5> QED
          BY <4>1, <5>1, <5>3, <5>4
      <4>2. CASE at[u][k] # q
        <5>1. x \in KeysOf(P[at[u][k]])
          BY <1>2, <1>6, <3>1, <4>2
        <5> QED
          BY <1>6, <2>1, <2>3, <5>1 DEF Own
      <4> QED
        BY <4>1, <4>2
    <3>2. b[u] = at[u]
      BY <1>6, <1>7
    <3> QED
      BY <2>3, <3>1, <3>2 DEF Own
  <2>4. CASE ~(n < u) /\ n # u
    <3>1. b[n] = at[n] /\ \A k \in Int : Q[at[n][k]] = P[at[n][k]]
      <4>1. n \in Nat
        BY <1>1
      <4> QED
        BY <1>7, <1>9, <2>4, <4>1
    <3> QED
      BY <2>1, <3>1 DEF Own
  <2> QED
    BY <2>2, <2>3, <2>4
<1>13. ASSUME NEW n \in 1..u - 1 PROVE Link(Q, b[n], b[n - 1])
  <2>1. PICK j \in 0..u - 1 : j = n - 1 /\ n \in 0..u - 1 /\ n \in 1..h /\ n < u /\ j < u /\ n \in Nat /\ j \in Nat /\ n # 0
    <3>1. n - 1 \in 0..u - 1 /\ n \in 0..u - 1 /\ n \in 1..h /\ n < u /\ n - 1 < u /\ n \in Nat /\ n - 1 \in Nat /\ n # 0
      BY <1>1, <1>6
    <3> QED
      BY <3>1
  <2>2. Link(P, at[n], at[j])
    BY <1>1, <2>1
  <2>3. \A k \in Int : b[n][k] = at[n][r[k]] /\ b[j][k] = at[j][r[k]] /\ r[k] \in Int
    BY <1>5, <1>7, <2>1
  <2>4. \A k \in Int : Q[at[n][k]] = P[at[n][k]]
    BY <1>6, <1>9, <2>1
  <2>5. ASSUME NEW k \in Int, NEW i \in Int PROVE SameSlot(P[at[n][i]], r[k], k)
    BY <1>11, <2>1 DEF SameSlot
  <2>6. ASSUME NEW k \in Int PROVE b[j][k] = Child(Q[b[n][k]], k)
    <3>1. b[j][k] = Child(P[at[n][r[k]]], r[k])
      BY <2>2, <2>3 DEF Link
    <3>2. SameSlot(P[at[n][r[k]]], r[k], k)
      BY <2>3, <2>5
    <3>3. Child(P[at[n][r[k]]], r[k]) = Child(P[at[n][r[k]]], k)
      BY <3>2, SameChild
    <3> QED
      BY <2>3, <2>4, <3>1, <3>3
  <2>7. ASSUME NEW k \in Int, NEW m \in Int, b[j][k] = b[j][m] PROVE b[n][k] = b[n][m] /\ SameSlot(Q[b[n][k]], k, m)
    <3>1. at[n][r[k]] = at[n][r[m]] /\ SameSlot(P[at[n][r[k]]], r[k], r[m])
      BY <2>2, <2>3, <2>7 DEF Link
    <3>2. SameSlot(P[at[n][r[k]]], r[k], k) /\ SameSlot(P[at[n][r[k]]], r[m], m)
      BY <2>3, <2>5
    <3>3. SameSlot(P[at[n][r[k]]], k, m)
      BY <3>1, <3>2 DEF SameSlot
    <3> QED
      BY <2>3, <2>4, <3>1, <3>3
  <2>8. Link(Q, b[n], b[j])
    BY <2>6, <2>7 DEF Link
  <2> QED
    BY <2>1, <2>8
<1>14. Link(Q, at[u], b[u - 1])
  <2>1. PICK j \in 0..u - 1 : j = u - 1 /\ j \in Nat /\ j < u
    <3>1. u - 1 \in 0..u - 1 /\ u - 1 \in Nat /\ u - 1 < u
      BY <1>6
    <3> QED
      BY <3>1
  <2>2. Link(P, at[u], at[j])
    BY <1>1, <1>6, <2>1
  <2>3. \A k \in Int : b[j][k] = at[j][r[k]] /\ r[k] \in Int
    BY <1>5, <1>7, <2>1
  <2>4. ASSUME NEW k \in Int PROVE b[j][k] = Child(Q[at[u][k]], k)
    <3>1. b[j][k] = Child(P[at[u][k]], r[k])
      BY <1>10, <2>2, <2>3 DEF Link
    <3>2. CASE at[u][k] = q
      BY <3>1, <3>2 DEF Renames, r
    <3>3. CASE at[u][k] # q
      <4>1. r[k] = k
        BY <1>3, <1>4, <1>5, <1>6, <3>3
      <4> QED
        BY <1>2, <1>6, <3>1, <3>3, <4>1
    <3> QED
      BY <3>2, <3>3
  <2>5. ASSUME NEW k \in Int, NEW m \in Int, b[j][k] = b[j][m] PROVE at[u][k] = at[u][m] /\ SameSlot(Q[at[u][k]], k, m)
    <3>1. at[u][k] = at[u][m] /\ SameSlot(P[at[u][k]], r[k], r[m])
      BY <1>10, <2>2, <2>3, <2>5 DEF Link
    <3>2. CASE at[u][k] = q
      <4>1. ASSUME NEW x \in KeysOf(P[q]), NEW i \in Int, x # s PROVE x <= r[i] <=> x <= i
        <5>1. x \in Int /\ ~(s <= x /\ x <= t)
          BY <1>3, <4>1
        <5>2. CASE s <= i /\ i < t
          BY <1>5, <5>1, <5>2
        <5>3. CASE ~(s <= i /\ i < t)
          BY <1>5, <5>3
        <5> QED
          BY <5>2, <5>3
      <4>2. ASSUME NEW i \in Int PROVE t <= i <=> s <= r[i]
        <5>1. CASE s <= i /\ i < t
          BY <1>5, <5>1
        <5>2. CASE ~(s <= i /\ i < t)
          BY <1>4, <1>5, <5>2
        <5> QED
          BY <5>1, <5>2
      <4>3. ASSUME NEW y \in KeysOf(Q[q]) PROVE y <= k <=> y <= m
        <5>1. PICK x \in KeysOf(P[q]) : y = IF x = s THEN t ELSE x
          BY <4>3 DEF Renames
        <5>2. x <= r[k] <=> x <= r[m]
          BY <3>1, <3>2 DEF SameSlot
        <5> QED
          BY <4>1, <4>2, <5>1, <5>2
      <4> QED
        BY <3>1, <3>2, <4>3 DEF SameSlot
    <3>3. CASE at[u][k] # q
      <4>1. r[k] = k /\ r[m] = m
        BY <1>3, <1>4, <1>5, <1>6, <3>1, <3>3
      <4> QED
        BY <1>2, <1>6, <3>1, <3>3, <4>1
    <3> QED
      BY <3>2, <3>3
  <2> QED
    BY <2>1, <2>4, <2>5 DEF Link
<1>15. ASSUME NEW n \in 1..h PROVE Link(Q, b[n], b[n - 1])
  <2>1. CASE n < u
    <3>1. n \in 1..u - 1
      BY <1>6, <2>1
    <3> QED
      BY <1>13, <3>1
  <2>2. CASE n = u
    <3>1. b[u] = at[u]
      BY <1>6, <1>7
    <3> QED
      BY <1>14, <2>2, <3>1
  <2>3. CASE ~(n < u) /\ n # u
    <3>1. PICK j \in 0..h : j = n - 1 /\ ~(j < u) /\ j \in Nat /\ n \in 0..h /\ n \in Nat
      <4>1. n - 1 \in 0..h /\ ~(n - 1 < u) /\ n - 1 \in Nat /\ n \in 0..h /\ n \in Nat
        BY <1>1, <1>6, <2>3
      <4> QED
        BY <4>1
    <3>2. Link(P, at[n], at[j])
      BY <1>1, <3>1
    <3>3. b[n] = at[n] /\ b[j] = at[j] /\ \A k \in Int : Q[at[n][k]] = P[at[n][k]]
      BY <1>7, <1>9, <2>3, <3>1
    <3>4. Link(Q, b[n], b[j])
      BY <3>2, <3>3 DEF Link
    <3> QED
      BY <3>1, <3>4
  <2> QED
    BY <2>1, <2>2, <2>3
<1>16. \A k \in Int : b[h][k] = root
  <2>1. CASE h < u
    BY <1>1, <1>6, <2>1
  <2>2. CASE ~(h < u)
    BY <1>1, <1>7, <2>2
  <2> QED
    BY <2>1, <2>2
<1>17. Routes(Q, h, root, b)
  BY <1>1, <1>7, <1>12, <1>15, <1>16 DEF Routes
<1>18. ASSUME NEW c, c.key \in Int PROVE c \in ToSet(Q[b[0][c.key]].cells) <=> c \in ToSet(P[at[0][c.key]].cells)
  <2>1. PICK k \in Int : k = c.key
    BY <1>18
  <2>2. 0 \in 0..u - 1 /\ 0 \in 0..h /\ 0 # u /\ 0 < u
    BY <1>1, <1>6
  <2>3. b[0][k] = at[0][r[k]] /\ r[k] \in Int
    BY <1>5, <1>7, <2>2
  <2>4. Q[at[0][r[k]]] = P[at[0][r[k]]]
    BY <1>9, <2>2, <2>3
  <2>5. CASE s <= k /\ k < t
    <3>1. k \notin KeysOf(P[at[0][r[k]]]) /\ k \notin KeysOf(P[at[0][k]])
      BY <1>3, <2>2, <2>3, <2>5
    <3>2. \A p : c \in ToSet(p.cells) => c.key \in KeysOf(p)
      BY DEF ToSet, KeysOf
    <3> QED
      BY <2>1, <2>3, <2>4, <3>1, <3>2
  <2>6. CASE ~(s <= k /\ k < t)
    BY <1>5, <2>1, <2>3, <2>4, <2>6
  <2> QED
    BY <2>5, <2>6
<1>19. SameEntries(P, at[0], Q, b[0])
  BY <1>18 DEF SameEntries
<1> QED
  BY <1>17, <1>19 DEF h

\* propagate_key_update's page is the ancestor with the separator renamed.
LEMMA RenamedIs ==
    ASSUME NEW V, NEW ids, NEW p \in PagesOf(V, ids), NEW s \in KeysOf(p), NEW t \in Keys, s < t,
           \A x \in KeysOf(p) : ~(s < x /\ x <= t)
    PROVE  Renames(p, Renamed(p, s, t), s, t)
<1> DEFINE q == Renamed(p, s, t)
           c == p.cells
           d == RenamedCells(p, s, t)
<1>1. /\ c \in Lists(V) /\ KeysOf(p) = {c[i].key : i \in 1..Len(c)}
      /\ \A x \in KeysOf(p) : x \in Int
  BY PageFacts
<1>2. /\ Len(c) \in Nat /\ \A i \in 1..Len(c) : c[i].key \in Int /\ c[i].key \in KeysOf(p)
      /\ \A i, j \in 1..Len(c) : i < j <=> c[i].key < c[j].key
  BY <1>1, ListFacts
<1>3. s \in Int /\ t \in Int
  BY <1>1, Constants
<1>4. /\ Len(d) = Len(c)
      /\ \A i \in 1..Len(c) : d[i].key = (IF c[i].key = s THEN t ELSE c[i].key) /\ d[i].val = c[i].val
  <2>1. Len(c) \in Nat
    BY <1>2
  <2>2. d = [i \in 1..Len(c) |-> IF c[i].key = s THEN [key |-> t, val |-> c[i].val] ELSE c[i]]
    BY DEF RenamedCells
  <2>3. \A i \in 1..Len(c) : d[i] = IF c[i].key = s THEN [key |-> t, val |-> c[i].val] ELSE c[i]
    BY <2>2
  <2>4. Len(d) = Len(c)
    BY <2>1, <2>2
  <2> HIDE DEF d, c
  <2>5. ASSUME NEW i \in 1..Len(c) PROVE d[i].key = (IF c[i].key = s THEN t ELSE c[i].key) /\ d[i].val = c[i].val
    <3>1. CASE c[i].key = s
      <4>1. d[i] = [key |-> t, val |-> c[i].val]
        BY <2>3, <3>1
      <4> QED
        BY <3>1, <4>1
    <3>2. CASE c[i].key # s
      BY <2>3, <3>2
    <3> QED
      BY <3>1, <3>2
  <2> QED
    BY <2>4, <2>5
<1>5. \A i \in 1..Len(c) : c[i].key # s => c[i].key < s \/ t < c[i].key
  BY <1>2, <1>3
<1>6. InOrder(d)
  <2> HIDE DEF c, d
  <2>1. ASSUME NEW i \in 1..Len(c), NEW j \in 1..Len(c), i < j PROVE d[i].key < d[j].key
    <3>1. c[i].key < c[j].key /\ c[i].key \in Int /\ c[j].key \in Int
      BY <1>2, <2>1
    <3>2. d[i].key = (IF c[i].key = s THEN t ELSE c[i].key) /\ d[j].key = (IF c[j].key = s THEN t ELSE c[j].key)
      BY <1>4
    <3>3. c[j].key # s => c[j].key < s \/ t < c[j].key
      BY <1>5
    <3> QED
      BY <1>3, <3>1, <3>2, <3>3
  <2> QED
    BY <1>4, <2>1 DEF InOrder
<1>7. q \in PagesOf(V, ids) /\ q.ptr = p.ptr /\ q.cells = d
  BY <1>6, RenamedTyped
<1>8. q.cells \in Lists(V) /\ KeysOf(q) = {d[i].key : i \in 1..Len(c)}
  <2>1. q.cells \in Lists(V) /\ KeysOf(q) = {q.cells[i].key : i \in 1..Len(q.cells)}
    <3> HIDE DEF q, d, c
    <3> QED
      BY <1>7, PageFacts
  <2> QED
    BY <1>4, <1>7, <2>1
<1> HIDE DEF d, q
<1>9. KeysOf(q) = {IF x = s THEN t ELSE x : x \in KeysOf(p)}
  <2>1. \A y : y \in KeysOf(q) <=> \E i \in 1..Len(c) : y = IF c[i].key = s THEN t ELSE c[i].key
    BY <1>4, <1>8
  <2>2. \A y : (\E x \in KeysOf(p) : y = IF x = s THEN t ELSE x) <=> \E i \in 1..Len(c) : y = IF c[i].key = s THEN t ELSE c[i].key
    BY <1>1
  <2> QED
    BY <2>1, <2>2
<1>10. ASSUME NEW k \in Int PROVE Child(q, k) = Child(p, Lower(s, t)[k])
  <2>1. PICK r \in Int : r = Lower(s, t)[k] /\ (s <= k /\ k < t => r = s - 1) /\ (~(s <= k /\ k < t) => r = k)
    <3>1. /\ Lower(s, t)[k] \in Int
          /\ s <= k /\ k < t => Lower(s, t)[k] = s - 1
          /\ ~(s <= k /\ k < t) => Lower(s, t)[k] = k
      BY <1>3, LowerIs
    <3> QED
      BY <3>1
  <2>2. PICK i \in 1..Len(c) + 1 : Between(p, i, r)
    BY <1>1, SomeBetween
  <2>3. /\ i > 1 => c[i - 1].key <= r
        /\ i <= Len(c) => r < c[i].key
    BY <2>2 DEF Between
  <2>4. ASSUME NEW j \in 1..Len(c) PROVE /\ c[j].key <= r => d[j].key <= k
                                         /\ r < c[j].key => k < d[j].key
    <3>1. d[j].key = (IF c[j].key = s THEN t ELSE c[j].key) /\ c[j].key \in Int
      BY <1>2, <1>4
    <3>2. c[j].key # s => c[j].key < s \/ t < c[j].key
      BY <1>5
    <3> HIDE DEF c
    <3> QED
      BY <1>3, <2>1, <3>1, <3>2
  <2>5. Between(q, i, k)
    <3>1. i > 1 => i - 1 \in 1..Len(c)
      BY <1>2
    <3>2. i <= Len(c) => i \in 1..Len(c)
      BY <1>2
    <3> HIDE DEF c
    <3> QED
      BY <1>4, <1>7, <2>3, <2>4, <3>1, <3>2 DEF Between
  <2>6. Child(p, r) = Kid(p, i)
    BY <1>1, <2>2, ChildIs
  <2>7. Child(q, k) = Kid(q, i)
    BY <1>8, <2>5, ChildIs
  <2>8. Kid(q, i) = Kid(p, i)
    <3>1. i <= Len(c) => d[i].val = c[i].val
      BY <1>2, <1>4
    <3> QED
      BY <1>4, <1>7, <3>1 DEF Kid
  <2> QED
    BY <2>1, <2>6, <2>7, <2>8
<1>11. Renames(p, q, s, t)
  BY <1>9, <1>10 DEF Renames
<1> QED
  BY <1>11 DEF q

\* A search for a key visits the pages to which the key leads.
LEMMA SearchRoute ==
    ASSUME NEW P, NEW N, NEW lv, NEW L, NEW root, Shape(P, N, lv, L, root),
           NEW at, Routes(P, lv[root], root, at), NEW key \in Int, NEW t, t = DescentOf(P, root, N, key)
    PROVE  /\ Len(t) = lv[root] + 1 /\ \A j \in 1..Len(t) : t[j] = at[lv[root] + 1 - j][key]
           /\ Last(t) = at[0][key]
<1> DEFINE h == lv[root]
           Good == {i \in 0..h : t[i + 1] = at[h - i][key]}
<1>1. /\ t[1] = root /\ Len(t) = h + 1 /\ \A j \in 2..Len(t) : t[j] = Child(P[t[j - 1]], key)
  <2>1. Down(P, lv, L, key, root, t)
    BY DescentDown
  <2> QED
    BY <2>1 DEF Down
<1>2. h \in Nat /\ at[h][key] = root
  BY DEF Routes
<1>3. \A u \in 1..h : at[u - 1][key] = Child(P[at[u][key]], key)
  BY RouteLink
<1> HIDE DEF h
<1>4. 0 \in Good
  <2>1. 0 \in 0..h /\ 0 + 1 = 1 /\ h - 0 = h
    BY <1>2
  <2> QED
    BY <1>1, <1>2, <2>1
<1>5. ASSUME NEW i \in 1..h, i - 1 \in Good PROVE i \in Good
  <2>1. PICK u \in 1..h : u = h - (i - 1) /\ u - 1 = h - i
    <3>1. h - (i - 1) \in 1..h /\ h - (i - 1) - 1 = h - i
      BY <1>2
    <3> QED
      BY <3>1
  <2>2. PICK j \in 2..Len(t) : j = i + 1 /\ j - 1 = i /\ i - 1 + 1 = i /\ i \in 0..h
    <3>1. i + 1 \in 2..Len(t) /\ i + 1 - 1 = i /\ i - 1 + 1 = i /\ i \in 0..h
      BY <1>1, <1>2
    <3> QED
      BY <3>1
  <2>3. t[i] = at[u][key]
    BY <1>5, <2>1, <2>2
  <2>4. t[j] = at[u - 1][key]
    BY <1>1, <1>3, <2>2, <2>3
  <2> QED
    BY <2>1, <2>2, <2>4
<1>6. \A i \in 0..h : i \in Good
  <2> HIDE DEF Good
  <2> QED
    BY <1>2, <1>4, <1>5, UpTo
<1>7. ASSUME NEW j \in 1..Len(t) PROVE t[j] = at[h + 1 - j][key]
  <2>1. PICK i \in 0..h : i + 1 = j /\ h - i = h + 1 - j
    <3>1. j - 1 \in 0..h /\ j - 1 + 1 = j /\ h - (j - 1) = h + 1 - j
      BY <1>1, <1>2
    <3> QED
      BY <3>1
  <2>2. i \in Good
    BY <1>6
  <2> QED
    BY <2>1, <2>2
<1>8. Last(t) = at[0][key]
  <2>1. Len(t) \in 1..Len(t) /\ h + 1 - Len(t) = 0
    BY <1>1, <1>2
  <2>2. t[Len(t)] = at[0][key]
    BY <1>7, <2>1
  <2> QED
    BY <2>2 DEF Last
<1> QED
  BY <1>1, <1>7, <1>8 DEF h

\* q of level u is the lowest page on the way to key that has it as a separator.
Holder(P, at, u, q, key) ==
    at[u][key] = q /\ key \in KeysOf(P[q]) /\ \A n \in 1..u - 1 : key \notin KeysOf(P[at[n][key]])

\* The first key of a page is its smallest.
LEMMA FirstKey ==
    ASSUME NEW V, NEW ids, NEW p \in PagesOf(V, ids), p.cells # <<>>
    PROVE  p.cells[1].key \in KeysOf(p) /\ p.cells[1].key \in Keys /\ \A x \in KeysOf(p) : p.cells[1].key <= x
<1>1. p.cells \in Lists(V) /\ KeysOf(p) = {p.cells[i].key : i \in 1..Len(p.cells)} /\ KeysOf(p) \subseteq Keys
  BY PageFacts
<1>2. /\ Len(p.cells) \in Nat /\ \A i \in 1..Len(p.cells) : p.cells[i].key \in Int
      /\ \A i, j \in 1..Len(p.cells) : i < j <=> p.cells[i].key < p.cells[j].key
      /\ p.cells \in Seq(CellsOf(V))
  BY <1>1, ListFacts
<1>3. 1 \in 1..Len(p.cells)
  BY <1>2
<1>4. ASSUME NEW i \in 1..Len(p.cells) PROVE p.cells[1].key <= p.cells[i].key
  <2>1. CASE i = 1
    BY <1>2, <1>3, <2>1
  <2>2. CASE i # 1
    <3>1. 1 < i
      BY <2>2
    <3>2. p.cells[1].key < p.cells[i].key /\ p.cells[1].key \in Int /\ p.cells[i].key \in Int
      BY <1>2, <1>3, <3>1
    <3> QED
      BY <3>2
  <2> QED
    BY <2>1, <2>2
<1> QED
  BY <1>1, <1>3, <1>4

\* The page p's first key is t.
LeadBy(p, t) == p.cells # <<>> /\ t = p.cells[1].key

\* A deletion that renames a separator keeps routes.
LEMMA RenameAfter ==
    ASSUME NEW P, NEW N, NEW lv, NEW L, NEW root, Shape(P, N, lv, L, root),
           NEW at, Routes(P, lv[root], root, at), NEW key \in Keys, NEW leaf, leaf = at[0][key],
           NEW i, CellIs(P[leaf], i, key), NEW new, new = RemoveCellAt(P[leaf], i), NEW t, LeadBy(new, t),
           NEW u \in 1..lv[root], NEW q, Holder(P, at, u, q, key)
    PROVE  \E b : /\ Routes(With(With(P, leaf, new), q, Renamed(P[q], key, t)), lv[root], root, b)
                  /\ EntriesLess(P, at[0], With(With(P, leaf, new), q, Renamed(P[q], key, t)), b[0], key)
<1> DEFINE h == lv[root]
           P1 == With(P, leaf, new)
           Q == With(P1, q, Renamed(P[q], key, t))
<1>1. key \in Int /\ h \in Nat /\ \A n \in 0..h : Own(P, n, at[n])
  BY Constants DEF Routes
<1>2. Routes(P1, h, root, at) /\ EntriesLess(P, at[0], P1, at[0], key)
  BY RemoveRoutes
<1>3. \A n \in 0..h, k \in Int : at[n][k] \in L /\ lv[at[n][k]] = n
  BY RouteLevels
<1>0. at[u][key] = q /\ key \in KeysOf(P[q]) /\ \A n \in 1..u - 1 : key \notin KeysOf(P[at[n][key]])
  BY DEF Holder
<1> HIDE DEF h
<1>4. /\ u \in 0..h /\ u \in Nat /\ u # 0 /\ u - 1 \in 0..h /\ 0 \in 0..h
      /\ \A n \in 1..u - 1 : n \in 0..h /\ n # 0
  <2>1. u \in 1..h
    BY DEF h
  <2>2. h \in Nat
    BY <1>1
  <2> QED
    BY <2>1, <2>2
<1>5. leaf \in L /\ lv[leaf] = 0 /\ q \in L /\ lv[q] = u
  BY <1>0, <1>1, <1>3, <1>4
<1>6. /\ P[leaf] \in PagesOf(Vals(lv, L, 0), Ptrs(lv, L, 0, Ids(N)))
      /\ P[q] \in PagesOf(Vals(lv, L, u), Ptrs(lv, L, u, Ids(N)))
  <2>1. PageAt(P[leaf], 0, lv, L, Ids(N)) /\ PageAt(P[q], u, lv, L, Ids(N))
    BY <1>5, ShapeFacts
  <2> QED
    BY <2>1 DEF PageAt
<1>7. /\ new \in PagesOf(Vals(lv, L, 0), Ptrs(lv, L, 0, Ids(N))) /\ Alike(new, P[leaf])
      /\ Lacks(P[leaf], new, key)
  <2>1. i \in 1..Len(P[leaf].cells) /\ new = RemoveCellAt(P[leaf], i)
    BY DEF CellIs
  <2>2. new \in PagesOf(Vals(lv, L, 0), Ptrs(lv, L, 0, Ids(N))) /\ Alike(new, P[leaf])
    BY <1>6, <2>1, RemoveCellTyped
  <2>3. Lacks(P[leaf], new, key)
    BY <1>6, <2>1, RemovedLacks
  <2> QED
    BY <2>2, <2>3
<1>8. Shape(P1, N, lv, L, root) /\ P1[leaf] = new /\ \A j \in L : j # leaf => P1[j] = P[j]
  BY <1>5, <1>7, ShapeAlike
<1>9. t \in KeysOf(new) /\ t \in Keys /\ t \in Int /\ \A x \in KeysOf(new) : t <= x
  <2>1. new.cells[1].key \in KeysOf(new) /\ new.cells[1].key \in Keys /\ \A x \in KeysOf(new) : new.cells[1].key <= x
    BY <1>7, FirstKey DEF LeadBy
  <2> QED
    BY <2>1, Constants DEF LeadBy
<1> HIDE DEF P1
<1>10. P1[q] = P[q] /\ leaf # q /\ \A n \in 1..u - 1 : P1[at[n][key]] = P[at[n][key]]
  <2>1. leaf # q
    BY <1>4, <1>5
  <2>2. ASSUME NEW n \in 1..u - 1 PROVE at[n][key] \in L /\ at[n][key] # leaf
    BY <1>1, <1>3, <1>4, <1>5
  <2> QED
    BY <1>5, <1>8, <2>1, <2>2
<1>11. \A x \in KeysOf(P[leaf]) : x \in Int /\ at[0][x] = leaf
  <2>1. \A x \in KeysOf(P[leaf]) : x \in Int
    BY <1>6, PageFacts
  <2> QED
    BY <1>1, <1>4, <2>1 DEF Own
<1>12. key < t /\ at[0][t] = leaf
  <2>1. t \in KeysOf(P[leaf]) /\ t # key
    BY <1>7, <1>9 DEF Lacks
  <2>2. at[0][t] = at[0][key]
    BY <1>11, <2>1
  <2>3. at[u - 1][t] = at[u - 1][key]
    <3>1. \A j \in 0..h : at[j][t] = at[j][key]
      BY <1>1, <1>4, <1>9, <2>2, RouteUp DEF h
    <3> QED
      BY <1>4, <3>1
  <2>4. SameSlot(P[q], t, key)
    BY <1>0, <1>1, <1>9, <2>3, RouteLink
  <2>5. key <= t
    <3>1. key <= t <=> key <= key
      BY <1>0, <2>4 DEF SameSlot
    <3> QED
      BY <1>1, <3>1
  <2> QED
    BY <1>1, <1>9, <2>1, <2>2, <2>5
<1>13. CanRename(P1, at, u, q, key, t)
  <2>1. \A x \in KeysOf(P1[at[0][key]]) : ~(key <= x /\ x < t)
    <3>1. \A x \in KeysOf(new) : x \in Int /\ t <= x
      BY <1>7, <1>9, <1>11 DEF Lacks
    <3> QED
      BY <1>8, <1>9, <3>1
  <2> QED
    BY <1>0, <1>10, <1>12, <2>1 DEF CanRename
<1>14. \A x \in KeysOf(P[q]) : ~(key < x /\ x <= t)
  <2>1. Gap(P1, at, h, u, q, key, t)
    BY <1>1, <1>2, <1>8, <1>9, <1>13, RenameGap DEF h
  <2> QED
    BY <1>10, <2>1 DEF Gap
<1>15. Renames(P[q], Renamed(P[q], key, t), key, t)
  BY <1>0, <1>6, <1>9, <1>12, <1>14, RenamedIs
<1>16. Q[q] = Renamed(P[q], key, t) /\ \A j \in L : j # q => Q[j] = P1[j]
  <2>1. \A j \in L : j \in DOMAIN P1
    BY <1>8, ShapeFacts
  <2> QED
    BY <1>5, <2>1, WithIs
<1> HIDE DEF Q
<1>17. PICK b : Routes(Q, h, root, b) /\ SameEntries(P1, at[0], Q, b[0])
  <2>1. Renames(P1[q], Q[q], key, t)
    BY <1>10, <1>15, <1>16
  <2>2. /\ Shape(P1, N, lv, L, root) /\ Routes(P1, lv[root], root, at) /\ key \in Int /\ t \in Int
        /\ CanRename(P1, at, u, q, key, t) /\ Renames(P1[q], Q[q], key, t)
        /\ \A j \in L : j # q => Q[j] = P1[j]
    BY <1>1, <1>2, <1>8, <1>9, <1>13, <1>16, <2>1 DEF h
  <2>3. \E b : Routes(Q, lv[root], root, b) /\ SameEntries(P1, at[0], Q, b[0])
    BY <2>2, RenameRoutes
  <2> QED
    BY <2>3 DEF h
<1>18. EntriesLess(P, at[0], Q, b[0], key)
  BY <1>2, <1>17 DEF EntriesLess, SameEntries
<1> QED
  BY <1>17, <1>18 DEF Q, P1, h

-----------------------------------------------------------------------------
(* Two neighbours joined, or cut again. *)

\* Two pages l and r side by side, with the separator sep between them, become one page, l, or
\* are cut again at the one member of T.
Under(T, k) == \A t \in T : k < t
\* What is a key of the two pages, or the separator between them.
OfBoth(l, r, sep, n, x) == x \in KeysOf(l) \/ x \in KeysOf(r) \/ (n # 0 /\ x = sep)
Rejoined(l, r, l2, r2, sep, T, n) ==
    /\ T \subseteq Int /\ \A a, b \in T : a = b
    /\ \A t \in T : t \in KeysOf(r) \/ (t \in KeysOf(l) /\ \E x \in KeysOf(l) : x < t)
    /\ \A x \in KeysOf(l2) : OfBoth(l, r, sep, n, x) /\ Under(T, x)
    /\ \A x \in KeysOf(r2) : \A t \in T : OfBoth(l, r, sep, n, x) /\ t <= x /\ (n # 0 => t < x)
    /\ n # 0 => \A k \in Int : Child(IF Under(T, k) THEN l2 ELSE r2, k) = IF k < sep THEN Child(l, k) ELSE Child(r, k)
    /\ n = 0 => \A c : c.key \in Int =>
                  (c \in ToSet((IF Under(T, c.key) THEN l2 ELSE r2).cells) <=> c \in ToSet(l.cells) \cup ToSet(r.cells))

\* Where the keys of a group of pages are sent then.
Sent(T, left, right, id, k) == IF id \in {left, right} THEN (IF Under(T, k) THEN left ELSE right) ELSE id
Resent(e, left, right, T) == [k \in Int |-> Sent(T, left, right, e[k], k)]

\* Their parent w2, which was w, page q of the level of f.
Reparents(w, w2, f, q, left, right, sep, T) ==
    /\ \A x \in KeysOf(w2) : (x \in KeysOf(w) /\ x # sep) \/ x \in T
    /\ \A k \in Int : f[k] = q => Child(w2, k) = Sent(T, left, right, Child(w, k), k)

\* left and right are the children of q on the two sides of the separator sep.
Around(P, at, u, q, left, right, sep) ==
    /\ sep \in Int /\ sep \in KeysOf(P[q]) /\ at[u][sep] = q
    /\ at[u - 1][sep] = right /\ at[u - 1][sep - 1] = left

\* The keys of the pages on the two sides of a separator.
LEMMA AroundFacts ==
    ASSUME NEW P, NEW N, NEW lv, NEW L, NEW root, Shape(P, N, lv, L, root),
           NEW at, Routes(P, lv[root], root, at), NEW u \in 1..lv[root], NEW q, NEW left, NEW right, NEW sep,
           Around(P, at, u, q, left, right, sep)
    PROVE  /\ left # right /\ left \in L /\ right \in L
           /\ \A k \in Int : at[u - 1][k] = left => at[u][k] = q /\ k < sep /\ SameSlot(P[q], k, sep - 1)
           /\ \A k \in Int : at[u - 1][k] = right => at[u][k] = q /\ sep <= k /\ SameSlot(P[q], k, sep)
<1>1. sep \in Int /\ sep - 1 \in Int /\ sep \in KeysOf(P[q]) /\ at[u][sep] = q
      /\ at[u - 1][sep] = right /\ at[u - 1][sep - 1] = left
  BY DEF Around
<1>2. /\ \A k, m \in Int : at[u - 1][k] = at[u - 1][m] => at[u][k] = at[u][m] /\ SameSlot(P[at[u][k]], k, m)
      /\ u \in 0..lv[root] /\ u - 1 \in 0..lv[root] /\ u # 0
  BY RouteLink
<1>3. at[u][sep - 1] = q
  <2>1. u # 0 => at[u][sep - 1] = q
    BY <1>1, <1>2, RoutePage
  <2> QED
    BY <1>2, <2>1
<1>4. left \in L /\ right \in L
  BY <1>1, <1>2, RouteLevels
<1>5. ASSUME NEW k \in Int, at[u - 1][k] = left PROVE at[u][k] = q /\ k < sep /\ SameSlot(P[q], k, sep - 1)
  <2>1. at[u][k] = q /\ SameSlot(P[q], k, sep - 1)
    BY <1>1, <1>2, <1>3, <1>5
  <2>2. sep <= k <=> sep <= sep - 1
    BY <1>1, <2>1 DEF SameSlot
  <2> QED
    BY <1>1, <2>1, <2>2
<1>6. ASSUME NEW k \in Int, at[u - 1][k] = right PROVE at[u][k] = q /\ sep <= k /\ SameSlot(P[q], k, sep)
  <2>1. at[u][k] = q /\ SameSlot(P[q], k, sep)
    BY <1>1, <1>2, <1>6
  <2>2. sep <= k <=> sep <= sep
    BY <1>1, <2>1 DEF SameSlot
  <2> QED
    BY <1>1, <2>1, <2>2
<1>7. left # right
  <2>1. sep - 1 \in Int /\ ~(sep <= sep - 1)
    BY <1>1
  <2> QED
    BY <1>1, <1>6, <2>1
<1> QED
  BY <1>4, <1>5, <1>6, <1>7

\* Q has the pages of P joined or cut again, and their parent.
Rejoins(P, Q, at, L, u, q, left, right, sep, T) ==
    /\ Around(P, at, u, q, left, right, sep)
    /\ Rejoined(P[left], P[right], Q[left], Q[right], sep, T, u - 1)
    /\ Reparents(P[q], Q[q], at[u], q, left, right, sep, T)
    /\ \A i \in L : i \notin {left, right, q} => Q[i] = P[i]

\* What the keys of the two pages and of T are.
Grouped(P, at, u, q, left, right, sep, T) ==
    /\ \A x \in Int : OfBoth(P[left], P[right], sep, u - 1, x) =>
          at[u - 1][x] \in {left, right} /\ (u - 1 # 0 => at[u - 1][x - 1] \in {left, right})
    /\ \A x : OfBoth(P[left], P[right], sep, u - 1, x) => x \in Int /\ x - 1 \in Int
    /\ \A t \in T : /\ t \in Int /\ t - 1 \in Int /\ at[u - 1][t] \in {left, right}
                    /\ at[u][t] = q /\ at[u][t - 1] = q
    /\ \A k, m \in Int : at[u - 1][k] \in {left, right} /\ at[u - 1][m] \in {left, right} =>
          \A x \in KeysOf(P[q]) : x # sep => (x <= k <=> x <= m)
    /\ \A k, m \in Int : at[u - 1][k] \in {left, right} /\ at[u - 1][k] = at[u - 1][m]
                         /\ SameSlot(P[at[u - 1][k]], k, m) =>
          \A x : OfBoth(P[left], P[right], sep, u - 1, x) \/ x \in T => (x <= k <=> x <= m)

\* So they are when pages are joined or cut again.
LEMMA GroupedIs ==
    ASSUME NEW P, NEW N, NEW lv, NEW L, NEW root, Shape(P, N, lv, L, root),
           NEW at, Routes(P, lv[root], root, at), NEW u \in 1..lv[root], NEW q, NEW left, NEW right, NEW sep, NEW T, NEW Q,
           Rejoins(P, Q, at, L, u, q, left, right, sep, T)
    PROVE  Grouped(P, at, u, q, left, right, sep, T)
<1> DEFINE f == at[u]
           e == at[u - 1]
<1>1. Around(P, at, u, q, left, right, sep) /\ Rejoined(P[left], P[right], Q[left], Q[right], sep, T, u - 1)
  BY DEF Rejoins
<1>2. /\ T \subseteq Int /\ \A a, b \in T : a = b
      /\ \A t \in T : t \in KeysOf(P[right]) \/ (t \in KeysOf(P[left]) /\ \E x \in KeysOf(P[left]) : x < t)
  BY <1>1 DEF Rejoined
<1>3. /\ left # right /\ left \in L /\ right \in L
      /\ \A k \in Int : e[k] = left => f[k] = q /\ k < sep /\ SameSlot(P[q], k, sep - 1)
      /\ \A k \in Int : e[k] = right => f[k] = q /\ sep <= k /\ SameSlot(P[q], k, sep)
  BY <1>1, AroundFacts
<1>4. sep \in Int /\ sep - 1 \in Int /\ sep \in KeysOf(P[q]) /\ f[sep] = q /\ e[sep] = right /\ e[sep - 1] = left
  BY <1>1 DEF Around
<1>5. u \in 0..lv[root] /\ u - 1 \in 0..lv[root] /\ u # 0
  BY RouteLink
<1>6. \A x \in KeysOf(P[left]) : x \in Int /\ x - 1 \in Int /\ e[x] = left /\ (u - 1 # 0 => e[x - 1] = left)
  BY <1>4, <1>5, RoutePage
<1>7. \A x \in KeysOf(P[right]) : x \in Int /\ x - 1 \in Int /\ e[x] = right /\ (u - 1 # 0 => e[x - 1] = right)
  BY <1>4, <1>5, RoutePage
<1>8. \A x \in KeysOf(P[q]) : x \in Int /\ x - 1 \in Int /\ f[x] = q
  BY <1>4, <1>5, RoutePage
<1> HIDE DEF e, f
<1>9. \A x : OfBoth(P[left], P[right], sep, u - 1, x) =>
        x \in Int /\ x - 1 \in Int /\ e[x] \in {left, right} /\ (u - 1 # 0 => e[x - 1] \in {left, right})
  BY <1>4, <1>6, <1>7 DEF OfBoth
<1>10. ASSUME NEW t \in T PROVE t \in Int /\ t - 1 \in Int /\ e[t] \in {left, right} /\ f[t] = q /\ f[t - 1] = q
  <2>1. t \in Int /\ t - 1 \in Int
    BY <1>2
  <2>2. e[t] \in {left, right} /\ f[t] = q
    BY <1>2, <1>3, <1>6, <1>7, <2>1
  <2>3. CASE t \in KeysOf(P[left]) /\ \E x \in KeysOf(P[left]) : x < t
    <3>1. PICK x \in KeysOf(P[left]) : x < t
      BY <2>3
    <3>2. x \in Int /\ x <= t - 1 /\ t - 1 <= t
      BY <1>6, <2>1, <3>1
    <3>3. f[x] = q
      BY <1>3, <1>6
    <3> QED
      BY <1>5, <2>1, <2>2, <3>2, <3>3, RouteConvex DEF f
  <2>4. CASE t \in KeysOf(P[right])
    <3>1. sep <= t /\ sep - 1 <= t - 1 /\ t - 1 <= t
      <4>1. sep <= t
        BY <1>3, <1>7, <2>1, <2>4
      <4> QED
        BY <1>4, <2>1, <4>1
    <3>2. f[sep - 1] = q
      BY <1>3, <1>4
    <3> QED
      BY <1>4, <1>5, <2>1, <2>2, <3>1, <3>2, RouteConvex DEF f
  <2> QED
    BY <1>2, <2>1, <2>2, <2>3, <2>4
<1>11. ASSUME NEW k \in Int, NEW m \in Int, e[k] \in {left, right}, e[m] \in {left, right},
              NEW x \in KeysOf(P[q]), x # sep
       PROVE  x <= k <=> x <= m
  <2>1. x \in Int /\ (x <= sep <=> x <= sep - 1)
    <3>1. x \in Int /\ sep \in Int /\ x # sep
      BY <1>4, <1>8, <1>11
    <3> QED
      BY <3>1
  <2>2. \A i \in Int : e[i] \in {left, right} => (x <= i <=> x <= sep)
    BY <1>3, <2>1 DEF SameSlot
  <2> QED
    BY <1>11, <2>2
<1>12. ASSUME NEW k \in Int, NEW m \in Int, e[k] \in {left, right}, e[k] = e[m], SameSlot(P[e[k]], k, m),
              NEW x, OfBoth(P[left], P[right], sep, u - 1, x) \/ x \in T
       PROVE  x <= k <=> x <= m
  <2>1. x \in KeysOf(P[left]) \/ x \in KeysOf(P[right]) \/ x = sep
    BY <1>2, <1>12 DEF OfBoth
  <2>2. x \in KeysOf(P[left]) => x \in Int /\ x < sep
    BY <1>3, <1>6
  <2>3. x \in KeysOf(P[right]) => x \in Int /\ sep <= x
    BY <1>3, <1>7
  <2>4. CASE e[k] = left
    <3>1. k < sep /\ m < sep
      BY <1>3, <1>12, <2>4
    <3>2. x \in KeysOf(P[left]) => (x <= k <=> x <= m)
      BY <1>12, <2>4 DEF SameSlot
    <3>3. x \in Int /\ sep <= x => ~(x <= k) /\ ~(x <= m)
      BY <1>4, <3>1
    <3> QED
      BY <1>4, <2>1, <2>3, <3>2, <3>3
  <2>5. CASE e[k] = right
    <3>1. sep <= k /\ sep <= m
      BY <1>3, <1>12, <2>5
    <3>2. x \in KeysOf(P[right]) => (x <= k <=> x <= m)
      BY <1>12, <2>5 DEF SameSlot
    <3>3. x \in Int /\ x <= sep => x <= k /\ x <= m
      BY <1>4, <3>1
    <3>4. x \in KeysOf(P[left]) => x \in Int /\ x <= sep
      BY <1>4, <2>2
    <3> QED
      BY <1>4, <2>1, <3>1, <3>2, <3>3, <3>4
  <2> QED
    BY <1>12, <2>4, <2>5
<1> QED
  BY <1>9, <1>10, <1>11, <1>12 DEF Grouped, e, f

\* Resent's values.
LEMMA SentIs ==
    ASSUME NEW T, NEW left, NEW right, left # right, NEW e, NEW k \in Int
    PROVE  LET g == Resent(e, left, right, T)
           IN  /\ e[k] \notin {left, right} => g[k] = e[k]
               /\ e[k] \in {left, right} => g[k] = IF Under(T, k) THEN left ELSE right
               /\ e[k] \in {left, right} <=> g[k] \in {left, right}
  BY DEF Resent, Sent

\* A member of T falls together for keys with the same side.
LEMMA OneSide ==
    ASSUME NEW T, T \subseteq Int, \A a, b \in T : a = b, NEW k \in Int, NEW m \in Int
    PROVE  (Under(T, k) <=> Under(T, m)) <=> \A t \in T : t <= k <=> t <= m
<1>1. \A t \in T : t \in Int
  OBVIOUS
<1>2. ASSUME NEW t \in T PROVE (k < t <=> ~(t <= k)) /\ (m < t <=> ~(t <= m))
  BY <1>1
<1>3. CASE T = {}
  BY <1>3 DEF Under
<1>4. CASE T # {}
  <2>1. PICK t \in T : TRUE
    BY <1>4
  <2>2. \A b \in T : b = t
    BY <2>1
  <2> QED
    BY <1>2, <2>1, <2>2 DEF Under
<1> QED
  BY <1>3, <1>4

\* A key below another is under what that is under.
LEMMA UnderLess ==
    ASSUME NEW T, T \subseteq Int, NEW x \in Int
    PROVE  /\ Under(T, x) => Under(T, x - 1)
           /\ \A t \in T : t <= x => ~Under(T, x)
           /\ \A t \in T : t < x => ~Under(T, x - 1)
<1>1. \A t \in T : t \in Int
  OBVIOUS
<1>2. \A t \in T : (x < t => x - 1 < t) /\ (t <= x => ~(x < t)) /\ (t < x => ~(x - 1 < t))
  BY <1>1
<1> QED
  BY <1>2 DEF Under

\* Joining two pages or cutting them again regroups them below their parent.
LEMMA SiblingRegroups ==
    ASSUME NEW P, NEW N, NEW lv, NEW L, NEW root, Shape(P, N, lv, L, root),
           NEW at, Routes(P, lv[root], root, at), NEW u \in 1..lv[root], NEW q, NEW left, NEW right, NEW sep, NEW T, NEW Q,
           Rejoins(P, Q, at, L, u, q, left, right, sep, T)
    PROVE  Regroups(Q, at[u], Resent(at[u - 1], left, right, T), at[u - 2], q, u - 1)
<1> DEFINE f == at[u]
           e == at[u - 1]
           d == at[u - 2]
           g == Resent(e, left, right, T)
           n == u - 1
<1>1. /\ Around(P, at, u, q, left, right, sep) /\ Rejoined(P[left], P[right], Q[left], Q[right], sep, T, n)
      /\ Reparents(P[q], Q[q], f, q, left, right, sep, T)
      /\ \A i \in L : i \notin {left, right, q} => Q[i] = P[i]
  BY DEF Rejoins
<1>2. T \subseteq Int /\ \A a, b \in T : a = b
  BY <1>1 DEF Rejoined
<1>3. /\ left # right /\ left \in L /\ right \in L
      /\ \A k \in Int : e[k] = left => f[k] = q /\ k < sep
      /\ \A k \in Int : e[k] = right => f[k] = q /\ sep <= k
  BY <1>1, AroundFacts
<1>4. sep \in Int /\ f[sep] = q /\ u \in 0..lv[root] /\ n \in 0..lv[root] /\ u # 0
  BY <1>1, RouteLink DEF Around
<1>5. Grouped(P, at, u, q, left, right, sep, T)
  BY GroupedIs
<1>6. /\ \A k \in Int : e[k] = Child(P[f[k]], k)
      /\ \A k, m \in Int : e[k] = e[m] => f[k] = f[m] /\ SameSlot(P[f[k]], k, m)
  BY RouteLink
<1>7. n # 0 => /\ \A k \in Int : d[k] = Child(P[e[k]], k)
               /\ \A k, m \in Int : d[k] = d[m] => e[k] = e[m] /\ SameSlot(P[e[k]], k, m)
  <2>1. SUFFICES ASSUME n # 0 PROVE n \in 1..lv[root] /\ n - 1 = u - 2
    BY RouteLink
  <2>2. lv[root] \in Nat
    BY RouteLink
  <2> QED
    BY <1>4, <2>1, <2>2
<1>8. \A k \in Int : e[k] \in L /\ lv[e[k]] = n
  BY <1>4, RoutePage
<1>9. lv[q] = u /\ u # n
  <2>1. lv[q] = u
    BY <1>4, RoutePage DEF f
  <2> QED
    BY <1>4, <2>1
<1>10. \A k \in Int : \A x \in KeysOf(P[e[k]]) : x \in Int /\ x - 1 \in Int /\ e[x] = e[k] /\ (n # 0 => e[x - 1] = e[k])
  BY <1>4, RoutePage
<1>11. \A x \in KeysOf(P[q]) : x \in Int /\ x - 1 \in Int /\ f[x] = q /\ f[x - 1] = q
  BY <1>4, RoutePage DEF f
<1>12. ASSUME NEW k \in Int, NEW m \in Int, NEW t \in Int, e[k] = e[m], e[t] # e[k] PROVE t <= k <=> t <= m
  <2>1. k <= t /\ t <= m => e[t] = e[k]
    BY <1>4, <1>12, RouteConvex DEF n
  <2>2. m <= t /\ t <= k => e[t] = e[m]
    BY <1>4, <1>12, RouteConvex DEF n
  <2> HIDE DEF e
  <2> QED
    BY <1>12, <2>1, <2>2
<1> HIDE DEF f, e, d, n
<1>13. \A k \in Int : e[k] \notin {left, right} => Q[e[k]] = P[e[k]]
  BY <1>1, <1>8, <1>9
<1>14. \A k \in Int : /\ e[k] \notin {left, right} => g[k] = e[k]
                      /\ e[k] \in {left, right} => g[k] = IF Under(T, k) THEN left ELSE right
                      /\ e[k] \in {left, right} <=> g[k] \in {left, right}
  BY <1>3, SentIs
<1> DEFINE Of(x) == OfBoth(P[left], P[right], sep, n, x)
<1>15. /\ \A x : Of(x) => /\ x \in Int /\ x - 1 \in Int /\ e[x] \in {left, right}
                          /\ (n # 0 => e[x - 1] \in {left, right})
       /\ \A t \in T : t \in Int /\ t - 1 \in Int /\ e[t] \in {left, right} /\ f[t] = q /\ f[t - 1] = q
       /\ \A k, m \in Int : e[k] \in {left, right} /\ e[m] \in {left, right} =>
             \A x \in KeysOf(P[q]) : x # sep => (x <= k <=> x <= m)
       /\ \A k, m \in Int : e[k] \in {left, right} /\ e[k] = e[m] /\ SameSlot(P[e[k]], k, m) =>
             \A x : Of(x) \/ x \in T => (x <= k <=> x <= m)
  BY <1>5 DEF Grouped, f, e, n
<1>16. /\ \A x \in KeysOf(Q[left]) : Of(x) /\ Under(T, x)
       /\ \A x \in KeysOf(Q[right]) : \A t \in T : Of(x) /\ t <= x /\ (n # 0 => t < x)
       /\ n # 0 => \A k \in Int : Child(IF Under(T, k) THEN Q[left] ELSE Q[right], k)
                                  = IF k < sep THEN Child(P[left], k) ELSE Child(P[right], k)
  BY <1>1 DEF Rejoined
<1>17. /\ \A x \in KeysOf(Q[q]) : (x \in KeysOf(P[q]) /\ x # sep) \/ x \in T
       /\ \A k \in Int : f[k] = q => Child(Q[q], k) = Sent(T, left, right, Child(P[q], k), k)
  BY <1>1 DEF Reparents
<1> HIDE DEF Of
<1>18. \A x \in KeysOf(Q[q]) : f[x] = q /\ f[x - 1] = q
  BY <1>11, <1>15, <1>17
<1>19. \A k, m \in Int : g[k] = g[m] /\ e[k] \in {left, right} => e[m] \in {left, right} /\ (Under(T, k) <=> Under(T, m))
  BY <1>3, <1>14
<1>20. ASSUME NEW k \in Int, f[k] = q PROVE g[k] = Child(Q[q], k)
  BY <1>6, <1>17, <1>20 DEF Resent
<1>21. ASSUME NEW k \in Int, f[k] = q, NEW x \in KeysOf(Q[g[k]]) PROVE g[x] = g[k] /\ (n # 0 => g[x - 1] = g[k])
  <2>1. CASE e[k] \notin {left, right}
    <3>1. x \in KeysOf(P[e[k]]) /\ g[k] = e[k]
      BY <1>13, <1>14, <1>21, <2>1
    <3>2. x \in Int /\ x - 1 \in Int /\ e[x] = e[k] /\ (n # 0 => e[x - 1] = e[k])
      BY <1>10, <3>1
    <3> HIDE DEF g
    <3> QED
      BY <1>14, <2>1, <3>1, <3>2
  <2>2. CASE e[k] \in {left, right} /\ Under(T, k)
    <3>1. g[k] = left /\ x \in KeysOf(Q[left])
      BY <1>14, <1>21, <2>2
    <3>2. Of(x) /\ Under(T, x)
      BY <1>16, <3>1
    <3>3. x \in Int /\ x - 1 \in Int /\ e[x] \in {left, right} /\ (n # 0 => e[x - 1] \in {left, right})
      BY <1>15, <3>2
    <3>4. Under(T, x - 1)
      BY <1>2, <3>2, <3>3, UnderLess
    <3> HIDE DEF g
    <3> QED
      BY <1>14, <3>1, <3>2, <3>3, <3>4
  <2>3. CASE e[k] \in {left, right} /\ ~Under(T, k)
    <3>1. g[k] = right /\ x \in KeysOf(Q[right])
      BY <1>14, <1>21, <2>3
    <3>2. PICK t \in T : TRUE
      BY <2>3 DEF Under
    <3>3. Of(x) /\ t <= x /\ (n # 0 => t < x)
      BY <1>16, <3>1
    <3>4. x \in Int /\ x - 1 \in Int /\ e[x] \in {left, right} /\ (n # 0 => e[x - 1] \in {left, right})
      BY <1>15, <3>3
    <3>5. ~Under(T, x) /\ (n # 0 => ~Under(T, x - 1))
      BY <1>2, <3>3, <3>4, UnderLess
    <3> HIDE DEF g
    <3> QED
      BY <1>14, <3>1, <3>4, <3>5
  <2> QED
    BY <2>1, <2>2, <2>3
<1>22. ASSUME NEW k \in Int, f[k] = q, NEW m \in Int, g[k] = g[m] PROVE f[m] = q /\ SameSlot(Q[q], k, m)
  <2>1. CASE e[k] \notin {left, right}
    <3>1. e[m] = e[k]
      BY <1>14, <1>22, <2>1
    <3>2. f[m] = q /\ SameSlot(P[q], k, m)
      BY <1>6, <1>22, <3>1
    <3>3. \A t \in T : t <= k <=> t <= m
      BY <1>12, <1>15, <2>1, <3>1
    <3> QED
      BY <1>17, <3>2, <3>3 DEF SameSlot
  <2>2. CASE e[k] \in {left, right}
    <3>1. e[m] \in {left, right} /\ (Under(T, k) <=> Under(T, m))
      BY <1>19, <1>22, <2>2
    <3>2. f[m] = q
      BY <1>3, <3>1
    <3>3. \A t \in T : t <= k <=> t <= m
      BY <1>2, <3>1, OneSide
    <3>4. \A x \in KeysOf(P[q]) : x # sep => (x <= k <=> x <= m)
      BY <1>15, <2>2, <3>1
    <3> QED
      BY <1>17, <3>2, <3>3, <3>4 DEF SameSlot
  <2> QED
    BY <2>1, <2>2
<1>23. ASSUME NEW k \in Int, f[k] = q, n # 0 PROVE d[k] = Child(Q[g[k]], k)
  <2>1. CASE e[k] \notin {left, right}
    BY <1>7, <1>13, <1>14, <1>23, <2>1
  <2>2. CASE e[k] \in {left, right}
    <3>1. Child(Q[g[k]], k) = IF k < sep THEN Child(P[left], k) ELSE Child(P[right], k)
      BY <1>14, <1>16, <1>23, <2>2
    <3>2. d[k] = Child(P[e[k]], k)
      BY <1>7, <1>23
    <3>3. e[k] = left => k < sep
      BY <1>3
    <3>4. e[k] = right => ~(k < sep)
      <4>1. e[k] = right => sep <= k
        BY <1>3
      <4> QED
        BY <1>4, <4>1
    <3> QED
      BY <2>2, <3>1, <3>2, <3>3, <3>4
  <2> QED
    BY <2>1, <2>2
<1>24. ASSUME NEW k \in Int, f[k] = q, n # 0, NEW m \in Int, d[k] = d[m] PROVE g[k] = g[m] /\ SameSlot(Q[g[k]], k, m)
  <2>1. e[k] = e[m] /\ SameSlot(P[e[k]], k, m)
    BY <1>7, <1>24
  <2>2. CASE e[k] \notin {left, right}
    BY <1>13, <1>14, <2>1, <2>2
  <2>3. CASE e[k] \in {left, right}
    <3>1. \A x : Of(x) \/ x \in T => (x <= k <=> x <= m)
      BY <1>15, <2>1, <2>3
    <3>2. Under(T, k) <=> Under(T, m)
      BY <1>2, <3>1, OneSide
    <3>3. g[k] = g[m]
      BY <1>14, <2>1, <2>3, <3>2
    <3>4. \A x \in KeysOf(Q[g[k]]) : Of(x)
      <4>1. CASE Under(T, k)
        BY <1>14, <1>16, <2>3, <4>1
      <4>2. CASE ~Under(T, k)
        <5>1. \E t \in T : TRUE
          BY <4>2 DEF Under
        <5> QED
          BY <1>14, <1>16, <2>3, <4>2, <5>1
      <4> QED
        BY <4>1, <4>2
    <3> QED
      BY <3>1, <3>3, <3>4 DEF SameSlot
  <2> QED
    BY <2>2, <2>3
<1> HIDE DEF g
<1>25. Regroups(Q, f, g, d, q, n)
  BY <1>18, <1>20, <1>21, <1>22, <1>23, <1>24 DEF Regroups
<1> QED
  BY <1>25 DEF f, e, d, g, n

\* A cell's key is one of its page's.
LEMMA CellKey ==
    ASSUME NEW p, NEW c, c \in ToSet(p.cells)
    PROVE  c.key \in KeysOf(p)
<1>1. PICK i \in DOMAIN p.cells : p.cells[i] = c
  BY DEF ToSet
<1> QED
  BY <1>1 DEF KeysOf

\* Joining two pages or cutting them again changes nothing elsewhere.
LEMMA SiblingElsewhere ==
    ASSUME NEW P, NEW N, NEW lv, NEW L, NEW root, Shape(P, N, lv, L, root),
           NEW at, Routes(P, lv[root], root, at), NEW u \in 1..lv[root], NEW q, NEW left, NEW right, NEW sep, NEW T, NEW Q,
           Rejoins(P, Q, at, L, u, q, left, right, sep, T), NEW g, g = Resent(at[u - 1], left, right, T)
    PROVE  g \in [Int -> Nat] /\ Elsewhere(P, Q, lv, L, at[u], at[u - 1], g, q, u)
<1> DEFINE f == at[u]
           e == at[u - 1]
<1>1. Around(P, at, u, q, left, right, sep) /\ \A i \in L : i \notin {left, right, q} => Q[i] = P[i]
  BY DEF Rejoins
<1>2. /\ left # right /\ left \in L /\ right \in L
      /\ \A k \in Int : e[k] = left => f[k] = q
      /\ \A k \in Int : e[k] = right => f[k] = q
  BY <1>1, AroundFacts
<1>3. u \in 0..lv[root] /\ u - 1 \in 0..lv[root] /\ sep \in Int /\ sep - 1 \in Int /\ u \in Nat
      /\ f[sep] = q /\ e[sep] = right /\ e[sep - 1] = left
  BY <1>1, RouteLink DEF Around
<1>4. \A k \in Int : f[k] \in L /\ lv[f[k]] = u /\ e[k] \in L /\ lv[e[k]] = u - 1
  BY <1>3, RoutePage
<1>5. L \subseteq Nat
  BY ShapeFacts
<1> HIDE DEF f, e
<1>6. lv[q] = u /\ lv[left] = u - 1 /\ lv[right] = u - 1 /\ u # u - 1
  <2>1. u # u - 1
    BY <1>3
  <2> QED
    BY <1>3, <1>4, <2>1
<1>7. \A k \in Int : g[k] = Sent(T, left, right, e[k], k) /\ g[k] \in Nat
  <2>1. \A k \in Int : g[k] = Sent(T, left, right, e[k], k)
    BY DEF Resent, e
  <2>2. \A k \in Int : Sent(T, left, right, e[k], k) \in {left, right, e[k]}
    BY DEF Sent
  <2> QED
    BY <1>2, <1>4, <1>5, <2>1, <2>2
<1>8. g \in [Int -> Nat]
  BY <1>7 DEF Resent
<1>9. \A i \in L : lv[i] # u /\ lv[i] # u - 1 => Q[i] = P[i]
  BY <1>1, <1>6
<1>10. ASSUME NEW k \in Int, f[k] # q PROVE Q[f[k]] = P[f[k]] /\ g[k] = e[k] /\ Q[e[k]] = P[e[k]]
  <2>1. e[k] \notin {left, right}
    BY <1>2, <1>10
  <2>2. Q[f[k]] = P[f[k]]
    BY <1>1, <1>4, <1>6, <1>10
  <2>3. Q[e[k]] = P[e[k]]
    BY <1>1, <1>4, <1>6, <2>1
  <2> QED
    BY <1>7, <2>1, <2>2, <2>3 DEF Sent
<1> QED
  BY <1>8, <1>9, <1>10 DEF Elsewhere, f, e

\* Pages joined or cut again below their parent keep routes, and entries.
LEMMA SiblingRoutes ==
    ASSUME NEW P, NEW N, NEW lv, NEW L, NEW root, Shape(P, N, lv, L, root),
           NEW at, Routes(P, lv[root], root, at), NEW u \in 1..lv[root], NEW q, NEW left, NEW right, NEW sep, NEW T, NEW Q,
           Rejoins(P, Q, at, L, u, q, left, right, sep, T)
    PROVE  \E b : Routes(Q, lv[root], root, b) /\ SameEntries(P, at[0], Q, b[0])
<1> DEFINE e == at[u - 1]
           g == Resent(e, left, right, T)
           b == [at EXCEPT ![u - 1] = g]
<1>1. g \in [Int -> Nat] /\ Elsewhere(P, Q, lv, L, at[u], e, g, q, u)
  BY SiblingElsewhere
<1>2. Regroups(Q, at[u], g, at[u - 2], q, u - 1)
  BY SiblingRegroups
<1> HIDE DEF g
<1>3. Routes(Q, lv[root], root, b)
  BY <1>1, <1>2, Regrouped
<1>4. at \in [Nat -> [Int -> Nat]] /\ u \in Nat /\ u - 1 \in Nat /\ 0 \in 0..lv[root] /\ u - 1 \in 0..lv[root]
      /\ u \in 0..lv[root] /\ u # u - 1
  <2>1. at \in [Nat -> [Int -> Nat]]
    BY DEF Routes
  <2>2. u \in Nat /\ u - 1 \in Nat /\ u - 1 \in 0..lv[root] /\ u \in 0..lv[root] /\ lv[root] \in Nat
    BY RouteLink
  <2>3. 0 \in 0..lv[root]
    BY <2>2
  <2>4. u # u - 1
    <3>1. u \in Nat
      BY <2>2
    <3> QED
      BY <3>1
  <2> QED
    BY <2>1, <2>2, <2>3, <2>4
<1>40. /\ \A k \in Int : e[k] \in L /\ lv[e[k]] = u - 1 /\ \A x \in KeysOf(P[e[k]]) : e[x] = e[k]
       /\ \A k \in Int : at[u][k] \in L /\ lv[at[u][k]] = u
       /\ \A k \in Int : at[0][k] \in L /\ lv[at[0][k]] = 0
  <2>0. u \in 0..lv[root] /\ u - 1 \in 0..lv[root] /\ 0 \in 0..lv[root]
    BY <1>4
  <2>1. \A k \in Int : e[k] \in L /\ lv[e[k]] = u - 1 /\ \A x \in KeysOf(P[e[k]]) : e[x] = e[k]
    <3>1. \A k \in Int : e[k] \in L /\ lv[e[k]] = u - 1
      BY <2>0, RouteLevels
    <3>2. \A k \in Int : \A x \in KeysOf(P[e[k]]) : e[x] = e[k]
      <4>1. Own(P, u - 1, e)
        BY <2>0 DEF Routes
      <4> HIDE DEF e
      <4> QED
        BY <4>1 DEF Own
    <3> QED
      BY <3>1, <3>2
  <2>2. \A k \in Int : at[u][k] \in L /\ lv[at[u][k]] = u
    BY <2>0, RouteLevels
  <2>3. \A k \in Int : at[0][k] \in L /\ lv[at[0][k]] = 0
    BY <2>0, RouteLevels
  <2> QED
    BY <2>1, <2>2, <2>3
<1>5. Around(P, at, u, q, left, right, sep) /\ Rejoined(P[left], P[right], Q[left], Q[right], sep, T, u - 1)
      /\ \A i \in L : i \notin {left, right, q} => Q[i] = P[i]
  BY DEF Rejoins
<1>6. ASSUME NEW c, c.key \in Int
      PROVE  c \in ToSet(Q[b[0][c.key]].cells) <=> c \in ToSet(P[at[0][c.key]].cells)
  <2>1. CASE u - 1 = 0
    <3>1. b[0] = g /\ at[0] = e
      BY <1>4, <2>1
    <3>2. /\ left # right
          /\ \A k \in Int : e[k] = left => at[u][k] = q
          /\ \A k \in Int : e[k] = right => at[u][k] = q
          /\ e[sep] = right /\ e[sep - 1] = left /\ sep \in Int /\ sep - 1 \in Int
      BY <1>5, AroundFacts DEF Around
    <3>3. /\ \A x \in KeysOf(P[left]) : e[x] = left
          /\ \A x \in KeysOf(P[right]) : e[x] = right
      BY <1>40, <3>2
    <3>4. CASE e[c.key] \in {left, right}
      <4>1. g[c.key] = IF Under(T, c.key) THEN left ELSE right
        BY <1>6, <3>2, <3>4, SentIs DEF g
      <4>2. c \in ToSet((IF Under(T, c.key) THEN Q[left] ELSE Q[right]).cells)
            <=> c \in ToSet(P[left].cells) \cup ToSet(P[right].cells)
        BY <1>5, <1>6, <2>1 DEF Rejoined
      <4>3. c \in ToSet(Q[g[c.key]].cells) <=> c \in ToSet(P[left].cells) \cup ToSet(P[right].cells)
        BY <4>1, <4>2
      <4>4. c \in ToSet(P[left].cells) => e[c.key] = left
        BY <3>3, CellKey
      <4>5. c \in ToSet(P[right].cells) => e[c.key] = right
        BY <3>3, CellKey
      <4> HIDE DEF e, b
      <4> QED
        BY <3>1, <3>2, <3>4, <4>3, <4>4, <4>5
    <3>5. CASE e[c.key] \notin {left, right}
      <4>1. g[c.key] = e[c.key]
        BY <1>6, <3>2, <3>5, SentIs DEF g
      <4>2. e[c.key] \in L /\ lv[e[c.key]] = u - 1 /\ lv[q] = u
        <5>1. at[u][sep] = q /\ u \in 0..lv[root]
          BY <1>5, RouteLink DEF Around
        <5> QED
          BY <1>6, <1>40, <3>2, <5>1
      <4>3. e[c.key] # q
        <5> HIDE DEF e
        <5> QED
          BY <1>4, <4>2
      <4>4. Q[e[c.key]] = P[e[c.key]]
        BY <1>5, <3>5, <4>2, <4>3
      <4> HIDE DEF e, b
      <4> QED
        BY <3>1, <4>1, <4>4
    <3> QED
      BY <3>4, <3>5
  <2>2. CASE u - 1 # 0
    <3>1. b[0] = at[0]
      BY <1>4, <2>2
    <3>2. at[0][c.key] \in L /\ lv[at[0][c.key]] = 0
      BY <1>6, <1>40
    <3>3. 0 # u /\ 0 # u - 1
      BY <1>4, <2>2
    <3>4. Q[at[0][c.key]] = P[at[0][c.key]]
      BY <1>1, <3>2, <3>3 DEF Elsewhere
    <3> HIDE DEF b
    <3> QED
      BY <3>1, <3>4
  <2> QED
    BY <2>1, <2>2
<1> HIDE DEF b
<1>7. SameEntries(P, at[0], Q, b[0])
  BY <1>6 DEF SameEntries
<1> QED
  BY <1>3, <1>7

-----------------------------------------------------------------------------
(* Separators and the pages on their two sides. *)

\* The i-th cell of w is the separator sep, over the page left.
SepAt(w, i, sep, left) == i \in 1..Len(w.cells) /\ w.cells[i].key = sep /\ w.cells[i].val = left

\* The i-th separator of a page to which a key leads, and the children on its two sides.
LEMMA AroundIs ==
    ASSUME NEW P, NEW N, NEW lv, NEW L, NEW root, Shape(P, N, lv, L, root),
           NEW at, Routes(P, lv[root], root, at), NEW u \in 1..lv[root], NEW q, NEW m \in Int, at[u][m] = q,
           NEW i, NEW sep, NEW left, SepAt(P[q], i, sep, left)
    PROVE  Around(P, at, u, q, left, Kid(P[q], i + 1), sep)
<1> DEFINE V == Vals(lv, L, u)
           p == P[q]
<1>1. u \in 0..lv[root] /\ u # 0
  BY RouteLink
<1>2. p \in PagesOf(V, Ptrs(lv, L, u, Ids(N)))
  BY <1>1, RoutePage
<1>3. \A x \in KeysOf(p) : x \in Int /\ x - 1 \in Int /\ at[u][x] = q /\ at[u][x - 1] = q
  BY <1>1, RoutePage
<1>4. \A k \in Int : at[u - 1][k] = Child(P[at[u][k]], k)
  BY RouteLink
<1>5. i \in 1..Len(p.cells) /\ p.cells[i].key = sep /\ p.cells[i].val = left
  BY DEF SepAt
<1> HIDE DEF V, p
<1>6. p.cells \in Lists(V) /\ KeysOf(p) = {p.cells[j].key : j \in 1..Len(p.cells)}
  BY <1>2, PageFacts
<1>7. /\ Len(p.cells) \in Nat
      /\ \A j \in 1..Len(p.cells) : p.cells[j].key \in Int
      /\ \A j, l \in 1..Len(p.cells) : j < l <=> p.cells[j].key < p.cells[l].key
  BY <1>6, ListFacts
<1>8. sep \in KeysOf(p) /\ sep \in Int /\ sep - 1 \in Int
  BY <1>3, <1>5, <1>6
<1>9. Between(p, i + 1, sep)
  <2>1. PICK j : j = i + 1
    OBVIOUS
  <2>2. j \in 1..Len(p.cells) + 1 /\ j - 1 = i /\ i < j
    BY <1>5, <1>7, <2>1
  <2>3. j <= Len(p.cells) => sep < p.cells[j].key
    <3>1. j <= Len(p.cells) => j \in 1..Len(p.cells)
      BY <1>7, <2>2
    <3> QED
      BY <1>5, <1>7, <2>2, <3>1
  <2>4. p.cells[j - 1].key <= sep
    BY <1>5, <1>8, <2>2
  <2>5. Between(p, j, sep)
    BY <2>2, <2>3, <2>4 DEF Between
  <2> QED
    BY <2>1, <2>5
<1>10. Between(p, i, sep - 1)
  <2>1. i \in 1..Len(p.cells) + 1
    BY <1>5, <1>7
  <2>2. i > 1 => p.cells[i - 1].key <= sep - 1
    <3>1. i > 1 => i - 1 \in 1..Len(p.cells) /\ i - 1 < i
      BY <1>5, <1>7
    <3>2. i > 1 => p.cells[i - 1].key < sep /\ p.cells[i - 1].key \in Int
      BY <1>5, <1>7, <3>1
    <3> QED
      BY <1>8, <3>2
  <2>3. sep - 1 < p.cells[i].key
    BY <1>5, <1>8
  <2> QED
    BY <2>1, <2>2, <2>3 DEF Between
<1>11. Child(p, sep) = Kid(p, i + 1) /\ Child(p, sep - 1) = Kid(p, i)
  BY <1>6, <1>8, <1>9, <1>10, ChildIs
<1>12. Kid(p, i) = left
  BY <1>5, <1>7 DEF Kid
<1>13. at[u][sep] = q /\ at[u][sep - 1] = q
  BY <1>3, <1>8
<1>14. at[u - 1][sep] = Child(p, sep) /\ at[u - 1][sep - 1] = Child(p, sep - 1)
  BY <1>4, <1>8, <1>13 DEF p
<1> QED
  BY <1>8, <1>11, <1>12, <1>13, <1>14 DEF Around, p

\* The keys of a page to which a key leads lead to it themselves.
LEMMA RouteKeys ==
    ASSUME NEW P, NEW N, NEW lv, NEW L, NEW root, Shape(P, N, lv, L, root),
           NEW at, Routes(P, lv[root], root, at), NEW n \in 0..lv[root], NEW k \in Int, NEW x \in KeysOf(P[at[n][k]])
    PROVE  x \in Int /\ at[n][x] = at[n][k]
<1>1. at[n][x] = at[n][k]
  <2>1. Own(P, n, at[n])
    BY DEF Routes
  <2> QED
    BY <2>1 DEF Own
<1>2. x \in Int
  <2>1. PICK id : at[n][k] = id
    OBVIOUS
  <2>2. KeysOf(P[id]) \subseteq Keys
    BY <2>1, RoutePage
  <2> QED
    BY <2>1, <2>2, Constants
<1> QED
  BY <1>1, <1>2

\* A key of the two pages that can part them anew.
Wedge(P, left, right, t) ==
    t \in KeysOf(P[right]) \/ (t \in KeysOf(P[left]) /\ \E x \in KeysOf(P[left]) : x < t)

\* t has no other separator of w between it and sep, and the keys between lead to one of the pages.
Fits(w, e, left, right, sep, t) ==
    /\ t \in Int
    /\ \A x \in KeysOf(w) : x # sep => x # t /\ ~(sep < x /\ x < t) /\ ~(t < x /\ x < sep)
    /\ \A k \in Int : /\ sep <= k /\ k < t => e[k] = right
                      /\ t <= k /\ k < sep => e[k] = left

\* Such a key can take the separator's place.
LEMMA WedgeFits ==
    ASSUME NEW P, NEW N, NEW lv, NEW L, NEW root, Shape(P, N, lv, L, root),
           NEW at, Routes(P, lv[root], root, at), NEW u \in 1..lv[root], NEW q, NEW left, NEW right, NEW sep, NEW t,
           Around(P, at, u, q, left, right, sep), Wedge(P, left, right, t)
    PROVE  Fits(P[q], at[u - 1], left, right, sep, t)
<1> DEFINE e == at[u - 1]
           f == at[u]
<1>1. /\ \A k \in Int : e[k] = left => f[k] = q /\ k < sep /\ SameSlot(P[q], k, sep - 1)
      /\ \A k \in Int : e[k] = right => f[k] = q /\ sep <= k /\ SameSlot(P[q], k, sep)
  BY AroundFacts
<1>2. /\ sep \in Int /\ sep - 1 \in Int /\ e[sep] = right /\ e[sep - 1] = left /\ f[sep] = q
      /\ u \in 0..lv[root] /\ u - 1 \in 0..lv[root]
  BY RouteLink DEF Around
<1>3. /\ \A x \in KeysOf(P[left]) : x \in Int /\ e[x] = left
      /\ \A x \in KeysOf(P[right]) : x \in Int /\ e[x] = right
  <2>1. \A k \in Int : \A x \in KeysOf(P[e[k]]) : x \in Int /\ e[x] = e[k]
    BY <1>2, RouteKeys
  <2> HIDE DEF e
  <2> QED
    BY <1>2, <2>1
<1>4. \A x \in KeysOf(P[q]) : x \in Int
  <2>1. at[u][sep] = q /\ u \in 0..lv[root] /\ sep \in Int
    BY <1>2
  <2> HIDE DEF e, f
  <2>2. \A x \in KeysOf(P[at[u][sep]]) : x \in Int
    BY <2>1, RouteKeys
  <2> QED
    BY <2>1, <2>2
<1>5. CASE t \in KeysOf(P[right])
  <2>1. t \in Int /\ e[t] = right
    BY <1>3, <1>5
  <2>2. sep <= t /\ \A x \in KeysOf(P[q]) : x <= t <=> x <= sep
    BY <1>1, <2>1 DEF SameSlot
  <2>3. \A k \in Int : sep <= k /\ k <= t => e[k] = right
    BY <1>2, <2>1, <2>2, RouteConvex
  <2> HIDE DEF e, f
  <2>4. \A x \in KeysOf(P[q]) : x # sep => x # t /\ ~(sep < x /\ x < t) /\ ~(t < x /\ x < sep)
    BY <1>2, <1>4, <2>1, <2>2
  <2>5. \A k \in Int : (k < t => k <= t) /\ ~(t <= k /\ k < sep)
    BY <1>2, <2>1, <2>2
  <2> QED
    BY <2>1, <2>3, <2>4, <2>5 DEF Fits, e
<1>6. CASE t \in KeysOf(P[left]) /\ \E x \in KeysOf(P[left]) : x < t
  <2>1. t \in Int /\ e[t] = left
    BY <1>3, <1>6
  <2>2. t < sep /\ \A x \in KeysOf(P[q]) : x <= t <=> x <= sep - 1
    BY <1>1, <2>1 DEF SameSlot
  <2>3. \A k \in Int : t <= k /\ k <= sep - 1 => e[k] = left
    BY <1>2, <2>1, <2>2, RouteConvex
  <2>4. t \notin KeysOf(P[q])
    <3>1. PICK x \in KeysOf(P[left]) : x < t
      BY <1>6
    <3>2. x \in Int /\ e[x] = left
      BY <1>3
    <3>3. f[t] = q
      BY <1>1, <2>1
    <3> QED
      BY <2>1, <3>1, <3>2, <3>3, OwnKey
  <2> HIDE DEF e, f
  <2>5. \A x \in KeysOf(P[q]) : x # sep => x # t /\ ~(sep < x /\ x < t) /\ ~(t < x /\ x < sep)
    <3> TAKE x \in KeysOf(P[q])
    <3>1. x \in Int /\ x # t /\ (x <= t <=> x <= sep - 1)
      BY <1>4, <2>2, <2>4
    <3> QED
      BY <1>2, <2>1, <2>2, <3>1
  <2>6. \A k \in Int : (k < sep => k <= sep - 1) /\ ~(sep <= k /\ k < t)
    BY <1>2, <2>1, <2>2
  <2> QED
    BY <2>1, <2>3, <2>5, <2>6 DEF Fits, e
<1> QED
  BY <1>5, <1>6 DEF Wedge

\* A parent in which t took the place of the separator sep, which had left on its left.
Reseparated(w, w2, left, sep, t) ==
    /\ KeysOf(w2) = (KeysOf(w) \ {sep}) \cup {t}
    /\ \A k \in Int : /\ sep <= k /\ k < t => Child(w2, k) = left
                      /\ t <= k /\ k < sep => Child(w2, k) = Child(w, sep)
                      /\ ~(sep <= k /\ k < t) /\ ~(t <= k /\ k < sep) => Child(w2, k) = Child(w, k)

\* So is the parent that a borrowing writes.
LEMMA ReseparateIs ==
    ASSUME NEW V, NEW w \in PagesOf(V, V), NEW i, NEW sep, NEW left \in V, SepAt(w, i, sep, left), NEW t \in Keys,
           NEW e, NEW right, Fits(w, e, left, right, sep, t)
    PROVE  Reseparated(w, Reseparate(w, i, t, left).page, left, sep, t)
<1> DEFINE b == RemoveCellAt(w, i)
           r == AddCell(b, t, left)
           q == Reseparate(w, i, t, left).page
<1>1. i \in 1..Len(w.cells) /\ w.cells[i].key = sep /\ w.cells[i].val = left
  BY DEF SepAt
<1>2. /\ b \in PagesOf(V, V) /\ Len(b.cells) = Len(w.cells) - 1
      /\ Added(b, w.cells[i].key, w.cells[i].val, w) /\ w.cells[i].key \notin KeysOf(b)
      /\ KeysOf(w) = KeysOf(b) \cup {w.cells[i].key}
  BY <1>1, RemoveCellAtIs
<1>3. Added(b, sep, left, w) /\ sep \notin KeysOf(b) /\ KeysOf(w) = KeysOf(b) \cup {sep}
  BY <1>1, <1>2
<1>4. q = r.page
  BY DEF Reseparate
<1> HIDE DEF b, q
<1>5. Len(b.cells) < ORDER
  <2>1. w.cells \in Lists(V)
    BY PageFacts
  <2>2. Len(w.cells) \in Nat /\ Len(w.cells) <= ORDER
    BY <2>1, ListFacts
  <2>3. ORDER \in Nat
    BY Constants
  <2> QED
    BY <1>2, <2>2, <2>3
<1>6. \A x \in KeysOf(b) : x \in KeysOf(w) /\ x # sep
  BY <1>3
<1>7. \A x \in KeysOf(b) : x # t /\ ~(sep < x /\ x < t) /\ ~(t < x /\ x < sep)
  BY <1>6 DEF Fits
<1>8. t \notin KeysOf(b)
  BY <1>7
<1>9. r.ok /\ r.page \in PagesOf(V, V) /\ Added(b, t, left, r.page)
  <2>1. /\ r.ok <=> (Len(b.cells) < ORDER /\ t \notin KeysOf(b))
        /\ r.page \in PagesOf(V, V)
        /\ r.ok => Added(b, t, left, r.page)
    BY <1>2, AddCellIs
  <2> HIDE DEF r
  <2> QED
    BY <1>5, <1>8, <2>1
<1> HIDE DEF r
<1>10. q \in PagesOf(V, V) /\ Added(b, t, left, q)
  BY <1>4, <1>9
<1>11. KeysOf(q) = KeysOf(b) \cup {t}
  BY <1>2, <1>10, AddedKeys
<1>12. KeysOf(q) = (KeysOf(w) \ {sep}) \cup {t}
  BY <1>3, <1>11
<1>13. sep \in Int /\ t \in Int
  <2>1. sep \in KeysOf(w)
    BY <1>3
  <2> QED
    BY <2>1, PageFacts, Constants
<1>14. ASSUME NEW k \in Int
       PROVE  /\ sep <= k /\ k < t => Child(q, k) = left
              /\ t <= k /\ k < sep => Child(q, k) = Child(w, sep)
              /\ ~(sep <= k /\ k < t) /\ ~(t <= k /\ k < sep) => Child(q, k) = Child(w, k)
  <2>1. b \in PagesOf(V, V)
    BY <1>2
  <2>2. \A x \in KeysOf(b) : ~(sep < x /\ x < t) /\ ~(t < x /\ x < sep)
    BY <1>7
  <2> QED
    BY <1>3, <1>8, <1>10, <1>13, <2>1, <2>2, MovedChild
<1>15. Reseparated(w, q, left, sep, t)
  BY <1>12, <1>14 DEF Reseparated
<1> QED
  BY <1>15 DEF q

\* The parent after a cell went from one of its children to the next.
LEMMA ReparentsAnew ==
    ASSUME NEW P, NEW N, NEW lv, NEW L, NEW root, Shape(P, N, lv, L, root),
           NEW at, Routes(P, lv[root], root, at), NEW u \in 1..lv[root], NEW q, NEW left, NEW right, NEW sep,
           Around(P, at, u, q, left, right, sep), NEW t \in Keys, Wedge(P, left, right, t),
           NEW w2, Reseparated(P[q], w2, left, sep, t)
    PROVE  Reparents(P[q], w2, at[u], q, left, right, sep, {t})
<1> DEFINE e == at[u - 1]
           f == at[u]
<1>1. /\ left # right
      /\ \A k \in Int : e[k] = left => k < sep
      /\ \A k \in Int : e[k] = right => sep <= k
  BY AroundFacts
<1>2. Fits(P[q], e, left, right, sep, t)
  BY WedgeFits
<1>3. \A k \in Int : e[k] = Child(P[f[k]], k)
  BY RouteLink
<1>4. sep \in Int /\ f[sep] = q /\ e[sep] = right
  BY DEF Around
<1> HIDE DEF e, f
<1>5. /\ t \in Int
      /\ \A k \in Int : /\ sep <= k /\ k < t => e[k] = right
                        /\ t <= k /\ k < sep => e[k] = left
  BY <1>2 DEF Fits
<1>6. \A x \in KeysOf(w2) : (x \in KeysOf(P[q]) /\ x # sep) \/ x \in {t}
  BY DEF Reseparated
<1>7. ASSUME NEW k \in Int, f[k] = q PROVE Child(w2, k) = Sent({t}, left, right, Child(P[q], k), k)
  <2>1. Child(P[q], k) = e[k] /\ Child(P[q], sep) = right
    BY <1>3, <1>4, <1>7
  <2>2. Under({t}, k) <=> k < t
    BY DEF Under
  <2>3. Sent({t}, left, right, e[k], k) = IF e[k] \in {left, right} THEN (IF k < t THEN left ELSE right) ELSE e[k]
    BY <2>2 DEF Sent
  <2>4. CASE sep <= k /\ k < t
    <3>1. Child(w2, k) = left /\ e[k] = right
      BY <1>5, <2>4 DEF Reseparated
    <3> QED
      BY <2>1, <2>3, <2>4, <3>1
  <2>5. CASE t <= k /\ k < sep
    <3>1. Child(w2, k) = right /\ e[k] = left
      BY <1>5, <2>1, <2>5 DEF Reseparated
    <3>2. ~(k < t)
      BY <1>5, <2>5
    <3> QED
      BY <2>1, <2>3, <3>1, <3>2
  <2>6. CASE ~(sep <= k /\ k < t) /\ ~(t <= k /\ k < sep)
    <3>1. Child(w2, k) = e[k]
      BY <2>1, <2>6 DEF Reseparated
    <3>2. e[k] = left => k < t
      <4>1. SUFFICES ASSUME k < sep PROVE k < t
        BY <1>1
      <4> QED
        BY <1>4, <1>5, <2>6, <4>1
    <3>3. e[k] = right => ~(k < t)
      BY <1>1, <2>6
    <3> QED
      BY <1>1, <2>1, <2>3, <3>1, <3>2, <3>3
  <2> QED
    BY <2>4, <2>5, <2>6
<1>8. Reparents(P[q], w2, f, q, left, right, sep, {t})
  BY <1>6, <1>7 DEF Reparents
<1> QED
  BY <1>8 DEF f

\* The parent after two of its children became one.
LEMMA ReparentsOne ==
    ASSUME NEW P, NEW N, NEW lv, NEW L, NEW root, Shape(P, N, lv, L, root),
           NEW at, Routes(P, lv[root], root, at), NEW u \in 1..lv[root], NEW q, NEW left, NEW right, NEW sep,
           Around(P, at, u, q, left, right, sep), NEW i, SepAt(P[q], i, sep, left)
    PROVE  Reparents(P[q], WithoutSlot(P[q], i, right, left), at[u], q, left, right, sep, {})
<1> DEFINE e == at[u - 1]
           f == at[u]
           w == P[q]
           b == RemoveCellAt(w, i)
           V == Below(lv, L, u)
           w2 == WithoutSlot(w, i, right, left)
<1>1. /\ left # right /\ left \in L
      /\ \A k \in Int : e[k] = left => k < sep /\ SameSlot(w, k, sep - 1)
      /\ \A k \in Int : e[k] = right => sep <= k
  BY AroundFacts
<1>2. \A k \in Int : e[k] = Child(P[f[k]], k)
  BY RouteLink
<1>3. sep \in Int /\ sep - 1 \in Int /\ f[sep] = q /\ e[sep] = right /\ e[sep - 1] = left
  BY DEF Around
<1>4. u \in 0..lv[root] /\ u - 1 \in 0..lv[root] /\ u \in Nat /\ u # 0
  BY RouteLink
<1>5. q \in L /\ lv[q] = u
  BY <1>3, <1>4, RoutePage
<1>6. w \in PagesOf(V, V)
  <2>1. lv[q] # 0
    BY <1>4, <1>5
  <2> QED
    BY <1>5, <2>1, ParentPage
<1>7. left \in V
  <2>1. \A k \in Int : e[k] \in L /\ lv[e[k]] = u - 1
    BY <1>4, RoutePage
  <2> HIDE DEF e
  <2> QED
    BY <1>3, <2>1 DEF Below
<1>8. i \in 1..Len(w.cells) /\ w.cells[i].key = sep /\ w.cells[i].val = left
  BY DEF SepAt
<1> HIDE DEF V, w, e, f
<1>9. /\ b \in PagesOf(V, V)
      /\ Added(b, w.cells[i].key, w.cells[i].val, w) /\ w.cells[i].key \notin KeysOf(b)
      /\ KeysOf(w) = KeysOf(b) \cup {w.cells[i].key}
  BY <1>6, <1>8, RemoveCellAtIs
<1>10. b \in PagesOf(V, V) /\ Added(b, sep, left, w) /\ sep \notin KeysOf(b) /\ KeysOf(w) = KeysOf(b) \cup {sep}
  BY <1>8, <1>9
<1> HIDE DEF b
<1>11. /\ KeysOf(w2) = KeysOf(b)
       /\ \A k \in Int : Child(w2, k) = IF Child(b, k) = right THEN left ELSE Child(b, k)
  <2>1. w2 = Repoint(b, right, left)
    BY DEF WithoutSlot, b
  <2> HIDE DEF w2
  <2> QED
    BY <1>7, <1>10, <2>1, RepointIs
<1> HIDE DEF w2
<1>12. \A x \in KeysOf(w2) : (x \in KeysOf(w) /\ x # sep) \/ x \in {}
  BY <1>10, <1>11
<1>13. ASSUME NEW k \in Int, f[k] = q PROVE Child(w2, k) = Sent({}, left, right, Child(w, k), k)
  <2>1. Child(w, k) = e[k] /\ Child(w, sep) = right
    BY <1>2, <1>3, <1>13 DEF w
  <2>2. Sent({}, left, right, e[k], k) = IF e[k] \in {left, right} THEN left ELSE e[k]
    BY DEF Sent, Under
  <2>3. /\ k < sep /\ (\A x \in KeysOf(b) : ~(k < x /\ x < sep)) => Child(w, k) = left /\ Child(b, k) = Child(w, sep)
        /\ ~(k < sep /\ (\A x \in KeysOf(b) : ~(k < x /\ x < sep))) => Child(b, k) = Child(w, k)
    BY <1>3, <1>6, <1>10, RemovedChild
  <2>4. CASE e[k] = left
    <3>1. k < sep /\ SameSlot(w, k, sep - 1)
      BY <1>1, <2>4
    <3>2. \A x \in KeysOf(b) : ~(k < x /\ x < sep)
      <4> TAKE x \in KeysOf(b)
      <4>1. x \in Int
        BY <1>10, PageFacts
      <4>2. x <= k <=> x <= sep - 1
        BY <1>10, <3>1 DEF SameSlot
      <4> QED
        BY <1>3, <4>1, <4>2
    <3>3. Child(b, k) = right
      BY <2>1, <2>3, <3>1, <3>2
    <3> QED
      BY <1>11, <2>1, <2>2, <2>4, <3>3
  <2>5. CASE e[k] = right
    <3>1. ~(k < sep)
      BY <1>1, <1>3, <2>5
    <3>2. Child(b, k) = right
      BY <2>1, <2>3, <2>5, <3>1
    <3> QED
      BY <1>11, <2>1, <2>2, <2>5, <3>2
  <2>6. CASE e[k] \notin {left, right}
    <3>1. Child(b, k) = e[k]
      BY <2>1, <2>3, <2>6
    <3> QED
      BY <1>11, <2>1, <2>2, <2>6, <3>1
  <2> QED
    BY <2>4, <2>5, <2>6
<1>14. Reparents(w, w2, f, q, left, right, sep, {})
  BY <1>12, <1>13 DEF Reparents
<1> QED
  BY <1>14 DEF w, w2, f

-----------------------------------------------------------------------------
(* Cells borrowed. *)

\* The cells of q are those of p and one more, which comes first or last.
PutFirst(p, c, q) ==
    /\ Len(q.cells) = Len(p.cells) + 1 /\ q.cells[1] = c
    /\ \A i \in 1..Len(p.cells) : q.cells[i + 1] = p.cells[i]
PutLast(p, c, q) ==
    /\ Len(q.cells) = Len(p.cells) + 1 /\ q.cells[Len(p.cells) + 1] = c
    /\ \A i \in 1..Len(p.cells) : q.cells[i] = p.cells[i]

\* The keys and the cells of q then.
OneMore(p, c, q) ==
    /\ c.key \in Int
    /\ KeysOf(q) = KeysOf(p) \cup {c.key}
    /\ ToSet(q.cells) = ToSet(p.cells) \cup {c}

\* A cell that comes first has the smallest key.
LEMMA PutFirstKeys ==
    ASSUME NEW V, NEW W, NEW p \in PagesOf(V, W), NEW q \in PagesOf(V, W), NEW c, PutFirst(p, c, q)
    PROVE  OneMore(p, c, q) /\ \A x \in KeysOf(p) : c.key < x
<1> DEFINE n == Len(p.cells)
<1>1. /\ p.cells \in Lists(V) /\ q.cells \in Lists(V)
      /\ KeysOf(p) = {p.cells[i].key : i \in 1..n} /\ KeysOf(q) = {q.cells[i].key : i \in 1..Len(q.cells)}
  BY PageFacts
<1>2. /\ n \in Nat /\ DOMAIN p.cells = 1..n /\ DOMAIN q.cells = 1..Len(q.cells)
      /\ \A i, j \in 1..Len(q.cells) : i < j <=> q.cells[i].key < q.cells[j].key
      /\ \A i \in 1..Len(q.cells) : q.cells[i].key \in Int
  BY <1>1, ListFacts
<1>3. Len(q.cells) = n + 1 /\ q.cells[1] = c /\ \A i \in 1..n : q.cells[i + 1] = p.cells[i]
  BY DEF PutFirst
<1> HIDE DEF n
<1>4. \A i \in 1..n : i + 1 \in 1..n + 1 /\ 1 < i + 1
  BY <1>2
<1>5. \A j \in 1..n + 1 : j = 1 \/ \E i \in 1..n : j = i + 1
  <2> TAKE j \in 1..n + 1
  <2>1. j = 1 \/ (j - 1 \in 1..n /\ j = j - 1 + 1)
    BY <1>2
  <2> QED
    BY <2>1
<1>6. 1 \in 1..n + 1
  BY <1>2
<1>7. \A x \in KeysOf(p) : c.key < x
  <2>1. \A i \in 1..n : c.key < p.cells[i].key
    BY <1>2, <1>3, <1>4, <1>6
  <2> QED
    BY <1>1, <2>1
<1>8. KeysOf(q) = KeysOf(p) \cup {c.key}
  <2>1. \A x \in KeysOf(q) : x \in KeysOf(p) \/ x = c.key
    BY <1>1, <1>3, <1>5
  <2>2. \A i \in 1..n : p.cells[i].key \in KeysOf(q)
    BY <1>1, <1>3, <1>4
  <2>3. c.key \in KeysOf(q)
    BY <1>1, <1>3, <1>6
  <2> QED
    BY <1>1, <2>1, <2>2, <2>3
<1>9. ToSet(q.cells) = ToSet(p.cells) \cup {c}
  <2>1. ToSet(q.cells) = {q.cells[i] : i \in 1..n + 1} /\ ToSet(p.cells) = {p.cells[i] : i \in 1..n}
    BY <1>2, <1>3 DEF ToSet
  <2> QED
    BY <1>3, <1>4, <1>5, <1>6, <2>1
<1>10. c.key \in Int
  BY <1>2, <1>3, <1>6
<1> QED
  BY <1>7, <1>8, <1>9, <1>10 DEF OneMore

\* One that comes last has the largest.
LEMMA PutLastKeys ==
    ASSUME NEW V, NEW W, NEW p \in PagesOf(V, W), NEW q \in PagesOf(V, W), NEW c, PutLast(p, c, q)
    PROVE  OneMore(p, c, q) /\ \A x \in KeysOf(p) : x < c.key
<1> DEFINE n == Len(p.cells)
<1>1. /\ p.cells \in Lists(V) /\ q.cells \in Lists(V)
      /\ KeysOf(p) = {p.cells[i].key : i \in 1..n} /\ KeysOf(q) = {q.cells[i].key : i \in 1..Len(q.cells)}
  BY PageFacts
<1>2. /\ n \in Nat /\ DOMAIN p.cells = 1..n /\ DOMAIN q.cells = 1..Len(q.cells)
      /\ \A i, j \in 1..Len(q.cells) : i < j <=> q.cells[i].key < q.cells[j].key
      /\ \A i \in 1..Len(q.cells) : q.cells[i].key \in Int
  BY <1>1, ListFacts
<1>3. Len(q.cells) = n + 1 /\ q.cells[n + 1] = c /\ \A i \in 1..n : q.cells[i] = p.cells[i]
  BY DEF PutLast
<1> HIDE DEF n
<1>4. \A i \in 1..n : i \in 1..n + 1 /\ i < n + 1
  BY <1>2
<1>5. \A j \in 1..n + 1 : j = n + 1 \/ j \in 1..n
  BY <1>2
<1>6. n + 1 \in 1..n + 1
  BY <1>2
<1>7. \A x \in KeysOf(p) : x < c.key
  <2>1. \A i \in 1..n : p.cells[i].key < c.key
    BY <1>2, <1>3, <1>4, <1>6
  <2> QED
    BY <1>1, <2>1
<1>8. KeysOf(q) = KeysOf(p) \cup {c.key}
  <2>1. \A x \in KeysOf(q) : x \in KeysOf(p) \/ x = c.key
    BY <1>1, <1>3, <1>5
  <2>2. \A i \in 1..n : p.cells[i].key \in KeysOf(q)
    BY <1>1, <1>3, <1>4
  <2>3. c.key \in KeysOf(q)
    BY <1>1, <1>3, <1>6
  <2> QED
    BY <1>1, <2>1, <2>2, <2>3
<1>9. ToSet(q.cells) = ToSet(p.cells) \cup {c}
  <2>1. ToSet(q.cells) = {q.cells[i] : i \in 1..n + 1} /\ ToSet(p.cells) = {p.cells[i] : i \in 1..n}
    BY <1>2, <1>3 DEF ToSet
  <2> QED
    BY <1>3, <1>4, <1>5, <1>6, <2>1
<1>10. c.key \in Int
  BY <1>2, <1>3, <1>6
<1> QED
  BY <1>7, <1>8, <1>9, <1>10 DEF OneMore

\* Searches in a page with one more cell, first or last.
LEMMA PutFirstChild ==
    ASSUME NEW V, NEW W, NEW p \in PagesOf(V, W), NEW q \in PagesOf(V, W), NEW c, PutFirst(p, c, q),
           q.ptr = p.ptr, NEW k \in Int
    PROVE  Child(q, k) = IF k < c.key THEN c.val ELSE Child(p, k)
<1>1. p.cells \in Lists(V) /\ q.cells \in Lists(V)
  BY PageFacts
<1>2. Len(p.cells) \in Nat
  BY <1>1, ListFacts
<1>3. Len(q.cells) = Len(p.cells) + 1 /\ q.cells[1] = c /\ \A i \in 1..Len(p.cells) : q.cells[i + 1] = p.cells[i]
  BY DEF PutFirst
<1>4. c.key \in Int
  BY PutFirstKeys DEF OneMore
<1>5. CASE k < c.key
  <2>1. 1 \in 1..Len(q.cells) + 1 /\ 1 <= Len(q.cells)
    BY <1>2, <1>3
  <2>2. Between(q, 1, k)
    BY <1>3, <1>5, <2>1 DEF Between
  <2>3. Child(q, k) = Kid(q, 1)
    BY <1>1, <2>2, ChildIs
  <2> QED
    BY <1>3, <1>5, <2>1, <2>3 DEF Kid
<1>6. CASE ~(k < c.key)
  <2>1. c.key <= k
    BY <1>4, <1>6
  <2>2. \A i \in 1..Len(p.cells) : p.cells[i] = q.cells[1 + i]
    BY <1>2, <1>3
  <2>3. Len(q.cells) = 1 + Len(p.cells)
    BY <1>2, <1>3
  <2>4. RightPart(p, q, 1) /\ q.cells[1].key <= k
    BY <1>3, <2>1, <2>2, <2>3 DEF RightPart
  <2>5. Child(p, k) = Child(q, k)
    BY <1>1, <2>4, SuffixChild
  <2> QED
    BY <1>6, <2>5
<1> QED
  BY <1>5, <1>6

\* With a cell last, keys below it go where they went without it.
LEMMA PutLastChild ==
    ASSUME NEW V, NEW W, NEW p \in PagesOf(V, W), NEW q \in PagesOf(V, W), NEW c, PutLast(p, c, q),
           p.ptr = c.val, NEW k \in Int
    PROVE  Child(q, k) = IF k < c.key THEN Child(p, k) ELSE q.ptr
<1> DEFINE n == Len(p.cells)
<1>1. p.cells \in Lists(V) /\ q.cells \in Lists(V)
  BY PageFacts
<1>2. n \in Nat
  BY <1>1, ListFacts
<1>3. Len(q.cells) = n + 1 /\ q.cells[n + 1] = c /\ \A i \in 1..n : q.cells[i] = p.cells[i]
  BY DEF PutLast
<1>4. c.key \in Int
  BY PutLastKeys DEF OneMore
<1>5. CASE k < c.key
  <2>1. \A i \in 1..n : p.cells[i] = q.cells[i]
    BY <1>3
  <2>2. n < Len(q.cells)
    BY <1>2, <1>3
  <2>3. LeftPart(p, q, n) /\ k < q.cells[n + 1].key
    BY <1>2, <1>3, <1>5, <2>1, <2>2 DEF LeftPart
  <2>4. Child(p, k) = Child(q, k)
    BY <1>1, <2>3, PrefixChild
  <2> QED
    BY <1>5, <2>4
<1>6. CASE ~(k < c.key)
  <2>1. c.key <= k
    BY <1>4, <1>6
  <2> HIDE DEF n
  <2>2. PICK j : j = n + 2
    OBVIOUS
  <2>3. j \in 1..Len(q.cells) + 1 /\ j - 1 = n + 1 /\ ~(j <= Len(q.cells))
    BY <1>2, <1>3, <2>2
  <2>4. q.cells[j - 1].key <= k
    BY <1>3, <2>1, <2>3
  <2>5. Between(q, j, k)
    BY <2>3, <2>4 DEF Between
  <2>6. Child(q, k) = Kid(q, j)
    BY <1>1, <2>5, ChildIs
  <2> QED
    BY <1>6, <2>3, <2>6 DEF Kid
<1> QED
  BY <1>5, <1>6

\* A page that is to be filled up.
Small(p) == Len(p.cells) < DEGREE

\* The cells of two pages are on the two sides of the separator sep, that of an inner page's
\* are not sep.
Apart(l, r, sep, inner) ==
    /\ \A x \in KeysOf(l) : x < sep
    /\ \A x \in KeysOf(r) : sep <= x /\ (inner => sep < x)

\* A page without its last or its first cell.
LEMMA RemovedEnds ==
    ASSUME NEW V, NEW W, NEW p \in PagesOf(V, W), Len(p.cells) >= 1
    PROVE  /\ PutLast(RemoveCellAt(p, Len(p.cells)), Last(p.cells), p)
           /\ PutFirst(RemoveCellAt(p, 1), p.cells[1], p)
           /\ Last(p.cells) \in CellsOf(V) /\ p.cells[1] \in CellsOf(V)
<1> DEFINE n == Len(p.cells)
<1>1. p.cells \in Lists(V)
  BY PageFacts
<1>2. n \in Nat /\ \A i \in 1..n : p.cells[i] \in CellsOf(V)
  BY <1>1, ListFacts
<1>3. n \in 1..n /\ 1 \in 1..n
  BY <1>2
<1>4. Last(p.cells) = p.cells[n]
  BY DEF Last
<1>5. PutLast(RemoveCellAt(p, n), p.cells[n], p)
  <2> DEFINE q == RemoveCellAt(p, n)
  <2>1. Len(q.cells) = n - 1 /\ q.cells = RemoveAt(p.cells, n)
    BY <1>3, RemoveCellAtIs
  <2>2. \A j \in 1..n - 1 : RemoveAt(p.cells, n)[j] = IF j < n THEN p.cells[j] ELSE p.cells[j + 1]
    BY <1>1, <1>3, RemovedList
  <2> HIDE DEF q, n
  <2>3. n = n - 1 + 1 /\ \A j \in 1..n - 1 : j < n
    BY <1>2
  <2>4. \A j \in 1..n - 1 : p.cells[j] = q.cells[j]
    BY <2>1, <2>2, <2>3
  <2>5. PutLast(q, p.cells[n], p)
    BY <2>1, <2>3, <2>4 DEF PutLast, n
  <2> QED
    BY <2>5 DEF q
<1>6. PutFirst(RemoveCellAt(p, 1), p.cells[1], p)
  <2> DEFINE q == RemoveCellAt(p, 1)
  <2>1. Len(q.cells) = n - 1 /\ q.cells = RemoveAt(p.cells, 1)
    BY <1>3, RemoveCellAtIs
  <2>2. \A j \in 1..n - 1 : RemoveAt(p.cells, 1)[j] = IF j < 1 THEN p.cells[j] ELSE p.cells[j + 1]
    BY <1>1, <1>3, RemovedList
  <2> HIDE DEF q, n
  <2>3. n = n - 1 + 1 /\ \A j \in 1..n - 1 : ~(j < 1)
    BY <1>2
  <2>4. \A j \in 1..n - 1 : p.cells[j + 1] = q.cells[j]
    BY <2>1, <2>2, <2>3
  <2>5. PutFirst(q, p.cells[1], p)
    BY <2>1, <2>3, <2>4 DEF PutFirst, n
  <2> QED
    BY <2>5 DEF q
<1> QED
  BY <1>2, <1>3, <1>4, <1>5, <1>6

\* A cell with a key below or above all others.
LEMMA AddedEnds ==
    ASSUME NEW V, NEW W, NEW p \in PagesOf(V, W), NEW key \in Int, NEW val, NEW q, Added(p, key, val, q)
    PROVE  /\ (\A x \in KeysOf(p) : key < x) => PutFirst(p, [key |-> key, val |-> val], q)
           /\ (\A x \in KeysOf(p) : x < key) => PutLast(p, [key |-> key, val |-> val], q)
<1> DEFINE n == Len(p.cells)
           c == [key |-> key, val |-> val]
<1>1. p.cells \in Lists(V) /\ KeysOf(p) = {p.cells[i].key : i \in 1..n}
  BY PageFacts
<1>2. n \in Nat /\ \A i \in 1..n : p.cells[i].key \in Int
  BY <1>1, ListFacts
<1>3. PICK s \in 1..n + 1 :
          /\ \A i \in 1..n : p.cells[i].key < key <=> i < s
          /\ \A j \in 1..n + 1 : q.cells[j] = IF j < s THEN p.cells[j] ELSE IF j = s THEN c ELSE p.cells[j - 1]
  BY DEF Added
<1>4. Len(q.cells) = n + 1
  BY DEF Added
<1> HIDE DEF n, c
<1>5. ASSUME \A x \in KeysOf(p) : key < x PROVE PutFirst(p, c, q)
  <2>1. \A i \in 1..n : ~(i < s)
    <3> TAKE i \in 1..n
    <3>1. key < p.cells[i].key
      BY <1>1, <1>5
    <3>2. ~(p.cells[i].key < key)
      BY <1>2, <3>1
    <3> QED
      BY <1>3, <3>2
  <2>2. s = 1
    <3>1. s # 1 => 1 \in 1..n /\ 1 < s
      BY <1>2
    <3> QED
      BY <2>1, <3>1
  <2>3. q.cells[1] = c
    <3>1. 1 \in 1..n + 1 /\ ~(1 < s)
      BY <1>2, <2>2
    <3> QED
      BY <1>3, <2>2, <3>1
  <2>4. ASSUME NEW i \in 1..n PROVE q.cells[i + 1] = p.cells[i]
    <3>1. i + 1 \in 1..n + 1 /\ ~(i + 1 < s) /\ i + 1 # s /\ i + 1 - 1 = i
      BY <1>2, <2>2
    <3> QED
      BY <1>3, <3>1
  <2> QED
    BY <1>4, <2>3, <2>4 DEF PutFirst, n
<1>6. ASSUME \A x \in KeysOf(p) : x < key PROVE PutLast(p, c, q)
  <2>1. \A i \in 1..n : i < s
    BY <1>1, <1>3, <1>6
  <2>2. s = n + 1
    <3>1. s # n + 1 => s \in 1..n /\ ~(s < s)
      BY <1>2
    <3> QED
      BY <2>1, <3>1
  <2>3. q.cells[n + 1] = c
    <3>1. n + 1 \in 1..n + 1 /\ ~(n + 1 < s)
      BY <1>2, <2>2
    <3> QED
      BY <1>3, <2>2, <3>1
  <2>4. ASSUME NEW i \in 1..n PROVE q.cells[i] = p.cells[i]
    <3>1. i \in 1..n + 1
      BY <1>2
    <3> QED
      BY <1>3, <2>1, <3>1
  <2> QED
    BY <1>4, <2>3, <2>4 DEF PutLast, n
<1> QED
  BY <1>5, <1>6 DEF c

\* What borrowing from the left does to a page p and to its left sibling l: the cell c
\* leaves l's end, in an inner page for that of the separator, which comes first in p.
LentFromLeft(l, p, l2, p2, sep, t, inner) ==
    \E c : /\ PutLast(l2, c, l) /\ t = c.key
           /\ inner => /\ l2.ptr = c.val /\ p2.ptr = p.ptr
                       /\ PutFirst(p, [key |-> sep, val |-> l.ptr], p2)
           /\ ~inner => PutFirst(p, c, p2)

\* The same from the right sibling r.
LentFromRight(p, r, p2, r2, sep, t, inner) ==
    \E c : /\ PutFirst(r2, c, r)
           /\ inner => /\ t = c.key /\ p2.ptr = c.val /\ r2.ptr = r.ptr
                       /\ PutLast(p, [key |-> sep, val |-> p.ptr], p2)
           /\ ~inner => PutLast(p, c, p2) /\ r2.cells # <<>> /\ t = r2.cells[1].key

\* What redistribute_from_left writes is a loan from the left.
LEMMA LentLeftIs ==
    ASSUME NEW V, NEW W, NEW p \in PagesOf(V, W), NEW l \in PagesOf(V, W), Len(l.cells) >= 1,
           NEW sep \in Keys, p.kind # "Leaf" => V = W,
           Apart(l, p, sep, p.kind # "Leaf"), Small(p)
    PROVE  LentFromLeft(l, p, LentLeft(p, l), TookLeft(p, l, sep), sep, SepLeft(p, l, sep), p.kind # "Leaf")
<1> DEFINE n == Len(l.cells)
           c == Last(l.cells)
           q == TookLeft(p, l, sep)
           short == RemoveCellAt(l, n)
<1>1. PutLast(short, c, l) /\ c \in CellsOf(V)
  BY RemovedEnds
<1>2. l.cells \in Lists(V) /\ p.cells \in Lists(V) /\ l.ptr \in W /\ p.ptr \in W
  BY PageFacts
<1>3. n \in 1..n
  <2>1. n \in Nat
    BY <1>2, ListFacts
  <2> QED
    BY <2>1
<1>4. short \in PagesOf(V, W)
  BY <1>3, RemoveCellTyped
<1>5. c.key \in Keys /\ c.val \in V /\ c = [key |-> c.key, val |-> c.val] /\ c.key \in Int /\ sep \in Int
  BY <1>1, Constants DEF CellsOf
<1>6. c.key < sep
  <2>1. c.key \in KeysOf(l)
    <3>1. OneMore(short, c, l)
      BY <1>1, <1>4, PutLastKeys
    <3> QED
      BY <3>1 DEF OneMore
  <2> QED
    BY <2>1 DEF Apart
<1>7. /\ \A x \in KeysOf(p) : x \in Int /\ sep <= x /\ (p.kind # "Leaf" => sep < x)
  BY PageFacts DEF Apart
<1>8. Len(p.cells) < ORDER /\ Len(p.cells) + 1 <= ORDER /\ Len(p.cells) \in Nat
  <2>1. Len(p.cells) < DEGREE
    BY DEF Small
  <2>2. Len(p.cells) \in Nat
    BY <1>2, ListFacts
  <2>3. DEGREE \in Nat /\ ORDER \in Nat /\ DEGREE < ORDER
    BY Constants
  <2> QED
    BY <2>1, <2>2, <2>3
<1> HIDE DEF c
<1>9. \A x \in KeysOf(p) : c.key < x
  BY <1>5, <1>6, <1>7
<1>10. CASE p.kind = "Leaf"
  <2> DEFINE r == AddCell(p, c.key, c.val)
  <2>1. q = r.page
    BY <1>10 DEF TookLeft, c
  <2>2. r.ok <=> (Len(p.cells) < ORDER /\ c.key \notin KeysOf(p))
    BY <1>5, AddCellIs
  <2>3. r.ok => Added(p, c.key, c.val, r.page)
    BY <1>5, AddCellIs
  <2>4. c.key \notin KeysOf(p)
    BY <1>5, <1>9
  <2> HIDE DEF q, r
  <2>5. Added(p, c.key, c.val, q)
    BY <1>8, <2>1, <2>2, <2>3, <2>4
  <2>6. PutFirst(p, c, q)
    BY <1>5, <1>9, <2>5, AddedEnds
  <2>7. q.cells[1] = c
    BY <2>6 DEF PutFirst
  <2>8. LentLeft(p, l) = short /\ SepLeft(p, l, sep) = c.key
    BY <1>10, <2>7 DEF LentLeft, SepLeft, q
  <2> HIDE DEF short
  <2>9. LentFromLeft(l, p, short, q, sep, c.key, p.kind # "Leaf")
    BY <1>1, <1>10, <2>6 DEF LentFromLeft
  <2> QED
    BY <2>8, <2>9 DEF q
<1>11. CASE p.kind # "Leaf"
  <2> DEFINE b == [key |-> sep, val |-> l.ptr]
             d == <<b>> \o p.cells
  <2>1. b \in CellsOf(V) /\ b.key = sep
    BY <1>2, <1>11 DEF CellsOf
  <2>2. q = Rebuild(p, p.kind, d, p.ptr).page
    BY <1>11 DEF TookLeft
  <2> HIDE DEF b
  <2>3. <<b>> \in Seq(CellsOf(V)) /\ Len(<<b>>) = 1 /\ <<b>>[1] = b /\ InOrder(<<b>>)
    BY <2>1 DEF InOrder
  <2>4. p.cells \in Seq(CellsOf(V)) /\ InOrder(p.cells)
    BY <1>2 DEF Lists
  <2>5. /\ d \in Seq(CellsOf(V)) /\ Len(d) = Len(<<b>>) + Len(p.cells)
        /\ \A j \in 1..Len(<<b>>) + Len(p.cells) : d[j] = IF j <= Len(<<b>>) THEN <<b>>[j] ELSE p.cells[j - Len(<<b>>)]
        /\ InOrder(<<b>>) /\ InOrder(p.cells)
              /\ (\A i \in 1..Len(<<b>>), j \in 1..Len(p.cells) : <<b>>[i].key < p.cells[j].key) => InOrder(d)
    BY <2>3, <2>4, JoinedList
  <2>6. \A j \in 1..Len(p.cells) : sep < p.cells[j].key
    <3>1. KeysOf(p) = {p.cells[i].key : i \in 1..Len(p.cells)}
      BY PageFacts
    <3> QED
      BY <1>7, <1>11, <3>1
  <2> HIDE DEF d, q
  <2>7. InOrder(d)
    <3>1. \A i \in 1..1 : i = 1
      OBVIOUS
    <3>2. \A i \in 1..Len(<<b>>), j \in 1..Len(p.cells) : <<b>>[i].key < p.cells[j].key
      BY <2>1, <2>3, <2>6, <3>1
    <3> QED
      BY <2>3, <2>4, <2>5, <3>2
  <2>8. Len(d) = Len(p.cells) + 1 /\ d[1] = b /\ \A j \in 1..Len(p.cells) : d[j + 1] = p.cells[j]
    <3>1. Len(d) = 1 + Len(p.cells) /\ \A j \in 1..1 + Len(p.cells) : d[j] = IF j <= 1 THEN <<b>>[j] ELSE p.cells[j - 1]
      BY <2>3, <2>5
    <3>2. 1 \in 1..1 + Len(p.cells) /\ 1 <= 1 /\ Len(p.cells) + 1 = 1 + Len(p.cells)
      BY <1>8
    <3>3. \A j \in 1..Len(p.cells) : j + 1 \in 1..1 + Len(p.cells) /\ ~(j + 1 <= 1) /\ j + 1 - 1 = j
      BY <1>8
    <3> QED
      BY <2>3, <3>1, <3>2, <3>3
  <2>9. Rebuilt(p, p.kind, d, p.ptr, V, W, Rebuild(p, p.kind, d, p.ptr))
    BY <1>2, <2>5, PageFacts, RebuildIs
  <2>10. q.cells = d /\ q.ptr = p.ptr
    BY <1>8, <2>2, <2>7, <2>8, <2>9 DEF Rebuilt
  <2>11. PutFirst(p, b, q)
    BY <2>8, <2>10 DEF PutFirst
  <2>12. LentLeft(p, l) = [short EXCEPT !.ptr = c.val] /\ SepLeft(p, l, sep) = c.key
    BY <1>11 DEF LentLeft, SepLeft, c
  <2> DEFINE l2 == [short EXCEPT !.ptr = c.val]
  <2>13. l2.cells = short.cells /\ l2.ptr = c.val
    <3>1. c.val \in W
      BY <1>5, <1>11
    <3> HIDE DEF short
    <3> QED
      BY <1>4, <3>1, PtrTyped
  <2> HIDE DEF l2
  <2>14. PutLast(l2, c, l)
    BY <1>1, <2>13 DEF PutLast
  <2>15. LentFromLeft(l, p, l2, q, sep, c.key, p.kind # "Leaf")
    BY <1>11, <2>10, <2>11, <2>13, <2>14 DEF LentFromLeft, b
  <2> QED
    BY <2>12, <2>15 DEF q, l2
<1> QED
  BY <1>10, <1>11

\* What redistribute_from_right writes is one from the right.
LEMMA LentRightIs ==
    ASSUME NEW V, NEW W, NEW p \in PagesOf(V, W), NEW r \in PagesOf(V, W), Len(r.cells) >= 2,
           NEW sep \in Keys, p.kind # "Leaf" => V = W,
           Apart(p, r, sep, p.kind # "Leaf"), Small(p)
    PROVE  LentFromRight(p, r, TookRight(p, r, sep), LentRight(r), sep, SepRight(p, r), p.kind # "Leaf")
<1> DEFINE c == r.cells[1]
           q == TookRight(p, r, sep)
           short == RemoveCellAt(r, 1)
<1>1. Len(r.cells) \in Nat /\ Len(r.cells) >= 1 /\ 1 \in 1..Len(r.cells)
  <2>1. Len(r.cells) \in Nat
    BY PageFacts, ListFacts
  <2> QED
    BY <2>1
<1>2. PutFirst(short, c, r) /\ c \in CellsOf(V)
  BY <1>1, RemovedEnds
<1>3. p.cells \in Lists(V) /\ p.ptr \in W
  BY PageFacts
<1>4. short \in PagesOf(V, W) /\ short.ptr = r.ptr /\ Len(short.cells) = Len(r.cells) - 1
  BY <1>1, RemoveCellTyped
<1>5. c.key \in Keys /\ c.val \in V /\ c = [key |-> c.key, val |-> c.val] /\ c.key \in Int /\ sep \in Int
  BY <1>2, Constants DEF CellsOf
<1>6. sep <= c.key
  <2>1. c.key \in KeysOf(r)
    <3>1. OneMore(short, c, r)
      BY <1>2, <1>4, PutFirstKeys
    <3> QED
      BY <3>1 DEF OneMore
  <2> QED
    BY <2>1 DEF Apart
<1>7. \A x \in KeysOf(p) : x \in Int /\ x < sep
  BY PageFacts DEF Apart
<1>8. Len(p.cells) < ORDER
  <2>1. Len(p.cells) < DEGREE
    BY DEF Small
  <2>2. Len(p.cells) \in Nat
    BY <1>3, ListFacts
  <2>3. DEGREE \in Nat /\ ORDER \in Nat /\ DEGREE < ORDER
    BY Constants
  <2> QED
    BY <2>1, <2>2, <2>3
<1>9. short.cells # <<>>
  <2>1. Len(short.cells) # 0
    <3>1. PICK n \in Nat : n = Len(r.cells) /\ n >= 2
      BY <1>1
    <3>2. n - 1 # 0
      <4>1. n \in Nat /\ n >= 2
        BY <3>1
      <4> QED
        BY <4>1
    <3> HIDE DEF short
    <3> QED
      BY <1>4, <3>1, <3>2
  <2> HIDE DEF short
  <2> QED
    BY <2>1
<1> HIDE DEF c
<1>10. \A x \in KeysOf(p) : x < c.key
  BY <1>5, <1>6, <1>7
<1>11. CASE p.kind = "Leaf"
  <2> DEFINE a == AddCell(p, c.key, c.val)
  <2>1. q = a.page
    BY <1>11 DEF TookRight, c
  <2>2. a.ok <=> (Len(p.cells) < ORDER /\ c.key \notin KeysOf(p))
    BY <1>5, AddCellIs
  <2>3. a.ok => Added(p, c.key, c.val, a.page)
    BY <1>5, AddCellIs
  <2>4. c.key \notin KeysOf(p)
    BY <1>5, <1>10
  <2> HIDE DEF q, a
  <2>5. Added(p, c.key, c.val, q)
    BY <1>8, <2>1, <2>2, <2>3, <2>4
  <2>6. PutLast(p, c, q)
    BY <1>5, <1>10, <2>5, AddedEnds
  <2>7. LentRight(r) = short /\ SepRight(p, r) = short.cells[1].key
    BY <1>11 DEF LentRight, SepRight
  <2> HIDE DEF short
  <2>8. LentFromRight(p, r, q, short, sep, short.cells[1].key, p.kind # "Leaf")
    BY <1>2, <1>9, <1>11, <2>6 DEF LentFromRight
  <2> QED
    BY <2>7, <2>8 DEF q
<1>12. CASE p.kind # "Leaf"
  <2> DEFINE a == AddCell(p, sep, p.ptr)
             b == [key |-> sep, val |-> p.ptr]
  <2>1. q = [a.page EXCEPT !.ptr = c.val]
    BY <1>12 DEF TookRight, c
  <2>2. p.ptr \in V
    BY <1>3, <1>12
  <2>3. /\ a.ok <=> (Len(p.cells) < ORDER /\ sep \notin KeysOf(p))
        /\ a.page \in PagesOf(V, W)
        /\ a.ok => Added(p, sep, p.ptr, a.page)
    BY <2>2, AddCellIs
  <2>4. sep \notin KeysOf(p)
    BY <1>5, <1>7
  <2> HIDE DEF q, a
  <2>5. Added(p, sep, p.ptr, a.page)
    BY <1>8, <2>3, <2>4
  <2>6. PutLast(p, b, a.page)
    BY <1>5, <1>7, <2>5, AddedEnds
  <2>7. q.cells = a.page.cells /\ q.ptr = c.val
    <3>1. c.val \in W
      BY <1>5, <1>12
    <3> QED
      BY <2>1, <2>3, <3>1, PtrTyped
  <2> HIDE DEF b
  <2>8. PutLast(p, b, q)
    BY <2>6, <2>7 DEF PutLast
  <2>9. LentRight(r) = short /\ SepRight(p, r) = c.key
    BY <1>12 DEF LentRight, SepRight, c
  <2> HIDE DEF short
  <2>10. LentFromRight(p, r, q, short, sep, c.key, p.kind # "Leaf")
    BY <1>2, <1>4, <1>12, <2>7, <2>8 DEF LentFromRight, b
  <2> QED
    BY <2>9, <2>10 DEF q
<1> QED
  BY <1>11, <1>12

\* Rejoined, for a T with one member.
LEMMA RejoinedAt ==
    ASSUME NEW l, NEW r, NEW l2, NEW r2, NEW sep, NEW t \in Int, NEW n,
           t \in KeysOf(r) \/ (t \in KeysOf(l) /\ \E x \in KeysOf(l) : x < t),
           \A x \in KeysOf(l2) : OfBoth(l, r, sep, n, x) /\ x < t,
           \A x \in KeysOf(r2) : OfBoth(l, r, sep, n, x) /\ t <= x /\ (n # 0 => t < x),
           n # 0 => \A k \in Int : Child(IF k < t THEN l2 ELSE r2, k) = IF k < sep THEN Child(l, k) ELSE Child(r, k),
           n = 0 => \A c : c.key \in Int => (c \in ToSet((IF c.key < t THEN l2 ELSE r2).cells)
                                             <=> c \in ToSet(l.cells) \cup ToSet(r.cells))
    PROVE  Rejoined(l, r, l2, r2, sep, {t}, n)
<1>1. \A k : Under({t}, k) <=> k < t
  BY DEF Under
<1>2. {t} \subseteq Int /\ \A a, b \in {t} : a = b
  OBVIOUS
<1>3. n # 0 => \A k \in Int : Child(IF Under({t}, k) THEN l2 ELSE r2, k) = IF k < sep THEN Child(l, k) ELSE Child(r, k)
  BY <1>1
<1>4. n = 0 => \A c : c.key \in Int => (c \in ToSet((IF Under({t}, c.key) THEN l2 ELSE r2).cells)
                                        <=> c \in ToSet(l.cells) \cup ToSet(r.cells))
  BY <1>1
<1>5. /\ \A x \in KeysOf(l2) : OfBoth(l, r, sep, n, x) /\ Under({t}, x)
      /\ \A x \in KeysOf(r2) : \A y \in {t} : OfBoth(l, r, sep, n, x) /\ y <= x /\ (n # 0 => y < x)
  BY <1>1
<1>6. \A y \in {t} : y \in KeysOf(r) \/ (y \in KeysOf(l) /\ \E x \in KeysOf(l) : x < y)
  OBVIOUS
<1> QED
  BY <1>2, <1>3, <1>4, <1>5, <1>6 DEF Rejoined

\* A key of a page is an integer.
LEMMA KeyInt ==
    ASSUME NEW V, NEW W, NEW p \in PagesOf(V, W)
    PROVE  \A x \in KeysOf(p) : x \in Int
  BY PageFacts

\* A loan from the left or from the right, between two pages of the level n.
LeftLoan(V, W, l, p, l2, p2, sep, t, n) ==
    /\ l \in PagesOf(V, W) /\ p \in PagesOf(V, W) /\ l2 \in PagesOf(V, W) /\ p2 \in PagesOf(V, W) /\ sep \in Int
    /\ LentFromLeft(l, p, l2, p2, sep, t, n # 0) /\ Apart(l, p, sep, n # 0) /\ KeysOf(l2) # {}
RightLoan(V, W, p, r, p2, r2, sep, t, n) ==
    /\ p \in PagesOf(V, W) /\ r \in PagesOf(V, W) /\ p2 \in PagesOf(V, W) /\ r2 \in PagesOf(V, W) /\ sep \in Int
    /\ LentFromRight(p, r, p2, r2, sep, t, n # 0) /\ Apart(p, r, sep, n # 0)

\* Borrowing from the left cuts the two pages again at the borrowed key.
LEMMA LeftRejoined ==
    ASSUME NEW V, NEW W, NEW l, NEW p, NEW l2, NEW p2, NEW sep, NEW t, NEW n, LeftLoan(V, W, l, p, l2, p2, sep, t, n)
    PROVE  /\ Rejoined(l, p, l2, p2, sep, {t}, n)
           /\ t \in KeysOf(l) /\ \E x \in KeysOf(l) : x < t
<1> SUFFICES ASSUME l \in PagesOf(V, W), p \in PagesOf(V, W), l2 \in PagesOf(V, W), p2 \in PagesOf(V, W), sep \in Int,
                    LentFromLeft(l, p, l2, p2, sep, t, n # 0), Apart(l, p, sep, n # 0), KeysOf(l2) # {}
             PROVE  /\ Rejoined(l, p, l2, p2, sep, {t}, n)
                    /\ t \in KeysOf(l) /\ \E x \in KeysOf(l) : x < t
  BY DEF LeftLoan
<1>1. PICK c : /\ PutLast(l2, c, l) /\ t = c.key
               /\ n # 0 => /\ l2.ptr = c.val /\ p2.ptr = p.ptr
                           /\ PutFirst(p, [key |-> sep, val |-> l.ptr], p2)
               /\ n = 0 => PutFirst(p, c, p2)
  BY DEF LentFromLeft
<1>2. /\ t \in Int /\ KeysOf(l) = KeysOf(l2) \cup {t} /\ ToSet(l.cells) = ToSet(l2.cells) \cup {c}
      /\ \A x \in KeysOf(l2) : x < t
  BY <1>1, PutLastKeys DEF OneMore
<1>3. \A x \in KeysOf(l) : x \in Int /\ x < sep
  BY KeyInt DEF Apart
<1>4. \A x \in KeysOf(p) : x \in Int /\ sep <= x /\ (n # 0 => sep < x)
  BY KeyInt DEF Apart
<1>5. t \in KeysOf(l) /\ \E x \in KeysOf(l) : x < t
  BY <1>2
<1>6. t < sep
  BY <1>3, <1>5
<1>7. \A x \in KeysOf(p) : t < x
  BY <1>2, <1>4, <1>6
<1>8. \A x \in KeysOf(l2) : OfBoth(l, p, sep, n, x) /\ x < t
  BY <1>2 DEF OfBoth
<1>9. CASE n # 0
  <2> DEFINE b == [key |-> sep, val |-> l.ptr]
  <2>1. PutFirst(p, b, p2) /\ b.key = sep /\ b.val = l.ptr /\ l2.ptr = c.val /\ p2.ptr = p.ptr
    BY <1>1, <1>9
  <2> HIDE DEF b
  <2>2. KeysOf(p2) = KeysOf(p) \cup {sep}
    BY <2>1, PutFirstKeys DEF OneMore
  <2>3. \A x \in KeysOf(p2) : OfBoth(l, p, sep, n, x) /\ t <= x /\ (n # 0 => t < x)
    <3> TAKE x \in KeysOf(p2)
    <3>1. x \in Int /\ t < x
      BY <1>4, <1>6, <1>7, <2>2
    <3>2. t <= x
      BY <1>2, <3>1
    <3> QED
      BY <1>9, <2>2, <3>1, <3>2 DEF OfBoth
  <2>4. ASSUME NEW k \in Int
        PROVE  Child(IF k < t THEN l2 ELSE p2, k) = IF k < sep THEN Child(l, k) ELSE Child(p, k)
    <3>1. Child(l, k) = IF k < c.key THEN Child(l2, k) ELSE l.ptr
      BY <1>1, <2>1, PutLastChild
    <3>2. Child(p2, k) = IF k < b.key THEN b.val ELSE Child(p, k)
      BY <2>1, PutFirstChild
    <3>3. k < t => k < sep
      BY <1>2, <1>6
    <3> QED
      BY <1>1, <2>1, <3>1, <3>2, <3>3
  <2> QED
    BY <1>2, <1>5, <1>8, <1>9, <2>3, <2>4, RejoinedAt
<1>10. CASE n = 0
  <2>1. PutFirst(p, c, p2)
    BY <1>1, <1>10
  <2>2. KeysOf(p2) = KeysOf(p) \cup {t} /\ ToSet(p2.cells) = ToSet(p.cells) \cup {c}
    BY <1>1, <2>1, PutFirstKeys DEF OneMore
  <2>3. \A x \in KeysOf(p2) : OfBoth(l, p, sep, n, x) /\ t <= x /\ (n # 0 => t < x)
    <3> TAKE x \in KeysOf(p2)
    <3>1. x \in Int /\ t <= x
      BY <1>2, <1>4, <1>7, <2>2
    <3> QED
      BY <1>5, <1>10, <2>2, <3>1 DEF OfBoth
  <2>4. ASSUME NEW d, d.key \in Int
        PROVE  d \in ToSet((IF d.key < t THEN l2 ELSE p2).cells) <=> d \in ToSet(l.cells) \cup ToSet(p.cells)
    <3>1. d \in ToSet(p.cells) => t < d.key
      BY <1>7, CellKey
    <3>2. d \in ToSet(l2.cells) => d.key < t
      BY <1>2, CellKey
    <3>3. d = c => d.key = t
      BY <1>1
    <3>4. ~(d.key < t /\ t < d.key) /\ ~(d.key < t /\ d.key = t)
      BY <1>2, <2>4
    <3> QED
      BY <1>2, <2>2, <3>1, <3>2, <3>3, <3>4
  <2> QED
    BY <1>2, <1>5, <1>8, <1>10, <2>3, <2>4, RejoinedAt
<1> QED
  BY <1>5, <1>9, <1>10

\* Borrowing from the right.
LEMMA RightRejoined ==
    ASSUME NEW V, NEW W, NEW p, NEW r, NEW p2, NEW r2, NEW sep, NEW t, NEW n, RightLoan(V, W, p, r, p2, r2, sep, t, n)
    PROVE  Rejoined(p, r, p2, r2, sep, {t}, n) /\ t \in KeysOf(r)
<1> SUFFICES ASSUME p \in PagesOf(V, W), r \in PagesOf(V, W), p2 \in PagesOf(V, W), r2 \in PagesOf(V, W), sep \in Int,
                    LentFromRight(p, r, p2, r2, sep, t, n # 0), Apart(p, r, sep, n # 0)
             PROVE  Rejoined(p, r, p2, r2, sep, {t}, n) /\ t \in KeysOf(r)
  BY DEF RightLoan
<1>1. PICK c : /\ PutFirst(r2, c, r)
               /\ n # 0 => /\ t = c.key /\ p2.ptr = c.val /\ r2.ptr = r.ptr
                           /\ PutLast(p, [key |-> sep, val |-> p.ptr], p2)
               /\ n = 0 => PutLast(p, c, p2) /\ r2.cells # <<>> /\ t = r2.cells[1].key
  BY DEF LentFromRight
<1>2. /\ c.key \in Int /\ KeysOf(r) = KeysOf(r2) \cup {c.key} /\ ToSet(r.cells) = ToSet(r2.cells) \cup {c}
      /\ \A x \in KeysOf(r2) : c.key < x
  BY <1>1, PutFirstKeys DEF OneMore
<1>3. \A x \in KeysOf(p) : x \in Int /\ x < sep
  BY KeyInt DEF Apart
<1>4. \A x \in KeysOf(r) : x \in Int /\ sep <= x /\ (n # 0 => sep < x)
  BY KeyInt DEF Apart
<1>5. CASE n # 0
  <2> DEFINE b == [key |-> sep, val |-> p.ptr]
  <2>1. PutLast(p, b, p2) /\ b.key = sep /\ b.val = p.ptr /\ p2.ptr = c.val /\ r2.ptr = r.ptr /\ t = c.key
    BY <1>1, <1>5
  <2> HIDE DEF b
  <2>2. KeysOf(p2) = KeysOf(p) \cup {sep}
    BY <2>1, PutLastKeys DEF OneMore
  <2>3. t \in Int /\ t \in KeysOf(r) /\ sep < t
    BY <1>2, <1>4, <1>5, <2>1
  <2>4. \A x \in KeysOf(p2) : OfBoth(p, r, sep, n, x) /\ x < t
    <3> TAKE x \in KeysOf(p2)
    <3>1. x < t
      BY <1>3, <2>2, <2>3
    <3> QED
      BY <1>5, <2>2, <3>1 DEF OfBoth
  <2>5. \A x \in KeysOf(r2) : OfBoth(p, r, sep, n, x) /\ t <= x /\ (n # 0 => t < x)
    <3> TAKE x \in KeysOf(r2)
    <3>1. x \in Int /\ t < x
      BY <1>2, <1>4, <2>1
    <3>2. t <= x
      BY <2>3, <3>1
    <3> QED
      BY <1>2, <3>1, <3>2 DEF OfBoth
  <2>6. ASSUME NEW k \in Int
        PROVE  Child(IF k < t THEN p2 ELSE r2, k) = IF k < sep THEN Child(p, k) ELSE Child(r, k)
    <3>1. Child(p2, k) = IF k < b.key THEN Child(p, k) ELSE p2.ptr
      BY <2>1, PutLastChild
    <3>2. Child(r, k) = IF k < c.key THEN c.val ELSE Child(r2, k)
      BY <1>1, <2>1, PutFirstChild
    <3>3. k < sep => k < t
      BY <2>3
    <3> QED
      BY <2>1, <3>1, <3>2, <3>3
  <2> QED
    BY <1>5, <2>3, <2>4, <2>5, <2>6, RejoinedAt
<1>6. CASE n = 0
  <2>1. PutLast(p, c, p2) /\ r2.cells # <<>> /\ t = r2.cells[1].key
    BY <1>1, <1>6
  <2>2. KeysOf(p2) = KeysOf(p) \cup {c.key} /\ ToSet(p2.cells) = ToSet(p.cells) \cup {c}
    BY <2>1, PutLastKeys DEF OneMore
  <2>3. t \in KeysOf(r2) /\ \A x \in KeysOf(r2) : t <= x
    BY <2>1, FirstKey
  <2>4. t \in Int /\ t \in KeysOf(r) /\ c.key < t /\ sep <= c.key /\ sep < t
    <3>1. t \in KeysOf(r) /\ c.key \in KeysOf(r) /\ c.key < t
      BY <1>2, <2>3
    <3> QED
      BY <1>2, <1>4, <3>1
  <2>5. \A x \in KeysOf(p2) : OfBoth(p, r, sep, n, x) /\ x < t
    <3> TAKE x \in KeysOf(p2)
    <3>1. x < t
      BY <1>3, <2>2, <2>4
    <3> QED
      BY <1>2, <2>2, <3>1 DEF OfBoth
  <2>6. \A x \in KeysOf(r2) : OfBoth(p, r, sep, n, x) /\ t <= x /\ (n # 0 => t < x)
    BY <1>2, <1>6, <2>3 DEF OfBoth
  <2>7. ASSUME NEW d, d.key \in Int
        PROVE  d \in ToSet((IF d.key < t THEN p2 ELSE r2).cells) <=> d \in ToSet(p.cells) \cup ToSet(r.cells)
    <3>1. d \in ToSet(p.cells) => d.key < sep
      BY <1>3, CellKey
    <3>2. d \in ToSet(r2.cells) => t <= d.key
      BY <2>3, CellKey
    <3>3. d = c => d.key < t
      BY <2>4
    <3>4. (d.key < sep => d.key < t) /\ ~(d.key < t /\ t <= d.key)
      BY <2>4, <2>7
    <3> QED
      BY <1>2, <2>2, <3>1, <3>2, <3>3, <3>4
  <2> QED
    BY <1>6, <2>4, <2>5, <2>6, <2>7, RejoinedAt
<1> QED
  BY <1>5, <1>6

-----------------------------------------------------------------------------
(* Cells merged. *)

\* Rejoined, for an empty T: one page has all.
LEMMA RejoinedOne ==
    ASSUME NEW l, NEW r, NEW l2, NEW r2, NEW sep, NEW n,
           \A x \in KeysOf(l2) : OfBoth(l, r, sep, n, x),
           n # 0 => \A k \in Int : Child(l2, k) = IF k < sep THEN Child(l, k) ELSE Child(r, k),
           n = 0 => \A c : c \in ToSet(l2.cells) <=> c \in ToSet(l.cells) \cup ToSet(r.cells)
    PROVE  Rejoined(l, r, l2, r2, sep, {}, n)
<1>1. \A k : Under({}, k)
  BY DEF Under
<1>2. n # 0 => \A k \in Int : Child(IF Under({}, k) THEN l2 ELSE r2, k) = IF k < sep THEN Child(l, k) ELSE Child(r, k)
  BY <1>1
<1>3. n = 0 => \A c : c.key \in Int => (c \in ToSet((IF Under({}, c.key) THEN l2 ELSE r2).cells)
                                        <=> c \in ToSet(l.cells) \cup ToSet(r.cells))
  BY <1>1
<1>4. \A x \in KeysOf(l2) : OfBoth(l, r, sep, n, x) /\ Under({}, x)
  BY <1>1
<1>5. /\ {} \subseteq Int /\ \A a, b \in {} : a = b
      /\ \A t \in {} : t \in KeysOf(r) \/ (t \in KeysOf(l) /\ \E x \in KeysOf(l) : x < t)
      /\ \A x \in KeysOf(r2) : \A t \in {} : OfBoth(l, r, sep, n, x) /\ t <= x /\ (n # 0 => t < x)
  OBVIOUS
<1> QED
  BY <1>2, <1>3, <1>4, <1>5 DEF Rejoined

\* The cells of a list that is two others, one after the other.
LEMMA JoinedSets ==
    ASSUME NEW C, NEW a \in Seq(C), NEW b \in Seq(C)
    PROVE  ToSet(a \o b) = ToSet(a) \cup ToSet(b)
<1> DEFINE m == Len(a)
           n == Len(b)
           c == a \o b
<1>1. /\ c \in Seq(C) /\ Len(c) = m + n
      /\ \A j \in 1..m + n : c[j] = IF j <= m THEN a[j] ELSE b[j - m]
  BY JoinedList
<1>2. m \in Nat /\ n \in Nat
  OBVIOUS
<1>3. /\ ToSet(c) = {c[j] : j \in 1..m + n} /\ ToSet(a) = {a[j] : j \in 1..m} /\ ToSet(b) = {b[j] : j \in 1..n}
  <2>1. DOMAIN c = 1..m + n /\ DOMAIN a = 1..m /\ DOMAIN b = 1..n
    BY <1>1
  <2> HIDE DEF c, m, n
  <2> QED
    BY <2>1 DEF ToSet
<1> HIDE DEF c, m, n
<1>4. ASSUME NEW j \in 1..m + n PROVE c[j] \in ToSet(a) \cup ToSet(b)
  <2>1. CASE j <= m
    <3>1. j \in 1..m
      BY <1>2, <2>1
    <3> QED
      BY <1>1, <1>3, <2>1, <3>1
  <2>2. CASE ~(j <= m)
    <3>1. j - m \in 1..n
      BY <1>2, <2>2
    <3> QED
      BY <1>1, <1>3, <2>2, <3>1
  <2> QED
    BY <2>1, <2>2
<1>5. ASSUME NEW j \in 1..m PROVE a[j] \in ToSet(c)
  <2>1. j \in 1..m + n /\ j <= m
    BY <1>2
  <2> QED
    BY <1>1, <1>3, <2>1
<1>6. ASSUME NEW j \in 1..n PROVE b[j] \in ToSet(c)
  <2>1. PICK i : i = j + m
    OBVIOUS
  <2>2. i \in 1..m + n /\ ~(i <= m) /\ i - m = j
    BY <1>2, <2>1
  <2> QED
    BY <1>1, <1>3, <2>2
<1> QED
  BY <1>3, <1>4, <1>5, <1>6 DEF c

\* A page's keys are those of its cells.
LEMMA KeysOfSet ==
    ASSUME NEW p
    PROVE  KeysOf(p) = {c.key : c \in ToSet(p.cells)}
  BY DEF KeysOf, ToSet

\* The pages l and r and, if they are inner pages, the separator between them as one list.
MergedAs(d, l, r, sep, n) ==
    LET m == Len(l.cells)
        b == [key |-> sep, val |-> l.ptr]
    IN  /\ InOrder(d)
        /\ n = 0 => ToSet(d) = ToSet(l.cells) \cup ToSet(r.cells)
        /\ n # 0 =>
              /\ Len(d) = m + 1 + Len(r.cells)
              /\ \A j \in 1..m : d[j] = l.cells[j]
              /\ d[m + 1] = b
              /\ \A j \in 1..Len(r.cells) : d[m + 1 + j] = r.cells[j]
              /\ ToSet(d) = ToSet(l.cells) \cup {b} \cup ToSet(r.cells)

\* The cells of a merge are that list.
LEMMA MergedList ==
    ASSUME NEW V, NEW W, NEW l \in PagesOf(V, W), NEW r \in PagesOf(V, W), l.kind # "Leaf" => V = W,
           NEW q, NEW i, NEW left, NEW sep \in Keys, SepAt(q, i, sep, left),
           NEW n, l.kind = "Leaf" <=> n = 0, Apart(l, r, sep, n # 0)
    PROVE  MergedAs(MergedCells(q, i, l, r), l, r, sep, n)
<1> DEFINE b == [key |-> sep, val |-> l.ptr]
           d == MergedCells(q, i, l, r)
           m == Len(l.cells)
           k == Len(r.cells)
           C == CellsOf(V)
<1>1. l.cells \in Lists(V) /\ r.cells \in Lists(V) /\ l.ptr \in W
  BY PageFacts
<1>2. /\ l.cells \in Seq(C) /\ InOrder(l.cells) /\ r.cells \in Seq(C) /\ InOrder(r.cells)
  BY <1>1 DEF Lists
<1>3. m \in Nat /\ k \in Nat /\ sep \in Int
  BY <1>1, ListFacts, Constants
<1>4. /\ \A j \in 1..m : l.cells[j].key \in Int /\ l.cells[j].key < sep
      /\ \A j \in 1..k : r.cells[j].key \in Int /\ sep <= r.cells[j].key /\ (n # 0 => sep < r.cells[j].key)
  <2>1. /\ KeysOf(l) = {l.cells[j].key : j \in 1..m} /\ KeysOf(r) = {r.cells[j].key : j \in 1..k}
    BY PageFacts
  <2>2. /\ \A x \in KeysOf(l) : x \in Int /\ x < sep
        /\ \A x \in KeysOf(r) : x \in Int /\ sep <= x /\ (n # 0 => sep < x)
    BY KeyInt DEF Apart
  <2> QED
    BY <2>1, <2>2
<1>5. \A j \in 1..m, h \in 1..k : l.cells[j].key < r.cells[h].key
  BY <1>3, <1>4
<1> HIDE DEF C, b
<1>6. ASSUME n = 0 PROVE InOrder(d) /\ ToSet(d) = ToSet(l.cells) \cup ToSet(r.cells)
  <2>1. d = l.cells \o <<>> \o r.cells
    BY <1>6 DEF MergedCells, PulledDown
  <2>2. l.cells \o <<>> = l.cells
    BY <1>2
  <2>3. d = l.cells \o r.cells
    BY <2>1, <2>2
  <2> HIDE DEF d
  <2>4. InOrder(d)
    BY <1>2, <1>5, <2>3, JoinedList
  <2>5. ToSet(d) = ToSet(l.cells) \cup ToSet(r.cells)
    BY <1>2, <2>3, JoinedSets
  <2> QED
    BY <2>4, <2>5
<1>7. ASSUME n # 0
      PROVE  /\ InOrder(d) /\ Len(d) = m + 1 + k
             /\ \A j \in 1..m : d[j] = l.cells[j]
             /\ d[m + 1] = b
             /\ \A j \in 1..k : d[m + 1 + j] = r.cells[j]
             /\ ToSet(d) = ToSet(l.cells) \cup {b} \cup ToSet(r.cells)
  <2> DEFINE s == <<b>>
             a == l.cells \o s
  <2>1. d = a \o r.cells
    <3>1. PulledDown(q, i, l) = <<[key |-> q.cells[i].key, val |-> l.ptr]>>
      BY <1>7 DEF PulledDown
    <3>2. q.cells[i].key = sep
      BY DEF SepAt
    <3> QED
      BY <3>1, <3>2 DEF MergedCells, b
  <2>2. b \in C /\ b.key = sep
    BY <1>1, <1>7 DEF C, CellsOf, b
  <2>3. s \in Seq(C) /\ Len(s) = 1 /\ s[1] = b /\ InOrder(s) /\ ToSet(s) = {b}
    BY <2>2 DEF InOrder, ToSet
  <2> HIDE DEF s
  <2>4. /\ a \in Seq(C) /\ Len(a) = m + Len(s)
        /\ \A j \in 1..m + Len(s) : a[j] = IF j <= m THEN l.cells[j] ELSE s[j - m]
        /\ InOrder(l.cells) /\ InOrder(s)
              /\ (\A j \in 1..m, h \in 1..Len(s) : l.cells[j].key < s[h].key) => InOrder(a)
    BY <1>2, <2>3, JoinedList
  <2>5. ToSet(a) = ToSet(l.cells) \cup {b}
    <3>1. ToSet(a) = ToSet(l.cells) \cup ToSet(s)
      BY <1>2, <2>3, JoinedSets
    <3> QED
      BY <2>3, <3>1
  <2>60. a \in Seq(C)
    BY <2>4
  <2> HIDE DEF a, d
  <2>6. ToSet(d) = ToSet(l.cells) \cup {b} \cup ToSet(r.cells)
    BY <1>2, <2>1, <2>60, <2>5, JoinedSets
  <2>7. /\ Len(a) = m + 1 /\ \A j \in 1..m : a[j] = l.cells[j]
        /\ a[m + 1] = b
    <3>1. Len(a) = m + 1 /\ \A j \in 1..m + 1 : a[j] = IF j <= m THEN l.cells[j] ELSE s[j - m]
      BY <2>3, <2>4
    <3> HIDE DEF m
    <3>2. \A j \in 1..m : j \in 1..m + 1 /\ j <= m
      BY <1>3
    <3>3. PICK j : j = m + 1
      OBVIOUS
    <3>4. j \in 1..m + 1 /\ ~(j <= m) /\ j - m = 1
      BY <1>3, <3>3
    <3>5. a[j] = b
      BY <2>3, <3>1, <3>4
    <3> QED
      BY <3>1, <3>2, <3>3, <3>5
  <2>8. InOrder(a)
    <3>1. \A h \in 1..Len(s) : s[h] = b
      BY <2>3
    <3>2. \A j \in 1..m, h \in 1..Len(s) : l.cells[j].key < s[h].key
      BY <1>4, <2>2, <3>1
    <3> QED
      BY <1>2, <2>3, <2>4, <3>2
  <2>9. \A j \in 1..Len(a), h \in 1..k : a[j].key < r.cells[h].key
    <3>1. \A j \in 1..m + 1 : j \in 1..m \/ j = m + 1
      BY <1>3
    <3>2. \A h \in 1..k : b.key < r.cells[h].key
      BY <1>4, <1>7, <2>2
    <3> QED
      BY <1>5, <2>7, <3>1, <3>2
  <2>10. /\ Len(d) = Len(a) + k
         /\ \A j \in 1..Len(a) + k : d[j] = IF j <= Len(a) THEN a[j] ELSE r.cells[j - Len(a)]
         /\ InOrder(a) /\ InOrder(r.cells) /\ (\A j \in 1..Len(a), h \in 1..k : a[j].key < r.cells[h].key) => InOrder(d)
    <3>1. PICK rr : rr = r.cells
      OBVIOUS
    <3>2. rr \in Seq(C)
      BY <1>2, <3>1
    <3>3. /\ Len(a \o rr) = Len(a) + Len(rr)
          /\ \A j \in 1..Len(a) + Len(rr) : (a \o rr)[j] = IF j <= Len(a) THEN a[j] ELSE rr[j - Len(a)]
          /\ InOrder(a) /\ InOrder(rr) /\ (\A j \in 1..Len(a), h \in 1..Len(rr) : a[j].key < rr[h].key) => InOrder(a \o rr)
      BY <2>60, <3>2, JoinedList
    <3> QED
      BY <2>1, <3>1, <3>3
  <2>11. InOrder(d)
    BY <1>2, <2>8, <2>9, <2>10
  <2> HIDE DEF m, k
  <2>12. PICK h : h = m + 1 /\ h \in Nat
    BY <1>3
  <2>13. Len(d) = h + k /\ \A j \in 1..h + k : d[j] = IF j <= h THEN a[j] ELSE r.cells[j - h]
    BY <2>7, <2>10, <2>12
  <2>14. \A j \in 1..m : d[j] = l.cells[j]
    <3>1. \A j \in 1..m : j \in 1..h + k /\ j <= h
      BY <1>3, <2>12
    <3> QED
      BY <2>7, <2>13, <3>1
  <2>15. d[h] = b
    <3>1. h \in 1..h + k /\ h <= h
      BY <1>3, <2>12
    <3> QED
      BY <2>7, <2>12, <2>13, <3>1
  <2>16. ASSUME NEW j \in 1..k PROVE d[h + j] = r.cells[j]
    <3>1. PICK g : g = h + j
      OBVIOUS
    <3>2. g \in 1..h + k /\ ~(g <= h) /\ g - h = j
      BY <1>3, <2>12, <3>1
    <3> QED
      BY <2>13, <3>1, <3>2
  <2>17. /\ Len(d) = m + 1 + k
         /\ \A j \in 1..k : d[m + 1 + j] = r.cells[j]
         /\ d[m + 1] = b
    BY <2>12, <2>13, <2>15, <2>16
  <2> QED
    BY <2>6, <2>11, <2>14, <2>17
<1>8. /\ InOrder(d)
      /\ n = 0 => ToSet(d) = ToSet(l.cells) \cup ToSet(r.cells)
      /\ n # 0 =>
            /\ Len(d) = m + 1 + k
            /\ \A j \in 1..m : d[j] = l.cells[j]
            /\ d[m + 1] = b
            /\ \A j \in 1..k : d[m + 1 + j] = r.cells[j]
            /\ ToSet(d) = ToSet(l.cells) \cup {b} \cup ToSet(r.cells)
  BY <1>6, <1>7
<1> HIDE DEF d
<1>9. MergedAs(d, l, r, sep, n)
  BY <1>8 DEF MergedAs, b
<1> QED
  BY <1>9 DEF d

\* A merge that succeeds makes one page of the two.
LEMMA MergedRejoined ==
    ASSUME NEW V, NEW W, NEW l \in PagesOf(V, W), NEW r \in PagesOf(V, W), l.kind # "Leaf" => V = W,
           NEW q, NEW i, NEW left, NEW sep \in Keys, SepAt(q, i, sep, left),
           NEW n, l.kind = "Leaf" <=> n = 0, Apart(l, r, sep, n # 0), Merged(q, i, l, r).ok, NEW r2
    PROVE  Rejoined(l, r, Merged(q, i, l, r).page, r2, sep, {}, n)
<1> DEFINE b == [key |-> sep, val |-> l.ptr]
           d == MergedCells(q, i, l, r)
           m == Len(l.cells)
           k == Len(r.cells)
           p == Merged(q, i, l, r).page
<1> HIDE DEF d
<1>0. MergedAs(d, l, r, sep, n)
  BY MergedList DEF d
<1>1. /\ InOrder(d)
      /\ n = 0 => ToSet(d) = ToSet(l.cells) \cup ToSet(r.cells)
      /\ n # 0 =>
            /\ Len(d) = m + 1 + k
            /\ \A j \in 1..m : d[j] = l.cells[j]
            /\ d[m + 1] = b
            /\ \A j \in 1..k : d[m + 1 + j] = r.cells[j]
            /\ ToSet(d) = ToSet(l.cells) \cup {b} \cup ToSet(r.cells)
  BY <1>0 DEF MergedAs
<1>2. /\ l.cells \in Lists(V) /\ r.cells \in Lists(V) /\ l.ptr \in W /\ r.ptr \in W
      /\ l.kind \in PageKind /\ l.root_leaf \in BOOLEAN
  BY PageFacts
<1>3. m \in Nat /\ k \in Nat /\ sep \in Int
  BY <1>2, ListFacts, Constants
<1>4. d \in Seq(CellsOf(V))
  <2>2. q.cells[i].key \in Keys
    BY DEF SepAt
  <2> QED
    BY <2>2, MergedTyped DEF d
<1>5. Rebuilt(l, l.kind, d, r.ptr, V, W, Merged(q, i, l, r))
  <2>1. Merged(q, i, l, r) = Rebuild(l, l.kind, d, r.ptr)
    BY DEF Merged, d
  <2> QED
    BY <1>2, <1>4, <2>1, RebuildIs
<1>6. p \in PagesOf(V, W) /\ p.cells = d /\ p.ptr = r.ptr
  BY <1>1, <1>5 DEF Rebuilt
<1> HIDE DEF p
<1>7. p.cells \in Lists(V)
  BY <1>6, PageFacts
<1>8. CASE n = 0
  <2>1. ToSet(p.cells) = ToSet(l.cells) \cup ToSet(r.cells)
    BY <1>1, <1>6, <1>8
  <2>2. \A x \in KeysOf(p) : OfBoth(l, r, sep, n, x)
    BY <2>1, KeysOfSet DEF OfBoth
  <2>3. Rejoined(l, r, p, r2, sep, {}, n)
    BY <1>8, <2>1, <2>2, RejoinedOne
  <2> QED
    BY <2>3 DEF p
<1>9. CASE n # 0
  <2> HIDE DEF b
  <2>1. b.key = sep /\ b.val = l.ptr
    BY DEF b
  <2>2. ToSet(p.cells) = ToSet(l.cells) \cup {b} \cup ToSet(r.cells)
    BY <1>1, <1>6, <1>9
  <2>3. \A x \in KeysOf(p) : OfBoth(l, r, sep, n, x)
    <3> TAKE x \in KeysOf(p)
    <3>1. PICK c \in ToSet(p.cells) : x = c.key
      BY KeysOfSet
    <3>2. c \in ToSet(l.cells) \/ c = b \/ c \in ToSet(r.cells)
      BY <2>2, <3>1
    <3> QED
      BY <1>9, <2>1, <3>1, <3>2, CellKey DEF OfBoth
  <2>4. /\ Len(p.cells) = m + 1 + k
        /\ \A j \in 1..m : p.cells[j] = l.cells[j]
        /\ p.cells[m + 1] = b
        /\ \A j \in 1..k : p.cells[m + 1 + j] = r.cells[j]
    BY <1>1, <1>6, <1>9
  <2>5. LeftPart(l, p, m)
    <3>1. \A j \in 1..m : l.cells[j] = p.cells[j]
      BY <2>4
    <3>2. m < Len(p.cells)
      <4>1. Len(p.cells) = m + 1 + k
        BY <2>4
      <4> HIDE DEF m, k
      <4> QED
        BY <1>3, <4>1
    <3>3. l.ptr = p.cells[m + 1].val
      BY <2>1, <2>4
    <3> QED
      BY <1>3, <3>1, <3>2, <3>3 DEF LeftPart
  <2>6. RightPart(r, p, m + 1)
    <3>1. \A j \in 1..k : r.cells[j] = p.cells[m + 1 + j]
      BY <2>4
    <3>2. m + 1 \in Nat /\ m + 1 >= 1
      BY <1>3
    <3> QED
      BY <1>6, <2>4, <3>1, <3>2 DEF RightPart
  <2>7. ASSUME NEW x \in Int PROVE Child(p, x) = IF x < sep THEN Child(l, x) ELSE Child(r, x)
    <3>1. p.cells[m + 1].key = sep
      BY <2>1, <2>4
    <3>2. x < sep => Child(l, x) = Child(p, x)
      <4> HIDE DEF m
      <4> QED
        BY <1>2, <1>7, <2>5, <3>1, PrefixChild
    <3>3. sep <= x => Child(r, x) = Child(p, x)
      <4>1. PICK h : h = m + 1
        OBVIOUS
      <4>2. RightPart(r, p, h) /\ p.cells[h].key = sep
        BY <2>6, <3>1, <4>1
      <4> QED
        BY <1>2, <1>7, <4>2, SuffixChild
    <3>4. ~(x < sep) => sep <= x
      BY <1>3
    <3> QED
      BY <3>2, <3>3, <3>4
  <2>8. Rejoined(l, r, p, r2, sep, {}, n)
    BY <1>9, <2>3, <2>7, RejoinedOne
  <2> QED
    BY <2>8 DEF p
<1> QED
  BY <1>8, <1>9

-----------------------------------------------------------------------------
(* Borrowing and merging keep routes. *)

\* What two neighbours are on the level n, and their parent.
Neighbours(P, lv, L, N, n, q, left, right, sep) ==
    LET V == Vals(lv, L, n)
        W == Ptrs(lv, L, n, Ids(N))
        X == Below(lv, L, n + 1)
    IN  /\ left # right /\ left # q /\ right # q /\ left \in L /\ right \in L /\ q \in L
        /\ lv[left] = n /\ lv[right] = n
        /\ P[left] \in PagesOf(V, W) /\ P[right] \in PagesOf(V, W)
        /\ P[left].kind = "Leaf" <=> n = 0
        /\ P[right].kind = "Leaf" <=> n = 0
        /\ n # 0 => V = W
        /\ Apart(P[left], P[right], sep, n # 0)
        /\ P[q] \in PagesOf(X, X) /\ left \in X /\ right \in X /\ sep \in Keys /\ sep \in Int

\* The children on the two sides of a separator are neighbours.
LEMMA NeighboursAre ==
    ASSUME NEW P, NEW N, NEW lv, NEW L, NEW root, Shape(P, N, lv, L, root),
           NEW at, Routes(P, lv[root], root, at), NEW u \in 1..lv[root], NEW q, NEW left, NEW right, NEW sep,
           Around(P, at, u, q, left, right, sep)
    PROVE  Neighbours(P, lv, L, N, u - 1, q, left, right, sep)
<1> DEFINE e == at[u - 1]
           V == Vals(lv, L, u - 1)
           W == Ptrs(lv, L, u - 1, Ids(N))
           X == Below(lv, L, u)
<1>1. /\ left # right /\ left \in L /\ right \in L
      /\ \A k \in Int : e[k] = left => k < sep
      /\ \A k \in Int : e[k] = right => sep <= k
  BY AroundFacts
<1>2. sep \in Int /\ sep - 1 \in Int /\ sep \in KeysOf(P[q]) /\ at[u][sep] = q /\ e[sep] = right /\ e[sep - 1] = left
  BY DEF Around
<1>3. u \in 0..lv[root] /\ u - 1 \in 0..lv[root] /\ u \in Nat /\ u # 0 /\ lv[root] \in Nat
  BY RouteLink
<1>4. q \in L /\ lv[q] = u
  BY <1>2, <1>3, RoutePage
<1>5. \A k \in Int : e[k] \in L /\ lv[e[k]] = u - 1
  BY <1>3, RoutePage
<1>6. ASSUME NEW k \in Int, NEW x \in KeysOf(P[e[k]]) PROVE x \in Int /\ x - 1 \in Int /\ e[x] = e[k] /\ (u - 1 # 0 => e[x - 1] = e[k])
  <2>1. u - 1 # 0 => e[x - 1] = e[k]
    <3>1. Own(P, u - 1, e)
      BY <1>3 DEF Routes
    <3> HIDE DEF e
    <3> QED
      BY <1>6, <3>1 DEF Own
  <2>2. x \in Int /\ e[x] = e[k]
    BY <1>3, <1>6, RouteKeys
  <2> HIDE DEF e
  <2> QED
    BY <2>1, <2>2
<1> HIDE DEF e
<1>7. lv[left] = u - 1 /\ lv[right] = u - 1
  BY <1>2, <1>5
<1>8. left # root /\ right # root /\ left # q /\ right # q
  <2>1. u - 1 # lv[root] /\ u - 1 # u
    BY <1>3
  <2> QED
    BY <1>4, <1>7, <2>1
<1>9. /\ P[left] \in PagesOf(V, W) /\ (P[left].kind = "Leaf" <=> u - 1 = 0)
      /\ (P[left].kind # "Leaf" => V = W)
  BY <1>1, <1>7, <1>8, InnerPage
<1>10. /\ P[right] \in PagesOf(V, W) /\ (P[right].kind = "Leaf" <=> u - 1 = 0)
       /\ (P[right].kind # "Leaf" => V = W)
  BY <1>1, <1>7, <1>8, InnerPage
<1> HIDE DEF V, W
<1>11. Apart(P[left], P[right], sep, u - 1 # 0)
  <2>1. \A x \in KeysOf(P[left]) : x < sep
    BY <1>1, <1>2, <1>6
  <2>2. ASSUME NEW x \in KeysOf(P[right]) PROVE sep <= x /\ (u - 1 # 0 => sep < x)
    <3>1. x \in Int /\ x - 1 \in Int /\ e[x] = right /\ (u - 1 # 0 => e[x - 1] = right)
      BY <1>2, <1>6
    <3>2. sep <= x /\ (u - 1 # 0 => sep <= x - 1)
      BY <1>1, <3>1
    <3>3. sep <= x - 1 => sep < x
      BY <1>2, <3>1
    <3> QED
      BY <3>2, <3>3
  <2> QED
    BY <2>1, <2>2 DEF Apart
<1>12. P[q] \in PagesOf(X, X)
  <2>1. lv[q] # 0
    BY <1>3, <1>4
  <2> QED
    BY <1>4, <2>1, ParentPage
<1>13. left \in X /\ right \in X
  BY <1>1, <1>7 DEF Below
<1>14. sep \in Keys
  BY <1>2, <1>12, PageFacts
<1>15. u - 1 + 1 = u
  BY <1>3
<1> QED
  BY <1>1, <1>2, <1>4, <1>7, <1>8, <1>9, <1>10, <1>11, <1>12, <1>13, <1>14, <1>15 DEF Neighbours, V, W

\* The three pages of a borrowing, when they differ.
HasThree(Q, P, L, i, a, j, b, k, c) ==
    /\ Q[i] = a /\ Q[j] = b /\ Q[k] = c
    /\ \A x \in L : x \notin {i, j, k} => Q[x] = P[x]

\* So are three pages written one after the other.
LEMMA ThreeWrites ==
    ASSUME NEW P, NEW L, L \subseteq DOMAIN P, NEW i \in L, NEW a, NEW j \in L, NEW b, NEW k \in L, NEW c,
           i # j, i # k, j # k
    PROVE  HasThree(Three(P, i, a, j, b, k, c), P, L, i, a, j, b, k, c)
  BY DEF HasThree, Three, With

\* A page of two cells has one left when it lends one.
LEMMA LessThanFull ==
    ASSUME NEW V, NEW W, NEW p \in PagesOf(V, W), NEW q \in PagesOf(V, W), NEW c, PutLast(q, c, p), Len(p.cells) >= 2
    PROVE  KeysOf(q) # {}
<1>1. Len(q.cells) \in Nat /\ KeysOf(q) = {q.cells[i].key : i \in 1..Len(q.cells)}
  BY PageFacts, ListFacts
<1>2. 1 \in 1..Len(q.cells)
  BY <1>1 DEF PutLast
<1> QED
  BY <1>1, <1>2

\* The page on the right of the separator sep of page q takes a cell from that on the left,
\* or the one on the left from that on the right.
BorrowsLeft(P, Q, q, left, right, i, sep) ==
    /\ SepAt(P[q], i, sep, left) /\ Len(P[left].cells) >= 2 /\ Small(P[right])
    /\ Q = Three(P, left, LentLeft(P[right], P[left]), right, TookLeft(P[right], P[left], sep), q,
                 Reseparate(P[q], i, SepLeft(P[right], P[left], sep), left).page)
BorrowsRight(P, Q, q, left, right, i, sep) ==
    /\ SepAt(P[q], i, sep, left) /\ Len(P[right].cells) >= 2 /\ Small(P[left])
    /\ Q = Three(P, right, LentRight(P[right]), left, TookRight(P[left], P[right], sep), q,
                 Reseparate(P[q], i, SepRight(P[left], P[right]), left).page)

\* Borrowing from the left keeps routes and entries.
LEMMA BorrowLeftRoutes ==
    ASSUME NEW P, NEW N, NEW lv, NEW L, NEW root, Shape(P, N, lv, L, root),
           NEW at, Routes(P, lv[root], root, at), NEW u \in 1..lv[root], NEW q, NEW left, NEW right, NEW sep,
           Around(P, at, u, q, left, right, sep), NEW i, NEW Q, BorrowsLeft(P, Q, q, left, right, i, sep)
    PROVE  \E b : Routes(Q, lv[root], root, b) /\ SameEntries(P, at[0], Q, b[0])
<1> SUFFICES ASSUME SepAt(P[q], i, sep, left),
                    NEW l, l = P[left], NEW p, p = P[right], Len(l.cells) >= 2, Small(p),
                    Q = Three(P, left, LentLeft(p, l), right, TookLeft(p, l, sep), q,
                              Reseparate(P[q], i, SepLeft(p, l, sep), left).page)
             PROVE  \E b : Routes(Q, lv[root], root, b) /\ SameEntries(P, at[0], Q, b[0])
  BY DEF BorrowsLeft
<1> DEFINE n == u - 1
           V == Vals(lv, L, n)
           W == Ptrs(lv, L, n, Ids(N))
           X == Below(lv, L, n + 1)
           l2 == LentLeft(p, l)
           p2 == TookLeft(p, l, sep)
           t == SepLeft(p, l, sep)
           q2 == Reseparate(P[q], i, t, left).page
<1>1. /\ left # right /\ left # q /\ right # q /\ left \in L /\ right \in L /\ q \in L
      /\ l \in PagesOf(V, W) /\ p \in PagesOf(V, W)
      /\ (p.kind # "Leaf" <=> n # 0)
      /\ (n # 0 => V = W)
      /\ Apart(l, p, sep, n # 0)
      /\ P[q] \in PagesOf(X, X) /\ left \in X /\ sep \in Keys /\ sep \in Int
  <2>1. Neighbours(P, lv, L, N, n, q, left, right, sep)
    BY NeighboursAre
  <2> QED
    BY <2>1 DEF Neighbours
<1> HIDE DEF n, V, W, X
<1>2. Len(l.cells) >= 1
  <2>1. Len(l.cells) \in Nat
    BY <1>1, PageFacts, ListFacts
  <2> QED
    BY <2>1
<1>3. p.kind # "Leaf" => V = W
  BY <1>1
<1>4. Apart(l, p, sep, p.kind # "Leaf")
  BY <1>1 DEF Apart
<1>5. l2 \in PagesOf(V, W) /\ p2 \in PagesOf(V, W) /\ t \in Keys
  BY <1>1, <1>2, <1>3, LeftTyped
<1>6. LentFromLeft(l, p, l2, p2, sep, t, p.kind # "Leaf")
  BY <1>1, <1>2, <1>3, <1>4, LentLeftIs
<1> HIDE DEF l2, p2, t
<1>7. LentFromLeft(l, p, l2, p2, sep, t, n # 0)
  BY <1>1, <1>6 DEF LentFromLeft
<1>8. KeysOf(l2) # {}
  BY <1>1, <1>5, <1>7, LessThanFull DEF LentFromLeft
<1>9. /\ Rejoined(l, p, l2, p2, sep, {t}, n)
      /\ t \in KeysOf(l) /\ \E x \in KeysOf(l) : x < t
  <2>1. LeftLoan(V, W, l, p, l2, p2, sep, t, n)
    BY <1>1, <1>5, <1>7, <1>8 DEF LeftLoan
  <2> HIDE DEF n
  <2> QED
    BY <2>1, LeftRejoined
<1>10. Wedge(P, left, right, t)
  BY <1>9 DEF Wedge
<1>11. Reseparated(P[q], q2, left, sep, t)
  <2>1. Fits(P[q], at[u - 1], left, right, sep, t)
    BY <1>10, WedgeFits
  <2> QED
    BY <1>1, <1>5, <2>1, ReseparateIs
<1> HIDE DEF q2
<1>12. Reparents(P[q], q2, at[u], q, left, right, sep, {t})
  BY <1>5, <1>10, <1>11, ReparentsAnew
<1>13. Q[left] = l2 /\ Q[right] = p2 /\ Q[q] = q2 /\ \A x \in L : x \notin {left, right, q} => Q[x] = P[x]
  <2>1. Q = Three(P, left, l2, right, p2, q, q2)
    BY DEF l2, p2, t, q2
  <2>2. L \subseteq DOMAIN P
    BY ShapeFacts
  <2>3. HasThree(Q, P, L, left, l2, right, p2, q, q2)
    BY <1>1, <2>1, <2>2, ThreeWrites
  <2> QED
    BY <2>3 DEF HasThree
<1>14. Rejoins(P, Q, at, L, u, q, left, right, sep, {t})
  BY <1>9, <1>12, <1>13 DEF Rejoins, n
<1> QED
  BY <1>14, SiblingRoutes

\* Borrowing from the right.
LEMMA BorrowRightRoutes ==
    ASSUME NEW P, NEW N, NEW lv, NEW L, NEW root, Shape(P, N, lv, L, root),
           NEW at, Routes(P, lv[root], root, at), NEW u \in 1..lv[root], NEW q, NEW left, NEW right, NEW sep,
           Around(P, at, u, q, left, right, sep), NEW i, NEW Q, BorrowsRight(P, Q, q, left, right, i, sep)
    PROVE  \E b : Routes(Q, lv[root], root, b) /\ SameEntries(P, at[0], Q, b[0])
<1> SUFFICES ASSUME SepAt(P[q], i, sep, left),
                    NEW p, p = P[left], NEW r, r = P[right], Len(r.cells) >= 2, Small(p),
                    Q = Three(P, right, LentRight(r), left, TookRight(p, r, sep), q,
                              Reseparate(P[q], i, SepRight(p, r), left).page)
             PROVE  \E b : Routes(Q, lv[root], root, b) /\ SameEntries(P, at[0], Q, b[0])
  BY DEF BorrowsRight
<1> DEFINE n == u - 1
           V == Vals(lv, L, n)
           W == Ptrs(lv, L, n, Ids(N))
           X == Below(lv, L, n + 1)
           r2 == LentRight(r)
           p2 == TookRight(p, r, sep)
           t == SepRight(p, r)
           q2 == Reseparate(P[q], i, t, left).page
<1>1. /\ left # right /\ left # q /\ right # q /\ left \in L /\ right \in L /\ q \in L
      /\ r \in PagesOf(V, W) /\ p \in PagesOf(V, W)
      /\ (p.kind # "Leaf" <=> n # 0)
      /\ (n # 0 => V = W)
      /\ Apart(p, r, sep, n # 0)
      /\ P[q] \in PagesOf(X, X) /\ left \in X /\ sep \in Keys /\ sep \in Int
  <2>1. Neighbours(P, lv, L, N, n, q, left, right, sep)
    BY NeighboursAre
  <2> QED
    BY <2>1 DEF Neighbours
<1> HIDE DEF n, V, W, X
<1>3. p.kind # "Leaf" => V = W
  BY <1>1
<1>4. Apart(p, r, sep, p.kind # "Leaf")
  BY <1>1 DEF Apart
<1>5. r2 \in PagesOf(V, W) /\ p2 \in PagesOf(V, W) /\ t \in Keys
  BY <1>1, <1>3, RightTyped
<1>6. LentFromRight(p, r, p2, r2, sep, t, p.kind # "Leaf")
  BY <1>1, <1>3, <1>4, LentRightIs
<1> HIDE DEF r2, p2, t
<1>7. LentFromRight(p, r, p2, r2, sep, t, n # 0)
  BY <1>1, <1>6 DEF LentFromRight
<1>9. Rejoined(p, r, p2, r2, sep, {t}, n) /\ t \in KeysOf(r)
  <2>1. RightLoan(V, W, p, r, p2, r2, sep, t, n)
    BY <1>1, <1>5, <1>7 DEF RightLoan
  <2> QED
    BY <2>1, RightRejoined
<1>10. Wedge(P, left, right, t)
  BY <1>9 DEF Wedge
<1>11. Reseparated(P[q], q2, left, sep, t)
  <2>1. Fits(P[q], at[u - 1], left, right, sep, t)
    BY <1>10, WedgeFits
  <2> QED
    BY <1>1, <1>5, <2>1, ReseparateIs
<1> HIDE DEF q2
<1>12. Reparents(P[q], q2, at[u], q, left, right, sep, {t})
  BY <1>5, <1>10, <1>11, ReparentsAnew
<1>13. Q[left] = p2 /\ Q[right] = r2 /\ Q[q] = q2 /\ \A x \in L : x \notin {left, right, q} => Q[x] = P[x]
  <2>1. Q = Three(P, right, r2, left, p2, q, q2)
    BY DEF r2, p2, t, q2
  <2>2. L \subseteq DOMAIN P
    BY ShapeFacts
  <2>3. HasThree(Q, P, L, right, r2, left, p2, q, q2)
    BY <1>1, <2>1, <2>2, ThreeWrites
  <2> QED
    BY <2>3 DEF HasThree
<1>14. Rejoins(P, Q, at, L, u, q, left, right, sep, {t})
  BY <1>9, <1>12, <1>13 DEF Rejoins, n
<1> QED
  BY <1>14, SiblingRoutes

\* Merging.
LEMMA MergeRoutes ==
    ASSUME NEW P, NEW N, NEW lv, NEW L, NEW root, Shape(P, N, lv, L, root),
           NEW at, Routes(P, lv[root], root, at), NEW u \in 1..lv[root], NEW q, NEW left, NEW right, NEW sep,
           Around(P, at, u, q, left, right, sep), NEW i, SepAt(P[q], i, sep, left),
           Merged(P[q], i, P[left], P[right]).ok
    PROVE  \E b : /\ Routes(MergePages(P, q, left, right, i), lv[root], root, b)
                  /\ SameEntries(P, at[0], MergePages(P, q, left, right, i), b[0])
<1> DEFINE n == u - 1
           V == Vals(lv, L, n)
           W == Ptrs(lv, L, n, Ids(N))
           X == Below(lv, L, n + 1)
           l == P[left]
           r == P[right]
           l2 == Merged(P[q], i, l, r).page
           q2 == WithoutSlot(P[q], i, right, left)
           Q == MergePages(P, q, left, right, i)
<1>1. /\ left # right /\ left # q /\ right # q /\ left \in L /\ right \in L /\ q \in L
      /\ l \in PagesOf(V, W) /\ r \in PagesOf(V, W)
      /\ (l.kind = "Leaf" <=> n = 0)
      /\ (n # 0 => V = W)
      /\ Apart(l, r, sep, n # 0)
      /\ sep \in Keys
  <2>1. Neighbours(P, lv, L, N, n, q, left, right, sep)
    BY NeighboursAre
  <2> QED
    BY <2>1 DEF Neighbours
<1> HIDE DEF n, V, W, X
<1>2. l.kind # "Leaf" => V = W
  BY <1>1
<1>3. Rejoined(l, r, l2, r, sep, {}, n)
  <2> HIDE DEF l, r
  <2>1. Merged(P[q], i, l, r).ok
    BY DEF l, r
  <2> QED
    BY <1>1, <1>2, <2>1, MergedRejoined
<1>4. Reparents(P[q], q2, at[u], q, left, right, sep, {})
  BY ReparentsOne
<1>5. Q[left] = l2 /\ Q[right] = r /\ Q[q] = q2 /\ \A x \in L : x \notin {left, right, q} => Q[x] = P[x]
  <2>1. L \subseteq DOMAIN P
    BY ShapeFacts
  <2> HIDE DEF l2, q2
  <2>2. Q = With(With(P, left, l2), q, q2)
    BY DEF MergePages, l2, q2
  <2> HIDE DEF Q
  <2> QED
    BY <1>1, <2>1, <2>2 DEF With
<1> HIDE DEF l2, q2, Q
<1>6. Rejoins(P, Q, at, L, u, q, left, right, sep, {})
  BY <1>3, <1>4, <1>5 DEF Rejoins, n
<1>7. \E b : Routes(Q, lv[root], root, b) /\ SameEntries(P, at[0], Q, b[0])
  BY <1>6, SiblingRoutes
<1> QED
  BY <1>7 DEF Q

\* The separator on the left of a page in its parent w, and that on its right.
LEMMA SepsBeside ==
    ASSUME NEW w, Len(w.cells) \in Nat, NEW id, NEW s, Beside(w, id, s)
    PROVE  /\ s.left # -1 => SepAt(w, s.idx - 1, w.cells[s.idx - 1].key, s.left) /\ Kid(w, s.idx - 1 + 1) = id
           /\ s.right # -1 => SepAt(w, s.idx, w.cells[s.idx].key, id) /\ Kid(w, s.idx + 1) = s.right
<1>1. /\ s.idx \in 1..Len(w.cells) + 1 /\ Kid(w, s.idx) = id
      /\ s.left # -1 => s.idx > 1 /\ s.left = Kid(w, s.idx - 1)
      /\ s.right # -1 => s.idx <= Len(w.cells) /\ s.right = Kid(w, s.idx + 1)
  BY DEF Beside
<1>2. s.idx - 1 + 1 = s.idx
  BY <1>1
<1>3. s.idx > 1 => s.idx - 1 \in 1..Len(w.cells) /\ Kid(w, s.idx - 1) = w.cells[s.idx - 1].val
  BY <1>1 DEF Kid
<1>4. s.idx <= Len(w.cells) => s.idx \in 1..Len(w.cells) /\ Kid(w, s.idx) = w.cells[s.idx].val
  BY <1>1 DEF Kid
<1> QED
  BY <1>1, <1>2, <1>3, <1>4 DEF SepAt

\* The parent of an underfull page is a page to which a key leads.
LEMMA ParentRouted ==
    ASSUME NEW N, NEW lv, NEW L, TreeTyped(N, lv, L), op.pc = "underfull", NEW parent, parent = Last(op.trail),
           NEW at, Routes(pages, lv[root_id], root_id, at)
    PROVE  lv[parent] \in 1..lv[root_id] /\ \E m \in Int : at[lv[parent]][m] = parent
<1> DEFINE s == Siblings(pages[parent], op.id)
<1>1. /\ Shape(pages, N, lv, L, root_id) /\ Trail(pages, lv, L, root_id, op.trail)
      /\ lv[parent] \in Nat /\ lv[parent] # 0
  BY Family
<1>2. \E m \in Int : at[lv[parent]][m] = parent
  BY <1>1, TrailRouted
<1>3. Len(op.trail) \in Nat /\ Len(op.trail) >= 1 /\ lv[parent] = lv[root_id] + 1 - Len(op.trail)
  BY <1>1, TrailFacts
<1>4. lv[root_id] \in Nat
  BY DEF Routes
<1>5. lv[parent] <= lv[root_id]
  BY <1>1, <1>3, <1>4
<1> QED
  BY <1>1, <1>2, <1>4, <1>5

\* A page that can lend has two cells.
LEMMA LendsTwo ==
    ASSUME NEW V, NEW W, NEW p \in PagesOf(V, W), Len(p.cells) > DEGREE
    PROVE  Len(p.cells) >= 2
<1>1. Len(p.cells) \in Nat
  BY PageFacts, ListFacts
<1>2. DEGREE \in Nat /\ DEGREE >= 2
  BY Constants
<1> QED
  BY <1>1, <1>2

\* Nothing changed keeps entries.
LEMMA SameEntriesNone ==
    ASSUME NEW P, NEW e
    PROVE  SameEntries(P, e, P, e)
  BY DEF SameEntries

\* handle_underfull's borrowings keep routes and entries.
KeepsRoutes(P, Q, h, root, at) == \E b : Routes(Q, h, root, b) /\ SameEntries(P, at[0], Q, b[0])

\* A borrowing that fails leaves the pages as they are.
LEMMA BorrowedCleanly ==
    ASSUME FailsClean, NEW left, NEW lent, NEW short, NEW id, NEW took, NEW parent, NEW rep,
           Borrowed(left, lent, short, id, took, parent, rep)
    PROVE  \/ pages' = Three(pages, left, lent, id, took, parent, rep) /\ op' = Idle
           \/ pages' = pages /\ op' = Idle
<1>1. Answer(op.req, "error") => op' = Idle /\ pages' = pages
  BY DEF Answer, FailsClean
<1>2. Answer(op.req, "ok") => op' = Idle
  BY DEF Answer
<1> QED
  BY <1>1, <1>2 DEF Borrowed

\* Borrowing from the left, as a step.
LEMMA RoutedBorrowLeft ==
    ASSUME NEW N, NEW lv, NEW L, TreeTyped(N, lv, L), op.pc = "underfull", NEW parent, parent = Last(op.trail),
           NEW s, s = Siblings(pages[parent], op.id), RedistributeFromLeft(parent, s),
           NEW at, Routes(pages, lv[root_id], root_id, at), Small(pages[op.id]), FailsClean
    PROVE  KeepsRoutes(pages, pages', lv[root_id], root_id, at) /\ op' = Idle
<1> DEFINE P == pages
           root == root_id
           id == op.id
           Q == pages'
           u == lv[parent]
           i == s.idx - 1
           w == P[parent]
           sep == w.cells[i].key
           l == P[s.left]
           p == P[id]
<1>1. Shape(P, N, lv, L, root) /\ Beside(w, id, s) /\ parent \in L /\ u # 0
  BY Family
<1> DEFINE Writes == Q = Three(P, s.left, LentLeft(p, l), id, TookLeft(p, l, sep), parent,
                               Reseparate(w, i, SepLeft(p, l, sep), s.left).page)
<1>2. /\ s.left # -1 /\ Len(l.cells) > DEGREE
      /\ Writes \/ Q = P
      /\ op' = Idle
  <2>1. /\ s.left # -1 /\ Len(l.cells) > DEGREE
        /\ Borrowed(s.left, LentLeft(p, l), RemoveCellAt(l, Len(l.cells)), id, TookLeft(p, l, sep),
                    parent, Reseparate(w, i, SepLeft(p, l, sep), s.left).page)
    BY BorrowLeftIs
  <2> DEFINE lent == LentLeft(p, l)
             short == RemoveCellAt(l, Len(l.cells))
             took == TookLeft(p, l, sep)
             rep == Reseparate(w, i, SepLeft(p, l, sep), s.left).page
  <2> HIDE DEF lent, short, took, rep
  <2>2. Borrowed(s.left, lent, short, id, took, parent, rep)
    BY <2>1 DEF lent, short, took, rep
  <2>3. /\ pages' = Three(pages, s.left, lent, id, took, parent, rep) \/ pages' = pages
        /\ op' = Idle
    BY <2>2, BorrowedCleanly
  <2> QED
    BY <2>1, <2>3 DEF lent, took, rep
<1>3. u \in 1..lv[root] /\ \E m \in Int : at[u][m] = parent
  BY ParentRouted
<1>4. Routes(P, lv[root], root, at) /\ Small(p)
  OBVIOUS
<1>5. s.left \in L /\ s.left # root
  BY <1>2, Family
<1> HIDE DEF P, root, id, Q, u
<1>6. Len(w.cells) \in Nat
  BY <1>1, ParentPage DEF u
<1>7. SepAt(w, i, sep, s.left) /\ Kid(w, i + 1) = id
  BY <1>1, <1>2, <1>6, SepsBeside
<1>8. Around(P, at, u, parent, s.left, id, sep)
  <2>1. PICK m \in Int : at[u][m] = parent
    BY <1>3
  <2>2. Around(P, at, u, parent, s.left, Kid(w, i + 1), sep)
    BY <1>1, <1>3, <1>4, <1>7, <2>1, AroundIs
  <2> QED
    BY <1>7, <2>2
<1>9. Len(l.cells) >= 2
  <2>1. l \in PagesOf(Vals(lv, L, lv[s.left]), Ptrs(lv, L, lv[s.left], Ids(N)))
    BY <1>1, <1>5, InnerPage
  <2> QED
    BY <1>2, <2>1, LendsTwo
<1> HIDE DEF Writes
<1>10. CASE Writes
  <2>1. BorrowsLeft(P, Q, parent, s.left, id, i, sep)
    BY <1>4, <1>7, <1>9, <1>10 DEF BorrowsLeft, Writes
  <2> HIDE DEF i, sep, l, p, w
  <2>2. \E b : Routes(Q, lv[root], root, b) /\ SameEntries(P, at[0], Q, b[0])
    BY <1>1, <1>3, <1>4, <1>8, <2>1, BorrowLeftRoutes
  <2>3. op' = Idle
    BY <1>2
  <2> QED
    BY <2>2, <2>3 DEF KeepsRoutes, P, Q, root
<1>11. CASE Q = P
  <2>1. SameEntries(P, at[0], Q, at[0])
    BY <1>11, SameEntriesNone
  <2>2. Routes(Q, lv[root], root, at)
    BY <1>4, <1>11
  <2>3. op' = Idle
    BY <1>2
  <2> QED
    BY <2>1, <2>2, <2>3 DEF KeepsRoutes, P, Q, root
<1> QED
  BY <1>2, <1>10, <1>11

\* Borrowing from the right, as a step.
LEMMA RoutedBorrowRight ==
    ASSUME NEW N, NEW lv, NEW L, TreeTyped(N, lv, L), op.pc = "underfull", NEW parent, parent = Last(op.trail),
           NEW s, s = Siblings(pages[parent], op.id), RedistributeFromRight(parent, s),
           NEW at, Routes(pages, lv[root_id], root_id, at), Small(pages[op.id]), FailsClean
    PROVE  KeepsRoutes(pages, pages', lv[root_id], root_id, at) /\ op' = Idle
<1> DEFINE P == pages
           root == root_id
           id == op.id
           Q == pages'
           u == lv[parent]
           i == s.idx
           w == P[parent]
           sep == w.cells[i].key
           r == P[s.right]
           p == P[id]
<1>1. Shape(P, N, lv, L, root) /\ Beside(w, id, s) /\ parent \in L /\ u # 0
  BY Family
<1> DEFINE Writes == Q = Three(P, s.right, LentRight(r), id, TookRight(p, r, sep), parent,
                               Reseparate(w, i, SepRight(p, r), id).page)
<1>2. /\ s.right # -1 /\ Len(r.cells) > DEGREE
      /\ Writes \/ Q = P
      /\ op' = Idle
  <2>1. /\ s.right # -1 /\ Len(r.cells) > DEGREE
        /\ Borrowed(s.right, LentRight(r), LentRight(r), id, TookRight(p, r, sep),
                    parent, Reseparate(w, i, SepRight(p, r), id).page)
    BY BorrowRightIs
  <2> QED
    BY <2>1, BorrowedCleanly
<1>3. u \in 1..lv[root] /\ \E m \in Int : at[u][m] = parent
  BY ParentRouted
<1>4. Routes(P, lv[root], root, at) /\ Small(p)
  OBVIOUS
<1>5. s.right \in L /\ s.right # root
  BY <1>2, Family
<1> HIDE DEF P, root, id, Q, u
<1>6. Len(w.cells) \in Nat
  BY <1>1, ParentPage DEF u
<1>7. SepAt(w, i, sep, id) /\ Kid(w, i + 1) = s.right
  BY <1>1, <1>2, <1>6, SepsBeside
<1>8. Around(P, at, u, parent, id, s.right, sep)
  <2>1. PICK m \in Int : at[u][m] = parent
    BY <1>3
  <2>2. Around(P, at, u, parent, id, Kid(w, i + 1), sep)
    BY <1>1, <1>3, <1>4, <1>7, <2>1, AroundIs
  <2> QED
    BY <1>7, <2>2
<1>9. Len(r.cells) >= 2
  <2>1. r \in PagesOf(Vals(lv, L, lv[s.right]), Ptrs(lv, L, lv[s.right], Ids(N)))
    BY <1>1, <1>5, InnerPage
  <2> QED
    BY <1>2, <2>1, LendsTwo
<1> HIDE DEF Writes
<1>10. CASE Writes
  <2>1. BorrowsRight(P, Q, parent, id, s.right, i, sep)
    BY <1>4, <1>7, <1>9, <1>10 DEF BorrowsRight, Writes
  <2> HIDE DEF i, sep, r, p, w
  <2>2. \E b : Routes(Q, lv[root], root, b) /\ SameEntries(P, at[0], Q, b[0])
    BY <1>1, <1>3, <1>4, <1>8, <2>1, BorrowRightRoutes
  <2>3. op' = Idle
    BY <1>2
  <2> QED
    BY <2>2, <2>3 DEF KeepsRoutes, P, Q, root
<1>11. CASE Q = P
  <2>1. SameEntries(P, at[0], Q, at[0])
    BY <1>11, SameEntriesNone
  <2>2. Routes(Q, lv[root], root, at)
    BY <1>4, <1>11
  <2>3. op' = Idle
    BY <1>2
  <2> QED
    BY <2>1, <2>2, <2>3 DEF KeepsRoutes, P, Q, root
<1> QED
  BY <1>2, <1>10, <1>11

-----------------------------------------------------------------------------
(* The root's collapse. *)

\* Entries kept twice are kept.
LEMMA SameEntriesThen ==
    ASSUME NEW P, NEW e, NEW Q, NEW f, NEW R, NEW g, SameEntries(P, e, Q, f), SameEntries(Q, f, R, g)
    PROVE  SameEntries(P, e, R, g)
  BY DEF SameEntries

\* Q differs from P in the kinds of pages only.
SameCells(P, Q, L) == \A i \in L : Q[i].cells = P[i].cells /\ Q[i].ptr = P[i].ptr

\* Routes are those of the cells and the pointers of the pages, and those below a level h on which
\* all keys lead to one page are routes too.
LEMMA AlikeRoutes ==
    ASSUME NEW P, NEW N, NEW lv, NEW L, NEW root, Shape(P, N, lv, L, root),
           NEW at, Routes(P, lv[root], root, at), NEW Q, SameCells(P, Q, L), NEW h \in 0..lv[root], NEW top, \A k \in Int : at[h][k] = top
    PROVE  Routes(Q, h, top, at) /\ SameEntries(P, at[0], Q, at[0])
<1>1. ASSUME NEW n \in 0..lv[root], NEW k \in Int PROVE at[n][k] \in L
  BY RouteLevels
<1>2. \A i \in L : KeysOf(Q[i]) = KeysOf(P[i])
  BY DEF KeysOf, SameCells
<1>3. ASSUME NEW i \in L, NEW k \in Int PROVE Child(Q[i], k) = Child(P[i], k)
  BY <1>2 DEF Child, SameCells
<1>4. ASSUME NEW i \in L, NEW k \in Int, NEW m \in Int PROVE SameSlot(Q[i], k, m) <=> SameSlot(P[i], k, m)
  BY <1>2 DEF SameSlot
<1>5. lv[root] \in Nat /\ h \in Nat /\ h <= lv[root]
  BY DEF Routes
<1>6. at \in [Nat -> [Int -> Nat]]
  BY DEF Routes
<1>7. ASSUME NEW n \in 0..h PROVE Own(Q, n, at[n])
  <2>1. n \in 0..lv[root]
    BY <1>5
  <2>2. Own(P, n, at[n])
    BY <2>1 DEF Routes
  <2>3. \A k \in Int : KeysOf(Q[at[n][k]]) = KeysOf(P[at[n][k]])
    BY <1>1, <1>2, <2>1
  <2> QED
    BY <2>2, <2>3 DEF Own
<1>8. ASSUME NEW n \in 1..h PROVE Link(Q, at[n], at[n - 1])
  <2>1. n \in 0..lv[root] /\ n \in 1..lv[root]
    BY <1>5
  <2>2. Link(P, at[n], at[n - 1])
    BY <2>1 DEF Routes
  <2>3. \A k \in Int : at[n][k] \in L
    BY <1>1, <2>1
  <2> QED
    BY <1>3, <1>4, <2>2, <2>3 DEF Link
<1>9. Routes(Q, h, top, at)
  BY <1>5, <1>6, <1>7, <1>8 DEF Routes
<1>10. SameEntries(P, at[0], Q, at[0])
  <2>1. 0 \in 0..lv[root]
    BY <1>5
  <2>2. \A k \in Int : Q[at[0][k]].cells = P[at[0][k]].cells
    BY <1>1, <2>1 DEF SameCells
  <2> QED
    BY <2>2 DEF SameEntries
<1> QED
  BY <1>9, <1>10

\* A root without separators gives way to its only child.
Bare(p) == p.cells = <<>>
\* The root then.
Collapsed(P, heir) == With(P, heir, SetPageKind(P[heir], "Root"))

\* The root's collapse keeps the routes of the levels below it.
LEMMA CollapseRoutes ==
    ASSUME NEW P, NEW N, NEW lv, NEW L, NEW root, Shape(P, N, lv, L, root),
           NEW at, Routes(P, lv[root], root, at), lv[root] # 0, Bare(P[root]), NEW heir, heir = P[root].ptr
    PROVE  /\ Routes(Collapsed(P, heir), lv[heir], heir, at)
           /\ SameEntries(P, at[0], Collapsed(P, heir), at[0])
<1> DEFINE h == lv[root]
           Q == Collapsed(P, heir)
<1>1. h \in Nat /\ h - 1 \in 0..h /\ h - 1 \in 0..lv[root] /\ h \in 1..lv[root]
  <2>1. h \in Nat
    BY DEF Routes
  <2> QED
    BY <2>1
<1>2. \A k \in Int : at[h][k] = root
  BY DEF Routes
<1>3. \A k \in Int : at[h - 1][k] = Child(P[root], k)
  <2>1. \A k \in Int : at[h - 1][k] = Child(P[at[h][k]], k)
    BY <1>1, RouteLink
  <2> QED
    BY <1>2, <2>1
<1>4. \A k \in Int : Child(P[root], k) = heir
  <2>1. KeysOf(P[root]) = {} /\ Len(P[root].cells) = 0
    BY DEF KeysOf, Bare
  <2>2. ASSUME NEW k \in Int PROVE {x \in KeysOf(P[root]) : x <= k} = {}
    BY <2>1
  <2>3. Cardinality({}) = 0
    BY FS_EmptySet
  <2> QED
    BY <2>1, <2>2, <2>3 DEF Child
<1>5. \A k \in Int : at[h - 1][k] = heir
  BY <1>3, <1>4
<1>6. heir \in L /\ lv[heir] = h - 1
  <2>1. \A n \in 0..lv[root], k \in Int : at[n][k] \in L /\ lv[at[n][k]] = n
    BY RouteLevels
  <2>2. 0 \in Int
    OBVIOUS
  <2> HIDE DEF h
  <2> QED
    BY <1>1, <1>5, <2>1, <2>2
<1>7. SameCells(P, Q, L)
  <2>1. L \subseteq DOMAIN P
    BY ShapeFacts
  <2>2. SetPageKind(P[heir], "Root").cells = P[heir].cells /\ SetPageKind(P[heir], "Root").ptr = P[heir].ptr
    <3>1. lv[heir] \in Nat /\ PageAt(P[heir], lv[heir], lv, L, Ids(N))
      BY <1>6, ShapeFacts
    <3> QED
      BY <3>1, RootKindAt
  <2> QED
    BY <1>6, <2>1, <2>2 DEF With, Collapsed, SameCells
<1> HIDE DEF h, Q
<1>8. Routes(Q, h - 1, heir, at) /\ SameEntries(P, at[0], Q, at[0])
  <2>1. PICK n : n = h - 1
    OBVIOUS
  <2>2. n \in 0..lv[root] /\ \A k \in Int : at[n][k] = heir
    BY <1>1, <1>5, <2>1
  <2>3. Routes(Q, n, heir, at) /\ SameEntries(P, at[0], Q, at[0])
    BY <1>7, <2>2, AlikeRoutes
  <2> QED
    BY <2>1, <2>3
<1> QED
  BY <1>6, <1>8 DEF Q

\* After a merge: the routes, and the page of the next underfull call.
RoutesKept(lv, at) ==
    /\ \E b : Routes(pages', lv[root_id'], root_id', b) /\ SameEntries(pages, at[0], pages', b[0])
    /\ op'.pc = "underfull" => Small(pages'[op'.id])

\* check_parent_underfull keeps routes and entries.
LEMMA RoutedCheck ==
    ASSUME NEW N, NEW lv, NEW L, NEW P2, Shape(P2, N, lv, L, root_id), NEW at, NEW b,
           Routes(P2, lv[root_id], root_id, b), SameEntries(pages, at[0], P2, b[0]),
           lv[root_id] # 0, NEW parent, CheckParentUnderfull(parent, P2)
    PROVE  RoutesKept(lv, at)
<1> DEFINE p == P2[parent]
           heir == p.ptr
<1>1. \/ /\ parent = root_id /\ Bare(p) /\ root_id' = heir
         /\ pages' = Collapsed(P2, heir) /\ Answer(op.req, "ok")
      \/ pages' = P2 /\ Answer(op.req, "ok") /\ root_id' = root_id
      \/ pages' = P2 /\ op' = Underfull(op.req, parent, Front(op.trail)) /\ root_id' = root_id /\ IsUnderfull(p)
  BY Zenon DEF CheckParentUnderfull, Bare, Collapsed
<1>2. Answer(op.req, "ok") => op'.pc # "underfull"
  BY DEF Answer, Idle
<1>3. CASE parent = root_id /\ Bare(p) /\ root_id' = heir /\ pages' = Collapsed(P2, heir) /\ Answer(op.req, "ok")
  <2>1. Routes(Collapsed(P2, heir), lv[heir], heir, b) /\ SameEntries(P2, b[0], Collapsed(P2, heir), b[0])
    BY <1>3, CollapseRoutes
  <2>2. SameEntries(pages, at[0], Collapsed(P2, heir), b[0])
    BY <2>1, SameEntriesThen
  <2> QED
    BY <1>2, <1>3, <2>1, <2>2 DEF RoutesKept
<1>4. CASE pages' = P2 /\ Answer(op.req, "ok") /\ root_id' = root_id
  BY <1>2, <1>4 DEF RoutesKept
<1>5. CASE pages' = P2 /\ op' = Underfull(op.req, parent, Front(op.trail)) /\ root_id' = root_id /\ IsUnderfull(p)
  <2>1. op'.id = parent /\ Small(p)
    BY <1>5 DEF Underfull, IsUnderfull, Small
  <2> QED
    BY <1>5, <2>1 DEF RoutesKept
<1> QED
  BY <1>1, <1>3, <1>4, <1>5

-----------------------------------------------------------------------------
(* The steps of calls keep routes. *)

\* A merge keeps routes and entries, if it does not fail.
LEMMA RoutedMerge ==
    ASSUME NEW N, NEW lv, NEW L, TreeTyped(N, lv, L), op.pc = "underfull", NEW parent, parent = Last(op.trail),
           NEW into \in L, NEW from \in L, lv[parent] = lv[into] + 1, lv[from] = lv[into],
           into # root_id, from # root_id,
           NEW i, NEW sep, SepAt(pages[parent], i, sep, into), Kid(pages[parent], i + 1) = from,
           Merge(parent, into, from, i), NEW at, Routes(pages, lv[root_id], root_id, at), FailsClean
    PROVE  RoutesKept(lv, at)
<1> DEFINE P == pages
           root == root_id
           u == lv[parent]
           P2 == MergePages(P, parent, into, from, i)
           ok == Merged(P[parent], i, P[into], P[from]).ok
<1>1. Shape(P, N, lv, L, root) /\ Trail(P, lv, L, root, op.trail) /\ Routes(P, lv[root], root, at)
  BY DEF TreeTyped, CallAt, Idle
<1>2. u \in 1..lv[root] /\ \E m \in Int : at[u][m] = parent
  BY ParentRouted
<1>3. \/ pages' = pages /\ root_id' = root_id /\ op' = Idle
      \/ ok /\ CheckParentUnderfull(parent, P2)
  <2>1. \/ ~ok /\ Answer(op.req, "error") /\ root_id' = root_id
        \/ ok /\ CheckParentUnderfull(parent, P2)
    BY MergeIs
  <2>2. Answer(op.req, "error") => op' = Idle /\ pages' = pages
    BY DEF Answer, FailsClean
  <2> QED
    BY <2>1, <2>2
<1>4. CASE pages' = pages /\ root_id' = root_id /\ op' = Idle
  <2>1. op'.pc # "underfull"
    BY <1>4 DEF Idle
  <2>2. SameEntries(pages, at[0], pages, at[0])
    BY SameEntriesNone
  <2> QED
    BY <1>4, <2>1, <2>2 DEF RoutesKept
<1>5. CASE ok /\ CheckParentUnderfull(parent, P2)
  <2>1. Around(P, at, u, parent, into, from, sep)
    <3>1. PICK m \in Int : at[u][m] = parent
      BY <1>2
    <3>2. SepAt(P[parent], i, sep, into) /\ Kid(P[parent], i + 1) = from
      OBVIOUS
    <3> HIDE DEF P, root, u
    <3>3. Around(P, at, u, parent, into, Kid(P[parent], i + 1), sep)
      BY <1>1, <1>2, <3>1, <3>2, AroundIs
    <3> QED
      BY <3>2, <3>3
  <2>2. SepAt(P[parent], i, sep, into)
    OBVIOUS
  <2>3. \E b : Routes(P2, lv[root], root, b) /\ SameEntries(P, at[0], P2, b[0])
    <3> HIDE DEF P, root, u
    <3> QED
      BY <1>1, <1>2, <1>5, <2>1, <2>2, MergeRoutes
  <2>4. Shape(P2, N, lv, L, root) /\ lv[root] # 0
    <3>1. parent \in L /\ i \in 1..Len(P[parent].cells)
      BY <1>1, TrailFacts DEF SepAt
    <3>2. Shape(P2, N, lv, L, root)
      BY <1>1, <3>1, MergeShape
    <3> QED
      BY <1>2, <3>2
  <2>5. PICK b : Routes(P2, lv[root], root, b) /\ SameEntries(P, at[0], P2, b[0])
    BY <2>3
  <2> HIDE DEF P2
  <2> QED
    BY <1>5, <2>4, <2>5, RoutedCheck
<1> QED
  BY <1>3, <1>4, <1>5

\* A borrowing or a merge keeps routes and entries.
LEMMA RoutedUnderfull ==
    ASSUME NEW N, NEW lv, NEW L, TreeTyped(N, lv, L), HandleUnderfull,
           NEW at, Routes(pages, lv[root_id], root_id, at), Small(pages[op.id]), FailsClean
    PROVE  RoutesKept(lv, at)
<1> DEFINE parent == Last(op.trail)
           s == Siblings(pages[parent], op.id)
           q == pages[parent]
<1>1. /\ op.pc = "underfull"
      /\ \/ RedistributeFromLeft(parent, s)
         \/ RedistributeFromRight(parent, s)
         \/ MergeWithLeft(parent, s)
         \/ MergeWithRight(parent, s)
         \/ Answer(op.req, "ok") /\ UNCHANGED <<pages, root_id>>
  BY Zenon DEF HandleUnderfull
<1>2. /\ Shape(pages, N, lv, L, root_id)
      /\ op.id \in L /\ parent \in L /\ lv[parent] = lv[op.id] + 1 /\ op.id # root_id /\ lv[parent] # 0
      /\ Beside(q, op.id, s)
      /\ s.left # -1 => s.left \in L /\ lv[s.left] = lv[op.id] /\ s.left # root_id
      /\ s.right # -1 => s.right \in L /\ lv[s.right] = lv[op.id] /\ s.right # root_id
  BY <1>1, Family
<1>3. Len(q.cells) \in Nat
  BY <1>2, ParentPage
<1> HIDE DEF q
<1>4. /\ s.left # -1 => SepAt(q, s.idx - 1, q.cells[s.idx - 1].key, s.left) /\ Kid(q, s.idx - 1 + 1) = op.id
      /\ s.right # -1 => SepAt(q, s.idx, q.cells[s.idx].key, op.id) /\ Kid(q, s.idx + 1) = s.right
  <2> HIDE DEF s
  <2> QED
    BY <1>2, <1>3, SepsBeside
<1>5. Answer(op.req, "ok") => op' = Idle /\ op'.pc # "underfull"
  BY DEF Answer, Idle
<1>6. CASE RedistributeFromLeft(parent, s)
  <2>1. KeepsRoutes(pages, pages', lv[root_id], root_id, at) /\ op' = Idle
    BY <1>1, <1>6, RoutedBorrowLeft
  <2>2. root_id' = root_id
    BY <1>6, BorrowLeftIs
  <2>3. op'.pc # "underfull"
    BY <2>1 DEF Idle
  <2> QED
    BY <2>1, <2>2, <2>3 DEF RoutesKept, KeepsRoutes
<1>7. CASE RedistributeFromRight(parent, s)
  <2>1. KeepsRoutes(pages, pages', lv[root_id], root_id, at) /\ op' = Idle
    BY <1>1, <1>7, RoutedBorrowRight
  <2>2. root_id' = root_id
    BY <1>7, BorrowRightIs
  <2>3. op'.pc # "underfull"
    BY <2>1 DEF Idle
  <2> QED
    BY <2>1, <2>2, <2>3 DEF RoutesKept, KeepsRoutes
<1>8. CASE MergeWithLeft(parent, s)
  <2>1. s.left # -1 /\ Merge(parent, s.left, op.id, s.idx - 1)
    BY <1>8 DEF MergeWithLeft
  <2>2. PICK i : i = s.idx - 1
    OBVIOUS
  <2>3. PICK sep : sep = q.cells[i].key
    OBVIOUS
  <2>4. s.left \in L /\ lv[s.left] = lv[op.id] /\ s.left # root_id /\ SepAt(pages[parent], i, sep, s.left)
        /\ Kid(pages[parent], i + 1) = op.id
    BY <1>2, <1>4, <2>1, <2>2, <2>3 DEF q
  <2>5. Merge(parent, s.left, op.id, i)
    BY <2>1, <2>2
  <2> HIDE DEF s, parent
  <2> QED
    BY <1>1, <1>2, <2>4, <2>5, RoutedMerge DEF parent
<1>9. CASE MergeWithRight(parent, s)
  <2>1. s.right # -1 /\ Merge(parent, op.id, s.right, s.idx)
    BY <1>9 DEF MergeWithRight
  <2>2. PICK i : i = s.idx
    OBVIOUS
  <2>3. PICK sep : sep = q.cells[i].key
    OBVIOUS
  <2>4. s.right \in L /\ lv[s.right] = lv[op.id] /\ s.right # root_id /\ SepAt(pages[parent], i, sep, op.id)
        /\ Kid(pages[parent], i + 1) = s.right
    BY <1>2, <1>4, <2>1, <2>2, <2>3 DEF q
  <2>5. Merge(parent, op.id, s.right, i)
    BY <2>1, <2>2
  <2> HIDE DEF s, parent
  <2> QED
    BY <1>1, <1>2, <2>4, <2>5, RoutedMerge DEF parent
<1>10. CASE Answer(op.req, "ok") /\ UNCHANGED <<pages, root_id>>
  <2>1. SameEntries(pages, at[0], pages, at[0])
    BY SameEntriesNone
  <2> QED
    BY <1>5, <1>10, <2>1 DEF RoutesKept
<1> QED
  BY <1>1, <1>6, <1>7, <1>8, <1>9, <1>10

\* One step of a split keeps routes and entries; a new root has them one level more.
LEMMA RoutedOverfull ==
    ASSUME NEW N, NEW lv, NEW L, TreeTyped(N, lv, L), HandleOverfull,
           NEW at, Routes(pages, lv[root_id], root_id, at), FailsClean,
           NEW mv, TopLevel(mv, lv)
    PROVE  RoutesKept(mv, at)
<1> DEFINE P == pages
           root == root_id
           t == op.trail
           id == Last(t)
           up == Front(t)
           parent == Last(up)
           u == lv[parent]
           added == AddCell(Repoint(P[parent], id, N), Separator(P[id]).key, id)
<1>1. /\ op.pc = "overfull" /\ Trail(P, lv, L, root, t) /\ Full(P[id]) /\ Shape(P, N, lv, L, root)
      /\ Routes(P, lv[root], root, at)
  <2>1. op.pc = "overfull"
    BY DEF HandleOverfull
  <2> QED
    BY <2>1 DEF TreeTyped, CallAt, Idle, Full
<1>2. OverfullSplits(N)
  BY <1>1, OverfullIs, TypedNext DEF Full
<1>3. id \in L /\ (up = <<>> <=> Len(t) = 1) /\ (id = root <=> Len(t) = 1) /\ N \in Nat /\ root \in Ids(N)
  BY <1>1, TrailFacts, ShapeFacts
<1>4. \A out \in {"error", "ok"} : Answer(op.req, out) => op' = Idle /\ reply'.out = out
  BY DEF Answer
<1>5. Idle.pc # "underfull" /\ Overfull(op.req, up).pc # "underfull"
  BY DEF Idle, Overfull
<1>6. ASSUME up # <<>>, pages' = SplitPages(P, id, N, parent), root_id' = root,
             CASE ~added.ok -> Answer(op.req, "error")
               [] added.ok /\ Len(added.page.cells) >= ORDER -> op' = Overfull(op.req, up) /\ UNCHANGED reply
               [] added.ok /\ Len(added.page.cells) < ORDER -> Answer(op.req, "ok")
      PROVE  RoutesKept(mv, at)
  <2> HIDE DEF t, id, up, parent
  <2>1. Trail(P, lv, L, root, up) /\ id \in Kids(P[parent]) /\ lv[parent] = lv[id] + 1
    BY <1>1, <1>6, TrailFront DEF id, up, parent
  <2>2. parent \in L /\ lv[parent] = lv[root] + 1 - Len(up) /\ Len(up) \in Nat /\ Len(up) >= 1
    BY <1>1, <2>1, TrailFacts DEF parent
  <2>3. u \in 1..lv[root] /\ lv[parent] # 0
    <3>1. lv[root] \in Nat /\ lv[id] \in Nat
      BY <1>1, <1>3, ShapeFacts
    <3> QED
      BY <2>1, <2>2, <3>1
  <2>4. mv[root_id'] = lv[root]
    BY <1>6 DEF TopLevel
  <2>5. /\ added.ok \in BOOLEAN /\ Len(added.page.cells) \in Nat
    <3>1. /\ id \in L /\ parent \in L /\ lv[parent] = lv[id] + 1 /\ Len(P[id].cells) = ORDER
      BY <1>1, <1>3, <2>1, <2>2 DEF Full
    <3> HIDE DEF P, root
    <3>2. added.ok \in BOOLEAN /\ Len(added.page.cells) \in Nat
      BY ZenonT(20), <1>1, <3>1, SplitShape
    <3> QED
      BY <3>2
  <2>6. CASE ~added.ok
    <3>1. Answer(op.req, "error")
      BY <1>6, <2>6
    <3>2. op' = Idle /\ pages' = pages
      BY <1>4, <3>1 DEF FailsClean
    <3>3. SameEntries(P, at[0], pages', at[0])
      BY <3>2, SameEntriesNone
    <3> QED
      BY <1>1, <1>5, <1>6, <2>4, <3>2, <3>3 DEF RoutesKept
  <2>7. CASE added.ok
    <3>1. op'.pc # "underfull"
      <4>1. Len(added.page.cells) >= ORDER \/ Len(added.page.cells) < ORDER
        BY <2>5, Constants
      <4> QED
        BY <1>4, <1>5, <1>6, <2>7, <4>1
    <3>2. \E k \in Int : at[u][k] = parent /\ at[u - 1][k] = id
      <4>1. PICK m \in Int : at[u][m] = parent
        BY <1>1, <2>1, TrailRouted DEF parent
      <4>2. PICK i \in 1..Len(P[parent].cells) + 1 : Kid(P[parent], i) = id
        BY <2>1 DEF Kids
      <4>3. \E k \in Int : LeadsTo(P, at, u, parent, i, k)
        <5> HIDE DEF P, root, u
        <5> QED
          BY <1>1, <2>3, <4>1, <4>2, KidRouted
      <4> QED
        BY <4>2, <4>3 DEF LeadsTo
    <3>3. PICK k \in Int : at[u][k] = parent /\ at[u - 1][k] = id
      BY <3>2
    <3>4. CanSplit(P, id, N, parent)
      BY <1>1, <2>7 DEF CanSplit, Full
    <3>5. \E b : /\ Routes(SplitPages(P, id, N, parent), lv[root], root, b)
                 /\ SameEntries(P, at[0], SplitPages(P, id, N, parent), b[0])
      <4> HIDE DEF P, root, u
      <4> QED
        BY <1>1, <2>3, <3>3, <3>4, SplitRoutes
    <3> QED
      BY <1>6, <2>4, <3>1, <3>5 DEF RoutesKept
  <2> QED
    BY <2>5, <2>6, <2>7
<1>7. ASSUME up = <<>>, pages' = SplitRoot(P, id, N), root_id' = N + 1, Answer(op.req, "ok")
      PROVE  RoutesKept(mv, at)
  <2>1. id = root
    BY <1>3, <1>7
  <2>2. mv[N + 1] = lv[root] + 1
    <3>1. N + 1 # root
      BY <1>3 DEF Ids
    <3> QED
      BY <1>7, <3>1 DEF TopLevel
  <2>3. op'.pc # "underfull"
    BY <1>4, <1>5, <1>7
  <2>4. Full(P[root])
    BY <1>1, <2>1
  <2>5. \E b : /\ Routes(SplitRoot(P, root, N), lv[root] + 1, N + 1, b)
               /\ SameEntries(P, at[0], SplitRoot(P, root, N), b[0])
    <3> HIDE DEF P, root, t, id, up
    <3> QED
      BY <1>1, <2>4, SplitRootRoutes
  <2>6. pages' = SplitRoot(P, root, N)
    BY <1>7, <2>1
  <2> HIDE DEF t, id, up
  <2> QED
    BY <1>7, <2>2, <2>3, <2>5, <2>6 DEF RoutesKept
<1> QED
  BY <1>2, <1>6, <1>7, Zenon DEF OverfullSplits

\* A search ends at the page of level 0 to which the key leads.
LEMMA SearchEnds ==
    ASSUME NEW N, NEW lv, NEW L, Shape(pages, N, lv, L, root_id),
           NEW at, Routes(pages, lv[root_id], root_id, at), NEW key \in Int, NEW t, t = Breadcrumbs(key)
    PROVE  /\ Last(t) = at[0][key]
           /\ Len(t) = lv[root_id] + 1 /\ \A j \in 1..Len(t) : t[j] = at[lv[root_id] + 1 - j][key]
           /\ Trail(pages, lv, L, root_id, t) /\ Last(t) \in L /\ Last(t) \in Ids(N) /\ lv[Last(t)] = 0
           /\ pages[Last(t)] \in PagesOf(AllRecords, Ids(N))
<1>1. NextId = N
  BY ShapeFacts, CountIds DEF NextId
<1>2. t = DescentOf(pages, root_id, N, key)
  BY <1>1, BreadcrumbsIs
<1>3. /\ Len(t) = lv[root_id] + 1 /\ \A j \in 1..Len(t) : t[j] = at[lv[root_id] + 1 - j][key]
      /\ Last(t) = at[0][key]
  BY <1>2, SearchRoute
<1>4. /\ Trail(pages, lv, L, root_id, t) /\ Last(t) \in L /\ Last(t) \in Ids(N) /\ lv[Last(t)] = 0
      /\ pages[Last(t)] \in PagesOf(AllRecords, Ids(N))
  BY LeafFound
<1> QED
  BY <1>3, <1>4

\* What an insertion does to the entries: nothing, or its key had none and gets the record.
Inserted(P, e, Q, g, key, record) ==
    \/ Q = P /\ SameEntries(P, e, Q, g)
    \/ key \notin KeysOf(P[e[key]]) /\ EntryAdded(P, e, Q, g, key, record)

\* An insertion keeps routes.
LEMMA RoutedInsert ==
    ASSUME NEW N, NEW lv, NEW L, TreeTyped(N, lv, L), NEW key \in Keys, NEW record \in Records[key],
           Insert(key, record), NEW at, Routes(pages, lv[root_id], root_id, at)
    PROVE  /\ op'.pc # "underfull" /\ root_id' = root_id
           /\ \E b : Routes(pages', lv[root_id], root_id, b) /\ Inserted(pages, at[0], pages', b[0], key, record)
<1> DEFINE P == pages
           root == root_id
           trail == Breadcrumbs(key)
           leaf == Last(trail)
           added == AddCell(P[leaf], key, record)
           req == <<"insert", key>>
<1>1. /\ pages' = IF added.ok THEN With(P, leaf, added.page) ELSE P
      /\ CASE key \in KeysOf(P[leaf]) -> Answer(req, "exists")
           [] key \notin KeysOf(P[leaf]) /\ ~added.ok -> Answer(req, "error")
           [] added.ok /\ Len(added.page.cells) < ORDER -> Answer(req, "ok")
           [] added.ok /\ Len(added.page.cells) >= ORDER -> op' = Overfull(req, trail) /\ UNCHANGED reply
      /\ root_id' = root
  BY DEF Insert
<1>3. Shape(P, N, lv, L, root) /\ Routes(P, lv[root], root, at) /\ key \in Int /\ record \in AllRecords
  BY Constants DEF TreeTyped, AllRecords
<1>4. leaf = at[0][key] /\ P[leaf] \in PagesOf(AllRecords, Ids(N))
  BY <1>3, SearchEnds
<1>5. /\ added.page \in PagesOf(AllRecords, Ids(N))
      /\ added.ok => Added(P[leaf], key, record, added.page)
  BY <1>3, <1>4, AddCellIs
<1>6. added.ok \in BOOLEAN /\ (added.ok => key \notin KeysOf(P[leaf]))
  BY DEF AddCell
<1>2. op'.pc # "underfull"
  <2>1. op' = Idle => op'.pc # "underfull"
    BY DEF Idle
  <2>2. op' = Overfull(req, trail) => op'.pc # "underfull"
    BY DEF Overfull
  <2>3. \A out : Answer(req, out) => op' = Idle
    BY DEF Answer
  <2> HIDE DEF P, leaf, added, trail
  <2>4. Len(added.page.cells) \in Nat /\ ORDER \in Nat
    BY <1>5, PageFacts, ListFacts, Constants
  <2>5. \/ key \in KeysOf(P[leaf])
        \/ key \notin KeysOf(P[leaf]) /\ ~added.ok
        \/ added.ok /\ Len(added.page.cells) < ORDER
        \/ added.ok /\ Len(added.page.cells) >= ORDER
    BY <1>6, <2>4
  <2> QED
    BY <1>1, <2>1, <2>2, <2>3, <2>5
<1> HIDE DEF P, root, leaf, added
<1>7. CASE added.ok
  <2>1. PICK page : page = added.page
    OBVIOUS
  <2>2. page \in PagesOf(AllRecords, Ids(N)) /\ Added(P[leaf], key, record, page)
    BY <1>5, <1>7, <2>1
  <2>3. /\ Routes(With(P, leaf, page), lv[root], root, at)
        /\ EntryAdded(P, at[0], With(P, leaf, page), at[0], key, record)
    BY <1>3, <1>4, <2>2, InsertRoutes
  <2>4. pages' = With(P, leaf, page)
    BY <1>1, <1>7, <2>1
  <2>5. key \notin KeysOf(P[at[0][key]])
    BY <1>4, <1>6, <1>7
  <2> QED
    BY <1>1, <1>2, <2>3, <2>4, <2>5 DEF Inserted, P, root
<1>8. CASE ~added.ok
  <2>1. pages' = P
    BY <1>1, <1>8
  <2> QED
    BY <1>1, <1>2, <1>3, <2>1, SameEntriesNone DEF Inserted, P, root
<1> QED
  BY <1>7, <1>8

\* The page propagate_key_update changes is the lowest on the way to the key that has it as a
\* separator.
LEMMA HolderIs ==
    ASSUME NEW P, NEW at, NEW m \in Nat, NEW key \in Int, NEW t, Len(t) = m + 1,
           \A j \in 1..m + 1 : t[j] = at[m + 1 - j][key],
           NEW h \in 1..m, key \in KeysOf(P[t[h]]), \A i \in 1..m : key \in KeysOf(P[t[i]]) => i <= h
    PROVE  m + 1 - h \in 1..m /\ Holder(P, at, m + 1 - h, t[h], key)
<1>1. m + 1 - h \in 1..m /\ h \in 1..m + 1
  OBVIOUS
<1>2. t[h] = at[m + 1 - h][key]
  BY <1>1
<1>3. ASSUME NEW n \in 1..m + 1 - h - 1 PROVE key \notin KeysOf(P[at[n][key]])
  <2>1. PICK i \in 1..m : i = m + 1 - n /\ ~(i <= h) /\ m + 1 - i = n /\ i \in 1..m + 1
    OBVIOUS
  <2>2. t[i] = at[n][key]
    BY <2>1
  <2>3. key \notin KeysOf(P[t[i]])
    BY <2>1
  <2> QED
    BY <2>2, <2>3
<1> QED
  BY <1>1, <1>2, <1>3 DEF Holder

\* What a deletion does to the entries: nothing, or its key had one, which is gone.
Removed(P, e, Q, g, key) ==
    \/ SameEntries(P, e, Q, g) /\ key \notin KeysOf(P[e[key]])
    \/ EntriesLess(P, e, Q, g, key) /\ key \in KeysOf(P[e[key]])

\* A deletion keeps routes.
LEMMA RoutedDelete ==
    ASSUME NEW N, NEW lv, NEW L, TreeTyped(N, lv, L), NEW key \in Keys, Delete(key),
           NEW at, Routes(pages, lv[root_id], root_id, at)
    PROVE  /\ op'.pc = "underfull" => Small(pages'[op'.id])
           /\ root_id' = root_id
           /\ \E b : Routes(pages', lv[root_id], root_id, b) /\ Removed(pages, at[0], pages', b[0], key)
<1> DEFINE P == pages
           root == root_id
           trail == Breadcrumbs(key)
           leaf == Last(trail)
           p == P[leaf]
           req == <<"delete", key>>
           i == CHOOSE i \in DOMAIN p.cells : p.cells[i].key = key
           new == RemoveCellAt(p, i)
           written == With(P, leaf, new)
<1>1. /\ root_id' = root
      /\ \/ key \notin KeysOf(p) /\ Answer(req, "missing") /\ pages' = P
         \/ /\ key \in KeysOf(p) /\ (Answer(req, "ok") \/ Answer(req, "error"))
            /\ pages' \in {written, PropagateKeyUpdate(written, key, new, Front(trail)).pages}
         \/ /\ key \in KeysOf(p) /\ IsUnderfull(new)
            /\ pages' = written
            /\ op' = Underfull(req, leaf, Front(trail))
  BY DEF Delete
<1>2. Shape(P, N, lv, L, root) /\ Routes(P, lv[root], root, at) /\ key \in Int
  BY Constants DEF TreeTyped
<1>3. /\ leaf = at[0][key] /\ p \in PagesOf(AllRecords, Ids(N)) /\ leaf \in L
      /\ Len(trail) = lv[root] + 1 /\ \A j \in 1..Len(trail) : trail[j] = at[lv[root] + 1 - j][key]
      /\ Trail(P, lv, L, root, trail)
  BY <1>2, SearchEnds
<1>4. \A out : Answer(req, out) => op'.pc # "underfull"
  BY DEF Answer, Idle
<1>5. key \in KeysOf(p) => CellIs(p, i, key)
  <2>1. DOMAIN p.cells = 1..Len(p.cells)
    BY <1>3, PageFacts, ListFacts
  <2> QED
    BY <2>1 DEF KeysOf, CellIs
<1> HIDE DEF i
<1>6. ASSUME key \in KeysOf(p)
      PROVE  Routes(written, lv[root], root, at) /\ EntriesLess(P, at[0], written, at[0], key)
  <2>1. CellIs(P[leaf], i, key)
    BY <1>5, <1>6
  <2> HIDE DEF P, root, leaf
  <2> QED
    BY <1>2, <1>3, <2>1, RemoveRoutes
<1>7. ASSUME key \in KeysOf(p)
      PROVE  \E b : /\ Routes(PropagateKeyUpdate(written, key, new, Front(trail)).pages, lv[root], root, b)
                    /\ EntriesLess(P, at[0], PropagateKeyUpdate(written, key, new, Front(trail)).pages, b[0], key)
  <2> DEFINE up == Front(trail)
             Q == PropagateKeyUpdate(written, key, new, up).pages
  <2>1. PICK m \in Nat : m = lv[root]
    BY <1>2 DEF Routes
  <2>2. DOMAIN up = 1..m /\ \A j \in 1..m : up[j] = trail[j]
    <3>1. /\ Len(trail) = m + 1 /\ DOMAIN Front(trail) = 1..Len(trail) - 1
          /\ \A j \in 1..Len(trail) - 1 : Front(trail)[j] = trail[j]
      <4>1. /\ DOMAIN Front(trail) = 1..Len(trail) - 1
            /\ \A j \in 1..Len(trail) - 1 : Front(trail)[j] = trail[j]
        BY <1>2, <1>3, TrailFacts
      <4>2. Len(trail) = m + 1
        BY <1>3, <2>1
      <4> QED
        BY <4>1, <4>2
    <3>2. m + 1 - 1 = m
      OBVIOUS
    <3> QED
      BY <3>1, <3>2
  <2> HIDE DEF up, written, new
  <2>3. \/ Q = written
        \/ /\ new.cells # <<>>
           /\ \E h \in 1..m :
                 /\ key \in KeysOf(P[up[h]])
                 /\ \A j \in 1..m : key \in KeysOf(P[up[j]]) => j <= h
                 /\ Q = With(written, up[h], Renamed(P[up[h]], key, new.cells[1].key))
    <3>1. DOMAIN up = 1..m
      BY <2>2
    <3>2. Propagated(P, written, key, new, up, m, Q)
      BY <3>1, PropagateIs
    <3> QED
      BY <3>2 DEF Propagated
  <2> HIDE DEF Q
  <2>4. CASE Q = written
    BY <1>6, <1>7, <2>4 DEF Q, up
  <2>5. ASSUME new.cells # <<>>,
               NEW h \in 1..m, key \in KeysOf(P[up[h]]), \A j \in 1..m : key \in KeysOf(P[up[j]]) => j <= h,
               Q = With(written, up[h], Renamed(P[up[h]], key, new.cells[1].key))
        PROVE  \E b : Routes(Q, lv[root], root, b) /\ EntriesLess(P, at[0], Q, b[0], key)
    <3>1. Len(trail) = m + 1 /\ \A j \in 1..m + 1 : trail[j] = at[m + 1 - j][key]
      BY <1>3, <2>1
    <3>2. key \in KeysOf(P[trail[h]]) /\ \A j \in 1..m : key \in KeysOf(P[trail[j]]) => j <= h
      BY <2>2, <2>5
    <3> HIDE DEF trail, P, root, leaf
    <3>3. m + 1 - h \in 1..m /\ Holder(P, at, m + 1 - h, trail[h], key)
      BY <1>2, <3>1, <3>2, HolderIs
    <3>4. PICK u : u = m + 1 - h
      OBVIOUS
    <3>5. PICK q : q = trail[h]
      OBVIOUS
    <3>6. PICK t : t = new.cells[1].key
      OBVIOUS
    <3>7. u \in 1..lv[root] /\ Holder(P, at, u, q, key) /\ CellIs(P[leaf], i, key) /\ new = RemoveCellAt(P[leaf], i)
      BY <1>5, <1>7, <2>1, <3>3, <3>4, <3>5 DEF new
    <3>8. \E b : /\ Routes(With(With(P, leaf, new), q, Renamed(P[q], key, t)), lv[root], root, b)
                 /\ EntriesLess(P, at[0], With(With(P, leaf, new), q, Renamed(P[q], key, t)), b[0], key)
      <4>1. Shape(P, N, lv, L, root) /\ Routes(P, lv[root], root, at) /\ leaf = at[0][key] /\ LeadBy(new, t)
        BY <1>2, <1>3, <2>5, <3>6 DEF LeadBy
      <4> QED
        BY <3>7, <4>1, RenameAfter
    <3>9. Q = With(With(P, leaf, new), q, Renamed(P[q], key, t))
      BY <2>2, <2>5, <3>5, <3>6 DEF written
    <3> QED
      BY <3>8, <3>9
  <2>6. \E b : Routes(Q, lv[root], root, b) /\ EntriesLess(P, at[0], Q, b[0], key)
    BY <1>6, <1>7, <2>3, <2>4, <2>5
  <2> QED
    BY <2>6 DEF Q, up
<1>8. KeysOf(p) = KeysOf(P[at[0][key]])
  BY <1>3
<1>9. CASE key \notin KeysOf(p) /\ Answer(req, "missing") /\ pages' = P
  <2>1. op'.pc # "underfull" /\ SameEntries(P, at[0], P, at[0])
    BY <1>4, <1>9, SameEntriesNone
  <2> QED
    BY <1>1, <1>2, <1>8, <1>9, <2>1 DEF Removed
<1> HIDE DEF written, new, leaf, p
<1>10. CASE /\ key \in KeysOf(p) /\ (Answer(req, "ok") \/ Answer(req, "error"))
            /\ pages' \in {written, PropagateKeyUpdate(written, key, new, Front(trail)).pages}
  <2>1. op'.pc # "underfull"
    BY <1>4, <1>10
  <2>2. \E b : Routes(pages', lv[root], root, b) /\ EntriesLess(P, at[0], pages', b[0], key)
    BY <1>6, <1>7, <1>10
  <2> QED
    BY <1>1, <1>8, <1>10, <2>1, <2>2 DEF Removed
<1>11. CASE /\ key \in KeysOf(p) /\ IsUnderfull(new)
            /\ pages' = written
            /\ op' = Underfull(req, leaf, Front(trail))
  <2>1. op'.id = leaf
    BY <1>11 DEF Underfull
  <2>2. written[leaf] = new
    BY DEF written, With
  <2>3. Small(pages'[op'.id])
    BY <1>11, <2>1, <2>2 DEF Small, IsUnderfull
  <2> QED
    BY <1>1, <1>6, <1>8, <1>11, <2>3 DEF Removed
<1> QED
  BY <1>1, <1>9, <1>10, <1>11

-----------------------------------------------------------------------------
(* The pages the root leads to. *)

\* Reachable, for pages P with the root `root', of which there are N.
ReachOf(P, root, N) ==
    LET below[at \in (DOMAIN P) \X (0..N)] ==
            LET id == at[1]
                n == at[2]
            IN  IF IsLeafLevel(P[id]) \/ n = 0 THEN {id}
                ELSE {id} \cup UNION {below[<<child, n - 1>>] : child \in ToSet(ChildIds(P[id]))}
    IN  below[<<root, N>>]

\* Reachable, before and after a step.
LEMMA ReachableIs ==
    /\ Reachable = ReachOf(pages, root_id, NextId)
    /\ Reachable' = ReachOf(pages', root_id', NextId')
<1>1. Reachable = ReachOf(pages, root_id, NextId)
  BY DEF Reachable, ReachOf
<1>2. Reachable' = ReachOf(pages', root_id', NextId')
  BY DEF Reachable, ReachOf
<1> QED
  BY <1>1, <1>2

\* A page, and those to which g says its children lead.
Further(P, g, id) ==
    IF IsLeafLevel(P[id]) THEN {id} ELSE {id} \cup UNION {g[child] : child \in ToSet(ChildIds(P[id]))}

\* H[n][id] are the pages to which id leads, at most n levels below it.
ReachRun(P, N, root, H) ==
    /\ H \in [0..N -> [Ids(N) -> SUBSET Ids(N)]]
    /\ \A id \in Ids(N) : H[0][id] = {id}
    /\ \A n \in 1..N, id \in Ids(N) : H[n][id] = Further(P, H[n - 1], id)
    /\ ReachOf(P, root, N) = H[N][root]

\* ChildIds lists a page's children.
LEMMA ChildIdsKids ==
    ASSUME NEW p, Len(p.cells) \in Nat
    PROVE  ToSet(ChildIds(p)) = Kids(p)
<1>1. DOMAIN ChildIds(p) = 1..Len(p.cells) + 1 /\ \A i \in 1..Len(p.cells) + 1 : ChildIds(p)[i] = Kid(p, i)
  BY DEF ChildIds, Kid
<1> QED
  BY <1>1 DEF ToSet, Kids

\* The recursion of Reachable, unrolled.
LEMMA ReachRuns ==
    ASSUME NEW P, NEW N, NEW lv, NEW L, NEW root, Shape(P, N, lv, L, root)
    PROVE  \E H : ReachRun(P, N, root, H)
<1> DEFINE I == Ids(N)
           S == [I -> SUBSET I]
           base == [id \in I |-> {id}]
           G == [x \in (1..N) \X S |-> [id \in I |-> Further(P, x[2], id)]]
<1>1. N \in Nat /\ DOMAIN P = I /\ root \in I
  BY ShapeFacts
<1>2. ASSUME NEW id \in I, ~IsLeafLevel(P[id]) PROVE ToSet(ChildIds(P[id])) \subseteq I
  <2>1. PageAt(P[id], lv[id], lv, I, I) /\ lv[id] \in Nat
    BY ShapeFacts
  <2>2. lv[id] # 0
    BY <1>2, <2>1 DEF PageAt
  <2>3. P[id] \in PagesOf(Vals(lv, I, lv[id]), Ptrs(lv, I, lv[id], I)) /\ Kids(P[id]) \subseteq Below(lv, I, lv[id])
    BY <2>1, <2>2, PageAtFacts
  <2>4. Len(P[id].cells) \in Nat
    BY <2>3, PageFacts, ListFacts
  <2> QED
    BY <2>3, <2>4, ChildIdsKids DEF Below
<1>3. base \in S
  OBVIOUS
<1>4. G \in [(1..N) \X S -> S]
  <2>1. ASSUME NEW g \in S, NEW id \in I PROVE Further(P, g, id) \in SUBSET I
    <3>1. CASE IsLeafLevel(P[id])
      BY <3>1 DEF Further
    <3>2. CASE ~IsLeafLevel(P[id])
      <4>1. \A child \in ToSet(ChildIds(P[id])) : g[child] \subseteq I
        BY <1>2, <3>2
      <4> HIDE DEF I
      <4> QED
        BY <3>2, <4>1 DEF Further
    <3> QED
      BY <3>1, <3>2
  <2>2. ASSUME NEW x \in (1..N) \X S PROVE [id \in I |-> Further(P, x[2], id)] \in S
    <3>1. x[2] \in S
      OBVIOUS
    <3> HIDE DEF I
    <3>2. \A id \in I : Further(P, x[2], id) \in SUBSET I
      BY <2>1, <3>1
    <3> QED
      BY <3>2
  <2> HIDE DEF S
  <2> QED
    BY <2>2
<1> HIDE DEF S, base, I
<1>5. PICK H : IsRun(H, N, S, base, G)
  <2> HIDE DEF G
  <2> QED
    BY <1>1, <1>3, <1>4, LoopRuns
<1>6. H \in [0..N -> S] /\ H[0] = base
  BY <1>5 DEF IsRun
<1>7. ASSUME NEW n \in 1..N, NEW id \in I PROVE H[n][id] = Further(P, H[n - 1], id)
  <2>1. n - 1 \in 0..N
    BY <1>1
  <2>2. H[n - 1] \in S
    BY <1>6, <2>1
  <2>3. <<n, H[n - 1]>> \in (1..N) \X S
    BY <2>2
  <2>4. H[n] = G[<<n, H[n - 1]>>]
    <3> HIDE DEF G
    <3> QED
      BY <1>5 DEF IsRun
  <2>5. G[<<n, H[n - 1]>>] = [i \in I |-> Further(P, H[n - 1], i)]
    BY <2>3
  <2> QED
    BY <2>4, <2>5
<1>8. \A id \in I : H[0][id] = {id}
  BY <1>6 DEF base
<1> DEFINE Z == I \X (0..N)
           E(g) == [at \in Z |-> LET id == at[1]
                                     n == at[2]
                                 IN  IF IsLeafLevel(P[id]) \/ n = 0 THEN {id}
                                     ELSE {id} \cup UNION {g[<<child, n - 1>>] : child \in ToSet(ChildIds(P[id]))}]
           f == [at \in Z |-> H[at[2]][at[1]]]
<1>9. f = E(f)
  <2>1. ASSUME NEW at \in Z PROVE f[at] = E(f)[at]
    <3>1. at[1] \in I /\ at[2] \in 0..N
      OBVIOUS
    <3>2. f[at] = H[at[2]][at[1]]
      OBVIOUS
    <3>3. CASE at[2] = 0
      BY <1>8, <3>1, <3>2, <3>3
    <3>4. CASE at[2] # 0
      <4>1. at[2] \in 1..N /\ at[2] - 1 \in 0..N
        BY <1>1, <3>1, <3>4
      <4>2. f[at] = Further(P, H[at[2] - 1], at[1])
        BY <1>7, <3>1, <3>2, <4>1
      <4>3. CASE IsLeafLevel(P[at[1]])
        BY <4>2, <4>3 DEF Further
      <4>4. CASE ~IsLeafLevel(P[at[1]])
        <5>1. \A child \in ToSet(ChildIds(P[at[1]])) : <<child, at[2] - 1>> \in Z
          BY <1>2, <3>1, <4>1, <4>4
        <5>2. \A child \in ToSet(ChildIds(P[at[1]])) : f[<<child, at[2] - 1>>] = H[at[2] - 1][child]
          BY <5>1
        <5>3. f[at] = {at[1]} \cup UNION {H[at[2] - 1][child] : child \in ToSet(ChildIds(P[at[1]]))}
          BY <4>2, <4>4 DEF Further
        <5>4. E(f)[at] = {at[1]} \cup UNION {f[<<child, at[2] - 1>>] : child \in ToSet(ChildIds(P[at[1]]))}
          <6> HIDE DEF f, Z
          <6> QED
            BY <3>4, <4>4
        <5>5. {H[at[2] - 1][child] : child \in ToSet(ChildIds(P[at[1]]))} = {f[<<child, at[2] - 1>>] : child \in ToSet(ChildIds(P[at[1]]))}
          <6> HIDE DEF f, Z
          <6> QED
            BY <5>2
        <5> HIDE DEF f, E
        <5> QED
          BY <5>3, <5>4, <5>5
      <4> QED
        BY <4>3, <4>4
    <3> QED
      BY <3>3, <3>4
  <2>2. f = [at \in Z |-> f[at]]
    OBVIOUS
  <2>3. E(f) = [at \in Z |-> E(f)[at]]
    <3> HIDE DEF f
    <3> QED
      OBVIOUS
  <2> HIDE DEF f, E
  <2> QED
    BY <2>1, <2>2, <2>3
<1> DEFINE d == CHOOSE g : g = E(g)
<1>10. d = E(d)
  <2> HIDE DEF f, E
  <2> QED
    BY <1>9
<1>11. ASSUME NEW n \in 0..N PROVE \A id \in I : d[<<id, n>>] = H[n][id]
  <2> DEFINE Good == {m \in 0..N : \A id \in I : d[<<id, m>>] = H[m][id]}
  <2>0. ASSUME NEW m \in 0..N, NEW id \in I
        PROVE  d[<<id, m>>] = IF IsLeafLevel(P[id]) \/ m = 0 THEN {id}
                              ELSE {id} \cup UNION {d[<<child, m - 1>>] : child \in ToSet(ChildIds(P[id]))}
    <3>1. <<id, m>> \in Z
      OBVIOUS
    <3>2. d[<<id, m>>] = E(d)[<<id, m>>]
      <4> HIDE DEF d, E
      <4> QED
        BY <1>10
    <3> HIDE DEF d
    <3> QED
      BY <3>1, <3>2
  <2> HIDE DEF d, E, f
  <2>1. 0 \in Good
    <3>1. 0 \in 0..N
      BY <1>1
    <3>2. ASSUME NEW id \in I PROVE d[<<id, 0>>] = H[0][id]
      <4>1. d[<<id, 0>>] = {id}
        BY <2>0, <3>1
      <4> QED
        BY <1>8, <4>1
    <3> QED
      BY <3>1, <3>2
  <2>2. ASSUME NEW m \in 1..N, m - 1 \in Good PROVE m \in Good
    <3>1. m \in 0..N /\ m # 0
      BY <1>1
    <3>2. ASSUME NEW id \in I PROVE d[<<id, m>>] = H[m][id]
      <4>1. H[m][id] = Further(P, H[m - 1], id)
        BY <1>7
      <4>2. d[<<id, m>>] = IF IsLeafLevel(P[id]) THEN {id}
                           ELSE {id} \cup UNION {d[<<child, m - 1>>] : child \in ToSet(ChildIds(P[id]))}
        BY <2>0, <3>1
      <4>3. ~IsLeafLevel(P[id]) => \A child \in ToSet(ChildIds(P[id])) : d[<<child, m - 1>>] = H[m - 1][child]
        BY <1>2, <2>2
      <4>4. ~IsLeafLevel(P[id]) =>
              {d[<<child, m - 1>>] : child \in ToSet(ChildIds(P[id]))} = {H[m - 1][child] : child \in ToSet(ChildIds(P[id]))}
        BY <4>3
      <4> QED
        BY <4>1, <4>2, <4>4 DEF Further
    <3> QED
      BY <3>1, <3>2
  <2>3. \A m \in 0..N : m \in Good
    <3> HIDE DEF Good
    <3> QED
      BY <1>1, <2>1, <2>2, UpTo
  <2> QED
    BY <2>3
<1>12. ReachOf(P, root, N) = d[<<root, N>>]
  BY <1>1 DEF ReachOf
<1>13. N \in 0..N
  BY <1>1
<1> HIDE DEF d, E, f, Z
<1>14. ReachOf(P, root, N) = H[N][root]
  BY <1>1, <1>11, <1>12, <1>13
<1>15. H \in [0..N -> [I -> SUBSET I]]
  BY <1>6 DEF S
<1>16. ReachRun(P, N, root, H)
  BY <1>7, <1>8, <1>14, <1>15 DEF I, ReachRun
<1> QED
  BY <1>16

\* A key leads to page id on some level.
Led(at, h, id) == \E n \in 0..h, k \in Int : at[n][k] = id

\* The kids of a page to which a key leads are pages to which keys lead.
LEMMA LedKid ==
    ASSUME NEW P, NEW N, NEW lv, NEW L, NEW root, Shape(P, N, lv, L, root),
           NEW at, Routes(P, lv[root], root, at), NEW id, Led(at, lv[root], id)
    PROVE  /\ id \in L /\ id \in Ids(N) /\ (IsLeafLevel(P[id]) <=> lv[id] = 0)
           /\ ~IsLeafLevel(P[id]) => /\ ToSet(ChildIds(P[id])) = Kids(P[id])
                                     /\ \A c \in Kids(P[id]) : Led(at, lv[root], c)
<1>1. PICK n \in 0..lv[root], k \in Int : at[n][k] = id
  BY DEF Led
<1>2. id \in L /\ lv[id] = n
  BY <1>1, RouteLevels
<1>3. id \in Ids(N) /\ PageAt(P[id], lv[id], lv, L, Ids(N))
  BY <1>2, ShapeFacts
<1>4. IsLeafLevel(P[id]) <=> lv[id] = 0
  BY <1>3 DEF PageAt
<1>5. ASSUME ~IsLeafLevel(P[id])
      PROVE  ToSet(ChildIds(P[id])) = Kids(P[id]) /\ \A c \in Kids(P[id]) : Led(at, lv[root], c)
  <2>1. Len(P[id].cells) \in Nat
    BY <1>2, <1>4, <1>5, ParentPage
  <2>2. ToSet(ChildIds(P[id])) = Kids(P[id])
    BY <2>1, ChildIdsKids
  <2>3. n \in 1..lv[root] /\ n - 1 \in 0..lv[root]
    <3>1. lv[root] \in Nat /\ n # 0
      BY <1>2, <1>4, <1>5 DEF Routes
    <3> QED
      BY <1>1, <3>1
  <2>4. ASSUME NEW c \in Kids(P[id]) PROVE Led(at, lv[root], c)
    <3>1. PICK i \in 1..Len(P[id].cells) + 1 : Kid(P[id], i) = c
      BY DEF Kids
    <3>2. \E j \in Int : LeadsTo(P, at, n, id, i, j)
      BY <1>1, <2>3, <3>1, KidRouted
    <3>3. PICK j \in Int : at[n - 1][j] = c
      BY <3>1, <3>2 DEF LeadsTo
    <3> QED
      BY <2>3, <3>3 DEF Led
  <2> QED
    BY <2>2, <2>4
<1> QED
  BY <1>2, <1>3, <1>4, <1>5

\* The root leads to such pages only.
LEMMA ReachLed ==
    ASSUME NEW P, NEW N, NEW lv, NEW L, NEW root, Shape(P, N, lv, L, root),
           NEW at, Routes(P, lv[root], root, at), NEW x \in ReachOf(P, root, N)
    PROVE  Led(at, lv[root], x)
<1> DEFINE h == lv[root]
<1>1. PICK H : ReachRun(P, N, root, H)
  BY ReachRuns
<1>2. N \in Nat
  BY ShapeFacts
<1> DEFINE Good == {m \in 0..N : \A id : Led(at, h, id) => \A y \in H[m][id] : Led(at, h, y)}
<1>3. ASSUME NEW id, Led(at, h, id) PROVE id \in Ids(N)
  BY <1>3, LedKid
<1>4. 0 \in Good
  <2>1. 0 \in 0..N
    BY <1>2
  <2>2. ASSUME NEW id, Led(at, h, id) PROVE H[0][id] = {id}
    BY <1>1, <1>3, <2>2 DEF ReachRun
  <2> HIDE DEF h
  <2> QED
    BY <2>1, <2>2
<1>5. ASSUME NEW m \in 1..N, m - 1 \in Good PROVE m \in Good
  <2>1. m \in 0..N
    BY <1>2
  <2>2. ASSUME NEW id, Led(at, h, id), NEW y \in H[m][id] PROVE Led(at, h, y)
    <3>1. H[m][id] = Further(P, H[m - 1], id)
      BY <1>1, <1>3, <2>2 DEF ReachRun
    <3>2. y = id \/ (~IsLeafLevel(P[id]) /\ \E c \in ToSet(ChildIds(P[id])) : y \in H[m - 1][c])
      BY <2>2, <3>1 DEF Further
    <3>3. ~IsLeafLevel(P[id]) => \A c \in ToSet(ChildIds(P[id])) : Led(at, h, c)
      BY <2>2, LedKid
    <3> HIDE DEF h
    <3> QED
      BY <1>5, <2>2, <3>2, <3>3
  <2> HIDE DEF h
  <2> QED
    BY <2>1, <2>2
<1>6. \A m \in 0..N : m \in Good
  <2> HIDE DEF Good
  <2> QED
    BY <1>2, <1>4, <1>5, UpTo
<1>7. N \in Good
  BY <1>2, <1>6
<1>8. Led(at, h, root)
  <2>1. h \in 0..h /\ 0 \in Int /\ at[h][0] = root
    BY DEF Routes
  <2> HIDE DEF h
  <2> QED
    BY <2>1 DEF Led
<1>9. x \in H[N][root]
  BY <1>1 DEF ReachRun
<1> HIDE DEF h
<1>10. Led(at, h, x)
  BY <1>7, <1>8, <1>9
<1> QED
  BY <1>10 DEF h

\* The root leads to all leaves to which keys lead.
LEMMA LeafReached ==
    ASSUME NEW P, NEW N, NEW lv, NEW L, NEW root, Shape(P, N, lv, L, root),
           NEW at, Routes(P, lv[root], root, at), NEW key \in Int
    PROVE  at[0][key] \in ReachOf(P, root, N) /\ IsLeafLevel(P[at[0][key]])
<1> DEFINE h == lv[root]
           leaf == at[0][key]
<1>1. PICK H : ReachRun(P, N, root, H)
  BY ReachRuns
<1>2. N \in Nat /\ h \in Nat /\ h < N
  <2>1. N \in Nat /\ h < N
    BY ShapeFacts
  <2>2. h \in Nat
    BY DEF Routes
  <2> QED
    BY <2>1, <2>2
<1>3. ASSUME NEW n \in 0..h
      PROVE  /\ at[n][key] \in Ids(N) /\ (IsLeafLevel(P[at[n][key]]) <=> n = 0)
             /\ ~IsLeafLevel(P[at[n][key]]) => ToSet(ChildIds(P[at[n][key]])) = Kids(P[at[n][key]])
  <2>1. Led(at, h, at[n][key])
    <3> HIDE DEF h
    <3> QED
      BY DEF Led
  <2>2. lv[at[n][key]] = n
    BY RouteLevels
  <2> QED
    BY <2>1, <2>2, LedKid
<1> DEFINE Good == {n \in 0..h : \A m \in n..N : leaf \in H[m][at[n][key]]}
<1>4. ASSUME NEW m \in 0..N PROVE leaf \in H[m][leaf]
  <2>1. 0 \in 0..h
    BY <1>2
  <2>2. leaf \in Ids(N) /\ IsLeafLevel(P[leaf])
    BY <1>3, <2>1
  <2>3. CASE m = 0
    BY <1>1, <2>2, <2>3 DEF ReachRun
  <2>4. CASE m # 0
    <3>1. m \in 1..N
      BY <1>2, <2>4
    <3>2. H[m][leaf] = Further(P, H[m - 1], leaf)
      BY <1>1, <2>2, <3>1 DEF ReachRun
    <3> QED
      BY <2>2, <3>2 DEF Further
  <2> QED
    BY <2>3, <2>4
<1> HIDE DEF leaf
<1>5. 0 \in Good
  BY <1>2, <1>4 DEF leaf
<1>6. ASSUME NEW n \in 1..h, n - 1 \in Good PROVE n \in Good
  <2>1. n \in 0..h /\ n # 0 /\ n \in Nat
    BY <1>2
  <2>2. ASSUME NEW m \in n..N PROVE leaf \in H[m][at[n][key]]
    <3>1. m \in 1..N /\ m - 1 \in (n - 1)..N
      BY <1>2, <2>1
    <3>2. leaf \in H[m - 1][at[n - 1][key]]
      BY <1>6, <3>1
    <3>3. H[m][at[n][key]] = Further(P, H[m - 1], at[n][key]) /\ ~IsLeafLevel(P[at[n][key]])
      BY <1>1, <1>3, <2>1, <3>1 DEF ReachRun
    <3>4. at[n - 1][key] \in ToSet(ChildIds(P[at[n][key]]))
      <4>1. at[n - 1][key] = Child(P[at[n][key]], key)
        BY RouteLink
      <4>2. Child(P[at[n][key]], key) \in Kids(P[at[n][key]])
        <5>1. PICK q : q = at[n][key]
          OBVIOUS
        <5>2. q \in L /\ lv[q] = n
          BY <2>1, <5>1, RouteLevels
        <5>3. lv[q] # 0
          BY <2>1, <5>2
        <5>4. Child(P[q], key) \in Kids(P[q])
          BY <5>2, <5>3, DownChild
        <5> QED
          BY <5>1, <5>4
      <4> QED
        BY <1>3, <2>1, <3>3, <4>1, <4>2
    <3> HIDE DEF h
    <3> QED
      BY <3>2, <3>3, <3>4 DEF Further
  <2> HIDE DEF h
  <2> QED
    BY <2>1, <2>2
<1>7. \A n \in 0..h : n \in Good
  <2> HIDE DEF Good
  <2> QED
    BY <1>2, <1>5, <1>6, UpTo
<1>8. leaf \in H[N][at[h][key]]
  <2>1. h \in Good /\ N \in h..N
    BY <1>2, <1>7
  <2> QED
    BY <2>1
<1>9. at[h][key] = root
  BY DEF Routes
<1>10. leaf \in ReachOf(P, root, N)
  BY <1>1, <1>8, <1>9 DEF ReachRun
<1>11. 0 \in 0..h
  BY <1>2
<1> QED
  BY <1>3, <1>10, <1>11 DEF leaf

-----------------------------------------------------------------------------
(* Searches find every key: the inductive invariant. *)

\* The pages are where their levels say, and keys lead to them; a page that is to be filled
\* up has less than DEGREE cells.
Routed(N, lv, L, at) ==
    /\ TreeTyped(N, lv, L)
    /\ Routes(pages, lv[root_id], root_id, at)
    /\ op.pc = "underfull" => Small(pages[op.id])
\* The inductive invariant: there are levels and routes.
RoutedInv == \E N, lv, L, at : Routed(N, lv, L, at)

\* All keys lead to the empty root.
LEMMA RoutedInit ==
    ASSUME Init
    PROVE  RoutedInv
<1> DEFINE lv == [i \in Nat |-> 0]
           at == [n \in Nat |-> [k \in Int |-> 0]]
<1>1. TreeTyped(1, lv, {0})
  BY TypedInit
<1>2. root_id = 0 /\ op.pc # "underfull" /\ pages[0].cells = <<>>
  BY DEF Init, Idle, NewPage
<1>3. lv[root_id] = 0
  BY <1>2
<1>4. KeysOf(pages[0]) = {}
  BY <1>2 DEF KeysOf
<1>5. at \in [Nat -> [Int -> Nat]] /\ \A k \in Int : at[0][k] = 0
  OBVIOUS
<1> HIDE DEF lv, at
<1>6. Own(pages, 0, at[0])
  BY <1>4, <1>5 DEF Own
<1>7. Routes(pages, 0, 0, at)
  <2>1. \A n \in 0..0 : n = 0
    OBVIOUS
  <2>2. 0 \in Nat /\ \A n \in 1..0 : FALSE
    OBVIOUS
  <2> QED
    BY <1>5, <1>6, <2>1, <2>2 DEF Routes
<1>8. Routed(1, lv, {0}, at)
  BY <1>1, <1>2, <1>3, <1>7 DEF Routed
<1> QED
  BY <1>8 DEF RoutedInv

\* What a step does to the entries of the keys.
Changes(e, g) ==
    \/ SameEntries(pages, e, pages', g)
    \/ \E key \in Keys : \E record \in Records[key] :
          Insert(key, record) /\ Inserted(pages, e, pages', g, key, record)
    \/ \E key \in Deletable : Delete(key) /\ Removed(pages, e, pages', g, key)

\* The invariant after a step, and what the step did to the entries.
RoutedThen(at) == \E M, mv, K, b : Routed(M, mv, K, b)' /\ Changes(at[0], b[0])

\* A step that leaves pages and root alone.
LEMMA RoutedStill ==
    ASSUME NEW N, NEW lv, NEW L, NEW at, Routed(N, lv, L, at), TreeTyped(N, lv, L)',
           pages' = pages, root_id' = root_id, op' = op \/ op' = Idle
    PROVE  RoutedThen(at)
<1>1. SameEntries(pages, at[0], pages', at[0])
  BY SameEntriesNone
<1>2. op'.pc = "underfull" => Small(pages'[op'.id])
  BY DEF Routed, Idle
<1>3. Routes(pages', lv[root_id'], root_id', at)
  BY DEF Routed
<1>4. Routed(N, lv, L, at)'
  BY <1>2, <1>3 DEF Routed
<1> QED
  BY <1>1, <1>4 DEF RoutedThen, Changes

\* A step that keeps entries.
LEMMA RoutedKept ==
    ASSUME NEW M, NEW mv, NEW K, TreeTyped(M, mv, K)', NEW at, RoutesKept(mv, at)
    PROVE  RoutedThen(at)
<1>1. PICK b : Routes(pages', mv[root_id'], root_id', b) /\ SameEntries(pages, at[0], pages', b[0])
  BY DEF RoutesKept
<1>2. Routed(M, mv, K, b)'
  BY <1>1 DEF Routed, RoutesKept
<1> QED
  BY <1>1, <1>2 DEF RoutedThen, Changes

\* Every step keeps the invariant.
LEMMA RoutedStep ==
    ASSUME NEW N, NEW lv, NEW L, NEW at, Routed(N, lv, L, at), [Next]_vars, OneRoot, FailsClean
    PROVE  RoutedThen(at)
<1>1. TreeTyped(N, lv, L) /\ Routes(pages, lv[root_id], root_id, at) /\ (op.pc = "underfull" => Small(pages[op.id]))
  BY DEF Routed
<1>2. ASSUME NEW key \in Keys, Get(key) PROVE RoutedThen(at)
  <2>1. TreeTyped(N, lv, L)'
    BY <1>1, <1>2, TypedGet
  <2>2. pages' = pages /\ root_id' = root_id /\ op' = Idle
    BY <1>2 DEF Get, Answer
  <2> QED
    BY <2>1, <2>2, RoutedStill
<1>0. ASSUME NEW key \in Keys, RefuseRow(key) PROVE RoutedThen(at)
  <2>1. TreeTyped(N, lv, L)'
    BY <1>0, <1>1, TypedRefuse
  <2>2. pages' = pages /\ root_id' = root_id /\ op' = Idle
    BY <1>0 DEF RefuseRow, Answer
  <2> QED
    BY <2>1, <2>2, RoutedStill
<1>3. ASSUME NEW key \in Keys, NEW record \in Records[key], Insert(key, record) PROVE RoutedThen(at)
  <2>1. TreeTyped(N, lv, L)'
    BY <1>1, <1>3, TypedInsert
  <2>2. /\ op'.pc # "underfull" /\ root_id' = root_id
        /\ \E b : Routes(pages', lv[root_id], root_id, b) /\ Inserted(pages, at[0], pages', b[0], key, record)
    BY <1>1, <1>3, RoutedInsert
  <2>3. PICK b : Routes(pages', lv[root_id], root_id, b) /\ Inserted(pages, at[0], pages', b[0], key, record)
    BY <2>2
  <2>4. Routed(N, lv, L, b)'
    BY <2>1, <2>2, <2>3 DEF Routed
  <2>5. Changes(at[0], b[0])
    BY <1>3, <2>3 DEF Changes
  <2> QED
    BY <2>4, <2>5 DEF RoutedThen
<1>4. ASSUME NEW key \in Deletable, Delete(key) PROVE RoutedThen(at)
  <2>0. key \in Keys
    BY TreeAssumption DEF TreeAssumption
  <2>1. TreeTyped(N, lv, L)'
    BY <1>1, <1>4, <2>0, TypedDelete
  <2>2. /\ op'.pc = "underfull" => Small(pages'[op'.id])
        /\ root_id' = root_id
        /\ \E b : Routes(pages', lv[root_id], root_id, b) /\ Removed(pages, at[0], pages', b[0], key)
    BY <1>1, <1>4, <2>0, RoutedDelete
  <2>3. PICK b : Routes(pages', lv[root_id], root_id, b) /\ Removed(pages, at[0], pages', b[0], key)
    BY <2>2
  <2>4. Routed(N, lv, L, b)'
    BY <2>1, <2>2, <2>3 DEF Routed
  <2>5. Changes(at[0], b[0])
    BY <1>4, <2>3 DEF Changes
  <2> QED
    BY <2>4, <2>5 DEF RoutedThen
<1>5. ASSUME HandleOverfull PROVE RoutedThen(at)
  <2>1. PICK M, mv, K : TreeTyped(M, mv, K)' /\ TopLevel(mv, lv)
    BY <1>1, <1>5, TypedOverfull
  <2>2. RoutesKept(mv, at)
    BY <1>1, <1>5, <2>1, RoutedOverfull
  <2> QED
    BY <2>1, <2>2, RoutedKept
<1>6. ASSUME HandleUnderfull PROVE RoutedThen(at)
  <2>1. PICK K : TreeTyped(N, lv, K)'
    BY <1>1, <1>6, TypedUnderfull
  <2>2. Small(pages[op.id])
    BY <1>1, <1>6 DEF HandleUnderfull
  <2>3. RoutesKept(lv, at)
    BY <1>1, <1>6, <2>2, RoutedUnderfull
  <2> QED
    BY <2>1, <2>3, RoutedKept
<1>7. ASSUME Reopen PROVE RoutedThen(at)
  <2>1. /\ op = Idle /\ reopens < MaxReopens /\ root_id' = OpenedRoot /\ reopens' = reopens + 1
        /\ pages' = pages /\ op' = op /\ reply' = reply
    BY <1>7 DEF Reopen
  <2>2. reopens \in 0..MaxReopens /\ MaxReopens \in Nat
    BY <1>1, TreeAssumption DEF TreeTyped, TreeAssumption
  <2>3. reopens' \in 0..MaxReopens /\ reopens' # reopens
    BY <2>1, <2>2
  <2>4. root_id' = root_id
    BY <1>1, <2>1, <2>3, OnlyRoot DEF OneRoot, TreeTyped
  <2>5. TreeTyped(N, lv, L)'
    BY <1>1, <2>1, <2>3, <2>4 DEF TreeTyped, CallAt
  <2> QED
    BY <2>1, <2>4, <2>5, RoutedStill
<1>8. ASSUME UNCHANGED vars PROVE RoutedThen(at)
  <2>1. TreeTyped(N, lv, L)'
    BY <1>1, <1>8 DEF vars, TreeTyped, CallAt
  <2>2. pages' = pages /\ root_id' = root_id /\ op' = op
    BY <1>8 DEF vars
  <2> QED
    BY <2>1, <2>2, RoutedStill
<1> QED
  BY <1>0, <1>2, <1>3, <1>4, <1>5, <1>6, <1>7, <1>8 DEF Next

-----------------------------------------------------------------------------
(* What a search finds. *)

\* A leaf that the root leads to is where searches for its keys end.
LEMMA RoutedSearch ==
    ASSUME NEW N, NEW lv, NEW L, NEW at, Routed(N, lv, L, at)
    PROVE  SearchFinds
<1>1. Shape(pages, N, lv, L, root_id) /\ Routes(pages, lv[root_id], root_id, at)
  BY DEF Routed, TreeTyped
<1>2. NextId = N
  BY TypedNext DEF Routed
<1>3. ASSUME NEW l \in Leaves, NEW k \in KeysOf(pages[l]) PROVE Last(Breadcrumbs(k)) = l
  <2>1. l \in ReachOf(pages, root_id, N) /\ IsLeafLevel(pages[l])
    BY <1>2, ReachableIs DEF Leaves
  <2>2. Led(at, lv[root_id], l)
    BY <1>1, <2>1, ReachLed
  <2>3. lv[l] = 0
    BY <1>1, <2>1, <2>2, LedKid
  <2>4. PICK n \in 0..lv[root_id], j \in Int : at[n][j] = l
    BY <2>2 DEF Led
  <2>5. n = 0
    BY <1>1, <2>3, <2>4, RouteLevels
  <2>6. k \in Int /\ at[0][k] = l
    <3>1. k \in KeysOf(pages[at[n][j]])
      BY <2>4
    <3>2. k \in Int /\ at[n][k] = at[n][j]
      BY <1>1, <3>1, RouteKeys
    <3> QED
      BY <2>4, <2>5, <3>2
  <2>7. PICK t : t = Breadcrumbs(k)
    OBVIOUS
  <2>8. Last(t) = at[0][k]
    BY <1>1, <2>6, <2>7, SearchEnds
  <2> QED
    BY <2>6, <2>7, <2>8
<1> QED
  BY <1>3 DEF SearchFinds

\* A key is found on the leaf to which it leads.
FoundAt(P, e, key) == key \in KeysOf(P[e[key]])
\* The last page of a descent.
LEMMA DescentEnds ==
    ASSUME NEW P, NEW N, NEW lv, NEW L, NEW root, Shape(P, N, lv, L, root),
           NEW at, Routes(P, lv[root], root, at), NEW key \in Int
    PROVE  Last(DescentOf(P, root, Cardinality(DOMAIN P), key)) = at[0][key]
<1>1. Cardinality(DOMAIN P) = N
  BY ShapeFacts, CountIds
<1>2. PICK t : t = DescentOf(P, root, N, key)
  OBVIOUS
<1>3. Last(t) = at[0][key]
  BY <1>2, SearchRoute
<1> QED
  BY <1>1, <1>2, <1>3
\* Found, before and after a step.
LEMMA FoundIs ==
    ASSUME NEW N, NEW lv, NEW L, NEW at, NEW key \in Int
    PROVE  /\ Routed(N, lv, L, at) => (Found(key) <=> FoundAt(pages, at[0], key))
           /\ Routed(N, lv, L, at)' => (Found(key)' <=> FoundAt(pages', at[0], key))
<1>1. ASSUME Routed(N, lv, L, at) PROVE Found(key) <=> FoundAt(pages, at[0], key)
  <2>1. Shape(pages, N, lv, L, root_id) /\ Routes(pages, lv[root_id], root_id, at)
    BY <1>1 DEF Routed, TreeTyped
  <2>2. Last(DescentOf(pages, root_id, NextId, key)) = at[0][key]
    BY <2>1, DescentEnds DEF NextId
  <2> QED
    BY <2>2, BreadcrumbsIs DEF Found, FoundAt
<1>2. ASSUME Routed(N, lv, L, at)' PROVE Found(key)' <=> FoundAt(pages', at[0], key)
  <2>1. Shape(pages', N, lv, L, root_id') /\ Routes(pages', lv[root_id'], root_id', at)
    BY <1>2 DEF Routed, TreeTyped
  <2>2. Last(DescentOf(pages', root_id', NextId', key)) = at[0][key]
    BY <2>1, DescentEnds DEF NextId
  <2> QED
    BY <2>2, BreadcrumbsIs DEF Found, FoundAt
<1> QED
  BY <1>1, <1>2

\* Entries that are kept.
KeptBut(P, e, Q, g, key) ==
    \A c : c.key \in Int /\ c.key # key /\ c \in ToSet(P[e[c.key]].cells) => c \in ToSet(Q[g[c.key]].cells)
\* A key whose entry is kept is found.
LEMMA KeptFound ==
    ASSUME NEW P, NEW e, NEW Q, NEW g, NEW key, KeptBut(P, e, Q, g, key),
           NEW k \in Int, k # key, FoundAt(P, e, k)
    PROVE  FoundAt(Q, g, k)
<1>1. PICK c \in ToSet(P[e[k]].cells) : c.key = k
  BY KeysOfSet DEF FoundAt
<1>2. c \in ToSet(Q[g[k]].cells)
  BY <1>1 DEF KeptBut
<1> QED
  BY <1>1, <1>2, KeysOfSet DEF FoundAt

\* No step but a deletion loses a key, and no deletion another's.
LEMMA FoundKept ==
    ASSUME NEW e, NEW g, Changes(e, g), NEW k \in Keys, FoundAt(pages, e, k), ~FoundAt(pages', g, k),
           Found(k), ~Found(k)', FailsClean
    PROVE  Deletes(k)
<1>0. k \in Int
  BY Constants
<1>1. \A d : KeptBut(pages, e, pages', g, d) => k = d
  BY <1>0, KeptFound
<1>2. ~SameEntries(pages, e, pages', g)
  <2>1. SameEntries(pages, e, pages', g) => KeptBut(pages, e, pages', g, k - 1)
    BY DEF SameEntries, KeptBut
  <2> QED
    BY <1>0, <1>1, <2>1
<1>3. ASSUME NEW key \in Keys, NEW record \in Records[key], Inserted(pages, e, pages', g, key, record)
      PROVE  FALSE
  <2>1. EntryAdded(pages, e, pages', g, key, record)
    BY <1>2, <1>3 DEF Inserted
  <2>2. KeptBut(pages, e, pages', g, k - 1)
    BY <2>1 DEF EntryAdded, KeptBut
  <2> QED
    BY <1>0, <1>1, <2>2
<1>4. ASSUME NEW key \in Deletable, Delete(key), Removed(pages, e, pages', g, key)
      PROVE  Deletes(k)
  <2>1. EntriesLess(pages, e, pages', g, key) /\ key \in KeysOf(pages[e[key]])
    BY <1>2, <1>4 DEF Removed
  <2>2. KeptBut(pages, e, pages', g, key)
    BY <2>1 DEF EntriesLess, KeptBut
  <2>3. k = key
    BY <1>1, <2>2
  <2>4. PICK trail : trail = Breadcrumbs(key)
    OBVIOUS
  <2>5. key \in KeysOf(pages[Last(trail)])
    BY <2>3, <2>4 DEF Found
  <2>6. \/ Answer(<<"delete", key>>, "ok")
        \/ Answer(<<"delete", key>>, "error") /\ root_id' = root_id
        \/ op' = Underfull(<<"delete", key>>, Last(trail), Front(trail))
    BY <1>4, <2>4, <2>5 DEF Delete
  <2>9. ASSUME Answer(<<"delete", key>>, "error"), root_id' = root_id PROVE FALSE
    <3>1. pages' = pages
      BY <2>9 DEF Answer, FailsClean
    <3>2. NextId' = NextId
      BY <3>1 DEF NextId
    <3>3. Found(k)' <=> Found(k)
      BY <2>9, <3>1, <3>2, BreadcrumbsIs DEF Found
    <3> QED
      BY <3>3
  <2>7. Answer(<<"delete", key>>, "ok") => reply' = [op |-> "delete", key |-> key, out |-> "ok"]
    BY DEF Answer
  <2>8. op' = Underfull(<<"delete", key>>, Last(trail), Front(trail)) =>
          op'.pc = "underfull" /\ op'.req = <<"delete", key>>
    BY DEF Underfull
  <2> QED
    BY <2>3, <2>6, <2>7, <2>8, <2>9 DEF Deletes
<1> QED
  BY <1>2, <1>3, <1>4 DEF Changes

\* Searches find every key that a leaf has, in every state: through every interleaving of
\* splits, borrowing, merges and collapses of the root, while no call fails half way and the
\* files are opened only with one page that says it is a root.
THEOREM SearchesFind == Spec /\ [][OneRoot /\ FailsClean]_vars => []SearchFinds
<1>1. Init => RoutedInv
  BY RoutedInit
<1>2. RoutedInv /\ [Next]_vars /\ [OneRoot /\ FailsClean]_vars => RoutedInv'
  <2>1. UNCHANGED vars => OneRoot /\ FailsClean
    BY DEF vars, OneRoot, FailsClean
  <2>2. ASSUME NEW N, NEW lv, NEW L, NEW at, Routed(N, lv, L, at), [Next]_vars, OneRoot, FailsClean
        PROVE  RoutedInv'
    <3>1. PICK M, mv, K, b : Routed(M, mv, K, b)'
      BY <2>2, RoutedStep DEF RoutedThen
    <3> QED
      BY <3>1 DEF RoutedInv
  <2> QED
    BY <2>1, <2>2 DEF RoutedInv
<1>3. RoutedInv => SearchFinds
  BY RoutedSearch DEF RoutedInv
<1> QED
  BY <1>1, <1>2, <1>3, PTL DEF Spec

\* A key that a search finds is found until it is deleted: splits, borrowing, merges, the
\* lost separators of deletions and new roots hide no other key, in the middle of a call too,
\* while no call fails half way and the files are opened only with one page that says it is
\* a root.
THEOREM FoundUntilDeleted == Spec /\ [][OneRoot /\ FailsClean]_vars => KeysStayFound
<1>1. Init => RoutedInv
  BY RoutedInit
<1> DEFINE Kept == \A k \in Keys : Found(k) /\ ~Found(k)' => Deletes(k)
<1>2. RoutedInv /\ [Next]_vars /\ [OneRoot /\ FailsClean]_vars => RoutedInv' /\ [Kept]_vars
  <2>1. UNCHANGED vars => OneRoot /\ FailsClean
    BY DEF vars, OneRoot, FailsClean
  <2>2. ASSUME NEW N, NEW lv, NEW L, NEW at, Routed(N, lv, L, at), [Next]_vars, OneRoot, FailsClean
        PROVE  RoutedInv' /\ Kept
    <3>1. PICK M, mv, K, b : Routed(M, mv, K, b)' /\ Changes(at[0], b[0])
      BY <2>2, RoutedStep DEF RoutedThen
    <3>2. ASSUME NEW k \in Keys, Found(k), ~Found(k)' PROVE Deletes(k)
      <4>1. k \in Int
        BY Constants
      <4>2. FoundAt(pages, at[0], k) /\ ~FoundAt(pages', b[0], k)
        BY <2>2, <3>1, <3>2, <4>1, FoundIs
      <4> QED
        BY <2>2, <3>1, <3>2, <4>2, FoundKept
    <3> QED
      BY <3>1, <3>2 DEF RoutedInv
  <2> QED
    BY <2>1, <2>2 DEF RoutedInv
<1> QED
  BY <1>1, <1>2, PTL DEF Spec, KeysStayFound

-----------------------------------------------------------------------------
(* The map that the leaves are. *)

\* Contents, for pages P of which those in R are reachable.
ContentsOf(P, R) == UNION {ToSet(P[l].cells) : l \in {id \in R : IsLeafLevel(P[id])}}
\* Contents, before and after a step.
LEMMA ContentsIs ==
    /\ Contents = ContentsOf(pages, ReachOf(pages, root_id, NextId))
    /\ Contents' = ContentsOf(pages', ReachOf(pages', root_id', NextId'))
<1> QED
  BY ReachableIs DEF Contents, Leaves, ContentsOf

\* The entries of m are those that keys lead to, one for a key.
Entry(P, e, c) == c.key \in Int /\ c \in ToSet(P[e[c.key]].cells)
Entries(P, e, m) ==
    /\ \A c : c \in m <=> Entry(P, e, c)
    /\ \A c \in m : c = [key |-> c.key, val |-> c.val]
    /\ \A c, d \in m : c.key = d.key => c = d

\* The cells of the leaves are entries that keys lead to.
LEMMA EntriesAre ==
    ASSUME NEW P, NEW N, NEW lv, NEW L, NEW root, Shape(P, N, lv, L, root),
           NEW at, Routes(P, lv[root], root, at)
    PROVE  Entries(P, at[0], ContentsOf(P, ReachOf(P, root, N)))
<1> DEFINE m == ContentsOf(P, ReachOf(P, root, N))
<1>1. ASSUME NEW c \in m PROVE Entry(P, at[0], c)
  <2>1. PICK l \in ReachOf(P, root, N) : IsLeafLevel(P[l]) /\ c \in ToSet(P[l].cells)
    BY <1>1 DEF ContentsOf
  <2>2. Led(at, lv[root], l)
    BY <2>1, ReachLed
  <2>3. lv[l] = 0
    BY <2>1, <2>2, LedKid
  <2>4. PICK n \in 0..lv[root], j \in Int : at[n][j] = l
    BY <2>2 DEF Led
  <2>5. n = 0
    BY <2>3, <2>4, RouteLevels
  <2>6. c.key \in KeysOf(P[at[n][j]])
    BY <2>1, <2>4, CellKey
  <2>7. PICK x : x = c.key
    OBVIOUS
  <2>8. x \in KeysOf(P[at[n][j]])
    BY <2>6, <2>7
  <2>9. x \in Int /\ at[n][x] = at[n][j]
    BY <2>8, RouteKeys
  <2> QED
    BY <2>1, <2>4, <2>5, <2>7, <2>9 DEF Entry
<1>2. ASSUME NEW c, Entry(P, at[0], c) PROVE c \in m
  <2>1. PICK x : x = c.key
    OBVIOUS
  <2>2. x \in Int /\ c \in ToSet(P[at[0][x]].cells)
    BY <1>2, <2>1 DEF Entry
  <2>3. at[0][x] \in ReachOf(P, root, N) /\ IsLeafLevel(P[at[0][x]])
    BY <2>2, LeafReached
  <2> QED
    BY <2>2, <2>3 DEF ContentsOf
<1>3. ASSUME NEW x \in Int PROVE P[at[0][x]].cells \in Lists(AllRecords)
  <2>1. 0 \in 0..lv[root]
    BY DEF Routes
  <2>2. at[0][x] \in L /\ lv[at[0][x]] = 0
    BY <1>3, <2>1, RouteLevels
  <2>3. PICK l : l = at[0][x]
    OBVIOUS
  <2>4. PageAt(P[l], lv[l], lv, L, Ids(N)) /\ lv[l] = 0
    BY <2>2, <2>3, ShapeFacts
  <2>5. P[l] \in PagesOf(AllRecords, Ids(N))
    BY <2>4 DEF PageAt, Vals, Ptrs
  <2> QED
    BY <2>3, <2>5, PageFacts
<1>4. ASSUME NEW c \in m PROVE c = [key |-> c.key, val |-> c.val]
  <2>1. PICK x : x = c.key
    OBVIOUS
  <2>2. x \in Int /\ c \in ToSet(P[at[0][x]].cells)
    BY <1>1, <1>4, <2>1 DEF Entry
  <2>3. PICK s : s = P[at[0][x]].cells
    OBVIOUS
  <2>4. s \in Lists(AllRecords) /\ c \in ToSet(s)
    BY <1>3, <2>2, <2>3
  <2>5. PICK i \in 1..Len(s) : s[i] = c
    BY <2>4, ListFacts DEF ToSet
  <2>6. s[i] = [key |-> s[i].key, val |-> s[i].val]
    BY <2>4, ListFacts
  <2> QED
    BY <2>5, <2>6
<1>5. ASSUME NEW c \in m, NEW d \in m, c.key = d.key PROVE c = d
  <2>1. PICK x : x = c.key
    OBVIOUS
  <2>2. x \in Int /\ c \in ToSet(P[at[0][x]].cells) /\ d \in ToSet(P[at[0][x]].cells)
    BY <1>1, <1>5, <2>1 DEF Entry
  <2>3. PICK s : s = P[at[0][x]].cells
    OBVIOUS
  <2>4. s \in Lists(AllRecords) /\ c \in ToSet(s) /\ d \in ToSet(s)
    BY <1>3, <2>2, <2>3
  <2> QED
    BY <1>5, <2>4, ListFacts DEF ToSet
<1> HIDE DEF m
<1>6. Entries(P, at[0], m)
  BY <1>1, <1>2, <1>4, <1>5 DEF Entries
<1> QED
  BY <1>6 DEF m

\* So Contents has the entries, before and after a step.
LEMMA ContentsAre ==
    ASSUME NEW N, NEW lv, NEW L, NEW at
    PROVE  /\ Routed(N, lv, L, at) => Entries(pages, at[0], Contents)
           /\ Routed(N, lv, L, at)' => Entries(pages', at[0], Contents')
<1>1. ASSUME Routed(N, lv, L, at) PROVE Entries(pages, at[0], Contents)
  <2>1. Shape(pages, N, lv, L, root_id) /\ Routes(pages, lv[root_id], root_id, at)
    BY <1>1 DEF Routed, TreeTyped
  <2>2. NextId = N
    BY <2>1, ShapeFacts, CountIds DEF NextId
  <2> QED
    BY <2>1, <2>2, EntriesAre, ContentsIs
<1>2. ASSUME Routed(N, lv, L, at)' PROVE Entries(pages', at[0], Contents')
  <2>1. Shape(pages', N, lv, L, root_id') /\ Routes(pages', lv[root_id'], root_id', at)
    BY <1>2 DEF Routed, TreeTyped
  <2>2. NextId' = N
    BY <2>1, ShapeFacts, CountIds DEF NextId
  <2> QED
    BY <2>1, <2>2, EntriesAre, ContentsIs
<1> QED
  BY <1>1, <1>2

\* The sizes KVMap speaks of.
LEMMA MapCount == \A S : Map!Cardinality(S) = Cardinality(S)
<1> QED
  BY DEF Map!Cardinality, Cardinality

\* A finite set with one entry for a key has as many keys as entries.
KeysOnce(m) == \A c, d \in m : c.key = d.key => c = d
\* KeysIn has their keys.
LEMMA OnceKeys ==
    ASSUME NEW m, IsFiniteSet(m), KeysOnce(m)
    PROVE  Cardinality(Map!KeysIn(m)) = Cardinality(m)
<1> DEFINE f == [c \in m |-> c.key]
<1>1. f \in Bijection(m, Map!KeysIn(m))
  BY DEF KeysOnce, Map!KeysIn, Bijection, Injection, Surjection, IsInjective
<1> QED
  BY <1>1, FS_Bijection DEF ExistsBijection
\* A set with one more key is one with one more entry.
LEMMA MoreByOne ==
    ASSUME NEW m, IsFiniteSet(m), NEW c, c \notin m, NEW n, n = m \cup {c}, KeysOnce(n)
    PROVE  IsFiniteSet(n) /\ Map!AddsOne(m, n)
<1>1. IsFiniteSet(n) /\ Cardinality(n) = Cardinality(m) + 1
  BY FS_AddElement
<1>2. Cardinality(Map!KeysIn(n)) = Cardinality(n)
  BY <1>1, OnceKeys
<1>3. m \subseteq n
  OBVIOUS
<1> QED
  BY <1>1, <1>2, <1>3, MapCount DEF Map!AddsOne

\* The keys of the entries are those that searches find.
LEMMA KeysFound ==
    ASSUME NEW P, NEW e, NEW m, Entries(P, e, m), NEW k \in Int
    PROVE  k \in Map!KeysIn(m) <=> FoundAt(P, e, k)
<1>1. ASSUME k \in Map!KeysIn(m) PROVE FoundAt(P, e, k)
  <2>1. PICK c \in m : c.key = k
    BY <1>1 DEF Map!KeysIn
  <2>2. c \in ToSet(P[e[k]].cells)
    BY <2>1 DEF Entries, Entry
  <2> QED
    BY <2>1, <2>2, KeysOfSet DEF FoundAt
<1>2. ASSUME FoundAt(P, e, k) PROVE k \in Map!KeysIn(m)
  <2>1. PICK c \in ToSet(P[e[k]].cells) : c.key = k
    BY <1>2, KeysOfSet DEF FoundAt
  <2>2. c \in m
    BY <2>1 DEF Entries, Entry
  <2> QED
    BY <2>1, <2>2 DEF Map!KeysIn
<1> QED
  BY <1>1, <1>2

\* The map stays when all entries do.
LEMMA SameMap ==
    ASSUME NEW P, NEW e, NEW m, Entries(P, e, m), NEW Q, NEW g, NEW n, Entries(Q, g, n),
           SameEntries(P, e, Q, g)
    PROVE  n = m
<1>1. \A c : c \in n <=> c \in m
  BY DEF Entries, Entry, SameEntries
<1> QED
  BY <1>1

\* An insertion adds its entry.
LEMMA MapInserts ==
    ASSUME NEW P, NEW e, NEW m, Entries(P, e, m), NEW Q, NEW g, NEW n, Entries(Q, g, n), IsFiniteSet(m),
           NEW key \in Int, NEW record, key \notin KeysOf(P[e[key]]), EntryAdded(P, e, Q, g, key, record)
    PROVE  IsFiniteSet(n) /\ Map!AddsOne(m, n) /\ key \in Map!KeysIn(n)
<1>1. PICK c : c = [key |-> key, val |-> record]
  OBVIOUS
<1>2. \A d : d \in n <=> d \in m \/ d = c
  BY <1>1 DEF Entries, Entry, EntryAdded
<1>3. n = m \cup {c}
  BY <1>2
<1>4. key \notin Map!KeysIn(m)
  BY KeysFound DEF FoundAt
<1>5. c \notin m
  BY <1>1, <1>4 DEF Map!KeysIn
<1>6. KeysOnce(n)
  BY DEF Entries, KeysOnce
<1>7. key \in Map!KeysIn(n)
  BY <1>1, <1>3 DEF Map!KeysIn
<1> QED
  BY <1>3, <1>5, <1>6, <1>7, MoreByOne

\* A deletion takes its entry.
LEMMA MapDeletes ==
    ASSUME NEW P, NEW e, NEW m, Entries(P, e, m), NEW Q, NEW g, NEW n, Entries(Q, g, n), IsFiniteSet(m),
           NEW key \in Int, key \in KeysOf(P[e[key]]), EntriesLess(P, e, Q, g, key)
    PROVE  IsFiniteSet(n) /\ Map!AddsOne(n, m) /\ key \notin Map!KeysIn(n)
<1>1. \A d : d \in n <=> d \in m /\ d.key # key
  BY DEF Entries, Entry, EntriesLess
<1>2. key \in Map!KeysIn(m)
  BY KeysFound DEF FoundAt
<1>3. PICK c \in m : c.key = key
  BY <1>2 DEF Map!KeysIn
<1>4. \A d \in m : d.key = key => d = c
  BY <1>3 DEF Entries
<1>5. c \notin n /\ m = n \cup {c}
  BY <1>1, <1>3, <1>4
<1>6. IsFiniteSet(n)
  <2>1. n \subseteq m
    BY <1>5
  <2> QED
    BY <2>1, FS_Subset
<1>7. KeysOnce(m)
  BY DEF Entries, KeysOnce
<1>8. key \notin Map!KeysIn(n)
  BY <1>1 DEF Map!KeysIn
<1> QED
  BY <1>5, <1>6, <1>7, <1>8, MoreByOne

-----------------------------------------------------------------------------
(* What a step answers. *)

\* A step of a call that goes on with its request, or answers it.
Goes(req) == op'.pc = op.pc /\ op'.req = req /\ reply' = reply
Replied(req, out) == op' = Idle /\ reply' = [op |-> req[1], key |-> req[2], out |-> out]
\* What a step of handle_overfull or handle_underfull answers, if it does.
Handled(req) == Goes(req) \/ Replied(req, "ok") \/ Replied(req, "error")

\* handle_overfull answers its call's request.
LEMMA OverfullReplies ==
    ASSUME NEW N, NEW lv, NEW L, TreeTyped(N, lv, L), HandleOverfull
    PROVE  op.pc = "overfull" /\ Handled(op.req)
<1> DEFINE P == pages
           root == root_id
           t == op.trail
           id == Last(t)
           up == Front(t)
           parent == Last(up)
           added == AddCell(Repoint(P[parent], id, N), Separator(P[id]).key, id)
<1>0. op.pc = "overfull"
  BY DEF HandleOverfull
<1>1. /\ Trail(P, lv, L, root, t) /\ Len(P[id].cells) = ORDER /\ Shape(P, N, lv, L, root)
  BY <1>0 DEF TreeTyped, CallAt, Idle
<1>2. OverfullSplits(N)
  BY <1>1, OverfullIs, TypedNext
<1>3. id \in L /\ (up = <<>> <=> Len(t) = 1)
  BY <1>1, TrailFacts
<1>4. \A out \in {"error", "ok"} : Answer(op.req, out) => Handled(op.req)
  BY DEF Answer, Handled, Replied
<1>5. op' = Overfull(op.req, up) /\ UNCHANGED reply => Handled(op.req)
  BY <1>0 DEF Overfull, Handled, Goes
<1>6. ASSUME up # <<>>,
             CASE ~added.ok -> Answer(op.req, "error")
               [] added.ok /\ Len(added.page.cells) >= ORDER -> op' = Overfull(op.req, up) /\ UNCHANGED reply
               [] added.ok /\ Len(added.page.cells) < ORDER -> Answer(op.req, "ok")
      PROVE  Handled(op.req)
  <2> HIDE DEF t, id, up, parent
  <2>1. Trail(P, lv, L, root, up) /\ id \in Kids(P[parent]) /\ lv[parent] = lv[id] + 1
    BY <1>1, <1>6, TrailFront DEF id, up, parent
  <2>2. parent \in L
    BY <1>1, <2>1, TrailFacts DEF parent
  <2>3. id \in L /\ parent \in L /\ lv[parent] = lv[id] + 1 /\ Len(P[id].cells) = ORDER
    BY <1>1, <1>3, <2>1, <2>2
  <2>4. /\ added.ok \in BOOLEAN /\ Len(added.page.cells) \in Nat
    <3> HIDE DEF P, root
    <3>1. added.ok \in BOOLEAN /\ Len(added.page.cells) \in Nat
      BY ZenonT(20), <1>1, <2>3, SplitShape
    <3> QED
      BY <3>1
  <2>5. Len(added.page.cells) >= ORDER \/ Len(added.page.cells) < ORDER
    BY <2>4, Constants
  <2> HIDE DEF added
  <2> QED
    BY <1>4, <1>5, <1>6, <2>4, <2>5
<1> QED
  BY <1>0, <1>2, <1>4, <1>6 DEF OverfullSplits

\* So does handle_underfull.
LEMMA UnderfullReplies ==
    ASSUME HandleUnderfull
    PROVE  op.pc = "underfull" /\ Handled(op.req)
<1> DEFINE parent == Last(op.trail)
           s == Siblings(pages[parent], op.id)
<1>1. op.pc = "underfull"
  BY DEF HandleUnderfull
<1>2. \A out \in {"error", "ok"} : Answer(op.req, out) => Handled(op.req)
  BY DEF Answer, Handled, Replied
<1>3. \A q, up : op' = Underfull(op.req, q, up) /\ UNCHANGED reply => Handled(op.req)
  BY <1>1 DEF Underfull, Handled, Goes
<1>4. ASSUME NEW ps, CheckParentUnderfull(parent, ps) PROVE Handled(op.req)
  BY <1>2, <1>3, <1>4 DEF CheckParentUnderfull
<1>5. ASSUME NEW into, NEW from, NEW sep, Merge(parent, into, from, sep) PROVE Handled(op.req)
  <2>1. \/ Answer(op.req, "error")
        \/ \E ps : CheckParentUnderfull(parent, ps)
    BY <1>5, MergeIs
  <2> QED
    BY <1>2, <1>4, <2>1
<1>6. RedistributeFromLeft(parent, s) => Answer(op.req, "ok") \/ Answer(op.req, "error")
  BY BorrowLeftIs DEF Borrowed
<1>7. RedistributeFromRight(parent, s) => Answer(op.req, "ok") \/ Answer(op.req, "error")
  BY BorrowRightIs DEF Borrowed
<1>8. \/ RedistributeFromLeft(parent, s) \/ RedistributeFromRight(parent, s)
      \/ MergeWithLeft(parent, s) \/ MergeWithRight(parent, s) \/ Answer(op.req, "ok")
  BY DEF HandleUnderfull
<1> HIDE DEF s
<1> QED
  BY <1>1, <1>2, <1>5, <1>6, <1>7, <1>8 DEF MergeWithLeft, MergeWithRight

-----------------------------------------------------------------------------
(* The refinement of KVMap. *)

\* A call that has split or has to fill up pages has put its key into the map, or taken it out.
Pledged(o, m) ==
    /\ o.pc = "overfull" => \E k \in Keys : o.req = <<"insert", k>> /\ k \in Map!KeysIn(m)
    /\ o.pc = "underfull" => \E k \in Keys : o.req = <<"delete", k>> /\ k \notin Map!KeysIn(m)
\* With the routes, the inductive invariant of the refinement.
Mapped == IsFiniteSet(Contents) /\ Pledged(op, Contents)
\* What a step does to the map.
MapThen == Mapped' /\ Map!MapNext

\* A step that leaves the map alone.
LEMMA MapStays ==
    ASSUME Mapped, Contents' = Contents, op' = op \/ op' = Idle,
           reply' = reply \/ Map!Truthful(reply', Contents')
    PROVE  MapThen
<1>1. IsFiniteSet(Contents') /\ Pledged(op', Contents')
  BY DEF Mapped, Pledged, Idle
<1>2. Mapped'
  BY <1>1 DEF Mapped
<1>3. Map!MapNext
  BY DEF Map!MapNext
<1> QED
  BY <1>2, <1>3 DEF MapThen

\* The steps of a call that splits or fills up pages, and its answer.
LEMMA MapGoesOn ==
    ASSUME Mapped, Contents' = Contents, op.pc \in {"overfull", "underfull"}, Handled(op.req)
    PROVE  MapThen
<1>1. CASE Goes(op.req)
  <2>1. IsFiniteSet(Contents') /\ Pledged(op', Contents')
    BY <1>1 DEF Mapped, Pledged, Goes
  <2>2. Mapped'
    BY <2>1 DEF Mapped
  <2>3. Map!MapNext
    BY <1>1 DEF Map!MapNext, Goes
  <2> QED
    BY <2>2, <2>3 DEF MapThen
<1>2. ASSUME NEW out \in {"ok", "error"}, Replied(op.req, out) PROVE MapThen
  <2>1. PICK k \in Keys :
           \/ op.req = <<"insert", k>> /\ k \in Map!KeysIn(Contents')
           \/ op.req = <<"delete", k>> /\ k \notin Map!KeysIn(Contents')
    BY DEF Mapped, Pledged
  <2>2. op' = Idle /\ reply' = [op |-> op.req[1], key |-> op.req[2], out |-> out]
    BY <1>2 DEF Replied
  <2>3. reply'.op = op.req[1] /\ reply'.key = op.req[2] /\ reply'.out = out
    BY <2>2
  <2>4. Map!Truthful(reply', Contents')
    BY <1>2, <2>1, <2>3 DEF Map!Truthful
  <2> QED
    BY <2>2, <2>4, MapStays
<1> QED
  BY <1>1, <1>2 DEF Handled

\* Pages that stay keep the map.
LEMMA SamePages ==
    ASSUME pages' = pages, root_id' = root_id
    PROVE  Contents' = Contents
<1>1. NextId' = NextId
  BY DEF NextId
<1> QED
  BY <1>1, ContentsIs

\* A row that is too long is refused when its key has no entry.
LEMMA MapRefuse ==
    ASSUME NEW N, NEW lv, NEW L, NEW at, Routed(N, lv, L, at), Mapped, NEW key \in Keys, RefuseRow(key)
    PROVE  MapThen
<1>1. Shape(pages, N, lv, L, root_id) /\ Routes(pages, lv[root_id], root_id, at) /\ key \in Int
  BY Constants DEF Routed, TreeTyped
<1>2. PICK t : t = Breadcrumbs(key)
  OBVIOUS
<1>3. Last(t) = at[0][key]
  BY <1>1, <1>2, SearchEnds
<1>4. /\ key \notin KeysOf(pages[at[0][key]])
      /\ Answer(<<"insert", key>>, "refused") /\ pages' = pages /\ root_id' = root_id
  BY <1>2, <1>3 DEF RefuseRow
<1>5. Contents' = Contents
  BY <1>4, SamePages
<1>6. Entries(pages, at[0], Contents)
  BY ContentsAre
<1>7. key \notin Map!KeysIn(Contents')
  BY <1>1, <1>4, <1>5, <1>6, KeysFound DEF FoundAt
<1>8. op' = Idle /\ reply' = [op |-> "insert", key |-> key, out |-> "refused"]
  BY <1>4 DEF Answer
<1>9. Map!Truthful(reply', Contents')
  BY <1>7, <1>8 DEF Map!Truthful
<1> QED
  BY <1>5, <1>8, <1>9, MapStays

\* An answer to a lookup is the entry the search comes to.
LEMMA MapGet ==
    ASSUME NEW N, NEW lv, NEW L, NEW at, Routed(N, lv, L, at), Mapped, NEW key \in Keys, Get(key)
    PROVE  MapThen
<1>1. Shape(pages, N, lv, L, root_id) /\ Routes(pages, lv[root_id], root_id, at) /\ key \in Int
  BY Constants DEF Routed, TreeTyped
<1>2. PICK t : t = Breadcrumbs(key)
  OBVIOUS
<1>3. Last(t) = at[0][key]
  BY <1>1, <1>2, SearchEnds
<1>4. PICK p : p = pages[at[0][key]]
  OBVIOUS
<1> DEFINE hits == {i \in DOMAIN p.cells : p.cells[i].key = key}
<1>5. /\ Answer(<<"get", key>>, IF hits = {} THEN Absent ELSE p.cells[CHOOSE i \in hits : TRUE].val)
      /\ pages' = pages /\ root_id' = root_id
  BY <1>2, <1>3, <1>4 DEF Get
<1>6. Contents' = Contents
  BY <1>5, SamePages
<1>7. Entries(pages, at[0], Contents)
  BY ContentsAre
<1>8. CASE hits = {}
  <2>1. key \notin KeysOf(p)
    BY <1>8 DEF KeysOf
  <2>2. key \notin Map!KeysIn(Contents')
    BY <1>1, <1>4, <1>6, <1>7, <2>1, KeysFound DEF FoundAt
  <2>3. op' = Idle /\ reply' = [op |-> "get", key |-> key, out |-> Absent]
    BY <1>5, <1>8 DEF Answer
  <2>4. Map!Truthful(reply', Contents')
    BY <2>2, <2>3 DEF Map!Truthful
  <2> QED
    BY <1>6, <2>3, <2>4, MapStays
<1>9. CASE hits # {}
  <2>1. PICK i \in hits : i = CHOOSE j \in hits : TRUE
    BY <1>9
  <2>2. PICK c : c = p.cells[i]
    OBVIOUS
  <2>3. c.key = key /\ c \in ToSet(p.cells)
    BY <2>1, <2>2 DEF ToSet
  <2>4. op' = Idle /\ reply' = [op |-> "get", key |-> key, out |-> c.val]
    BY <1>5, <1>9, <2>1, <2>2 DEF Answer
  <2>5. c \in Contents'
    BY <1>1, <1>4, <1>6, <1>7, <2>3 DEF Entries, Entry
  <2>6. c = [key |-> key, val |-> c.val]
    BY <1>6, <1>7, <2>3, <2>5 DEF Entries
  <2>7. Map!Truthful(reply', Contents')
    <3>1. reply'.op = "get" /\ reply'.key = key /\ reply'.out = c.val
      BY <2>4
    <3>2. [key |-> reply'.key, val |-> reply'.out] \in Contents'
      BY <2>5, <2>6, <3>1
    <3> QED
      BY <3>1, <3>2 DEF Map!Truthful
  <2> QED
    BY <1>6, <2>4, <2>7, MapStays
<1> QED
  BY <1>8, <1>9

\* An insertion that answers, or splits, has put its key into the map.
LEMMA MapInsert ==
    ASSUME NEW N, NEW lv, NEW L, NEW at, Routed(N, lv, L, at), Mapped,
           NEW key \in Keys, NEW record \in Records[key], Insert(key, record)
    PROVE  MapThen
<1> DEFINE P == pages
           trail == Breadcrumbs(key)
           leaf == Last(trail)
           added == AddCell(P[leaf], key, record)
           req == <<"insert", key>>
<1>1. /\ pages' = IF added.ok THEN With(P, leaf, added.page) ELSE P
      /\ CASE key \in KeysOf(P[leaf]) -> Answer(req, "exists")
           [] key \notin KeysOf(P[leaf]) /\ ~added.ok -> Answer(req, "error")
           [] added.ok /\ Len(added.page.cells) < ORDER -> Answer(req, "ok")
           [] added.ok /\ Len(added.page.cells) >= ORDER -> op' = Overfull(req, trail) /\ UNCHANGED reply
  BY DEF Insert
<1>2. /\ TreeTyped(N, lv, L) /\ Shape(P, N, lv, L, root_id) /\ Routes(P, lv[root_id], root_id, at)
      /\ key \in Int /\ record \in AllRecords
  BY Constants DEF Routed, TreeTyped, AllRecords
<1>3. leaf = at[0][key] /\ P[leaf] \in PagesOf(AllRecords, Ids(N))
  BY <1>2, SearchEnds
<1>4. /\ added.page \in PagesOf(AllRecords, Ids(N))
      /\ added.ok => Added(P[leaf], key, record, added.page)
  BY <1>2, <1>3, AddCellIs
<1>5. added.ok \in BOOLEAN /\ (added.ok => key \notin KeysOf(P[leaf]))
  BY DEF AddCell
<1>6. PICK b : /\ Routes(pages', lv[root_id], root_id, b) /\ Inserted(P, at[0], pages', b[0], key, record)
               /\ op'.pc # "underfull" /\ root_id' = root_id
  BY <1>2, RoutedInsert
<1>7. Routed(N, lv, L, b)'
  <2>1. TreeTyped(N, lv, L)'
    BY <1>2, TypedInsert
  <2> QED
    BY <1>6, <2>1 DEF Routed
<1>8. Entries(P, at[0], Contents) /\ Entries(pages', b[0], Contents')
  BY <1>7, ContentsAre
<1>9. IsFiniteSet(Contents)
  BY DEF Mapped
<1>10. \A out : Answer(req, out) => op' = Idle /\ reply' = [op |-> "insert", key |-> key, out |-> out]
  BY DEF Answer
<1> HIDE DEF P, trail, leaf, added
<1>11. CASE added.ok
  <2>1. Len(added.page.cells) \in Nat /\ Len(added.page.cells) = Len(P[leaf].cells) + 1 /\ Len(P[leaf].cells) \in Nat
    <3>1. Len(added.page.cells) = Len(P[leaf].cells) + 1
      BY <1>4, <1>11 DEF Added
    <3>2. Len(P[leaf].cells) \in Nat
      BY <1>3, PageFacts, ListFacts
    <3> QED
      BY <3>1, <3>2
  <2>2. pages' # P
    <3>1. pages'[leaf] = added.page
      BY <1>1, <1>11, WithIs
    <3> QED
      BY <2>1, <3>1
  <2>3. key \notin KeysOf(P[at[0][key]]) /\ EntryAdded(P, at[0], pages', b[0], key, record)
    BY <1>6, <2>2 DEF Inserted
  <2>4. IsFiniteSet(Contents') /\ Map!AddsOne(Contents, Contents') /\ key \in Map!KeysIn(Contents')
    BY <1>2, <1>8, <1>9, <2>3, MapInserts
  <2>5. Answer(req, "ok") \/ (op' = Overfull(req, trail) /\ reply' = reply)
    <3>1. Len(added.page.cells) < ORDER \/ Len(added.page.cells) >= ORDER
      BY <2>1, Constants
    <3> QED
      BY <1>1, <1>5, <1>11, <3>1
  <2>6. CASE Answer(req, "ok")
    <3>1. op' = Idle /\ reply' = [op |-> "insert", key |-> key, out |-> "ok"]
      BY <1>10, <2>6
    <3>2. Map!Truthful(reply', Contents')
      BY <2>4, <3>1 DEF Map!Truthful
    <3>3. Pledged(op', Contents')
      BY <3>1 DEF Pledged, Idle
    <3>4. Mapped'
      BY <2>4, <3>3 DEF Mapped
    <3> QED
      BY <2>4, <3>2, <3>4 DEF MapThen, Map!MapNext
  <2>7. CASE op' = Overfull(req, trail) /\ reply' = reply
    <3>1. Pledged(op', Contents')
      BY <2>4, <2>7 DEF Pledged, Overfull
    <3>2. Mapped'
      BY <2>4, <3>1 DEF Mapped
    <3> QED
      BY <2>4, <2>7, <3>2 DEF MapThen, Map!MapNext
  <2> QED
    BY <2>5, <2>6, <2>7
<1>12. CASE ~added.ok
  <2>1. Contents' = Contents
    BY <1>1, <1>6, <1>12, SamePages DEF P
  <2>2. CASE key \in KeysOf(P[leaf])
    <3>1. key \in Map!KeysIn(Contents')
      BY <1>2, <1>3, <1>8, <2>1, <2>2, KeysFound DEF FoundAt
    <3>2. op' = Idle /\ reply' = [op |-> "insert", key |-> key, out |-> "exists"]
      BY <1>1, <1>5, <1>10, <1>12, <2>2
    <3>3. Map!Truthful(reply', Contents')
      BY <3>1, <3>2 DEF Map!Truthful
    <3> QED
      BY <2>1, <3>2, <3>3, MapStays
  <2>3. CASE key \notin KeysOf(P[leaf])
    <3>1. op' = Idle /\ reply' = [op |-> "insert", key |-> key, out |-> "error"]
      BY <1>1, <1>10, <1>12, <2>3
    <3>2. Map!Truthful(reply', Contents')
      BY <3>1 DEF Map!Truthful
    <3> QED
      BY <2>1, <3>1, <3>2, MapStays
  <2> QED
    BY <2>2, <2>3
<1> QED
  BY <1>5, <1>11, <1>12

\* A deletion that answers, or has pages to fill up, has taken its key out of the map.
LEMMA MapDelete ==
    ASSUME NEW N, NEW lv, NEW L, NEW at, Routed(N, lv, L, at), Mapped, NEW key \in Keys, Delete(key)
    PROVE  MapThen
<1>1. /\ TreeTyped(N, lv, L) /\ Shape(pages, N, lv, L, root_id) /\ Routes(pages, lv[root_id], root_id, at)
      /\ key \in Int
  BY Constants DEF Routed, TreeTyped
<1>2. PICK t : t = Breadcrumbs(key)
  OBVIOUS
<1>3. Last(t) = at[0][key]
  BY <1>1, <1>2, SearchEnds
<1>4. PICK b : /\ Routes(pages', lv[root_id], root_id, b) /\ Removed(pages, at[0], pages', b[0], key)
               /\ op'.pc = "underfull" => Small(pages'[op'.id])
               /\ root_id' = root_id
  BY <1>1, RoutedDelete
<1>5. Routed(N, lv, L, b)'
  <2>1. TreeTyped(N, lv, L)'
    BY <1>1, TypedDelete
  <2> QED
    BY <1>4, <2>1 DEF Routed
<1>6. Entries(pages, at[0], Contents) /\ Entries(pages', b[0], Contents')
  BY <1>5, ContentsAre
<1>7. IsFiniteSet(Contents)
  BY DEF Mapped
<1>8. \A out : Answer(<<"delete", key>>, out) => op' = Idle /\ reply' = [op |-> "delete", key |-> key, out |-> out]
  BY DEF Answer
<1>9. CASE key \notin KeysOf(pages[at[0][key]])
  <2>1. Answer(<<"delete", key>>, "missing") /\ pages' = pages
    BY <1>2, <1>3, <1>9 DEF Delete
  <2>2. Contents' = Contents
    BY <1>4, <2>1, SamePages
  <2>3. key \notin Map!KeysIn(Contents')
    BY <1>1, <1>6, <1>9, <2>2, KeysFound DEF FoundAt
  <2>4. op' = Idle /\ reply' = [op |-> "delete", key |-> key, out |-> "missing"]
    BY <1>8, <2>1
  <2>5. Map!Truthful(reply', Contents')
    BY <2>3, <2>4 DEF Map!Truthful
  <2> QED
    BY <2>2, <2>4, <2>5, MapStays
<1>10. CASE key \in KeysOf(pages[at[0][key]])
  <2>1. EntriesLess(pages, at[0], pages', b[0], key)
    BY <1>4, <1>10 DEF Removed
  <2>2. IsFiniteSet(Contents') /\ Map!AddsOne(Contents', Contents) /\ key \notin Map!KeysIn(Contents')
    BY <1>1, <1>6, <1>7, <1>10, <2>1, MapDeletes
  <2>3. \/ Answer(<<"delete", key>>, "ok") \/ Answer(<<"delete", key>>, "error")
        \/ op' = Underfull(<<"delete", key>>, Last(t), Front(t)) /\ reply' = reply
    BY <1>2, <1>3, <1>10 DEF Delete
  <2>4. CASE Answer(<<"delete", key>>, "ok") \/ Answer(<<"delete", key>>, "error")
    <3>1. op' = Idle /\ \E out \in {"ok", "error"} : reply' = [op |-> "delete", key |-> key, out |-> out]
      BY <1>8, <2>4
    <3>2. Map!Truthful(reply', Contents')
      BY <2>2, <3>1 DEF Map!Truthful
    <3>3. Pledged(op', Contents')
      BY <3>1 DEF Pledged, Idle
    <3>4. Mapped'
      BY <2>2, <3>3 DEF Mapped
    <3> QED
      BY <2>2, <3>2, <3>4 DEF MapThen, Map!MapNext
  <2>5. CASE op' = Underfull(<<"delete", key>>, Last(t), Front(t)) /\ reply' = reply
    <3>1. Pledged(op', Contents')
      BY <2>2, <2>5 DEF Pledged, Underfull
    <3>2. Mapped'
      BY <2>2, <3>1 DEF Mapped
    <3> QED
      BY <2>2, <2>5, <3>2 DEF MapThen, Map!MapNext
  <2> QED
    BY <2>3, <2>4, <2>5
<1> QED
  BY <1>9, <1>10

\* The steps of a split and those after a deletion leave the map alone.
LEMMA MapHandled ==
    ASSUME NEW N, NEW lv, NEW L, NEW at, Routed(N, lv, L, at), Mapped, RoutedThen(at),
           op.pc \in {"overfull", "underfull"}, Handled(op.req)
    PROVE  MapThen
<1>1. PICK M, mv, K, b : Routed(M, mv, K, b)' /\ Changes(at[0], b[0])
  BY DEF RoutedThen
<1>2. Entries(pages, at[0], Contents) /\ Entries(pages', b[0], Contents')
  BY <1>1, ContentsAre
<1>3. op # Idle
  BY DEF Idle
<1>4. SameEntries(pages, at[0], pages', b[0])
  <2>1. \A key, record : ~Insert(key, record)
    BY <1>3 DEF Insert
  <2>2. \A key : ~Delete(key)
    BY <1>3 DEF Delete
  <2> QED
    BY <1>1, <2>1, <2>2 DEF Changes
<1>5. Contents' = Contents
  BY <1>2, <1>4, SameMap
<1> QED
  BY <1>5, MapGoesOn

\* Every step is one of the map's, or leaves it alone.
LEMMA MapStep ==
    ASSUME NEW N, NEW lv, NEW L, NEW at, Routed(N, lv, L, at), Mapped, [Next]_vars, OneRoot, FailsClean
    PROVE  MapThen
<1>1. RoutedThen(at)
  BY RoutedStep
<1>2. TreeTyped(N, lv, L)
  BY DEF Routed
<1>3. ASSUME NEW key \in Keys, Get(key) PROVE MapThen
  BY <1>3, MapGet
<1>0. ASSUME NEW key \in Keys, RefuseRow(key) PROVE MapThen
  BY <1>0, MapRefuse
<1>4. ASSUME NEW key \in Keys, NEW record \in Records[key], Insert(key, record) PROVE MapThen
  BY <1>4, MapInsert
<1>5. ASSUME NEW key \in Deletable, Delete(key) PROVE MapThen
  <2>1. key \in Keys
    BY TreeAssumption DEF TreeAssumption
  <2> QED
    BY <1>5, <2>1, MapDelete
<1>6. ASSUME HandleOverfull PROVE MapThen
  BY <1>1, <1>2, <1>6, OverfullReplies, MapHandled
<1>7. ASSUME HandleUnderfull PROVE MapThen
  BY <1>1, <1>7, UnderfullReplies, MapHandled
<1>8. ASSUME Reopen PROVE MapThen
  <2>1. /\ op = Idle /\ reopens < MaxReopens /\ root_id' = OpenedRoot /\ reopens' = reopens + 1
        /\ pages' = pages /\ op' = op /\ reply' = reply
    BY <1>8 DEF Reopen
  <2>2. reopens \in 0..MaxReopens /\ MaxReopens \in Nat
    BY <1>2, TreeAssumption DEF TreeTyped, TreeAssumption
  <2>3. reopens' # reopens
    BY <2>1, <2>2
  <2>4. root_id' = root_id
    BY <1>2, <2>1, <2>3, OnlyRoot DEF OneRoot, TreeTyped
  <2>5. Contents' = Contents
    BY <2>1, <2>4, SamePages
  <2> QED
    BY <2>1, <2>5, MapStays
<1>9. ASSUME UNCHANGED vars PROVE MapThen
  <2>1. pages' = pages /\ root_id' = root_id /\ op' = op /\ reply' = reply
    BY <1>9 DEF vars
  <2>2. Contents' = Contents
    BY <2>1, SamePages
  <2> QED
    BY <2>1, <2>2, MapStays
<1> QED
  BY <1>0, <1>3, <1>4, <1>5, <1>6, <1>7, <1>8, <1>9 DEF Next

\* An empty tree is an empty map.
LEMMA MapStarts ==
    ASSUME Init
    PROVE  Mapped /\ Map!MapInit
<1>1. op.pc = "idle" /\ reply.out = "none" /\ pages[0].cells = <<>> /\ DOMAIN pages = {0}
  BY DEF Init, Idle, NewPage
<1>2. PICK N, lv, L, at : Routed(N, lv, L, at)
  BY RoutedInit DEF RoutedInv
<1>3. Entries(pages, at[0], Contents)
  BY <1>2, ContentsAre
<1>4. \A k \in Int : at[0][k] = 0
  <2>1. Shape(pages, N, lv, L, root_id) /\ Routes(pages, lv[root_id], root_id, at)
    BY <1>2 DEF Routed, TreeTyped
  <2>2. 0 \in 0..lv[root_id]
    BY <2>1 DEF Routes
  <2>3. \A k \in Int : at[0][k] \in L
    BY <2>1, <2>2, RouteLevels
  <2>4. L \subseteq {0}
    BY <1>1, <2>1, ShapeFacts
  <2> QED
    BY <2>3, <2>4
<1>5. ToSet(pages[0].cells) = {}
  BY <1>1 DEF ToSet
<1>6. Contents = {}
  BY <1>3, <1>4, <1>5 DEF Entries, Entry
<1>7. IsFiniteSet(Contents)
  BY <1>6, FS_EmptySet
<1> QED
  BY <1>1, <1>6, <1>7 DEF Mapped, Pledged, Map!MapInit

\* The index is a map: whatever its pages go through, the cells of the leaves change by one
\* key at a time, by none while a call splits, borrows or merges, and every answer is true of
\* them, while no call fails half way and the files are opened only with one page that says it is
\* a root.
THEOREM TreeImplementsMap == Spec /\ [][OneRoot /\ FailsClean]_vars => ImplementsMap
<1>1. Init => RoutedInv /\ Mapped /\ Map!MapInit
  BY RoutedInit, MapStarts
<1>2. RoutedInv /\ Mapped /\ [Next]_vars /\ [OneRoot /\ FailsClean]_vars
      => RoutedInv' /\ Mapped' /\ [Map!MapNext]_Map!mapVars
  <2>1. UNCHANGED vars => OneRoot /\ FailsClean
    BY DEF vars, OneRoot, FailsClean
  <2>2. ASSUME NEW N, NEW lv, NEW L, NEW at, Routed(N, lv, L, at), Mapped, [Next]_vars, OneRoot, FailsClean
        PROVE  RoutedInv' /\ MapThen
    <3>1. PICK M, mv, K, b : Routed(M, mv, K, b)'
      BY <2>2, RoutedStep DEF RoutedThen
    <3>2. MapThen
      BY <2>2, MapStep
    <3> QED
      BY <3>1, <3>2 DEF RoutedInv
  <2> QED
    BY <2>1, <2>2 DEF RoutedInv, MapThen
<1> QED
  BY <1>1, <1>2, PTL DEF Spec, ImplementsMap, Map!MapSpec
=============================================================================
