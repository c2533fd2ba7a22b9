----------------------------- MODULE SortedPage -----------------------------
(***************************************************************************)
(* What an index page promises its callers: a map from at most Room keys to *)
(* pointers, changed by whole calls.                                        *)
(***************************************************************************)
EXTENDS Integers, Sequences, FiniteSets

CONSTANTS
    Keys,
    Values,  \* what a key may lead to
    Room,    \* cells a page has room for
    Contents \* sequences of cells callers give to a page

VARIABLES
    content, \* key -> value
    done     \* the last call that ended: what was asked for, and the reply

Nothing == [ask |-> [op |-> "none"], reply |-> "ok"]

Init == content = <<>> /\ done = Nothing

Replied(ask, text) == done' = [ask |-> ask, reply |-> text]

\* A page without room refuses before it looks for the key.
Add(k, v) ==
    LET ask == [op |-> "add_cell", key |-> k, val |-> v]
    IN  \/ /\ Cardinality(DOMAIN content) = Room
           /\ Replied(ask, "Page overflow") /\ UNCHANGED content
        \/ /\ Cardinality(DOMAIN content) < Room /\ k \in DOMAIN content
           /\ Replied(ask, "duplicate key") /\ UNCHANGED content
        \/ /\ Cardinality(DOMAIN content) < Room /\ k \notin DOMAIN content
           /\ content' = [x \in DOMAIN content \cup {k} |-> IF x = k THEN v ELSE content[x]]
           /\ Replied(ask, "ok")

\* The cell at an index is that of the key with as many smaller ones.
Remove(i) ==
    LET ask == [op |-> "remove_cell_at", idx |-> i]
        At(k) == Cardinality({x \in DOMAIN content : x < k}) = i
    IN  IF \E k \in DOMAIN content : At(k)
        THEN /\ content' = [x \in {y \in DOMAIN content : ~At(y)} |-> content[x]]
             /\ Replied(ask, "ok")
        ELSE Replied(ask, "Cell index out of bounds") /\ UNCHANGED content

\* The first n cells have room, and no key comes twice.
Fits(cells, n) == n <= Room /\ \A i, j \in 1..n : cells[i].key = cells[j].key => i = j

\* How many cells are taken: all up to the first that is refused.
Taken(cells) ==
    CHOOSE n \in 0..Len(cells) : Fits(cells, n) /\ (n = Len(cells) \/ ~Fits(cells, n + 1))

\* What cells say as a map.
AsMap(cells) == [k \in {c.key : c \in cells} |-> (CHOOSE c \in cells : c.key = k).val]

\* The cells given take the place of all others.
Rebuild(cells) ==
    LET n == Taken(cells)
        reply == IF n = Len(cells) THEN "ok"
                 ELSE IF n = Room THEN "Page overflow" ELSE "duplicate key"
    IN  /\ content' = AsMap({cells[i] : i \in 1..n})
        /\ Replied([op |-> "rebuild_from_cells", cells |-> cells], reply)

\* Kind, flag and pointer of the page are none of the map's.
Next ==
    \/ \E k \in Keys, v \in Values : Add(k, v)
    \/ \E i \in 0..Room : Remove(i)
    \/ \E cells \in Contents : Rebuild(cells)

Spec == Init /\ [][Next]_<<content, done>>
=============================================================================
