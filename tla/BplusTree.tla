----------------------------- MODULE BplusTree -----------------------------
(***************************************************************************)
(* The index: storage/engine/bplus_tree.rs over the slotted pages of        *)
(* slotted_page.rs.                                                         *)
(*                                                                          *)
(* tree_lock makes a call atomic for every other, so one call runs at a     *)
(* time; a call that splits or merges goes one level up per step, as        *)
(* handle_overfull and handle_underfull recurse.  A failure in the middle   *)
(* leaves what was written so far.  A leaf cell holds the key's record in   *)
(* place of the number of the heap page that has it, and pages are those    *)
(* the buffer pool shows: the log, the pool and the files are elsewhere.    *)
(***************************************************************************)
EXTENDS Integers, SequencesExt

CONSTANTS
    ORDER,      \* cells that make a page overfull, and also all a page has room for
    Keys,
    Records,    \* the records callers insert under a key: [Keys -> sets]
    Deletable,  \* the keys callers delete
    Absent,     \* not a record
    MaxPages,   \* bound: no insertion starts with more pages than this
    MaxReopens  \* bound: times the files are closed and opened again

DEGREE == (ORDER + 1) \div 2

ASSUME TreeAssumption ==
    /\ ORDER \in Nat /\ ORDER >= 3
    /\ Keys \subseteq Nat /\ Deletable \subseteq Keys
    /\ \A k \in Keys : Absent \notin Records[k]
    /\ MaxPages \in Nat /\ MaxReopens \in Nat

VARIABLES
    pages,   \* page id -> page; the ids are 0 .. next_id - 1
    root_id,
    op,      \* the call in progress
    reply,   \* what the last call returned
    reopens

vars == <<pages, root_id, op, reply, reopens>>
-----------------------------------------------------------------------------
(* Pages: slotted_page.rs. *)

PageKind == {"Root", "Internal", "Leaf"}

IsLeafLevel(p) == p.kind = "Leaf" \/ (p.kind = "Root" /\ p.root_leaf)

\* A cell's value is a child page in an internal page, a record in a leaf.  All
\* of a child's keys are below its cell's key; `ptr' is the rightmost child,
\* or a leaf's right sibling.
AllRecords == UNION {Records[k] : k \in Keys}
IsPage(p, ids) ==
    /\ p.kind \in PageKind /\ p.root_leaf \in BOOLEAN /\ p.ptr \in ids
    /\ \A i \in DOMAIN p.cells :
          p.cells[i].key \in Keys /\ p.cells[i].val \in IF IsLeafLevel(p) THEN AllRecords ELSE ids

NewPage(kind) == [kind |-> kind, root_leaf |-> FALSE, cells |-> <<>>, ptr |-> 0]

KeysOf(p) == {p.cells[i].key : i \in DOMAIN p.cells}

\* add_cell's geometry: a page has room for ORDER cells.
HasRoom(p) == Len(p.cells) < ORDER

\* The slot the binary search of add_cell finds.
Slot(p, key) == 1 + Cardinality({k \in KeysOf(p) : k < key})

\* add_cell: refused if the page has no room ("Page overflow") or has the key.
AddCell(p, key, val) ==
    IF HasRoom(p) /\ key \notin KeysOf(p)
    THEN [ok |-> TRUE,
          page |-> [p EXCEPT !.cells = InsertAt(@, Slot(p, key), [key |-> key, val |-> val])]]
    ELSE [ok |-> FALSE, page |-> p]

\* rebuild_from_cells: a fresh header, then the cells one by one until one is refused.
Rebuild(p, kind, cells, ptr) ==
    LET empty == [kind |-> kind, cells |-> <<>>, ptr |-> ptr,
                  root_leaf |-> (p.kind = "Root" /\ p.root_leaf /\ kind = "Root")]
        built[n \in 0..Len(cells)] ==
            IF n = 0 THEN [ok |-> TRUE, page |-> empty]
            ELSE IF built[n - 1].ok THEN AddCell(built[n - 1].page, cells[n].key, cells[n].val)
            ELSE built[n - 1]
    IN  built[Len(cells)]

RemoveCellAt(p, i) == Rebuild(p, p.kind, RemoveAt(p.cells, i), p.ptr).page

SetPageKind(p, kind) ==
    [p EXCEPT !.kind = kind, !.root_leaf = (kind = "Root" /\ (IsLeafLevel(p) \/ p.root_leaf))]

\* A parent's pointers to `from' made pointers to `to'.  No cell is refused: the
\* keys, and their number, are those the page has.
Repoint(p, from, to) ==
    LET fix(id) == IF id = from THEN to ELSE id
    IN  Rebuild(p, p.kind, [i \in DOMAIN p.cells |-> [p.cells[i] EXCEPT !.val = fix(@)]],
                fix(p.ptr)).page
-----------------------------------------------------------------------------
(* Descent. *)

\* Mutant: a key equal to a separator goes to its left.
ChildLeft(p, key) ==
    LET n == Cardinality({k \in KeysOf(p) : k < key})
    IN  IF n < Len(p.cells) THEN p.cells[n + 1].val ELSE p.ptr

\* The child a search for key goes on to.
Child(p, key) ==
    LET n == Cardinality({k \in KeysOf(p) : k <= key})
    IN  IF n < Len(p.cells) THEN p.cells[n + 1].val ELSE p.ptr

NextId == Cardinality(DOMAIN pages)

\* breadcrumbs: the pages from the root to the leaf for key.  A descent that
\* visits more pages than there are is going round in a circle.
Breadcrumbs(key) ==
    LET down[at \in (DOMAIN pages) \X (0..NextId)] ==
            LET id == at[1]
                n == at[2]
            IN  IF IsLeafLevel(pages[id]) \/ n = 0 THEN <<id>>
                ELSE <<id>> \o down[<<Child(pages[id], key), n - 1>>]
    IN  down[<<root_id, NextId>>]

\* Pages with the one of an id allocated or written.
With(ps, id, page) == [i \in DOMAIN ps \cup {id} |-> IF i = id THEN page ELSE ps[i]]
-----------------------------------------------------------------------------
Idle == [pc |-> "idle"]
Overfull(req, trail) == [pc |-> "overfull", req |-> req, trail |-> trail]
Underfull(req, id, trail) == [pc |-> "underfull", req |-> req, id |-> id, trail |-> trail]

Answer(req, out) ==
    /\ op' = Idle
    /\ reply' = [op |-> req[1], key |-> req[2], out |-> out]

TypeOK ==
    /\ DOMAIN pages = 0..NextId - 1
    /\ \A id \in DOMAIN pages : IsPage(pages[id], DOMAIN pages)
    /\ root_id \in DOMAIN pages
    /\ op.pc \in {"idle", "overfull", "underfull"}
    /\ op.pc # "idle" => ToSet(op.trail) \subseteq DOMAIN pages
    /\ reply.out \in {"none", "ok", "exists", "missing", "refused", "error", Absent} \cup AllRecords
    /\ reopens \in 0..MaxReopens

\* new_with_wal on empty files: an empty root that is a leaf.
Init ==
    /\ pages = [i \in {0} |-> [NewPage("Root") EXCEPT !.root_leaf = TRUE]]
    /\ root_id = 0
    /\ op = Idle
    /\ reply = [op |-> "none", key |-> 0, out |-> "none"]
    /\ reopens = 0

Get(key) ==
    /\ op = Idle
    /\ LET p == pages[Last(Breadcrumbs(key))]
           hits == {i \in DOMAIN p.cells : p.cells[i].key = key}
       IN  Answer(<<"get", key>>, IF hits = {} THEN Absent
                                  ELSE p.cells[CHOOSE i \in hits : TRUE].val)
    /\ UNCHANGED <<pages, root_id, reopens>>

Insert(key, record) ==
    /\ op = Idle /\ NextId <= MaxPages
    /\ LET trail == Breadcrumbs(key)
           leaf == Last(trail)
           added == AddCell(pages[leaf], key, record)
           req == <<"insert", key>>
       IN  /\ pages' = IF added.ok THEN With(pages, leaf, added.page) ELSE pages
           /\ CASE key \in KeysOf(pages[leaf]) -> Answer(req, "exists")
                [] key \notin KeysOf(pages[leaf]) /\ ~added.ok -> Answer(req, "error")
                [] added.ok /\ Len(added.page.cells) < ORDER -> Answer(req, "ok")
                [] added.ok /\ Len(added.page.cells) >= ORDER ->
                       op' = Overfull(req, trail) /\ UNCHANGED reply
    /\ UNCHANGED <<root_id, reopens>>

\* insert of a record that is too long for a heap page, which add_records finds
\* out after the key was searched for and before the index is touched.
RefuseRow(key) ==
    /\ op = Idle
    /\ key \notin KeysOf(pages[Last(Breadcrumbs(key))])
    /\ Answer(<<"insert", key>>, "refused")
    /\ UNCHANGED <<pages, root_id, reopens>>

\* Mutants: the cell promoted from a leaf is not kept in the right half; the
\* right half of an internal page keeps it.
RightCellsDropped(p, split) == SubSeq(p.cells, split + 2, Len(p.cells))
RightCellsKept(p, split) == SubSeq(p.cells, split + 1, Len(p.cells))

\* The cells of the new right page: a leaf keeps the promoted cell, an
\* internal page gives it away.
RightCells(p, split) ==
    SubSeq(p.cells, IF IsLeafLevel(p) THEN split + 1 ELSE split + 2, Len(p.cells))

\* Mutants: the left half of a split leaf skips the new page; it points past it.
LeftPtrOld(p, right, promote) == IF IsLeafLevel(p) THEN p.ptr ELSE promote.val
LeftPtrPast(p, right, promote) == IF IsLeafLevel(p) THEN right + 1 ELSE promote.val

\* The left half's pointer: its new sibling, or the child the promoted cell had.
LeftPtr(p, right, promote) == IF IsLeafLevel(p) THEN right ELSE promote.val

\* What the halves of a split page are.
HalfKind(p) == IF IsLeafLevel(p) THEN "Leaf" ELSE "Internal"

\* handle_overfull, one level: split the last page of the trail and put the
\* promoted key into its parent, or into a new root.
HandleOverfull ==
    /\ op.pc = "overfull"
    /\ LET id == Last(op.trail)
           up == Front(op.trail)
           p == pages[id]
           split == (Len(p.cells) + 1) \div 2
           promote == p.cells[split + 1]
           kind == HalfKind(p)
           right == NextId
           left_page == Rebuild(p, kind, SubSeq(p.cells, 1, split), LeftPtr(p, right, promote)).page
           right_page == Rebuild(NewPage(kind), kind, RightCells(p, split), p.ptr).page
           halves == With(With(pages, right, right_page), id, left_page)
       IN  \/ /\ up # <<>>
              /\ LET parent == Last(up)
                     added == AddCell(Repoint(pages[parent], id, right), promote.key, id)
                 IN  /\ pages' = With(halves, parent, added.page)
                     /\ CASE ~added.ok -> Answer(op.req, "error")
                          [] added.ok /\ Len(added.page.cells) >= ORDER ->
                                 op' = Overfull(op.req, up) /\ UNCHANGED reply
                          [] added.ok /\ Len(added.page.cells) < ORDER -> Answer(op.req, "ok")
              /\ UNCHANGED root_id
           \/ /\ up = <<>>
              /\ LET root == [NewPage("Root") EXCEPT !.ptr = right,
                                 !.cells = <<[key |-> promote.key, val |-> id]>>]
                 IN  pages' = With(halves, right + 1, root)
              /\ root_id' = right + 1
              /\ Answer(op.req, "ok")
    /\ UNCHANGED reopens
-----------------------------------------------------------------------------
\* propagate_key_update: the deepest ancestor with the deleted key as a
\* separator gets the leaf's new first key in its place.
PropagateKeyUpdate(ps, old_key, leaf_page, ancestors) ==
    LET holders == {i \in DOMAIN ancestors : old_key \in KeysOf(pages[ancestors[i]])}
        holder == CHOOSE i \in holders : \A j \in holders : j <= i
        p == pages[ancestors[holder]]
        update(c) == IF c.key = old_key THEN [c EXCEPT !.key = leaf_page.cells[1].key] ELSE c
        updated == Rebuild(p, p.kind, [i \in DOMAIN p.cells |-> update(p.cells[i])], p.ptr)
    IN  IF leaf_page.cells = <<>> \/ holders = {} THEN [ok |-> TRUE, pages |-> ps]
        ELSE [ok |-> updated.ok, pages |-> With(ps, ancestors[holder], updated.page)]

IsUnderfull(p) == Len(p.cells) < DEGREE

Delete(key) ==
    /\ op = Idle
    /\ LET trail == Breadcrumbs(key)
           leaf == Last(trail)
           p == pages[leaf]
           req == <<"delete", key>>
           new == RemoveCellAt(p, CHOOSE i \in DOMAIN p.cells : p.cells[i].key = key)
           written == With(pages, leaf, new)
           up == PropagateKeyUpdate(written, key, new, Front(trail))
       IN  \/ key \notin KeysOf(p) /\ Answer(req, "missing") /\ UNCHANGED pages
           \/ /\ key \in KeysOf(p)
              /\ leaf = root_id
              /\ pages' = written
              /\ Answer(req, "ok")
           \/ /\ key \in KeysOf(p)
              /\ leaf # root_id /\ ~IsUnderfull(new)
              /\ pages' = up.pages
              /\ Answer(req, IF up.ok THEN "ok" ELSE "error")
           \/ /\ key \in KeysOf(p)
              /\ leaf # root_id /\ IsUnderfull(new)
              /\ pages' = written
              /\ op' = Underfull(req, leaf, Front(trail))
              /\ UNCHANGED reply
    /\ UNCHANGED <<root_id, reopens>>

\* find_siblings: the child's place in its parent and its neighbours' ids (-1: none).
ChildIds(p) == [i \in 1..Len(p.cells) + 1 |-> IF i <= Len(p.cells) THEN p.cells[i].val ELSE p.ptr]

Siblings(p, id) ==
    LET ids == ChildIds(p)
        here == {i \in DOMAIN ids : ids[i] = id}
        idx == CHOOSE i \in here : \A j \in here : i <= j
    IN  [idx |-> idx,
         left |-> IF idx > 1 THEN ids[idx - 1] ELSE -1,
         right |-> IF idx < Len(ids) THEN ids[idx + 1] ELSE -1]

CanLend(p) == Len(p.cells) > DEGREE

\* Mutant: the parent keeps the separator it had.
ReseparateOld(p, i, key, child) == AddCell(RemoveCellAt(p, i), p.cells[i].key, child)

\* A parent with the separator at i replaced, unless the new one is refused.
Reseparate(p, i, key, child) == AddCell(RemoveCellAt(p, i), key, child)

\* redistribute_from_left.  The left page of internal ones gets its new pointer last.
RedistributeFromLeft(parent, s) ==
    LET p == pages[op.id]
        l == pages[s.left]
        leaf == p.kind = "Leaf"
        borrowed == Last(l.cells)
        sep == pages[parent].cells[s.idx - 1].key
        shorter == RemoveCellAt(l, Len(l.cells))
        grown == IF leaf THEN AddCell(p, borrowed.key, borrowed.val)
                 ELSE Rebuild(p, p.kind, <<[key |-> sep, val |-> l.ptr]>> \o p.cells, p.ptr)
        new_sep == IF leaf THEN grown.page.cells[1].key ELSE borrowed.key
        resep == Reseparate(pages[parent], s.idx - 1, new_sep, s.left)
        lent == IF leaf \/ ~resep.ok THEN shorter ELSE [shorter EXCEPT !.ptr = borrowed.val]
    IN  /\ s.left # -1 /\ CanLend(l)
        /\ pages' = IF grown.ok
                    THEN With(With(With(pages, s.left, lent), op.id, grown.page), parent, resep.page)
                    ELSE With(With(pages, s.left, shorter), op.id, grown.page)
        /\ Answer(op.req, IF grown.ok /\ resep.ok THEN "ok" ELSE "error")
        /\ UNCHANGED root_id

\* redistribute_from_right.
RedistributeFromRight(parent, s) ==
    LET p == pages[op.id]
        r == pages[s.right]
        leaf == p.kind = "Leaf"
        borrowed == r.cells[1]
        sep == pages[parent].cells[s.idx].key
        shorter == RemoveCellAt(r, 1)
        grown == IF leaf THEN AddCell(p, borrowed.key, borrowed.val) ELSE AddCell(p, sep, p.ptr)
        new == IF leaf THEN grown.page ELSE [grown.page EXCEPT !.ptr = borrowed.val]
        new_sep == IF leaf THEN shorter.cells[1].key ELSE borrowed.key
        resep == Reseparate(pages[parent], s.idx, new_sep, op.id)
    IN  /\ ~(s.left # -1 /\ CanLend(pages[s.left]))
        /\ s.right # -1 /\ CanLend(r)
        /\ pages' = IF grown.ok
                    THEN With(With(With(pages, s.right, shorter), op.id, new), parent, resep.page)
                    ELSE With(pages, s.right, shorter)
        /\ Answer(op.req, IF grown.ok /\ resep.ok THEN "ok" ELSE "error")
        /\ UNCHANGED root_id

\* The cell for the separator at sep that comes between the cells of two
\* merged internal pages; none between those of leaves.
PulledDown(p, sep, l) ==
    IF l.kind = "Leaf" THEN <<>> ELSE <<[key |-> p.cells[sep].key, val |-> l.ptr]>>

\* check_parent_underfull: after a merge made the pages `ps', an empty root
\* gives way to its only child, and an underfull parent is next.
CheckParentUnderfull(parent, ps) ==
    LET p == ps[parent]
        heir == p.ptr
    IN  \/ /\ parent = root_id /\ p.cells = <<>>
           /\ root_id' = heir
           /\ pages' = With(ps, heir, SetPageKind(ps[heir], "Root"))
           /\ Answer(op.req, "ok")
        \/ /\ IF parent = root_id THEN p.cells # <<>> ELSE ~IsUnderfull(p)
           /\ pages' = ps
           /\ Answer(op.req, "ok")
           /\ UNCHANGED root_id
        \/ /\ parent # root_id /\ IsUnderfull(p)
           /\ pages' = ps
           /\ op' = Underfull(op.req, parent, Front(op.trail))
           /\ UNCHANGED <<root_id, reply>>

\* What both merges do: the cells of `from' go to `into', its left neighbour,
\* and the separator between them, in slot sep, leaves the parent.  If they do
\* not fit, what did fit stays and the call fails.
Merge(parent, into, from, sep) ==
    LET l == pages[into]
        r == pages[from]
        merged == Rebuild(l, l.kind, l.cells \o PulledDown(pages[parent], sep, l) \o r.cells, r.ptr)
        new_parent == Repoint(RemoveCellAt(pages[parent], sep), from, into)
    IN  \/ /\ ~merged.ok
           /\ pages' = With(pages, into, merged.page)
           /\ Answer(op.req, "error")
           /\ UNCHANGED root_id
        \/ merged.ok /\ CheckParentUnderfull(parent, With(With(pages, into, merged.page), parent, new_parent))

\* Borrowing was not possible: a merge with the left sibling if there is one.
CannotBorrow(s) == \A id \in {s.left, s.right} \ {-1} : ~CanLend(pages[id])

MergeWithLeft(parent, s) ==
    CannotBorrow(s) /\ s.left # -1 /\ Merge(parent, s.left, op.id, s.idx - 1)

MergeWithRight(parent, s) ==
    CannotBorrow(s) /\ s.left = -1 /\ s.right # -1 /\ Merge(parent, op.id, s.right, s.idx)

\* handle_underfull, one level: borrow from the left, then from the right, then
\* merge.  (Every page below the root has a sibling.)
HandleUnderfull ==
    /\ op.pc = "underfull"
    /\ LET parent == Last(op.trail)
           s == Siblings(pages[parent], op.id)
       IN  \/ RedistributeFromLeft(parent, s)
           \/ RedistributeFromRight(parent, s)
           \/ MergeWithLeft(parent, s)
           \/ MergeWithRight(parent, s)
           \/ /\ s.left = -1 /\ s.right = -1
              /\ Answer(op.req, "ok")
              /\ UNCHANGED <<pages, root_id>>
    /\ UNCHANGED reopens

\* Mutant: the first page is the root.
OpenedRootFirst == 0

\* The root when the files are opened: the first page whose kind is Root.
OpenedRoot ==
    LET roots == {id \in DOMAIN pages : pages[id].kind = "Root"}
    IN  IF roots = {} THEN 0 ELSE CHOOSE id \in roots : \A r \in roots : id <= r

\* new_with_wal on files everything was flushed to, and recover.
Reopen ==
    /\ op = Idle /\ reopens < MaxReopens
    /\ root_id' = OpenedRoot
    /\ reopens' = reopens + 1
    /\ UNCHANGED <<pages, op, reply>>

Next ==
    \/ \E key \in Keys : Get(key) \/ RefuseRow(key) \/ \E record \in Records[key] : Insert(key, record)
    \/ \E key \in Deletable : Delete(key)
    \/ HandleOverfull \/ HandleUnderfull \/ Reopen

Spec == Init /\ [][Next]_vars
-----------------------------------------------------------------------------
(* Properties. *)

\* The pages the root leads to, and which of them are leaves.
Reachable ==
    LET below[at \in (DOMAIN pages) \X (0..NextId)] ==
            LET id == at[1]
                n == at[2]
            IN  IF IsLeafLevel(pages[id]) \/ n = 0 THEN {id}
                ELSE {id} \cup UNION {below[<<child, n - 1>>] : child \in ToSet(ChildIds(pages[id]))}
    IN  below[<<root_id, NextId>>]
Leaves == {id \in Reachable : IsLeafLevel(pages[id])}

\* The cells of the leaves, whether or not a search would find them.
Contents == UNION {ToSet(pages[l].cells) : l \in Leaves}

\* The tree is a map: an insertion adds its key and no other, a deletion takes
\* its key and no other, whatever splits, borrowing, merging and root changes
\* they cause, half way through them included, and every answer is true.
Map == INSTANCE KVMap WITH entries <- Contents
ImplementsMap == Map!MapSpec

\* Every key in a leaf is where a search for it ends, although a deletion can
\* leave separators that are keys of no leaf.
SearchFinds ==
    \A l \in Leaves : \A k \in KeysOf(pages[l]) : Last(Breadcrumbs(k)) = l

\* Between calls the reachable pages are a tree, every page the child of one
\* other, with all leaves at one depth.
IsTree ==
    op = Idle =>
        LET reachable == Reachable
            inner == {id \in reachable : ~IsLeafLevel(pages[id])}
            Links(q) == {q} \X DOMAIN ChildIds(pages[q])
            parents(id) == {x \in UNION {Links(q) : q \in inner} : ChildIds(pages[x[1]])[x[2]] = id}
        IN  /\ \A id \in reachable : Cardinality(parents(id)) = IF id = root_id THEN 0 ELSE 1
            /\ Cardinality({Len(Breadcrumbs(k)) : k \in Keys}) = 1

\* A leaf's right-sibling pointer leads to the leaf with the next larger keys:
\* splits and merges keep the chain.  (The last leaf's pointer means nothing.)
LeafChain ==
    op = Idle /\ Cardinality(Leaves) > 1 =>
        LET leaves == Leaves
            first(l) == pages[l].cells[1].key
            after(l) == {m \in leaves : first(m) > first(l)}
        IN  \A l \in leaves : after(l) # {} =>
                /\ pages[l].ptr \in after(l)
                /\ \A m \in after(l) : first(pages[l].ptr) <= first(m)

\* No page but the root gets emptier than a split makes it: a leaf keeps
\* DEGREE - 1 cells and an internal page DEGREE - 2.
Occupancy ==
    op = Idle =>
        \A id \in Reachable \ {root_id} :
            Len(pages[id].cells) >= IF IsLeafLevel(pages[id]) THEN DEGREE - 1 ELSE DEGREE - 2

\* What the calls after a split, a borrowing or a merge rely on, which shows in
\* searches many calls later only.
WellFormed == IsTree /\ LeafChain /\ Occupancy

Found(key) == key \in KeysOf(pages[Last(Breadcrumbs(key))])
Deletes(key) ==
    \/ reply' = [op |-> "delete", key |-> key, out |-> "ok"]
    \/ op'.pc = "underfull" /\ op'.req = <<"delete", key>>

\* A key that a search finds is found until it is deleted, whatever other calls
\* do to the pages, through closing the files and opening them again too.
KeysStayFound == [][\A k \in Keys : Found(k) /\ ~Found(k)' => Deletes(k)]_vars
\* The files are opened only while one page says that it is a root.
OneRoot == reopens' # reopens => Cardinality({id \in DOMAIN pages : pages[id].kind = "Root"}) = 1

\* A call that fails changes nothing: a split or a merge does not stop half way.
FailsClean == reply'.out = "error" /\ op' = Idle => UNCHANGED pages
-----------------------------------------------------------------------------
(* What comments of the code say, which does not hold. *)

\* slotted_page.rs: "Page overflow" "should and will NEVER trigger".
NeverPageOverflow == reply.out # "error"

\* The leaf with the smallest keys below a page.
Leftmost(page) ==
    LET down[id \in DOMAIN pages, n \in 0..NextId] ==
            IF IsLeafLevel(pages[id]) \/ n = 0 THEN id ELSE down[ChildIds(pages[id])[1], n - 1]
    IN  down[page, NextId]

\* propagate_key_update: "the left most cell's key of a leaf node will always be
\* the same as the parent node's key pointing to it".
SeparatorsAreFirstKeys ==
    op = Idle =>
        \A id \in Reachable \ Leaves : \A i \in DOMAIN pages[id].cells :
            pages[Leftmost(ChildIds(pages[id])[i + 1])].cells[1].key = pages[id].cells[i].key
=============================================================================
