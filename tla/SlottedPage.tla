---------------------------- MODULE SlottedPage ----------------------------
(***************************************************************************)
(* One page of the index file: slotted_page.rs and IndexHeader of header.rs.*)
(*                                                                          *)
(* After the header comes an array of slots that grows upwards in key       *)
(* order; the cells grow downwards from the end in the order they came.     *)
(* Offsets and sizes are the code's; the bytes of a cell are one value.     *)
(* A caller has the page to itself until the call ends; a step is one cell  *)
(* placed, one probe of the binary search, or one slot linked in.           *)
(***************************************************************************)
EXTENDS Integers, Sequences

CONSTANTS
    PAGE_SIZE,
    Keys,
    HeapIds,  \* heap pages that cells of a leaf lead to
    PageIds,  \* index pages that other cells, and ptr, lead to
    Contents  \* sequences of cells callers rebuild a page from

HEADER_SIZE == 22
SLOT_SIZE == 4
CELL_SIZE == 16  \* KEY_SIZE + PTR_SIZE

\* The count bplus_tree.rs derives from the sizes, and relies on.
ORDER == (PAGE_SIZE - HEADER_SIZE) \div (CELL_SIZE + SLOT_SIZE)

\* Offsets fit the u16 of header and slots.
ASSUME PageSizeAssumption == PAGE_SIZE \in Nat /\ HEADER_SIZE <= PAGE_SIZE /\ PAGE_SIZE < 65536

ASSUME PageAssumption ==
    /\ Keys \subseteq Nat
    /\ HeapIds \cap PageIds = {} /\ 0 \in PageIds
    /\ Contents \subseteq Seq([key : Keys, val : HeapIds \cup PageIds])

VARIABLES
    page,
    call, \* the call in progress
    done  \* history: the last call that ended, as SortedPage shows it

vars == <<page, call, done>>
-----------------------------------------------------------------------------
LeafLevel(p) == p.kind = "Leaf" \/ (p.kind = "Root" /\ p.root_leaf)

NumCells(p) == (p.free_start - HEADER_SIZE) \div SLOT_SIZE
KeyAt(p, i) == p.cells[p.slots[i]].key

\* get_cells
GetCells(p) == [i \in 1..NumCells(p) |-> p.cells[p.slots[i - 1]]]

\* What a pointer of the page's cells is taken for.
Pointers(p) == IF LeafLevel(p) THEN HeapIds ELSE PageIds

InitHeader(kind, ptr) ==
    [kind |-> kind, root_leaf |-> FALSE, ptr |-> ptr,
     free_start |-> HEADER_SIZE, free_end |-> PAGE_SIZE, slots |-> <<>>, cells |-> <<>>]

Idle == [pc |-> "idle"]

\* What the page was before the call in progress.
Before == IF call.pc = "idle" THEN page ELSE call.before

Start(ask, todo) ==
    call' = [pc |-> "next", todo |-> todo, ask |-> ask, before |-> page]

Return(ask, reply) ==
    /\ call' = Idle
    /\ done' = [ask |-> ask, reply |-> reply]
-----------------------------------------------------------------------------
(* The calls. *)

\* A new file's root, or a page allocated by a split.
Init ==
    /\ \E kind \in {"Root", "Leaf", "Internal"}, leaf \in BOOLEAN :
          /\ leaf => kind = "Root"
          /\ page = [InitHeader(kind, 0) EXCEPT !.root_leaf = leaf]
    /\ call = Idle
    /\ done = [ask |-> [op |-> "none"], reply |-> "ok"]

AddCell(key, val) ==
    /\ call = Idle /\ val \in Pointers(page)
    /\ Start([op |-> "add_cell", key |-> key, val |-> val], <<[key |-> key, val |-> val]>>)
    /\ UNCHANGED <<page, done>>

\* rebuild_from_cells, first part.  The root's flag stays if it stays a root.
Rebuilt(kind, ptr) ==
    [InitHeader(kind, ptr) EXCEPT !.root_leaf = page.kind = "Root" /\ page.root_leaf /\ kind = "Root"]

\* A split or merge gives the page its own cells or a sibling's, of its level:
\* as a root's half it becomes a leaf or an internal page.  So no cell lacks the
\* pointer that the page's level asks for, and the errors for that do not arise.
Rebuild(kind, cells, ptr) ==
    /\ call = Idle
    /\ kind \in {page.kind, IF LeafLevel(page) THEN "Leaf" ELSE "Internal"}
    /\ \A i \in DOMAIN cells : cells[i].val \in Pointers(page)
    /\ Start([op |-> "rebuild_from_cells", cells |-> cells], cells)
    /\ page' = Rebuilt(kind, ptr)
    /\ UNCHANGED done

\* remove_cell_at: all cells but one, on a page made anew.
RemoveCellAt(i) ==
    /\ call = Idle
    /\ LET ask == [op |-> "remove_cell_at", idx |-> i]
           n == NumCells(page)
       IN  IF i >= n
           THEN Return(ask, "Cell index out of bounds") /\ UNCHANGED page
           ELSE /\ Start(ask, [j \in 1..n - 1 |-> GetCells(page)[IF j <= i THEN j ELSE j + 1]])
                /\ page' = Rebuilt(page.kind, page.ptr)
                /\ UNCHANGED done

SetHeaderPtr(ptr) ==
    /\ call = Idle
    /\ page' = [page EXCEPT !.ptr = ptr]
    /\ UNCHANGED <<call, done>>

\* set_page_kind: the last child of an empty root becomes the root; a root of
\* internal pages that has been split, an internal page.
\* Mutant: the new root is not marked as a leaf.
RootLeafDropped(kind) == FALSE
RootLeaf(kind) == kind = "Root" /\ (LeafLevel(page) \/ page.root_leaf)
SetPageKind(kind) ==
    /\ call = Idle
    /\ kind = "Internal" => page.kind = "Root" /\ ~page.root_leaf
    /\ page' = [page EXCEPT !.kind = kind, !.root_leaf = RootLeaf(kind)]
    /\ UNCHANGED <<call, done>>
-----------------------------------------------------------------------------
(* add_cell, step by step. *)

\* The new cell and its slot must fit between the slots and the cells.
\* Mutant: the slot is forgotten.
FitsCellOnly(p) == p.free_end - CELL_SIZE >= p.free_start
Fits(p) == p.free_end - CELL_SIZE >= p.free_start + SLOT_SIZE

\* The cell's bytes are written before the search: a refusal leaves them in free space.
Place ==
    /\ call.pc = "next" /\ call.todo # <<>>
    /\ LET cell == Head(call.todo)
           start == page.free_end - CELL_SIZE
       IN  IF Fits(page)
           THEN /\ page' = [page EXCEPT !.cells =
                              [o \in DOMAIN page.cells \cup {start} |->
                                  IF o = start THEN cell ELSE page.cells[o]]]
                /\ call' = [pc |-> "search", todo |-> call.todo, ask |-> call.ask,
                            before |-> call.before, lo |-> 0, hi |-> NumCells(page)]
                /\ UNCHANGED done
           ELSE /\ Return(call.ask, "Page overflow")
                /\ UNCHANGED page

Mid == call.lo + (call.hi - call.lo) \div 2

\* One round of the binary search.
\* Mutant: a smaller key is kept in the interval.
LowerStay(mid) == mid
Lower(mid) == mid + 1
Probe ==
    /\ call.pc = "search" /\ call.lo < call.hi
    /\ LET key == Head(call.todo).key
       IN  \/ /\ KeyAt(page, Mid) < key
              /\ call' = [call EXCEPT !.lo = Lower(Mid)] /\ UNCHANGED done
           \/ /\ KeyAt(page, Mid) > key
              /\ call' = [call EXCEPT !.hi = Mid] /\ UNCHANGED done
           \/ /\ KeyAt(page, Mid) = key
              /\ Return(call.ask, "duplicate key")
    /\ UNCHANGED page

\* The slots from idx on move up by one, and slot idx points to the new cell.
\* Mutant: the slot is put at the end.
LinkedLast(p, idx, start) ==
    [i \in 0..NumCells(p) |-> IF i < NumCells(p) THEN p.slots[i] ELSE start]
Linked(p, idx, start) ==
    [i \in 0..NumCells(p) |->
        IF i < idx THEN p.slots[i] ELSE IF i = idx THEN start ELSE p.slots[i - 1]]

\* copy_within, the slot's bytes, and the header.
Link ==
    /\ call.pc = "search" /\ call.lo = call.hi
    /\ LET start == page.free_end - CELL_SIZE
       IN  page' = [page EXCEPT !.slots = Linked(page, call.lo, start),
                                !.free_start = @ + SLOT_SIZE, !.free_end = start]
    /\ call' = [pc |-> "next", todo |-> Tail(call.todo), ask |-> call.ask, before |-> call.before]
    /\ UNCHANGED done

Finish ==
    /\ call.pc = "next" /\ call.todo = <<>>
    /\ Return(call.ask, "ok")
    /\ UNCHANGED page

Step == Place \/ Probe \/ Link \/ Finish

Next ==
    \/ \E key \in Keys, val \in HeapIds \cup PageIds : AddCell(key, val)
    \/ \E kind \in {"Root", "Leaf", "Internal"}, cells \in Contents, ptr \in PageIds :
          Rebuild(kind, cells, ptr)
    \/ \E i \in 0..ORDER : RemoveCellAt(i)
    \/ \E ptr \in PageIds : SetHeaderPtr(ptr)
    \/ \E kind \in {"Root", "Internal"} : SetPageKind(kind)
    \/ Step

\* A call that has begun goes on: nothing in it waits.
Spec == Init /\ [][Next]_vars /\ WF_vars(Step)
-----------------------------------------------------------------------------
(* Properties. *)

Offsets(p) == {p.slots[i] : i \in 0..NumCells(p) - 1}

\* No byte of the page has two owners: the slots end where free space begins,
\* the cells lie between free space and the page's end, and no two overlap.
Layout ==
    /\ page.free_start = HEADER_SIZE + SLOT_SIZE * NumCells(page)
    /\ page.free_start <= page.free_end /\ page.free_end <= PAGE_SIZE
    /\ DOMAIN page.slots = 0..NumCells(page) - 1
    /\ \A i \in DOMAIN page.slots :
          /\ page.slots[i] \in page.free_end..PAGE_SIZE - CELL_SIZE
          /\ page.slots[i] \in DOMAIN page.cells
          /\ \A j \in DOMAIN page.slots :
                i < j => \/ page.slots[i] + CELL_SIZE <= page.slots[j]
                         \/ page.slots[j] + CELL_SIZE <= page.slots[i]

\* The slots are in key order, so that the binary search of the next call works.
Sorted == \A i, j \in DOMAIN page.slots : i < j => KeyAt(page, i) < KeyAt(page, j)

\* What every call, and every step of its search, relies on in the page.
PageSound == Layout /\ Sorted

\* No cell written as a heap pointer is ever read as a child's or the other way
\* round, whatever the page was called and is called now.
ReadAsWritten == \A i \in DOMAIN page.slots : page.cells[page.slots[i]].val \in Pointers(page)

\* A page is never full before it has ORDER cells, the count the tree splits at.
RoomForOrder == Fits(page) <=> NumCells(page) < ORDER

\* The page is a map, changed by whole calls: every call does to it what was
\* asked for, and says so.
Content(p) ==
    [k \in {KeyAt(p, i) : i \in 0..NumCells(p) - 1} |->
        p.cells[CHOOSE o \in Offsets(p) : p.cells[o].key = k].val]
SortedPageOf == INSTANCE SortedPage WITH
    content <- Content(Before), Values <- HeapIds \cup PageIds, Room <- ORDER
ImplementsSortedPage == SortedPageOf!Spec

\* The search comes to an end, and every call does.
CallEnds == call # Idle ~> call = Idle
=============================================================================
