------------------------------ MODULE HeapFile ------------------------------
(***************************************************************************)
(* The pages that hold the rows: heap.rs, HeapPage of slotted_page.rs and   *)
(* HeapHeader of header.rs, with what BplusTree's insert, delete and get do *)
(* to them.                                                                 *)
(*                                                                          *)
(* A row is a list of records.  The tree puts each row on a page of its own *)
(* (allocate, add_records).  insert_records, which nothing calls yet, goes  *)
(* on to overflow pages, linked by the headers' ptr.  Slots grow upwards    *)
(* after the header and records downwards from the end; offsets and sizes   *)
(* are the code's, a record's bytes are one value.  Writers have the file   *)
(* to themselves (tree_lock), so each call is one step.                     *)
(***************************************************************************)
EXTENDS Integers, SequencesExt, FiniteSetsExt

CONSTANTS
    PAGE_SIZE,
    Keys,
    Records,     \* [data, size]: a record and how many bytes it has
    Rows,        \* the lists of records that callers put in
    HeadsAlone,  \* whether callers of insert_records keep to the pages it works for
    MaxPages     \* bound: pages of the file

HEAP_HEADER_SIZE == 21
SLOT_SIZE == 4

ASSUME HeapAssumption ==
    /\ PAGE_SIZE \in Nat /\ HEAP_HEADER_SIZE <= PAGE_SIZE /\ PAGE_SIZE < 65536
    /\ \A r \in Records : r.size \in Nat
    /\ Rows \subseteq Seq(Records)
    /\ HeadsAlone \in BOOLEAN /\ MaxPages \in Nat

VARIABLES
    heap,   \* page id -> page; next_id is the number of pages
    index,  \* key -> the heap page its cell leads to
    stored, \* history: page -> the records callers put in there that were not refused
    last    \* history: the last insertion, its records and whether the heap took them

vars == <<heap, index, stored, last>>

next_id == Cardinality(DOMAIN heap)
-----------------------------------------------------------------------------
(* One page. *)

\* HeapHeader::new_primary and new_overflow.
NewPage(primary) ==
    [primary |-> primary, has_overflow |-> FALSE, ptr |-> 0,
     free_start |-> HEAP_HEADER_SIZE, free_end |-> PAGE_SIZE, slots |-> <<>>]

\* add_cell: the slot and the record must fit between the slots and the records.
\* Mutant: the slot is forgotten.
FitsRecordOnly(p, r) == p.free_end - r.size >= p.free_start
Fits(p, r) == p.free_end - r.size >= p.free_start + SLOT_SIZE

AddCell(p, r) ==
    [p EXCEPT !.slots = Append(@, [cell_offset |-> p.free_end - r.size,
                                   cell_size |-> r.size, data |-> r]),
              !.free_start = @ + SLOT_SIZE,
              !.free_end = @ - r.size]

\* A slot is counted here and again by insert_records.
\* Mutant: the free space is read off the end alone.
SpaceToTheEnd(p) == p.free_end
RemainingSpace(p) == IF p.free_end < p.free_start + SLOT_SIZE THEN 0
                     ELSE p.free_end - (p.free_start + SLOT_SIZE)

\* add_records: the records before the first that does not fit stay on the page.
AddRecord(at, r) ==
    IF at.ok /\ Fits(at.page, r) THEN [at EXCEPT !.page = AddCell(@, r)]
    ELSE [at EXCEPT !.ok = FALSE]
AddRecords(p, row) ==
    LET at[n \in 0..Len(row)] ==
            IF n = 0 THEN [page |-> p, ok |-> TRUE] ELSE AddRecord(at[n - 1], row[n])
    IN  at[Len(row)]
-----------------------------------------------------------------------------
(* Chains of pages. *)

Allocated(h, page) == [q \in DOMAIN h \cup {Cardinality(DOMAIN h)} |->
                          IF q \in DOMAIN h THEN h[q] ELSE page]

\* The pages from id on, as far as a loop over has_overflow_page goes; Endless
\* if it does not come to an end.
Endless == <<>>
Chain(h, id) ==
    LET Hop(c) == IF h[Last(c)].has_overflow THEN Append(c, h[Last(c)].ptr) ELSE c
        walk[n \in 0..Cardinality(DOMAIN h)] == IF n = 0 THEN <<id>> ELSE Hop(walk[n - 1])
        chain == walk[Cardinality(DOMAIN h)]
    IN  IF h[Last(chain)].has_overflow THEN Endless ELSE chain

\* get_record and collect_overflow_records: the records of the pages of a chain.
Data(p) == [j \in DOMAIN p.slots |-> p.slots[j].data]
Collected(h, chain) ==
    LET read[i \in 0..Len(chain)] ==
            IF i = 0 THEN <<>> ELSE read[i - 1] \o Data(h[chain[i]])
    IN  read[Len(chain)]
GetRecord(h, id) == Collected(h, Chain(h, id))

\* Where insert_records begins: of a primary page at the end of the chain that
\* ptr leads to, although is_overflow_page was asked for, and ptr says nothing
\* while there is no overflow page.
\* Mutant: at the page ptr leads to.
FromPtr(h, id) == IF h[id].primary THEN h[id].ptr ELSE id
From(h, id) == IF h[id].primary THEN Last(Chain(h, h[id].ptr)) ELSE id

\* set_has_overflow.
Linked(p, id) == [p EXCEPT !.has_overflow = TRUE, !.ptr = id]

\* The page the next record is tried on.
NextTail(cur, id) == id

\* One record: on the current page, or on a new one that is linked to it.  The
\* link stays when the record does not fit on an empty page either.
Put(at, r) ==
    LET h == at.heap
        id == Cardinality(DOMAIN h)
        room == RemainingSpace(h[at.cur]) >= r.size + SLOT_SIZE
        linked == Allocated([h EXCEPT ![at.cur] = Linked(@, id)], NewPage(FALSE))
    IN  CASE at.ok /\ room ->
               [heap |-> [h EXCEPT ![at.cur] = AddCell(@, r)], cur |-> at.cur,
                put |-> Append(at.put, r), ok |-> TRUE]
          [] at.ok /\ ~room /\ Fits(NewPage(FALSE), r) ->
               [heap |-> [linked EXCEPT ![id] = AddCell(@, r)], cur |-> NextTail(at.cur, id),
                put |-> Append(at.put, r), ok |-> TRUE]
          [] at.ok /\ ~room /\ ~Fits(NewPage(FALSE), r) ->
               [heap |-> linked, cur |-> at.cur, put |-> at.put, ok |-> FALSE]
          [] ~at.ok -> at

\* The records one after another, from the tail of the page's chain on.
PutAll(h, id, row) ==
    LET at[n \in 0..Len(row)] ==
            IF n = 0 THEN [heap |-> h, cur |-> From(h, id), put |-> <<>>, ok |-> TRUE]
            ELSE Put(at[n - 1], row[n])
    IN  at[Len(row)]
-----------------------------------------------------------------------------
(* The operations. *)

Init ==
    /\ heap = <<>> /\ index = <<>> /\ stored = <<>>
    /\ last = [op |-> "none", row |-> <<>>, ok |-> TRUE]

With(f, x, v) == [y \in DOMAIN f \cup {x} |-> IF y = x THEN v ELSE f[y]]

\* BplusTree::insert, after the search: the row's page, then the cell.  When the
\* row does not fit, or the index page refuses the cell (~indexed), the row's page
\* stays in the file with what did fit, and no cell leads to it.
Insert(key, row, indexed) ==
    /\ next_id < MaxPages /\ key \notin DOMAIN index
    /\ LET put == AddRecords(NewPage(FALSE), row)
       IN  /\ heap' = Allocated(heap, put.page)
           /\ IF put.ok /\ indexed
              THEN /\ index' = With(index, key, next_id)
                   /\ stored' = With(stored, next_id, row)
              ELSE UNCHANGED <<index, stored>>
           /\ last' = [op |-> "insert", row |-> row, ok |-> put.ok]

\* delete takes the cell away, not the page.
Delete(key) ==
    /\ key \in DOMAIN index
    /\ index' = [k \in DOMAIN index \ {key} |-> index[k]]
    /\ stored' = [q \in DOMAIN stored \ {index[key]} |-> stored[q]]
    /\ UNCHANGED <<heap, last>>

AllocatePrimary ==
    /\ next_id < MaxPages
    /\ heap' = Allocated(heap, NewPage(TRUE))
    /\ stored' = With(stored, next_id, <<>>)
    /\ UNCHANGED <<index, last>>

\* The pages insert_records works for: the first page of the file, if it is
\* primary, since ptr says 0 while it says nothing; and others until they have
\* an overflow page.
WorksFor(id) == IF heap[id].primary THEN id = 0 ELSE ~heap[id].has_overflow

InsertRecords(id, row) ==
    /\ next_id + Len(row) <= MaxPages
    /\ id \in DOMAIN stored
    /\ HeadsAlone => WorksFor(id)
    /\ LET put == PutAll(heap, id, row)
       IN  /\ heap' = put.heap
           /\ stored' = [stored EXCEPT ![id] = @ \o put.put]
           /\ last' = [op |-> "insert_records", row |-> row, ok |-> put.ok]
    /\ UNCHANGED index

Next ==
    \/ \E key \in Keys, row \in Rows, indexed \in BOOLEAN : Insert(key, row, indexed)
    \/ \E key \in Keys : Delete(key)
    \/ AllocatePrimary
    \/ \E id \in DOMAIN heap, row \in Rows : InsertRecords(id, row)

Spec == Init /\ [][Next]_vars
-----------------------------------------------------------------------------
(* Properties. *)

\* A key's row, and the records put on a page and its overflow pages, read back
\* whole and in order, whatever else was put into the file.
ReadsBack ==
    /\ \A k \in DOMAIN index : index[k] \in DOMAIN stored
    /\ \A id \in DOMAIN stored : GetRecord(heap, id) = stored[id]

\* The records follow each other downwards from the page's end, and do not reach
\* the slots.
LaidOut(p) ==
    LET end(i) == IF i = 1 THEN PAGE_SIZE ELSE p.slots[i - 1].cell_offset
    IN  /\ p.free_start = HEAP_HEADER_SIZE + SLOT_SIZE * Len(p.slots)
        /\ p.free_start <= p.free_end /\ p.free_end = end(Len(p.slots) + 1)
        /\ \A i \in DOMAIN p.slots :
              /\ p.slots[i].cell_offset + p.slots[i].cell_size = end(i)
              /\ p.slots[i].cell_size = p.slots[i].data.size

\* No byte of a page has two owners, the header, the slots or a record.
Layout ==
    \A id \in DOMAIN heap : LaidOut(heap[id])

\* Every chain ends, no page is on two chains, and no chain runs into a page
\* that a row or a caller has for itself.
ChainsApart ==
    /\ \A id \in DOMAIN heap : Chain(heap, id) # Endless
    /\ \A p, q \in DOMAIN heap :
          heap[p].has_overflow =>
             /\ heap[p].ptr \notin DOMAIN stored
             /\ heap[q].has_overflow /\ heap[q].ptr = heap[p].ptr => p = q

\* What was stored is there, and nothing else has its pages.
RowsKept == ReadsBack /\ ChainsApart

\* A row is refused here for its size only: insert refuses one that a page cannot
\* hold, insert_records one with a record that an empty page cannot hold.
Taken(row) ==
    LET sum[n \in 0..Len(row)] == IF n = 0 THEN 0 ELSE sum[n - 1] + row[n].size + SLOT_SIZE
    IN  sum[Len(row)]
Room == PAGE_SIZE - HEAP_HEADER_SIZE
RefusedForSize ==
    last.ok <=> CASE last.op = "insert" -> Taken(last.row) <= Room
                  [] last.op = "insert_records" ->
                       \A i \in DOMAIN last.row : last.row[i].size + SLOT_SIZE <= Room
                  [] OTHER -> TRUE
=============================================================================
