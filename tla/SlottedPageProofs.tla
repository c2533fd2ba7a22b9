------------------------- MODULE SlottedPageProofs -------------------------
(***************************************************************************)
(* For a page of any size, any keys and any calls: the layout of the page,  *)
(* the order of its slots, the meaning of its cells, and that it is full    *)
(* exactly at ORDER cells; and that with all this it is the map SortedPage. *)
(*                                                                          *)
(* The invariant adds to the properties where free space begins and ends    *)
(* (Geometry), and the loop invariant of the binary search (CallSound):     *)
(* all keys before lo are smaller, all from hi on are larger, and the cell  *)
(* that will be linked in is written where the next slot will point.        *)
(*                                                                          *)
(* For the map the invariant also says how far a call has got (CallKept):   *)
(* the first cells of its list are on the page with those it found there,   *)
(* no two of one key, and the rest is still to come.  The map is determined *)
(* by the set of cells (Represents, SameMap), an index by the number of     *)
(* smaller keys (KeyRank).                                                  *)
(***************************************************************************)
EXTENDS SlottedPage, FiniteSetTheorems, TLAPS

Cell == [key : Keys, val : HeapIds \cup PageIds]

\* A page is a record of the seven parts.
IsPageRecord(p) ==
    p = [kind |-> p.kind, root_leaf |-> p.root_leaf, ptr |-> p.ptr, free_start |-> p.free_start,
         free_end |-> p.free_end, slots |-> p.slots, cells |-> p.cells]

\* The cell that was the n-th to come lies n cells before the end.
NthCell(n) == PAGE_SIZE - CELL_SIZE * n

Geometry(p) ==
    /\ IsPageRecord(p)
    /\ p.kind \in {"Root", "Leaf", "Internal"} /\ p.root_leaf \in BOOLEAN
    /\ p.root_leaf => p.kind = "Root"
    /\ NumCells(p) \in Nat
    /\ p.free_start = HEADER_SIZE + SLOT_SIZE * NumCells(p)
    /\ p.free_end = NthCell(NumCells(p))
    /\ p.free_start <= p.free_end
    /\ \A o \in DOMAIN p.cells : o \in Int /\ p.cells[o] \in Cell

SlotsSound(p) ==
    /\ DOMAIN p.slots = 0..NumCells(p) - 1
    /\ \A i \in 0..NumCells(p) - 1 :
          /\ p.slots[i] \in DOMAIN p.cells
          /\ \E k \in 1..NumCells(p) : p.slots[i] = NthCell(k)
          /\ p.cells[p.slots[i]].val \in Pointers(p)
    /\ \A i, j \in 0..NumCells(p) - 1 : p.slots[i] = p.slots[j] => i = j
    /\ \A i, j \in 0..NumCells(p) - 1 : i < j => KeyAt(p, i) < KeyAt(p, j)

Todo == /\ call.todo \in Seq(Cell)
        /\ \A i \in 1..Len(call.todo) : call.todo[i].val \in Pointers(page)

SearchSound ==
    /\ call.todo # <<>>
    /\ Fits(page)
    /\ NthCell(NumCells(page) + 1) \in DOMAIN page.cells
    /\ page.cells[NthCell(NumCells(page) + 1)] = Head(call.todo)
    /\ call.lo \in 0..NumCells(page) /\ call.hi \in call.lo..NumCells(page)
    /\ \A i \in 0..NumCells(page) - 1 :
          /\ i < call.lo => KeyAt(page, i) < Head(call.todo).key
          /\ i >= call.hi => KeyAt(page, i) > Head(call.todo).key

CallSound ==
    \/ call = Idle
    \/ /\ call = [pc |-> "next", todo |-> call.todo, ask |-> call.ask, before |-> call.before]
       /\ Todo
    \/ /\ call = [pc |-> "search", todo |-> call.todo, ask |-> call.ask, before |-> call.before,
                  lo |-> call.lo, hi |-> call.hi]
       /\ Todo /\ SearchSound

IInv == Geometry(page) /\ SlotsSound(page) /\ CallSound

Sizes == HEADER_SIZE = 22 /\ SLOT_SIZE = 4 /\ CELL_SIZE = 16
LEMMA SizesAre == Sizes
  BY DEF Sizes, HEADER_SIZE, SLOT_SIZE, CELL_SIZE

\* The count of cells read off free_start.
LEMMA CountOfSlots == \A n \in Nat : ((HEADER_SIZE + SLOT_SIZE * n) - HEADER_SIZE) \div SLOT_SIZE = n
  BY DEF HEADER_SIZE, SLOT_SIZE

\* A page made anew is sound, has no cells, and keeps the level it should have.
LEMMA FreshSound ==
  ASSUME NEW kind \in {"Root", "Leaf", "Internal"}, NEW ptr, NEW flag \in BOOLEAN,
         flag => kind = "Root", NEW p, p = [InitHeader(kind, ptr) EXCEPT !.root_leaf = flag]
  PROVE  Geometry(p) /\ SlotsSound(p) /\ NumCells(p) = 0
<1>1. /\ p.kind = kind /\ p.root_leaf = flag /\ p.ptr = ptr /\ p.free_start = HEADER_SIZE
      /\ p.free_end = PAGE_SIZE /\ p.slots = <<>> /\ p.cells = <<>>
      /\ IsPageRecord(p)
  BY DEF InitHeader, IsPageRecord
<1>2. NumCells(p) = 0
  BY <1>1, CountOfSlots DEF NumCells, HEADER_SIZE, SLOT_SIZE
<1>3. DOMAIN p.cells = {} /\ DOMAIN p.slots = {}
  BY <1>1
<1>4. Geometry(p)
  <2>1. PAGE_SIZE \in Int /\ HEADER_SIZE <= PAGE_SIZE
    BY PageSizeAssumption DEF HEADER_SIZE
  <2>2. NthCell(0) = PAGE_SIZE /\ HEADER_SIZE + SLOT_SIZE * 0 = HEADER_SIZE
    BY <2>1 DEF NthCell, HEADER_SIZE, SLOT_SIZE, CELL_SIZE
  <2> QED BY <1>1, <1>2, <1>3, <2>1, <2>2 DEF Geometry
<1>5. SlotsSound(p)
  <2>1. 0..NumCells(p) - 1 = {}
    BY <1>2
  <2> QED BY <1>3, <2>1 DEF SlotsSound
<1> QED BY <1>2, <1>4, <1>5
-----------------------------------------------------------------------------
LEMMA InitSound == Init => IInv
<1> SUFFICES ASSUME Init PROVE IInv
  OBVIOUS
<1>1. PICK kind \in {"Root", "Leaf", "Internal"}, leaf \in BOOLEAN :
         (leaf => kind = "Root") /\ page = [InitHeader(kind, 0) EXCEPT !.root_leaf = leaf]
  BY DEF Init
<1>2. Geometry(page) /\ SlotsSound(page)
  BY <1>1, FreshSound
<1>3. CallSound
  BY DEF Init, CallSound
<1> QED BY <1>2, <1>3 DEF IInv

\* What a cell at the head of a list says of the list's tail.
LEMMA TodoTail ==
  ASSUME NEW todo \in Seq(Cell), todo # <<>>
  PROVE  /\ Head(todo) \in Cell /\ Head(todo) = todo[1]
         /\ Tail(todo) \in Seq(Cell)
         /\ Len(Tail(todo)) = Len(todo) - 1 /\ Len(todo) \in Nat \ {0}
         /\ \A i \in 1..Len(todo) - 1 : Tail(todo)[i] = todo[i + 1]
  OBVIOUS

\* The cells read back are cells that the page's level accepts.
LEMMA CellsRead ==
  ASSUME NEW p, Geometry(p), SlotsSound(p), NEW j \in 1..NumCells(p)
  PROVE  GetCells(p)[j] \in Cell /\ GetCells(p)[j].val \in Pointers(p)
<1>1. NumCells(p) \in Nat
  BY DEF Geometry
<1>2. j - 1 \in 0..NumCells(p) - 1
  BY <1>1
<1>3. GetCells(p)[j] = p.cells[p.slots[j - 1]]
  BY DEF GetCells
<1>4. p.slots[j - 1] \in DOMAIN p.cells /\ p.cells[p.slots[j - 1]].val \in Pointers(p)
  BY <1>2 DEF SlotsSound
<1> QED BY <1>3, <1>4 DEF Geometry

\* The level of a page made anew is that of the old one, for the kinds callers ask for.
LEMMA LevelKept ==
  ASSUME Geometry(page), NEW ptr, NEW kind \in {"Root", "Leaf", "Internal"},
         kind \in {page.kind, IF LeafLevel(page) THEN "Leaf" ELSE "Internal"}
  PROVE  Pointers(Rebuilt(kind, ptr)) = Pointers(page)
<1>1. /\ Rebuilt(kind, ptr).kind = kind
      /\ Rebuilt(kind, ptr).root_leaf = (page.kind = "Root" /\ page.root_leaf /\ kind = "Root")
  BY DEF Rebuilt, InitHeader
<1>2. LeafLevel(Rebuilt(kind, ptr)) = LeafLevel(page)
  <2>1. CASE page.kind = "Root"
    BY <1>1, <2>1 DEF LeafLevel, Geometry
  <2>2. CASE page.kind # "Root"
    BY <1>1, <2>2 DEF LeafLevel, Geometry
  <2> QED BY <2>1, <2>2
<1> QED BY <1>2 DEF Pointers

LEMMA RebuiltSound ==
  ASSUME Geometry(page), NEW ptr, NEW kind \in {"Root", "Leaf", "Internal"}
  PROVE  Geometry(Rebuilt(kind, ptr)) /\ SlotsSound(Rebuilt(kind, ptr))
  BY FreshSound DEF Rebuilt

LEMMA AddCellSound ==
  ASSUME IInv, NEW key \in Keys, NEW val \in HeapIds \cup PageIds, AddCell(key, val)
  PROVE  IInv'
<1> DEFINE cell == [key |-> key, val |-> val]
<1>1. /\ call' = [pc |-> "next", todo |-> <<cell>>, before |-> page,
                  ask |-> [op |-> "add_cell", key |-> key, val |-> val]]
      /\ page' = page /\ val \in Pointers(page)
  BY DEF AddCell, Start
<1>2. <<cell>> \in Seq(Cell) /\ Len(<<cell>>) = 1 /\ <<cell>>[1] = cell
  BY DEF Cell
<1>3. \A i \in 1..Len(<<cell>>) : <<cell>>[i].val \in Pointers(page)
  BY <1>1, <1>2
<1>4. CallSound'
  BY <1>1, <1>2, <1>3 DEF CallSound, Todo
<1> QED BY <1>1, <1>4 DEF IInv

LEMMA RebuildSound ==
  ASSUME IInv, NEW kind \in {"Root", "Leaf", "Internal"}, NEW cells \in Contents,
         NEW ptr \in PageIds, Rebuild(kind, cells, ptr)
  PROVE  IInv'
<1>1. /\ call' = [pc |-> "next", todo |-> cells, before |-> page,
                  ask |-> [op |-> "rebuild_from_cells", cells |-> cells]]
      /\ page' = Rebuilt(kind, ptr)
      /\ kind \in {page.kind, IF LeafLevel(page) THEN "Leaf" ELSE "Internal"}
      /\ \A i \in DOMAIN cells : cells[i].val \in Pointers(page)
  BY DEF Rebuild, Start
<1>2. Geometry(page') /\ SlotsSound(page') /\ Pointers(page') = Pointers(page)
  BY <1>1, RebuiltSound, LevelKept DEF IInv
<1>3. cells \in Seq(Cell)
  BY PageAssumption DEF Cell
<1>4. \A i \in 1..Len(cells) : cells[i].val \in Pointers(page')
  BY <1>1, <1>2, <1>3
<1>5. CallSound'
  BY <1>1, <1>3, <1>4 DEF CallSound, Todo
<1> QED BY <1>2, <1>5 DEF IInv

LEMMA RemoveCellAtSound ==
  ASSUME IInv, NEW i \in Nat, RemoveCellAt(i)
  PROVE  IInv'
<1> DEFINE n == NumCells(page)
           rest == [j \in 1..n - 1 |-> GetCells(page)[IF j <= i THEN j ELSE j + 1]]
<1>1. CASE i >= n
  <2>1. page' = page /\ call' = Idle
    BY <1>1 DEF RemoveCellAt, Return
  <2> QED BY <2>1 DEF IInv, CallSound
<1>2. CASE ~(i >= n)
  <2>1. /\ call' = [pc |-> "next", todo |-> rest, before |-> page,
                    ask |-> [op |-> "remove_cell_at", idx |-> i]]
        /\ page' = Rebuilt(page.kind, page.ptr)
    BY <1>2 DEF RemoveCellAt, Start
  <2>2. page.kind \in {"Root", "Leaf", "Internal"} /\ n \in Nat /\ n - 1 \in Nat
    BY <1>2 DEF IInv, Geometry
  <2>3. Geometry(page') /\ SlotsSound(page') /\ Pointers(page') = Pointers(page)
    BY <2>1, <2>2, RebuiltSound, LevelKept DEF IInv
  <2>4. \A j \in 1..n - 1 : rest[j] \in Cell /\ rest[j].val \in Pointers(page)
    <3> SUFFICES ASSUME NEW j \in 1..n - 1
                 PROVE  rest[j] \in Cell /\ rest[j].val \in Pointers(page)
      OBVIOUS
    <3>1. (IF j <= i THEN j ELSE j + 1) \in 1..n
      BY <2>2
    <3> QED BY <3>1, CellsRead DEF IInv
  <2>5. rest \in Seq(Cell) /\ Len(rest) = n - 1
    BY <2>2, <2>4
  <2>6. CallSound'
    BY <2>1, <2>3, <2>4, <2>5 DEF CallSound, Todo
  <2> QED BY <2>3, <2>6 DEF IInv
<1> QED BY <1>1, <1>2

\* A new pointer or kind leaves geometry, slots and level alone.
LEMMA HeaderSound ==
  ASSUME IInv, call = Idle, call' = call,
         page'.kind \in {"Root", "Leaf", "Internal"}, page'.root_leaf \in BOOLEAN,
         page'.root_leaf => page'.kind = "Root", IsPageRecord(page'), Pointers(page') = Pointers(page),
         page'.free_start = page.free_start, page'.free_end = page.free_end,
         page'.slots = page.slots, page'.cells = page.cells
  PROVE  IInv'
<1>1. NumCells(page') = NumCells(page) /\ \A i : KeyAt(page', i) = KeyAt(page, i)
  BY DEF NumCells, KeyAt
<1>2. Geometry(page')
  BY <1>1 DEF IInv, Geometry
<1>3. SlotsSound(page')
  BY <1>1 DEF IInv, SlotsSound
<1> QED BY <1>2, <1>3 DEF IInv, CallSound

LEMMA SetHeaderPtrSound ==
  ASSUME IInv, NEW ptr, SetHeaderPtr(ptr)
  PROVE  IInv'
<1>1. /\ page' = [kind |-> page.kind, root_leaf |-> page.root_leaf, ptr |-> ptr,
                  free_start |-> page.free_start, free_end |-> page.free_end,
                  slots |-> page.slots, cells |-> page.cells]
      /\ call = Idle /\ call' = call
  BY DEF SetHeaderPtr, IInv, Geometry, IsPageRecord
<1>2. IsPageRecord(page') /\ Pointers(page') = Pointers(page)
  BY <1>1 DEF IsPageRecord, Pointers, LeafLevel
<1> QED BY <1>1, <1>2, HeaderSound DEF IInv, Geometry

LEMMA SetPageKindSound ==
  ASSUME IInv, NEW kind \in {"Root", "Internal"}, SetPageKind(kind)
  PROVE  IInv'
<1>1. /\ page' = [kind |-> kind, root_leaf |-> RootLeaf(kind), ptr |-> page.ptr,
                  free_start |-> page.free_start, free_end |-> page.free_end,
                  slots |-> page.slots, cells |-> page.cells]
      /\ call = Idle /\ call' = call
  BY DEF SetPageKind, IInv, Geometry, IsPageRecord
<1>2. IsPageRecord(page')
  BY <1>1 DEF IsPageRecord
<1>3. LeafLevel(page') <=> LeafLevel(page)
  <2>1. page.root_leaf => page.kind = "Root"
    BY DEF IInv, Geometry
  <2>2. page'.kind = kind /\ page'.root_leaf = RootLeaf(kind)
    BY <1>1
  <2>3. CASE kind = "Root"
    BY <2>1, <2>2, <2>3 DEF LeafLevel, RootLeaf
  <2>4. CASE kind = "Internal"
    <3>1. page.kind = "Root" /\ ~page.root_leaf
      BY <2>4 DEF SetPageKind
    <3> QED BY <2>2, <2>4, <3>1 DEF LeafLevel, RootLeaf
  <2> QED BY <2>3, <2>4
<1>4. Pointers(page') = Pointers(page)
  BY <1>3 DEF Pointers
<1>5. RootLeaf(kind) \in BOOLEAN /\ (RootLeaf(kind) => kind = "Root")
  BY DEF RootLeaf, LeafLevel, IInv, Geometry
<1>6. /\ page'.kind \in {"Root", "Leaf", "Internal"} /\ page'.root_leaf \in BOOLEAN
      /\ page'.root_leaf => page'.kind = "Root"
      /\ page'.free_start = page.free_start /\ page'.free_end = page.free_end
      /\ page'.slots = page.slots /\ page'.cells = page.cells
  BY <1>1, <1>5
<1> QED BY <1>1, <1>2, <1>4, <1>6, HeaderSound
-----------------------------------------------------------------------------
(* The steps of add_cell. *)

\* The offset of the cell to come: free, and large enough if there is room.
LEMMA NextOffset ==
  ASSUME Geometry(page)
  PROVE  /\ page.free_end - CELL_SIZE = NthCell(NumCells(page) + 1)
         /\ NthCell(NumCells(page) + 1) \in Int
         /\ \A k \in 1..NumCells(page) : NthCell(NumCells(page) + 1) # NthCell(k)
<1>1. PAGE_SIZE \in Int /\ NumCells(page) \in Nat /\ page.free_end = NthCell(NumCells(page))
  BY PageSizeAssumption DEF Geometry
<1> QED BY <1>1 DEF NthCell, CELL_SIZE

LEMMA KeysAreInt == \A c \in Cell : c.key \in Int
<1> SUFFICES ASSUME NEW c \in Cell PROVE c.key \in Int
  OBVIOUS
<1>1. Keys \subseteq Nat
  BY PageAssumption, Zenon
<1>2. \A V : \A x \in [key : Keys, val : V] : x.key \in Keys
  OBVIOUS
<1>3. c.key \in Keys
  BY <1>2, Zenon DEF Cell
<1>4. \A k \in Keys : k \in Int
  BY <1>1
<1> QED BY <1>3, <1>4, Zenon

\* What is known inside a call, by its pc.
LEMMA CallShapes ==
  ASSUME CallSound
  PROVE  /\ call.pc = "next" =>
             /\ call = [pc |-> "next", todo |-> call.todo, ask |-> call.ask, before |-> call.before]
             /\ Todo
         /\ call.pc = "search" =>
             /\ call = [pc |-> "search", todo |-> call.todo, ask |-> call.ask,
                        before |-> call.before, lo |-> call.lo, hi |-> call.hi]
             /\ Todo /\ SearchSound
<1>1. CASE call = Idle
  BY <1>1 DEF Idle
<1>2. CASE call = [pc |-> "next", todo |-> call.todo, ask |-> call.ask, before |-> call.before] /\ Todo
  <2>1. call.pc = "next"
    BY <1>2
  <2> QED BY <1>2, <2>1
<1>3. CASE /\ call = [pc |-> "search", todo |-> call.todo, ask |-> call.ask,
                      before |-> call.before, lo |-> call.lo, hi |-> call.hi]
           /\ Todo /\ SearchSound
  <2>1. call.pc = "search"
    BY <1>3
  <2> QED BY <1>3, <2>1
<1> QED BY <1>1, <1>2, <1>3 DEF CallSound

LEMMA PlaceSound == ASSUME IInv, Place PROVE IInv'
<1> DEFINE n == NumCells(page)
           start == page.free_end - CELL_SIZE
           cell == Head(call.todo)
           written == [o \in DOMAIN page.cells \cup {start} |->
                          IF o = start THEN cell ELSE page.cells[o]]
<1>1. /\ call = [pc |-> "next", todo |-> call.todo, ask |-> call.ask, before |-> call.before]
      /\ Todo /\ call.todo # <<>>
  BY CallShapes DEF IInv, Place
<1>2. CASE ~Fits(page)
  BY <1>2 DEF Place, Return, IInv, CallSound
<1>3. CASE Fits(page)
  <2>1. /\ page' = [page EXCEPT !.cells = written]
        /\ call' = [pc |-> "search", todo |-> call.todo, ask |-> call.ask,
                    before |-> call.before, lo |-> 0, hi |-> n]
    BY <1>3 DEF Place
  <2>2. /\ page'.kind = page.kind /\ page'.root_leaf = page.root_leaf /\ page'.ptr = page.ptr
        /\ page'.free_start = page.free_start /\ page'.free_end = page.free_end
        /\ page'.slots = page.slots /\ page'.cells = written
        /\ IsPageRecord(page')
    BY <2>1 DEF IInv, Geometry, IsPageRecord
  <2>3. NumCells(page') = n /\ Pointers(page') = Pointers(page) /\ n \in Nat
    BY <2>2 DEF NumCells, Pointers, LeafLevel, IInv, Geometry
  <2>4. start = NthCell(n + 1) /\ start \in Int /\ \A k \in 1..n : start # NthCell(k)
    BY NextOffset DEF IInv
  <2>5. cell \in Cell /\ cell = call.todo[1]
    BY <1>1, TodoTail DEF Todo
  <2>6. Geometry(page')
    <3>1. \A o \in DOMAIN written : o \in Int /\ written[o] \in Cell
      BY <2>4, <2>5 DEF IInv, Geometry
    <3> QED BY <2>2, <2>3, <3>1 DEF IInv, Geometry
  <2>7. \A i \in 0..n - 1 :
           page.slots[i] \in DOMAIN written /\ written[page.slots[i]] = page.cells[page.slots[i]]
    BY <2>4 DEF IInv, SlotsSound
  <2>8. \A i \in 0..n - 1 : KeyAt(page', i) = KeyAt(page, i)
    BY <2>2, <2>7 DEF KeyAt
  <2>11. SlotsSound(page')
    <3> HIDE DEF n, written
    <3>1. /\ DOMAIN page.slots = 0..n - 1
          /\ \A i \in 0..n - 1 : /\ \E k \in 1..n : page.slots[i] = NthCell(k)
                                 /\ page.cells[page.slots[i]].val \in Pointers(page)
          /\ \A i, j \in 0..n - 1 : page.slots[i] = page.slots[j] => i = j
          /\ \A i, j \in 0..n - 1 : i < j => KeyAt(page, i) < KeyAt(page, j)
      BY DEF IInv, SlotsSound, n
    <3> QED BY <2>2, <2>3, <2>7, <2>8, <3>1 DEF SlotsSound
  <2>9. SearchSound'
    <3>1. Fits(page')
      BY <1>3, <2>2 DEF Fits
    <3>2. NthCell(n + 1) \in DOMAIN written /\ written[NthCell(n + 1)] = cell
      BY <2>4
    <3>3. call'.lo = 0 /\ call'.hi = n /\ call'.todo = call.todo
      BY <2>1
    <3> QED BY <1>1, <2>2, <2>3, <3>1, <3>2, <3>3 DEF SearchSound
  <2>10. CallSound'
    <3>1. Todo'
      BY <1>1, <2>1, <2>3 DEF Todo
    <3> QED BY <2>1, <2>9, <3>1 DEF CallSound
  <2> QED BY <2>6, <2>11, <2>10 DEF IInv
<1> QED BY <1>2, <1>3

LEMMA ProbeSound == ASSUME IInv, Probe PROVE IInv'
<1> DEFINE n == NumCells(page)
           key == Head(call.todo).key
<1>1. /\ call = [pc |-> "search", todo |-> call.todo, ask |-> call.ask, before |-> call.before,
                 lo |-> call.lo, hi |-> call.hi]
      /\ Todo /\ SearchSound /\ page' = page /\ call.lo < call.hi
  BY CallShapes DEF IInv, Probe
<1>2. n \in Nat /\ call.lo \in Int /\ call.hi \in Int /\ Mid \in call.lo..call.hi - 1
  BY <1>1 DEF SearchSound, Mid, IInv, Geometry
<1>3. key \in Int
  <2>1. Head(call.todo) \in Cell
    BY <1>1, TodoTail DEF Todo, SearchSound
  <2> QED BY <2>1, KeysAreInt
<1>4. \A i \in 0..n - 1 : KeyAt(page, i) \in Int
  BY KeysAreInt DEF IInv, Geometry, SlotsSound, KeyAt
<1>5. \A i, j \in 0..n - 1 : i < j => KeyAt(page, i) < KeyAt(page, j)
  BY DEF IInv, SlotsSound
<1>6. Mid \in 0..n - 1
  BY <1>1, <1>2 DEF SearchSound
<1>7. CASE KeyAt(page, Mid) < key /\ call' = [call EXCEPT !.lo = Lower(Mid)]
  <2>1. call' = [pc |-> "search", todo |-> call.todo, ask |-> call.ask, before |-> call.before,
                 lo |-> Mid + 1, hi |-> call.hi]
    BY <1>1, <1>7 DEF Lower
  <2>2. \A i \in 0..n - 1 : i < Mid + 1 => KeyAt(page, i) < key
    <3> SUFFICES ASSUME NEW i \in 0..n - 1, i < Mid + 1 PROVE KeyAt(page, i) < key
      OBVIOUS
    <3>1. i = Mid \/ i < Mid
      BY <1>2, <1>6
    <3>2. i < Mid => KeyAt(page, i) < KeyAt(page, Mid)
      BY <1>5, <1>6
    <3> QED BY <1>3, <1>4, <1>6, <1>7, <3>1, <3>2
  <2>3. Mid + 1 \in 0..n /\ call.hi \in Mid + 1..n
    BY <1>1, <1>2, <1>6 DEF SearchSound
  <2>4. SearchSound' /\ Todo'
    BY <1>1, <2>1, <2>2, <2>3 DEF SearchSound, Todo
  <2> QED BY <1>1, <2>1, <2>4 DEF IInv, CallSound
<1>8. CASE KeyAt(page, Mid) > key /\ call' = [call EXCEPT !.hi = Mid]
  <2>1. call' = [pc |-> "search", todo |-> call.todo, ask |-> call.ask, before |-> call.before,
                 lo |-> call.lo, hi |-> Mid]
    BY <1>1, <1>8
  <2>2. \A i \in 0..n - 1 : i >= Mid => KeyAt(page, i) > key
    <3> SUFFICES ASSUME NEW i \in 0..n - 1, i >= Mid PROVE KeyAt(page, i) > key
      OBVIOUS
    <3>1. i = Mid \/ Mid < i
      BY <1>2, <1>6
    <3>2. Mid < i => KeyAt(page, Mid) < KeyAt(page, i)
      BY <1>5, <1>6
    <3> QED BY <1>3, <1>4, <1>6, <1>8, <3>1, <3>2
  <2>3. Mid \in call.lo..n
    BY <1>1, <1>2, <1>6 DEF SearchSound
  <2>4. SearchSound' /\ Todo'
    BY <1>1, <2>1, <2>2, <2>3 DEF SearchSound, Todo
  <2> QED BY <1>1, <2>1, <2>4 DEF IInv, CallSound
<1>9. CASE call' = Idle
  BY <1>1, <1>9 DEF IInv, CallSound
<1> QED BY <1>7, <1>8, <1>9 DEF Probe, Return

LEMMA FinishSound == ASSUME IInv, Finish PROVE IInv'
  BY DEF IInv, Finish, Return, CallSound

\* A list with one entry put in at idx holds the old entries and the new one,
LEMMA Inserted ==
  ASSUME NEW n \in Nat, NEW idx \in 0..n, NEW old, NEW new, NEW start,
         \A i \in 0..n : new[i] = IF i < idx THEN old[i] ELSE IF i = idx THEN start ELSE old[i - 1]
  PROVE  \A i \in 0..n : new[i] = start \/ \E k \in 0..n - 1 : new[i] = old[k]
<1> SUFFICES ASSUME NEW i \in 0..n PROVE new[i] = start \/ \E k \in 0..n - 1 : new[i] = old[k]
  OBVIOUS
<1>1. CASE i < idx
  <2>1. i \in 0..n - 1 /\ new[i] = old[i]
    BY <1>1
  <2> QED BY <2>1
<1>2. CASE i = idx
  BY <1>2
<1>3. CASE i > idx
  <2>1. i - 1 \in 0..n - 1 /\ new[i] = old[i - 1]
    BY <1>3
  <2> QED BY <2>1
<1> QED BY <1>1, <1>2, <1>3

\* each once, and in key order if idx parts the smaller keys from the larger ones.
LEMMA InsertedInOrder ==
  ASSUME NEW n \in Nat, NEW idx \in 0..n, NEW old, NEW new, NEW start, NEW cells, NEW key \in Int,
         \A i \in 0..n : new[i] = IF i < idx THEN old[i] ELSE IF i = idx THEN start ELSE old[i - 1],
         cells[start].key = key,
         \A k \in 0..n - 1 : old[k] # start /\ cells[old[k]].key \in Int,
         \A k, l \in 0..n - 1 : old[k] = old[l] => k = l,
         \A k, l \in 0..n - 1 : k < l => cells[old[k]].key < cells[old[l]].key,
         \A k \in 0..n - 1 : /\ k < idx => cells[old[k]].key < key
                             /\ k >= idx => cells[old[k]].key > key
  PROVE  /\ \A i, j \in 0..n : new[i] = new[j] => i = j
         /\ \A i, j \in 0..n : i < j => cells[new[i]].key < cells[new[j]].key
<1>1. ASSUME NEW i \in 0..n, NEW j \in 0..n, i < j
      PROVE  new[i] # new[j] /\ cells[new[i]].key < cells[new[j]].key
  <2>1. CASE i = idx
    <3>1. j - 1 \in 0..n - 1 /\ new[j] = old[j - 1] /\ j - 1 >= idx /\ new[i] = start
      BY <1>1, <2>1
    <3> QED BY <3>1
  <2>2. CASE j = idx
    <3>1. i \in 0..n - 1 /\ new[i] = old[i] /\ i < idx /\ new[j] = start
      BY <1>1, <2>2
    <3> QED BY <3>1
  <2>3. CASE i > idx
    <3>1. i - 1 \in 0..n - 1 /\ j - 1 \in 0..n - 1 /\ i - 1 < j - 1
          /\ new[i] = old[i - 1] /\ new[j] = old[j - 1] /\ i - 1 # j - 1
      BY <1>1, <2>3
    <3> QED BY <3>1
  <2>4. CASE j < idx
    <3>1. i \in 0..n - 1 /\ j \in 0..n - 1 /\ new[i] = old[i] /\ new[j] = old[j]
      BY <1>1, <2>4
    <3> QED BY <1>1, <3>1
  <2>5. CASE i < idx /\ idx < j
    <3>1. i \in 0..n - 1 /\ j - 1 \in 0..n - 1 /\ i < j - 1
          /\ new[i] = old[i] /\ new[j] = old[j - 1]
      BY <1>1, <2>5
    <3> QED BY <3>1
  <2> QED BY <1>1, <2>1, <2>2, <2>3, <2>4, <2>5
<1>2. \A i, j \in 0..n : new[i] = new[j] => i = j
  BY <1>1
<1> QED BY <1>1, <1>2

\* The new slot parts the smaller keys from the larger ones.
LEMMA LinkSound == ASSUME IInv, Link PROVE IInv'
<1> DEFINE n == NumCells(page)
           idx == call.lo
           start == page.free_end - CELL_SIZE
           cell == Head(call.todo)
           slots == Linked(page, idx, start)
<1>1. /\ Todo /\ SearchSound /\ idx = call.hi
      /\ call' = [pc |-> "next", todo |-> Tail(call.todo), ask |-> call.ask, before |-> call.before]
      /\ page' = [page EXCEPT !.slots = slots,
                              !.free_start = @ + SLOT_SIZE, !.free_end = start]
  BY CallShapes DEF IInv, Link
<1>2. /\ page'.kind = page.kind /\ page'.root_leaf = page.root_leaf
      /\ page'.slots = slots /\ page'.cells = page.cells
      /\ page'.free_start = page.free_start + SLOT_SIZE /\ page'.free_end = start
      /\ IsPageRecord(page')
  BY <1>1 DEF IInv, Geometry, IsPageRecord
<1>3. n \in Nat /\ idx \in 0..n
  BY <1>1 DEF SearchSound, IInv, Geometry
<1>4. start = NthCell(n + 1) /\ start \in Int /\ \A k \in 1..n : start # NthCell(k)
  BY NextOffset DEF IInv
<1>5. start \in DOMAIN page.cells /\ page.cells[start] = cell
  BY <1>1, <1>4 DEF SearchSound
<1>6. cell \in Cell /\ cell = call.todo[1] /\ cell.val \in Pointers(page)
  BY <1>1, TodoTail DEF Todo, SearchSound
<1>7. NumCells(page') = n + 1
  <2>1. page'.free_start = HEADER_SIZE + SLOT_SIZE * (n + 1)
    BY <1>2, <1>3, SizesAre DEF IInv, Geometry, Sizes
  <2>2. n + 1 \in Nat
    BY <1>3
  <2> HIDE DEF n
  <2>3. ((HEADER_SIZE + SLOT_SIZE * (n + 1)) - HEADER_SIZE) \div SLOT_SIZE = n + 1
    BY <2>2, CountOfSlots
  <2>4. NumCells(page') = (page'.free_start - HEADER_SIZE) \div SLOT_SIZE
    BY DEF NumCells
  <2> QED BY <2>1, <2>3, <2>4, Zenon
<1>8. Pointers(page') = Pointers(page)
  BY <1>2 DEF Pointers, LeafLevel
<1>9. Geometry(page')
  <2>1. page'.free_start = HEADER_SIZE + SLOT_SIZE * (n + 1)
    BY <1>2, <1>3, SizesAre DEF IInv, Geometry, Sizes
  <2>2. page'.free_start <= page'.free_end
    BY <1>1, <1>2 DEF SearchSound, Fits
  <2> QED BY <1>2, <1>3, <1>4, <1>7, <2>1, <2>2 DEF IInv, Geometry
<1>10. \A i \in 0..n : slots[i] = IF i < idx THEN page.slots[i]
                                   ELSE IF i = idx THEN start ELSE page.slots[i - 1]
  BY DEF Linked
<1>11. \A k \in 0..n - 1 : /\ page.slots[k] # start
                           /\ page.slots[k] \in DOMAIN page.cells
                           /\ page.cells[page.slots[k]].val \in Pointers(page)
                           /\ \E m \in 1..n : page.slots[k] = NthCell(m)
  BY <1>4 DEF IInv, SlotsSound
<1>12. DOMAIN slots = 0..n
  BY DEF Linked
<1>13. /\ \A k, l \in 0..n - 1 : page.slots[k] = page.slots[l] => k = l
       /\ \A k, l \in 0..n - 1 : k < l => page.cells[page.slots[k]].key < page.cells[page.slots[l]].key
  BY DEF IInv, SlotsSound, KeyAt
<1>14. \A k \in 0..n - 1 : /\ k < idx => page.cells[page.slots[k]].key < cell.key
                           /\ k >= idx => page.cells[page.slots[k]].key > cell.key
  BY <1>1 DEF SearchSound, KeyAt
<1>15. cell.key \in Int /\ \A o \in DOMAIN page.cells : page.cells[o].key \in Int
  BY <1>6, KeysAreInt DEF IInv, Geometry
<1>16. \A i \in 0..n : /\ slots[i] \in DOMAIN page.cells
                       /\ page.cells[slots[i]].val \in Pointers(page)
                       /\ \E m \in 1..n + 1 : slots[i] = NthCell(m)
  <2>1. \A i \in 0..n : slots[i] = start \/ \E k \in 0..n - 1 : slots[i] = page.slots[k]
    BY <1>3, <1>10, Inserted
  <2>2. n + 1 \in 1..n + 1 /\ \A m \in 1..n : m \in 1..n + 1
    BY <1>3
  <2> HIDE DEF n, start, slots, cell
  <2> QED BY <1>4, <1>5, <1>6, <1>11, <2>1, <2>2
<1>17. /\ \A i, j \in 0..n : slots[i] = slots[j] => i = j
       /\ \A i, j \in 0..n : i < j => page.cells[slots[i]].key < page.cells[slots[j]].key
  <2> HIDE DEF n, start, slots, cell, idx
  <2> QED BY <1>3, <1>5, <1>10, <1>11, <1>13, <1>14, <1>15, InsertedInOrder
<1>18. SlotsSound(page')
  <2>1. n + 1 - 1 = n
    BY <1>3
  <2>2. \A i : KeyAt(page', i) = page.cells[slots[i]].key
    BY <1>2 DEF KeyAt
  <2>3. NumCells(page') - 1 = n
    BY <1>3, <1>7, <2>1
  <2> HIDE DEF n, slots
  <2> QED BY <1>2, <1>7, <1>8, <1>12, <1>16, <1>17, <2>2, <2>3 DEF SlotsSound
<1>19. CallSound'
  <2>1. Todo'
    BY <1>1, <1>8, TodoTail DEF Todo, SearchSound
  <2> QED BY <1>1, <2>1 DEF CallSound
<1> QED BY <1>9, <1>18, <1>19 DEF IInv
-----------------------------------------------------------------------------
LEMMA NextSound == IInv /\ [Next]_vars => IInv'
<1> SUFFICES ASSUME IInv, [Next]_vars PROVE IInv'
  OBVIOUS
<1>1. ASSUME NEW i \in 0..ORDER, RemoveCellAt(i) PROVE IInv'
  <2>1. i \in Nat
    OBVIOUS
  <2> QED BY <1>1, <2>1, RemoveCellAtSound
<1>2. CASE UNCHANGED vars
  BY <1>2 DEF vars, IInv, CallSound, Todo, SearchSound
<1> QED BY <1>1, <1>2, AddCellSound, RebuildSound, SetHeaderPtrSound, SetPageKindSound,
           PlaceSound, ProbeSound, LinkSound, FinishSound DEF Next, Step

THEOREM Invariance == Spec => []IInv
<1> QED BY InitSound, NextSound, PTL DEF Spec
-----------------------------------------------------------------------------
\* What the invariant says of the offsets of two cells.
LEMMA Apart ==
  ASSUME Geometry(page), NEW k \in 1..NumCells(page), NEW l \in 1..NumCells(page)
  PROVE  /\ NthCell(k) \in page.free_end..PAGE_SIZE - CELL_SIZE
         /\ \/ NthCell(k) = NthCell(l)
            \/ NthCell(k) + CELL_SIZE <= NthCell(l)
            \/ NthCell(l) + CELL_SIZE <= NthCell(k)
<1>1. PAGE_SIZE \in Int /\ NumCells(page) \in Nat /\ page.free_end = NthCell(NumCells(page))
  BY PageSizeAssumption DEF Geometry
<1> QED BY <1>1 DEF NthCell, CELL_SIZE

\* No byte of the page has two owners, for any page size and any calls.
THEOREM LayoutHolds == Spec => []Layout
<1>1. IInv => Layout
  <2> SUFFICES ASSUME IInv PROVE Layout
    OBVIOUS
  <2> DEFINE n == NumCells(page)
  <2>1. n \in Nat /\ page.free_end = NthCell(n) /\ NthCell(n) <= PAGE_SIZE
    BY PageSizeAssumption DEF IInv, Geometry, NthCell, CELL_SIZE
  <2>2. ASSUME NEW i \in 0..n - 1, NEW j \in 0..n - 1, i < j
        PROVE  \/ page.slots[i] + CELL_SIZE <= page.slots[j]
               \/ page.slots[j] + CELL_SIZE <= page.slots[i]
    <3>1. page.slots[i] # page.slots[j]
      BY <2>1, <2>2 DEF IInv, SlotsSound
    <3>2. PICK k \in 1..n : page.slots[i] = NthCell(k)
      BY DEF IInv, SlotsSound
    <3>3. PICK l \in 1..n : page.slots[j] = NthCell(l)
      BY DEF IInv, SlotsSound
    <3> QED BY <3>1, <3>2, <3>3, Apart DEF IInv
  <2>3. ASSUME NEW i \in 0..n - 1
        PROVE  /\ page.slots[i] \in page.free_end..PAGE_SIZE - CELL_SIZE
               /\ page.slots[i] \in DOMAIN page.cells
    <3>1. PICK k \in 1..n : page.slots[i] = NthCell(k)
      BY DEF IInv, SlotsSound
    <3> QED BY <3>1, Apart DEF IInv, SlotsSound
  <2> QED BY <2>1, <2>2, <2>3 DEF IInv, Geometry, SlotsSound, Layout
<1> QED BY <1>1, Invariance, PTL

\* The slots are in key order after every step of every call.
THEOREM SortedHolds == Spec => []Sorted
<1>1. IInv => Sorted
  BY DEF IInv, SlotsSound, Sorted
<1> QED BY <1>1, Invariance, PTL

\* What every call relies on in a page holds after every step.
THEOREM PageSoundHolds == Spec => []PageSound
<1> QED BY LayoutHolds, SortedHolds, PTL DEF PageSound

\* A pointer is read as what it was written as, through every change of the page's kind.
THEOREM ReadAsWrittenHolds == Spec => []ReadAsWritten
<1>1. IInv => ReadAsWritten
  BY DEF IInv, SlotsSound, ReadAsWritten
<1> QED BY <1>1, Invariance, PTL

\* A page refuses a cell exactly when it has ORDER cells, whatever its size.
THEOREM RoomForOrderHolds == Spec => []RoomForOrder
<1>1. IInv => RoomForOrder
  <2> SUFFICES ASSUME IInv PROVE RoomForOrder
    OBVIOUS
  <2> DEFINE n == NumCells(page)
  <2>1. /\ n \in Nat /\ PAGE_SIZE \in Nat /\ 22 <= PAGE_SIZE
        /\ page.free_start = 22 + 4 * n /\ page.free_end = PAGE_SIZE - 16 * n
    BY PageSizeAssumption DEF IInv, Geometry, NthCell, HEADER_SIZE, SLOT_SIZE, CELL_SIZE
  <2>2. Fits(page) <=> 20 * (n + 1) <= PAGE_SIZE - 22
    BY <2>1 DEF Fits, SLOT_SIZE, CELL_SIZE
  <2>3. n < ORDER <=> 20 * (n + 1) <= PAGE_SIZE - 22
    BY <2>1 DEF ORDER, HEADER_SIZE, SLOT_SIZE, CELL_SIZE
  <2> QED BY <2>2, <2>3 DEF RoomForOrder
<1> QED BY <1>1, Invariance, PTL
-----------------------------------------------------------------------------
(* The page as a map. *)

\* The cells that the slots point to.
PageCells(p) == {p.cells[p.slots[i]] : i \in 0..NumCells(p) - 1}

\* The function f is what the cells S say, as a map.
Represents(f, S) ==
    /\ f = [k \in {c.key : c \in S} |-> f[k]]
    /\ \A c \in S : f[c.key] = c.val

\* Cells say one map only.
LEMMA SameMap ==
  ASSUME NEW S, NEW f, NEW g, Represents(f, S), Represents(g, S)
  PROVE  f = g
<1> DEFINE K == {c.key : c \in S}
<1>1. f = [k \in K |-> f[k]] /\ g = [k \in K |-> g[k]]
  BY DEF Represents
<1>2. ASSUME NEW k \in K PROVE f[k] = g[k]
  <2>1. PICK c \in S : k = c.key
    OBVIOUS
  <2> QED BY <2>1 DEF Represents
<1> QED BY <1>1, <1>2

\* What the abstract page makes of cells.
LEMMA AsMapRepresents ==
  ASSUME NEW S, \A c, d \in S : c.key = d.key => c = d
  PROVE  Represents(SortedPageOf!AsMap(S), S)
<1> DEFINE K == {c.key : c \in S}
           v(k) == (CHOOSE c \in S : c.key = k).val
           f == SortedPageOf!AsMap(S)
<1>1. f = [k \in K |-> v(k)]
  BY DEF SortedPageOf!AsMap
<1>2. ASSUME NEW c \in S PROVE v(c.key) = c.val
  <2> DEFINE d == CHOOSE d \in S : d.key = c.key
  <2>1. d \in S /\ d.key = c.key
    OBVIOUS
  <2>2. v(c.key) = d.val
    OBVIOUS
  <2> HIDE DEF d, v
  <2> QED BY <2>1, <2>2
<1> HIDE DEF f, v
<1>3. \A c \in S : f[c.key] = c.val
  BY <1>1, <1>2
<1>4. f = [k \in K |-> f[k]]
  BY <1>1
<1> QED BY <1>3, <1>4 DEF Represents, f

\* A page between two cells of a call.
Sound(p) == Geometry(p) /\ SlotsSound(p)

LEMMA CellsOfPage ==
  ASSUME NEW p, Sound(p)
  PROVE  /\ NumCells(p) \in Nat
         /\ PageCells(p) \subseteq Cell
         /\ \A i \in 0..NumCells(p) - 1 :
               /\ p.cells[p.slots[i]] \in PageCells(p)
               /\ KeyAt(p, i) = p.cells[p.slots[i]].key /\ KeyAt(p, i) \in Int
         /\ \A i, j \in 0..NumCells(p) - 1 : KeyAt(p, i) = KeyAt(p, j) => i = j
         /\ \A c, d \in PageCells(p) : c.key = d.key => c = d
<1> DEFINE n == NumCells(p)
<1>1. n \in Nat
  BY DEF Sound, Geometry
<1>2. \A i \in 0..n - 1 : p.cells[p.slots[i]] \in Cell
  BY DEF Sound, Geometry, SlotsSound
<1>3. \A i \in 0..n - 1 : KeyAt(p, i) = p.cells[p.slots[i]].key /\ KeyAt(p, i) \in Int
  BY <1>2, KeysAreInt DEF KeyAt
<1>4. \A i, j \in 0..n - 1 : i < j => KeyAt(p, i) < KeyAt(p, j)
  BY DEF Sound, SlotsSound
<1>5. \A i, j \in 0..n - 1 : KeyAt(p, i) = KeyAt(p, j) => i = j
  <2> SUFFICES ASSUME NEW i \in 0..n - 1, NEW j \in 0..n - 1, KeyAt(p, i) = KeyAt(p, j), i # j
               PROVE  FALSE
    OBVIOUS
  <2>1. i < j \/ j < i
    OBVIOUS
  <2> QED BY <1>3, <1>4, <2>1
<1>6. \A c, d \in PageCells(p) : c.key = d.key => c = d
  <2> SUFFICES ASSUME NEW c \in PageCells(p), NEW d \in PageCells(p), c.key = d.key
               PROVE  c = d
    OBVIOUS
  <2>1. PICK i \in 0..n - 1 : c = p.cells[p.slots[i]]
    BY DEF PageCells
  <2>2. PICK j \in 0..n - 1 : d = p.cells[p.slots[j]]
    BY DEF PageCells
  <2>3. i = j
    BY <1>3, <1>5, <2>1, <2>2
  <2> QED BY <2>1, <2>2, <2>3
<1> QED BY <1>1, <1>2, <1>3, <1>5, <1>6 DEF PageCells

\* The map a page is for its callers is what its cells say.
LEMMA ContentRepresents ==
  ASSUME NEW p, Sound(p)
  PROVE  Represents(Content(p), PageCells(p))
<1> DEFINE n == NumCells(p)
           K == {KeyAt(p, i) : i \in 0..n - 1}
<1>1. K = {c.key : c \in PageCells(p)}
  BY CellsOfPage DEF PageCells
<1>2. Content(p) = [k \in K |-> Content(p)[k]]
  BY DEF Content
<1>3. ASSUME NEW c \in PageCells(p) PROVE Content(p)[c.key] = c.val
  <2> DEFINE o == CHOOSE o \in Offsets(p) : p.cells[o].key = c.key
  <2>1. PICK i \in 0..n - 1 : c = p.cells[p.slots[i]]
    BY DEF PageCells
  <2>2. p.slots[i] \in Offsets(p) /\ p.cells[p.slots[i]].key = c.key
    BY <2>1 DEF Offsets
  <2>3. o \in Offsets(p) /\ p.cells[o].key = c.key
    BY <2>2
  <2> HIDE DEF o
  <2>4. PICK j \in 0..n - 1 : o = p.slots[j]
    BY <2>3 DEF Offsets
  <2>5. p.cells[o] = c
    <3>1. p.cells[o] \in PageCells(p)
      BY <2>4 DEF PageCells
    <3> QED BY <2>3, <3>1, CellsOfPage
  <2>6. c.key \in K
    BY <1>1
  <2>7. Content(p)[c.key] = p.cells[o].val
    BY <2>6 DEF Content, o
  <2> QED BY <2>5, <2>7
<1> QED BY <1>1, <1>2, <1>3 DEF Represents

\* The first n entries of f are different.
NoRepeats(f, n) == \A i, j \in 0..n - 1 : f[i] = f[j] => i = j

\* A list without repetitions has as many members as entries.
LEMMA CountOfDistinct ==
  ASSUME NEW n \in Nat, NEW f, NoRepeats(f, n)
  PROVE  /\ IsFiniteSet({f[i] : i \in 0..n - 1})
         /\ Cardinality({f[i] : i \in 0..n - 1}) = n
<1> DEFINE S == 0..n - 1
           T == {f[i] : i \in S}
           g == [i \in S |-> f[i]]
<1>1. IsFiniteSet(S) /\ Cardinality(S) = n
  <2>1. IsFiniteSet(S) /\ Cardinality(S) = IF 0 > n - 1 THEN 0 ELSE (n - 1) - 0 + 1
    <3>1. 0 \in Int /\ n - 1 \in Int
      OBVIOUS
    <3> HIDE DEF S
    <3> QED BY <3>1, FS_Interval DEF S
  <2> QED BY <2>1
<1>2. g \in Bijection(S, T)
  BY DEF NoRepeats, Bijection, Injection, Surjection, IsInjective
<1>3. ExistsBijection(S, T)
  BY <1>2 DEF ExistsBijection
<1> HIDE DEF S, T, g
<1>4. IsFiniteSet(T) /\ Cardinality(T) = Cardinality(S)
  BY <1>1, <1>3, FS_Bijection
<1> QED BY <1>1, <1>4 DEF S, T

\* The abstract page counts as this module's proofs do.
LEMMA SameCardinality == \A S : SortedPageOf!Cardinality(S) = Cardinality(S)
  BY DEF Cardinality, SortedPageOf!Cardinality

\* A page's map has a key for each slot.
LEMMA KeyCount ==
  ASSUME NEW p, Sound(p)
  PROVE  /\ DOMAIN Content(p) = {c.key : c \in PageCells(p)}
         /\ Cardinality(DOMAIN Content(p)) = NumCells(p)
<1> DEFINE n == NumCells(p)
           f == [i \in 0..n - 1 |-> KeyAt(p, i)]
<1>1. n \in Nat /\ NoRepeats(f, n)
  BY CellsOfPage DEF NoRepeats
<1>2. DOMAIN Content(p) = {f[i] : i \in 0..n - 1}
  BY DEF Content
<1>3. DOMAIN Content(p) = {c.key : c \in PageCells(p)}
  BY ContentRepresents DEF Represents
<1>4. Cardinality({f[i] : i \in 0..n - 1}) = n
  <2> HIDE DEF f, n
  <2> QED BY <1>1, CountOfDistinct
<1> QED BY <1>2, <1>3, <1>4

\* A slot's index is the number of smaller keys.
LEMMA KeyRank ==
  ASSUME NEW p, Sound(p), NEW j \in 0..NumCells(p) - 1
  PROVE  Cardinality({x \in DOMAIN Content(p) : x < KeyAt(p, j)}) = j
<1> DEFINE n == NumCells(p)
           f == [i \in 0..j - 1 |-> KeyAt(p, i)]
<1>1. /\ n \in Nat /\ j \in Nat
      /\ \A i \in 0..n - 1 : KeyAt(p, i) \in Int
      /\ \A i, k \in 0..n - 1 : KeyAt(p, i) = KeyAt(p, k) => i = k
  BY CellsOfPage
<1>2. \A i, k \in 0..n - 1 : i < k => KeyAt(p, i) < KeyAt(p, k)
  BY DEF Sound, SlotsSound
<1>3. \A i \in 0..n - 1 : KeyAt(p, i) < KeyAt(p, j) <=> i < j
  <2> SUFFICES ASSUME NEW i \in 0..n - 1 PROVE KeyAt(p, i) < KeyAt(p, j) <=> i < j
    OBVIOUS
  <2>1. i < j \/ i = j \/ j < i
    BY <1>1
  <2> QED BY <1>1, <1>2, <2>1
<1>4. DOMAIN Content(p) = {KeyAt(p, i) : i \in 0..n - 1}
  BY DEF Content
<1>5. \A i \in 0..j - 1 : i \in 0..n - 1 /\ i < j
  BY <1>1
<1>6. {x \in DOMAIN Content(p) : x < KeyAt(p, j)} = {f[i] : i \in 0..j - 1}
  <2>1. ASSUME NEW x \in DOMAIN Content(p), x < KeyAt(p, j) PROVE x \in {f[i] : i \in 0..j - 1}
    <3>1. PICK i \in 0..n - 1 : x = KeyAt(p, i)
      BY <1>4
    <3>2. i < j /\ i \in 0..j - 1
      BY <1>1, <1>3, <2>1, <3>1
    <3> QED BY <3>1, <3>2
  <2>2. ASSUME NEW i \in 0..j - 1 PROVE f[i] \in DOMAIN Content(p) /\ f[i] < KeyAt(p, j)
    BY <1>3, <1>4, <1>5
  <2> QED BY <2>1, <2>2
<1>7. NoRepeats(f, j)
  BY <1>1, <1>5 DEF NoRepeats
<1>8. Cardinality({f[i] : i \in 0..j - 1}) = j
  <2>1. j \in Nat
    BY <1>1
  <2> HIDE DEF f
  <2> QED BY <1>7, <2>1, CountOfDistinct
<1> QED BY <1>6, <1>8
-----------------------------------------------------------------------------
(* The steps of the abstract page. *)

\* Where a list is cut is determined.
LEMMA TakenAre ==
  ASSUME NEW cells \in Seq(Cell), NEW m \in 0..Len(cells), SortedPageOf!Fits(cells, m),
         m = Len(cells) \/ ~SortedPageOf!Fits(cells, m + 1)
  PROVE  SortedPageOf!Taken(cells) = m
<1> DEFINE N == Len(cells)
           IsTaken(n) == SortedPageOf!Fits(cells, n) /\ (n = N \/ ~SortedPageOf!Fits(cells, n + 1))
<1>1. N \in Nat /\ ORDER \in Int
  BY PageSizeAssumption DEF ORDER, HEADER_SIZE, CELL_SIZE, SLOT_SIZE
<1>2. ASSUME NEW n \in 0..N, NEW k \in 0..N, SortedPageOf!Fits(cells, n), k <= n
      PROVE  SortedPageOf!Fits(cells, k)
  <2>1. \A i \in 1..k : i \in 1..n
    BY <1>2
  <2> QED BY <1>1, <1>2, <2>1 DEF SortedPageOf!Fits
<1>3. \A n \in 0..N : IsTaken(n) => n = m
  <2> SUFFICES ASSUME NEW n \in 0..N, IsTaken(n), n # m PROVE FALSE
    OBVIOUS
  <2>1. CASE n < m
    <3>1. n + 1 \in 0..N /\ n + 1 <= m
      BY <2>1
    <3> QED BY <1>1, <1>2, <2>1, <3>1
  <2>2. CASE m < n
    <3>1. m + 1 \in 0..N /\ m + 1 <= n
      BY <2>2
    <3> QED BY <1>1, <1>2, <2>2, <3>1
  <2> QED BY <2>1, <2>2
<1>4. SortedPageOf!Taken(cells) \in 0..N /\ IsTaken(SortedPageOf!Taken(cells))
  <2>1. m \in 0..N /\ IsTaken(m)
    OBVIOUS
  <2> QED BY <2>1 DEF SortedPageOf!Taken
<1> QED BY <1>3, <1>4

\* A page with the cells up to the first that is refused is the one rebuilt.
LEMMA RebuildsTo ==
  ASSUME NEW cells \in Contents, NEW m \in 0..Len(cells), SortedPageOf!Fits(cells, m),
         m = Len(cells) \/ ~SortedPageOf!Fits(cells, m + 1),
         Represents(Content(Before)', {cells[i] : i \in 1..m}),
         NEW reply,
         reply = IF m = Len(cells) THEN "ok"
                 ELSE IF m = ORDER THEN "Page overflow" ELSE "duplicate key",
         done' = [ask |-> [op |-> "rebuild_from_cells", cells |-> cells], reply |-> reply]
  PROVE  SortedPageOf!Next
<1> DEFINE S == {cells[i] : i \in 1..m}
<1>1. cells \in Seq(Cell)
  BY PageAssumption DEF Cell
<1>2. SortedPageOf!Taken(cells) = m
  BY <1>1, TakenAre
<1>3. \A c, d \in S : c.key = d.key => c = d
  BY DEF SortedPageOf!Fits
<1>4. Content(Before)' = SortedPageOf!AsMap(S)
  <2> HIDE DEF S
  <2> QED BY <1>3, AsMapRepresents, SameMap DEF S
<1>5. SortedPageOf!Rebuild(cells)
  BY <1>2, <1>4 DEF SortedPageOf!Rebuild, SortedPageOf!Replied
<1> QED BY <1>5 DEF SortedPageOf!Next

\* A page as full as its bytes allow has ORDER cells.
LEMMA RoomOfPage ==
  ASSUME NEW p, Geometry(p)
  PROVE  ORDER \in Nat /\ NumCells(p) <= ORDER /\ (Fits(p) <=> NumCells(p) < ORDER)
<1> DEFINE n == NumCells(p)
<1>1. /\ n \in Nat /\ PAGE_SIZE \in Nat /\ 22 <= PAGE_SIZE
      /\ p.free_start = 22 + 4 * n /\ p.free_end = PAGE_SIZE - 16 * n /\ p.free_start <= p.free_end
  BY PageSizeAssumption DEF Geometry, NthCell, HEADER_SIZE, SLOT_SIZE, CELL_SIZE
<1>2. Fits(p) <=> 20 * (n + 1) <= PAGE_SIZE - 22
  BY <1>1 DEF Fits, SLOT_SIZE, CELL_SIZE
<1> HIDE DEF n
<1>3. ORDER = (PAGE_SIZE - 22) \div 20 /\ 20 * n <= PAGE_SIZE - 22
  BY <1>1 DEF ORDER, HEADER_SIZE, SLOT_SIZE, CELL_SIZE
<1>4. ORDER \in Nat /\ n <= ORDER /\ (n < ORDER <=> 20 * (n + 1) <= PAGE_SIZE - 22)
  BY <1>1, <1>3
<1> QED BY <1>2, <1>4 DEF n

LEMMA ContentAfter == ASSUME NEW q, Before' = q PROVE Content(Before)' = Content(q)
  BY DEF Content, Offsets, KeyAt, NumCells

\* q has one cell more than p, of a key that p has not.
Gains(p, q, cell) ==
    PageCells(q) = PageCells(p) \cup {cell} /\ \A c \in PageCells(p) : c.key # cell.key

\* It is the page after add_cell.
LEMMA AddedContent ==
  ASSUME NEW p, NEW q, Sound(p), Sound(q), NEW cell \in Cell, Gains(p, q, cell)
  PROVE  /\ cell.key \notin DOMAIN Content(p)
         /\ Content(q) = [x \in DOMAIN Content(p) \cup {cell.key} |->
                             IF x = cell.key THEN cell.val ELSE Content(p)[x]]
<1> DEFINE f == [x \in DOMAIN Content(p) \cup {cell.key} |->
                    IF x = cell.key THEN cell.val ELSE Content(p)[x]]
<1>1. /\ DOMAIN Content(p) = {c.key : c \in PageCells(p)}
      /\ \A c \in PageCells(p) : Content(p)[c.key] = c.val
      /\ Represents(Content(q), PageCells(q))
      /\ PageCells(q) = PageCells(p) \cup {cell} /\ \A c \in PageCells(p) : c.key # cell.key
  BY KeyCount, ContentRepresents DEF Represents, Gains
<1>2. cell.key \notin DOMAIN Content(p)
  BY <1>1
<1>3. {c.key : c \in PageCells(q)} = DOMAIN Content(p) \cup {cell.key}
  BY <1>1
<1>4. \A c \in PageCells(q) : f[c.key] = c.val
  <2> SUFFICES ASSUME NEW c \in PageCells(q) PROVE f[c.key] = c.val
    OBVIOUS
  <2>1. CASE c = cell
    BY <2>1
  <2>2. CASE c \in PageCells(p)
    <3>1. c.key # cell.key /\ c.key \in DOMAIN Content(p)
      BY <1>1, <2>2
    <3> QED BY <1>1, <2>2, <3>1
  <2> QED BY <1>1, <2>1, <2>2
<1>5. f = [k \in {c.key : c \in PageCells(q)} |-> f[k]]
  <2>1. f = [k \in DOMAIN Content(p) \cup {cell.key} |-> f[k]]
    OBVIOUS
  <2> HIDE DEF f
  <2> QED BY <1>3, <2>1
<1>6. Content(q) = f
  <2> HIDE DEF f
  <2>1. Represents(f, PageCells(q))
    BY <1>4, <1>5 DEF Represents
  <2> QED BY <1>1, <2>1, SameMap
<1> QED BY <1>2, <1>6

\* q has all cells of p but that of slot i.
Loses(p, q, i) == PageCells(q) = PageCells(p) \ {p.cells[p.slots[i]]}

\* It is the page after remove_cell_at.
LEMMA RemovedContent ==
  ASSUME NEW p, NEW q, Sound(p), Sound(q), NEW i \in 0..NumCells(p) - 1, Loses(p, q, i)
  PROVE  /\ KeyAt(p, i) \in DOMAIN Content(p)
         /\ Cardinality({x \in DOMAIN Content(p) : x < KeyAt(p, i)}) = i
         /\ Content(q) =
               [x \in {y \in DOMAIN Content(p) :
                         ~(Cardinality({z \in DOMAIN Content(p) : z < y}) = i)} |-> Content(p)[x]]
<1> DEFINE n == NumCells(p)
           D == DOMAIN Content(p)
           At(y) == Cardinality({z \in D : z < y}) = i
           K == {y \in D : ~At(y)}
           f == [x \in K |-> Content(p)[x]]
           gone == p.cells[p.slots[i]]
<1>1. /\ D = {c.key : c \in PageCells(p)}
      /\ \A c \in PageCells(p) : Content(p)[c.key] = c.val
      /\ Represents(Content(q), PageCells(q))
  BY KeyCount, ContentRepresents DEF Represents
<1>2. /\ gone \in PageCells(p) /\ gone.key = KeyAt(p, i)
      /\ \A c, d \in PageCells(p) : c.key = d.key => c = d
  BY CellsOfPage
<1>3. ASSUME NEW c \in PageCells(p) PROVE At(c.key) <=> c = gone
  <2>1. PICK j \in 0..n - 1 : c = p.cells[p.slots[j]]
    BY DEF PageCells
  <2>2. c.key = KeyAt(p, j)
    BY <2>1, CellsOfPage
  <2>3. Cardinality({z \in D : z < c.key}) = j
    BY <2>2, KeyRank
  <2>4. c = gone => j = i
    BY <1>2, <2>2, CellsOfPage
  <2> QED BY <2>1, <2>3, <2>4
<1>4. KeyAt(p, i) \in D /\ At(KeyAt(p, i))
  BY <1>1, <1>2, <1>3
<1> HIDE DEF At, gone
<1>5. {c.key : c \in PageCells(q)} = K
  BY <1>1, <1>2, <1>3 DEF gone, Loses
<1>6. \A c \in PageCells(q) : f[c.key] = c.val
  <2> SUFFICES ASSUME NEW c \in PageCells(q) PROVE f[c.key] = c.val
    OBVIOUS
  <2>1. c \in PageCells(p) /\ c.key \in K
    BY <1>5 DEF Loses
  <2> QED BY <1>1, <2>1
<1>7. f = [k \in {c.key : c \in PageCells(q)} |-> f[k]]
  <2>1. f = [k \in K |-> f[k]]
    OBVIOUS
  <2> HIDE DEF f, K
  <2> QED BY <1>5, <2>1
<1>8. Content(q) = f
  <2> HIDE DEF f
  <2>1. Represents(f, PageCells(q))
    BY <1>6, <1>7 DEF Represents
  <2> QED BY <1>1, <2>1, SameMap
<1> QED BY <1>4, <1>8 DEF At
-----------------------------------------------------------------------------
(* How far a call has got. *)

\* Of the list L the first m cells are with the cells B on the page, which
\* then has the cells S; none has the key of another; the others are to come.
Placed(B, L, m, todo, S) ==
    /\ Len(todo) = Len(L) - m
    /\ \A i \in 1..Len(todo) : todo[i] = L[m + i]
    /\ S = B \cup {L[i] : i \in 1..m}
    /\ \A i, j \in 1..m : L[i].key = L[j].key => i = j
    /\ \A i \in 1..m : \A c \in B : c.key # L[i].key

\* The call c puts the cells L on the page p, which had b cells, B.
Fed(B, b, L, c, p) ==
    /\ L \in Seq(Cell)
    /\ \E m \in 0..Len(L) : NumCells(p) = b + m /\ Placed(B, L, m, c.todo, PageCells(p))

\* All cells but one, in the order of their slots.
AllBut(p, i) == [j \in 1..NumCells(p) - 1 |-> GetCells(p)[IF j <= i THEN j ELSE j + 1]]

\* What the call c was asked to put on p.
Asked(c, p) ==
    \/ \E key \in Keys, val \in HeapIds \cup PageIds :
          /\ c.ask = [op |-> "add_cell", key |-> key, val |-> val]
          /\ Fed(PageCells(c.before), NumCells(c.before), <<[key |-> key, val |-> val]>>, c, p)
    \/ \E cells \in Contents :
          /\ c.ask = [op |-> "rebuild_from_cells", cells |-> cells]
          /\ Fed({}, 0, cells, c, p)
    \/ \E i \in 0..ORDER :
          /\ i < NumCells(c.before)
          /\ c.ask = [op |-> "remove_cell_at", idx |-> i]
          /\ Fed({}, 0, AllBut(c.before, i), c, p)

\* The call in progress has done part of what it was asked for.
CallKept == call = Idle \/ (Sound(call.before) /\ Asked(call, page))

\* The inductive invariant of the refinement.
RInv == IInv /\ CallKept

\* One cell more of the list is on the page.
LEMMA PlacedNext ==
  ASSUME NEW L \in Seq(Cell), NEW m \in 0..Len(L), NEW todo \in Seq(Cell), todo # <<>>,
         NEW B, NEW S, Placed(B, L, m, todo, S), \A c \in S : c.key # Head(todo).key
  PROVE  /\ m + 1 \in 0..Len(L)
         /\ Placed(B, L, m + 1, Tail(todo), S \cup {Head(todo)})
<1> DEFINE cell == Head(todo)
<1>1. /\ Len(todo) \in Nat \ {0} /\ cell = todo[1] /\ Len(Tail(todo)) = Len(todo) - 1
      /\ \A i \in 1..Len(todo) - 1 : Tail(todo)[i] = todo[i + 1]
  BY TodoTail
<1>2. m \in Nat /\ Len(L) \in Nat /\ Len(todo) = Len(L) - m
  BY DEF Placed
<1>3. m + 1 \in 0..Len(L)
  BY <1>1, <1>2
<1>4. cell = L[m + 1]
  BY <1>1 DEF Placed
<1>5. S = B \cup {L[i] : i \in 1..m}
  BY DEF Placed
<1> DEFINE T == Tail(todo)
<1> HIDE DEF cell, T
<1>6. \A i \in 1..Len(T) : T[i] = L[m + 1 + i]
  <2> SUFFICES ASSUME NEW i \in 1..Len(T) PROVE T[i] = L[m + 1 + i]
    OBVIOUS
  <2>1. i \in 1..Len(todo) - 1 /\ T[i] = todo[i + 1] /\ i + 1 \in 1..Len(todo)
    BY <1>1 DEF T
  <2>2. todo[i + 1] = L[m + (i + 1)]
    BY <2>1 DEF Placed
  <2>3. m + (i + 1) = m + 1 + i
    BY <1>2
  <2> QED BY <2>1, <2>2, <2>3
<1>7. S \cup {cell} = B \cup {L[i] : i \in 1..m + 1}
  <2>1. \A i : i \in 1..m + 1 <=> (i \in 1..m \/ i = m + 1)
    BY <1>2
  <2> QED BY <1>4, <1>5, <2>1
<1>8. \A i \in 1..m : L[i] \in S /\ L[i].key # L[m + 1].key
  BY <1>4, <1>5 DEF cell
<1>9. \A i, j \in 1..m + 1 : L[i].key = L[j].key => i = j
  <2> SUFFICES ASSUME NEW i \in 1..m + 1, NEW j \in 1..m + 1, L[i].key = L[j].key PROVE i = j
    OBVIOUS
  <2>1. CASE i \in 1..m /\ j \in 1..m
    BY <2>1 DEF Placed
  <2>2. CASE i = m + 1 \/ j = m + 1
    <3>1. i \in 1..m \/ i = m + 1
      BY <1>2
    <3>2. j \in 1..m \/ j = m + 1
      BY <1>2
    <3> QED BY <1>8, <2>2, <3>1, <3>2
  <2> QED BY <1>2, <2>1, <2>2
<1>10. \A i \in 1..m + 1 : \A c \in B : c.key # L[i].key
  <2> SUFFICES ASSUME NEW i \in 1..m + 1, NEW c \in B PROVE c.key # L[i].key
    OBVIOUS
  <2>1. CASE i \in 1..m
    BY <2>1 DEF Placed
  <2>2. CASE i = m + 1
    BY <1>4, <1>5, <2>2 DEF cell
  <2> QED BY <1>2, <2>1, <2>2
<1>11. Len(T) = Len(L) - (m + 1)
  BY <1>1, <1>2 DEF T
<1> QED BY <1>3, <1>6, <1>7, <1>9, <1>10, <1>11 DEF Placed, cell, T

\* Nothing of the list is on the page yet.
LEMMA PlacedNothing ==
  ASSUME NEW L \in Seq(Cell), NEW B
  PROVE  0 \in 0..Len(L) /\ Placed(B, L, 0, L, B)
  BY DEF Placed

\* A page made anew has no cells.
LEMMA NoCells ==
  ASSUME NEW p, NumCells(p) = 0
  PROVE  PageCells(p) = {}
  BY DEF PageCells

LEMMA AllButTyped ==
  ASSUME NEW p, Sound(p), NEW i \in Nat, i < NumCells(p)
  PROVE  AllBut(p, i) \in Seq(Cell) /\ Len(AllBut(p, i)) = NumCells(p) - 1
<1> DEFINE n == NumCells(p)
<1>1. n \in Nat /\ n - 1 \in Nat
  BY DEF Sound, Geometry
<1>2. \A j \in 1..n - 1 : GetCells(p)[IF j <= i THEN j ELSE j + 1] \in Cell
  <2> SUFFICES ASSUME NEW j \in 1..n - 1 PROVE GetCells(p)[IF j <= i THEN j ELSE j + 1] \in Cell
    OBVIOUS
  <2>1. (IF j <= i THEN j ELSE j + 1) \in 1..n
    BY <1>1
  <2> QED BY <2>1, CellsRead DEF Sound
<1> QED BY <1>1, <1>2 DEF AllBut

\* What the cells without one add up to.
LEMMA AllButCells ==
  ASSUME NEW p, Sound(p), NEW i \in Nat, i < NumCells(p)
  PROVE  /\ {AllBut(p, i)[j] : j \in 1..NumCells(p) - 1} = PageCells(p) \ {p.cells[p.slots[i]]}
         /\ \A j, k \in 1..NumCells(p) - 1 :
               AllBut(p, i)[j].key = AllBut(p, i)[k].key => j = k
<1> DEFINE n == NumCells(p)
           at(j) == IF j <= i THEN j - 1 ELSE j
           cell(k) == p.cells[p.slots[k]]
<1>1. n \in Nat /\ i \in 0..n - 1
  BY DEF Sound, Geometry
<1>2. ASSUME NEW j \in 1..n - 1
      PROVE  at(j) \in 0..n - 1 /\ at(j) # i /\ AllBut(p, i)[j] = cell(at(j))
  <2>1. (IF j <= i THEN j ELSE j + 1) \in 1..n /\ (IF j <= i THEN j ELSE j + 1) - 1 = at(j)
    BY <1>1
  <2> QED BY <1>1, <2>1 DEF AllBut, GetCells
<1>3. \A k, l \in 0..n - 1 : cell(k) \in PageCells(p) /\ (cell(k).key = cell(l).key => k = l)
  BY CellsOfPage
<1>4. \A j, k \in 1..n - 1 : at(j) = at(k) => j = k
  BY <1>1
<1>5. ASSUME NEW k \in 0..n - 1, k # i PROVE \E j \in 1..n - 1 : at(j) = k
  <2>1. CASE k < i
    <3>1. k + 1 \in 1..n - 1 /\ at(k + 1) = k
      BY <1>1, <2>1
    <3> QED BY <3>1
  <2>2. CASE k > i
    <3>1. k \in 1..n - 1 /\ at(k) = k
      BY <1>1, <2>2
    <3> QED BY <3>1
  <2> QED BY <1>1, <1>5, <2>1, <2>2
<1>6. PageCells(p) = {cell(k) : k \in 0..n - 1}
  BY DEF PageCells
<1> HIDE DEF at, cell, n
<1>7. \A j, k \in 1..n - 1 : AllBut(p, i)[j].key = AllBut(p, i)[k].key => j = k
  BY <1>2, <1>3, <1>4
<1>8. {AllBut(p, i)[j] : j \in 1..n - 1} = PageCells(p) \ {cell(i)}
  <2>1. ASSUME NEW j \in 1..n - 1 PROVE AllBut(p, i)[j] \in PageCells(p) \ {cell(i)}
    BY <1>1, <1>2, <1>3
  <2>2. ASSUME NEW c \in PageCells(p), c # cell(i) PROVE \E j \in 1..n - 1 : c = AllBut(p, i)[j]
    <3>1. PICK k \in 0..n - 1 : c = cell(k)
      BY <1>6
    <3>2. PICK j \in 1..n - 1 : at(j) = k
      BY <1>5, <2>2, <3>1
    <3> QED BY <1>2, <3>1, <3>2
  <2> QED BY <2>1, <2>2
<1> QED BY <1>7, <1>8 DEF n, cell
-----------------------------------------------------------------------------
(* The steps of a call keep to its list. *)

LEMMA FedFromStart ==
  ASSUME NEW L \in Seq(Cell), NEW p, NumCells(p) \in Nat, NEW c, c.todo = L
  PROVE  Fed(PageCells(p), NumCells(p), L, c, p)
BY PlacedNothing DEF Fed

LEMMA FedNoCells ==
  ASSUME NEW L \in Seq(Cell), NEW p, NumCells(p) = 0, NEW c, c.todo = L
  PROVE  Fed({}, 0, L, c, p)
<1>1. PageCells(p) = {} /\ NumCells(p) \in Nat
  BY NoCells
<1>2. Fed(PageCells(p), NumCells(p), L, c, p)
  BY <1>1, FedFromStart
<1> QED BY <1>1, <1>2

LEMMA RebuiltEmpty ==
  ASSUME Geometry(page), NEW kind \in {"Root", "Leaf", "Internal"}, NEW ptr
  PROVE  NumCells(Rebuilt(kind, ptr)) = 0
<1> DEFINE flag == page.kind = "Root" /\ page.root_leaf /\ kind = "Root"
<1>1. flag \in BOOLEAN /\ (flag => kind = "Root")
  OBVIOUS
<1>2. Rebuilt(kind, ptr) = [InitHeader(kind, ptr) EXCEPT !.root_leaf = flag]
  BY DEF Rebuilt
<1> HIDE DEF flag
<1> QED BY <1>1, <1>2, FreshSound

LEMMA AskedKept ==
  ASSUME NEW c, NEW p, NEW d, NEW q, Asked(c, p), NumCells(c.before) \in Nat, d.ask = c.ask, d.before = c.before,
         \A B, L : \A b \in Nat : Fed(B, b, L, c, p) => Fed(B, b, L, d, q)
  PROVE  Asked(d, q)
BY DEF Asked

LEMMA AddCellKept ==
  ASSUME RInv, NEW key \in Keys, NEW val \in HeapIds \cup PageIds, AddCell(key, val)
  PROVE  CallKept' /\ UNCHANGED <<Content(Before), done>>
<1> DEFINE cell == [key |-> key, val |-> val]
<1>1. /\ call' = [pc |-> "next", todo |-> <<cell>>, before |-> page,
                  ask |-> [op |-> "add_cell", key |-> key, val |-> val]]
      /\ page' = page /\ call = Idle /\ done' = done
  BY DEF AddCell, Start
<1>2. <<cell>> \in Seq(Cell)
  BY DEF Cell
<1>3. /\ call'.todo = <<cell>> /\ call'.before = page /\ call'.pc = "next"
      /\ call'.ask = [op |-> "add_cell", key |-> key, val |-> val]
  BY <1>1
<1>4. Sound(page) /\ NumCells(page) \in Nat
  BY DEF RInv, IInv, Sound, Geometry
<1> HIDE DEF cell
<1>5. Fed(PageCells(page), NumCells(page), <<cell>>, call', page')
  BY <1>1, <1>2, <1>3, <1>4, FedFromStart
<1>6. Asked(call', page')
  BY <1>3, <1>5 DEF Asked, cell
<1>7. Before' = page /\ Before = page
  BY <1>1, <1>3 DEF Before, Idle
<1>8. Content(Before)' = Content(Before)
  BY <1>7, ContentAfter
<1> QED BY <1>1, <1>3, <1>4, <1>6, <1>8 DEF CallKept

LEMMA RebuildKept ==
  ASSUME RInv, NEW kind \in {"Root", "Leaf", "Internal"}, NEW cells \in Contents,
         NEW ptr \in PageIds, Rebuild(kind, cells, ptr)
  PROVE  CallKept' /\ UNCHANGED <<Content(Before), done>>
<1>1. /\ call' = [pc |-> "next", todo |-> cells, before |-> page,
                  ask |-> [op |-> "rebuild_from_cells", cells |-> cells]]
      /\ page' = Rebuilt(kind, ptr) /\ call = Idle /\ done' = done
  BY DEF Rebuild, Start
<1>2. cells \in Seq(Cell)
  BY PageAssumption DEF Cell
<1>3. /\ call'.todo = cells /\ call'.before = page /\ call'.pc = "next"
      /\ call'.ask = [op |-> "rebuild_from_cells", cells |-> cells]
  BY <1>1
<1>4. Sound(page) /\ Geometry(page)
  BY DEF RInv, IInv, Sound
<1>5. NumCells(page') = 0
  BY <1>1, <1>4, RebuiltEmpty
<1>6. Fed({}, 0, cells, call', page')
  BY <1>2, <1>3, <1>5, FedNoCells
<1>7. Asked(call', page')
  BY <1>3, <1>6 DEF Asked
<1>8. Before' = page /\ Before = page
  BY <1>1, <1>3 DEF Before, Idle
<1>9. Content(Before)' = Content(Before)
  BY <1>8, ContentAfter
<1> QED BY <1>1, <1>3, <1>4, <1>7, <1>9 DEF CallKept

\* An index past the last cell changes nothing.
LEMMA RemoveCellAtKept ==
  ASSUME RInv, NEW i \in 0..ORDER, RemoveCellAt(i)
  PROVE  CallKept' /\ (SortedPageOf!Next \/ UNCHANGED <<Content(Before), done>>)
<1> DEFINE n == NumCells(page)
<1>1. Sound(page) /\ Geometry(page) /\ n \in Nat /\ call = Idle
  BY DEF RInv, IInv, Sound, Geometry, RemoveCellAt
<1>2. CASE i >= n
  <2>1. /\ call' = Idle /\ page' = page
        /\ done' = [ask |-> [op |-> "remove_cell_at", idx |-> i],
                    reply |-> "Cell index out of bounds"]
    BY <1>2 DEF RemoveCellAt, Return
  <2>2. Before = page /\ Before' = page
    BY <1>1, <2>1 DEF Before, Idle
  <2>3. Content(Before)' = Content(Before)
    BY <2>2, ContentAfter
  <2>4. ASSUME NEW k \in DOMAIN Content(page)
        PROVE  ~(Cardinality({x \in DOMAIN Content(page) : x < k}) = i)
    <3>1. PICK j \in 0..n - 1 : k = KeyAt(page, j)
      BY DEF Content
    <3>2. Cardinality({x \in DOMAIN Content(page) : x < k}) = j
      BY <1>1, <3>1, KeyRank
    <3> QED BY <1>1, <1>2, <3>2
  <2>5. SortedPageOf!Remove(i)
    BY <2>1, <2>2, <2>3, <2>4, SameCardinality DEF SortedPageOf!Remove, SortedPageOf!Replied
  <2> QED BY <2>1, <2>5 DEF CallKept, SortedPageOf!Next
<1>3. CASE ~(i >= n)
  <2>1. /\ call' = [pc |-> "next", todo |-> AllBut(page, i), before |-> page,
                    ask |-> [op |-> "remove_cell_at", idx |-> i]]
        /\ page' = Rebuilt(page.kind, page.ptr) /\ done' = done
    BY <1>3 DEF RemoveCellAt, Start, AllBut
  <2>2. /\ call'.todo = AllBut(page, i) /\ call'.before = page /\ call'.pc = "next"
        /\ call'.ask = [op |-> "remove_cell_at", idx |-> i]
    BY <2>1
  <2>3. i \in Nat /\ i < n /\ AllBut(page, i) \in Seq(Cell)
    BY <1>1, <1>3, AllButTyped
  <2>4. NumCells(page') = 0
    BY <1>1, <2>1, RebuiltEmpty DEF Geometry
  <2>5. Fed({}, 0, AllBut(page, i), call', page')
    BY <2>2, <2>3, <2>4, FedNoCells
  <2>6. Asked(call', page')
    BY <2>2, <2>3, <2>5 DEF Asked
  <2>7. Before' = page /\ Before = page
    BY <1>1, <2>2 DEF Before, Idle
  <2>8. Content(Before)' = Content(Before)
    BY <2>7, ContentAfter
  <2> QED BY <1>1, <2>1, <2>2, <2>6, <2>8 DEF CallKept
<1> QED BY <1>2, <1>3

\* Free space is no slot's: what is written there leaves the page's cells alone.
LEMMA PlaceCells ==
  ASSUME IInv, Place, Fits(page)
  PROVE  /\ NumCells(page') = NumCells(page) /\ PageCells(page') = PageCells(page)
         /\ call'.todo = call.todo /\ call'.ask = call.ask /\ call'.before = call.before
         /\ call'.pc = "search" /\ done' = done
<1> DEFINE n == NumCells(page)
           start == page.free_end - CELL_SIZE
           written == [o \in DOMAIN page.cells \cup {start} |->
                          IF o = start THEN Head(call.todo) ELSE page.cells[o]]
<1>1. /\ page' = [page EXCEPT !.cells = written]
      /\ call' = [pc |-> "search", todo |-> call.todo, ask |-> call.ask,
                  before |-> call.before, lo |-> 0, hi |-> n]
      /\ done' = done
  BY DEF Place
<1>2. page'.slots = page.slots /\ page'.cells = written /\ page'.free_start = page.free_start
  BY <1>1 DEF IInv, Geometry, IsPageRecord
<1>3. NumCells(page') = n
  BY <1>2 DEF NumCells
<1>4. ASSUME NEW i \in 0..n - 1 PROVE page'.cells[page'.slots[i]] = page.cells[page.slots[i]]
  <2>1. page.slots[i] \in DOMAIN page.cells /\ \E k \in 1..n : page.slots[i] = NthCell(k)
    BY DEF IInv, SlotsSound
  <2>2. page.slots[i] # start
    BY <2>1, NextOffset DEF IInv
  <2> QED BY <1>2, <2>1, <2>2
<1>5. PageCells(page') = PageCells(page)
  BY <1>3, <1>4 DEF PageCells
<1> QED BY <1>1, <1>3, <1>5

\* The page gets the cell at the head of the list, and has no other of its key.
LEMMA LinkCells ==
  ASSUME IInv, Link
  PROVE  /\ NumCells(page') = NumCells(page) + 1
         /\ PageCells(page') = PageCells(page) \cup {Head(call.todo)}
         /\ \A c \in PageCells(page) : c.key # Head(call.todo).key
         /\ call.todo \in Seq(Cell) /\ call.todo # <<>>
         /\ call'.todo = Tail(call.todo) /\ call'.ask = call.ask /\ call'.before = call.before
         /\ call'.pc = "next" /\ call.pc = "search" /\ done' = done
<1> DEFINE n == NumCells(page)
           idx == call.lo
           start == page.free_end - CELL_SIZE
           cell == Head(call.todo)
           slots == Linked(page, idx, start)
           at(k) == page.cells[page.slots[k]]
<1>1. /\ Todo /\ SearchSound /\ idx = call.hi
      /\ call' = [pc |-> "next", todo |-> Tail(call.todo), ask |-> call.ask, before |-> call.before]
      /\ page' = [page EXCEPT !.slots = slots,
                              !.free_start = @ + SLOT_SIZE, !.free_end = start]
      /\ done' = done /\ call.pc = "search"
  BY CallShapes DEF IInv, Link
<1>2. /\ page'.slots = slots /\ page'.cells = page.cells
      /\ page'.free_start = page.free_start + SLOT_SIZE
  BY <1>1 DEF IInv, Geometry, IsPageRecord
<1>3. n \in Nat /\ idx \in 0..n
  BY <1>1 DEF SearchSound, IInv, Geometry
<1>4. page.cells[start] = cell
  BY <1>1, NextOffset DEF SearchSound, IInv
<1>5. NumCells(page') = n + 1
  <2>1. page'.free_start = HEADER_SIZE + SLOT_SIZE * (n + 1) /\ n + 1 \in Nat
    BY <1>2, <1>3, SizesAre DEF IInv, Geometry, Sizes
  <2> HIDE DEF n
  <2>2. ((HEADER_SIZE + SLOT_SIZE * (n + 1)) - HEADER_SIZE) \div SLOT_SIZE = n + 1
    BY <2>1, CountOfSlots
  <2> QED BY <2>1, <2>2, Zenon DEF NumCells
<1>6. \A i \in 0..n : slots[i] = IF i < idx THEN page.slots[i]
                                 ELSE IF i = idx THEN start ELSE page.slots[i - 1]
  BY DEF Linked
<1>7. PageCells(page') = {page.cells[slots[i]] : i \in 0..n}
  BY <1>2, <1>3, <1>5 DEF PageCells
<1>8. PageCells(page) = {at(k) : k \in 0..n - 1}
  BY DEF PageCells
<1>9. ASSUME NEW i \in 0..n
      PROVE  page.cells[slots[i]] = cell \/ \E k \in 0..n - 1 : page.cells[slots[i]] = at(k)
  <2> HIDE DEF slots, start
  <2>1. slots[i] = start \/ \E k \in 0..n - 1 : slots[i] = page.slots[k]
    BY <1>3, <1>6, Inserted
  <2> QED BY <1>4, <2>1
<1>10. \E i \in 0..n : page.cells[slots[i]] = cell
  BY <1>3, <1>4, <1>6
<1>11. ASSUME NEW k \in 0..n - 1 PROVE \E i \in 0..n : page.cells[slots[i]] = at(k)
  <2>1. CASE k < idx
    <3>1. k \in 0..n /\ slots[k] = page.slots[k]
      BY <1>3, <1>6, <2>1
    <3> QED BY <3>1
  <2>2. CASE ~(k < idx)
    <3>1. k + 1 \in 0..n /\ ~(k + 1 < idx) /\ k + 1 # idx /\ (k + 1) - 1 = k
      BY <1>3, <2>2
    <3>2. slots[k + 1] = page.slots[k]
      BY <1>6, <3>1
    <3> QED BY <3>1, <3>2
  <2> QED BY <2>1, <2>2
<1>12. PageCells(page') = PageCells(page) \cup {cell}
  <2> HIDE DEF slots, at, cell, n
  <2> QED BY <1>7, <1>8, <1>9, <1>10, <1>11
<1>13. ASSUME NEW c \in PageCells(page) PROVE c.key # cell.key
  <2>1. PICK k \in 0..n - 1 : c = at(k)
    BY <1>8
  <2>2. /\ k < idx => KeyAt(page, k) < cell.key
        /\ k >= idx => KeyAt(page, k) > cell.key
    BY <1>1 DEF SearchSound
  <2>3. cell.key \in Int /\ KeyAt(page, k) \in Int /\ KeyAt(page, k) = c.key
    <3>1. cell \in Cell
      BY <1>1, TodoTail DEF Todo, SearchSound
    <3>2. c \in Cell
      BY CellsOfPage DEF IInv, Sound
    <3> QED BY <2>1, <3>1, <3>2, KeysAreInt DEF KeyAt
  <2> QED BY <1>3, <2>2, <2>3
<1>14. call.todo \in Seq(Cell) /\ call.todo # <<>>
  BY <1>1 DEF Todo, SearchSound
<1> QED BY <1>1, <1>5, <1>12, <1>13, <1>14

\* In a call the page was what it is shown as before.
LEMMA InCall ==
  ASSUME RInv, call.pc \in {"next", "search"}
  PROVE  Before = call.before /\ Sound(call.before) /\ Asked(call, page) /\ call # Idle
<1>1. call # Idle /\ call.pc # "idle"
  BY DEF Idle
<1> QED BY <1>1 DEF RInv, CallKept, Before

\* A step that leaves the list's order alone and does not end the call is none
\* of the abstract page's.
LEMMA GoesOn ==
  ASSUME RInv, call.pc \in {"next", "search"}, call'.pc \in {"next", "search"},
         call'.ask = call.ask, call'.before = call.before, done' = done,
         \A B, L : \A b \in Nat : Fed(B, b, L, call, page) => Fed(B, b, L, call', page')
  PROVE  CallKept' /\ UNCHANGED <<Content(Before), done>>
<1>1. Before = call.before /\ Sound(call.before) /\ Asked(call, page)
  BY InCall
<1>2. Asked(call', page')
  BY <1>1, AskedKept DEF Sound, Geometry
<1>3. Before' = call.before
  BY DEF Before
<1>4. Content(Before)' = Content(Before)
  BY <1>1, <1>3, ContentAfter
<1> QED BY <1>1, <1>2, <1>4 DEF CallKept

\* A cell written into free space changes nothing yet.
LEMMA PlaceKept ==
  ASSUME RInv, Place, Fits(page)
  PROVE  CallKept' /\ UNCHANGED <<Content(Before), done>>
<1>1. /\ NumCells(page') = NumCells(page) /\ PageCells(page') = PageCells(page)
      /\ call'.todo = call.todo /\ call'.ask = call.ask /\ call'.before = call.before
      /\ call'.pc = "search" /\ done' = done
  BY PlaceCells DEF RInv
<1>2. call.pc = "next"
  BY DEF Place
<1>3. \A B, L : \A b \in Nat : Fed(B, b, L, call, page) => Fed(B, b, L, call', page')
  BY <1>1 DEF Fed
<1> QED BY <1>1, <1>2, <1>3, GoesOn

\* A cell linked in is the next of the list.
LEMMA LinkKept ==
  ASSUME RInv, Link
  PROVE  CallKept' /\ UNCHANGED <<Content(Before), done>>
<1>1. /\ NumCells(page') = NumCells(page) + 1
      /\ PageCells(page') = PageCells(page) \cup {Head(call.todo)}
      /\ \A c \in PageCells(page) : c.key # Head(call.todo).key
      /\ call.todo \in Seq(Cell) /\ call.todo # <<>>
      /\ call'.todo = Tail(call.todo) /\ call'.ask = call.ask /\ call'.before = call.before
      /\ call'.pc = "next" /\ call.pc = "search" /\ done' = done
  BY LinkCells DEF RInv
<1>2. ASSUME NEW B, NEW L, NEW b \in Nat, Fed(B, b, L, call, page) PROVE Fed(B, b, L, call', page')
  <2>1. L \in Seq(Cell)
    BY <1>2 DEF Fed
  <2>2. PICK m \in 0..Len(L) :
            NumCells(page) = b + m /\ Placed(B, L, m, call.todo, PageCells(page))
    BY <1>2 DEF Fed
  <2>3. m + 1 \in 0..Len(L) /\ Placed(B, L, m + 1, call'.todo, PageCells(page'))
    <3> DEFINE todo == call.todo
               S == PageCells(page)
    <3>1. todo \in Seq(Cell) /\ todo # <<>> /\ \A c \in S : c.key # Head(todo).key
      BY <1>1
    <3>2. Placed(B, L, m, todo, S)
      BY <2>2
    <3> HIDE DEF todo, S
    <3>3. m + 1 \in 0..Len(L) /\ Placed(B, L, m + 1, Tail(todo), S \cup {Head(todo)})
      BY <2>1, <3>1, <3>2, PlacedNext
    <3> QED BY <1>1, <3>3 DEF todo, S
  <2>4. NumCells(page') = b + (m + 1)
    BY <1>1, <2>2
  <2> QED BY <2>1, <2>3, <2>4 DEF Fed
<1> QED BY <1>1, <1>2, GoesOn

LEMMA ProbeKept ==
  ASSUME RInv, Probe, done' = done, call' # Idle
  PROVE  CallKept' /\ UNCHANGED <<Content(Before), done>>
<1>1. /\ call = [pc |-> "search", todo |-> call.todo, ask |-> call.ask, before |-> call.before,
                 lo |-> call.lo, hi |-> call.hi]
      /\ page' = page /\ call.pc = "search"
  BY CallShapes DEF RInv, IInv, Probe
<1>2. \/ call' = [call EXCEPT !.lo = Lower(Mid)]
      \/ call' = [call EXCEPT !.hi = Mid]
  BY DEF Probe, Return
<1>3. /\ call'.todo = call.todo /\ call'.ask = call.ask /\ call'.before = call.before
      /\ call'.pc = "search"
  BY <1>1, <1>2
<1>4. \A B, L : \A b \in Nat : Fed(B, b, L, call, page) => Fed(B, b, L, call', page')
  BY <1>1, <1>3 DEF Fed
<1> QED BY <1>1, <1>3, <1>4, GoesOn
-----------------------------------------------------------------------------
(* A call that ends. *)

\* What the call replies, and why.
Ends(reply) ==
    /\ call.pc \in {"next", "search"} /\ call' = Idle /\ page' = page
    /\ done' = [ask |-> call.ask, reply |-> reply]
    /\ call.todo \in Seq(Cell)
    /\ \/ reply = "ok" /\ call.todo = <<>>
       \/ /\ reply = "Page overflow" /\ call.todo # <<>>
          /\ NumCells(page) = ORDER
       \/ /\ reply = "duplicate key" /\ call.todo # <<>>
          /\ NumCells(page) < ORDER
          /\ \E c \in PageCells(page) : c.key = Head(call.todo).key

\* Without room for a cell the page has ORDER of them.
LEMMA OverflowEnds ==
  ASSUME RInv, Place, ~Fits(page)
  PROVE  Ends("Page overflow")
<1>1. /\ call' = Idle /\ page' = page /\ done' = [ask |-> call.ask, reply |-> "Page overflow"]
      /\ call.pc = "next" /\ call.todo # <<>>
  BY DEF Place, Return
<1>2. call.todo \in Seq(Cell)
  BY <1>1, CallShapes DEF RInv, IInv, Todo
<1>3. NumCells(page) = ORDER
  BY RoomOfPage DEF RInv, IInv, Geometry
<1> QED BY <1>1, <1>2, <1>3 DEF Ends

LEMMA FinishEnds ==
  ASSUME RInv, Finish
  PROVE  Ends("ok")
<1>1. /\ call' = Idle /\ page' = page /\ done' = [ask |-> call.ask, reply |-> "ok"]
      /\ call.pc = "next" /\ call.todo = <<>>
  BY DEF Finish, Return
<1>2. call.todo \in Seq(Cell)
  BY <1>1
<1> QED BY <1>1, <1>2 DEF Ends

\* The search looks at slots of the page only.
LEMMA MidInPage ==
  ASSUME IInv, call.pc = "search", call.lo < call.hi
  PROVE  Mid \in 0..NumCells(page) - 1
<1>1. /\ NumCells(page) \in Nat /\ call.lo \in 0..NumCells(page)
      /\ call.hi \in call.lo..NumCells(page)
  BY CallShapes DEF IInv, Geometry, SearchSound
<1>2. \A n \in Nat : \A lo \in 0..n : \A hi \in lo..n :
         lo < hi => lo + (hi - lo) \div 2 \in 0..n - 1
  OBVIOUS
<1> QED BY <1>1, <1>2 DEF Mid

\* A key that the search meets is on the page.
LEMMA DuplicateEnds ==
  ASSUME RInv, Probe, KeyAt(page, Mid) = Head(call.todo).key, Return(call.ask, "duplicate key")
  PROVE  Ends("duplicate key")
<1>1. /\ call' = Idle /\ page' = page /\ done' = [ask |-> call.ask, reply |-> "duplicate key"]
      /\ call.pc = "search" /\ call.lo < call.hi
  BY DEF Probe, Return
<1>2. Todo /\ SearchSound
  BY <1>1, CallShapes DEF RInv, IInv
<1>3. call.todo \in Seq(Cell) /\ call.todo # <<>> /\ Fits(page)
  BY <1>2 DEF Todo, SearchSound
<1>4. NumCells(page) < ORDER
  BY <1>3, RoomOfPage DEF RInv, IInv
<1>5. Mid \in 0..NumCells(page) - 1
  BY <1>1, MidInPage DEF RInv
<1>6. /\ page.cells[page.slots[Mid]] \in PageCells(page)
      /\ page.cells[page.slots[Mid]].key = Head(call.todo).key
  BY <1>5 DEF PageCells, KeyAt
<1> QED BY <1>1, <1>3, <1>4, <1>6 DEF Ends

\* What is known when a call ends.
LEMMA EndFacts ==
  ASSUME RInv, NEW reply, Ends(reply)
  PROVE  /\ Before = call.before /\ Content(Before)' = Content(page)
         /\ Sound(call.before) /\ Sound(page) /\ Asked(call, page)
         /\ NumCells(page) \in Nat /\ NumCells(call.before) \in Nat
         /\ NumCells(page) <= ORDER /\ NumCells(call.before) <= ORDER /\ ORDER \in Nat
<1>1. Before = call.before /\ Sound(call.before) /\ Asked(call, page)
  BY InCall DEF Ends
<1>2. Before' = page
  BY DEF Ends, Before, Idle
<1>3. Content(Before)' = Content(page)
  BY <1>2, ContentAfter
<1>4. Sound(page)
  BY DEF RInv, IInv, Sound
<1> QED BY <1>1, <1>3, <1>4, RoomOfPage DEF Sound, Geometry

\* add_cell put its cell on the page, or said why not.
LEMMA AddEnds ==
  ASSUME RInv, NEW reply, Ends(reply), NEW key \in Keys, NEW val \in HeapIds \cup PageIds,
         call.ask = [op |-> "add_cell", key |-> key, val |-> val],
         Fed(PageCells(call.before), NumCells(call.before), <<[key |-> key, val |-> val]>>, call, page)
  PROVE  SortedPageOf!Next
<1> DEFINE cell == [key |-> key, val |-> val]
           L == <<cell>>
           p == call.before
           D == DOMAIN Content(p)
<1>1. /\ Before = p /\ Content(Before)' = Content(page) /\ Sound(p) /\ Sound(page)
      /\ NumCells(page) \in Nat /\ NumCells(p) \in Nat
      /\ NumCells(page) <= ORDER /\ NumCells(p) <= ORDER /\ ORDER \in Nat
  BY EndFacts
<1>2. cell \in Cell /\ Len(L) = 1 /\ L[1] = cell
  BY DEF Cell
<1>3. PICK m \in 0..1 : NumCells(page) = NumCells(p) + m
                        /\ Placed(PageCells(p), L, m, call.todo, PageCells(page))
  BY <1>2 DEF Fed
<1>4. call.todo \in Seq(Cell) /\ done' = [ask |-> call.ask, reply |-> reply]
  BY DEF Ends
<1>5. D = {c.key : c \in PageCells(p)} /\ SortedPageOf!Cardinality(D) = NumCells(p)
  BY <1>1, KeyCount, SameCardinality
<1> HIDE DEF p
<1>6. CASE m = 1
  <2>1. /\ PageCells(page) = PageCells(p) \cup {cell} /\ Len(call.todo) = 0
        /\ \A c \in PageCells(p) : c.key # cell.key
    <3>1. {L[i] : i \in 1..m} = {cell} /\ 1 \in 1..m
      BY <1>2, <1>6
    <3> QED BY <1>2, <1>3, <1>6, <3>1 DEF Placed
  <2>2. reply = "ok"
    <3>1. call.todo = <<>>
      BY <1>4, <2>1
    <3> QED BY <3>1 DEF Ends
  <2>3. /\ key \notin D
        /\ Content(page) = [x \in D \cup {key} |-> IF x = key THEN val ELSE Content(p)[x]]
    <3>1. cell.key = key /\ cell.val = val
      OBVIOUS
    <3> HIDE DEF cell
    <3>2. /\ cell.key \notin DOMAIN Content(p)
          /\ Content(page) = [x \in DOMAIN Content(p) \cup {cell.key} |->
                                 IF x = cell.key THEN cell.val ELSE Content(p)[x]]
      <4>1. Gains(p, page, cell)
        BY <2>1 DEF Gains
      <4> QED BY <1>1, <1>2, <4>1, AddedContent
    <3> QED BY <3>1, <3>2
  <2>4. NumCells(p) < ORDER
    BY <1>1, <1>3, <1>6
  <2>5. SortedPageOf!Add(key, val)
    BY <1>1, <1>4, <1>5, <2>2, <2>3, <2>4 DEF SortedPageOf!Add, SortedPageOf!Replied
  <2> QED BY <2>5 DEF SortedPageOf!Next
<1>7. CASE m = 0
  <2>1. /\ PageCells(page) = PageCells(p) /\ Len(call.todo) = 1 /\ call.todo[1] = cell
    <3>1. {L[i] : i \in 1..m} = {} /\ Len(call.todo) = 1
      BY <1>2, <1>3, <1>7 DEF Placed
    <3>2. 1 \in 1..Len(call.todo) /\ m + 1 = 1
      BY <1>7, <3>1
    <3>3. call.todo[1] = L[m + 1]
      BY <1>3, <3>2 DEF Placed
    <3> QED BY <1>2, <1>3, <3>1, <3>2, <3>3 DEF Placed
  <2>2. call.todo # <<>> /\ Head(call.todo) = cell
    BY <1>4, <2>1
  <2>3. Content(page) = Content(p)
    BY <1>1, <2>1, ContentRepresents, SameMap
  <2>4. NumCells(page) = NumCells(p)
    BY <1>1, <1>3, <1>7
  <2>5. \/ reply = "Page overflow" /\ NumCells(p) = ORDER
        \/ reply = "duplicate key" /\ NumCells(p) < ORDER /\ key \in D
    <3>1. \/ reply = "Page overflow" /\ NumCells(page) = ORDER
          \/ /\ reply = "duplicate key" /\ NumCells(page) < ORDER
             /\ \E c \in PageCells(page) : c.key = Head(call.todo).key
      BY <2>2 DEF Ends
    <3>2. Head(call.todo).key = key
      BY <2>2
    <3>3. \A c \in PageCells(p) : c.key \in D
      BY <1>5
    <3> HIDE DEF cell, D
    <3> QED BY <2>1, <2>4, <3>1, <3>2, <3>3
  <2>6. SortedPageOf!Add(key, val)
    BY <1>1, <1>4, <1>5, <2>3, <2>5 DEF SortedPageOf!Add, SortedPageOf!Replied
  <2> QED BY <2>6 DEF SortedPageOf!Next
<1> QED BY <1>6, <1>7

\* Of a list put on an empty page: what is on it, and what comes next.
LEMMA ListFacts ==
  ASSUME NEW L \in Seq(Cell), NEW n, Fed({}, 0, L, call, page), n = NumCells(page),
         call.todo \in Seq(Cell)
  PROVE  /\ n \in 0..Len(L)
         /\ PageCells(page) = {L[i] : i \in 1..n}
         /\ \A i, j \in 1..n : L[i].key = L[j].key => i = j
         /\ call.todo = <<>> <=> n = Len(L)
         /\ call.todo # <<>> => n + 1 \in 1..Len(L) /\ Head(call.todo) = L[n + 1]
<1>1. PICK m \in 0..Len(L) : NumCells(page) = 0 + m /\ Placed({}, L, m, call.todo, PageCells(page))
  BY DEF Fed
<1>2. m = n /\ m \in Nat /\ Len(L) \in Nat
  BY <1>1
<1>3. /\ Len(call.todo) = Len(L) - n
      /\ \A i \in 1..Len(call.todo) : call.todo[i] = L[n + i]
      /\ PageCells(page) = {L[i] : i \in 1..n}
      /\ \A i, j \in 1..n : L[i].key = L[j].key => i = j
  BY <1>1, <1>2 DEF Placed
<1> DEFINE todo == call.todo
<1>4. todo \in Seq(Cell) /\ Len(todo) \in Nat /\ (todo = <<>> <=> Len(todo) = 0)
  OBVIOUS
<1>5. todo # <<>> => Head(todo) = todo[1]
  OBVIOUS
<1>6. n \in 0..Len(L) /\ (Len(todo) = 0 <=> n = Len(L)) /\ (Len(todo) # 0 => n + 1 \in 1..Len(L))
  BY <1>1, <1>2, <1>3, <1>4
<1>7. Len(todo) # 0 => todo[1] = L[n + 1]
  BY <1>3, <1>4
<1> QED BY <1>3, <1>4, <1>5, <1>6, <1>7

\* rebuild_from_cells put the cells on the page up to the first refused.
LEMMA RebuildEnds ==
  ASSUME RInv, NEW reply, Ends(reply), NEW cells \in Contents,
         call.ask = [op |-> "rebuild_from_cells", cells |-> cells],
         Fed({}, 0, cells, call, page)
  PROVE  SortedPageOf!Next
<1> DEFINE n == NumCells(page)
<1>1. /\ Content(Before)' = Content(page) /\ Sound(page)
      /\ n \in Nat /\ n <= ORDER /\ ORDER \in Nat
  BY EndFacts
<1>2. cells \in Seq(Cell)
  BY PageAssumption DEF Cell
<1>3. call.todo \in Seq(Cell) /\ done' = [ask |-> call.ask, reply |-> reply]
  BY DEF Ends
<1>4. /\ n \in 0..Len(cells)
      /\ PageCells(page) = {cells[i] : i \in 1..n}
      /\ \A i, j \in 1..n : cells[i].key = cells[j].key => i = j
      /\ call.todo = <<>> <=> n = Len(cells)
      /\ call.todo # <<>> => n + 1 \in 1..Len(cells) /\ Head(call.todo) = cells[n + 1]
  BY <1>2, <1>3, ListFacts
<1>5. \/ reply = "ok" /\ call.todo = <<>>
      \/ reply = "Page overflow" /\ call.todo # <<>> /\ n = ORDER
      \/ /\ reply = "duplicate key" /\ call.todo # <<>> /\ n < ORDER
         /\ \E c \in PageCells(page) : c.key = Head(call.todo).key
  BY DEF Ends
<1>6. Represents(Content(Before)', {cells[i] : i \in 1..n})
  BY <1>1, <1>4, ContentRepresents
<1> HIDE DEF n
<1>7. SortedPageOf!Fits(cells, n)
  BY <1>1, <1>4 DEF SortedPageOf!Fits
<1>8. n = Len(cells) \/ ~SortedPageOf!Fits(cells, n + 1)
  <2>1. CASE reply = "duplicate key" /\ \E c \in PageCells(page) : c.key = Head(call.todo).key
    <3>1. CASE call.todo # <<>>
      <4>1. PICK c \in PageCells(page) : c.key = Head(call.todo).key
        BY <2>1
      <4>2. PICK i \in 1..n : c = cells[i]
        BY <1>4, <4>1
      <4>3. i \in 1..n + 1 /\ n + 1 \in 1..n + 1 /\ i # n + 1
        BY <1>1
      <4>4. cells[i].key = cells[n + 1].key
        BY <1>4, <3>1, <4>1, <4>2
      <4> QED BY <4>3, <4>4 DEF SortedPageOf!Fits
    <3>2. CASE call.todo = <<>>
      BY <1>4, <3>2
    <3> QED BY <3>1, <3>2
  <2>2. CASE n = ORDER
    <3>1. ~(n + 1 <= ORDER)
      BY <1>1, <2>2
    <3> QED BY <3>1 DEF SortedPageOf!Fits
  <2>3. CASE call.todo = <<>>
    BY <1>4, <2>3
  <2> QED BY <1>5, <2>1, <2>2, <2>3
<1>9. reply = IF n = Len(cells) THEN "ok"
              ELSE IF n = ORDER THEN "Page overflow" ELSE "duplicate key"
  <2>1. n < ORDER => n # ORDER
    BY <1>1
  <2> QED BY <1>4, <1>5, <2>1
<1>10. done' = [ask |-> [op |-> "rebuild_from_cells", cells |-> cells], reply |-> reply]
  BY <1>3
<1> QED BY <1>4, <1>6, <1>7, <1>8, <1>9, <1>10, RebuildsTo

\* A page's own cells fit it and have different keys, so nothing is refused.
LEMMA RemoveEnds ==
  ASSUME RInv, NEW reply, Ends(reply), NEW i \in 0..ORDER, i < NumCells(call.before),
         call.ask = [op |-> "remove_cell_at", idx |-> i],
         Fed({}, 0, AllBut(call.before, i), call, page)
  PROVE  SortedPageOf!Next
<1> DEFINE p == call.before
           L == AllBut(p, i)
           n == NumCells(page)
<1>1. /\ Before = p /\ Content(Before)' = Content(page) /\ Sound(p) /\ Sound(page)
      /\ n \in Nat /\ NumCells(p) \in Nat /\ NumCells(p) <= ORDER /\ ORDER \in Nat
  BY EndFacts
<1>2. i \in Nat /\ i < NumCells(p) /\ i \in 0..NumCells(p) - 1
  BY <1>1
<1>3. call.todo \in Seq(Cell) /\ done' = [ask |-> call.ask, reply |-> reply]
  BY DEF Ends
<1>4. \/ reply = "ok" /\ call.todo = <<>>
      \/ reply = "Page overflow" /\ call.todo # <<>> /\ n = ORDER
      \/ /\ reply = "duplicate key" /\ call.todo # <<>> /\ n < ORDER
         /\ \E c \in PageCells(page) : c.key = Head(call.todo).key
  BY DEF Ends
<1> HIDE DEF p, n
<1>5. /\ L \in Seq(Cell) /\ Len(L) = NumCells(p) - 1
      /\ {L[j] : j \in 1..NumCells(p) - 1} = PageCells(p) \ {p.cells[p.slots[i]]}
      /\ \A j, k \in 1..NumCells(p) - 1 : L[j].key = L[k].key => j = k
  BY <1>1, <1>2, AllButTyped, AllButCells
<1>6. Fed({}, 0, L, call, page) /\ n = NumCells(page)
  BY DEF p, n
<1> HIDE DEF L
<1>7. /\ n \in 0..Len(L)
      /\ PageCells(page) = {L[j] : j \in 1..n}
      /\ call.todo = <<>> <=> n = Len(L)
      /\ call.todo # <<>> => n + 1 \in 1..Len(L) /\ Head(call.todo) = L[n + 1]
  BY <1>3, <1>5, <1>6, ListFacts
<1>8. call.todo = <<>> /\ reply = "ok"
  <2>1. ~(call.todo # <<>> /\ n = ORDER)
    BY <1>1, <1>5, <1>7
  <2>2. ASSUME call.todo # <<>>, NEW c \in PageCells(page), c.key = Head(call.todo).key
        PROVE  FALSE
    <3>1. PICK j \in 1..n : c = L[j]
      BY <1>7
    <3>2. j \in 1..NumCells(p) - 1 /\ n + 1 \in 1..NumCells(p) - 1 /\ j # n + 1
      BY <1>1, <1>5, <1>7, <2>2
    <3>3. L[j].key = L[n + 1].key
      BY <1>7, <2>2, <3>1
    <3> QED BY <1>5, <3>2, <3>3
  <2> QED BY <1>4, <2>1, <2>2
<1>9. Loses(p, page, i)
  BY <1>5, <1>7, <1>8 DEF Loses
<1>10. /\ KeyAt(p, i) \in DOMAIN Content(p)
       /\ Cardinality({x \in DOMAIN Content(p) : x < KeyAt(p, i)}) = i
       /\ Content(page) =
             [x \in {y \in DOMAIN Content(p) :
                       ~(Cardinality({z \in DOMAIN Content(p) : z < y}) = i)} |-> Content(p)[x]]
  BY <1>1, <1>2, <1>9, RemovedContent
<1>11. SortedPageOf!Remove(i)
  BY <1>1, <1>3, <1>8, <1>10, SameCardinality DEF SortedPageOf!Remove, SortedPageOf!Replied
<1> QED BY <1>11 DEF SortedPageOf!Next
-----------------------------------------------------------------------------
LEMMA EndsRefine ==
  ASSUME RInv, NEW reply, Ends(reply)
  PROVE  CallKept' /\ SortedPageOf!Next
<1>1. CallKept'
  BY DEF CallKept, Ends
<1>2. Asked(call, page)
  BY EndFacts
<1> QED BY <1>1, <1>2, AddEnds, RebuildEnds, RemoveEnds DEF Asked

\* The content is read from the slots and the cells alone.
LEMMA SameContent ==
  ASSUME NEW p, NEW q, q.free_start = p.free_start, q.slots = p.slots, q.cells = p.cells
  PROVE  Content(q) = Content(p)
<1> DEFINE Read(n, O, slots, cells) ==
             [k \in {cells[slots[i]].key : i \in 0..n - 1} |->
                 cells[CHOOSE o \in O : cells[o].key = k].val]
<1>1. NumCells(q) = NumCells(p)
  BY DEF NumCells
<1>2. Offsets(q) = Offsets(p)
  BY <1>1 DEF Offsets
<1>3. Content(q) = Read(NumCells(q), Offsets(q), q.slots, q.cells)
  BY DEF Content, KeyAt
<1>4. Content(p) = Read(NumCells(p), Offsets(p), p.slots, p.cells)
  BY DEF Content, KeyAt
<1> HIDE DEF Read
<1> QED BY <1>1, <1>2, <1>3, <1>4, Zenon

\* A new pointer or kind changes no cell.
LEMMA HeaderKept ==
  ASSUME RInv, call = Idle, call' = Idle, done' = done, page'.free_start = page.free_start,
         page'.slots = page.slots, page'.cells = page.cells
  PROVE  CallKept' /\ UNCHANGED <<Content(Before), done>>
<1>1. Before = page /\ Before' = page'
  BY DEF Before, Idle
<1>2. Content(page') = Content(page)
  BY SameContent
<1>3. Content(Before)' = Content(page')
  BY <1>1, ContentAfter
<1>4. Content(Before)' = Content(Before)
  BY <1>1, <1>2, <1>3
<1> QED BY <1>4 DEF CallKept

\* A step that ends a call is the abstract page's; any other is none of it.
LEMMA StepRefines ==
  ASSUME RInv, [Next]_vars
  PROVE  CallKept' /\ (SortedPageOf!Next \/ UNCHANGED <<Content(Before), done>>)
<1>1. ASSUME NEW key \in Keys, NEW val \in HeapIds \cup PageIds, AddCell(key, val)
      PROVE  CallKept' /\ UNCHANGED <<Content(Before), done>>
  BY <1>1, AddCellKept
<1>2. ASSUME NEW kind \in {"Root", "Leaf", "Internal"}, NEW cells \in Contents, NEW ptr \in PageIds,
             Rebuild(kind, cells, ptr)
      PROVE  CallKept' /\ UNCHANGED <<Content(Before), done>>
  BY <1>2, RebuildKept
<1>3. ASSUME NEW i \in 0..ORDER, RemoveCellAt(i)
      PROVE  CallKept' /\ (SortedPageOf!Next \/ UNCHANGED <<Content(Before), done>>)
  BY <1>3, RemoveCellAtKept
<1>4. ASSUME NEW ptr \in PageIds, SetHeaderPtr(ptr)
      PROVE  CallKept' /\ UNCHANGED <<Content(Before), done>>
  <2>1. /\ call = Idle /\ call' = Idle /\ done' = done
        /\ page'.free_start = page.free_start /\ page'.slots = page.slots
        /\ page'.cells = page.cells
    BY <1>4 DEF SetHeaderPtr, RInv, IInv, Geometry, IsPageRecord
  <2> QED BY <2>1, HeaderKept
<1>5. ASSUME NEW kind \in {"Root", "Internal"}, SetPageKind(kind)
      PROVE  CallKept' /\ UNCHANGED <<Content(Before), done>>
  <2>1. /\ call = Idle /\ call' = Idle /\ done' = done
        /\ page'.free_start = page.free_start /\ page'.slots = page.slots
        /\ page'.cells = page.cells
    BY <1>5 DEF SetPageKind, RInv, IInv, Geometry, IsPageRecord
  <2> QED BY <2>1, HeaderKept
<1>6. CASE Place
  <2>1. CASE Fits(page)
    BY <1>6, <2>1, PlaceKept
  <2>2. CASE ~Fits(page)
    BY <1>6, <2>2, OverflowEnds, EndsRefine
  <2> QED BY <2>1, <2>2
<1>7. CASE Probe
  <2>1. CASE KeyAt(page, Mid) = Head(call.todo).key /\ Return(call.ask, "duplicate key")
    BY <1>7, <2>1, DuplicateEnds, EndsRefine
  <2>2. CASE ~(KeyAt(page, Mid) = Head(call.todo).key /\ Return(call.ask, "duplicate key"))
    <3>1. /\ call = [pc |-> "search", todo |-> call.todo, ask |-> call.ask,
                     before |-> call.before, lo |-> call.lo, hi |-> call.hi]
      BY <1>7, CallShapes DEF RInv, IInv, Probe
    <3>2. /\ call' = [call EXCEPT !.lo = Lower(Mid)] \/ call' = [call EXCEPT !.hi = Mid]
          /\ done' = done
      BY <1>7, <2>2 DEF Probe
    <3>3. call'.pc = "search"
      BY <3>1, <3>2
    <3>4. call' # Idle
      BY <3>3 DEF Idle
    <3> QED BY <1>7, <3>2, <3>4, ProbeKept
  <2> QED BY <2>1, <2>2
<1>8. CASE Link
  BY <1>8, LinkKept
<1>9. CASE Finish
  BY <1>9, FinishEnds, EndsRefine
<1>10. CASE UNCHANGED vars
  <2>1. page' = page /\ call' = call /\ done' = done
    BY <1>10 DEF vars
  <2>2. Before' = Before
    BY <2>1 DEF Before
  <2>3. Content(Before)' = Content(Before)
    BY <2>2, ContentAfter
  <2> QED BY <2>1, <2>3 DEF RInv, CallKept
<1> QED BY <1>1, <1>2, <1>3, <1>4, <1>5, <1>6, <1>7, <1>8, <1>9, <1>10 DEF Next, Step

LEMMA InitRefines ==
  ASSUME Init
  PROVE  CallKept /\ SortedPageOf!Init
<1>1. /\ call = Idle /\ done = [ask |-> [op |-> "none"], reply |-> "ok"]
  BY DEF Init
<1>2. PICK kind \in {"Root", "Leaf", "Internal"}, leaf \in BOOLEAN :
         (leaf => kind = "Root") /\ page = [InitHeader(kind, 0) EXCEPT !.root_leaf = leaf]
  BY DEF Init
<1>3. NumCells(page) = 0
  BY <1>2, FreshSound
<1>4. Before = page
  BY <1>1 DEF Before, Idle
<1>5. 0..NumCells(page) - 1 = {}
  BY <1>3
<1>6. DOMAIN Content(page) = {} /\ Content(page) = [k \in DOMAIN Content(page) |-> Content(page)[k]]
  BY <1>5 DEF Content
<1>7. Content(page) = <<>>
  BY <1>6
<1> QED BY <1>1, <1>4, <1>7 DEF CallKept, SortedPageOf!Init, SortedPageOf!Nothing

\* The page between calls is a map from at most ORDER keys to pointers: every
\* call does to the map what was asked for, or nothing, and says so, whatever
\* the page's size, the keys there are and the cells given.
THEOREM Refinement == Spec => ImplementsSortedPage
<1>1. Init => RInv /\ SortedPageOf!Init
  BY InitSound, InitRefines DEF RInv
<1>2. RInv /\ [Next]_vars => RInv' /\ [SortedPageOf!Next]_<<Content(Before), done>>
  BY NextSound, StepRefines DEF RInv
<1> QED BY <1>1, <1>2, PTL DEF Spec, ImplementsSortedPage, SortedPageOf!Spec
=============================================================================
