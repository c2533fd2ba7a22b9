----------------------------- MODULE PageStore -----------------------------
(***************************************************************************)
(* A page file and its buffer pool: buffer_pool.rs with Index (index.rs),   *)
(* which Heap (heap.rs) repeats for the other file.                         *)
(*                                                                          *)
(* The pool's mutex is held for one pool operation at a time, and a lookup  *)
(* that misses lets go of it to read the file, and again before it writes   *)
(* back the page it pushed out.  Lookups run side by side under the read    *)
(* half of tree_lock; a call that changes pages has the tree to itself, so  *)
(* each change of a page is one step here, and no page is pinned between    *)
(* steps (so update_page always finds its frame).  Flushing takes no lock   *)
(* but the pool's: only tests call it, with nothing else running.  A page   *)
(* is the set of the LSNs of the changes made to it.                        *)
(*                                                                          *)
(* A read or a write of the file may fail.  Heap's fetch returns the error; *)
(* Index's panics, which ends a lookup, but leaves tree_lock poisoned after *)
(* a change: then nothing runs any more, as after a failed allocation in    *)
(* either file, which is no step here.                                      *)
(***************************************************************************)
EXTENDS Integers, SequencesExt

CONSTANTS
    Readers,  \* the threads that look up keys
    Pages,
    Capacity, \* frames of the pool
    FlushAlone, \* whether nothing else runs while pages are flushed
    MaxLsn    \* bound: changes made

ASSUME PageStoreAssumption ==
    /\ Capacity \in Nat \ {0} /\ MaxLsn \in Nat /\ IsFiniteSet(Pages)
    /\ FlushAlone \in BOOLEAN

VARIABLES
    pool,     \* BufferPoolInner: [frames, dirty, lru]
    file,     \* page -> what reading the file returns; the allocated pages
    lsn,      \* the last LSN the log gave
    flushed,  \* what is durable of the log: the LSNs up to this one
    task,     \* reader -> how far its fetch has got
    flush,    \* the flush in progress
    returned, \* history: what the last fetch returned, {[id, page]}, until a change
    latest    \* history: page -> all changes made to it that no failed write has lost

vars == <<pool, file, lsn, flushed, task, flush, returned, latest>>
-----------------------------------------------------------------------------
(* The pool's operations, each under its mutex. *)

Frame == [page : SUBSET (1..MaxLsn), page_lsn : 0..MaxLsn, rec_lsn : 0..MaxLsn]

Put(frames, id, frame) ==
    [q \in DOMAIN frames \cup {id} |-> IF q = id THEN frame ELSE frames[q]]

Except(lru, id) ==
    LET kept[i \in 0..Len(lru)] ==
            IF i = 0 THEN <<>>
            ELSE IF lru[i] = id THEN kept[i - 1] ELSE Append(kept[i - 1], lru[i])
    IN  kept[Len(lru)]

\* Also of a page that is not in the pool: get puts a missing page's id into lru.
Touch(pl, id) == [pl EXCEPT !.lru = Append(Except(@, id), id)]

\* evict_one: the page touched longest ago.  lru may hold ids of no frame.
Victim(pl) == LET i == CHOOSE i \in DOMAIN pl.lru :
                         /\ pl.lru[i] \in DOMAIN pl.frames
                         /\ \A j \in 1..i - 1 : pl.lru[j] \notin DOMAIN pl.frames
              IN  pl.lru[i]

Without(pl, id) ==
    [frames |-> [q \in DOMAIN pl.frames \ {id} |-> pl.frames[q]],
     dirty |-> pl.dirty \ {id},
     lru |-> Except(pl.lru, id)]

\* What a pushed out page leaves to be written: nothing if it was clean.
\* Mutant: nothing in any case.
EvictedNone(pl, id) == {}
Evicted(pl, id) ==
    IF id \in pl.dirty
    THEN {[id |-> id, page |-> pl.frames[id].page, page_lsn |-> pl.frames[id].page_lsn]}
    ELSE {}

\* insert: a page that is there already stays as it is.
\* Mutant: the pool may hold one frame more.
InsertInto(pl, id, page, limit) ==
    LET full == id \notin DOMAIN pl.frames /\ Cardinality(DOMAIN pl.frames) >= limit
        rest == IF full THEN Without(pl, Victim(pl)) ELSE pl
        frame == [page |-> page, page_lsn |-> 0, rec_lsn |-> 0]
    IN  [evicted |-> IF full THEN Evicted(pl, Victim(pl)) ELSE {},
         pool |-> IF id \in DOMAIN pl.frames THEN Touch(pl, id)
                  ELSE Touch([rest EXCEPT !.frames = Put(@, id, frame)], id)]
InsertLate(pl, id, page) == InsertInto(pl, id, page, Capacity + 1)
Insert(pl, id, page) == InsertInto(pl, id, page, Capacity)

\* update_page, then update_lsn with the change's LSN: rec_lsn stays that of
\* the first change since the page was clean.
\* Mutant: it is the last change's.
RecLsnLast(rec_lsn, n) == n
RecLsn(rec_lsn, n) == IF rec_lsn = 0 THEN n ELSE rec_lsn
Update(pl, id, page, n) ==
    LET frame == [page |-> page, page_lsn |-> n, rec_lsn |-> RecLsn(pl.frames[id].rec_lsn, n)]
    IN  Touch([pl EXCEPT !.dirty = @ \cup {id}, !.frames = Put(@, id, frame)], id)
-----------------------------------------------------------------------------
Idle == [pc |-> "idle"]

\* Lookups and changes begin when nothing is flushed, if that is to be so.
MayBegin == FlushAlone => flush = Idle
AllIdle == \A r \in Readers : task[r] = Idle

TypeOK ==
    /\ DOMAIN pool.frames \subseteq DOMAIN file /\ pool.dirty \subseteq DOMAIN pool.frames
    /\ \A id \in DOMAIN pool.frames : pool.frames[id] \in Frame
    /\ Cardinality(DOMAIN pool.frames) <= Capacity
    /\ DOMAIN pool.frames \subseteq ToSet(pool.lru) /\ ToSet(pool.lru) \subseteq Pages
    /\ Len(pool.lru) = Cardinality(ToSet(pool.lru))
    /\ \A id \in DOMAIN file : file[id] \subseteq 1..lsn
    /\ flushed \in 0..lsn /\ lsn \in 0..MaxLsn
    /\ \A r \in Readers : task[r].pc \in {"idle", "miss", "insert", "writeback"}
    /\ flush.pc \in {"idle", "next", "write"}

\* An empty file.
Init ==
    /\ pool = [frames |-> <<>>, dirty |-> {}, lru |-> <<>>]
    /\ file = <<>> /\ lsn = 0 /\ flushed = 0
    /\ task = [r \in Readers |-> Idle] /\ flush = Idle
    /\ returned = {}
    /\ latest = [id \in Pages |-> {}]

Return(r, id, page) ==
    /\ task' = [task EXCEPT ![r] = Idle]
    /\ returned' = {[id |-> id, page |-> page]}

\* fetch: pool.get finds the page.
Hit(r, id) ==
    /\ MayBegin /\ task[r] = Idle /\ id \in DOMAIN pool.frames
    /\ pool' = Touch(pool, id)
    /\ Return(r, id, pool.frames[id].page)
    /\ UNCHANGED <<flush, file, lsn, flushed, latest>>

\* fetch: pool.get does not find it.
Miss(r, id) ==
    /\ MayBegin /\ task[r] = Idle /\ id \in DOMAIN file \ DOMAIN pool.frames
    /\ pool' = Touch(pool, id)
    /\ task' = [task EXCEPT ![r] = [pc |-> "miss", id |-> id]]
    /\ UNCHANGED <<flush, file, lsn, flushed, returned, latest>>

ReadFile(r) ==
    /\ task[r].pc = "miss"
    /\ task' = [task EXCEPT ![r] = [pc |-> "insert", id |-> @.id, page |-> file[@.id]]]
    /\ UNCHANGED <<flush, pool, file, lsn, flushed, returned, latest>>

\* The page read goes into the pool; the fetch returns what it read.
InsertRead(r) ==
    /\ task[r].pc = "insert"
    /\ LET t == task[r]
           ins == Insert(pool, t.id, t.page)
       IN  /\ pool' = ins.pool
           /\ IF ins.evicted = {} THEN Return(r, t.id, t.page)
              ELSE /\ task' = [task EXCEPT ![r] = [pc |-> "writeback", id |-> t.id, page |-> t.page,
                                                   evicted |-> ins.evicted]]
                   /\ UNCHANGED returned
    /\ UNCHANGED <<flush, file, lsn, flushed, latest>>

\* The read fails: nothing is returned, and the pool stays as it is.
ReadFails(r) ==
    /\ task[r].pc = "miss"
    /\ task' = [task EXCEPT ![r] = Idle]
    /\ UNCHANGED <<flush, pool, file, lsn, flushed, returned, latest>>

\* Mutant: the log is not flushed.
FlushedForNone(evicted) == flushed

\* The log is flushed up to the page's LSN (none: not at all), then the page written.
FlushedFor(evicted) == LET n == (CHOOSE e \in evicted : TRUE).page_lsn
                       IN  IF n > flushed THEN n ELSE flushed
\* Mutant: the page is not written.
WrittenBackNot(evicted) == file
WrittenBack(evicted) ==
    [id \in DOMAIN file |-> IF \E e \in evicted : e.id = id THEN (CHOOSE e \in evicted : TRUE).page
                            ELSE file[id]]

WriteBack(r) ==
    /\ task[r].pc = "writeback"
    /\ flushed' = FlushedFor(task[r].evicted)
    /\ file' = WrittenBack(task[r].evicted)
    /\ Return(r, task[r].id, task[r].page)
    /\ UNCHANGED <<flush, pool, lsn, latest>>

\* A write back that fails: the page has left the pool, and what the file
\* lacks of it is lost.  The log may have been flushed before.
WriteFails(evicted) ==
    /\ flushed' \in {flushed, FlushedFor(evicted)}
    /\ latest' = [id \in Pages |-> IF \E e \in evicted : e.id = id THEN file[id] ELSE latest[id]]
    /\ returned' = {}

WriteBackFails(r) ==
    /\ task[r].pc = "writeback"
    /\ WriteFails(task[r].evicted)
    /\ task' = [task EXCEPT ![r] = Idle]
    /\ UNCHANGED <<flush, pool, file, lsn>>

\* fetch_mut by the call that has the tree: the page, and what its fetch, writing
\* back included, makes of the pool.
Fetched(id) == IF id \in DOMAIN pool.frames THEN pool.frames[id].page ELSE file[id]
FetchMut(id) == Insert(pool, id, Fetched(id))

\* One change of a page: fetch_mut, the guard's drop, and the log record.
Change(id) ==
    /\ MayBegin /\ AllIdle /\ id \in DOMAIN file /\ lsn < MaxLsn
    /\ LET ins == FetchMut(id)
       IN  /\ pool' = Update(ins.pool, id, Fetched(id) \cup {lsn + 1}, lsn + 1)
           /\ flushed' = IF ins.evicted = {} THEN flushed ELSE FlushedFor(ins.evicted)
           /\ file' = WrittenBack(ins.evicted)
    /\ lsn' = lsn + 1
    /\ latest' = [latest EXCEPT ![id] = @ \cup {lsn + 1}]
    /\ returned' = {}
    /\ UNCHANGED <<task, flush>>

\* A change that is not logged, by a call that fails before its log record (as
\* redistribute_from_left can): the page is dirty all the same.
ChangeUnlogged(id) ==
    /\ MayBegin /\ AllIdle /\ id \in DOMAIN file
    /\ LET ins == FetchMut(id)
       IN  /\ pool' = [ins.pool EXCEPT !.dirty = @ \cup {id}]
           /\ flushed' = IF ins.evicted = {} THEN flushed ELSE FlushedFor(ins.evicted)
           /\ file' = WrittenBack(ins.evicted)
    /\ UNCHANGED <<lsn, task, flush, returned, latest>>

\* The fetch of a page to be changed fails, where it reads or where it writes back.
ChangeFails(id) ==
    /\ MayBegin /\ AllIdle /\ id \in DOMAIN file \ DOMAIN pool.frames
    /\ LET ins == FetchMut(id)
       IN  \/ pool' = Touch(pool, id) /\ UNCHANGED <<flushed, returned, latest>>
           \/ ins.evicted # {} /\ pool' = ins.pool /\ WriteFails(ins.evicted)
    /\ UNCHANGED <<file, lsn, task, flush>>

\* allocate: the file grows by a page of zeros, and the new page is dirty.
Allocate(id) ==
    /\ MayBegin /\ AllIdle /\ id \notin DOMAIN file
    /\ LET ins == Insert(pool, id, {})
       IN  /\ pool' = [ins.pool EXCEPT !.dirty = @ \cup {id}]
           /\ flushed' = IF ins.evicted = {} THEN flushed ELSE FlushedFor(ins.evicted)
           /\ file' = Put(WrittenBack(ins.evicted), id, {})
    /\ UNCHANGED <<flush, lsn, task, returned, latest>>

-----------------------------------------------------------------------------
(* flush_all and flush. *)

StartFlush(todo, marks) ==
    /\ flush = Idle
    /\ FlushAlone => AllIdle
    /\ flush' = [pc |-> "next", todo |-> todo, marks |-> marks]
    /\ UNCHANGED <<pool, file, lsn, flushed, task, returned, latest>>

\* The pages dirty now are written; all dirty marks of the pool are cleared after that.
FlushAll == StartFlush(pool.dirty, Pages)

Flush(id) == id \in pool.dirty /\ StartFlush({id}, {id})

\* pool.get, which may find that the page has gone.
FlushGet(id) ==
    /\ flush.pc = "next" /\ id \in flush.todo
    /\ pool' = Touch(pool, id)
    /\ flush' = IF id \in DOMAIN pool.frames
                THEN [pc |-> "write", todo |-> flush.todo, marks |-> flush.marks,
                      id |-> id, page |-> pool.frames[id].page]
                ELSE [flush EXCEPT !.todo = @ \ {id}]
    /\ UNCHANGED <<file, lsn, flushed, task, returned, latest>>

\* The LSN is asked for after the page: none if the page has gone meanwhile.
FlushedForFlush ==
    LET n == IF flush.id \in DOMAIN pool.frames THEN pool.frames[flush.id].page_lsn ELSE 0
    IN  IF n > flushed THEN n ELSE flushed

FlushWrite ==
    /\ flush.pc = "write"
    /\ flushed' = FlushedForFlush
    /\ file' = Put(file, flush.id, flush.page)
    /\ flush' = [pc |-> "next", todo |-> flush.todo \ {flush.id}, marks |-> flush.marks]
    /\ UNCHANGED <<pool, lsn, task, returned, latest>>

\* The log, the write or sync_data fails: what was written stays, and all marks.
FlushFails ==
    /\ \/ flush.pc = "write" /\ flushed' \in {flushed, FlushedForFlush}
       \/ flush.pc = "next" /\ flush.todo = {} /\ UNCHANGED flushed
    /\ flush' = Idle
    /\ UNCHANGED <<pool, file, lsn, task, returned, latest>>

Unmarked(frame) == [page |-> frame.page, page_lsn |-> frame.page_lsn, rec_lsn |-> 0]

\* sync_data, and clear_dirty or clear_dirty_single.
FlushEnd ==
    /\ flush.pc = "next" /\ flush.todo = {}
    /\ pool' = [frames |-> [id \in DOMAIN pool.frames |->
                              IF id \in flush.marks THEN Unmarked(pool.frames[id])
                              ELSE pool.frames[id]],
                dirty |-> pool.dirty \ flush.marks,
                lru |-> pool.lru]
    /\ flush' = Idle
    /\ UNCHANGED <<file, lsn, flushed, task, returned, latest>>

FetchStep(r) == ReadFile(r) \/ ReadFails(r) \/ InsertRead(r) \/ WriteBack(r) \/ WriteBackFails(r)
FlushStep == FlushWrite \/ FlushEnd \/ FlushFails \/ \E id \in Pages : FlushGet(id)

Next ==
    \/ \E r \in Readers :
          \/ \E id \in Pages : Hit(r, id) \/ Miss(r, id)
          \/ FetchStep(r)
    \/ \E id \in Pages :
          Change(id) \/ ChangeUnlogged(id) \/ ChangeFails(id) \/ Allocate(id) \/ Flush(id)
    \/ FlushAll \/ FlushStep

Spec == Init /\ [][Next]_vars
-----------------------------------------------------------------------------
(* Properties. *)

\* A page is written to the file only after the log records of all its changes:
\* the rule of wal_buffer.rs, through every eviction.
WriteAhead == \A id \in DOMAIN file : file[id] \subseteq 1..flushed

\* The dirty page table a checkpoint reads covers all that is not in the file:
\* no change the file lacks is older than its page's rec_lsn, and a page in the
\* pool that is not dirty is in the file as it is.
DirtyTableCovers ==
    \A id \in DOMAIN pool.frames : \A n \in pool.frames[id].page \ file[id] :
        id \in pool.dirty /\ pool.frames[id].rec_lsn <= n

\* A fetch returns the page with every change made to it but those a failed write
\* lost, although calls that change pages only wait for the lookups to end.
ReadsLatest == \A got \in returned : got.page = latest[got.id]

\* The next change of a page will be made to a page with all changes so far but
\* those a failed write lost.
NoChangeLost ==
    AllIdle => \A id \in DOMAIN file :
        latest[id] = IF id \in DOMAIN pool.frames THEN pool.frames[id].page ELSE file[id]

\* A lookup has pushed the page out of the pool and not yet written it.
OnItsWay(id) ==
    \E r \in Readers : task[r].pc = "writeback" /\ \E e \in task[r].evicted : e.id = id

\* No lookup reads a page from the file while another has it on its way there.
ReadsAfterWrites ==
    \A r \in Readers : task[r].pc = "miss" /\ task'[r].pc = "insert" => ~OnItsWay(task[r].id)
=============================================================================
