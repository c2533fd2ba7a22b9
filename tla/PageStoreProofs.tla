-------------------------- MODULE PageStoreProofs --------------------------
(***************************************************************************)
(* The write-ahead rule of the page store, for any number of lookups at     *)
(* once, pages, frames and changes, while nothing else runs beside a flush: *)
(* no page reaches its file before the log records of its changes are       *)
(* durable.                                                                 *)
(*                                                                          *)
(* WriteAhead is not inductive: it says nothing of the pages that will be   *)
(* written next.  IInv adds where they come from: a change in a dirty frame *)
(* or in a page on its way to the file is durable or not past the LSN the   *)
(* log will be flushed to, and a clean frame, like a page a lookup read,    *)
(* has durable changes only.  FlushOK says the same of the frames a flush   *)
(* has written and will mark clean when it ends.                            *)
(*                                                                          *)
(* The second part is about the cache: what the pool and the file hold is   *)
(* current while no lookup reads a page that another is about to write.     *)
(***************************************************************************)
EXTENDS PageStore, FiniteSetTheorems, WellFoundedInduction, TLAPS

-----------------------------------------------------------------------------
(* Induction over the natural numbers, of sets and not of operators. *)

\* The smallest counterexample, which the proofs by induction refute.
LEMMA LeastNatural ==
    ASSUME NEW S \in SUBSET Nat, S # {}
    PROVE  \E m \in S : \A k \in S : m <= k
<1> DEFINE R == {p \in Nat \X Nat : p[1] < p[2]}
<1>1. IsWellFoundedOn(OpToRel(<, Nat), Nat)
      BY NatLessThanWellFounded
<1>2. IsWellFoundedOn(R, Nat)
      BY <1>1 DEF OpToRel
<1> HIDE DEF R
<1>3. PICK m \in S : \A k \in S : <<k, m>> \notin R
      BY <1>2, WFMin
<1>4. ASSUME NEW k \in S
      PROVE  m <= k
  <2>1. <<k, m>> \notin R /\ <<k, m>> \in Nat \X Nat
        BY <1>3
  <2>2. ~(k < m)
        BY <2>1, Zenon DEF R
  <2> QED  BY <2>2
<1> QED  BY <1>4

-----------------------------------------------------------------------------
\* Every change in a page that will be written once the log is durable up to n.
Covered(page, n) == page \subseteq 1..lsn /\ \A c \in page : c <= flushed \/ c <= n

Durable(page) == page \subseteq 1..flushed

FrameOK(frame, is_dirty) ==
    /\ frame.page_lsn \in 0..lsn
    /\ Covered(frame.page, frame.page_lsn)
    /\ ~is_dirty => Durable(frame.page)

PoolOK(pl) ==
    /\ pl = [frames |-> pl.frames, dirty |-> pl.dirty, lru |-> pl.lru]
    /\ pl.dirty \subseteq DOMAIN pl.frames
    /\ \A q \in DOMAIN pl.frames : FrameOK(pl.frames[q], q \in pl.dirty)

EvictedOK(evicted) ==
    \A e, f \in evicted : e = f /\ e.page_lsn \in 0..lsn /\ Covered(e.page, e.page_lsn)

TaskOK(t) ==
    /\ t.pc = "miss" => t.id \in DOMAIN file
    /\ t.pc = "insert" => Durable(t.page)
    /\ t.pc = "writeback" => t.evicted # {} /\ EvictedOK(t.evicted)

StoreOK ==
    /\ lsn \in Nat /\ flushed \in 0..lsn
    /\ PoolOK(pool)
    /\ WriteAhead
    /\ task = [r \in Readers |-> task[r]]
    /\ \A r \in Readers : TaskOK(task[r])

FlushOK ==
    \/ flush = Idle
    \/ /\ AllIdle
       /\ \A q \in DOMAIN pool.frames : q \in flush.marks \ flush.todo => Durable(pool.frames[q].page)
       /\ flush.pc = "write" =>
            /\ flush.id \in DOMAIN pool.frames
            /\ flush.page = pool.frames[flush.id].page

IInv == StoreOK /\ FlushOK
-----------------------------------------------------------------------------
LEMMA TouchOK ==
    ASSUME NEW pl, NEW id, PoolOK(pl)
    PROVE  PoolOK(Touch(pl, id)) /\ Touch(pl, id).frames = pl.frames
<1>1. Touch(pl, id) = [frames |-> pl.frames, dirty |-> pl.dirty,
                       lru |-> Append(Except(pl.lru, id), id)]
  BY DEF PoolOK, Touch
<1> QED
  BY <1>1 DEF PoolOK

\* A fetched page goes into the pool and may push one out (BufferPoolInner::insert).
LEMMA InsertOK ==
    ASSUME lsn \in Nat, flushed \in 0..lsn, PoolOK(pool),
           NEW id, NEW page, Durable(page)
    PROVE  /\ PoolOK(Insert(pool, id, page).pool)
           /\ id \in DOMAIN Insert(pool, id, page).pool.frames
           /\ EvictedOK(Insert(pool, id, page).evicted)
<1> DEFINE v == Victim(pool)
           new == [page |-> page, page_lsn |-> 0, rec_lsn |-> 0]
           full == id \notin DOMAIN pool.frames /\ Cardinality(DOMAIN pool.frames) >= Capacity
           rest == IF full THEN Without(pool, v) ELSE pool
<1>1. EvictedOK(Evicted(pool, v))
  BY DEF PoolOK, FrameOK, EvictedOK, Evicted
<1>2. PoolOK(Without(pool, v))
  BY DEF PoolOK, FrameOK, Without
<1>3. PoolOK(rest) /\ (full => id \notin DOMAIN pool.frames)
  BY <1>2
<1>4. FrameOK(new, FALSE) /\ FrameOK(new, TRUE)
  BY DEF FrameOK, Covered, Durable
<1> DEFINE put == [rest EXCEPT !.frames = Put(@, id, new)]
<1>5. PoolOK(put) /\ id \in DOMAIN put.frames
  <2> HIDE DEF new, rest
  <2>1. put = [frames |-> Put(rest.frames, id, new), dirty |-> rest.dirty, lru |-> rest.lru]
    BY <1>3 DEF PoolOK
  <2>2. DOMAIN Put(rest.frames, id, new) = DOMAIN rest.frames \cup {id}
    BY DEF Put
  <2>3. \A q \in DOMAIN Put(rest.frames, id, new) :
           Put(rest.frames, id, new)[q] = IF q = id THEN new ELSE rest.frames[q]
    BY DEF Put
  <2>4. FrameOK(new, id \in rest.dirty)
    BY <1>4 DEF FrameOK
  <2> QED
    BY <1>3, <2>1, <2>2, <2>3, <2>4 DEF PoolOK
<1>6. CASE id \in DOMAIN pool.frames
  <2>1. Insert(pool, id, page) = [evicted |-> {}, pool |-> Touch(pool, id)]
    BY <1>6 DEF Insert, InsertInto
  <2> QED
    BY <1>6, TouchOK, <2>1 DEF EvictedOK
<1>7. CASE id \notin DOMAIN pool.frames
  <2>1. Insert(pool, id, page)
        = [evicted |-> IF full THEN Evicted(pool, v) ELSE {},
           pool |-> Touch(put, id)]
    BY <1>7 DEF Insert, InsertInto
  <2> HIDE DEF full, v, put
  <2>2. EvictedOK(IF full THEN Evicted(pool, v) ELSE {})
    BY <1>1 DEF EvictedOK
  <2> QED
    BY TouchOK, <1>5, <2>1, <2>2
<1> QED
  BY <1>6, <1>7

\* Writing a page back after flushing the log for it keeps every file page
\* durable (Index::fetch and Index::allocate).
LEMMA WriteBackOK ==
    ASSUME lsn \in Nat, flushed \in 0..lsn, WriteAhead,
           NEW evicted, evicted # {}, EvictedOK(evicted)
    PROVE  /\ FlushedFor(evicted) \in flushed..lsn
           /\ DOMAIN WrittenBack(evicted) = DOMAIN file
           /\ \A id \in DOMAIN file : WrittenBack(evicted)[id] \subseteq 1..FlushedFor(evicted)
<1>1. PICK e \in evicted : e = CHOOSE x \in evicted : TRUE
  OBVIOUS
<1>2. e.page_lsn \in 0..lsn /\ Covered(e.page, e.page_lsn)
  BY DEF EvictedOK
<1>3. FlushedFor(evicted) = IF e.page_lsn > flushed THEN e.page_lsn ELSE flushed
  BY <1>1 DEF FlushedFor
<1>4. e.page \subseteq 1..FlushedFor(evicted)
  BY <1>2, <1>3 DEF Covered
<1>5. ASSUME NEW id \in DOMAIN file PROVE WrittenBack(evicted)[id] \in {e.page, file[id]}
  BY <1>1 DEF WrittenBack
<1>6. ASSUME NEW id \in DOMAIN file PROVE file[id] \subseteq 1..FlushedFor(evicted)
  BY <1>2, <1>3 DEF WriteAhead
<1> QED
  BY <1>2, <1>3, <1>4, <1>5, <1>6 DEF WrittenBack

FileKept(evicted) ==
    /\ DOMAIN WrittenBack(evicted) = DOMAIN file
    /\ \A id \in DOMAIN file : WrittenBack(evicted)[id] \subseteq 1..flushed'

\* The same where nothing may have been pushed out.
LEMMA FilesOK ==
    ASSUME lsn \in Nat, flushed \in 0..lsn, WriteAhead,
           NEW evicted, EvictedOK(evicted),
           flushed' = IF evicted = {} THEN flushed ELSE FlushedFor(evicted)
    PROVE  flushed' \in flushed..lsn /\ FileKept(evicted)
<1>1. CASE evicted = {}
  <2>1. WrittenBack(evicted) = [id \in DOMAIN file |-> file[id]]
    BY <1>1 DEF WrittenBack
  <2> QED
    BY <1>1, <2>1 DEF FileKept, WriteAhead
<1>2. CASE evicted # {}
  BY <1>2, WriteBackOK DEF FileKept
<1> QED
  BY <1>1, <1>2
-----------------------------------------------------------------------------
LEMMA InitOK == Init => StoreOK
<1> SUFFICES ASSUME Init PROVE StoreOK
  OBVIOUS
<1>1. PoolOK(pool)
  BY DEF Init, PoolOK
<1>2. WriteAhead
  BY DEF Init, WriteAhead
<1>3. \A r \in Readers : TaskOK(task[r])
  BY DEF Init, TaskOK, Idle
<1> QED
  BY <1>1, <1>2, <1>3 DEF Init, StoreOK

\* A fetch that ends, or goes on, touches one reader's task only.
LEMMA TaskStep ==
    ASSUME StoreOK, NEW r \in Readers, NEW t, task' = [task EXCEPT ![r] = t],
           lsn' = lsn, flushed' \in flushed..lsn, DOMAIN file' = DOMAIN file,
           t.pc = "miss" => t.id \in DOMAIN file,
           t.pc = "insert" => Durable(t.page),
           t.pc = "writeback" => t.evicted # {} /\ EvictedOK(t.evicted)
    PROVE  /\ task' = [s \in Readers |-> task'[s]]
           /\ \A s \in Readers : TaskOK(task[s])'
<1>1. task' = [s \in Readers |-> IF s = r THEN t ELSE task[s]]
  BY DEF StoreOK
<1>2. ASSUME NEW u, TaskOK(u) PROVE
        /\ u.pc = "miss" => u.id \in DOMAIN file'
        /\ u.pc = "insert" => u.page \subseteq 1..flushed'
        /\ u.pc = "writeback" => u.evicted # {} /\ \A e, f \in u.evicted :
              e = f /\ e.page_lsn \in 0..lsn' /\ e.page \subseteq 1..lsn'
              /\ \A c \in e.page : c <= flushed' \/ c <= e.page_lsn
  BY <1>2 DEF TaskOK, EvictedOK, Covered, Durable, StoreOK
<1>3. TaskOK(t)
  BY DEF TaskOK
<1>4. ASSUME NEW s \in Readers PROVE TaskOK(task[s])'
  <2>1. TaskOK(IF s = r THEN t ELSE task[s])
    BY <1>3 DEF StoreOK
  <2>2. task'[s] = IF s = r THEN t ELSE task[s]
    BY <1>1
  <2> QED
    BY <1>2, <2>1, <2>2 DEF TaskOK, EvictedOK, Covered, Durable
<1> QED
  BY <1>1, <1>4

\* A pool that is sound stays so when the log and its durable part grow.
LEMMA PoolStep ==
    ASSUME lsn \in Nat, flushed \in 0..lsn, PoolOK(pool'),
           lsn' = lsn, flushed' \in flushed..lsn
    PROVE  PoolOK(pool)'
<1>1. \A q \in DOMAIN pool'.frames :
        FrameOK(pool'.frames[q], q \in pool'.dirty) => FrameOK(pool.frames[q], q \in pool.dirty)'
  BY DEF FrameOK, Covered, Durable
<1> QED
  BY <1>1 DEF PoolOK
-----------------------------------------------------------------------------
LEMMA HitOK == ASSUME StoreOK, NEW r \in Readers, NEW id, Hit(r, id) PROVE StoreOK'
<1>1. PoolOK(pool') /\ lsn' = lsn /\ flushed' = flushed /\ file' = file
  BY TouchOK DEF StoreOK, Hit
<1>2. PoolOK(pool)'
  BY <1>1, PoolStep DEF StoreOK
<1>3. task' = [s \in Readers |-> task'[s]] /\ \A s \in Readers : TaskOK(task[s])'
  BY <1>1, TaskStep DEF StoreOK, Hit, Return, Idle
<1> QED
  BY <1>1, <1>2, <1>3 DEF StoreOK, WriteAhead

LEMMA MissOK == ASSUME StoreOK, NEW r \in Readers, NEW id, Miss(r, id) PROVE StoreOK'
<1>1. PoolOK(pool') /\ lsn' = lsn /\ flushed' = flushed /\ file' = file
  BY TouchOK DEF StoreOK, Miss
<1>2. PoolOK(pool)'
  BY <1>1, PoolStep DEF StoreOK
<1>3. task' = [s \in Readers |-> task'[s]] /\ \A s \in Readers : TaskOK(task[s])'
  BY <1>1, TaskStep DEF StoreOK, Miss
<1> QED
  BY <1>1, <1>2, <1>3 DEF StoreOK, WriteAhead

LEMMA ReadFileOK == ASSUME StoreOK, NEW r \in Readers, ReadFile(r) PROVE StoreOK'
<1>1. UNCHANGED <<pool, lsn, flushed, file>>
  BY DEF ReadFile
<1>2. PoolOK(pool)'
  BY <1>1, PoolStep DEF StoreOK
<1>3. task[r].id \in DOMAIN file /\ Durable(file[task[r].id])
  BY DEF StoreOK, ReadFile, TaskOK, WriteAhead, Durable
<1>4. task' = [s \in Readers |-> task'[s]] /\ \A s \in Readers : TaskOK(task[s])'
  <2> DEFINE t == [pc |-> "insert", id |-> task[r].id, page |-> file[task[r].id]]
  <2>1. task' = [task EXCEPT ![r] = t]
    BY DEF ReadFile, StoreOK
  <2> QED
    BY <1>1, <1>3, <2>1, TaskStep DEF StoreOK
<1> QED
  BY <1>1, <1>2, <1>4 DEF StoreOK, WriteAhead

LEMMA ReadFailsOK == ASSUME StoreOK, NEW r \in Readers, ReadFails(r) PROVE StoreOK'
<1>1. UNCHANGED <<pool, lsn, flushed, file>> /\ task' = [task EXCEPT ![r] = Idle]
  BY DEF ReadFails
<1>2. PoolOK(pool)'
  BY <1>1, PoolStep DEF StoreOK
<1>3. task' = [s \in Readers |-> task'[s]] /\ \A s \in Readers : TaskOK(task[s])'
  BY <1>1, TaskStep DEF StoreOK, Idle
<1> QED
  BY <1>1, <1>2, <1>3 DEF StoreOK, WriteAhead

LEMMA InsertReadOK == ASSUME StoreOK, NEW r \in Readers, InsertRead(r) PROVE StoreOK'
<1> DEFINE t == task[r]
           ins == Insert(pool, t.id, t.page)
<1>1. UNCHANGED <<lsn, flushed, file>>
  BY DEF InsertRead
<1>2. Durable(t.page)
  BY DEF StoreOK, InsertRead, TaskOK
<1>3. PoolOK(ins.pool) /\ EvictedOK(ins.evicted)
  BY <1>2, InsertOK DEF StoreOK
<1>4. PoolOK(pool)'
  BY <1>1, <1>3, PoolStep DEF StoreOK, InsertRead
<1>5. task' = [s \in Readers |-> task'[s]] /\ \A s \in Readers : TaskOK(task[s])'
  <2>1. CASE ins.evicted = {}
    BY <1>1, <2>1, TaskStep DEF StoreOK, InsertRead, Return, Idle
  <2>2. CASE ins.evicted # {}
    <3> DEFINE u == [pc |-> "writeback", id |-> t.id, page |-> t.page, evicted |-> ins.evicted]
    <3>1. task' = [task EXCEPT ![r] = u]
      BY <2>2 DEF InsertRead
    <3> HIDE DEF ins, t
    <3> QED
      BY <1>1, <1>3, <2>2, <3>1, TaskStep DEF StoreOK
  <2> QED
    BY <2>1, <2>2
<1> QED
  BY <1>1, <1>4, <1>5 DEF StoreOK, WriteAhead

LEMMA WriteBackStepOK == ASSUME StoreOK, NEW r \in Readers, WriteBack(r) PROVE StoreOK'
<1> DEFINE evicted == task[r].evicted
<1>1. evicted # {} /\ EvictedOK(evicted)
  BY DEF StoreOK, WriteBack, TaskOK
<1>2. /\ UNCHANGED <<pool, lsn>> /\ flushed' = FlushedFor(evicted)
      /\ file' = WrittenBack(evicted)
  BY DEF WriteBack
<1>3. /\ flushed' \in flushed..lsn /\ DOMAIN file' = DOMAIN file
      /\ \A id \in DOMAIN file : file'[id] \subseteq 1..flushed'
  <2> HIDE DEF evicted
  <2> QED
    BY <1>1, <1>2, WriteBackOK DEF StoreOK
<1>4. PoolOK(pool)'
  BY <1>2, <1>3, PoolStep DEF StoreOK
<1>5. task' = [s \in Readers |-> task'[s]] /\ \A s \in Readers : TaskOK(task[s])'
  BY <1>2, <1>3, TaskStep DEF StoreOK, WriteBack, Return, Idle
<1> QED
  BY <1>2, <1>3, <1>4, <1>5 DEF StoreOK, WriteAhead

\* A failed write changes the durable part of the log at most.
LEMMA WriteFailsOK ==
    ASSUME lsn \in Nat, flushed \in 0..lsn, WriteAhead, NEW evicted, evicted # {}, EvictedOK(evicted),
           WriteFails(evicted)
    PROVE  flushed' \in flushed..lsn
  BY WriteBackOK DEF WriteFails

LEMMA WriteBackFailsOK == ASSUME StoreOK, NEW r \in Readers, WriteBackFails(r) PROVE StoreOK'
<1>1. /\ UNCHANGED <<pool, file, lsn>> /\ task' = [task EXCEPT ![r] = Idle]
      /\ flushed' \in flushed..lsn
  BY WriteFailsOK DEF WriteBackFails, StoreOK, TaskOK
<1>2. PoolOK(pool)'
  BY <1>1, PoolStep DEF StoreOK
<1>3. task' = [s \in Readers |-> task'[s]] /\ \A s \in Readers : TaskOK(task[s])'
  BY <1>1, TaskStep DEF StoreOK, Idle
<1> QED
  BY <1>1, <1>2, <1>3 DEF StoreOK, WriteAhead

\* What fetch_mut finds, and leaves.
LEMMA FetchMutOK ==
    ASSUME StoreOK, NEW id \in DOMAIN file
    PROVE  /\ Fetched(id) \subseteq 1..lsn
           /\ PoolOK(FetchMut(id).pool) /\ id \in DOMAIN FetchMut(id).pool.frames
           /\ EvictedOK(FetchMut(id).evicted)
<1>1. Fetched(id) \subseteq 1..lsn
  BY DEF Fetched, StoreOK, PoolOK, FrameOK, Covered, WriteAhead
<1>2. CASE id \in DOMAIN pool.frames
  <2>1. FetchMut(id) = [evicted |-> {}, pool |-> Touch(pool, id)]
    BY <1>2 DEF FetchMut, Insert, InsertInto
  <2> QED
    BY <1>1, <1>2, <2>1, TouchOK DEF StoreOK, EvictedOK
<1>3. CASE id \notin DOMAIN pool.frames
  <2>1. Durable(Fetched(id))
    BY <1>3 DEF Fetched, StoreOK, WriteAhead, Durable
  <2> QED
    BY <1>1, <2>1, InsertOK DEF StoreOK, FetchMut
<1> QED
  BY <1>2, <1>3

\* The call that has the tree changes a page: the frame it leaves is dirty and
\* carries the LSN of the change's record.
LEMMA ChangeOK == ASSUME StoreOK, NEW id, Change(id) PROVE StoreOK'
<1> DEFINE page == Fetched(id)
           ins == FetchMut(id)
<1>1. /\ lsn' = lsn + 1 /\ task' = task /\ id \in DOMAIN file
      /\ pool' = Update(ins.pool, id, page \cup {lsn + 1}, lsn + 1)
      /\ flushed' = IF ins.evicted = {} THEN flushed ELSE FlushedFor(ins.evicted)
      /\ file' = WrittenBack(ins.evicted)
  BY DEF Change
<1>2. page \subseteq 1..lsn
  BY <1>1, FetchMutOK
<1>3. PoolOK(ins.pool) /\ id \in DOMAIN ins.pool.frames /\ EvictedOK(ins.evicted)
  BY <1>1, FetchMutOK
<1>4. flushed' \in flushed..lsn /\ FileKept(ins.evicted)
  BY <1>1, <1>3, FilesOK DEF StoreOK
<1>5. PoolOK(pool)'
  <2> HIDE DEF page, ins
  <2>1. PICK pl : pl = ins.pool
    OBVIOUS
  <2>2. PICK new : new = [page |-> page \cup {lsn + 1}, page_lsn |-> lsn + 1,
                          rec_lsn |-> RecLsn(pl.frames[id].rec_lsn, lsn + 1)]
    OBVIOUS
  <2>3. FrameOK(new, TRUE)'
    BY <1>1, <1>2, <2>2 DEF StoreOK, FrameOK, Covered
  <2>4. ASSUME NEW q \in DOMAIN pl.frames PROVE FrameOK(pl.frames[q], q \in pl.dirty)'
    <3>1. FrameOK(pl.frames[q], q \in pl.dirty)
      BY <1>3, <2>1 DEF PoolOK
    <3> QED
      BY <1>1, <1>4, <3>1 DEF StoreOK, FrameOK, Covered, Durable
  <2>5. /\ DOMAIN Put(pl.frames, id, new) = DOMAIN pl.frames \cup {id}
        /\ \A q \in DOMAIN Put(pl.frames, id, new) :
              Put(pl.frames, id, new)[q] = IF q = id THEN new ELSE pl.frames[q]
    BY DEF Put
  <2>6. pool' = [frames |-> Put(pl.frames, id, new), dirty |-> pl.dirty \cup {id},
                 lru |-> pool'.lru]
    <3>1. pl = [frames |-> pl.frames, dirty |-> pl.dirty, lru |-> pl.lru]
      BY <1>3, <2>1 DEF PoolOK
    <3>2. pool' = Touch([pl EXCEPT !.dirty = @ \cup {id}, !.frames = Put(@, id, new)], id)
      BY <1>1, <2>1, <2>2 DEF Update
    <3> QED
      BY <3>1, <3>2 DEF Touch
  <2>7. PoolOK([frames |-> Put(pl.frames, id, new), dirty |-> pl.dirty \cup {id}, lru |-> pool.lru])'
    <3>1. pl.dirty \cup {id} \subseteq DOMAIN pl.frames \cup {id}
      BY <1>3, <2>1 DEF PoolOK
    <3>2. ASSUME NEW q \in DOMAIN pl.frames, q # id
          PROVE  FrameOK(pl.frames[q], q \in pl.dirty \cup {id})'
      BY <2>4, <3>2
    <3>3. FrameOK(new, id \in pl.dirty \cup {id})'
      BY <2>3
    <3>4. ASSUME NEW q \in DOMAIN pl.frames \cup {id}
          PROVE FrameOK(IF q = id THEN new ELSE pl.frames[q], q \in pl.dirty \cup {id})'
      BY <3>2, <3>3
    <3> QED
      BY <2>5, <3>1, <3>4 DEF PoolOK
  <2> QED
    BY <2>6, <2>7 DEF PoolOK
<1>6. WriteAhead'
  BY <1>1, <1>4 DEF WriteAhead, FileKept
<1>7. task' = [s \in Readers |-> task'[s]] /\ \A s \in Readers : TaskOK(task[s])'
  BY <1>1 DEF StoreOK, Change, AllIdle, TaskOK, Idle
<1> QED
  BY <1>1, <1>4, <1>5, <1>6, <1>7 DEF StoreOK

\* A change that is not logged leaves a dirty page with what it had.
LEMMA ChangeUnloggedOK == ASSUME StoreOK, NEW id, ChangeUnlogged(id) PROVE StoreOK'
<1> DEFINE ins == FetchMut(id)
           pl == ins.pool
<1>1. /\ lsn' = lsn /\ task' = task /\ id \in DOMAIN file
      /\ pool' = [pl EXCEPT !.dirty = @ \cup {id}]
      /\ flushed' = IF ins.evicted = {} THEN flushed ELSE FlushedFor(ins.evicted)
      /\ file' = WrittenBack(ins.evicted)
  BY DEF ChangeUnlogged
<1>2. PoolOK(pl) /\ id \in DOMAIN pl.frames /\ EvictedOK(ins.evicted)
  BY <1>1, FetchMutOK
<1>3. flushed' \in flushed..lsn /\ FileKept(ins.evicted)
  BY <1>1, <1>2, FilesOK DEF StoreOK
<1> HIDE DEF ins
<1>4. PoolOK(pool')
  <2>1. pool' = [frames |-> pl.frames, dirty |-> pl.dirty \cup {id}, lru |-> pl.lru]
    BY <1>1, <1>2 DEF PoolOK
  <2> HIDE DEF pl
  <2> QED
    BY <1>2, <2>1 DEF PoolOK, FrameOK
<1>5. PoolOK(pool)'
  BY <1>1, <1>3, <1>4, PoolStep DEF StoreOK
<1>6. WriteAhead'
  BY <1>1, <1>3 DEF WriteAhead, FileKept
<1>7. task' = [s \in Readers |-> task'[s]] /\ \A s \in Readers : TaskOK(task[s])'
  BY <1>1 DEF StoreOK, ChangeUnlogged, AllIdle, TaskOK, Idle
<1> QED
  BY <1>1, <1>3, <1>5, <1>6, <1>7 DEF StoreOK

LEMMA ChangeFailsOK == ASSUME StoreOK, NEW id, ChangeFails(id) PROVE StoreOK'
<1> DEFINE ins == FetchMut(id)
<1>1. /\ UNCHANGED <<file, lsn, task>> /\ id \in DOMAIN file
      /\ \/ pool' = Touch(pool, id) /\ flushed' = flushed
         \/ ins.evicted # {} /\ pool' = ins.pool /\ WriteFails(ins.evicted)
  BY DEF ChangeFails
<1>2. PoolOK(ins.pool) /\ EvictedOK(ins.evicted)
  BY <1>1, FetchMutOK
<1> HIDE DEF ins
<1>3. PoolOK(pool') /\ flushed' \in flushed..lsn
  BY <1>1, <1>2, TouchOK, WriteFailsOK DEF StoreOK
<1>4. PoolOK(pool)'
  BY <1>1, <1>3, PoolStep DEF StoreOK
<1>5. task' = [s \in Readers |-> task'[s]] /\ \A s \in Readers : TaskOK(task[s])'
  BY <1>1 DEF StoreOK, ChangeFails, AllIdle, TaskOK, Idle
<1> QED
  BY <1>1, <1>3, <1>4, <1>5 DEF StoreOK, WriteAhead

\* A page is allocated: empty, dirty, and past the end of the file until now.
LEMMA AllocateOK == ASSUME StoreOK, NEW id, Allocate(id) PROVE StoreOK'
<1> DEFINE ins == Insert(pool, id, {})
           pl == ins.pool
<1>1. /\ lsn' = lsn /\ task' = task
      /\ pool' = [pl EXCEPT !.dirty = @ \cup {id}]
      /\ flushed' = IF ins.evicted = {} THEN flushed ELSE FlushedFor(ins.evicted)
      /\ file' = Put(WrittenBack(ins.evicted), id, {})
  BY DEF Allocate
<1>2. PoolOK(pl) /\ id \in DOMAIN pl.frames /\ EvictedOK(ins.evicted)
  BY InsertOK DEF StoreOK, Durable
<1>3. flushed' \in flushed..lsn /\ FileKept(ins.evicted)
  BY <1>1, <1>2, FilesOK DEF StoreOK
<1> HIDE DEF ins
<1>4. PoolOK(pool')
  <2>1. pool' = [frames |-> pl.frames, dirty |-> pl.dirty \cup {id}, lru |-> pl.lru]
    BY <1>1, <1>2 DEF PoolOK
  <2> HIDE DEF pl
  <2> QED
    BY <1>2, <2>1 DEF PoolOK, FrameOK
<1>5. PoolOK(pool)'
  BY <1>1, <1>3, <1>4, PoolStep DEF StoreOK
<1>6. WriteAhead'
  BY <1>1, <1>3 DEF WriteAhead, FileKept, Put
<1>7. task' = [s \in Readers |-> task'[s]] /\ \A s \in Readers : TaskOK(task[s])'
  BY <1>1 DEF StoreOK, Allocate, AllIdle, TaskOK, Idle
<1> QED
  BY <1>1, <1>3, <1>5, <1>6, <1>7 DEF StoreOK

LEMMA StutterOK == ASSUME StoreOK, UNCHANGED vars PROVE StoreOK'
<1>1. UNCHANGED <<pool, file, lsn, flushed, task>>
  BY DEF vars
<1>2. PoolOK(pool)'
  BY <1>1, PoolStep DEF StoreOK
<1>3. \A r \in Readers : TaskOK(task[r])'
  BY <1>1 DEF StoreOK, TaskOK, EvictedOK, Covered, Durable
<1> QED
  BY <1>1, <1>2, <1>3 DEF StoreOK, WriteAhead
-----------------------------------------------------------------------------
(* Flushing. *)

\* Nothing but a flush's own steps runs while one is in progress.
LEMMA OthersKeepFlush ==
    ASSUME FlushAlone, IInv,
           \/ \E r \in Readers, id \in Pages : Hit(r, id) \/ Miss(r, id)
           \/ \E r \in Readers : FetchStep(r)
           \/ \E id \in Pages : Change(id) \/ ChangeUnlogged(id) \/ ChangeFails(id) \/ Allocate(id)
    PROVE  FlushOK'
<1>1. flush' = flush
  BY DEF Hit, Miss, FetchStep, ReadFile, ReadFails, InsertRead, WriteBack, WriteBackFails,
         Change, ChangeUnlogged, ChangeFails, Allocate
<1>2. flush = Idle
  <2>1. ASSUME NEW r \in Readers, FetchStep(r) PROVE flush = Idle
    <3>1. task[r] # Idle
      BY <2>1 DEF FetchStep, ReadFile, ReadFails, InsertRead, WriteBack, WriteBackFails, Idle
    <3> QED
      BY <3>1 DEF IInv, FlushOK, AllIdle
  <2> QED
    BY <2>1 DEF Hit, Miss, Change, ChangeUnlogged, ChangeFails, Allocate, MayBegin
<1> QED
  BY <1>1, <1>2 DEF FlushOK

LEMMA StartFlushOK ==
    ASSUME FlushAlone, IInv, NEW todo, NEW marks, StartFlush(todo, marks),
           \A q \in DOMAIN pool.frames : q \in marks \ todo => q \notin pool.dirty
    PROVE  IInv'
<1>1. /\ UNCHANGED <<pool, file, lsn, flushed, task>> /\ AllIdle
      /\ flush' = [pc |-> "next", todo |-> todo, marks |-> marks]
  BY DEF StartFlush
<1>2. StoreOK'
  BY <1>1, PoolStep DEF IInv, StoreOK, WriteAhead, TaskOK, EvictedOK, Covered, Durable
<1>3. \A q \in DOMAIN pool.frames : q \in marks \ todo => Durable(pool.frames[q].page)
  BY DEF IInv, StoreOK, PoolOK, FrameOK
<1>4. FlushOK'
  BY <1>1, <1>3 DEF FlushOK, AllIdle, Durable
<1> QED
  BY <1>2, <1>4 DEF IInv

LEMMA FlushGetOK ==
    ASSUME IInv, NEW id \in Pages, FlushGet(id)
    PROVE  IInv'
<1>1. UNCHANGED <<file, lsn, flushed, task>> /\ pool' = Touch(pool, id) /\ flush.pc = "next"
  BY DEF FlushGet
<1>2. PoolOK(pool') /\ pool'.frames = pool.frames
  BY <1>1, TouchOK DEF IInv, StoreOK
<1>3. StoreOK'
  BY <1>1, <1>2, PoolStep DEF IInv, StoreOK, WriteAhead, TaskOK, EvictedOK, Covered, Durable
<1>4. /\ AllIdle
      /\ \A q \in DOMAIN pool.frames : q \in flush.marks \ flush.todo => Durable(pool.frames[q].page)
  BY <1>1 DEF IInv, FlushOK, Idle
<1>5. CASE id \in DOMAIN pool.frames
  <2>1. flush' = [pc |-> "write", todo |-> flush.todo, marks |-> flush.marks,
                  id |-> id, page |-> pool.frames[id].page]
    BY <1>5 DEF FlushGet
  <2> QED
    BY <1>1, <1>2, <1>3, <1>4, <1>5, <2>1 DEF IInv, FlushOK, AllIdle, Durable
<1>6. CASE id \notin DOMAIN pool.frames
  <2>1. flush' = [flush EXCEPT !.todo = @ \ {id}]
    BY <1>6 DEF FlushGet
  <2>2. flush'.pc = flush.pc /\ flush'.marks = flush.marks /\ flush'.todo = flush.todo \ {id}
    BY <2>1
  <2> QED
    BY <1>1, <1>2, <1>3, <1>4, <1>6, <2>2 DEF IInv, FlushOK, AllIdle, Durable
<1> QED
  BY <1>5, <1>6

LEMMA FlushWriteOK ==
    ASSUME IInv, FlushWrite
    PROVE  IInv'
<1> DEFINE n == pool.frames[flush.id].page_lsn
<1>1. /\ flush.id \in DOMAIN pool.frames /\ flush.page = pool.frames[flush.id].page
      /\ AllIdle
      /\ \A q \in DOMAIN pool.frames : q \in flush.marks \ flush.todo => Durable(pool.frames[q].page)
  BY DEF IInv, FlushOK, FlushWrite, Idle
<1>2. /\ UNCHANGED <<pool, lsn, task>>
      /\ flushed' = IF n > flushed THEN n ELSE flushed
      /\ file' = Put(file, flush.id, flush.page)
      /\ flush' = [pc |-> "next", todo |-> flush.todo \ {flush.id}, marks |-> flush.marks]
  BY <1>1 DEF FlushWrite, FlushedForFlush
<1>3. n \in 0..lsn /\ Covered(flush.page, n)
  BY <1>1 DEF IInv, StoreOK, PoolOK, FrameOK
<1>4. flushed' \in flushed..lsn /\ lsn \in Nat /\ flushed \in Nat
  BY <1>2, <1>3 DEF IInv, StoreOK
<1>5. flush.page \subseteq 1..flushed'
  BY <1>2, <1>3, <1>4 DEF Covered
<1>6. \A page : Durable(page) => page \subseteq 1..flushed'
  BY <1>4 DEF Durable
<1>7. WriteAhead'
  <2>1. /\ DOMAIN file' = DOMAIN file \cup {flush.id}
        /\ file' = [q \in DOMAIN file \cup {flush.id} |->
                       IF q = flush.id THEN flush.page ELSE file[q]]
    BY <1>2 DEF Put
  <2>2. ASSUME NEW id \in DOMAIN file' PROVE file'[id] \subseteq 1..flushed'
    <3>1. CASE id = flush.id
      BY <1>5, <2>1, <3>1
    <3>2. CASE id # flush.id
      <4>1. id \in DOMAIN file /\ file'[id] = file[id]
        BY <2>1, <3>2
      <4> QED
        BY <1>6, <4>1 DEF IInv, StoreOK, WriteAhead, Durable
    <3> QED
      BY <3>1, <3>2
  <2> QED
    BY <2>2 DEF WriteAhead
<1>8. PoolOK(pool)'
  BY <1>2, <1>4, PoolStep DEF IInv, StoreOK
<1>9. \A r \in Readers : TaskOK(task[r])'
  BY <1>1, <1>2 DEF TaskOK, AllIdle, Idle
<1>10. StoreOK'
  BY <1>2, <1>4, <1>7, <1>8, <1>9 DEF IInv, StoreOK
<1>11. FlushOK'
  <2>1. \A q \in DOMAIN pool.frames :
           q \in flush.marks \ (flush.todo \ {flush.id}) => pool.frames[q].page \subseteq 1..flushed'
    BY <1>1, <1>5, <1>6
  <2> QED
    BY <1>1, <1>2, <2>1 DEF FlushOK, AllIdle, Durable
<1> QED
  BY <1>10, <1>11 DEF IInv

LEMMA FlushFailsOK ==
    ASSUME IInv, FlushFails
    PROVE  IInv'
<1>1. UNCHANGED <<pool, file, lsn, task>> /\ flush' = Idle /\ AllIdle
  BY DEF FlushFails, IInv, FlushOK, Idle
<1>2. flushed' \in flushed..lsn
  <2>1. flush.pc = "write" => FlushedForFlush \in flushed..lsn
    BY DEF IInv, FlushOK, Idle, FlushedForFlush, StoreOK, PoolOK, FrameOK
  <2> QED
    BY <2>1 DEF FlushFails, IInv, StoreOK
<1>3. PoolOK(pool)'
  BY <1>1, <1>2, PoolStep DEF IInv, StoreOK
<1>4. \A r \in Readers : TaskOK(task[r])'
  BY <1>1 DEF TaskOK, AllIdle, Idle
<1>5. StoreOK'
  BY <1>1, <1>2, <1>3, <1>4 DEF IInv, StoreOK, WriteAhead
<1> QED
  BY <1>1, <1>5 DEF IInv, FlushOK

LEMMA FlushEndOK ==
    ASSUME IInv, FlushEnd
    PROVE  IInv'
<1>1. /\ \A q \in DOMAIN pool.frames : q \in flush.marks => Durable(pool.frames[q].page)
      /\ UNCHANGED <<file, lsn, flushed, task>> /\ flush' = Idle
      /\ pool' = [frames |-> pool'.frames, dirty |-> pool'.dirty, lru |-> pool'.lru]
      /\ pool'.dirty = pool.dirty \ flush.marks
      /\ DOMAIN pool'.frames = DOMAIN pool.frames
      /\ \A q \in DOMAIN pool.frames :
            \/ q \in flush.marks /\ pool'.frames[q] = Unmarked(pool.frames[q])
            \/ q \notin flush.marks /\ pool'.frames[q] = pool.frames[q]
  BY DEF IInv, FlushOK, FlushEnd, Idle
<1>2. ASSUME NEW q \in DOMAIN pool.frames
      PROVE  FrameOK(pool'.frames[q], q \in pool'.dirty)
  <2>1. /\ pool'.frames[q].page = pool.frames[q].page
        /\ pool'.frames[q].page_lsn = pool.frames[q].page_lsn
    <3>1. CASE q \in flush.marks
      <4>1. pool'.frames[q] = [page |-> pool.frames[q].page, page_lsn |-> pool.frames[q].page_lsn,
                               rec_lsn |-> 0]
        BY <1>1, <3>1 DEF Unmarked
      <4> QED
        BY <4>1
    <3>2. CASE q \notin flush.marks
      <4>1. pool'.frames[q] = pool.frames[q]
        BY <1>1, <3>2
      <4> QED
        BY <4>1
    <3> QED
      BY <3>1, <3>2
  <2>2. FrameOK(pool.frames[q], q \in pool.dirty)
    BY DEF IInv, StoreOK, PoolOK
  <2>3. ~(q \in pool'.dirty) => Durable(pool.frames[q].page)
    BY <1>1, <2>2 DEF FrameOK
  <2> QED
    BY <2>1, <2>2, <2>3 DEF FrameOK
<1>3. PoolOK(pool')
  <2>1. pool'.dirty \subseteq DOMAIN pool'.frames
    BY <1>1 DEF IInv, StoreOK, PoolOK
  <2> QED
    BY <1>1, <1>2, <2>1 DEF PoolOK
<1>4. StoreOK'
  BY <1>1, <1>3, PoolStep DEF IInv, StoreOK, WriteAhead, TaskOK, EvictedOK, Covered, Durable
<1> QED
  BY <1>1, <1>4 DEF IInv, FlushOK
-----------------------------------------------------------------------------
\* Every step of lookups, of the call that has the tree, and of a flush keeps IInv.
LEMMA Inductive == ASSUME FlushAlone PROVE IInv /\ [Next]_vars => IInv'
<1> SUFFICES ASSUME IInv, [Next]_vars PROVE IInv'
  OBVIOUS
<1>1. ASSUME NEW r \in Readers, NEW id \in Pages, Hit(r, id) \/ Miss(r, id) PROVE IInv'
  BY <1>1, HitOK, MissOK, OthersKeepFlush DEF IInv
<1>2. ASSUME NEW r \in Readers, FetchStep(r) PROVE IInv'
  BY <1>2, ReadFileOK, ReadFailsOK, InsertReadOK, WriteBackStepOK, WriteBackFailsOK, OthersKeepFlush
     DEF IInv, FetchStep
<1>3. ASSUME NEW id \in Pages, Change(id) \/ ChangeUnlogged(id) \/ ChangeFails(id) \/ Allocate(id)
      PROVE  IInv'
  BY <1>3, ChangeOK, ChangeUnloggedOK, ChangeFailsOK, AllocateOK, OthersKeepFlush DEF IInv
<1>4. CASE UNCHANGED vars
  BY <1>4, StutterOK DEF IInv, FlushOK, vars, AllIdle, Durable
<1>5. ASSUME NEW id \in Pages, Flush(id) PROVE IInv'
  BY <1>5, StartFlushOK DEF Flush
<1>6. CASE FlushAll
  BY <1>6, StartFlushOK DEF FlushAll
<1>7. CASE FlushStep
  BY <1>7, FlushGetOK, FlushWriteOK, FlushFailsOK, FlushEndOK DEF FlushStep
<1> QED
  BY <1>1, <1>2, <1>3, <1>4, <1>5, <1>6, <1>7 DEF Next

\* The write-ahead rule of wal_buffer.rs holds through every eviction, of a
\* lookup, of a change and of an allocation, however they interleave, and
\* through every flush that nothing else runs beside.
THEOREM WriteAheadRule == ASSUME FlushAlone PROVE Spec => []WriteAhead
<1>1. IInv => WriteAhead
  BY DEF IInv, StoreOK
<1>2. Init => IInv
  BY InitOK DEF IInv, FlushOK, Init
<1> QED
  BY <1>2, Inductive, <1>1, PTL DEF Spec
-----------------------------------------------------------------------------
(* What the pool and the file hold is current, for any number of lookups at *)
(* once, while none reads from the file a page another has on its way       *)
(* there: no change is lost between them but by a write that fails, a       *)
(* lookup returns its page with all changes, and the dirty page table       *)
(* covers all that the file lacks.  Nothing in the code keeps lookups from  *)
(* such a read, and one breaks this (the run MCPageStoreLost); so does a    *)
(* lookup beside a flush (MCPageStoreFlush, MCPageStoreFlushMarks).         *)
(*                                                                          *)
(* None of the three is inductive.  CacheInv says where the one current     *)
(* copy of each page is: in the pool, or on its way to the file in the      *)
(* hands of the one lookup that pushed it out, or in the file; that a page  *)
(* read for a lookup is the file's, clean and on nobody's way; and that the *)
(* frames a flush will mark clean are in the file.                          *)

FrameCurrent(id) ==
    /\ id \in DOMAIN file
    /\ pool.frames[id].page = latest[id]
    /\ id \notin pool.dirty => pool.frames[id].page = file[id]
    /\ pool.frames[id].rec_lsn \in 0..lsn
    /\ \A n \in pool.frames[id].page \ file[id] :
          0 < pool.frames[id].rec_lsn /\ pool.frames[id].rec_lsn <= n

PoolCurrent == \A id \in DOMAIN pool.frames : FrameCurrent(id)

FileCurrent ==
    /\ DOMAIN file \subseteq Pages
    /\ latest = [id \in Pages |-> latest[id]]
    /\ \A id \in Pages \ DOMAIN file : latest[id] = {}
    /\ \A id \in DOMAIN file \ DOMAIN pool.frames : latest[id] = file[id] \/ OnItsWay(id)

\* The file has the page as it is.
Settled(id) == id \in DOMAIN file \ pool.dirty /\ ~OnItsWay(id) /\ latest[id] = file[id]

FetchCurrent(t) ==
    /\ t.pc = "miss" => t.id \in DOMAIN file \ pool.dirty
    /\ t.pc \in {"insert", "writeback"} => Settled(t.id) /\ t.page = file[t.id]
    /\ t.pc = "writeback" =>
          \A e \in t.evicted : e.id \in DOMAIN file \ DOMAIN pool.frames /\ e.page = latest[e.id]

\* No page is on its way in the hands of two lookups.
WritersApart ==
    \A r, s \in Readers :
        r # s /\ task[r].pc = "writeback" /\ task[s].pc = "writeback" =>
            \A e \in task[r].evicted, f \in task[s].evicted : e.id # f.id

FlushCurrent ==
    flush # Idle =>
        \A q \in DOMAIN pool.frames : q \in flush.marks \ flush.todo => pool.frames[q].page = file[q]

CacheInv ==
    /\ IInv
    /\ PoolCurrent
    /\ FileCurrent
    /\ \A r \in Readers : FetchCurrent(task[r])
    /\ WritersApart
    /\ FlushCurrent
    /\ ReadsLatest
-----------------------------------------------------------------------------
\* Touching changes nothing but lru.
LEMMA TouchFields ==
    ASSUME NEW pl, NEW id, PoolOK(pl)
    PROVE  Touch(pl, id) = [frames |-> pl.frames, dirty |-> pl.dirty,
                            lru |-> Append(Except(pl.lru, id), id)]
BY DEF PoolOK, Touch

FreshFrame(page) == [page |-> page, page_lsn |-> 0, rec_lsn |-> 0]

\* What inserting a missing page leaves: its frame, and all others but those in
\* V, which go to the file if they are dirty.
InsertLeaves(ins, id, page, V) ==
    /\ V \subseteq DOMAIN pool.frames
    /\ DOMAIN ins.pool.frames = (DOMAIN pool.frames \ V) \cup {id}
    /\ ins.pool.frames[id] = FreshFrame(page)
    /\ \A q \in DOMAIN pool.frames \ V : ins.pool.frames[q] = pool.frames[q]
    /\ ins.pool.dirty = pool.dirty \ V
    /\ ins.pool = [frames |-> ins.pool.frames, dirty |-> ins.pool.dirty, lru |-> ins.pool.lru]
    /\ \A q \in V \cap pool.dirty : \E e \in ins.evicted : e.id = q
    /\ \A e \in ins.evicted : e.id \in V \cap pool.dirty /\ e.page = pool.frames[e.id].page
    /\ \A e, f \in ins.evicted : e = f

\* The same of a page that may be there already, which stays.
InsertedOver(ins, id, page, V) ==
    \/ id \notin DOMAIN pool.frames /\ InsertLeaves(ins, id, page, V)
    \/ /\ id \in DOMAIN pool.frames /\ V = {} /\ ins.evicted = {}
       /\ ins.pool.frames = pool.frames /\ ins.pool.dirty = pool.dirty

\* An insertion pushes out at most the least recently touched page
\* (BufferPoolInner::insert, evict_one).
LEMMA InsertMissing ==
    ASSUME PoolOK(pool), NEW id, id \notin DOMAIN pool.frames, NEW page
    PROVE  \E V : InsertLeaves(Insert(pool, id, page), id, page, V)
<1> DEFINE v == Victim(pool)
           full == Cardinality(DOMAIN pool.frames) >= Capacity
           rest == IF full THEN Without(pool, v) ELSE pool
           put == [rest EXCEPT !.frames = Put(@, id, FreshFrame(page))]
           V == IF full THEN {v} \cap DOMAIN pool.frames ELSE {}
           ins == Insert(pool, id, page)
<1>1. ins = [evicted |-> IF full THEN Evicted(pool, v) ELSE {}, pool |-> Touch(put, id)]
  BY DEF Insert, InsertInto, FreshFrame
<1>2. /\ rest = [frames |-> rest.frames, dirty |-> pool.dirty \ V, lru |-> rest.lru]
      /\ DOMAIN rest.frames = DOMAIN pool.frames \ V
      /\ \A q \in DOMAIN pool.frames \ V : rest.frames[q] = pool.frames[q]
  <2>1. CASE full
    <3>1. rest = [frames |-> [q \in DOMAIN pool.frames \ {v} |-> pool.frames[q]],
                  dirty |-> pool.dirty \ {v}, lru |-> Except(pool.lru, v)]
      BY <2>1 DEF Without
    <3> HIDE DEF v, rest
    <3> QED
      BY <2>1, <3>1 DEF PoolOK
  <2>2. CASE ~full
    BY <2>2 DEF PoolOK
  <2> QED
    BY <2>1, <2>2
<1> HIDE DEF rest
<1>3. put = [frames |-> Put(rest.frames, id, FreshFrame(page)), dirty |-> pool.dirty \ V, lru |-> rest.lru]
  BY <1>2
<1> HIDE DEF put, ins, V, v, full
<1>4. ins.pool = [frames |-> Put(rest.frames, id, FreshFrame(page)), dirty |-> pool.dirty \ V,
                  lru |-> Append(Except(rest.lru, id), id)]
  <2>1. ins.pool = Touch(put, id)
    BY <1>1
  <2> QED
    BY <2>1, <1>3 DEF Touch
<1>5. /\ DOMAIN Put(rest.frames, id, FreshFrame(page)) = DOMAIN rest.frames \cup {id}
      /\ \A q \in DOMAIN rest.frames \cup {id} :
            Put(rest.frames, id, FreshFrame(page))[q] = IF q = id THEN FreshFrame(page) ELSE rest.frames[q]
  BY DEF Put
<1>6. ins.evicted = IF full THEN Evicted(pool, v) ELSE {}
  BY <1>1
<1>7. /\ \A q \in V \cap pool.dirty : \E e \in ins.evicted : e.id = q
      /\ \A e \in ins.evicted :
            e.id \in V \cap pool.dirty /\ e.page = pool.frames[e.id].page
      /\ \A e, f \in ins.evicted : e = f
  <2>1. CASE full /\ v \in pool.dirty
    <3>1. ins.evicted = {[id |-> v, page |-> pool.frames[v].page, page_lsn |-> pool.frames[v].page_lsn]}
      BY <1>6, <2>1 DEF Evicted
    <3>2. V = {v}
      BY <2>1 DEF V, PoolOK
    <3> QED
      BY <2>1, <3>1, <3>2
  <2>2. CASE ~(full /\ v \in pool.dirty)
    <3>1. ins.evicted = {} /\ V \cap pool.dirty = {}
      BY <1>6, <2>2 DEF Evicted, V
    <3> QED
      BY <3>1
  <2> QED
    BY <2>1, <2>2
<1>8. V \in SUBSET DOMAIN pool.frames /\ id \notin V
  BY DEF V
<1>9. /\ DOMAIN ins.pool.frames = (DOMAIN pool.frames \ V) \cup {id}
      /\ ins.pool.frames[id] = FreshFrame(page)
      /\ \A q \in DOMAIN pool.frames \ V : ins.pool.frames[q] = pool.frames[q]
      /\ ins.pool.dirty = pool.dirty \ V
      /\ ins.pool = [frames |-> ins.pool.frames, dirty |-> ins.pool.dirty, lru |-> ins.pool.lru]
  BY <1>2, <1>4, <1>5, <1>8
<1> QED
  BY <1>7, <1>8, <1>9 DEF ins, InsertLeaves

\* What writing back leaves of the file: the page pushed out, if any, is new.
LEMMA WrittenBackPages ==
    ASSUME NEW evicted, \A e, f \in evicted : e = f
    PROVE  /\ DOMAIN WrittenBack(evicted) = DOMAIN file
           /\ \A e \in evicted : e.id \in DOMAIN file => WrittenBack(evicted)[e.id] = e.page
           /\ \A id \in DOMAIN file :
                 (\A e \in evicted : e.id # id) => WrittenBack(evicted)[id] = file[id]
<1>1. ASSUME NEW e \in evicted PROVE (CHOOSE x \in evicted : TRUE) = e
  BY <1>1
<1> QED
  BY <1>1 DEF WrittenBack
-----------------------------------------------------------------------------
\* A lookup's step leaves the others as they are: what they hold is settled, or
\* theirs alone to write.
LEMMA OthersCurrent ==
    ASSUME CacheInv, NEW r \in Readers, NEW t, task' = [task EXCEPT ![r] = t],
           t.pc = "writeback" => \A e \in t.evicted : e.id \in pool.dirty,
           pool'.dirty \subseteq pool.dirty, DOMAIN file' = DOMAIN file,
           \A q : OnItsWay(q) => q \notin DOMAIN pool'.frames,
           \A q \in DOMAIN file : ~OnItsWay(q) => file'[q] = file[q] /\ latest'[q] = latest[q],
           \A s \in Readers \ {r} : task[s].pc = "writeback" =>
               \A e \in task[s].evicted : latest'[e.id] = latest[e.id]
    PROVE  (\A s \in Readers \ {r} : FetchCurrent(task[s])') /\ WritersApart'
<1>1. task'[r] = t /\ \A s \in Readers \ {r} : task'[s] = task[s]
  BY DEF CacheInv, IInv, StoreOK
<1>2. ASSUME NEW q, OnItsWay(q)' PROVE OnItsWay(q) \/ q \in pool.dirty
  BY <1>1, <1>2 DEF OnItsWay
<1>3. ASSUME NEW q, Settled(q) PROVE Settled(q)' /\ file'[q] = file[q]
  BY <1>2, <1>3 DEF Settled
<1>4. ASSUME NEW s \in Readers \ {r} PROVE FetchCurrent(task[s])'
  <2>1. FetchCurrent(task[s]) /\ task'[s] = task[s]
    BY <1>1 DEF CacheInv
  <2>2. task[s].pc = "miss" => task[s].id \in DOMAIN file' \ pool'.dirty
    BY <2>1 DEF FetchCurrent
  <2>3. task[s].pc \in {"insert", "writeback"} =>
          Settled(task[s].id)' /\ task[s].page = file'[task[s].id]
    <3> SUFFICES ASSUME task[s].pc \in {"insert", "writeback"}
                 PROVE  Settled(task[s].id)' /\ task[s].page = file'[task[s].id]
      OBVIOUS
    <3>1. PICK q : q = task[s].id
      OBVIOUS
    <3>2. Settled(q) /\ task[s].page = file[q]
      BY <2>1, <3>1 DEF FetchCurrent
    <3>3. Settled(q)' /\ file'[q] = file[q]
      BY <1>3, <3>2
    <3>4. task'[s].id = q
      BY <2>1, <3>1
    <3> QED
      BY <2>1, <3>1, <3>2, <3>3, <3>4 DEF Settled, OnItsWay
  <2>4. ASSUME task[s].pc = "writeback", NEW e \in task[s].evicted
        PROVE  e.id \in DOMAIN file' \ DOMAIN pool'.frames /\ e.page = latest'[e.id]
    <3>1. e.id \in DOMAIN file \ DOMAIN pool.frames /\ e.page = latest[e.id]
      BY <2>1, <2>4 DEF FetchCurrent
    <3>2. OnItsWay(e.id)
      BY <2>4 DEF OnItsWay
    <3> QED
      BY <2>4, <3>1, <3>2
  <2> QED
    BY <2>1, <2>2, <2>3, <2>4 DEF FetchCurrent
<1>5. WritersApart'
  <2>1. ASSUME t.pc = "writeback", NEW e \in t.evicted, NEW s \in Readers \ {r},
               task[s].pc = "writeback", NEW f \in task[s].evicted
        PROVE  e.id # f.id
    <3>1. e.id \in DOMAIN pool.frames
      BY <2>1 DEF CacheInv, IInv, StoreOK, PoolOK
    <3>2. f.id \notin DOMAIN pool.frames
      BY <2>1 DEF CacheInv, FetchCurrent
    <3> QED
      BY <3>1, <3>2
  <2> QED
    BY <1>1, <2>1 DEF CacheInv, WritersApart
<1> QED
  BY <1>4, <1>5

\* A lookup that leaves all pages where they are.
LEMMA LookupCurrent ==
    ASSUME CacheInv, NEW r \in Readers, NEW t, task' = [task EXCEPT ![r] = t],
           task[r].pc # "writeback", t.pc # "writeback", FetchCurrent(task[r])',
           pool'.frames = pool.frames, pool'.dirty = pool.dirty,
           UNCHANGED <<file, lsn, latest>>
    PROVE  /\ PoolCurrent' /\ FileCurrent'
           /\ \A s \in Readers : FetchCurrent(task[s])'
           /\ WritersApart'
<1>1. \A s \in Readers \ {r} : task'[s] = task[s]
  BY DEF CacheInv, IInv, StoreOK
<1>2. \A q : OnItsWay(q) => OnItsWay(q)'
  BY <1>1 DEF OnItsWay
<1>3. PoolCurrent'
  BY DEF CacheInv, PoolCurrent, FrameCurrent
<1>4. FileCurrent'
  BY <1>2 DEF CacheInv, FileCurrent
<1>5. \A q : OnItsWay(q) => q \notin DOMAIN pool'.frames
  BY DEF OnItsWay, CacheInv, FetchCurrent
<1>6. (\A s \in Readers \ {r} : FetchCurrent(task[s])') /\ WritersApart'
  BY <1>5, OthersCurrent
<1> QED
  BY <1>3, <1>4, <1>6

\* Steps that leave all pages where they are.
LEMMA SamePages ==
    ASSUME CacheInv, pool'.frames = pool.frames, pool'.dirty = pool.dirty,
           UNCHANGED <<file, lsn, latest>>,
           \A id : OnItsWay(id) => OnItsWay(id)'
    PROVE  PoolCurrent' /\ FileCurrent'
<1>1. PoolCurrent'
  BY DEF CacheInv, PoolCurrent, FrameCurrent
<1>2. FileCurrent'
  BY DEF CacheInv, FileCurrent
<1> QED
  BY <1>1, <1>2

LEMMA HitCurrent ==
    ASSUME CacheInv, NEW r \in Readers, NEW id \in Pages, Hit(r, id), IInv'
    PROVE  CacheInv'
<1>1. /\ pool'.frames = pool.frames /\ pool'.dirty = pool.dirty
      /\ UNCHANGED <<file, lsn, latest, flush>>
      /\ task[r] = Idle /\ task' = [task EXCEPT ![r] = Idle]
      /\ returned' = {[id |-> id, page |-> pool.frames[id].page]} /\ id \in DOMAIN pool.frames
  BY TouchFields DEF Hit, Return, CacheInv, IInv, StoreOK
<1>2. FetchCurrent(task[r])' /\ Idle.pc # "writeback"
  BY <1>1 DEF FetchCurrent, Idle, CacheInv, IInv, StoreOK
<1>3. /\ PoolCurrent' /\ FileCurrent'
      /\ \A s \in Readers : FetchCurrent(task[s])'
      /\ WritersApart'
  BY <1>1, <1>2, LookupCurrent
<1>4. FlushCurrent'
  BY <1>1 DEF CacheInv, FlushCurrent
<1>5. ReadsLatest'
  BY <1>1 DEF ReadsLatest, CacheInv, PoolCurrent, FrameCurrent
<1> QED
  BY <1>3, <1>4, <1>5 DEF CacheInv

LEMMA MissCurrent ==
    ASSUME CacheInv, NEW r \in Readers, NEW id \in Pages, Miss(r, id), IInv'
    PROVE  CacheInv'
<1> DEFINE t == [pc |-> "miss", id |-> id]
<1>1. /\ pool'.frames = pool.frames /\ pool'.dirty = pool.dirty
      /\ UNCHANGED <<file, lsn, latest, flush, returned>>
      /\ task[r] = Idle /\ task' = [task EXCEPT ![r] = t]
      /\ id \in DOMAIN file \ DOMAIN pool.frames
  BY TouchFields DEF Miss, CacheInv, IInv, StoreOK
<1>2. t.pc # "writeback" /\ task[r].pc # "writeback" /\ FetchCurrent(task[r])'
  <2>1. task'[r] = t /\ id \in DOMAIN file' \ pool'.dirty
    BY <1>1 DEF CacheInv, IInv, StoreOK, PoolOK
  <2> QED
    BY <1>1, <2>1 DEF FetchCurrent, Idle
<1> HIDE DEF t
<1>3. /\ PoolCurrent' /\ FileCurrent'
      /\ \A s \in Readers : FetchCurrent(task[s])'
      /\ WritersApart'
  BY <1>1, <1>2, LookupCurrent
<1> QED
  BY <1>1, <1>3 DEF CacheInv, FlushCurrent, ReadsLatest

\* What the file has of a page that is on nobody's way is the page.
LEMMA ReadFileCurrent ==
    ASSUME CacheInv, NEW r \in Readers, ReadFile(r), ReadsAfterWrites, IInv'
    PROVE  CacheInv'
<1> DEFINE t == [pc |-> "insert", id |-> task[r].id, page |-> file[task[r].id]]
<1>1. /\ UNCHANGED <<pool, file, lsn, latest, flush, returned>>
      /\ task[r].pc = "miss" /\ task' = [task EXCEPT ![r] = t] /\ task'[r] = t
  BY DEF ReadFile, CacheInv, IInv, StoreOK
<1>2. Settled(task[r].id)
  <2>1. PICK q : q = task[r].id
    OBVIOUS
  <2>2. q \in DOMAIN file \ pool.dirty /\ ~OnItsWay(q)
    BY <1>1, <2>1 DEF CacheInv, FetchCurrent, ReadsAfterWrites
  <2>3. latest[q] = file[q]
    BY <2>2 DEF CacheInv, PoolCurrent, FrameCurrent, FileCurrent
  <2> QED
    BY <2>1, <2>2, <2>3 DEF Settled
<1>3. t.pc # "writeback" /\ FetchCurrent(task[r])'
  <2>1. \A q : OnItsWay(q)' => OnItsWay(q)
    BY <1>1 DEF OnItsWay, CacheInv, IInv, StoreOK
  <2>2. PICK q : q = task[r].id
    OBVIOUS
  <2>3. Settled(q)'
    BY <1>1, <1>2, <2>1, <2>2 DEF Settled
  <2>4. task'[r].id = q /\ task'[r].page = file'[q] /\ task'[r].pc = "insert"
    BY <1>1, <2>2
  <2> QED
    BY <2>3, <2>4 DEF FetchCurrent, Settled, OnItsWay
<1> HIDE DEF t
<1>4. /\ PoolCurrent' /\ FileCurrent'
      /\ \A s \in Readers : FetchCurrent(task[s])'
      /\ WritersApart'
  BY <1>1, <1>3, LookupCurrent
<1> QED
  BY <1>1, <1>4 DEF CacheInv, FlushCurrent, ReadsLatest

LEMMA ReadFailsCurrent ==
    ASSUME CacheInv, NEW r \in Readers, ReadFails(r), IInv'
    PROVE  CacheInv'
<1>1. /\ UNCHANGED <<pool, file, lsn, latest, flush, returned>>
      /\ task[r].pc = "miss" /\ task' = [task EXCEPT ![r] = Idle]
  BY DEF ReadFails
<1>2. Idle.pc # "writeback" /\ FetchCurrent(task[r])'
  BY <1>1 DEF FetchCurrent, Idle, CacheInv, IInv, StoreOK
<1>3. /\ PoolCurrent' /\ FileCurrent'
      /\ \A s \in Readers : FetchCurrent(task[s])'
      /\ WritersApart'
  BY <1>1, <1>2, LookupCurrent
<1> QED
  BY <1>1, <1>3 DEF CacheInv, FlushCurrent, ReadsLatest

\* The page a lookup read goes into the pool as the file has it, unless another
\* lookup put it there meanwhile, and the page it pushes out, if dirty, is the
\* lookup's to write.
LEMMA InsertReadCurrent ==
    ASSUME FlushAlone, CacheInv, NEW r \in Readers, InsertRead(r), IInv'
    PROVE  CacheInv'
<1> DEFINE id == task[r].id
           page == task[r].page
           ins == Insert(pool, id, page)
           u == [pc |-> "writeback", id |-> id, page |-> page, evicted |-> ins.evicted]
<1>1. /\ UNCHANGED <<file, lsn, latest, flush>>
      /\ task[r].pc = "insert" /\ pool' = ins.pool
      /\ IF ins.evicted = {} THEN Return(r, id, page)
         ELSE task' = [task EXCEPT ![r] = u] /\ UNCHANGED returned
  BY DEF InsertRead
<1>2. /\ id \in DOMAIN file \ pool.dirty /\ page = file[id] /\ page = latest[id]
      /\ ~OnItsWay(id) /\ flush = Idle
  <2>1. FetchCurrent(task[r])
    BY DEF CacheInv
  <2>2. Settled(id) /\ page = file[id]
    BY <1>1, <2>1 DEF FetchCurrent
  <2>3. task[r] # Idle
    BY <1>1 DEF Idle
  <2>4. flush = Idle
    BY <2>3 DEF CacheInv, IInv, FlushOK, AllIdle
  <2> QED
    BY <2>2, <2>4 DEF Settled
<1>3. \E V : InsertedOver(ins, id, page, V)
  <2>1. PoolOK(pool)
    BY DEF CacheInv, IInv, StoreOK
  <2>2. CASE id \notin DOMAIN pool.frames
    <3> HIDE DEF id, page
    <3>1. \E V : InsertLeaves(ins, id, page, V)
      BY <2>1, <2>2, InsertMissing
    <3> QED
      BY <2>2, <3>1 DEF InsertedOver
  <2>3. CASE id \in DOMAIN pool.frames
    <3>1. ins = [evicted |-> {}, pool |-> Touch(pool, id)]
      BY <2>3 DEF Insert, InsertInto
    <3> HIDE DEF ins, id, page
    <3>2. ins.evicted = {} /\ ins.pool.frames = pool.frames /\ ins.pool.dirty = pool.dirty
      BY <2>1, <3>1, TouchFields
    <3> QED
      BY <2>3, <3>2 DEF InsertedOver
  <2> QED
    BY <2>2, <2>3
<1> HIDE DEF ins
<1>5. PICK V : InsertedOver(ins, id, page, V)
  BY <1>3
<1>6. /\ DOMAIN pool'.frames = (DOMAIN pool.frames \ V) \cup {id}
      /\ id \notin DOMAIN pool.frames => pool'.frames[id] = FreshFrame(page)
      /\ \A q \in DOMAIN pool.frames \ V : pool'.frames[q] = pool.frames[q]
      /\ pool'.dirty = pool.dirty \ V
      /\ V \subseteq DOMAIN pool.frames /\ id \notin V
  BY <1>1, <1>5 DEF InsertedOver, InsertLeaves
<1>7. PoolCurrent'
  <2>1. ASSUME NEW q \in DOMAIN pool'.frames PROVE FrameCurrent(q)'
    <3>1. CASE q = id /\ id \notin DOMAIN pool.frames
      <4>1. pool'.frames[q].page = page /\ pool'.frames[q].rec_lsn = 0
        BY <1>6, <3>1 DEF FreshFrame
      <4>2. lsn' = lsn /\ lsn \in Nat
        BY <1>1 DEF CacheInv, IInv, StoreOK
      <4>3. q \in DOMAIN file' /\ file'[q] = page /\ latest'[q] = page
        BY <1>1, <1>2, <3>1
      <4> HIDE DEF id, page
      <4> QED
        BY <4>1, <4>2, <4>3 DEF FrameCurrent
    <3>2. CASE q # id \/ id \in DOMAIN pool.frames
      <4>1. q \in DOMAIN pool.frames \ V /\ FrameCurrent(q)
        BY <1>6, <3>2 DEF CacheInv, PoolCurrent
      <4> QED
        BY <1>1, <1>6, <4>1 DEF FrameCurrent
    <3> QED
      BY <3>1, <3>2
  <2> QED
    BY <2>1 DEF PoolCurrent
<1>8. ASSUME NEW e \in ins.evicted
      PROVE  e.id \in pool.dirty /\ e.id \in DOMAIN file \ DOMAIN pool'.frames /\ e.page = latest[e.id]
  BY <1>2, <1>5, <1>6 DEF CacheInv, PoolCurrent, FrameCurrent, InsertedOver, InsertLeaves
<1>9. PICK t : t = IF ins.evicted = {} THEN Idle ELSE u
  OBVIOUS
<1>10. /\ task' = [task EXCEPT ![r] = t] /\ task'[r] = t
       /\ \A s \in Readers \ {r} : task'[s] = task[s]
  BY <1>1, <1>9 DEF Return, CacheInv, IInv, StoreOK
<1>11. t.pc = "writeback" => t.evicted = ins.evicted /\ t.id = id /\ t.page = page
  BY <1>9 DEF Idle
<1>12. ins.evicted # {} => t.pc = "writeback"
  BY <1>9
<1>13. t.pc # "miss" /\ t.pc # "insert"
  BY <1>9 DEF Idle
<1> HIDE DEF id, page, u
<1>14. FileCurrent'
  <2>1. ASSUME NEW q \in DOMAIN file \ DOMAIN pool'.frames
        PROVE  latest[q] = file[q] \/ OnItsWay(q)'
    <3>1. CASE q \in V \cap pool.dirty
      <4>1. PICK e \in ins.evicted : e.id = q
        BY <1>5, <3>1 DEF InsertedOver, InsertLeaves
      <4>2. task'[r].pc = "writeback" /\ e \in task'[r].evicted
        BY <1>10, <1>11, <1>12, <4>1
      <4> QED
        BY <4>1, <4>2 DEF OnItsWay
    <3>2. CASE q \in V \ pool.dirty
      BY <1>6, <3>2 DEF CacheInv, PoolCurrent, FrameCurrent
    <3>3. CASE q \notin V
      <4>1. q \in DOMAIN file \ DOMAIN pool.frames
        BY <1>6, <3>3
      <4>2. OnItsWay(q) => OnItsWay(q)'
        BY <1>1, <1>10 DEF OnItsWay
      <4> QED
        BY <4>1, <4>2 DEF CacheInv, FileCurrent
    <3> QED
      BY <3>1, <3>2, <3>3
  <2> QED
    BY <1>1, <2>1 DEF CacheInv, FileCurrent
<1>15. ASSUME NEW q, OnItsWay(q) PROVE q \notin DOMAIN pool'.frames
  <2>1. q \notin DOMAIN pool.frames /\ q # id
    BY <1>2, <1>15 DEF OnItsWay, CacheInv, FetchCurrent
  <2> QED
    BY <1>6, <2>1
<1>16. (\A s \in Readers \ {r} : FetchCurrent(task[s])') /\ WritersApart'
  <2>1. t.pc = "writeback" => \A e \in t.evicted : e.id \in pool.dirty
    BY <1>8, <1>11
  <2>2. /\ pool'.dirty \subseteq pool.dirty /\ DOMAIN file' = DOMAIN file
        /\ \A q \in DOMAIN file : ~OnItsWay(q) => file'[q] = file[q] /\ latest'[q] = latest[q]
        /\ \A s \in Readers \ {r} : task[s].pc = "writeback" =>
               \A e \in task[s].evicted : latest'[e.id] = latest[e.id]
    BY <1>1, <1>6
  <2> QED
    BY <1>10, <1>15, <2>1, <2>2, OthersCurrent
<1>17. FetchCurrent(task[r])'
  <2>1. CASE t.pc # "writeback"
    BY <1>10, <1>13, <2>1 DEF FetchCurrent
  <2>2. CASE t.pc = "writeback"
    <3>1. PICK q : q = id
      OBVIOUS
    <3>2. \A e \in t.evicted : e.id # q
      BY <1>2, <1>8, <1>11, <2>2, <3>1
    <3>3. ~OnItsWay(q)'
      BY <1>2, <1>10, <3>1, <3>2 DEF OnItsWay
    <3>4. Settled(q)' /\ task'[r].id = q /\ task'[r].page = file'[q]
      BY <1>1, <1>2, <1>6, <1>10, <1>11, <2>2, <3>1, <3>3 DEF Settled
    <3>5. ASSUME NEW e \in t.evicted
          PROVE  e.id \in DOMAIN file' \ DOMAIN pool'.frames /\ e.page = latest'[e.id]
      BY <1>1, <1>8, <1>11, <2>2, <3>5
    <3> QED
      BY <1>10, <1>13, <3>4, <3>5 DEF FetchCurrent, Settled, OnItsWay
  <2> QED
    BY <2>1, <2>2
<1>18. FlushCurrent'
  BY <1>1, <1>2 DEF FlushCurrent
<1>19. ReadsLatest'
  BY <1>1, <1>2 DEF ReadsLatest, CacheInv, Return
<1> QED
  BY <1>7, <1>14, <1>16, <1>17, <1>18, <1>19 DEF CacheInv

\* The page on its way arrives: the file is current, and the others' pages are not
\* this one.
LEMMA WriteBackCurrent ==
    ASSUME FlushAlone, CacheInv, NEW r \in Readers, WriteBack(r), IInv'
    PROVE  CacheInv'
<1> DEFINE evicted == task[r].evicted
<1>1. /\ UNCHANGED <<pool, lsn, latest, flush>> /\ task[r].pc = "writeback"
      /\ file' = WrittenBack(evicted)
      /\ task' = [task EXCEPT ![r] = Idle]
      /\ returned' = {[id |-> task[r].id, page |-> task[r].page]}
  BY DEF WriteBack, Return
<1>2. /\ \A e, f \in evicted : e = f
      /\ task[r].page = latest[task[r].id]
      /\ \A e \in evicted : e.id \in DOMAIN file \ DOMAIN pool.frames /\ e.page = latest[e.id]
      /\ flush = Idle
  BY <1>1 DEF CacheInv, FetchCurrent, Settled, IInv, StoreOK, TaskOK, EvictedOK, FlushOK, AllIdle, Idle
<1>3. task'[r] = Idle /\ \A s \in Readers \ {r} : task'[s] = task[s]
  BY <1>1 DEF CacheInv, IInv, StoreOK
<1>4. \A e \in evicted : OnItsWay(e.id)
  BY <1>1 DEF OnItsWay
<1> HIDE DEF evicted
<1>5. /\ DOMAIN file' = DOMAIN file
      /\ \A e \in evicted : file'[e.id] = latest[e.id]
      /\ \A id \in DOMAIN file : (\A e \in evicted : e.id # id) => file'[id] = file[id]
  BY <1>1, <1>2, WrittenBackPages
<1>6. \A id \in DOMAIN pool.frames : file'[id] = file[id] /\ id \in DOMAIN file
  BY <1>2, <1>5 DEF CacheInv, PoolCurrent, FrameCurrent
<1>7. PoolCurrent'
  BY <1>1, <1>5, <1>6 DEF CacheInv, PoolCurrent, FrameCurrent
<1>8. FileCurrent'
  <2>1. ASSUME NEW q \in DOMAIN file \ DOMAIN pool.frames PROVE latest[q] = file'[q] \/ OnItsWay(q)'
    <3>1. CASE \E e \in evicted : e.id = q
      BY <1>5, <3>1
    <3>2. CASE \A e \in evicted : e.id # q
      <4>1. OnItsWay(q) => OnItsWay(q)'
        BY <1>3, <3>2 DEF OnItsWay, evicted
      <4> QED
        BY <1>5, <3>2, <4>1 DEF CacheInv, FileCurrent
    <3> QED
      BY <3>1, <3>2
  <2> QED
    BY <1>1, <1>5, <2>1 DEF CacheInv, FileCurrent
<1>9. (\A s \in Readers : FetchCurrent(task[s])') /\ WritersApart'
  <2>1. FetchCurrent(task[r])' /\ Idle.pc # "writeback"
    BY <1>3 DEF FetchCurrent, Idle
  <2>2. /\ pool'.dirty \subseteq pool.dirty /\ DOMAIN file' = DOMAIN file
        /\ \A q : OnItsWay(q) => q \notin DOMAIN pool'.frames
        /\ \A q \in DOMAIN file : ~OnItsWay(q) => file'[q] = file[q] /\ latest'[q] = latest[q]
        /\ \A s \in Readers \ {r} : task[s].pc = "writeback" =>
               \A e \in task[s].evicted : latest'[e.id] = latest[e.id]
    <3>1. \A q : OnItsWay(q) => q \notin DOMAIN pool'.frames
      BY <1>1 DEF OnItsWay, CacheInv, FetchCurrent
    <3>2. \A q \in DOMAIN file : ~OnItsWay(q) => file'[q] = file[q]
      BY <1>4, <1>5
    <3> QED
      BY <1>1, <1>5, <3>1, <3>2
  <2>3. (\A s \in Readers \ {r} : FetchCurrent(task[s])') /\ WritersApart'
    BY <1>1, <2>1, <2>2, OthersCurrent
  <2> QED
    BY <2>1, <2>3
<1>10. FlushCurrent'
  BY <1>1, <1>2 DEF FlushCurrent
<1>11. ReadsLatest'
  BY <1>1, <1>2 DEF ReadsLatest
<1> QED
  BY <1>7, <1>8, <1>9, <1>10, <1>11 DEF CacheInv

\* The page on its way is lost: what the file has of it is all there is, and no
\* other lookup has it.
LEMMA WriteBackFailsCurrent ==
    ASSUME FlushAlone, CacheInv, NEW r \in Readers, WriteBackFails(r), IInv'
    PROVE  CacheInv'
<1> DEFINE evicted == task[r].evicted
<1>1. /\ UNCHANGED <<pool, file, lsn, flush>> /\ task[r].pc = "writeback"
      /\ latest' = [id \in Pages |-> IF \E e \in evicted : e.id = id THEN file[id] ELSE latest[id]]
      /\ task' = [task EXCEPT ![r] = Idle]
      /\ returned' = {}
  BY DEF WriteBackFails, WriteFails
<1>2. /\ \A e \in evicted : e.id \in DOMAIN file \ DOMAIN pool.frames /\ OnItsWay(e.id)
      /\ DOMAIN file \subseteq Pages
      /\ flush = Idle
  BY <1>1 DEF CacheInv, FetchCurrent, FileCurrent, IInv, FlushOK, AllIdle, Idle, OnItsWay
<1>3. task'[r] = Idle /\ \A s \in Readers \ {r} : task'[s] = task[s]
  BY <1>1 DEF CacheInv, IInv, StoreOK
<1>4. ASSUME NEW q \in Pages, \A e \in evicted : e.id # q PROVE latest'[q] = latest[q]
  BY <1>1, <1>4
<1>5. PoolCurrent'
  <2>1. ASSUME NEW q \in DOMAIN pool.frames PROVE FrameCurrent(q)'
    <3>1. FrameCurrent(q) /\ latest'[q] = latest[q]
      BY <1>2, <1>4 DEF CacheInv, PoolCurrent, FrameCurrent
    <3> QED
      BY <1>1, <3>1 DEF FrameCurrent
  <2> QED
    BY <1>1, <2>1 DEF PoolCurrent
<1>6. FileCurrent'
  <2>1. ASSUME NEW q \in DOMAIN file \ DOMAIN pool.frames PROVE latest'[q] = file[q] \/ OnItsWay(q)'
    <3>1. CASE \E e \in evicted : e.id = q
      BY <1>1, <1>2, <3>1
    <3>2. CASE \A e \in evicted : e.id # q
      <4>1. OnItsWay(q) => OnItsWay(q)'
        BY <1>3, <3>2 DEF OnItsWay
      <4> QED
        BY <1>2, <1>4, <3>2, <4>1 DEF CacheInv, FileCurrent
    <3> QED
      BY <3>1, <3>2
  <2>2. latest' = [q \in Pages |-> latest'[q]] /\ \A q \in Pages \ DOMAIN file' : latest'[q] = {}
    <3>1. latest' = [q \in Pages |-> latest'[q]]
      BY <1>1
    <3>2. ASSUME NEW q \in Pages \ DOMAIN file PROVE latest'[q] = {}
      BY <1>2, <1>4 DEF CacheInv, FileCurrent
    <3> QED
      BY <1>1, <3>1, <3>2
  <2> QED
    BY <1>1, <1>2, <2>1, <2>2 DEF FileCurrent
<1>7. (\A s \in Readers : FetchCurrent(task[s])') /\ WritersApart'
  <2>1. FetchCurrent(task[r])' /\ Idle.pc # "writeback"
    BY <1>3 DEF FetchCurrent, Idle
  <2>2. \A q : OnItsWay(q) => q \notin DOMAIN pool'.frames
    BY <1>1 DEF OnItsWay, CacheInv, FetchCurrent
  <2>3. \A q \in DOMAIN file : ~OnItsWay(q) => file'[q] = file[q] /\ latest'[q] = latest[q]
    BY <1>1, <1>2, <1>4
  <2>4. ASSUME NEW s \in Readers \ {r}, task[s].pc = "writeback", NEW e \in task[s].evicted
        PROVE  latest'[e.id] = latest[e.id]
    <3>1. \A f \in evicted : f.id # e.id
      BY <1>1, <2>4 DEF CacheInv, WritersApart
    <3>2. e.id \in Pages
      BY <1>2, <2>4 DEF CacheInv, FetchCurrent
    <3> QED
      BY <1>4, <3>1, <3>2
  <2> HIDE DEF evicted
  <2>5. (\A s \in Readers \ {r} : FetchCurrent(task[s])') /\ WritersApart'
    BY <1>1, <2>1, <2>2, <2>3, <2>4, OthersCurrent
  <2> QED
    BY <2>1, <2>5
<1> QED
  BY <1>1, <1>2, <1>5, <1>6, <1>7 DEF CacheInv, FlushCurrent, ReadsLatest
-----------------------------------------------------------------------------
(* The call that has the tree: it pushes out and writes back in one step. *)

LEMMA NoLookups ==
    ASSUME AllIdle, UNCHANGED task
    PROVE  /\ \A q : ~OnItsWay(q)
           /\ \A s \in Readers : FetchCurrent(task[s])'
           /\ WritersApart'
BY DEF OnItsWay, FetchCurrent, WritersApart, AllIdle, Idle

\* What fetching a page for a change leaves, with V pushed out of the pool.
FetchLeaves(ins, id, page, V) ==
    /\ V \subseteq DOMAIN pool.frames /\ id \notin V
    /\ DOMAIN ins.pool.frames = (DOMAIN pool.frames \ V) \cup {id}
    /\ \A q \in DOMAIN pool.frames \ V : ins.pool.frames[q] = pool.frames[q]
    /\ ins.pool.frames[id].page = page /\ ins.pool.frames[id].rec_lsn \in 0..lsn
    /\ \A n \in page \ file[id] :
          0 < ins.pool.frames[id].rec_lsn /\ ins.pool.frames[id].rec_lsn <= n
    /\ ins.pool.dirty = pool.dirty \ V
    /\ ins.pool = [frames |-> ins.pool.frames, dirty |-> ins.pool.dirty, lru |-> ins.pool.lru]
    /\ \A q \in V \cap pool.dirty : \E e \in ins.evicted : e.id = q
    /\ \A e \in ins.evicted : e.id \in V \cap pool.dirty /\ e.page = latest[e.id]
    /\ \A e, f \in ins.evicted : e = f

\* A change begins with a page that has all changes so far, whether the pool has
\* the page or the file (Index::fetch_mut).
LEMMA FetchForChange ==
    ASSUME CacheInv, AllIdle, NEW id \in DOMAIN file,
           NEW page, page = Fetched(id), NEW ins, ins = FetchMut(id)
    PROVE  page = latest[id] /\ \E V : FetchLeaves(ins, id, page, V)
<1>1. PoolOK(pool) /\ lsn \in Nat /\ ins = Insert(pool, id, page)
      /\ page = IF id \in DOMAIN pool.frames THEN pool.frames[id].page ELSE file[id]
  BY DEF CacheInv, IInv, StoreOK, FetchMut, Fetched
<1>2. CASE id \in DOMAIN pool.frames
  <2>1. /\ ins.evicted = {} /\ ins.pool.frames = pool.frames /\ ins.pool.dirty = pool.dirty
        /\ ins.pool = [frames |-> ins.pool.frames, dirty |-> ins.pool.dirty, lru |-> ins.pool.lru]
    BY <1>1, <1>2, TouchFields DEF Insert, InsertInto
  <2>2. FrameCurrent(id) /\ page = pool.frames[id].page
    BY <1>1, <1>2 DEF CacheInv, PoolCurrent
  <2>3. FetchLeaves(ins, id, page, {})
    BY <1>2, <2>1, <2>2 DEF FrameCurrent, FetchLeaves
  <2> QED
    BY <2>2, <2>3 DEF FrameCurrent
<1>3. CASE id \notin DOMAIN pool.frames
  <2>1. PICK V : InsertLeaves(ins, id, page, V)
    BY <1>1, <1>3, InsertMissing
  <2>2. page = file[id] /\ page = latest[id]
    <3>1. ~OnItsWay(id)
      BY DEF OnItsWay, AllIdle, Idle
    <3> QED
      BY <1>1, <1>3, <3>1 DEF CacheInv, FileCurrent
  <2>3. ins.pool.frames[id].rec_lsn = 0 /\ ins.pool.frames[id].page = page
    BY <2>1 DEF InsertLeaves, FreshFrame
  <2>4. \A e \in ins.evicted : e.id \in V \cap pool.dirty /\ e.page = latest[e.id]
    BY <2>1 DEF InsertLeaves, CacheInv, PoolCurrent, FrameCurrent
  <2>5. V \in SUBSET DOMAIN pool.frames /\ id \notin V
    BY <1>3, <2>1 DEF InsertLeaves
  <2>6. /\ ins.pool.frames[id].page = page /\ ins.pool.frames[id].rec_lsn \in 0..lsn
        /\ \A n \in page \ file[id] :
              0 < ins.pool.frames[id].rec_lsn /\ ins.pool.frames[id].rec_lsn <= n
    <3>1. lsn \in Nat /\ page \ file[id] = {}
      BY <1>1, <2>2
    <3> QED
      BY <2>3, <3>1
  <2>7. FetchLeaves(ins, id, page, V)
    BY <2>1, <2>4, <2>5, <2>6, Zenon DEF InsertLeaves, FetchLeaves
  <2> QED
    BY <2>2, <2>7
<1> QED
  BY <1>2, <1>3

LEMMA ChangeCurrent ==
    ASSUME FlushAlone, CacheInv, NEW id \in Pages, Change(id), IInv'
    PROVE  CacheInv'
<1> DEFINE page == Fetched(id)
           ins == FetchMut(id)
           new == [page |-> page \cup {lsn + 1}, page_lsn |-> lsn + 1,
                   rec_lsn |-> RecLsn(ins.pool.frames[id].rec_lsn, lsn + 1)]
<1>1. /\ id \in DOMAIN file /\ AllIdle /\ lsn' = lsn + 1 /\ UNCHANGED <<task, flush>> /\ returned' = {}
      /\ pool' = Update(ins.pool, id, page \cup {lsn + 1}, lsn + 1)
      /\ file' = WrittenBack(ins.evicted)
      /\ latest' = [latest EXCEPT ![id] = @ \cup {lsn + 1}]
      /\ flush = Idle
  BY DEF Change, MayBegin
<1>2. page = latest[id] /\ \E V : FetchLeaves(ins, id, page, V)
  <2>1. PICK p : p = Fetched(id)
    OBVIOUS
  <2>2. PICK i : i = FetchMut(id)
    OBVIOUS
  <2>3. p = latest[id] /\ \E V : FetchLeaves(i, id, p, V)
    BY <1>1, <2>1, <2>2, FetchForChange
  <2> QED
    BY <2>1, <2>2, <2>3
<1>3. pool' = Touch([ins.pool EXCEPT !.dirty = @ \cup {id}, !.frames = Put(@, id, new)], id)
  BY <1>1 DEF Update
<1>4. lsn \in Nat /\ page \subseteq 1..lsn
  <2>1. lsn \in Nat /\ flushed \in 0..lsn /\ PoolOK(pool) /\ WriteAhead
    BY DEF CacheInv, IInv, StoreOK
  <2> QED
    BY <1>1, <2>1 DEF Fetched, PoolOK, FrameOK, Covered, WriteAhead
<1>5. new.page = page \cup {lsn + 1} /\ new.rec_lsn = RecLsn(ins.pool.frames[id].rec_lsn, lsn + 1)
  OBVIOUS
<1> HIDE DEF page, ins, new
<1>6. PICK V : FetchLeaves(ins, id, page, V)
  BY <1>2
<1>7. /\ pool'.frames = Put(ins.pool.frames, id, new)
      /\ pool'.dirty = ins.pool.dirty \cup {id}
  <2>1. ins.pool = [frames |-> ins.pool.frames, dirty |-> ins.pool.dirty, lru |-> ins.pool.lru]
    BY <1>6 DEF FetchLeaves
  <2>2. PICK pl : pl = ins.pool
    OBVIOUS
  <2>3. pl = [frames |-> pl.frames, dirty |-> pl.dirty, lru |-> pl.lru]
    BY <2>1, <2>2
  <2>4. pool' = Touch([pl EXCEPT !.dirty = @ \cup {id}, !.frames = Put(@, id, new)], id)
    BY <1>3, <2>2
  <2>5. pool'.frames = Put(pl.frames, id, new) /\ pool'.dirty = pl.dirty \cup {id}
    BY <2>3, <2>4 DEF Touch
  <2> QED
    BY <2>2, <2>5
<1>8. /\ DOMAIN pool'.frames = (DOMAIN pool.frames \ V) \cup {id}
      /\ pool'.frames[id] = new
      /\ \A q \in DOMAIN pool.frames \ (V \cup {id}) : pool'.frames[q] = pool.frames[q]
      /\ pool'.dirty = (pool.dirty \ V) \cup {id}
  BY <1>7, <1>6 DEF Put, FetchLeaves
<1>9. /\ DOMAIN file' = DOMAIN file
      /\ \A e \in ins.evicted : e.id \in DOMAIN file /\ file'[e.id] = latest[e.id]
      /\ \A q \in DOMAIN file : (\A e \in ins.evicted : e.id # q) => file'[q] = file[q]
  <2>1. V \subseteq DOMAIN file
    BY <1>6 DEF CacheInv, PoolCurrent, FrameCurrent, FetchLeaves
  <2>2. /\ \A e, f \in ins.evicted : e = f
        /\ \A e \in ins.evicted : e.id \in DOMAIN file /\ e.page = latest[e.id]
    BY <1>6, <2>1 DEF FetchLeaves
  <2> QED
    BY <1>1, <2>2, WrittenBackPages
<1>10. file'[id] = file[id] /\ \A q \in DOMAIN pool.frames \ V : file'[q] = file[q]
  BY <1>1, <1>9, <1>6 DEF CacheInv, PoolCurrent, FrameCurrent, FetchLeaves
<1>11. /\ latest' = [q \in Pages |-> latest'[q]]
       /\ latest'[id] = latest[id] \cup {lsn + 1}
       /\ \A q \in Pages \ {id} : latest'[q] = latest[q]
  BY <1>1 DEF CacheInv, FileCurrent
<1>12. PoolCurrent'
  <2>1. FrameCurrent(id)'
    <3>1. \A n \in new.page \ file[id] : 0 < new.rec_lsn /\ new.rec_lsn <= n
      BY <1>4, <1>5, <1>6 DEF RecLsn, FetchLeaves
    <3>2. new.rec_lsn \in 0..lsn + 1
      BY <1>4, <1>5, <1>6 DEF RecLsn, FetchLeaves
    <3> QED
      BY <1>1, <1>2, <1>5, <1>8, <1>9, <1>10, <1>11, <3>1, <3>2 DEF FrameCurrent
  <2>2. ASSUME NEW q \in DOMAIN pool.frames \ V, q # id PROVE FrameCurrent(q)'
    <3>1. FrameCurrent(q) /\ q \in Pages
      BY DEF CacheInv, PoolCurrent, FrameCurrent, FileCurrent
    <3>2. 0..lsn \subseteq 0..lsn'
      BY <1>1, <1>4
    <3>3. pool'.frames[q] = pool.frames[q] /\ (q \in pool'.dirty <=> q \in pool.dirty)
          /\ file'[q] = file[q] /\ latest'[q] = latest[q] /\ q \in DOMAIN file'
      BY <1>8, <1>9, <1>10, <1>11, <2>2, <3>1 DEF FrameCurrent
    <3> QED
      BY <3>1, <3>2, <3>3 DEF FrameCurrent
  <2> QED
    BY <1>8, <2>1, <2>2 DEF PoolCurrent
<1>13. FileCurrent'
  <2>1. ASSUME NEW q \in DOMAIN file \ DOMAIN pool'.frames PROVE latest'[q] = file'[q]
    <3>1. q # id /\ q \in Pages /\ latest'[q] = latest[q]
      BY <1>8, <1>11 DEF CacheInv, FileCurrent
    <3>2. CASE q \in V \cap pool.dirty
      BY <1>9, <1>6, <3>1, <3>2 DEF FetchLeaves
    <3>3. CASE q \in V \ pool.dirty
      BY <1>9, <1>6, <3>1, <3>3 DEF CacheInv, PoolCurrent, FrameCurrent, FetchLeaves
    <3>4. CASE q \notin V
      <4>1. q \in DOMAIN file \ DOMAIN pool.frames
        BY <1>8, <3>4
      <4>2. ~OnItsWay(q)
        BY <1>1 DEF OnItsWay, AllIdle, Idle
      <4> QED
        BY <1>9, <1>6, <3>1, <3>4, <4>1, <4>2 DEF CacheInv, FileCurrent, FetchLeaves
    <3> QED
      BY <3>2, <3>3, <3>4
  <2>2. \A q \in Pages \ DOMAIN file' : latest'[q] = {}
    BY <1>1, <1>9, <1>11 DEF CacheInv, FileCurrent
  <2> QED
    BY <1>9, <1>11, <2>1, <2>2 DEF CacheInv, FileCurrent
<1>14. (\A s \in Readers : FetchCurrent(task[s])') /\ WritersApart'
  BY <1>1, NoLookups
<1> QED
  BY <1>1, <1>12, <1>13, <1>14 DEF CacheInv, FlushCurrent, ReadsLatest

\* What a fetch for a change leaves is current, whether its page is dirty from
\* then on or not, and wherever a page it pushed out has gone: to the file, or, if
\* the write failed, nowhere.
LEMMA FetchedCurrent ==
    ASSUME CacheInv, AllIdle, NEW id \in DOMAIN file, NEW V,
           NEW ins, ins = FetchMut(id), FetchLeaves(ins, id, latest[id], V),
           pool'.frames = ins.pool.frames, pool'.dirty = ins.pool.dirty \cup (pool'.dirty \cap {id}),
           id \notin DOMAIN pool.frames \/ pool.dirty \cap {id} \subseteq pool'.dirty,
           UNCHANGED <<lsn, task>>, DOMAIN file' = DOMAIN file,
           latest' = [q \in Pages |-> latest'[q]],
           \A q \in Pages \ DOMAIN file : latest'[q] = latest[q],
           \A q \in DOMAIN file : q \notin V \cap pool.dirty => file'[q] = file[q] /\ latest'[q] = latest[q],
           \A q \in V \cap pool.dirty : latest'[q] = file'[q]
    PROVE  PoolCurrent' /\ FileCurrent'
<1>1. /\ V \subseteq DOMAIN pool.frames /\ id \notin V
      /\ DOMAIN pool'.frames = (DOMAIN pool.frames \ V) \cup {id}
      /\ \A q \in DOMAIN pool.frames \ V : pool'.frames[q] = pool.frames[q]
      /\ pool'.frames[id].page = latest[id] /\ pool'.frames[id].rec_lsn \in 0..lsn
      /\ \A n \in latest[id] \ file[id] :
            0 < pool'.frames[id].rec_lsn /\ pool'.frames[id].rec_lsn <= n
      /\ ins.pool.dirty = pool.dirty \ V
  BY DEF FetchLeaves
<1>2. FrameCurrent(id)'
  <2>1. file'[id] = file[id] /\ latest'[id] = latest[id]
    BY <1>1
  <2>2. ASSUME id \notin pool'.dirty PROVE latest[id] = file[id]
    <3>1. CASE id \in DOMAIN pool.frames
      BY <2>2, <3>1 DEF CacheInv, PoolCurrent, FrameCurrent
    <3>2. CASE id \notin DOMAIN pool.frames
      BY <3>2, NoLookups DEF CacheInv, FileCurrent, OnItsWay, AllIdle, Idle
    <3> QED
      BY <3>1, <3>2
  <2> QED
    BY <1>1, <2>1, <2>2 DEF FrameCurrent
<1>3. ASSUME NEW q \in DOMAIN pool.frames \ V, q # id PROVE FrameCurrent(q)'
  <2>1. FrameCurrent(q)
    BY DEF CacheInv, PoolCurrent
  <2>2. /\ pool'.frames[q] = pool.frames[q] /\ (q \in pool'.dirty <=> q \in pool.dirty)
        /\ file'[q] = file[q] /\ latest'[q] = latest[q] /\ q \in DOMAIN file'
    BY <1>1, <1>3, <2>1 DEF FrameCurrent
  <2> QED
    BY <2>1, <2>2 DEF FrameCurrent
<1>4. PoolCurrent'
  BY <1>1, <1>2, <1>3 DEF PoolCurrent
<1>5. ASSUME NEW q \in DOMAIN file' \ DOMAIN pool'.frames PROVE latest'[q] = file'[q]
  <2>1. CASE q \in V \cap pool.dirty
    BY <2>1
  <2>2. CASE q \in V \ pool.dirty
    BY <1>1, <2>2 DEF CacheInv, PoolCurrent, FrameCurrent
  <2>3. CASE q \notin V
    <3>1. q \in DOMAIN file \ DOMAIN pool.frames
      BY <1>1, <1>5, <2>3
    <3>2. ~OnItsWay(q)
      BY DEF OnItsWay, AllIdle, Idle
    <3> QED
      BY <2>3, <3>1, <3>2 DEF CacheInv, FileCurrent
  <2> QED
    BY <2>1, <2>2, <2>3
<1>6. FileCurrent'
  BY <1>5 DEF CacheInv, FileCurrent
<1> QED
  BY <1>4, <1>6

LEMMA ChangeUnloggedCurrent ==
    ASSUME FlushAlone, CacheInv, NEW id \in Pages, ChangeUnlogged(id), IInv'
    PROVE  CacheInv'
<1>1. PICK ins : ins = FetchMut(id)
  OBVIOUS
<1>2. /\ id \in DOMAIN file /\ AllIdle /\ flush = Idle
      /\ UNCHANGED <<lsn, task, flush, returned, latest>>
      /\ pool' = [ins.pool EXCEPT !.dirty = @ \cup {id}]
      /\ file' = WrittenBack(ins.evicted)
  BY <1>1 DEF ChangeUnlogged, MayBegin
<1>3. PICK V : FetchLeaves(ins, id, latest[id], V)
  <2>1. PICK page : page = Fetched(id)
    OBVIOUS
  <2> QED
    BY <1>1, <1>2, <2>1, FetchForChange
<1>4. pool'.frames = ins.pool.frames /\ pool'.dirty = ins.pool.dirty \cup {id}
  <2>1. PICK pl : pl = ins.pool
    OBVIOUS
  <2>2. pl = [frames |-> pl.frames, dirty |-> pl.dirty, lru |-> pl.lru]
    BY <1>3, <2>1 DEF FetchLeaves
  <2>3. pool' = [pl EXCEPT !.dirty = @ \cup {id}]
    BY <1>2, <2>1
  <2> QED
    BY <2>1, <2>2, <2>3
<1>5. /\ V \subseteq DOMAIN file
      /\ \A e, f \in ins.evicted : e = f
      /\ \A q \in V \cap pool.dirty : \E e \in ins.evicted : e.id = q
      /\ \A e \in ins.evicted : e.id \in V \cap pool.dirty /\ e.page = latest[e.id]
  BY <1>3 DEF FetchLeaves, CacheInv, PoolCurrent, FrameCurrent
<1>6. /\ DOMAIN file' = DOMAIN file
      /\ \A q \in V \cap pool.dirty : latest[q] = file'[q]
      /\ \A q \in DOMAIN file : q \notin V \cap pool.dirty => file'[q] = file[q]
  BY <1>2, <1>5, WrittenBackPages
<1>7. PoolCurrent' /\ FileCurrent'
  <2>1. latest' = [q \in Pages |-> latest'[q]]
    BY <1>2 DEF CacheInv, FileCurrent
  <2>2. pool'.dirty = ins.pool.dirty \cup (pool'.dirty \cap {id}) /\ pool.dirty \cap {id} \subseteq pool'.dirty
    BY <1>4
  <2> QED
    BY <1>1, <1>2, <1>3, <1>4, <1>6, <2>1, <2>2, FetchedCurrent
<1> QED
  BY <1>2, <1>7, NoLookups DEF CacheInv, FlushCurrent, ReadsLatest

LEMMA ChangeFailsCurrent ==
    ASSUME FlushAlone, CacheInv, NEW id \in Pages, ChangeFails(id), IInv'
    PROVE  CacheInv'
<1>1. PICK ins : ins = FetchMut(id)
  OBVIOUS
<1>2. /\ id \in DOMAIN file \ DOMAIN pool.frames /\ AllIdle /\ flush = Idle
      /\ UNCHANGED <<file, lsn, task, flush>>
      /\ \/ pool' = Touch(pool, id) /\ UNCHANGED <<returned, latest>>
         \/ pool' = ins.pool /\ WriteFails(ins.evicted)
  BY <1>1 DEF ChangeFails, MayBegin
<1>3. PICK V : FetchLeaves(ins, id, latest[id], V)
  <2>1. PICK page : page = Fetched(id)
    OBVIOUS
  <2> QED
    BY <1>1, <1>2, <2>1, FetchForChange
<1>4. CASE pool' = Touch(pool, id) /\ UNCHANGED <<returned, latest>>
  <2>1. pool'.frames = pool.frames /\ pool'.dirty = pool.dirty
    BY <1>4, TouchFields DEF CacheInv, IInv, StoreOK
  <2>2. PoolCurrent' /\ FileCurrent'
    BY <1>2, <1>4, <2>1, NoLookups, SamePages
  <2> QED
    BY <1>2, <1>4, <2>2, NoLookups DEF CacheInv, FlushCurrent, ReadsLatest
<1>5. CASE pool' = ins.pool /\ WriteFails(ins.evicted)
  <2>1. /\ \A q \in V \cap pool.dirty : \E e \in ins.evicted : e.id = q
        /\ \A e \in ins.evicted : e.id \in V \cap pool.dirty
        /\ V \subseteq DOMAIN file /\ DOMAIN file \subseteq Pages
    BY <1>3 DEF FetchLeaves, CacheInv, PoolCurrent, FrameCurrent, FileCurrent
  <2>2. /\ latest' = [q \in Pages |-> IF \E e \in ins.evicted : e.id = q THEN file[q] ELSE latest[q]]
        /\ returned' = {}
    BY <1>5 DEF WriteFails
  <2>3. /\ latest' = [q \in Pages |-> latest'[q]]
        /\ \A q \in Pages \ DOMAIN file : latest'[q] = latest[q]
        /\ \A q \in DOMAIN file : q \notin V \cap pool.dirty => latest'[q] = latest[q]
        /\ \A q \in V \cap pool.dirty : latest'[q] = file[q]
    BY <2>1, <2>2
  <2>4. pool'.frames = ins.pool.frames /\ pool'.dirty = ins.pool.dirty \cup (pool'.dirty \cap {id})
    BY <1>5
  <2>5. PoolCurrent' /\ FileCurrent'
    BY <1>1, <1>2, <1>3, <2>3, <2>4, FetchedCurrent
  <2> QED
    BY <1>2, <2>2, <2>5, NoLookups DEF CacheInv, FlushCurrent, ReadsLatest
<1> QED
  BY <1>2, <1>4, <1>5

LEMMA AllocateCurrent ==
    ASSUME FlushAlone, CacheInv, NEW id \in Pages, Allocate(id), IInv'
    PROVE  CacheInv'
<1> DEFINE ins == Insert(pool, id, {})
<1>1. /\ id \notin DOMAIN file /\ AllIdle /\ UNCHANGED <<lsn, task, flush, returned, latest>>
      /\ pool' = [ins.pool EXCEPT !.dirty = @ \cup {id}]
      /\ file' = Put(WrittenBack(ins.evicted), id, {})
      /\ flush = Idle
  BY DEF Allocate, MayBegin
<1>2. id \notin DOMAIN pool.frames /\ latest[id] = {}
  BY <1>1 DEF CacheInv, PoolCurrent, FrameCurrent, FileCurrent
<1>3. PICK V : InsertLeaves(ins, id, {}, V)
  <2>1. PoolOK(pool)
    BY DEF CacheInv, IInv, StoreOK
  <2> QED
    BY <1>2, <2>1, InsertMissing
<1> HIDE DEF ins
<1>4. /\ DOMAIN pool'.frames = (DOMAIN pool.frames \ V) \cup {id}
      /\ pool'.frames[id] = FreshFrame({})
      /\ \A q \in DOMAIN pool.frames \ V : pool'.frames[q] = pool.frames[q]
      /\ pool'.dirty = (pool.dirty \ V) \cup {id}
  <2>1. ins.pool = [frames |-> ins.pool.frames, dirty |-> ins.pool.dirty, lru |-> ins.pool.lru]
    BY <1>3 DEF InsertLeaves
  <2>2. PICK pl : pl = ins.pool
    OBVIOUS
  <2>3. pl = [frames |-> pl.frames, dirty |-> pl.dirty, lru |-> pl.lru]
    BY <2>1, <2>2
  <2>4. pool'.frames = pl.frames /\ pool'.dirty = pl.dirty \cup {id}
    BY <1>1, <2>2, <2>3
  <2> QED
    BY <1>3, <2>2, <2>4 DEF InsertLeaves
<1>5. /\ \A e \in ins.evicted : e.id \in V \cap pool.dirty /\ e.page = latest[e.id] /\ e.id \in DOMAIN file
      /\ \A e, f \in ins.evicted : e = f
      /\ \A q \in V \cap pool.dirty : \E e \in ins.evicted : e.id = q
      /\ V \subseteq DOMAIN pool.frames
  BY <1>3 DEF InsertLeaves, CacheInv, PoolCurrent, FrameCurrent
<1>6. /\ DOMAIN file' = DOMAIN file \cup {id} /\ file'[id] = {}
      /\ \A e \in ins.evicted : file'[e.id] = latest[e.id]
      /\ \A q \in DOMAIN file : (\A e \in ins.evicted : e.id # q) => file'[q] = file[q]
  <2>1. /\ DOMAIN WrittenBack(ins.evicted) = DOMAIN file
        /\ \A e \in ins.evicted : WrittenBack(ins.evicted)[e.id] = latest[e.id]
        /\ \A q \in DOMAIN file :
              (\A e \in ins.evicted : e.id # q) => WrittenBack(ins.evicted)[q] = file[q]
    BY <1>5, WrittenBackPages
  <2> QED
    BY <1>1, <1>5, <2>1 DEF Put
<1>7. PoolCurrent'
  <2>1. FrameCurrent(id)'
    <3>1. pool'.frames[id].page = {} /\ pool'.frames[id].rec_lsn = 0
      BY <1>4 DEF FreshFrame
    <3>2. lsn' = lsn /\ lsn \in Nat
      BY <1>1 DEF CacheInv, IInv, StoreOK
    <3> QED
      BY <1>1, <1>2, <1>6, <3>1, <3>2 DEF FrameCurrent
  <2>2. ASSUME NEW q \in DOMAIN pool.frames \ V PROVE FrameCurrent(q)'
    <3>1. FrameCurrent(q) /\ q # id
      BY <1>2 DEF CacheInv, PoolCurrent
    <3>2. /\ pool'.frames[q] = pool.frames[q] /\ (q \in pool'.dirty <=> q \in pool.dirty)
          /\ file'[q] = file[q] /\ q \in DOMAIN file'
      BY <1>4, <1>5, <1>6, <3>1 DEF FrameCurrent
    <3> QED
      BY <1>1, <3>1, <3>2 DEF FrameCurrent
  <2> QED
    BY <1>4, <2>1, <2>2 DEF PoolCurrent
<1>8. FileCurrent'
  <2>1. ASSUME NEW q \in DOMAIN file' \ DOMAIN pool'.frames PROVE latest[q] = file'[q]
    <3>1. q # id /\ q \in DOMAIN file
      BY <1>4, <1>6
    <3>2. CASE q \in V \cap pool.dirty
      BY <1>5, <1>6, <3>2
    <3>3. CASE q \in V \ pool.dirty
      BY <1>5, <1>6, <3>1, <3>3 DEF CacheInv, PoolCurrent, FrameCurrent
    <3>4. CASE q \notin V
      <4>1. q \in DOMAIN file \ DOMAIN pool.frames
        BY <1>4, <3>1, <3>4
      <4>2. ~OnItsWay(q)
        BY <1>1 DEF OnItsWay, AllIdle, Idle
      <4> QED
        BY <1>5, <1>6, <3>1, <3>4, <4>1, <4>2 DEF CacheInv, FileCurrent
    <3> QED
      BY <3>2, <3>3, <3>4
  <2> QED
    BY <1>1, <1>6, <2>1 DEF CacheInv, FileCurrent
<1>9. (\A s \in Readers : FetchCurrent(task[s])') /\ WritersApart'
  BY <1>1, NoLookups
<1> QED
  BY <1>1, <1>7, <1>8, <1>9 DEF CacheInv, FlushCurrent, ReadsLatest
-----------------------------------------------------------------------------
(* Flushing: nothing else runs, so no page is on its way to the file. *)

LEMMA StartFlushCurrent ==
    ASSUME FlushAlone, CacheInv, NEW todo, NEW marks, StartFlush(todo, marks), IInv',
           \A q \in DOMAIN pool.frames : q \in marks \ todo => q \notin pool.dirty
    PROVE  CacheInv'
<1>1. /\ UNCHANGED <<pool, file, lsn, flushed, task, returned, latest>> /\ AllIdle
      /\ flush' = [pc |-> "next", todo |-> todo, marks |-> marks]
  BY DEF StartFlush
<1>2. PoolCurrent' /\ FileCurrent'
  BY <1>1, NoLookups, SamePages
<1>3. FlushCurrent'
  BY <1>1 DEF FlushCurrent, CacheInv, PoolCurrent, FrameCurrent
<1> QED
  BY <1>1, <1>2, <1>3, NoLookups DEF CacheInv, ReadsLatest

LEMMA FlushGetCurrent ==
    ASSUME CacheInv, NEW id \in Pages, FlushGet(id), IInv'
    PROVE  CacheInv'
<1>1. /\ UNCHANGED <<file, lsn, flushed, task, returned, latest>> /\ flush.pc = "next"
      /\ pool'.frames = pool.frames /\ pool'.dirty = pool.dirty
  BY TouchFields DEF FlushGet, CacheInv, IInv, StoreOK
<1>2. AllIdle
  BY <1>1 DEF CacheInv, IInv, FlushOK, Idle
<1>3. PoolCurrent' /\ FileCurrent'
  BY <1>1, <1>2, NoLookups, SamePages
<1>4. \A q \in DOMAIN pool.frames : q \in flush.marks \ flush.todo => pool.frames[q].page = file[q]
  BY <1>1 DEF CacheInv, FlushCurrent, Idle
<1>5. CASE id \in DOMAIN pool.frames
  <2>1. flush' = [pc |-> "write", todo |-> flush.todo, marks |-> flush.marks,
                  id |-> id, page |-> pool.frames[id].page]
    BY <1>5 DEF FlushGet
  <2> QED
    BY <1>1, <1>2, <1>3, <1>4, <2>1, NoLookups DEF CacheInv, FlushCurrent, ReadsLatest
<1>6. CASE id \notin DOMAIN pool.frames
  <2>1. flush' = [flush EXCEPT !.todo = @ \ {id}]
    BY <1>6 DEF FlushGet
  <2>2. flush'.marks = flush.marks /\ (flush' # Idle => flush'.todo = flush.todo \ {id})
    <3>1. flush # Idle
      BY <1>1 DEF Idle
    <3>2. flush.pc = "next" => flush'.pc = "next"
      BY <2>1
    <3> QED
      BY <2>1, <1>1
  <2>3. FlushCurrent'
    BY <1>1, <1>4, <1>6, <2>2 DEF FlushCurrent
  <2> QED
    BY <1>1, <1>2, <1>3, <2>3, NoLookups DEF CacheInv, ReadsLatest
<1> QED
  BY <1>5, <1>6

LEMMA FlushWriteCurrent ==
    ASSUME CacheInv, FlushWrite, IInv'
    PROVE  CacheInv'
<1>1. /\ flush.id \in DOMAIN pool.frames /\ flush.page = pool.frames[flush.id].page
      /\ AllIdle /\ flush.pc = "write" /\ flush # Idle
  BY DEF CacheInv, IInv, FlushOK, FlushWrite, Idle
<1>2. /\ UNCHANGED <<pool, lsn, task, returned, latest>>
      /\ file' = Put(file, flush.id, flush.page)
      /\ flush' = [pc |-> "next", todo |-> flush.todo \ {flush.id}, marks |-> flush.marks]
  BY DEF FlushWrite
<1>3. flush.id \in DOMAIN file /\ flush.page = latest[flush.id]
  BY <1>1 DEF CacheInv, PoolCurrent, FrameCurrent
<1>4. /\ DOMAIN file' = DOMAIN file /\ file'[flush.id] = flush.page
      /\ \A q \in DOMAIN file \ {flush.id} : file'[q] = file[q]
  BY <1>2, <1>3 DEF Put
<1>5. PoolCurrent'
  <2>1. ASSUME NEW q \in DOMAIN pool.frames PROVE FrameCurrent(q)'
    <3>1. FrameCurrent(q)
      BY DEF CacheInv, PoolCurrent
    <3>2. file'[q] = file[q] \/ file'[q] = pool.frames[q].page
      BY <1>1, <1>4, <3>1 DEF FrameCurrent
    <3> QED
      BY <1>2, <1>4, <3>1, <3>2 DEF FrameCurrent
  <2> QED
    BY <1>2, <2>1 DEF PoolCurrent
<1>6. FileCurrent'
  <2>1. ASSUME NEW q \in DOMAIN file \ DOMAIN pool.frames PROVE latest[q] = file'[q]
    BY <1>1, <1>2, <1>4, NoLookups DEF CacheInv, FileCurrent
  <2> QED
    BY <1>2, <1>4, <2>1 DEF CacheInv, FileCurrent
<1>7. FlushCurrent'
  <2>1. ASSUME NEW q \in DOMAIN pool.frames, q \in flush.marks \ (flush.todo \ {flush.id})
        PROVE  pool.frames[q].page = file'[q]
    <3>1. q \in DOMAIN file
      BY DEF CacheInv, PoolCurrent, FrameCurrent
    <3> QED
      BY <1>1, <1>4, <2>1, <3>1 DEF CacheInv, FlushCurrent
  <2> QED
    BY <1>2, <2>1 DEF FlushCurrent
<1> QED
  BY <1>1, <1>2, <1>5, <1>6, <1>7, NoLookups DEF CacheInv, ReadsLatest

LEMMA FlushFailsCurrent ==
    ASSUME CacheInv, FlushFails, IInv'
    PROVE  CacheInv'
<1>1. /\ UNCHANGED <<pool, file, lsn, task, returned, latest>> /\ flush' = Idle
      /\ flush # Idle
  BY DEF FlushFails, Idle
<1>2. AllIdle
  BY <1>1 DEF CacheInv, IInv, FlushOK
<1>3. PoolCurrent' /\ FileCurrent'
  BY <1>1, <1>2, NoLookups, SamePages
<1> QED
  BY <1>1, <1>2, <1>3, NoLookups DEF CacheInv, FlushCurrent, ReadsLatest

LEMMA FlushEndCurrent ==
    ASSUME CacheInv, FlushEnd, IInv'
    PROVE  CacheInv'
<1>1. /\ AllIdle /\ flush # Idle /\ flush.todo = {}
      /\ UNCHANGED <<file, lsn, flushed, task, returned, latest>> /\ flush' = Idle
      /\ pool'.dirty = pool.dirty \ flush.marks
      /\ DOMAIN pool'.frames = DOMAIN pool.frames
      /\ \A q \in DOMAIN pool.frames :
            pool'.frames[q] = IF q \in flush.marks THEN Unmarked(pool.frames[q]) ELSE pool.frames[q]
  BY DEF CacheInv, IInv, FlushOK, FlushEnd, Idle
<1>2. ASSUME NEW q \in DOMAIN pool.frames PROVE FrameCurrent(q)'
  <2>1. FrameCurrent(q)
    BY DEF CacheInv, PoolCurrent
  <2>2. CASE q \in flush.marks
    <3>1. pool'.frames[q].page = pool.frames[q].page /\ pool'.frames[q].rec_lsn = 0
      <4>1. pool'.frames[q] = [page |-> pool.frames[q].page, page_lsn |-> pool.frames[q].page_lsn,
                               rec_lsn |-> 0]
        BY <1>1, <2>2 DEF Unmarked
      <4> QED
        BY <4>1
    <3>2. pool.frames[q].page = file[q]
      BY <1>1, <2>2 DEF CacheInv, FlushCurrent
    <3>3. lsn \in Nat
      BY DEF CacheInv, IInv, StoreOK
    <3> QED
      BY <1>1, <2>1, <3>1, <3>2, <3>3 DEF FrameCurrent
  <2>3. CASE q \notin flush.marks
    <3>1. pool'.frames[q] = pool.frames[q] /\ (q \in pool'.dirty <=> q \in pool.dirty)
      BY <1>1, <2>3
    <3> QED
      BY <1>1, <2>1, <3>1 DEF FrameCurrent
  <2> QED
    BY <2>2, <2>3
<1>3. PoolCurrent'
  BY <1>1, <1>2 DEF PoolCurrent
<1>4. FileCurrent'
  BY <1>1, NoLookups DEF CacheInv, FileCurrent
<1> QED
  BY <1>1, <1>3, <1>4, NoLookups DEF CacheInv, FlushCurrent, ReadsLatest
-----------------------------------------------------------------------------
LEMMA InitCurrent == Init => CacheInv
<1> SUFFICES ASSUME Init PROVE CacheInv
  OBVIOUS
<1>1. IInv
  BY InitOK DEF IInv, FlushOK, Init
<1>2. DOMAIN pool.frames = {} /\ DOMAIN file = {} /\ task = [r \in Readers |-> Idle]
  BY DEF Init
<1>3. PoolCurrent /\ FileCurrent /\ FlushCurrent /\ ReadsLatest
  BY <1>2 DEF Init, PoolCurrent, FileCurrent, FlushCurrent, ReadsLatest
<1>4. (\A r \in Readers : FetchCurrent(task[r])) /\ WritersApart
  BY <1>2 DEF FetchCurrent, WritersApart, Idle
<1> QED
  BY <1>1, <1>3, <1>4 DEF CacheInv

LEMMA CacheStep ==
    ASSUME FlushAlone
    PROVE  CacheInv /\ [Next]_vars /\ [ReadsAfterWrites]_vars => CacheInv'
<1> SUFFICES ASSUME CacheInv, [Next]_vars, [ReadsAfterWrites]_vars PROVE CacheInv'
  OBVIOUS
<1>1. IInv'
  BY Inductive DEF CacheInv
<1>2. ASSUME NEW r \in Readers, NEW id \in Pages, Hit(r, id) \/ Miss(r, id) PROVE CacheInv'
  BY <1>1, <1>2, HitCurrent, MissCurrent
<1>3. ASSUME NEW r \in Readers, FetchStep(r) PROVE CacheInv'
  <2>1. CASE ReadFile(r)
    <3>1. vars' # vars
      <4>1. task[r].pc = "miss" /\ task'[r].pc = "insert"
        BY <2>1 DEF ReadFile, CacheInv, IInv, StoreOK
      <4> QED
        BY <4>1 DEF vars
    <3>2. ReadsAfterWrites
      BY <3>1
    <3> QED
      BY <1>1, <2>1, <3>2, ReadFileCurrent
  <2> QED
    BY <1>1, <1>3, <2>1, ReadFailsCurrent, InsertReadCurrent, WriteBackCurrent,
       WriteBackFailsCurrent DEF FetchStep
<1>4. ASSUME NEW id \in Pages,
             Change(id) \/ ChangeUnlogged(id) \/ ChangeFails(id) \/ Allocate(id)
      PROVE  CacheInv'
  BY <1>1, <1>4, ChangeCurrent, ChangeUnloggedCurrent, ChangeFailsCurrent, AllocateCurrent
<1>5. ASSUME NEW id \in Pages, Flush(id) PROVE CacheInv'
  BY <1>1, <1>5, StartFlushCurrent DEF Flush
<1>6. CASE FlushAll
  BY <1>1, <1>6, StartFlushCurrent DEF FlushAll
<1>7. CASE FlushStep
  BY <1>1, <1>7, FlushGetCurrent, FlushWriteCurrent, FlushEndCurrent, FlushFailsCurrent DEF FlushStep
<1>8. CASE UNCHANGED vars
  <2>1. UNCHANGED <<pool, file, lsn, flushed, task, flush, returned, latest>>
    BY <1>8 DEF vars
  <2>2. \A q : OnItsWay(q) => OnItsWay(q)'
    BY <2>1 DEF OnItsWay
  <2>3. PoolCurrent' /\ FileCurrent'
    BY <2>1, <2>2, SamePages
  <2> QED
    BY <1>1, <2>1, <2>3 DEF CacheInv, FetchCurrent, Settled, OnItsWay, WritersApart, FlushCurrent,
                            ReadsLatest
<1> QED
  BY <1>2, <1>3, <1>4, <1>5, <1>6, <1>7, <1>8 DEF Next

\* Where the current copy of every page is, at every step.
THEOREM CacheInvariance ==
    ASSUME FlushAlone PROVE Spec /\ [][ReadsAfterWrites]_vars => []CacheInv
BY InitCurrent, CacheStep, PTL DEF Spec

\* The dirty page table a checkpoint reads (get_dirty_page_table) covers all the
\* file lacks, through evictions, changes, allocations, flushes and failed writes,
\* for any number of lookups at once that read no page on its way to the file.
THEOREM DirtyTableCoversHolds ==
    ASSUME FlushAlone PROVE Spec /\ [][ReadsAfterWrites]_vars => []DirtyTableCovers
<1>1. CacheInv => DirtyTableCovers
  BY DEF CacheInv, PoolCurrent, FrameCurrent, DirtyTableCovers
<1> QED
  BY <1>1, CacheInvariance, PTL

\* A lookup returns its page with every change made to it (Index::fetch) but those
\* a failed write lost, whatever other lookups run beside it, unless one reads a
\* page on its way to the file.
THEOREM ReadsLatestHolds ==
    ASSUME FlushAlone PROVE Spec /\ [][ReadsAfterWrites]_vars => []ReadsLatest
<1>1. CacheInv => ReadsLatest
  BY DEF CacheInv
<1> QED
  BY <1>1, CacheInvariance, PTL

\* The next change of a page is made to a page with all changes so far but those a
\* failed write lost (Index::fetch_mut), whatever was pushed out and read again
\* between, by any number of lookups that read no page on its way to the file.
THEOREM NoChangeLostHolds ==
    ASSUME FlushAlone PROVE Spec /\ [][ReadsAfterWrites]_vars => []NoChangeLost
<1>1. CacheInv => NoChangeLost
  <2> SUFFICES ASSUME CacheInv, AllIdle, NEW id \in DOMAIN file
               PROVE  latest[id] = IF id \in DOMAIN pool.frames THEN pool.frames[id].page
                                   ELSE file[id]
    BY DEF NoChangeLost
  <2>1. ~OnItsWay(id)
    BY DEF OnItsWay, AllIdle, Idle
  <2> QED
    BY <2>1 DEF CacheInv, PoolCurrent, FrameCurrent, FileCurrent
<1> QED
  BY <1>1, CacheInvariance, PTL
-----------------------------------------------------------------------------
(***************************************************************************)
(* The buffer pool keeps within its bounds, for any number of lookups,      *)
(* pages and frames, and flushes beside them: never more frames than        *)
(* Capacity, each of a page of the file, each findable by evict_one in      *)
(* lru_order, which holds each id once.                                     *)
(*                                                                          *)
(* evict_one and retain search a list, so the proof goes by induction over  *)
(* its length: Except keeps the other ids, once each (ExceptFacts), and a   *)
(* pool that is not empty has a victim (VictimInPool).  TypeInv adds to     *)
(* TypeOK what the tasks and the flush in progress carry to the pool and to *)
(* the file.                                                                *)
(***************************************************************************)

\* A function defined by recursion on the sequence's length exists.
LEMMA ExceptEquation ==
    ASSUME NEW S, NEW s \in Seq(S), NEW id
    PROVE  \E kept : /\ Except(s, id) = kept[Len(s)]
                     /\ kept[0] = <<>>
                     /\ \A i \in 1..Len(s) :
                           kept[i] = IF s[i] = id THEN kept[i - 1] ELSE Append(kept[i - 1], s[i])
<1> DEFINE Body(g, i) == IF i = 0 THEN <<>>
                         ELSE IF s[i] = id THEN g[i - 1] ELSE Append(g[i - 1], s[i])
           IsKept(g, n) == g = [i \in 0..n |-> Body(g, i)]
           kept == CHOOSE g : IsKept(g, Len(s))
           Bad == {n \in 0..Len(s) : \A g : ~IsKept(g, n)}
<1>1. Len(s) \in Nat
  OBVIOUS
<1>2. Bad = {}
  <2> SUFFICES ASSUME Bad # {} PROVE FALSE
    OBVIOUS
  <2>1. PICK n \in Bad : \A k \in Bad : n <= k
    <3>1. Bad \in SUBSET Nat
      BY <1>1
    <3> HIDE DEF Bad
    <3> QED
      BY <3>1, LeastNatural
  <2>2. n \in 0..Len(s) /\ \A g : ~IsKept(g, n)
    BY <2>1
  <2>3. CASE n = 0
    <3> DEFINE g == [i \in 0..0 |-> <<>>]
    <3>1. IsKept(g, 0)
      OBVIOUS
    <3> HIDE DEF g, IsKept
    <3> QED
      BY <2>2, <2>3, <3>1
  <2>4. CASE n # 0
    <3>1. n - 1 \in 0..Len(s) /\ n - 1 \notin Bad
      <4>1. n - 1 \in 0..Len(s) /\ n - 1 < n /\ n \in Nat
        BY <1>1, <2>2, <2>4
      <4> HIDE DEF Bad
      <4> QED
        BY <2>1, <4>1
    <3>2. PICK g : IsKept(g, n - 1)
      BY <3>1
    <3> DEFINE h == [i \in 0..n |-> IF i = n THEN Body(g, n) ELSE g[i]]
    <3>3. ASSUME NEW i \in 0..n PROVE h[i] = Body(h, i)
      <4>1. CASE i = 0
        BY <1>1, <2>2, <2>4, <3>2, <4>1
      <4>2. CASE i # 0
        <5>1. i - 1 \in 0..n - 1 /\ i - 1 # n /\ i - 1 \in 0..n
          BY <1>1, <2>2, <4>2
        <5>2. h[i - 1] = g[i - 1]
          BY <5>1
        <5>3. Body(h, i) = Body(g, i)
          BY <5>2, <4>2
        <5>4. h[i] = Body(g, i)
          <6>1. CASE i = n
            BY <6>1
          <6>2. CASE i # n
            <7>1. i \in 0..n - 1
              BY <1>1, <2>2, <6>2
            <7> QED
              BY <3>2, <6>2, <7>1
          <6> QED
            BY <6>1, <6>2
        <5> QED
          BY <5>3, <5>4
      <4> QED
        BY <4>1, <4>2
    <3>4. IsKept(h, n)
      <4>1. h = [i \in 0..n |-> h[i]]
        OBVIOUS
      <4> HIDE DEF h, Body
      <4> QED
        BY <3>3, <4>1
    <3> HIDE DEF h, IsKept
    <3> QED
      BY <2>2, <3>4
  <2> QED
    BY <2>3, <2>4
<1>3. IsKept(kept, Len(s))
  <2>1. Len(s) \in 0..Len(s) /\ Len(s) \notin Bad
    BY <1>1, <1>2
  <2>2. \E g : IsKept(g, Len(s))
    BY <2>1
  <2> HIDE DEF IsKept
  <2> QED
    BY <2>2
<1>4. Except(s, id) = kept[Len(s)]
  BY Zenon DEF Except
<1> HIDE DEF kept
<1>5. kept[0] = <<>>
  BY <1>1, <1>3
<1>6. ASSUME NEW i \in 1..Len(s)
      PROVE  kept[i] = IF s[i] = id THEN kept[i - 1] ELSE Append(kept[i - 1], s[i])
  <2>1. i \in 0..Len(s) /\ i # 0
    BY <1>1
  <2> QED
    BY <1>3, <2>1
<1> QED
  BY <1>4, <1>5, <1>6

\* What retain and push_back leave of lru_order: each id once, the last one last.
LEMMA ExceptFacts ==
    ASSUME NEW S, NEW s \in Seq(S), IsInjective(s), NEW id
    PROVE  /\ Except(s, id) \in Seq(S) /\ IsInjective(Except(s, id))
           /\ ToSet(Except(s, id)) = ToSet(s) \ {id}
<1>1. PICK kept :
        /\ Except(s, id) = kept[Len(s)] /\ kept[0] = <<>>
        /\ \A i \in 1..Len(s) :
              kept[i] = IF s[i] = id THEN kept[i - 1] ELSE Append(kept[i - 1], s[i])
  BY ExceptEquation
<1> DEFINE P(n) == /\ kept[n] \in Seq(S) /\ IsInjective(kept[n])
                   /\ ToSet(kept[n]) = {s[j] : j \in 1..n} \ {id}
           Bad == {n \in 0..Len(s) : ~P(n)}
<1>2. Len(s) \in Nat /\ DOMAIN s = 1..Len(s)
  OBVIOUS
<1>3. P(0)
  BY <1>1 DEF IsInjective, ToSet
<1>4. ASSUME NEW n \in 1..Len(s), P(n - 1) PROVE P(n)
  <2>1. /\ n \in Nat /\ n - 1 \in Nat /\ s[n] \in S /\ 1..n = 1..(n - 1) \cup {n}
        /\ \A j \in 1..n - 1 : j \in DOMAIN s /\ n \in DOMAIN s /\ j # n
    BY <1>2
  <2>2. {s[j] : j \in 1..n} = {s[j] : j \in 1..n - 1} \cup {s[n]}
    BY <2>1
  <2>3. CASE s[n] = id
    <3>1. kept[n] = kept[n - 1]
      BY <1>1, <2>3
    <3> QED
      BY <1>4, <2>2, <2>3, <3>1
  <2>4. CASE s[n] # id
    <3>1. PICK t : t = kept[n - 1]
      OBVIOUS
    <3>2. t \in Seq(S) /\ IsInjective(t) /\ ToSet(t) = {s[j] : j \in 1..n - 1} \ {id}
      BY <1>4, <3>1
    <3>3. kept[n] = Append(t, s[n])
      BY <1>1, <2>4, <3>1
    <3>4. s[n] \notin ToSet(t)
      <4>1. \A j \in 1..n - 1 : s[j] # s[n]
        BY <2>1 DEF IsInjective
      <4> QED
        BY <3>2, <4>1
    <3>5. /\ Append(t, s[n]) \in Seq(S) /\ Len(Append(t, s[n])) = Len(t) + 1 /\ Len(t) \in Nat
          /\ \A j \in 1..Len(t) : Append(t, s[n])[j] = t[j] /\ t[j] # s[n]
          /\ Append(t, s[n])[Len(t) + 1] = s[n]
          /\ DOMAIN t = 1..Len(t) /\ DOMAIN Append(t, s[n]) = 1..Len(t) + 1
      BY <2>1, <3>2, <3>4 DEF ToSet
    <3>6. IsInjective(Append(t, s[n]))
      <4> SUFFICES ASSUME NEW a \in 1..Len(t) + 1, NEW b \in 1..Len(t) + 1,
                          Append(t, s[n])[a] = Append(t, s[n])[b]
                   PROVE  a = b
        BY <3>5 DEF IsInjective
      <4>1. CASE a \in 1..Len(t) /\ b \in 1..Len(t)
        BY <3>2, <3>5, <4>1 DEF IsInjective
      <4>2. CASE a = Len(t) + 1 \/ b = Len(t) + 1
        BY <3>5, <4>2
      <4> QED
        BY <3>5, <4>1, <4>2
    <3>7. ToSet(Append(t, s[n])) = ToSet(t) \cup {s[n]}
      BY <3>5 DEF ToSet
    <3> QED
      BY <2>2, <2>4, <3>2, <3>3, <3>5, <3>6, <3>7
  <2> QED
    BY <2>3, <2>4
<1>5. Bad = {}
  <2> SUFFICES ASSUME Bad # {} PROVE FALSE
    OBVIOUS
  <2>1. Bad \in SUBSET Nat
    BY <1>2
  <2>2. PICK n \in Bad : \A k \in Bad : n <= k
    <3> HIDE DEF Bad
    <3> QED
      BY <2>1, LeastNatural
  <2>3. n \in 0..Len(s) /\ ~P(n)
    BY <2>2
  <2>4. n # 0
    <3> HIDE DEF P
    <3> QED
      BY <1>3, <2>3
  <2>5. n \in 1..Len(s) /\ n - 1 \in 0..Len(s) /\ n - 1 < n
    BY <1>2, <2>3, <2>4
  <2>6. n - 1 \notin Bad
    <3> HIDE DEF Bad
    <3> QED
      BY <2>2, <2>5
  <2>7. P(n - 1)
    <3> HIDE DEF P
    <3> QED
      BY <2>5, <2>6
  <2> HIDE DEF P
  <2> QED
    BY <1>4, <2>3, <2>5, <2>7
<1>6. P(Len(s))
  <2> HIDE DEF P
  <2> QED
    BY <1>2, <1>5
<1> QED
  BY <1>1, <1>2, <1>6 DEF ToSet

\* The length of a list without repetitions.
LEMMA LenIsCardinality ==
    ASSUME NEW S, NEW s \in Seq(S), IsInjective(s)
    PROVE  Len(s) = Cardinality(ToSet(s))
<1>1. Len(s) \in Nat /\ DOMAIN s = 1..Len(s)
  OBVIOUS
<1>2. s \in Bijection(1..Len(s), ToSet(s))
  BY <1>1 DEF Bijection, Injection, Surjection, ToSet
<1>3. ExistsBijection(1..Len(s), ToSet(s))
  BY <1>2 DEF ExistsBijection
<1> QED
  BY <1>1, <1>3, FS_CountingElements
-----------------------------------------------------------------------------
FramesUpTo(n) == [page : SUBSET (1..n), page_lsn : 0..n, rec_lsn : 0..n]

PoolShape(pl, n) ==
    /\ pl = [frames |-> pl.frames, dirty |-> pl.dirty, lru |-> pl.lru]
    /\ pl.dirty \subseteq DOMAIN pl.frames
    /\ \A q \in DOMAIN pl.frames : pl.frames[q] \in FramesUpTo(n)
    /\ Cardinality(DOMAIN pl.frames) <= Capacity
    /\ pl.lru \in Seq(Pages) /\ IsInjective(pl.lru)
    /\ DOMAIN pl.frames \subseteq ToSet(pl.lru)

EvictedShape(evicted, n) == \A e \in evicted : e.page \subseteq 1..n /\ e.page_lsn \in 0..n

TaskShape(t) ==
    /\ t.pc \in {"idle", "miss", "insert", "writeback"}
    /\ t.pc = "miss" => t.id \in DOMAIN file
    /\ t.pc = "insert" => t.id \in DOMAIN file /\ t.page \subseteq 1..lsn
    /\ t.pc = "writeback" => t.evicted # {} /\ EvictedShape(t.evicted, lsn)

FlushShape ==
    /\ flush.pc \in {"idle", "next", "write"}
    /\ flush.pc = "write" => flush.id \in DOMAIN file /\ flush.page \subseteq 1..lsn

FileShape(f, n) == DOMAIN f \subseteq Pages /\ \A id \in DOMAIN f : f[id] \subseteq 1..n

TypeInv ==
    /\ lsn \in 0..MaxLsn /\ flushed \in 0..lsn
    /\ PoolShape(pool, lsn) /\ DOMAIN pool.frames \subseteq DOMAIN file
    /\ FileShape(file, lsn)
    /\ task = [r \in Readers |-> task[r]] /\ \A r \in Readers : TaskShape(task[r])
    /\ FlushShape

LEMMA TypeInvTypeOK == TypeInv => TypeOK
<1> SUFFICES ASSUME TypeInv PROVE TypeOK
  OBVIOUS
<1>1. MaxLsn \in Nat /\ lsn \in 0..MaxLsn
  BY PageStoreAssumption DEF TypeInv
<1>2. \A id \in DOMAIN pool.frames : pool.frames[id] \in Frame
  <2>1. FramesUpTo(lsn) \subseteq Frame
    BY <1>1 DEF FramesUpTo, Frame
  <2> QED
    BY <2>1 DEF TypeInv, PoolShape
<1>3. Len(pool.lru) = Cardinality(ToSet(pool.lru))
  BY LenIsCardinality DEF TypeInv, PoolShape
<1>4. ToSet(pool.lru) \subseteq Pages
  BY DEF TypeInv, PoolShape, ToSet
<1> QED
  BY <1>1, <1>2, <1>3, <1>4 DEF TypeInv, PoolShape, FileShape, TaskShape, FlushShape, TypeOK
-----------------------------------------------------------------------------
\* The page touched is the last of lru, and each is there once.
LEMMA TouchedOrder ==
    ASSUME NEW lru \in Seq(Pages), IsInjective(lru), NEW id \in Pages
    PROVE  /\ Append(Except(lru, id), id) \in Seq(Pages)
           /\ IsInjective(Append(Except(lru, id), id))
           /\ ToSet(lru) \cup {id} \subseteq ToSet(Append(Except(lru, id), id))
<1> DEFINE t == Except(lru, id)
           u == Append(t, id)
<1>1. t \in Seq(Pages) /\ IsInjective(t) /\ ToSet(t) = ToSet(lru) \ {id}
  BY ExceptFacts
<1> HIDE DEF t
<1>2. /\ u \in Seq(Pages) /\ Len(t) \in Nat /\ DOMAIN t = 1..Len(t) /\ DOMAIN u = 1..Len(t) + 1
      /\ \A j \in 1..Len(t) : u[j] = t[j] /\ t[j] # id
      /\ u[Len(t) + 1] = id
  BY <1>1 DEF ToSet
<1> HIDE DEF u
<1>3. IsInjective(u)
  <2> SUFFICES ASSUME NEW a \in 1..Len(t) + 1, NEW b \in 1..Len(t) + 1, u[a] = u[b] PROVE a = b
    BY <1>2 DEF IsInjective
  <2>1. CASE a \in 1..Len(t) /\ b \in 1..Len(t)
    BY <1>1, <1>2, <2>1 DEF IsInjective
  <2>2. CASE a = Len(t) + 1 \/ b = Len(t) + 1
    BY <1>2, <2>2
  <2> QED
    BY <1>2, <2>1, <2>2
<1>4. ToSet(u) = ToSet(t) \cup {id}
  BY <1>2 DEF ToSet
<1> QED
  BY <1>1, <1>2, <1>3, <1>4 DEF t, u

LEMMA TouchShape ==
    ASSUME NEW n, NEW pl, PoolShape(pl, n), NEW id \in Pages
    PROVE  PoolShape(Touch(pl, id), n) /\ Touch(pl, id).frames = pl.frames
<1>1. Touch(pl, id) = [frames |-> pl.frames, dirty |-> pl.dirty,
                       lru |-> Append(Except(pl.lru, id), id)]
  <2>1. pl = [frames |-> pl.frames, dirty |-> pl.dirty, lru |-> pl.lru]
    BY DEF PoolShape
  <2> QED
    BY <2>1 DEF Touch
<1>2. /\ Append(Except(pl.lru, id), id) \in Seq(Pages)
      /\ IsInjective(Append(Except(pl.lru, id), id))
      /\ ToSet(pl.lru) \cup {id} \subseteq ToSet(Append(Except(pl.lru, id), id))
  BY TouchedOrder DEF PoolShape
<1> QED
  BY <1>1, <1>2 DEF PoolShape

\* evict_one finds a page in a pool that is not empty.
LEMMA VictimInPool ==
    ASSUME NEW n, NEW pl, PoolShape(pl, n), DOMAIN pl.frames # {}
    PROVE  Victim(pl) \in DOMAIN pl.frames
<1> DEFINE S == {i \in DOMAIN pl.lru : pl.lru[i] \in DOMAIN pl.frames}
<1>1. DOMAIN pl.lru = 1..Len(pl.lru) /\ Len(pl.lru) \in Nat
  BY DEF PoolShape
<1>2. S # {} /\ S \in SUBSET Nat
  BY <1>1 DEF PoolShape, ToSet
<1>3. PICK m \in S : \A k \in S : m <= k
  <2> HIDE DEF S
  <2> QED
    BY <1>2, LeastNatural
<1>4. m \in DOMAIN pl.lru /\ pl.lru[m] \in DOMAIN pl.frames
  OBVIOUS
<1>5. \A j \in 1..m - 1 : pl.lru[j] \notin DOMAIN pl.frames
  BY <1>1, <1>3, <1>4
<1>6. \E i \in DOMAIN pl.lru : /\ pl.lru[i] \in DOMAIN pl.frames
                              /\ \A j \in 1..i - 1 : pl.lru[j] \notin DOMAIN pl.frames
  BY <1>4, <1>5
<1> QED
  BY <1>6 DEF Victim

LEMMA InsertShape ==
    ASSUME NEW n \in Nat, PoolShape(pool, n), DOMAIN pool.frames \subseteq Pages,
           NEW id \in Pages, NEW page \in SUBSET (1..n)
    PROVE  /\ PoolShape(Insert(pool, id, page).pool, n)
           /\ id \in DOMAIN Insert(pool, id, page).pool.frames
           /\ DOMAIN Insert(pool, id, page).pool.frames \subseteq DOMAIN pool.frames \cup {id}
           /\ EvictedShape(Insert(pool, id, page).evicted, n)
<1> DEFINE v == Victim(pool)
           new == [page |-> page, page_lsn |-> 0, rec_lsn |-> 0]
           full == id \notin DOMAIN pool.frames /\ Cardinality(DOMAIN pool.frames) >= Capacity
           rest == IF full THEN Without(pool, v) ELSE pool
           put == [rest EXCEPT !.frames = Put(@, id, new)]
<1>1. CASE id \in DOMAIN pool.frames
  <2>1. Insert(pool, id, page) = [evicted |-> {}, pool |-> Touch(pool, id)]
    BY <1>1 DEF Insert, InsertInto
  <2> QED
    BY <1>1, <2>1, TouchShape DEF EvictedShape
<1>2. CASE id \notin DOMAIN pool.frames
  <2>1. Insert(pool, id, page)
        = [evicted |-> IF full THEN Evicted(pool, v) ELSE {}, pool |-> Touch(put, id)]
    BY <1>2 DEF Insert, InsertInto
  <2>2. /\ IsFiniteSet(DOMAIN pool.frames) /\ Cardinality(DOMAIN pool.frames) \in Nat
        /\ Capacity \in Nat /\ Capacity # 0 /\ Cardinality(DOMAIN pool.frames) <= Capacity
    <3>1. IsFiniteSet(Pages) /\ Capacity \in Nat \ {0}
      BY PageStoreAssumption
    <3>2. IsFiniteSet(DOMAIN pool.frames)
      BY <3>1, FS_Subset
    <3> QED
      BY <3>1, <3>2, FS_CardinalityType DEF PoolShape
  <2>3. full => v \in DOMAIN pool.frames
    <3>1. full => DOMAIN pool.frames # {}
      BY <2>2, FS_EmptySet
    <3> HIDE DEF full
    <3> QED
      BY <3>1, VictimInPool
  <2>4. /\ rest = [frames |-> rest.frames, dirty |-> rest.dirty, lru |-> rest.lru]
        /\ DOMAIN rest.frames = IF full THEN DOMAIN pool.frames \ {v} ELSE DOMAIN pool.frames
        /\ rest.dirty \subseteq DOMAIN rest.frames
        /\ \A q \in DOMAIN rest.frames : rest.frames[q] \in FramesUpTo(n)
        /\ rest.lru \in Seq(Pages) /\ IsInjective(rest.lru)
        /\ DOMAIN rest.frames \subseteq ToSet(rest.lru)
    <3>1. CASE full
      <4>1. rest = [frames |-> [q \in DOMAIN pool.frames \ {v} |-> pool.frames[q]],
                    dirty |-> pool.dirty \ {v}, lru |-> Except(pool.lru, v)]
        BY <3>1 DEF Without
      <4>2. /\ Except(pool.lru, v) \in Seq(Pages) /\ IsInjective(Except(pool.lru, v))
            /\ ToSet(Except(pool.lru, v)) = ToSet(pool.lru) \ {v}
        <5> HIDE DEF v
        <5> QED
          BY ExceptFacts DEF PoolShape
      <4> HIDE DEF v, rest, full
      <4> QED
        BY <3>1, <4>1, <4>2 DEF PoolShape
    <3>2. CASE ~full
      BY <3>2 DEF PoolShape
    <3> QED
      BY <3>1, <3>2
  <2>5. Cardinality(DOMAIN rest.frames \cup {id}) <= Capacity
    <3>1. CASE full
      <4>1. Cardinality(DOMAIN pool.frames \ {v}) = Cardinality(DOMAIN pool.frames) - 1
            /\ IsFiniteSet(DOMAIN pool.frames \ {v})
        BY <2>2, <2>3, <3>1, FS_RemoveElement
      <4>2. Cardinality((DOMAIN pool.frames \ {v}) \cup {id}) = Cardinality(DOMAIN pool.frames \ {v}) + 1
        <5>1. id \notin DOMAIN pool.frames \ {v}
          BY <1>2
        <5> QED
          BY <4>1, <5>1, FS_AddElement
      <4>3. DOMAIN rest.frames = DOMAIN pool.frames \ {v}
        BY <2>4, <3>1
      <4> QED
        BY <2>2, <4>1, <4>2, <4>3
    <3>2. CASE ~full
      <4>1. Cardinality(DOMAIN pool.frames) < Capacity
        BY <1>2, <2>2, <3>2
      <4>2. Cardinality(DOMAIN pool.frames \cup {id}) = Cardinality(DOMAIN pool.frames) + 1
        BY <1>2, <2>2, FS_AddElement
      <4>3. DOMAIN rest.frames = DOMAIN pool.frames
        BY <2>4, <3>2
      <4> HIDE DEF rest
      <4> QED
        BY <2>2, <4>1, <4>2, <4>3
    <3> QED
      BY <3>1, <3>2
  <2>6. new \in FramesUpTo(n)
    BY DEF FramesUpTo
  <2>7. EvictedShape(IF full THEN Evicted(pool, v) ELSE {}, n)
    <3>1. CASE full /\ v \in pool.dirty
      <4>1. pool.frames[v] \in FramesUpTo(n)
        BY <2>3, <3>1 DEF PoolShape
      <4> QED
        BY <3>1, <4>1 DEF EvictedShape, Evicted, FramesUpTo
    <3>2. CASE ~(full /\ v \in pool.dirty)
      BY <3>2 DEF EvictedShape, Evicted
    <3> QED
      BY <3>1, <3>2
  <2> HIDE DEF new, rest, full, v
  <2>8. put = [frames |-> Put(rest.frames, id, new), dirty |-> rest.dirty, lru |-> rest.lru]
    BY <2>4
  <2>9. /\ DOMAIN Put(rest.frames, id, new) = DOMAIN rest.frames \cup {id}
        /\ \A q \in DOMAIN rest.frames \cup {id} :
              Put(rest.frames, id, new)[q] = IF q = id THEN new ELSE rest.frames[q]
    BY DEF Put
  <2> HIDE DEF put
  <2>10. Touch(put, id) = [frames |-> Put(rest.frames, id, new), dirty |-> rest.dirty,
                           lru |-> Append(Except(rest.lru, id), id)]
    BY <2>8 DEF Touch
  <2>11. /\ Append(Except(rest.lru, id), id) \in Seq(Pages)
         /\ IsInjective(Append(Except(rest.lru, id), id))
         /\ ToSet(rest.lru) \cup {id} \subseteq ToSet(Append(Except(rest.lru, id), id))
    BY <2>4, TouchedOrder
  <2>12. PICK tp : tp = Touch(put, id)
    OBVIOUS
  <2>13. /\ tp = [frames |-> tp.frames, dirty |-> tp.dirty, lru |-> tp.lru]
         /\ tp.frames = Put(rest.frames, id, new) /\ tp.dirty = rest.dirty
         /\ tp.lru = Append(Except(rest.lru, id), id)
    BY <2>10, <2>12
  <2>14. \A q \in DOMAIN tp.frames : tp.frames[q] \in FramesUpTo(n)
    BY <2>4, <2>6, <2>9, <2>13
  <2>15. PoolShape(tp, n)
    BY <2>4, <2>5, <2>9, <2>11, <2>13, <2>14 DEF PoolShape
  <2>16. Insert(pool, id, page).pool = tp
         /\ Insert(pool, id, page).evicted = IF full THEN Evicted(pool, v) ELSE {}
    BY <2>1, <2>12
  <2>17. id \in DOMAIN tp.frames /\ DOMAIN tp.frames \subseteq DOMAIN pool.frames \cup {id}
    BY <2>4, <2>9, <2>13
  <2> QED
    BY <2>7, <2>15, <2>16, <2>17
<1> QED
  BY <1>1, <1>2

\* Writing back a page that was pushed out, if one was.
LEMMA WriteBackShape ==
    ASSUME lsn \in Nat, flushed \in 0..lsn, FileShape(file, lsn),
           NEW evicted, EvictedShape(evicted, lsn)
    PROVE  /\ evicted # {} => FlushedFor(evicted) \in 0..lsn
           /\ FileShape(WrittenBack(evicted), lsn)
           /\ DOMAIN WrittenBack(evicted) = DOMAIN file
<1>1. CASE evicted = {}
  <2>1. WrittenBack(evicted) = [id \in DOMAIN file |-> file[id]]
    BY <1>1 DEF WrittenBack
  <2> QED
    BY <1>1, <2>1 DEF FileShape
<1>2. CASE evicted # {}
  <2>1. PICK e \in evicted : e = CHOOSE x \in evicted : TRUE
    BY <1>2
  <2>2. e.page \subseteq 1..lsn /\ e.page_lsn \in 0..lsn
    BY DEF EvictedShape
  <2>3. FlushedFor(evicted) = IF e.page_lsn > flushed THEN e.page_lsn ELSE flushed
    BY <2>1 DEF FlushedFor
  <2>4. \A id \in DOMAIN file : WrittenBack(evicted)[id] \in {e.page, file[id]}
    BY <2>1 DEF WrittenBack
  <2>5. DOMAIN WrittenBack(evicted) = DOMAIN file
    BY DEF WrittenBack
  <2> QED
    BY <2>2, <2>3, <2>4, <2>5 DEF FileShape
<1> QED
  BY <1>1, <1>2

LEMMA LargerLsn ==
    ASSUME NEW m \in Nat, NEW n \in Nat, m <= n
    PROVE  /\ FramesUpTo(m) \subseteq FramesUpTo(n)
           /\ \A pl : PoolShape(pl, m) => PoolShape(pl, n)
           /\ \A f : FileShape(f, m) => FileShape(f, n)
<1>1. 1..m \subseteq 1..n /\ 0..m \subseteq 0..n
  OBVIOUS
<1>2. FramesUpTo(m) \subseteq FramesUpTo(n)
  BY <1>1 DEF FramesUpTo
<1>3. \A f : FileShape(f, m) => FileShape(f, n)
  BY <1>1 DEF FileShape
<1> QED
  BY <1>2, <1>3 DEF PoolShape

\* A step of one fetch.
LEMMA TaskShapeStep ==
    ASSUME TypeInv, NEW r \in Readers, NEW t, task' = [task EXCEPT ![r] = t],
           TaskShape(t), lsn' = lsn, DOMAIN file' = DOMAIN file, flush' = flush
    PROVE  /\ task' = [s \in Readers |-> task'[s]] /\ \A s \in Readers : TaskShape(task[s])'
           /\ FlushShape'
<1>1. task' = [s \in Readers |-> IF s = r THEN t ELSE task[s]]
  BY DEF TypeInv
<1>2. ASSUME NEW s \in Readers PROVE TaskShape(task[s])'
  <2>1. TaskShape(IF s = r THEN t ELSE task[s])
    BY DEF TypeInv
  <2>2. task'[s] = IF s = r THEN t ELSE task[s]
    BY <1>1
  <2>3. PICK u : u = task'[s]
    OBVIOUS
  <2>4. TaskShape(u)
    BY <2>1, <2>2, <2>3
  <2>5. TaskShape(u)'
    BY <2>4 DEF TaskShape
  <2> QED
    BY <2>3, <2>5 DEF TaskShape
<1> QED
  BY <1>1, <1>2 DEF FlushShape, TypeInv

LEMMA InitShape == Init => TypeInv
<1> SUFFICES ASSUME Init PROVE TypeInv
  OBVIOUS
<1>1. DOMAIN pool.frames = {} /\ DOMAIN file = {} /\ pool.lru = <<>> /\ pool.dirty = {}
      /\ pool = [frames |-> pool.frames, dirty |-> pool.dirty, lru |-> pool.lru]
  BY DEF Init
<1>2. PoolShape(pool, lsn)
  BY <1>1, FS_EmptySet, PageStoreAssumption DEF PoolShape, IsInjective
<1> QED
  BY <1>1, <1>2, PageStoreAssumption DEF Init, TypeInv, FileShape, TaskShape, FlushShape, Idle

LEMMA HitShape == ASSUME TypeInv, NEW r \in Readers, NEW id \in Pages, Hit(r, id) PROVE TypeInv'
<1>1. UNCHANGED <<lsn, flushed, file, flush>> /\ pool' = Touch(pool, id)
      /\ task' = [task EXCEPT ![r] = Idle]
  BY DEF Hit, Return
<1>2. PoolShape(pool', lsn) /\ pool'.frames = pool.frames
  BY <1>1, TouchShape DEF TypeInv
<1>3. TaskShape(Idle)
  BY DEF TaskShape, Idle
<1> QED
  BY <1>1, <1>2, <1>3, TaskShapeStep DEF TypeInv

LEMMA MissShape == ASSUME TypeInv, NEW r \in Readers, NEW id \in Pages, Miss(r, id) PROVE TypeInv'
<1> DEFINE t == [pc |-> "miss", id |-> id]
<1>1. UNCHANGED <<lsn, flushed, file, flush>> /\ pool' = Touch(pool, id) /\ id \in DOMAIN file
      /\ task' = [task EXCEPT ![r] = t]
  BY DEF Miss
<1>2. PoolShape(pool', lsn) /\ pool'.frames = pool.frames
  BY <1>1, TouchShape DEF TypeInv
<1>3. TaskShape(t)
  BY <1>1 DEF TaskShape
<1> HIDE DEF t
<1> QED
  BY <1>1, <1>2, <1>3, TaskShapeStep DEF TypeInv

LEMMA ReadFileShape == ASSUME TypeInv, NEW r \in Readers, ReadFile(r) PROVE TypeInv'
<1> DEFINE t == [pc |-> "insert", id |-> task[r].id, page |-> file[task[r].id]]
<1>1. UNCHANGED <<lsn, flushed, file, flush, pool>> /\ task[r].pc = "miss"
  BY DEF ReadFile
<1>2. task' = [task EXCEPT ![r] = t]
  BY DEF ReadFile, TypeInv
<1>3. TaskShape(t)
  BY <1>1 DEF TypeInv, TaskShape, FileShape
<1> HIDE DEF t
<1> QED
  BY <1>1, <1>2, <1>3, TaskShapeStep DEF TypeInv

LEMMA InsertReadShape == ASSUME TypeInv, NEW r \in Readers, InsertRead(r) PROVE TypeInv'
<1> DEFINE id == task[r].id
           page == task[r].page
           ins == Insert(pool, id, page)
           u == [pc |-> "writeback", id |-> id, page |-> page, evicted |-> ins.evicted]
<1>1. UNCHANGED <<lsn, flushed, file, flush>> /\ pool' = ins.pool /\ task[r].pc = "insert"
      /\ task' = [task EXCEPT ![r] = IF ins.evicted = {} THEN Idle ELSE u]
  BY DEF InsertRead, Return
<1>2. id \in DOMAIN file /\ page \in SUBSET (1..lsn) /\ id \in Pages /\ lsn \in Nat
      /\ PoolShape(pool, lsn) /\ DOMAIN pool.frames \subseteq Pages
  BY <1>1, PageStoreAssumption DEF TypeInv, TaskShape, FileShape
<1>3. PoolShape(ins.pool, lsn) /\ DOMAIN ins.pool.frames \subseteq DOMAIN pool.frames \cup {id}
      /\ EvictedShape(ins.evicted, lsn)
  <2> HIDE DEF id, page
  <2> QED
    BY <1>2, InsertShape
<1> HIDE DEF ins
<1>4. TaskShape(IF ins.evicted = {} THEN Idle ELSE u)
  BY <1>3 DEF TaskShape, Idle
<1> HIDE DEF u, id
<1> QED
  BY <1>1, <1>2, <1>3, <1>4, TaskShapeStep DEF TypeInv

LEMMA WriteBackStepShape == ASSUME TypeInv, NEW r \in Readers, WriteBack(r) PROVE TypeInv'
<1> DEFINE evicted == task[r].evicted
<1>1. UNCHANGED <<lsn, pool, flush>> /\ task[r].pc = "writeback"
      /\ flushed' = FlushedFor(evicted) /\ file' = WrittenBack(evicted)
      /\ task' = [task EXCEPT ![r] = Idle]
  BY DEF WriteBack, Return
<1>2. evicted # {} /\ EvictedShape(evicted, lsn) /\ lsn \in Nat
  BY <1>1, PageStoreAssumption DEF TypeInv, TaskShape
<1> HIDE DEF evicted
<1>3. flushed' \in 0..lsn /\ FileShape(file', lsn) /\ DOMAIN file' = DOMAIN file
  BY <1>1, <1>2, WriteBackShape DEF TypeInv
<1>4. TaskShape(Idle)
  BY DEF TaskShape, Idle
<1> QED
  BY <1>1, <1>3, <1>4, TaskShapeStep DEF TypeInv

LEMMA ReadFailsShape == ASSUME TypeInv, NEW r \in Readers, ReadFails(r) PROVE TypeInv'
<1>1. UNCHANGED <<lsn, flushed, file, flush, pool>> /\ task' = [task EXCEPT ![r] = Idle]
  BY DEF ReadFails
<1>2. TaskShape(Idle)
  BY DEF TaskShape, Idle
<1> QED
  BY <1>1, <1>2, TaskShapeStep DEF TypeInv

LEMMA WriteBackFailsShape == ASSUME TypeInv, NEW r \in Readers, WriteBackFails(r) PROVE TypeInv'
<1> DEFINE evicted == task[r].evicted
<1>1. UNCHANGED <<lsn, file, pool, flush>> /\ task[r].pc = "writeback"
      /\ flushed' \in {flushed, FlushedFor(evicted)}
      /\ task' = [task EXCEPT ![r] = Idle]
  BY DEF WriteBackFails, WriteFails
<1>2. evicted # {} /\ EvictedShape(evicted, lsn) /\ lsn \in Nat
  BY <1>1, PageStoreAssumption DEF TypeInv, TaskShape
<1> HIDE DEF evicted
<1>3. flushed' \in 0..lsn
  BY <1>1, <1>2, WriteBackShape DEF TypeInv
<1>4. TaskShape(Idle)
  BY DEF TaskShape, Idle
<1> QED
  BY <1>1, <1>3, <1>4, TaskShapeStep DEF TypeInv

LEMMA IdleShape ==
    ASSUME TypeInv, AllIdle, task' = task
    PROVE  task' = [r \in Readers |-> task'[r]] /\ \A r \in Readers : TaskShape(task[r])'
BY DEF TypeInv, AllIdle, TaskShape, Idle

LEMMA FetchMutShape ==
    ASSUME TypeInv, NEW id \in DOMAIN file
    PROVE  /\ Fetched(id) \in SUBSET (1..lsn)
           /\ PoolShape(FetchMut(id).pool, lsn) /\ id \in DOMAIN FetchMut(id).pool.frames
           /\ DOMAIN FetchMut(id).pool.frames \subseteq DOMAIN file
           /\ EvictedShape(FetchMut(id).evicted, lsn)
<1>1. /\ lsn \in Nat /\ PoolShape(pool, lsn) /\ id \in Pages
      /\ DOMAIN pool.frames \subseteq DOMAIN file /\ DOMAIN pool.frames \subseteq Pages
  BY PageStoreAssumption DEF TypeInv, FileShape
<1>2. Fetched(id) \in SUBSET (1..lsn)
  <2>1. CASE id \in DOMAIN pool.frames
    <3>1. pool.frames[id] \in FramesUpTo(lsn)
      BY <1>1, <2>1 DEF PoolShape
    <3> QED
      BY <2>1, <3>1 DEF Fetched, FramesUpTo
  <2>2. CASE id \notin DOMAIN pool.frames
    BY <2>2 DEF Fetched, TypeInv, FileShape
  <2> QED
    BY <2>1, <2>2
<1>3. PICK page : page = Fetched(id)
  OBVIOUS
<1>4. PICK ins : ins = Insert(pool, id, page)
  OBVIOUS
<1>5. PoolShape(ins.pool, lsn) /\ id \in DOMAIN ins.pool.frames
      /\ DOMAIN ins.pool.frames \subseteq DOMAIN pool.frames \cup {id}
      /\ EvictedShape(ins.evicted, lsn)
  BY <1>1, <1>2, <1>3, <1>4, InsertShape
<1>6. FetchMut(id) = ins
  BY <1>3, <1>4 DEF FetchMut
<1> QED
  BY <1>1, <1>2, <1>5, <1>6

\* A fetched page is dirty from then on, whether it was changed or not.
LEMMA DirtyShape ==
    ASSUME NEW n, NEW pl, PoolShape(pl, n), NEW id \in DOMAIN pl.frames
    PROVE  /\ PoolShape([pl EXCEPT !.dirty = @ \cup {id}], n)
           /\ [pl EXCEPT !.dirty = @ \cup {id}].frames = pl.frames
<1>1. pl = [frames |-> pl.frames, dirty |-> pl.dirty, lru |-> pl.lru]
  BY DEF PoolShape
<1>2. PICK ch : ch = [pl EXCEPT !.dirty = @ \cup {id}]
  OBVIOUS
<1>3. ch = [frames |-> pl.frames, dirty |-> pl.dirty \cup {id}, lru |-> pl.lru]
  BY <1>1, <1>2
<1>4. PoolShape(ch, n) /\ ch.frames = pl.frames
  BY <1>3 DEF PoolShape
<1> QED
  BY <1>2, <1>4

LEMMA ChangeUnloggedShape == ASSUME TypeInv, NEW id \in Pages, ChangeUnlogged(id) PROVE TypeInv'
<1>1. PICK ins : ins = FetchMut(id)
  OBVIOUS
<1>2. /\ AllIdle /\ id \in DOMAIN file /\ UNCHANGED <<lsn, task, flush>>
      /\ pool' = [ins.pool EXCEPT !.dirty = @ \cup {id}]
      /\ flushed' = IF ins.evicted = {} THEN flushed ELSE FlushedFor(ins.evicted)
      /\ file' = WrittenBack(ins.evicted)
  BY <1>1 DEF ChangeUnlogged
<1>3. /\ PoolShape(ins.pool, lsn) /\ id \in DOMAIN ins.pool.frames
      /\ DOMAIN ins.pool.frames \subseteq DOMAIN file
      /\ EvictedShape(ins.evicted, lsn) /\ lsn \in Nat
  BY <1>1, <1>2, FetchMutShape, PageStoreAssumption DEF TypeInv
<1>4. PoolShape(pool', lsn) /\ pool'.frames = ins.pool.frames
  <2>1. PICK pl : pl = ins.pool
    OBVIOUS
  <2> QED
    BY <1>2, <1>3, <2>1, DirtyShape
<1>5. flushed' \in 0..lsn /\ FileShape(file', lsn) /\ DOMAIN file' = DOMAIN file
  BY <1>2, <1>3, WriteBackShape DEF TypeInv
<1>6. FlushShape'
  BY <1>2, <1>5 DEF TypeInv, FlushShape
<1> QED
  BY <1>2, <1>3, <1>4, <1>5, <1>6, IdleShape DEF TypeInv

LEMMA ChangeFailsShape == ASSUME TypeInv, NEW id \in Pages, ChangeFails(id) PROVE TypeInv'
<1>1. PICK ins : ins = FetchMut(id)
  OBVIOUS
<1>2. /\ AllIdle /\ id \in DOMAIN file /\ UNCHANGED <<file, lsn, task, flush>>
      /\ \/ pool' = Touch(pool, id) /\ flushed' = flushed
         \/ /\ ins.evicted # {} /\ pool' = ins.pool
            /\ flushed' \in {flushed, FlushedFor(ins.evicted)}
  BY <1>1 DEF ChangeFails, WriteFails
<1>3. /\ PoolShape(ins.pool, lsn) /\ DOMAIN ins.pool.frames \subseteq DOMAIN file
      /\ EvictedShape(ins.evicted, lsn) /\ lsn \in Nat
  BY <1>1, <1>2, FetchMutShape, PageStoreAssumption DEF TypeInv
<1>4. PoolShape(Touch(pool, id), lsn) /\ Touch(pool, id).frames = pool.frames
  BY TouchShape DEF TypeInv
<1>5. PoolShape(pool', lsn) /\ DOMAIN pool'.frames \subseteq DOMAIN file
  BY <1>2, <1>3, <1>4 DEF TypeInv
<1>6. flushed' \in 0..lsn
  BY <1>2, <1>3, WriteBackShape DEF TypeInv
<1>7. FlushShape'
  BY <1>2 DEF TypeInv, FlushShape
<1> QED
  BY <1>2, <1>5, <1>6, <1>7, IdleShape DEF TypeInv

LEMMA ChangeShape == ASSUME TypeInv, NEW id \in Pages, Change(id) PROVE TypeInv'
<1> DEFINE page == Fetched(id)
           ins == FetchMut(id)
           rec == RecLsn(ins.pool.frames[id].rec_lsn, lsn + 1)
           new == [page |-> page \cup {lsn + 1}, page_lsn |-> lsn + 1, rec_lsn |-> rec]
<1>1. /\ AllIdle /\ id \in DOMAIN file /\ lsn < MaxLsn /\ lsn' = lsn + 1 /\ UNCHANGED <<task, flush>>
      /\ pool' = Update(ins.pool, id, page \cup {lsn + 1}, lsn + 1)
      /\ flushed' = IF ins.evicted = {} THEN flushed ELSE FlushedFor(ins.evicted)
      /\ file' = WrittenBack(ins.evicted)
  BY DEF Change
<1>2. lsn \in Nat /\ MaxLsn \in Nat /\ lsn' \in 0..MaxLsn /\ PoolShape(pool, lsn)
      /\ DOMAIN pool.frames \subseteq Pages
  BY <1>1, PageStoreAssumption DEF TypeInv, FileShape
<1>3. page \in SUBSET (1..lsn)
  BY <1>1, FetchMutShape
<1>4. /\ PoolShape(ins.pool, lsn) /\ id \in DOMAIN ins.pool.frames
      /\ DOMAIN ins.pool.frames \subseteq DOMAIN file
      /\ EvictedShape(ins.evicted, lsn)
  BY <1>1, FetchMutShape
<1>5. pool' = Touch([ins.pool EXCEPT !.dirty = @ \cup {id}, !.frames = Put(@, id, new)], id)
  BY <1>1 DEF Update
<1> HIDE DEF page, ins
<1>6. new \in FramesUpTo(lsn')
  <2>1. ins.pool.frames[id] \in FramesUpTo(lsn)
    BY <1>4 DEF PoolShape
  <2>2. rec \in 0..lsn'
    BY <1>1, <1>2, <2>1 DEF FramesUpTo, RecLsn
  <2> HIDE DEF rec
  <2> QED
    BY <1>1, <1>2, <1>3, <2>2 DEF FramesUpTo
<1> HIDE DEF new
<1>7. PoolShape(pool', lsn') /\ DOMAIN pool'.frames = DOMAIN ins.pool.frames
  <2>1. PICK pl : pl = ins.pool
    OBVIOUS
  <2>2. PoolShape(pl, lsn') /\ id \in DOMAIN pl.frames
    BY <1>1, <1>2, <1>4, <2>1, LargerLsn
  <2>3. PICK ch : ch = [pl EXCEPT !.dirty = @ \cup {id}, !.frames = Put(@, id, new)]
    OBVIOUS
  <2>4. ch = [frames |-> Put(pl.frames, id, new), dirty |-> pl.dirty \cup {id}, lru |-> pl.lru]
    <3>1. pl = [frames |-> pl.frames, dirty |-> pl.dirty, lru |-> pl.lru]
      BY <2>2 DEF PoolShape
    <3> QED
      BY <2>3, <3>1
  <2>5. DOMAIN Put(pl.frames, id, new) = DOMAIN pl.frames
        /\ \A q \in DOMAIN pl.frames :
              Put(pl.frames, id, new)[q] = IF q = id THEN new ELSE pl.frames[q]
    BY <2>2 DEF Put
  <2>6. PoolShape(ch, lsn') /\ DOMAIN ch.frames = DOMAIN pl.frames
    BY <1>6, <2>2, <2>4, <2>5 DEF PoolShape
  <2>7. pool' = Touch(ch, id)
    BY <1>5, <2>1, <2>3
  <2> QED
    BY <2>1, <2>6, <2>7, TouchShape
<1>8. flushed' \in 0..lsn' /\ FileShape(file', lsn') /\ DOMAIN file' = DOMAIN file
  <2>1. flushed' \in 0..lsn /\ FileShape(file', lsn) /\ DOMAIN file' = DOMAIN file
    BY <1>1, <1>2, <1>4, WriteBackShape DEF TypeInv
  <2> QED
    BY <1>1, <1>2, <2>1, LargerLsn
<1>9. DOMAIN pool'.frames \subseteq DOMAIN file'
  BY <1>1, <1>4, <1>7, <1>8 DEF TypeInv
<1>10. FlushShape'
  <2>1. 1..lsn \subseteq 1..lsn'
    BY <1>1, <1>2
  <2> QED
    BY <1>1, <1>8, <2>1 DEF TypeInv, FlushShape
<1> QED
  BY <1>1, <1>2, <1>7, <1>8, <1>9, <1>10, IdleShape DEF TypeInv

LEMMA AllocateShape == ASSUME TypeInv, NEW id \in Pages, Allocate(id) PROVE TypeInv'
<1> DEFINE ins == Insert(pool, id, {})
<1>1. /\ AllIdle /\ UNCHANGED <<lsn, task, flush>>
      /\ pool' = [ins.pool EXCEPT !.dirty = @ \cup {id}]
      /\ flushed' = IF ins.evicted = {} THEN flushed ELSE FlushedFor(ins.evicted)
      /\ file' = Put(WrittenBack(ins.evicted), id, {})
  BY DEF Allocate
<1>2. lsn \in Nat /\ PoolShape(pool, lsn) /\ DOMAIN pool.frames \subseteq Pages
  BY PageStoreAssumption DEF TypeInv, FileShape
<1>3. /\ PoolShape(ins.pool, lsn) /\ id \in DOMAIN ins.pool.frames
      /\ DOMAIN ins.pool.frames \subseteq DOMAIN pool.frames \cup {id}
      /\ EvictedShape(ins.evicted, lsn)
  BY <1>2, InsertShape
<1> HIDE DEF ins
<1>4. PoolShape(pool', lsn) /\ pool'.frames = ins.pool.frames
  <2>1. PICK pl : pl = ins.pool
    OBVIOUS
  <2>2. pl = [frames |-> pl.frames, dirty |-> pl.dirty, lru |-> pl.lru]
    BY <1>3, <2>1 DEF PoolShape
  <2>3. pool' = [frames |-> pl.frames, dirty |-> pl.dirty \cup {id}, lru |-> pl.lru]
    BY <1>1, <2>1, <2>2
  <2>4. PoolShape(pl, lsn) /\ id \in DOMAIN pl.frames
    BY <1>3, <2>1
  <2> QED
    BY <2>1, <2>3, <2>4 DEF PoolShape
<1>5. /\ FileShape(WrittenBack(ins.evicted), lsn) /\ DOMAIN WrittenBack(ins.evicted) = DOMAIN file
      /\ flushed' \in 0..lsn
  BY <1>1, <1>2, <1>3, WriteBackShape DEF TypeInv
<1>6. FileShape(file', lsn) /\ DOMAIN file' = DOMAIN file \cup {id}
  BY <1>1, <1>5 DEF Put, FileShape
<1>7. FlushShape'
  BY <1>1, <1>6 DEF TypeInv, FlushShape
<1> QED
  BY <1>1, <1>3, <1>4, <1>5, <1>6, <1>7, IdleShape DEF TypeInv

\* The steps of a flush, and of whoever does nothing, touch no task and no file page's id.
LEMMA FlushShapeStep ==
    ASSUME TypeInv, UNCHANGED <<lsn, task>>, DOMAIN file' = DOMAIN file, flushed' \in 0..lsn,
           FileShape(file', lsn), PoolShape(pool', lsn), DOMAIN pool'.frames = DOMAIN pool.frames,
           FlushShape'
    PROVE  TypeInv'
<1>1. \A r \in Readers : TaskShape(task[r])'
  BY DEF TypeInv, TaskShape
<1> QED
  BY <1>1 DEF TypeInv

LEMMA FlushGetShape == ASSUME TypeInv, NEW id \in Pages, FlushGet(id) PROVE TypeInv'
<1>1. UNCHANGED <<file, lsn, flushed, task>> /\ pool' = Touch(pool, id) /\ flush.pc = "next"
  BY DEF FlushGet
<1>2. PoolShape(pool', lsn) /\ pool'.frames = pool.frames
  BY <1>1, TouchShape DEF TypeInv
<1>3. FlushShape'
  <2>1. CASE id \in DOMAIN pool.frames
    <3>1. flush'.pc = "write" /\ flush'.id = id /\ flush'.page = pool.frames[id].page
      BY <2>1 DEF FlushGet
    <3>2. pool.frames[id] \in FramesUpTo(lsn)
      BY <2>1 DEF TypeInv, PoolShape
    <3> QED
      BY <1>1, <2>1, <3>1, <3>2 DEF FlushShape, TypeInv, FramesUpTo
  <2>2. CASE id \notin DOMAIN pool.frames
    <3>1. flush' = [flush EXCEPT !.todo = @ \ {id}]
      BY <2>2 DEF FlushGet
    <3>2. flush'.pc = flush.pc
      BY <3>1
    <3> QED
      BY <1>1, <3>2 DEF FlushShape
  <2> QED
    BY <2>1, <2>2
<1> QED
  BY <1>1, <1>2, <1>3, FlushShapeStep DEF TypeInv

LEMMA FlushedForFlushShape == ASSUME TypeInv PROVE FlushedForFlush \in 0..lsn
<1> DEFINE n == IF flush.id \in DOMAIN pool.frames THEN pool.frames[flush.id].page_lsn ELSE 0
<1>1. lsn \in Nat /\ flushed \in 0..lsn
  BY PageStoreAssumption DEF TypeInv
<1>2. n \in 0..lsn
  <2>1. ASSUME flush.id \in DOMAIN pool.frames PROVE pool.frames[flush.id] \in FramesUpTo(lsn)
    BY <2>1 DEF TypeInv, PoolShape
  <2> QED
    BY <1>1, <2>1 DEF FramesUpTo
<1>3. FlushedForFlush = IF n > flushed THEN n ELSE flushed
  BY DEF FlushedForFlush
<1> QED
  BY <1>1, <1>2, <1>3

LEMMA FlushFailsShape == ASSUME TypeInv, FlushFails PROVE TypeInv'
<1>1. UNCHANGED <<pool, file, lsn, task>> /\ flush' = Idle
      /\ flushed' \in {flushed, FlushedForFlush}
  BY DEF FlushFails
<1>2. flushed' \in 0..lsn
  BY <1>1, FlushedForFlushShape DEF TypeInv
<1>3. FlushShape'
  BY <1>1 DEF FlushShape, Idle
<1> QED
  BY <1>1, <1>2, <1>3, FlushShapeStep DEF TypeInv

LEMMA FlushWriteShape == ASSUME TypeInv, FlushWrite PROVE TypeInv'
<1>1. UNCHANGED <<pool, lsn, task>> /\ flush.pc = "write" /\ flushed' = FlushedForFlush
      /\ file' = Put(file, flush.id, flush.page) /\ flush'.pc = "next"
  BY DEF FlushWrite
<1>2. flush.id \in DOMAIN file /\ flush.page \subseteq 1..lsn
  BY <1>1 DEF TypeInv, FlushShape
<1>4. flushed' \in 0..lsn
  BY <1>1, FlushedForFlushShape
<1>5. FileShape(file', lsn) /\ DOMAIN file' = DOMAIN file
  BY <1>1, <1>2 DEF TypeInv, FileShape, Put
<1>6. FlushShape'
  BY <1>1 DEF FlushShape
<1> QED
  BY <1>1, <1>4, <1>5, <1>6, FlushShapeStep DEF TypeInv

LEMMA FlushEndShape == ASSUME TypeInv, FlushEnd PROVE TypeInv'
<1>1. /\ UNCHANGED <<file, lsn, flushed, task>> /\ flush' = Idle
      /\ pool' = [frames |-> pool'.frames, dirty |-> pool'.dirty, lru |-> pool'.lru]
      /\ pool'.dirty = pool.dirty \ flush.marks /\ pool'.lru = pool.lru
      /\ DOMAIN pool'.frames = DOMAIN pool.frames
      /\ \A q \in DOMAIN pool.frames : pool'.frames[q] \in {Unmarked(pool.frames[q]), pool.frames[q]}
  BY DEF FlushEnd
<1>2. ASSUME NEW q \in DOMAIN pool.frames PROVE pool'.frames[q] \in FramesUpTo(lsn)
  <2>1. pool.frames[q] \in FramesUpTo(lsn) /\ lsn \in Nat
    BY PageStoreAssumption DEF TypeInv, PoolShape
  <2>2. Unmarked(pool.frames[q]) \in FramesUpTo(lsn)
    BY <2>1 DEF FramesUpTo, Unmarked
  <2> QED
    BY <1>1, <2>1, <2>2
<1>3. PoolShape(pool', lsn)
  BY <1>1, <1>2 DEF TypeInv, PoolShape
<1>4. FlushShape'
  BY <1>1 DEF FlushShape, Idle
<1> QED
  BY <1>1, <1>3, <1>4, FlushShapeStep DEF TypeInv

LEMMA ShapeStep == TypeInv /\ [Next]_vars => TypeInv'
<1> SUFFICES ASSUME TypeInv, [Next]_vars PROVE TypeInv'
  OBVIOUS
<1>1. ASSUME NEW r \in Readers, NEW id \in Pages, Hit(r, id) \/ Miss(r, id) PROVE TypeInv'
  BY <1>1, HitShape, MissShape
<1>2. ASSUME NEW r \in Readers, FetchStep(r) PROVE TypeInv'
  BY <1>2, ReadFileShape, ReadFailsShape, InsertReadShape, WriteBackStepShape, WriteBackFailsShape
     DEF FetchStep
<1>3. ASSUME NEW id \in Pages,
             Change(id) \/ ChangeUnlogged(id) \/ ChangeFails(id) \/ Allocate(id)
      PROVE  TypeInv'
  BY <1>3, ChangeShape, ChangeUnloggedShape, ChangeFailsShape, AllocateShape
<1>4. ASSUME NEW todo, NEW marks, StartFlush(todo, marks) PROVE TypeInv'
  <2>1. UNCHANGED <<pool, file, lsn, flushed, task>> /\ flush'.pc = "next"
    BY <1>4 DEF StartFlush
  <2> QED
    BY <2>1, FlushShapeStep DEF TypeInv, FlushShape
<1>5. CASE FlushStep
  BY <1>5, FlushGetShape, FlushWriteShape, FlushEndShape, FlushFailsShape DEF FlushStep
<1>6. CASE UNCHANGED vars
  <2>1. UNCHANGED <<pool, file, lsn, flushed, task, flush>>
    BY <1>6 DEF vars
  <2> QED
    BY <2>1, FlushShapeStep DEF TypeInv, FlushShape
<1> QED
  BY <1>1, <1>2, <1>3, <1>4, <1>5, <1>6 DEF Next, FlushAll, Flush

\* The pool never has more frames than it may, each of a page of the file and in
\* lru_order, which has each id once, for any number of lookups at once and
\* flushes beside them (BufferPoolInner).
THEOREM PoolTypes == Spec => []TypeOK
BY InitShape, ShapeStep, TypeInvTypeOK, PTL DEF Spec
=============================================================================
