------------------------------ MODULE Recovery ------------------------------
(***************************************************************************)
(* Crash recovery: Pager::fuzzy_checkpoint and Pager::recover (pager.rs)    *)
(* over the log, the pools' dirty pages and the page files.                 *)
(*                                                                          *)
(* A page is the set of the items (keys) whose cells it shows.  A log       *)
(* record has the page's image before and after; its LSN is its place in    *)
(* the log.  A record on the log file that the file's header accounts for   *)
(* is durable, one that a crash left behind the header's last is an orphan: *)
(* the module Wal says how that happens.  The index and the heap file, and  *)
(* their pools, are one: a heap page is only ever touched by the insertion  *)
(* that allocated it.                                                       *)
(*                                                                          *)
(* tree_lock keeps insertions and deletions out of each other and of a      *)
(* checkpoint.  Lookups, which evict pages, and begin, commit and abort     *)
(* run at any time.                                                         *)
(***************************************************************************)
EXTENDS Integers, SequencesExt

CONSTANTS
    Txns,      \* transaction ids callers use
    AutoTxn,   \* transaction id 0: a call outside any transaction
    Pages, Items,
    MaxFrames, \* WAL_POOL_CAPACITY: records the log's buffer holds before it is full
    MaxLog,    \* bound: no call of a caller begins when the log is longer
    MaxCrashes \* bound: crashes in a behaviour

ASSUME RecoveryAssumption ==
    AutoTxn \notin Txns /\ MaxFrames \in Nat \ {0} /\ MaxLog \in Nat /\ MaxCrashes \in Nat

VARIABLES
    log,       \* every record appended, oldest first
    tail,      \* the durable ones are the first `tail'
    orphans,   \* records on the log file after the durable ones
    pool,      \* the pages not yet written: page -> [data, page_lsn, rec_lsn]
    written,   \* page -> what reading the file returns
    synced,    \* page -> what a crash cannot take
    leaving,   \* the pages a lookup has taken out of the pool and not yet written
    ckpt,      \* the checkpoint in progress
    last_ckpt, \* last_checkpoint_lsn in the log file's header
    phase,     \* "running"; "crashed"; "undo": recover has redone, and undoes
    todo,      \* LSNs recover has still to undo
    losers,    \* transactions recover has still to abort
    txn,       \* history: how far each transaction has got
    did,       \* history: the items open and aborted transactions put in or out; under
               \* AutoTxn those of calls outside transactions and those that two of
               \* these changed
    base,      \* history: the items after the committed transactions
    crashes

vars == <<log, tail, orphans, pool, written, synced, leaving, ckpt, last_ckpt, phase,
          todo, losers, txn, did, base, crashes>>
walVars == <<log, tail, orphans>>
fileVars == <<written, synced, leaving>>
recoverVars == <<phase, todo, losers, crashes>>
historyVars == <<txn, did, base>>
-----------------------------------------------------------------------------
Changes == {"Update", "Clr"}

Data(p) == IF p \in DOMAIN pool THEN pool[p].data ELSE written[p]
Visible == UNION {Data(p) : p \in Pages}

\* The transactions of active_txns.
Active == {t \in Txns : txn[t] = "active"}

\* A page after bytes of a record: what the record covers becomes `to', and the
\* cells that were in both of its images keep the bytes the page has.
Cover(data, from, to) == (data \cap from \cap to) \cup (to \ from)

Update(t, p, to) == [type |-> "Update", txn |-> t, page |-> p, from |-> Data(p), to |-> to]

\* A pool with the frame of one page put in or replaced.
With(frames, p, frame) ==
    [q \in DOMAIN frames \cup {p} |-> IF q = p THEN frame ELSE frames[q]]

\* A pool with a page changed by the record `lsn' (update_page, update_lsn).
Dirtied(frames, p, data, lsn) ==
    LET rec == IF p \in DOMAIN frames THEN frames[p].rec_lsn ELSE 0
    IN  With(frames, p, [data |-> data, page_lsn |-> lsn,
                         rec_lsn |-> IF rec = 0 THEN lsn ELSE rec])

Larger(m, n) == IF m < n THEN n ELSE m
Smaller(m, n) == IF m < n THEN m ELSE n
MinOf(S) == CHOOSE n \in S : \A m \in S : n <= m
MaxOf(S) == CHOOSE n \in S : \A m \in S : m <= n

\* Flushing the log overwrites what a crash left behind the last durable record.
FlushTo(lsn) ==
    /\ tail' = Larger(tail, Smaller(lsn, Len(log')))
    /\ orphans' = IF tail' = tail THEN orphans ELSE <<>>

\* Appending without forcing: a full buffer is flushed before the next record.
AppendAll(recs) ==
    /\ log' = log \o recs
    /\ LET full[i \in 0..Len(recs)] ==
               IF i = 0 THEN tail
               ELSE IF Len(log) + i - 1 - full[i - 1] >= MaxFrames THEN Len(log) + i - 1
               ELSE full[i - 1]
       IN  FlushTo(full[Len(recs)])

\* Mutant: without the flush.
AppendUnforced(rec) == log' = log \o <<rec>> /\ FlushTo(0)

AppendForced(rec) == log' = log \o <<rec>> /\ FlushTo(Len(log) + 1)

Quiet == [pc |-> "idle"]

TypeOK ==
    /\ tail \in 0..Len(log) /\ last_ckpt \in 0..tail
    /\ DOMAIN pool \subseteq Pages
    /\ \A p \in DOMAIN pool :
          pool[p].data \subseteq Items /\ pool[p].page_lsn >= pool[p].rec_lsn
    /\ written \in [Pages -> SUBSET Items] /\ synced \in [Pages -> SUBSET Items]
    /\ leaving \subseteq DOMAIN pool
    /\ ckpt.pc \in {"idle", "synced", "dpt", "att", "header"}
    /\ ckpt # Quiet => phase = "running"
    /\ phase \in {"running", "crashed", "undo"}
    /\ todo \subseteq 1..tail /\ losers \subseteq Txns
    /\ txn \in [Txns -> {"new", "active", "committed", "aborted", "lost"}]
    /\ did \in [Txns \cup {AutoTxn} -> SUBSET Items] /\ base \subseteq Items
    /\ crashes \in 0..MaxCrashes

Init ==
    /\ log = <<>> /\ tail = 0 /\ orphans = <<>>
    /\ pool = <<>>
    /\ written = [p \in Pages |-> {}] /\ synced = written /\ leaving = {}
    /\ ckpt = Quiet /\ last_ckpt = 0
    /\ phase = "running" /\ todo = {} /\ losers = {}
    /\ txn = [t \in Txns |-> "new"]
    /\ did = [t \in Txns \cup {AutoTxn} |-> {}]
    /\ base = {} /\ crashes = 0
-----------------------------------------------------------------------------
(* Transactions. *)

Calls == phase = "running" /\ Len(log) <= MaxLog

\* Callers choose the id: one that is not in use, be it new or not.  (One that
\* was aborted is left out: what it did stays, and would be the next one's.)
Begin(t) ==
    /\ Calls /\ txn[t] \notin {"active", "aborted"}
    /\ AppendAll(<<[type |-> "Begin", txn |-> t]>>)
    /\ txn' = [txn EXCEPT ![t] = "active"]
    /\ UNCHANGED <<pool, fileVars, ckpt, last_ckpt, recoverVars, did, base>>

\* Changes have the tree alone: no checkpoint runs, and no lookup.
MayUpdate(t) == Calls /\ ckpt = Quiet /\ leaving = {} /\ (t = AutoTxn \/ t \in Active)

\* History: whose an item is once t put it in or out.  A second change of it by t
\* makes up for the first.
Touched(t, i) ==
    IF t = AutoTxn \/ \E u \in DOMAIN did \ {t} : i \in did[u]
    THEN [u \in DOMAIN did |-> IF u = AutoTxn THEN did[u] \cup {i} ELSE did[u] \ {i}]
    ELSE [did EXCEPT ![t] = IF i \in @ THEN @ \ {i} ELSE @ \cup {i}]

\* insert and delete of a key whose page needs no split or merge.
Toggle(t, p, i) ==
    /\ MayUpdate(t)
    /\ i \in Data(p) \/ i \notin Visible
    /\ LET to == IF i \in Data(p) THEN Data(p) \ {i} ELSE Data(p) \cup {i}
       IN  /\ AppendAll(<<Update(t, p, to)>>)
           /\ pool' = Dirtied(pool, p, to, Len(log) + 1)
    /\ did' = Touched(t, i)
    /\ UNCHANGED <<fileVars, ckpt, last_ckpt, recoverVars, txn, base>>

\* What a split does to the keys it moves: gone from the left page with one
\* record, in the right page with the next.
Split(t, p, q, moved) ==
    /\ MayUpdate(t) /\ p # q
    /\ moved # {} /\ moved \subseteq Data(p)
    /\ LET left == Data(p) \ moved
           right == Data(q) \cup moved
       IN  /\ AppendAll(<<Update(t, p, left), Update(t, q, right)>>)
           /\ pool' = Dirtied(Dirtied(pool, p, left, Len(log) + 1), q, right, Len(log) + 2)
    /\ UNCHANGED <<fileVars, ckpt, last_ckpt, recoverVars, historyVars>>

Commit(t) ==
    /\ phase = "running" /\ t \in Active
    /\ AppendForced([type |-> "Commit", txn |-> t])
    /\ txn' = [txn EXCEPT ![t] = "committed"]
    /\ base' = (base \ did[t]) \cup (did[t] \ base)
    /\ did' = [did EXCEPT ![t] = {}]
    /\ UNCHANGED <<pool, fileVars, ckpt, last_ckpt, recoverVars>>

\* abort_transaction: a record, and no change to any page.
Abort(t) ==
    /\ phase = "running" /\ t \in Active
    /\ AppendForced([type |-> "Abort", txn |-> t])
    /\ txn' = [txn EXCEPT ![t] = "aborted"]
    /\ UNCHANGED <<pool, fileVars, ckpt, last_ckpt, recoverVars, did, base>>
-----------------------------------------------------------------------------
(* Pages and checkpoints. *)

\* Mutant: the log is flushed up to the first change only.
EvictLsnFirst(p) == pool[p].rec_lsn
EvictLsn(p) == pool[p].page_lsn

\* A page makes room for another: a lookup takes it out of the pool.  (What other
\* lookups read of it until it is written is PageStore's.)
TakeOut(p) ==
    /\ phase = "running" /\ p \in DOMAIN pool \ leaving
    /\ leaving' = leaving \cup {p}
    /\ UNCHANGED <<walVars, pool, written, synced, ckpt, last_ckpt, recoverVars, historyVars>>

\* Then the log is flushed up to its LSN and the page is written, and not synced.
\* While recover runs there are no lookups: it takes pages out and writes them itself.
Evict(p) ==
    /\ p \in leaving \/ (phase = "undo" /\ p \in DOMAIN pool)
    /\ UNCHANGED log /\ FlushTo(EvictLsn(p))
    /\ written' = [written EXCEPT ![p] = pool[p].data]
    /\ pool' = [q \in DOMAIN pool \ {p} |-> pool[q]]
    /\ leaving' = leaving \ {p}
    /\ UNCHANGED <<synced, ckpt, last_ckpt, recoverVars, historyVars>>

SyncData ==
    /\ Calls /\ ckpt = Quiet
    /\ synced' = written
    /\ ckpt' = [pc |-> "synced"]
    /\ UNCHANGED <<walVars, pool, written, leaving, last_ckpt, recoverVars, historyVars>>

ReadDirtyPages ==
    /\ ckpt.pc = "synced"
    /\ ckpt' = [pc |-> "dpt", dpt |-> [p \in DOMAIN pool \ leaving |-> pool[p].rec_lsn]]
    /\ UNCHANGED <<walVars, pool, fileVars, last_ckpt, recoverVars, historyVars>>

ReadActiveTxns ==
    /\ ckpt.pc = "dpt"
    /\ ckpt' = [pc |-> "att", dpt |-> ckpt.dpt, att |-> Active]
    /\ UNCHANGED <<walVars, pool, fileVars, last_ckpt, recoverVars, historyVars>>

WriteCheckpoint ==
    /\ ckpt.pc = "att"
    /\ AppendForced([type |-> "Checkpoint", dpt |-> ckpt.dpt, att |-> ckpt.att])
    /\ ckpt' = [pc |-> "header", lsn |-> Len(log) + 1]
    /\ UNCHANGED <<pool, fileVars, last_ckpt, recoverVars, historyVars>>

SetCheckpoint ==
    /\ ckpt.pc = "header"
    /\ last_ckpt' = ckpt.lsn
    /\ ckpt' = Quiet
    /\ UNCHANGED <<walVars, pool, fileVars, recoverVars, historyVars>>

\* The process dies.  What a flush in progress had written stays behind the
\* header's last record; a write that was not synced is on the disk or is not.
Crash ==
    /\ phase # "crashed" /\ crashes < MaxCrashes
    /\ log' = SubSeq(log, 1, tail)
    /\ orphans' \in {orphans} \cup {SubSeq(log, tail + 1, n) : n \in tail + 1..Len(log)}
    /\ synced' \in {f \in [Pages -> SUBSET Items] : \A p \in Pages : f[p] \in {synced[p], written[p]}}
    /\ written' = synced'
    /\ pool' = <<>> /\ leaving' = {} /\ ckpt' = Quiet
    /\ phase' = "crashed" /\ todo' = {} /\ losers' = {}
    /\ txn' = [t \in Txns |-> IF t \in Active THEN "lost" ELSE txn[t]]
    /\ did' = [t \in DOMAIN did |-> IF t \in Active THEN {} ELSE did[t]]
    /\ crashes' = crashes + 1
    /\ UNCHANGED <<tail, last_ckpt, base>>
-----------------------------------------------------------------------------
(* recover. *)

\* What the checkpoint pointed to says: all that was dirty, and active, then.
CheckpointPages == IF last_ckpt = 0 THEN <<>> ELSE log[last_ckpt].dpt
CheckpointTxns == IF last_ckpt = 0 THEN {} ELSE log[last_ckpt].att

\* Mutant: the checkpoint's table is ignored.
RedoStartNoTable(all, p) ==
    LET later == {n \in last_ckpt + 1..Len(all) : all[n].type \in Changes /\ all[n].page = p}
    IN  IF later # {} THEN MinOf(later) ELSE Len(all) + 1

\* dpt[p]: the first record of the page to redo; past the end if there is none.
RedoStart(all, p) ==
    LET later == {n \in last_ckpt + 1..Len(all) : all[n].type \in Changes /\ all[n].page = p}
    IN  IF p \in DOMAIN CheckpointPages THEN CheckpointPages[p]
        ELSE IF later # {} THEN MinOf(later) ELSE Len(all) + 1

\* att after the scan: the transactions whose last record ends nothing.
LosersOf(all) ==
    {t \in Txns :
        LET own == {n \in last_ckpt + 1..Len(all) : all[n].type # "Checkpoint" /\ all[n].txn = t}
        IN  IF own = {} THEN t \in CheckpointTxns
            ELSE all[MaxOf(own)].type \notin {"Commit", "Abort"}}

\* The records of a page recover applies, and the page after them.
Redone(all, p) ==
    {n \in DOMAIN all : n >= RedoStart(all, p) /\ all[n].type \in Changes /\ all[n].page = p}
RedoData(all, p) ==
    LET data[n \in 0..Len(all)] ==
            IF n = 0 THEN written[p]
            ELSE IF n \in Redone(all, p) THEN Cover(data[n - 1], all[n].from, all[n].to)
            ELSE data[n - 1]
    IN  data[Len(all)]

\* Analysis and redo, over all records that read_all_records returns.  What is
\* to be undone comes from read_records_backward, which knows no orphans.
Redo ==
    /\ phase = "crashed"
    /\ LET all == log \o orphans
           redone == {p \in Pages : Redone(all, p) # {}}
       IN  /\ pool' = [p \in redone |-> [data |-> RedoData(all, p),
                                         page_lsn |-> MaxOf(Redone(all, p)),
                                         rec_lsn |-> MinOf(Redone(all, p))]]
           /\ losers' = LosersOf(all)
           /\ todo' = {n \in DOMAIN log : log[n].type = "Update" /\ log[n].txn \in losers'}
    /\ phase' = "undo"
    /\ UNCHANGED <<walVars, fileVars, ckpt, last_ckpt, crashes, historyVars>>

\* Mutant: the oldest record first.
UndoNextOldest == MinOf(todo)

UndoNext == MaxOf(todo)

\* One record of a loser is undone and the CLR appended.  The page becomes
\* dirty, but it does not get the CLR's LSN.
Undo ==
    /\ phase = "undo" /\ todo # {}
    /\ LET r == log[UndoNext]
           data == Cover(Data(r.page), r.to, r.from)
           lsns == IF r.page \in DOMAIN pool THEN pool[r.page] ELSE [page_lsn |-> 0, rec_lsn |-> 0]
       IN  /\ AppendAll(<<[type |-> "Clr", txn |-> r.txn, page |-> r.page,
                         from |-> r.to, to |-> r.from]>>)
           /\ pool' = With(pool, r.page, [data |-> data, page_lsn |-> lsns.page_lsn,
                                          rec_lsn |-> lsns.rec_lsn])
           /\ todo' = todo \ {UndoNext}
    /\ UNCHANGED <<fileVars, ckpt, last_ckpt, phase, losers, crashes, historyVars>>

AbortLoser(t) ==
    /\ phase = "undo" /\ todo = {} /\ t \in losers
    /\ AppendForced([type |-> "Abort", txn |-> t])
    /\ losers' = losers \ {t}
    /\ UNCHANGED <<pool, fileVars, ckpt, last_ckpt, phase, todo, crashes, historyVars>>

Recovered ==
    /\ phase = "undo" /\ todo = {} /\ losers = {}
    /\ UNCHANGED log /\ FlushTo(Len(log))
    /\ phase' = "running"
    /\ UNCHANGED <<pool, fileVars, ckpt, last_ckpt, todo, losers, crashes, historyVars>>

Next ==
    \/ \E t \in Txns : Begin(t) \/ Commit(t) \/ Abort(t) \/ AbortLoser(t)
    \/ \E t \in Txns \cup {AutoTxn}, p \in Pages :
          \/ \E i \in Items : Toggle(t, p, i)
          \/ \E q \in Pages, moved \in SUBSET Items : Split(t, p, q, moved)
    \/ \E p \in Pages : TakeOut(p) \/ Evict(p)
    \/ SyncData \/ ReadDirtyPages \/ ReadActiveTxns \/ WriteCheckpoint \/ SetCheckpoint
    \/ Crash \/ Redo \/ Undo \/ Recovered

Spec == Init /\ [][Next]_vars
-----------------------------------------------------------------------------
(* What callers and the environment must keep to for recovery to work; the   *)
(* code enforces none of it.                                                 *)

NewRecords == {log'[n] : n \in Len(log) + 1..Len(log')}

\* No page with changes of an open transaction is changed by anyone else.
Isolated ==
    \A r \in NewRecords : phase = "running" /\ r.type = "Update" =>
        \A n \in DOMAIN log :
            log[n].type = "Update" /\ log[n].page = r.page => log[n].txn \notin Active \ {r.txn}

\* No commit or abort between a checkpoint's look at the active transactions
\* and its record.
QuietTxns == ckpt.pc = "att" => Active \subseteq Active' \/ phase' = "crashed"

\* No page is on its way from the pool to its file between a checkpoint's sync and
\* its look at the dirty pages.
QuietPool == ckpt.pc = "synced" => (written' = written /\ leaving = {}) \/ phase' = "crashed"

\* No crash leaves records the log file's header does not account for.
NoOrphans == orphans' = <<>>

\* A call outside transactions changes one page.
AutoOnePage == ~(Len(log') = Len(log) + 2 /\ log'[Len(log')].txn = AutoTxn)

\* No transaction id is used twice.
FreshIds == \A t \in Txns : txn[t] # "new" => txn'[t] # "active" \/ txn[t] = "active"

\* A page that recovery undid and that has no LSN of a change yet is written
\* before anyone changes it.
UndoneWritten ==
    \A r \in NewRecords : phase = "running" /\ r.type = "Update" /\ r.page \in DOMAIN pool =>
        pool[r.page].rec_lsn # 0

\* All of it: what the proof that recovery is right needs of every step.
Orderly ==
    /\ Isolated /\ QuietTxns /\ QuietPool /\ NoOrphans
    /\ AutoOnePage /\ FreshIds /\ UndoneWritten
-----------------------------------------------------------------------------
(* Properties. *)

\* What committed transactions put in is there and what they took out is not,
\* before a crash and after recovery, and nothing is left of the transactions
\* a crash cut off.  (Items that open and aborted transactions and calls
\* outside transactions put in or out are theirs, and no claim is made.)
CommittedSurvive ==
    phase = "running" =>
        \A i \in Items : (\A t \in DOMAIN did : i \notin did[t]) => (i \in Visible <=> i \in base)

\* A page in its file shows a key only if a durable record put it there: no
\* eviction, of a page that recovery is still undoing either, writes a key whose
\* record a crash can take.
PagesAreLogged ==
    \A p \in Pages : \A i \in written[p] :
        \E n \in 1..tail : log[n].type \in Changes /\ log[n].page = p /\ i \in log[n].to
=============================================================================
