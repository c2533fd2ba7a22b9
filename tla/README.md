# Verification of the storage engine

TLA+ modules of the storage engine in `src/src/storage/engine` (its write-ahead
log, its B+tree, its index and heap pages, its page files with their buffer pools, and its
checkpoints and crash recovery) and of the SQL front end in `src/src/sql` and
`src/src/planner`. TLC checks them on small instances; TLAPS proves for all instances every
invariant of the log, of the buffer pools, of the heap, of the index pages and of crash
recovery, that searches of the tree find every key, the refinements of an abstract log, an abstract
map and an abstract page, and the order of values; what each theorem assumes is in section 4.

## 1. The system

| Part | Source | State | Operations |
|---|---|---|---|
| Write-ahead log | `wal.rs`, `wal_buffer.rs`, `WalHeader` of `header.rs` | file header (in memory and on disk), record buffer, log file, `flushed_lsn`, `active_txns` | append a record (`write_record`, `begin`/`commit`/`abort_transaction`, `write_clr`, `write_checkpoint`), `flush_up_to`, `flush_all`, `read_all_records`, `read_records_backward`, opening |
| B+tree | `bplus_tree.rs` | index pages, `root_id` | `get`, `insert`, `delete`, with splits, borrowing, merges; choice of the root when opened |
| Index pages | `slotted_page.rs`, `header.rs` | sorted slots, cells, free space, kind, root-leaf flag, `ptr` | `add_cell`, `remove_cell_at`, `rebuild_from_cells`, `set_header_ptr`, `set_page_kind` |
| Page files and pools | `buffer_pool.rs`, `index.rs`, `heap.rs` | frames, dirty marks, LRU order, page LSNs, the files | `fetch`, `fetch_mut`, `allocate`, `flush`, `flush_all`, eviction with write-back |
| Checkpoints and recovery | `pager.rs` | - (works on log, pools and files) | `fuzzy_checkpoint`, `recover` |
| Transactions | `bplus_tree.rs`, `wal.rs` | `active_txns` | `begin`, `commit`, `abort` |
| Heap pages, overflow chains | `heap.rs`, `slotted_page.rs` | heap pages, chains by `ptr` | `allocate`, `add_records`, `get_record`, `free`; `allocate_primary`, `insert_records`, `free_chain` (no callers yet) |
| Values, types, expressions | `planner/value.rs`, `types.rs`, `expr.rs`, `sql/ast.rs` | - (pure) | comparison, hashing, casts, operators, LIKE; types, nullability, rewriting of expressions |
| Catalog and schema | `planner/catalog.rs`, `schema.rs` | maps without operations | a table's columns and keys |
| SQL parser | `sql/parser.rs` | - (pure) | from the syntax tree of the `sqlparser` crate to statements |

**How they interact.** A call of the tree takes `tree_lock` (write for `insert`,
`delete`, `recover`; read for `get` and `fuzzy_checkpoint`), fetches pages through the
pools, changes them through guards and logs each page's difference with
`Pager::log_index_diff` / `log_heap_diff`, which also tell the pool the LSN.
A fetch that finds the pool full pushes a page out: if it is dirty, the log is flushed up
to its LSN and the page is written, not synced. `begin`, `commit` and `abort` take only
the log's mutex. A checkpoint records the dirty pages and the active transactions;
`recover` loads the last one, scans the log, redoes, undoes the losers with
compensation records (CLR) and appends an abort record for each.

**What is hard.** The two file writes of a flush and a crash between them; failed
writes; a log whose two readers see different ends; evictions by lookups that run beside
each other and beside a checkpoint; commits beside a checkpoint; splits, merges and root
changes that go up the tree level by level and can fail half way; undoing bytes of a page
that others changed since; a crash during recovery; offsets that must fit a page of any size;
integers and floats in one order; NULL, errors and outer joins in expressions that are
moved. The list with source lines is in
`PROJECT.json` ("hazards").

**What makes each part correct.**
log: what returned Ok stays durable, both readers agree on it, the checkpoint pointer is
valid, the table of active transactions is exact.
Tree: it is a map, every key is where a search goes, it is a tree with a leaf chain, and
opening its files finds it again.
Page store: the write-ahead rule, no lost change, no stale read, a dirty page table that
covers what the file lacks.
Recovery: what committed survives, what did not is gone.
Index page: slots and cells stay apart, keys are sorted, a pointer is read as what it was
written as, there is room for `ORDER` cells and no more, and every call ends.
Heap: rows read back whole, chains end and share no page, a row is refused for its size
only.
Front end: one order for sorting, hashing and comparing; operators that compute what SQL
defines; types and nullability that are true of every row; rewritings and statements that
keep their meaning.

## 2. The modules

| Module | Models | Checked by |
|---|---|---|
| `AbstractLog` | what a log promises: a stable part that only grows, by prefixes, and a volatile part that a crash loses | - |
| `Wal` | the log | `MCWal` |
| `WalProofs` | proofs about `Wal`: types, durability, header, active transactions, readers, refinement of `AbstractLog` | tlapm |
| `KVMap` | what the index promises: a map, changed one key at a time, and true answers | - |
| `BplusTree` | the index over slotted pages | `MCBplusTree`, `MCBplusTreeDeep` |
| `BplusTreeTypeProofs` | proofs about `BplusTree`: its pages and calls stay well formed | tlapm |
| `BplusTreeProofs` | further proofs about it: searches find every key, the refinement of `KVMap` | tlapm |
| `PageStore` | one page file with its pool | `MCPageStore` |
| `PageStoreProofs` | proofs about `PageStore`: the write-ahead rule, that no change is lost, and the pool's bounds | tlapm |
| `Recovery` | checkpoints, crashes and recovery over log, pools and files | `MCRecovery` |
| `RecoveryProofs` | proofs about `Recovery`: what committed survives, the write-ahead rule, types | tlapm |
| `SortedPage` | what an index page promises: a map of at most `ORDER` keys, changed by whole calls | - |
| `SlottedPage` | one index page, offset by offset | `MCSlottedPage` |
| `SlottedPageProofs` | proofs about `SlottedPage`, with its refinement of `SortedPage` | tlapm |
| `HeapFile` | heap pages and overflow chains | `MCHeapFile` |
| `HeapFileProofs` | proofs about `HeapFile` | tlapm |
| `Values` | values, types and operators | `MCFrontEnd` |
| `ValuesProofs` | proofs about `Values` | tlapm |
| `Expressions` | expressions and schemas (extends `Values`) | `MCFrontEnd` |
| `SqlParser` | what the parser makes of statements (extends `Expressions`) | `MCFrontEnd` |
| `Catalog` | a table from its CREATE TABLE (extends `SqlParser`) | `MCFrontEnd` |
| `FrontEnd` | the questions asked of all of these, and their references | `MCFrontEnd` |

### Wal

The log's mutex is held for every call, so one call is in flight (`call`); a step ends
at each file write, where a crash or a failed write may fall. `WriteRecord` appends to
the buffer, `WriteRecordFull` is the same call when the buffer is full and must be flushed first,
`FlushRecords` and `FlushHeader` are the two writes of `flush_up_to`, `FlushCheckpoint`
the last write of `write_checkpoint`; `PartialWrite` and `PartialHeader` are what a write
leaves when the process dies in it or it fails; `IoError` returns the error to the caller,
`Restart` opens the file again. The log file is the set of
the records whose bytes are whole in it; a record written over another
destroys it; a write cut short leaves a prefix; the write of the 28-byte header is
atomic. `Scan` is `read_all_records`, `WalkBack` is `read_records_backward`.

### BplusTree

A page is its kind, its cells and its `ptr`; a leaf cell holds the key's record in place
of the heap page that stores it. `tree_lock` makes one call run at a time: `Get`,
`Insert` and `Delete` start it, `HandleOverfull` and `HandleUnderfull` are one level each
of the recursions of the same names, so a failure half way leaves what was written. `RefuseRow` is an
insertion that the heap file refuses. The new separator of a borrowing (`Reseparate`) may be refused; the cells
that `Repoint` puts back with another pointer are the ones the page had, which fit (`RepointIs` in the proofs).
Pages are what the pool shows. `Reopen` is `new_with_wal` on files that are fully written:
only the choice of the root is at stake.

### PageStore

The pool (`frames`, `dirty`, `lru`) and the file. Each pool operation is atomic under its
mutex; a fetch is `Hit`, or `Miss`, `ReadFile`, `InsertRead` and, if a dirty page was
pushed out, `WriteBack`, so that other lookups run in between as they do under the read half of
`tree_lock`. `ReadFails` and `WriteBackFails` are the two failing: the heap's fetch returns the error and the
index's panics, and either way a page that was pushed out and could not be written is nowhere.
A call that changes pages has the tree alone: `Change` is a fetch, a change
of the page and its log record, `ChangeUnlogged` a change by a call that fails before it logs it, `ChangeFails` one
whose fetch fails, `Allocate` a new page. A page is the set of the LSNs of
its changes, and `latest` all those made to it but the ones a failed write has lost. `FlushAll` and `Flush` start a flush, which takes `FlushGet` and `FlushWrite`
for each page and `FlushEnd` to clear the dirty marks; only tests call them, with nothing else
running, which `FlushAlone` says. Not in the module: `discard_dirty`, `drain_dirty` (the tests'
way of crashing) and pins (a pinned page is changed and let go within one `Change`).

### Recovery

A page is the set of the keys it shows; an update record has the page before and after,
and its LSN is its place in the log. `Cover` is what writing a record's bytes into a page
does: the keys in either image become those of the image written, except that cells in both keep
the bytes the page has; keys outside both images that the page has gained since go, as
they do in the code, because the record's range includes the slot count and, where it overlaps, their slots.
Index and heap file are one store: a heap page is only touched by the insertion that
allocated it. `fuzzy_checkpoint` is `SyncData`, `ReadDirtyPages`, `ReadActiveTxns`,
`WriteCheckpoint`, `SetCheckpoint`; an eviction by a lookup is `TakeOut`, then `Evict`, which flushes the log and writes the
page, with anything in between; `recover` is `Redo` (analysis and redo), `Undo` one
record at a time, `AbortLoser`, `Recovered`, and evicts by itself. `Crash` keeps the
durable part of the log, perhaps leaves orphans (records written and not accounted for
by the header, see `Wal`), and keeps or loses each page write that was not synced. A commit is one
step: `Wal` shows its flush. An id may be used again once its transaction is not active or aborted;
a `recover` is always preceded by a crash. `Orderly` is what callers and environment must keep to.

### SlottedPage

The header's fields, the slots by index and the cells by byte offset, with the code's sizes
(header 22, slot 4, cell 16). A call (`AddCell`, `Rebuild`, `RemoveCellAt`) becomes steps: `Place` checks the
room and writes the cell, `Probe` is one turn of the binary search, `Link` moves the slots and
counts, `Finish` ends the call; a rebuilt page takes these steps for each cell.
`SetHeaderPtr` and `SetPageKind` are one step; the kinds are those callers ask for, `Root` and,
for a root of internal pages, `Internal`. No other thread sees the page meanwhile: the steps
are there for the loop, not for concurrency. `BplusTree` uses the same operations as whole functions on
sequences of cells; `ImplementsSortedPage` is what allows that.

### HeapFile

Heap pages with header (21), slots and records by size; a record's bytes are one value.
`Insert` and `Delete` are what the tree's calls do to the heap; an `Insert` whose cell the index
refuses (`indexed` false) leaves its page behind. `AllocatePrimary` and
`InsertRecords` are the functions without callers, `Chain` and `GetRecord` how rows are read.
Their loops (`AddRecords`, `PutAll`, `Chain`) are functions of the turns taken.
`stored` remembers what callers put where.

### Values, Expressions, SqlParser, Catalog, FrontEnd

Operators named after the functions. `FrontEnd` has one variable, the `question`: an action picks
the arguments, and the invariants compare the answers with a reference. The repository has no
executor, so the references are written from SQL: `Eval` and `Aggregate` (the value of an
expression in a row and of an aggregate of a group), `Like`, `JoinAll` and `FromRows` (the rows of a
FROM list), `Limited` (LIMIT and OFFSET), `Declared` (a table's keys). An integer keeps its width;
a float is a position in halves, with a sign bit and NaN, and `Nearest` rounds; a text is what
casts read in it.

What the front end does, and the properties take as it is: `i64::MIN` cannot be written as a literal, and larger
numerals become floats; `i64::MIN % -1` is an overflow error; `i64::MAX as f64`
passes the range check of the cast to INTEGER and saturates; SQL's `=` between large integers and floats
rounds, so it is not transitive and differs from `PartialEq`, which `Ord` agrees with; a TIMESTAMP
column can only hold NULL, since no value has its type.

## 3. The runs

**Fairness.** One specification assumes weak fairness, `SlottedPage`, for the steps of a call that has begun
(`WF_vars(Step)`: a call on a page in hand waits for nothing). No call is assumed to begin. Its liveness property is
`CallEnds`; all other properties are safety properties. Deadlock is
checked in the runs of `Wal`, `BplusTree`, `SlottedPage` and `FrontEnd`; in `PageStore`, `HeapFile` and `Recovery` a behaviour
ends when its bound on changes, pages, records or crashes is used up, so there it is not.

| Run | Bounds | Shows |
|---|---|---|
| `wal` | 1 transaction and id 0, records of 2 lengths, buffer of 2, 4 LSNs, 2 crashes, 1 failed write | durability, agreement of the readers, a sound header on disk (`HeaderSound`: the checkpoint pointer and LSN order), exact table of active transactions, stable log, refinement of `AbstractLog` |
| `tree_two_levels` | `ORDER` 5, 7 keys, no insertion begins with more than 3 pages, one reopening while one page says it is a root (`OneRoot`) | every key is where a search goes, `WellFormed` (tree, leaf chain, occupancy), keys stay found; refinement of `KVMap` |
| `tree_three_levels` | two trees of three levels (17 and 19 keys), any two calls | splits, borrowing and merges of internal pages |
| `page_store` | 3 pages, 2 frames, 4 logged changes, 2 lookups beside each other but for the order that loses changes (`ReadsAfterWrites`), flushes alone, reads and writes that fail | write-ahead rule, dirty page table, no stale read, no lost change but those of a failed write |
| `slotted_page` | page of 100 bytes (`ORDER` 3), 4 keys, 2 child ids and a heap id, 6 contents to rebuild from | `PageSound` (layout and order), pointers read as written, room for `ORDER`, refinement of `SortedPage`, calls end |
| `heap_file` | pages of 46 bytes, 4 pages, 2 keys, rows of up to 2 records of 3 sizes, one of which fits no page beside its slot | layout, `RowsKept` (rows read back, chains apart), refusals for size only |
| `recovery` | 2 transactions and id 0, 2 keys, buffer of 2, 1 checkpoint, 1 eviction at a time, a call may start with up to 4 records; 2 pages with 5 records before a crash and 1 crash, or 1 page with 2 crashes (`FewAtATime`) | what committed survives; the order of undoing; recovery after an interrupted recovery; a page in its file shows keys with durable records only |
| `front_end` | integers of 4 bits; floats with a mantissa of 2 bits, both zeros, both infinities and NaNs; 29 values; expressions of depth 3 over 3 columns of a left join; LIKE patterns of 4 characters; CREATE TABLE with 2 columns and 2 constraints; FROM lists of 3 tables; every form of LIMIT | `OrderAgrees`, `ConversionsSound`, `OperatorsSound`, `AnalysisSound`, `RewritesSound`, `KeysAsDeclared`, `StatementsMean`: an accepted statement means what its text says, but for the three forms named in the property |

**Why the bounds are enough.** `ORDER` 5 (203 in the code) is the least with
`DEGREE` 3 and room for leaves to lend, merge and overflow; 7 keys make three leaves and every
kind of borrowing and merging under one parent, and the loaded trees do so for internal
pages. In the log, a buffer of 2 makes both a full buffer and a flush of a part of it; 2
lengths make a new record end inside an old one; 2 crashes let a crash hit what an earlier
one left behind. In the page store 3 pages in 2 frames make every fetch able to evict. In recovery, 2
transactions and 2 keys are the least for one to commit and one to lose beside each
other, and 4 records let a checkpoint lie between an update and its commit. An index page of
`ORDER` 3 has a full page, a middle and both ends for the search, and contents that are unsorted, double and
one cell too long. A heap page holds two small records or one large one, so chains
grow with every row. With 4 bits and a 2-bit mantissa, 5 and 7 are no floats and the
largest integer rounds to a float above it, as `i64::MAX` does.

**What recovery is shown to survive, and what not.** `CommittedSurvive` is proved under the
seven assumptions of `Orderly` (in `Recovery`); `recovery` checks it under the first
six, as action constraints. The code enforces none of them,
and for each there is a configuration without it in which TLC finds `CommittedSurvive`
violated; the first is a run of the project and a finding:

| Assumption | Without it | What goes wrong |
|---|---|---|
| `Isolated`: no page with changes of an open transaction is changed by another | run `recovery_shared_page` | undo writes back bytes that hold committed cells (`pager.rs:338`) |
| `QuietTxns`: no commit or abort between a checkpoint's look at the active transactions and its record | `MCRecoveryCommitRace.cfg` | a transaction that commits after `pager.rs:217` and before the record is undone |
| `QuietPool`: no page is on its way to its file between a checkpoint's sync and its look at the dirty pages | `MCRecoveryEvictRace.cfg` | a page that a lookup has taken out of the pool (`index.rs:119`) is neither synced nor in the table |
| `NoOrphans`: no crash leaves records behind the header's last | `MCRecoveryOrphans.cfg` | they are redone and never undone |
| `AutoOnePage`: a call outside transactions changes one page | `MCRecoveryAutoSplit.cfg` | half a split survives |
| `FreshIds`: no id is used for a second transaction | `MCRecoveryReuse.cfg` | undoing the second takes back the updates of the first, which committed (`pager.rs:331`) |
| `UndoneWritten`: a page that recovery undid and that has no LSN yet is written before anyone changes it | `MCRecoveryUndoLsn.cfg` | undo gives a page no LSN (`pager.rs:344`), so a change after recovery sets its `rec_lsn`, and a checkpoint's table misses the compensation record |

The last takes two crashes and up to 9 records; the passing run ends before it can happen and does not
assume it. The assumptions can be met together: by callers that keep an open transaction's pages to it, use an id
once, change pages in ways that may split inside a transaction, and let nothing run beside a
checkpoint. The last and `NoOrphans` are up to evictions and to where a crash falls.

`PagesAreLogged` speaks of each key of a page by itself. That a page in its file is as some record left
it is true until recovery is interrupted: the second recovery undoes again what the first undid, from
the last update on, and a page that lost a key to a split and got it back passes through contents it never had. An
eviction may write them; the undoing goes on from there.

**The other assumptions**, each with the configuration that shows what happens without it:

| Assumption | Without it | What goes wrong |
|---|---|---|
| `OneRoot` (`BplusTree`): files are reopened while one page says it is a root | `MCBplusTreeStaleRoot.cfg` | an old, empty root is the first page of kind Root that `bplus_tree.rs:56` meets |
| `FailsClean` (`BplusTree`, in the proofs): a call that fails changes nothing | run `tree_lost_keys` | a merge of internal pages that fails has filled the left page (`bplus_tree.rs:1008`) |
| `ReadsAfterWrites` (`PageStore`): no lookup reads a page from the file while another has it on its way there | run `page_store_lost_change` | a page between pool and file is read from the file |
| `FlushAlone` (`PageStore`) | `MCPageStoreFlush.cfg` | `flush` asks for a page and then for its LSN (`index.rs:156`): the page may have gone, and is written before its log records |
| | `MCPageStoreFlushMarks.cfg` | `flush_all` clears the mark of a page changed after it was written (`index.rs:181`) |
| `HeadsAlone` (`HeapFile`): `insert_records` is given the file's first page or an overflow page without successor | `MCHeapFileHeads.cfg` | `is_overflow_page` (`heap.rs:257`) is true of other pages, whose `ptr` of 0 leads to page 0 |
| `OuterAfterComma`, an exception in `StatementsMean` | run `front_end_comma` | `FROM a, b RIGHT JOIN c` is joined as `(a x b) RIGHT JOIN c` (`parser.rs:450`) |
| `FewerValues`, an exception in `StatementsMean` | `MCFrontEndFetch.cfg` | `INSERT ... VALUES ... FETCH` inserts all rows (`parser.rs:605`) |

The third exception in `StatementsMean`, `DropsClause`, is a table sample, version or partition after a table's name: the
parser reads the whole table (`parser.rs:1065`), and nothing in the repository says what it should do.
Each violation run is a finding in `PROJECT.json`, with the line of the source it contradicts.
`MCBplusTreeOverflow.cfg`, `MCWalOrphans.cfg` and `MCBplusTreeSeparators.cfg` show three comments the code does not
keep: that "Page overflow" will never trigger (`slotted_page.rs:66`; a merge may leave a leaf with `ORDER` cells),
that the walk back from the header meets every record the scan reads
(`header.rs:178`), and that a separator is the first key of the subtree it points to
(`bplus_tree.rs:497`). `FlushedIsDurable` is stated for files whose writes have not failed: when the header write
of `flush_up_to` fails, `flushed_lsn` is already ahead of it.

## 4. The proofs

**`WalProofs`**, for any transactions, requests, buffer size and bounds:
`TypeInvariant`, `CommitDurability` (`[]CommitDurable`) and `DurableStable` (`StableLog`).
`CommitDurable` alone is not inductive: a flush in flight is about to write a header, and
new records are about to be written over the remains of an old flush. `IInv` is `TypeOK /\
Placement /\ CommitDurable`, where `Placement` says where everything is: the buffered
records follow each other from where the header in memory says, the call in flight will write a
header that ends at a record it has already written, and nothing not yet written lies before
the durable tail. From it a step can neither overwrite a durable record nor move
the tail back, which is `DurableStable`; and a call answers Ok only when its record lies
before the tail, which gives `CommitDurability`.

On top of it: `HeaderSoundHolds`, `ActiveTxnsExactHolds`,
`FlushedIsDurableHolds`, `Refinement` (`ImplementsLog`, the refinement of `AbstractLog`) and
`ReadersAgreeHolds`. The argument is about the set `Log`: the written records the log
accounts for, and the buffered ones. A step leaves it alone, appends the next LSN to it, or (a restart) cuts it
down to its durable part (`LogStepInv`). `LogInv` is what that needs: records in LSN order that do not
overlap (`LogOrdered`), no hole in the buffer and no record across the place where the next write
starts (`Contiguous`, `NoStraddle`), so that the remains of a flush that was cut short never enter it;
a header on disk that is behind the one in memory (`DurableBehind`), names a durable checkpoint
(`CheckpointsNamed`); and `flushed_lsn` behind the buffer (`FlushTracked`).
The refinement follows with the durable records as the stable part: what becomes durable in a step is a prefix of
what was not (`DurablePrefix`). `ReadersAgree` needs `ChainInv` besides: each record
starts where the one before it ends and has its length as `prev`, and each header names the last record
of what it accounts for. The two readers are recursive functions; what they return is compared with
reaching along links (`Reach`). `WalAssumption` says of checkpoint requests that they carry id 0, as
`write_checkpoint` passes it: with another id a checkpoint would enter the table of active transactions.

**`BplusTreeTypeProofs`**, for every `ORDER` of at least 3 and any keys, records and number of pages:
`TreeIsTyped`, `Spec /\ [][OneRoot]_vars => []TypeOK`, calls that fail half way included. `TypeOK` says that what a page
or a call refers to exists and is of the right kind, and that rests on more than types: a descent must
end at a leaf, not where its bound of `NextId` pages cuts it off (`DescentTrail`); the page a call
goes up to must be the parent of the page it was at; the half of a page to be split must have a cell to promote
(`HalvesAre`); a sibling that lends or merges must be a page of the same kind (`Family`); and the heir of an empty
root must be a page of the tree. The invariant (`TypedInv`) is that there are levels, a number for each page, under which
every page is a leaf at level 0 or has all children one level below (`Levels`), and a set of pages, the tree's
and perhaps others, which refer to none outside it, the root being its only page on its level and its only one of
kind Root (`Live`); and a call in progress has a trail of pages from the root, each a child of the one before (`Trail`, `CallAt`). The
levels are not in the state: the proof says how each step changes them, which is not at all but for the
new pages of a split. That the tree is a tree is not needed, so a merge that fails with cells in two pages, or pages that
a merge leaves behind, keep the invariant. `OneRoot` is needed since such a page may be of kind Root and be opened; with the
assumption the page that is opened is the root there was (`OnlyRoot`).
What rebuilding, inserting and removing do to a list of cells is proved once, by induction over its length
(`RebuildIs`, `AddCellIs`, `RemoveCellAtIs`), and what they do to the child a key leads to in `AddedChild`, `RemovedChild` and `HalvesSplit`.

**`BplusTreeProofs`** continues it, from `[][OneRoot /\ FailsClean]_vars`: `SearchesFind` (`[]SearchFinds`),
`FoundUntilDeleted` (`KeysStayFound`) and `TreeImplementsMap` (`ImplementsMap`, the refinement of `KVMap`). `FailsClean` says that a
call that answers with an error has changed no page, which the code does not keep when it merges full internal pages
(`tree_lost_keys`). `SearchFinds` is not inductive: while a call goes up the tree, keys have moved to pages of which the parent does not know yet.
The invariant adds routes, a witness like the levels: for each level, the page to which a search for each integer comes
there (`Routes`). A page's own keys are routed to it, and pages of one level share a parent exactly
where a slot of the parent says so (`Link`), so every key in a leaf is found. A split (`SplitRoutes`, `SplitRootRoutes`), a borrowing
(`BorrowLeftRoutes`, `BorrowRightRoutes`), a merge (`MergeRoutes`) and a renamed separator (`RenameRoutes`) each give
new routes: only one level's change, and only between two neighbours (`Regrouped`). What each step does to the entries
of a key is said by comparing the leaves of the routes before and after (`SameEntries`), from which the map
that `ImplementsMap` names follows (`ContentsAre`), with its answers.

**`PageStoreProofs`**, for any number of lookups at once, pages, frames and changes:
first `WriteAheadRule` (`[]WriteAhead`). `IInv` adds to `WriteAhead` where pages that will be written come from:
every change in a dirty frame or in a page on its way to the file is
durable or not past the LSN the log will be flushed to, and a clean frame or a page
just read from the file has durable changes only. One lemma for each action; `InsertOK` and `WriteBackOK` carry
what they share, `FlushGetOK` and its like the steps of a flush. It assumes `FlushAlone`: a flush
beside changes breaks the rule (`MCPageStoreFlush.cfg`). The proof does not depend on how the victim is chosen, and holds although `ReadsLatest`
and `NoChangeLost` fail with two lookups.
Under `FlushAlone` and `[][ReadsAfterWrites]_vars`, again for any number of lookups beside each other, it also has
`DirtyTableCoversHolds`, `ReadsLatestHolds` and
`NoChangeLostHolds`. `CacheInv` says where the one current copy of each page is: in the pool; or on its way to the
file with a lookup that pushed it out, and with one only (`WritersApart`); or in the file. A clean frame is the file's page, what a dirty frame has and the file
lacks is not before its `rec_lsn`, a page that a lookup has read is the file's, which is current (`Settled`), and the frames that a
flush in progress will mark clean are in the file. Both assumptions are needed: a lookup that reads a page on its way to the file loses
a change (run `page_store_lost_change`), a change beside a flush a dirty mark (`MCPageStoreFlushMarks.cfg`).

For any number of lookups, with or without flushes beside them, it has
`PoolTypes` (`[]TypeOK`), without the two assumptions. The content is in the pool's part: never more frames than
`Capacity`, only pages in the pool marked dirty, and `lru_order` with each id once and every frame
in it, so `evict_one` always finds a victim (`VictimInPool`). `evict_one` and `retain` search a list;
`ExceptFacts` says by induction over its length what they leave.

**`RecoveryProofs`**, for any transactions, pages, items, buffer size and bounds:
`RecoveryRight`, `Spec /\ [][Orderly]_vars => []CommittedSurvive`; and, from `[][NoOrphans]_vars` alone,
`PagesLogged` (`[]PagesAreLogged`) and `RecoveryTyped` (`[]TypeOK`; with orphans a page may be in the
pool with a `rec_lsn` past its `page_lsn`).
`CommittedSurvive` is about the pages while calls are answered; after a crash only the log, the files and the
last checkpoint are left, so its inductive invariant (`RecoveryInv`) is about what these say.
`Shows(L, U, p, n, i)` reads a page off the log: item `i` is in page `p` after the first `n` records, where
what begins on the page with the first update by a transaction of `U` is left out.
`Isolated` makes leaving out the same as undoing: from an open transaction's first update on, the page has
changes of that transaction only (`Alone`). The parts:

- `LogOK`: an update found on its page what the log shows before it (`ExactAt`); a compensation record
  mirrors an update before it; nothing of a transaction follows its end; a checkpoint names the
  transactions and pages it must.
- `Meaning`: for every set of open transactions, the log without them shows what the others did to `base`. A commit and an
  abort move a transaction from one side to the other; a crash leaves out all that are open.
- `Current`, `UndoneOK`: a page is what the log shows, and while recovery undoes, except for items that an update still
  to be undone moves; what no such update moves is as if the losers had not been.
- `Filed`, `Pooled`, `CkptOK`: from the checkpoint's entry for a page, from the `rec_lsn` of its
  frame, or from the table that a checkpoint in progress has read, the log's changes bring the page's file up to date
  (`Redoable`), in both copies that a crash may leave. Items that a loser moved are excepted: undo sets them.
- `EndsDurable`, `UpdatesDurable`, `Flushed`: ends are forced, a crash leaves no update that is not durable, a change
  that is not durable keeps its page in the pool.
- `TodoOK`, `Compensated`, `StatusOK`, `AutoItems`, `DidsApart`: how far recovery is, that
  what it has undone has a compensation record a later redo applies, and whose items are whose.

There is a lemma for each action. `RedoInv` needs that the losers found by the scan from the checkpoint on are the open
transactions (`LosersRight`) and that redo's loop ends with what the log shows (`RedoneIs`, by induction over the
records); `UndoInv` that undoing the last update left sets each item it moved as the log without the losers has it;
`CrashInv` that a durable prefix of the log without the open transactions shows what the whole log
without them shows; `UpdateStep` what one update does to all parts, of which an insertion or deletion has one and a split two.
`PagesLogged` has an invariant of its own (`LoggedInv`): what an update found has earlier records, so what
undo puts in, without giving the page an LSN, is durable already; and a frame's keys have records that
are durable or not past its `page_lsn`, up to which an eviction flushes.

**`SlottedPageProofs`**, for pages of every size, any keys, pointers and contents:
`PageSoundHolds`, `ReadAsWrittenHolds`, `RoomForOrderHolds` and `Refinement` (`ImplementsSortedPage`). The invariant adds to `PageSound` that the n-th cell to
come lies n cells before the page's end (`Geometry`), so free space is a function of the
count; and for a call in progress the loop invariant of the binary search: keys before `lo`
are smaller, keys from `hi` on are larger, and the cell to be linked is already where its slot will
point (`SearchSound`). That the page is full exactly at `ORDER` cells is then arithmetic with
the sizes and the division that defines `ORDER`.
The refinement shows callers `Content(Before)`, the map of the page before the call in progress, so every step
but the one that ends a call stutters. `CallKept` says how far the call has got: the first cells of its
list are on the page, with those it found there if it is `add_cell`, under different keys, and the rest of the
list is to come (`Fed`, `Placed`). `LinkCells` gets from the loop invariant of the search that a cell linked in is of
a new key; at the end what the page holds, why it stopped and what the abstract page would do with the
same list agree (`AddEnds`, `RebuildEnds`, `RemoveEnds`). A map is determined by a set of cells (`SameMap`), so the order in
which they came does not matter, and a slot's index is the number of smaller keys (`KeyRank`), by which
the abstract page knows which cell `remove_cell_at` means. A removal never refuses a cell of its own.

**`HeapFileProofs`**, for pages of every size, any records, rows, keys and number of pages:
`LayoutHolds` without further assumption, `RowsKeptHolds` and `RefusedForSizeHolds` under `HeadsAlone`
(`MCHeapFileHeads.cfg` has the counterexample without it). A page is good if it is laid out and what is free
follows from what it holds; `AddRecord` keeps it so or refuses, hence so does every prefix of the
records in `AddRecords` and `PutAll` (`UpTo`, `LoopRuns`). That chains end is a matter of order:
a link leads to a page with a larger id, since overflow pages are allocated after the page they continue and
no freed page is reused (`FileOK`); and no two links lead to one page, so chains from different heads are apart
(`HeadsApart`). `Chain` then returns the one sequence that follows the links to a page without a successor. `RowsInv` says
that each page in `stored` is no page's successor and that its chain holds its rows in order; what
an insertion does past the end of one chain cannot reach another.

**`ValuesProofs`**, for integers of any width, any floats and any rounding that keeps order:
`CmpIsTotalOrder` and `EqualValuesHashAlike`. `Ord::cmp` compares an integer with a float after
rounding it and breaks ties by type; the proof gives each value four integers and shows
that `cmp` is their lexicographic order (`CmpByKeys`), from which antisymmetry, transitivity and
agreement with `PartialEq` follow. The run `front_end` checks the same as parts of `OrderAgrees`
(which a proof cannot state: `Expressions` has recursive operators).

**Induction.** The induction theorems of the library take an operator, which the provers cannot use. The proof modules
have in its place what they need of three lemmas about sets: a non-empty set of naturals has a least member
(`LeastNatural`), what passes from each number to the next holds up to the end
(`UpTo`), and a loop written as a recursive function has exactly one run, each of whose states follows from the
one before (`LoopRuns`). With them `Chain`, `PutAll`, `Except` and the readers of the log are proved
about for inputs of every length.

The assumptions are `WalAssumption`, `TreeAssumption`, `RecoveryAssumption`, `PageStoreAssumption`, `HeapAssumption`, `PageSizeAssumption`, `PageAssumption`,
`IntAssumption`, `FloatAssumption`, `RoundingMonotone` and `TextAssumption`, on constants alone; the
runs evaluate them. `OneRoot`, `FailsClean`, `FlushAlone`, `ReadsAfterWrites`, `HeadsAlone`, `NoOrphans` and `Orderly` are hypotheses of the theorems that need
them. The code enforces none of these but `FlushAlone`, as far as nothing but tests flushes; section 3 names for each what happens without it.

**Only model-checked**: the properties of `FrontEnd`, which has RECURSIVE operators, as expressions do; and of
`BplusTree`, `WellFormed`: that the tree is a tree with a chain of leaves and pages that are not too empty is not needed for
searches. Liveness (`CallEnds`) is out of the prover's reach.

## 5. Not modelled

- Bytes: the layout inside a log record, a cell, a heap record and the headers.
- The functions that stand for a crash in tests (`discard_dirty`, `discard_all_dirty`,
  `drain_dirty`): they lose less than a crash does.
- Pins and `BufferPool::remove`, which no modelled step meets.
- `recover` in a running process; `begin` of an id that is in use, or that was aborted.
- A page allocated and never written, which reads as an empty root.
- A page torn by a `pwrite` beside a read: pages are read and written whole.
- Where `flushed_lsn` is read without the log's mutex (`wal.rs:558`): only tests do.
- SQL text: tokens are the `sqlparser` crate's. Of the parser, `convert_expr`,
  `convert_projection`, ORDER BY, assignment targets, DESCRIBE and SHOW rename one tree to another;
  what they pass over (`SELECT * EXCEPT`, words after DESCRIBE's second) is not stated as wrong anywhere.
- `Display` of expressions and errors; `Catalog` as a map, which has no operations; the id generator, which has no caller.

## 6. Plan

1. Done: `Wal`, `BplusTree`, `PageStore`, `Recovery`, `SlottedPage`, `HeapFile` and the front end, the abstract
   specifications `AbstractLog`, `KVMap` and `SortedPage`, and the proofs of section 4.
2. The abstract specification of a transactional store that `Recovery` implements under `Orderly`.
3. `PageStore` composed with `Wal` in place of the number `flushed`; `BplusTree` over the pages
   of `SlottedPage` by instance.
4. A module for opening files after a crash: page kinds in `Recovery`, for the page of zeros that reads as a root.
5. Liveness of the log's calls, and of recovery when crashes stop.
6. Proofs: `WellFormed` of `BplusTree`, for calls that do not fail.
