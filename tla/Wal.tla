-------------------------------- MODULE Wal --------------------------------
(***************************************************************************)
(* The write-ahead log: storage/engine/bplus_tree/wal.rs and wal_buffer.rs. *)
(*                                                                          *)
(* A record goes into an in-memory buffer and is written to the log file    *)
(* by flush_up_to, which syncs the records FIRST and the file header        *)
(* SECOND: a crash may fall between the two.  The Wal mutex is held for     *)
(* the whole of every call, so at most one call is in flight; `call' is     *)
(* how far it has got.  Between two file writes a call only touches memory, *)
(* so a step of this module ends at each file write.                        *)
(*                                                                          *)
(* The log file is the set of the records whose bytes are intact in it.     *)
(***************************************************************************)
EXTENDS Integers, Sequences, FiniteSets

CONSTANTS
    Txns,       \* transaction ids a caller may pass (never 0)
    AutoTxn,    \* transaction id 0: an operation outside any transaction
    Requests,   \* the records callers may ask for: [type, txn, len]
    HdrSize,    \* WAL_HEADER_SIZE: the offset of the first record
    MaxFrames,  \* WAL_POOL_CAPACITY: records the buffer holds before it is full
    MaxLsn,     \* bound: no record is appended past this LSN
    MaxCrashes, \* bound: crashes (process death at any point) in a behaviour
    MaxIoErrors \* bound: failed file operations in a behaviour

RecordType == {"Begin", "Update", "Commit", "Abort", "Clr", "Checkpoint"}

\* The calls that do not return before their own record is flushed.
Forced == {"Commit", "Abort", "Checkpoint"}

Request == [type : RecordType, txn : Txns \cup {AutoTxn}, len : Nat \ {0}]

ASSUME WalAssumption ==
    /\ AutoTxn \notin Txns
    /\ Requests \subseteq Request
    \* write_checkpoint passes transaction 0
    /\ \A r \in Requests : r.type = "Checkpoint" => r.txn = AutoTxn
    /\ HdrSize \in Nat \ {0}
    /\ MaxFrames \in Nat \ {0}
    /\ MaxLsn \in Nat /\ MaxCrashes \in Nat /\ MaxIoErrors \in Nat

VARIABLES
    hdr,      \* WalInner.header: [chk, off, len, next], `next' the LSN to give next
    dhdr,     \* the header in the log file
    wbuf,     \* WalInner.wal_buffer: the records not yet flushed, oldest first
    file,     \* the records in the log file
    flushed,  \* WalInner.flushed_lsn
    active,   \* WalInner.active_txns: last LSN of each open transaction, 0 if none
    call,     \* the call that holds the mutex
    acked,    \* history: commit, abort and checkpoint records whose call returned Ok
    opened,   \* history: the first LSN this process gives out
    crashes, ioerrs

vars == <<hdr, dhdr, wbuf, file, flushed, active, call, acked, opened, crashes, ioerrs>>
-----------------------------------------------------------------------------
Header == [chk : Nat, off : Nat, len : Nat, next : Nat]

\* A record, and where in the file it is (or will be).
Entry == [off : Nat, len : Nat \ {0}, prev : Nat, lsn : Nat,
          txn : Txns \cup {AutoTxn}, type : RecordType]

End(e) == e.off + e.len

\* Where the record after the one the header names goes.
NextOffset(h) == h.off + h.len

SeqSet(s) == {s[i] : i \in DOMAIN s}

\* A call in flight.  pc: what it does next.  todo: the record it will append
\* once the full buffer is flushed.  rec: the record it appended and must flush.
\* target: the LSN to flush up to.  off, len: the last record it flushed.
Call == [pc : {"idle", "records", "header", "chk"},
         todo : SUBSET Request, rec : SUBSET Entry,
         target : Nat, off : Nat, len : Nat]

Idle == [pc |-> "idle", todo |-> {}, rec |-> {}, target |-> 0, off |-> 0, len |-> 0]

\* A call about to flush up to `target'.
Flushing(todo, rec, target) ==
    [pc |-> "records", todo |-> todo, rec |-> rec, target |-> target, off |-> 0, len |-> 0]

\* Writing records over the file destroys every old record that starts
\* inside the bytes written.
Overwrite(f, new) ==
    {e \in f : \A n \in new : e.off < n.off \/ e.off >= End(n)} \cup new

\* flush_all's u64::MAX: an LSN no record has reached.
FlushAllTarget == hdr.next

TypeOK ==
    /\ hdr \in Header /\ dhdr \in Header
    /\ wbuf \in Seq(Entry) /\ file \subseteq Entry
    /\ flushed \in Nat
    /\ active \in [Txns -> Nat]
    /\ call \in Call
    /\ acked \subseteq Entry
    /\ opened \in Nat
    /\ crashes \in 0..MaxCrashes /\ ioerrs \in 0..MaxIoErrors

\* Wal::new on an empty file.
Init ==
    /\ hdr = [chk |-> 0, off |-> HdrSize, len |-> 0, next |-> 1]
    /\ dhdr = hdr
    /\ wbuf = <<>> /\ file = {}
    /\ flushed = hdr.next - 1
    /\ active = [t \in Txns |-> 0]
    /\ call = Idle
    /\ acked = {}
    /\ opened = hdr.next
    /\ crashes = 0 /\ ioerrs = 0
-----------------------------------------------------------------------------
\* Mutants: the offset of the last record instead of the one after it; the
\* new record's own length as prev_record_len.
NewEntryAtLast(r) == [off |-> hdr.off, len |-> r.len, prev |-> hdr.len,
                      lsn |-> hdr.next, txn |-> r.txn, type |-> r.type]
NewEntryOwnLen(r) == [off |-> NextOffset(hdr), len |-> r.len, prev |-> r.len,
                      lsn |-> hdr.next, txn |-> r.txn, type |-> r.type]

\* The record write_raw_record builds for a request.
NewEntry(r) == [off |-> NextOffset(hdr), len |-> r.len, prev |-> hdr.len,
                lsn |-> hdr.next, txn |-> r.txn, type |-> r.type]

\* Mutants: the check for transaction 0 dropped; only begin_transaction puts a
\* transaction there.
RegisterAuto(r) ==
    [t \in Txns \cup {r.txn} |-> IF t = r.txn THEN hdr.next ELSE active[t]]
RegisterBegin(r) ==
    CASE r.type \in {"Commit", "Abort"} /\ r.txn \in Txns -> [active EXCEPT ![r.txn] = 0]
      [] r.type = "Begin" /\ r.txn \in Txns -> [active EXCEPT ![r.txn] = hdr.next]
      [] OTHER -> active

\* The active-transaction bookkeeping of write_record, write_clr,
\* begin_transaction, commit_transaction and abort_transaction.
Register(r) ==
    CASE r.type \in {"Commit", "Abort"} /\ r.txn \in Txns -> [active EXCEPT ![r.txn] = 0]
      [] r.type \in {"Begin", "Update", "Clr"} /\ r.txn \in Txns ->
                                            [active EXCEPT ![r.txn] = hdr.next]
      [] OTHER -> active

\* The in-memory half of write_raw_record, and what its caller does next: a
\* commit, an abort or a checkpoint flushes up to its own record.
AppendRecord(r) ==
    /\ hdr' = [chk |-> hdr.chk, off |-> NextOffset(hdr), len |-> r.len, next |-> hdr.next + 1]
    /\ wbuf' = Append(wbuf, NewEntry(r))
    /\ active' = Register(r)
    /\ call' = IF r.type \in Forced
               THEN Flushing({}, {NewEntry(r)}, hdr.next)
               ELSE Idle

\* A call that writes a record, the buffer not being full.
WriteRecord(r) ==
    /\ call = Idle /\ hdr.next <= MaxLsn
    /\ Len(wbuf) < MaxFrames
    /\ AppendRecord(r)
    /\ UNCHANGED <<dhdr, file, flushed, acked, opened, crashes, ioerrs>>

\* The same call on a full buffer: flush_all comes first.
WriteRecordFull(r) ==
    /\ call = Idle /\ hdr.next <= MaxLsn
    /\ Len(wbuf) >= MaxFrames
    /\ call' = Flushing({r}, {}, FlushAllTarget)
    /\ UNCHANGED <<hdr, dhdr, wbuf, file, flushed, active, acked, opened, crashes, ioerrs>>

\* The early returns of flush_up_to.
NothingToFlush(target) ==
    \/ flushed >= target /\ target # FlushAllTarget
    \/ wbuf = <<>>
    \/ wbuf # <<>> /\ target < wbuf[1].lsn /\ target # FlushAllTarget

FlushNothing(target) ==
    /\ call = Idle
    /\ NothingToFlush(target)
    /\ UNCHANGED vars

FlushUpTo(target) ==
    /\ call = Idle
    /\ ~NothingToFlush(target)
    /\ call' = Flushing({}, {}, target)
    /\ UNCHANGED <<hdr, dhdr, wbuf, file, flushed, active, acked, opened, crashes, ioerrs>>

\* The number of buffered records the flush in flight covers.
Covered(n) ==
    /\ wbuf[n].lsn <= call.target
    /\ n < Len(wbuf) => wbuf[n + 1].lsn > call.target

\* Mutants: a flush of a prefix clears the whole buffer; or counts all of it flushed.
RemainingNone(n) == <<>>
LastFlushedAll(n) == wbuf[Len(wbuf)].lsn

\* The buffer and the flushed LSN once n records are flushed.
Remaining(n) == SubSeq(wbuf, n + 1, Len(wbuf))
LastFlushed(n) == wbuf[n].lsn

\* flush_up_to writes and syncs the records, then forgets them.
FlushRecords ==
    /\ call.pc = "records"
    /\ \E n \in 1..Len(wbuf) :
          /\ Covered(n)
          /\ file' = Overwrite(file, {wbuf[i] : i \in 1..n})
          /\ flushed' = LastFlushed(n)
          /\ wbuf' = Remaining(n)
          /\ call' = [pc |-> "header", todo |-> call.todo, rec |-> call.rec,
                      target |-> call.target, off |-> wbuf[n].off,
                      len |-> IF n = Len(wbuf) THEN hdr.len
                              ELSE wbuf[n + 1].off - wbuf[n].off]
    /\ UNCHANGED <<hdr, dhdr, active, acked, opened, crashes, ioerrs>>

\* Mutants: the header keeps the old tail; or the old next_lsn.
FlushedHeaderOldTail == [hdr EXCEPT !.off = dhdr.off, !.len = dhdr.len]
FlushedHeaderOldNext == [dhdr EXCEPT !.off = call.off, !.len = call.len]

\* The header flush_up_to writes: the one in memory, but naming the last
\* record flushed.
FlushedHeader == [hdr EXCEPT !.off = call.off, !.len = call.len]

\* The LSN write_checkpoint puts in the header.
CheckpointLsn(e) == e.lsn

\* The rest of flush_up_to, and then the rest of the call: append the record
\* there was no room for, go on with the checkpoint, or return Ok.
FlushHeader ==
    /\ call.pc = "header"
    /\ dhdr' = FlushedHeader
    /\ \/ /\ \E r \in call.todo : AppendRecord(r)
          /\ UNCHANGED acked
       \/ /\ \E e \in call.rec :
                /\ e.type = "Checkpoint"
                /\ hdr' = [hdr EXCEPT !.chk = CheckpointLsn(e)]
          /\ call' = [call EXCEPT !.pc = "chk"]
          /\ UNCHANGED <<wbuf, active, acked>>
       \/ /\ call.todo = {} /\ \A e \in call.rec : e.type # "Checkpoint"
          /\ acked' = acked \cup call.rec
          /\ call' = Idle
          /\ UNCHANGED <<hdr, wbuf, active>>
    /\ UNCHANGED <<file, flushed, opened, crashes, ioerrs>>

\* write_checkpoint's flush_header.
FlushCheckpoint ==
    /\ call.pc = "chk"
    /\ dhdr' = hdr
    /\ acked' = acked \cup call.rec
    /\ call' = Idle
    /\ UNCHANGED <<hdr, wbuf, file, flushed, active, opened, crashes, ioerrs>>

\* What a write of the buffered records that does not complete may leave in
\* the file: the first k of them.
PartialWrite ==
    IF call.pc = "records"
    THEN {Overwrite(file, {wbuf[i] : i \in 1..k}) : k \in 0..Len(wbuf)}
    ELSE {file}

\* What a header write that does not complete may leave.
PartialHeader ==
    CASE call.pc = "header" -> {dhdr, FlushedHeader}
      [] call.pc = "chk" -> {dhdr, hdr}
      [] OTHER -> {dhdr}

\* A write or a sync fails: `?' returns the error, and the in-memory state is
\* whatever it was at that line.
IoError ==
    /\ call.pc # "idle" /\ ioerrs < MaxIoErrors
    /\ file' \in PartialWrite /\ dhdr' \in PartialHeader
    /\ call' = Idle
    /\ ioerrs' = ioerrs + 1
    /\ UNCHANGED <<hdr, wbuf, flushed, active, acked, opened, crashes>>

\* The process dies, at any point of any call, and Wal::new opens the file.
Restart ==
    /\ crashes < MaxCrashes
    /\ file' \in PartialWrite /\ dhdr' \in PartialHeader
    /\ hdr' = dhdr'
    /\ wbuf' = <<>>
    /\ flushed' = dhdr'.next - 1
    /\ active' = [t \in Txns |-> 0]
    /\ opened' = dhdr'.next
    /\ call' = Idle
    /\ crashes' = crashes + 1
    /\ UNCHANGED <<acked, ioerrs>>

Next ==
    \/ \E r \in Requests : WriteRecord(r) \/ WriteRecordFull(r)
    \/ \E target \in 1..hdr.next : FlushNothing(target) \/ FlushUpTo(target)
    \/ FlushRecords \/ FlushHeader \/ FlushCheckpoint
    \/ IoError \/ Restart

Spec == Init /\ [][Next]_vars
-----------------------------------------------------------------------------
(* What the readers of the log see. *)

\* read_all_records: from the first byte after the header, record after
\* record, until no record can be read.
ScanFrom[o \in Nat] == UNION {{e} \cup ScanFrom[End(e)] : e \in {f \in file : f.off = o}}
Scan == ScanFrom[HdrSize]

\* read_records_backward: from the record the header names, back by
\* prev_record_len, to the record whose prev_record_len is 0.
BackFrom[o \in Nat] ==
    UNION {{e} \cup IF e.prev = 0 \/ o < HdrSize + e.prev THEN {} ELSE BackFrom[o - e.prev]
           : e \in {f \in file : f.off = o}}
WalkBack(h) == IF h.len = 0 THEN {} ELSE BackFrom[h.off]

\* The records this process has as its log: those in the file before the
\* first buffered one, and the buffered ones.
BufferStart == IF wbuf = <<>> THEN NextOffset(hdr) ELSE wbuf[1].off
Written == {e \in file : End(e) <= BufferStart}
Log == Written \cup SeqSet(wbuf)

\* The records the header in the file accounts for.
Durable == {e \in file : End(e) <= NextOffset(dhdr)}
-----------------------------------------------------------------------------
(* Properties. *)

\* A commit, an abort or a checkpoint that returned Ok is in the part of the
\* log file the header on disk accounts for, for ever: through later calls,
\* failed writes, crashes, and new records written over the remains of a
\* flush that was cut short.  (wal_buffer.rs: on commit we MUST fsync to disk.)
CommitDurable == acked \subseteq Durable

\* While no call is in flight, and no file write has failed so far, every
\* record flush_up_to would call flushed, so that a page holding its change may
\* be written (the WAL rule), is accounted for by the header on disk: a crash
\* cannot take it from the undo walk.  (A failed write of the header breaks it:
\* flushed_lsn has moved by then.)
FlushedIsDurable ==
    ioerrs = 0 /\ call.pc = "idle" => {e \in Log : e.lsn <= flushed} \subseteq Durable

\* Both readers agree on the log after any crash: the walk back from the
\* header on disk returns exactly the durable records, and the scan from the
\* start returns all of them, however the tail of the file was torn.
ReadersAgree ==
    /\ WalkBack(dhdr) = Durable
    /\ Durable \subseteq Scan

\* The checkpoint the header on disk names, which recovery starts from, is a
\* checkpoint record the walk back can reach, and the only record with its
\* LSN there.
CheckpointReachable ==
    dhdr.chk # 0 => /\ \E e \in Durable : e.lsn = dhdr.chk /\ e.type = "Checkpoint"
                    /\ \A e \in Durable : e.lsn = dhdr.chk => e.type = "Checkpoint"

\* Durable records are in LSN order in the file, and the header on disk will
\* never give out the LSN of one of them again after a crash.
LsnOrder ==
    /\ \A e \in Durable : e.lsn < dhdr.next
    /\ \A e, f \in Durable : e.off < f.off => e.lsn < f.lsn

\* A crash at any point leaves a header that recovery can start from and a later
\* process can append after.
HeaderSound == CheckpointReachable /\ LsnOrder

\* The records of transaction t that this process wrote.
Mine(t) == {e \in Log : e.txn = t /\ e.lsn >= opened}

\* The active-transaction table, which a checkpoint records as the losers, is
\* exact, between calls, in the middle of them and after failed writes: it has
\* the last record of each transaction this process has a record of, unless
\* that is a commit or an abort, and no other transaction.  So recovery is
\* neither left without a loser nor handed one that has ended.
ActiveTxnsExact ==
    \A t \in Txns :
        /\ Mine(t) = {} => active[t] = 0
        /\ \A e \in Mine(t) :
              (\A f \in Mine(t) : f.lsn <= e.lsn) =>
                  active[t] = IF e.type \in Forced THEN 0 ELSE e.lsn

\* The promise: the durable records are the stable part of the abstract log,
\* and the other records of this process its volatile part.
Abstract == INSTANCE AbstractLog
              WITH stable <- Durable, volatile <- Log \ Durable, acked <- acked

\* The log file, buffer and headers implement the abstract log: every step of
\* every call, failed or not, and every crash is a step of it or changes
\* nothing it shows.
ImplementsLog == Abstract!LogSpec

\* No step destroys a durable record or moves the durable tail back.
StableLog ==
    [][/\ Durable \subseteq Durable'
       /\ NextOffset(dhdr') >= NextOffset(dhdr)]_vars
-----------------------------------------------------------------------------
(* A claim of a comment that the code does not keep. *)

\* header.rs, last_wal_offset: "we can use this to trace the last WAL and walk
\* back".  With nothing buffered, the walk back from the header meets every
\* record the forward scan reads.
WalkBackMeetsScan == call.pc = "idle" /\ wbuf = <<>> => Scan \subseteq WalkBack(hdr)
=============================================================================
