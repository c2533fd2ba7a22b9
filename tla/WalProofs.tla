----------------------------- MODULE WalProofs -----------------------------
(***************************************************************************)
(* What the log guarantees for every set of transactions and requests,      *)
(* every buffer size and every bound: it is well typed, a commit that       *)
(* returned Ok is durable, and nothing durable is ever lost.                *)
(*                                                                          *)
(* CommitDurable is not inductive.  A record is acknowledged once the       *)
(* header on disk covers it, so the invariant must say where the bytes      *)
(* still to be written go: never before the Floor, the end of the last      *)
(* record written so far.                                                   *)
(***************************************************************************)
EXTENDS Wal, SequenceTheorems, WellFoundedInduction, TLAPS

-----------------------------------------------------------------------------
(* Induction over the natural numbers, of sets and not of operators. *)

\* The smallest counterexample, which the proofs by induction refute.
LEMMA LeastNatural ==
    ASSUME NEW S \in SUBSET Nat, S # {}
    PROVE  \E m \in S : \A k \in S : m <= k
<1> DEFINE R == {p \in Nat \X Nat : p[1] < p[2]}
<1>1. IsWellFoundedOn(OpToRel(<, Nat), Nat)
      BY NatLessThanWellFounded
<1>2. IsWellFoundedOn(R, Nat)
      BY <1>1 DEF OpToRel
<1> HIDE DEF R
<1>3. PICK m \in S : \A k \in S : <<k, m>> \notin R
      BY <1>2, WFMin
<1>4. ASSUME NEW k \in S
      PROVE  m <= k
  <2>1. <<k, m>> \notin R /\ <<k, m>> \in Nat \X Nat
        BY <1>3
  <2>2. ~(k < m)
        BY <2>1, Zenon DEF R
  <2> QED  BY <2>2
<1> QED  BY <1>4

-----------------------------------------------------------------------------
\* The offset before which the file is not written any more: the end of what
\* the header on disk names, or of what the flush in flight has just written.
Floor == IF call.pc = "header" THEN call.off + call.len ELSE NextOffset(dhdr)

LsnsPositive == hdr.next >= 1 /\ dhdr.next >= 1

\* The durable tail, the flushed tail and the tail of the log are in order.
TailsOrdered ==
    /\ NextOffset(dhdr) <= Floor
    /\ Floor <= NextOffset(hdr)

\* Buffered records go between the floor and the tail of the log.
BufferPlaced ==
    \A i \in 1..Len(wbuf) : Floor <= wbuf[i].off /\ End(wbuf[i]) <= NextOffset(hdr)
                            /\ wbuf[i].lsn < hdr.next

\* They are in order, by offset and by LSN, and do not overlap.
BufferOrdered ==
    \A i, j \in 1..Len(wbuf) :
        i < j => End(wbuf[i]) <= wbuf[j].off /\ wbuf[i].lsn < wbuf[j].lsn

\* The header in memory names the last of them.
HeaderNamesLast ==
    Len(wbuf) > 0 => wbuf[Len(wbuf)].off = hdr.off /\ wbuf[Len(wbuf)].len = hdr.len

\* How far the record a call has to flush has got.
CallRecord ==
    /\ call.pc = "idle" => call = Idle
    /\ call.todo # {} => call.rec = {}
    /\ call.pc = "records" /\ call.rec # {} =>
          /\ Len(wbuf) > 0
          /\ call.rec = {wbuf[Len(wbuf)]}
          /\ call.target = wbuf[Len(wbuf)].lsn
    /\ call.pc = "header" /\ call.rec # {} =>
          /\ Len(wbuf) = 0
          /\ call.rec \subseteq file
          /\ \A e \in call.rec : End(e) <= call.off + call.len
    /\ call.pc = "chk" => /\ Len(wbuf) = 0
                          /\ call.rec \subseteq Durable

Placement == LsnsPositive /\ TailsOrdered /\ BufferPlaced /\ BufferOrdered
               /\ HeaderNamesLast /\ CallRecord

IInv == TypeOK /\ Placement /\ CommitDurable
-----------------------------------------------------------------------------
\* Arithmetic of records and headers.
LEMMA RecordFacts ==
    /\ \A e \in Entry : /\ e.off \in Nat /\ e.len \in Nat /\ e.len > 0
                        /\ End(e) \in Nat /\ e.off < End(e)
                        /\ e.lsn \in Nat /\ e.prev \in Nat
    /\ \A h \in Header : /\ h.off \in Nat /\ h.len \in Nat /\ h.next \in Nat
                         /\ h.chk \in Nat /\ NextOffset(h) \in Nat
BY DEF Entry, Header, End, NextOffset

\* What the buffered records are: entries.
LEMMA BufferFacts ==
    ASSUME TypeOK
    PROVE  /\ Len(wbuf) \in Nat
           /\ \A i \in 1..Len(wbuf) : wbuf[i] \in Entry
BY ElementOfSeq, LenProperties DEF TypeOK

\* The record built for a request is an entry placed at the tail of the log.
LEMMA NewEntryFacts ==
    ASSUME TypeOK, NEW r \in Request
    PROVE  /\ NewEntry(r) \in Entry
           /\ NewEntry(r).off = NextOffset(hdr)
           /\ NewEntry(r).len = r.len
           /\ End(NewEntry(r)) = NextOffset(hdr) + r.len
           /\ NewEntry(r).lsn = hdr.next
BY RecordFacts DEF TypeOK, Request, NewEntry, Entry, Header, End, NextOffset

\* Overwriting with entries gives entries.
LEMMA OverwriteType ==
    ASSUME NEW f, NEW new, f \subseteq Entry, new \subseteq Entry
    PROVE  Overwrite(f, new) \subseteq Entry /\ new \subseteq Overwrite(f, new)
BY DEF Overwrite

\* Overwriting from some offset on destroys nothing that ends before it.
LEMMA OverwriteKeeps ==
    ASSUME NEW f, NEW new, f \subseteq Entry, new \subseteq Entry, NEW o \in Nat,
           \A n \in new : o <= n.off,
           NEW e \in f, End(e) <= o
    PROVE  e \in Overwrite(f, new)
<1>1. e.off < End(e) /\ e.off \in Nat /\ End(e) \in Nat
      BY RecordFacts
<1>2. \A n \in new : e.off < n.off
      BY <1>1, RecordFacts
<1> QED  BY <1>2 DEF Overwrite

\* The durable records grow when the file keeps them and the tail moves up.
LEMMA DurableGrows ==
    ASSUME file \subseteq Entry, dhdr \in Header, dhdr' \in Header,
           \A e \in Durable : e \in file',
           NextOffset(dhdr) <= NextOffset(dhdr')
    PROVE  Durable \subseteq Durable'
<1> SUFFICES ASSUME NEW e \in Durable
             PROVE  e \in file' /\ End(e) <= NextOffset(dhdr')
    BY DEF Durable, End
<1>1. e \in Entry /\ End(e) <= NextOffset(dhdr)
      BY DEF Durable
<1> QED  BY <1>1, RecordFacts

\* A write of buffered records, complete or not, destroys nothing durable.
LEMMA PartialWriteKeeps ==
    ASSUME IInv, NEW f \in PartialWrite
    PROVE  f \subseteq Entry /\ Durable \subseteq f
<1>1. ASSUME NEW k \in 0..Len(wbuf), call.pc = "records"
      PROVE  LET g == Overwrite(file, {wbuf[i] : i \in 1..k})
             IN  g \subseteq Entry /\ Durable \subseteq g
  <2> DEFINE new == {wbuf[i] : i \in 1..k}
  <2>1. new \subseteq Entry
        BY BufferFacts DEF IInv
  <2>2. NextOffset(dhdr) \in Nat
        BY RecordFacts DEF IInv, TypeOK
  <2>3. \A n \in new : NextOffset(dhdr) <= n.off
        BY <1>1, BufferFacts DEF IInv, Placement, BufferPlaced, Floor
  <2>4. file \subseteq Entry
        BY DEF IInv, TypeOK
  <2> HIDE DEF new
  <2>5. Overwrite(file, new) \subseteq Entry
        BY <2>1, <2>4, OverwriteType
  <2>6. \A e \in Durable : e \in Overwrite(file, new)
        BY <2>1, <2>2, <2>3, <2>4, OverwriteKeeps DEF Durable
  <2> QED  BY <2>5, <2>6 DEF new
<1>2. file \subseteq Entry /\ Durable \subseteq file
      BY DEF IInv, TypeOK, Durable
<1> QED  BY <1>1, <1>2 DEF PartialWrite

\* A header write, complete or not, leaves a header that does not move the
\* durable tail back, and behind which no buffered record goes.
LEMMA PartialHeaderFacts ==
    ASSUME IInv, NEW h \in PartialHeader
    PROVE  /\ h \in Header /\ h.next >= 1
           /\ NextOffset(dhdr) <= NextOffset(h)
           /\ NextOffset(h) <= NextOffset(hdr)
           /\ \A i \in 1..Len(wbuf) : NextOffset(h) <= wbuf[i].off
<1>0. /\ TypeOK /\ hdr \in Header /\ dhdr \in Header /\ call.off \in Nat /\ call.len \in Nat
      /\ LsnsPositive /\ TailsOrdered /\ BufferPlaced /\ CallRecord
      BY DEF IInv, Placement, TypeOK, Call
<1>1. Floor \in Nat /\ NextOffset(dhdr) \in Nat /\ NextOffset(hdr) \in Nat
      BY <1>0, RecordFacts DEF Floor
<1>2. CASE h = dhdr
  <2>1. \A i \in 1..Len(wbuf) : NextOffset(dhdr) <= wbuf[i].off
        BY <1>0, <1>1, BufferFacts, RecordFacts DEF BufferPlaced, TailsOrdered
  <2> QED  BY <1>0, <1>1, <1>2, <2>1 DEF LsnsPositive, TailsOrdered
<1>3. CASE call.pc = "header" /\ h = FlushedHeader
  <2>1. /\ h \in Header /\ h.next = hdr.next /\ h.off = call.off /\ h.len = call.len
        BY <1>0, <1>3 DEF FlushedHeader, Header
  <2>2. NextOffset(h) = Floor
        BY <1>3, <2>1 DEF NextOffset, Floor
  <2> QED  BY <1>0, <1>1, <2>1, <2>2 DEF LsnsPositive, TailsOrdered, BufferPlaced
<1>4. CASE call.pc = "chk" /\ h = hdr
      BY <1>0, <1>1, <1>4 DEF LsnsPositive, TailsOrdered, CallRecord
<1> QED  BY <1>2, <1>3, <1>4 DEF PartialHeader
-----------------------------------------------------------------------------
\* Appending a record to a log whose durable tail, if it moves at all, moves
\* to the floor keeps the invariant.
LEMMA AppendStep ==
    ASSUME IInv, NEW r \in Request, AppendRecord(r),
           dhdr' \in Header, dhdr'.next >= 1, NextOffset(dhdr') = Floor,
           file' = file, acked' = acked, flushed' = flushed,
           opened' = opened, crashes' = crashes, ioerrs' = ioerrs
    PROVE  IInv'
<1> DEFINE e == NewEntry(r)
<1>0. /\ TypeOK /\ hdr \in Header /\ dhdr \in Header /\ r.len \in Nat /\ r.len > 0
      /\ LsnsPositive /\ TailsOrdered /\ BufferPlaced /\ BufferOrdered
      BY DEF IInv, Placement, TypeOK, Request
<1>1. /\ e \in Entry /\ e.off = NextOffset(hdr) /\ e.len = r.len /\ e.lsn = hdr.next
      /\ End(e) = NextOffset(hdr) + r.len
      BY <1>0, NewEntryFacts
<1>2. /\ NextOffset(hdr) \in Nat /\ NextOffset(dhdr) \in Nat /\ Floor \in Nat
      /\ hdr.next \in Nat /\ hdr.chk \in Nat
      BY <1>0, RecordFacts DEF Floor, TypeOK, Call
<1>3. /\ hdr' \in Header /\ hdr'.off = NextOffset(hdr) /\ hdr'.len = r.len
      /\ hdr'.next = hdr.next + 1
      BY <1>0, <1>2 DEF AppendRecord, Header
<1>4. NextOffset(hdr') = End(e)
      BY <1>1, <1>3 DEF NextOffset
<1> HIDE DEF e
<1>5. wbuf \in Seq(Entry) /\ wbuf' = Append(wbuf, e)
      BY <1>0 DEF TypeOK, AppendRecord, e
<1>6. /\ wbuf' \in Seq(Entry) /\ Len(wbuf') = Len(wbuf) + 1 /\ Len(wbuf) \in Nat
      /\ \A i \in 1..Len(wbuf) : wbuf'[i] = wbuf[i] /\ wbuf[i] \in Entry
      /\ wbuf'[Len(wbuf) + 1] = e
      BY <1>0, <1>1, <1>5, BufferFacts
<1>7. \A i \in 1..Len(wbuf') :
         \/ i \in 1..Len(wbuf) /\ i < Len(wbuf) + 1
         \/ i = Len(wbuf) + 1 /\ i \notin 1..Len(wbuf)
      BY <1>6
<1>8. call' = Idle \/ call' = Flushing({}, {e}, hdr.next)
      BY DEF AppendRecord, e
<1>9. Floor' = NextOffset(dhdr')
      BY <1>8 DEF Floor, Idle, Flushing
<1>10. Floor' = Floor
      BY <1>9
<1>t. TypeOK'
  <2>1. active' \in [Txns -> Nat]
        BY <1>0, <1>2 DEF AppendRecord, Register, TypeOK
  <2>2. call' \in Call
        BY <1>1, <1>2, <1>8 DEF Call, Idle, Flushing
  <2> QED  BY <1>0, <1>3, <1>6, <2>1, <2>2 DEF TypeOK
<1>a. LsnsPositive'
      BY <1>2, <1>3 DEF LsnsPositive
<1>b. TailsOrdered'
      BY <1>0, <1>1, <1>2, <1>4, <1>9, <1>10 DEF TailsOrdered
<1>c. BufferPlaced'
  <2> SUFFICES ASSUME NEW i \in 1..Len(wbuf')
               PROVE  /\ Floor' <= wbuf'[i].off /\ End(wbuf'[i]) <= NextOffset(hdr')
                      /\ wbuf'[i].lsn < hdr'.next
      BY DEF BufferPlaced, End, NextOffset
  <2>1. CASE i \in 1..Len(wbuf)
    <3>1. /\ Floor <= wbuf[i].off /\ End(wbuf[i]) <= NextOffset(hdr)
          /\ wbuf[i].lsn < hdr.next /\ wbuf[i] \in Entry /\ wbuf'[i] = wbuf[i]
          BY <1>0, <1>6, <2>1 DEF BufferPlaced
    <3> QED  BY <1>0, <1>1, <1>2, <1>3, <1>4, <1>10, <3>1, RecordFacts
  <2>2. CASE i = Len(wbuf) + 1
    <3>1. wbuf'[i] = e
          BY <1>6, <2>2
    <3>2. Floor <= NextOffset(hdr)
          BY <1>0 DEF TailsOrdered
    <3> QED  BY <1>1, <1>2, <1>3, <1>4, <1>10, <3>1, <3>2, RecordFacts
  <2> QED  BY <1>7, <2>1, <2>2
<1>d. BufferOrdered'
  <2> SUFFICES ASSUME NEW i \in 1..Len(wbuf'), NEW j \in 1..Len(wbuf'), i < j
               PROVE  End(wbuf'[i]) <= wbuf'[j].off /\ wbuf'[i].lsn < wbuf'[j].lsn
      BY DEF BufferOrdered, End
  <2>1. i \in 1..Len(wbuf) /\ wbuf'[i] = wbuf[i]
        BY <1>6
  <2>2. CASE j \in 1..Len(wbuf)
        BY <1>0, <1>6, <2>1, <2>2 DEF BufferOrdered
  <2>3. CASE j = Len(wbuf) + 1
    <3>1. wbuf'[j] = e
          BY <1>6, <2>3
    <3>2. End(wbuf[i]) <= NextOffset(hdr) /\ wbuf[i].lsn < hdr.next
          BY <1>0, <2>1 DEF BufferPlaced
    <3> QED  BY <1>1, <2>1, <3>1, <3>2
  <2> QED  BY <1>7, <2>2, <2>3
<1>e. HeaderNamesLast'
      BY <1>1, <1>3, <1>6 DEF HeaderNamesLast
<1>f. CallRecord'
      BY <1>1, <1>6, <1>8 DEF CallRecord, Idle, Flushing
<1>g. CommitDurable'
  <2>1. file \subseteq Entry /\ acked \subseteq Durable
        BY <1>0 DEF IInv, TypeOK, CommitDurable
  <2>2. NextOffset(dhdr) <= NextOffset(dhdr')
        BY <1>0 DEF TailsOrdered
  <2>3. Durable \subseteq Durable'
        BY <1>0, <2>1, <2>2, DurableGrows DEF Durable
  <2> QED  BY <2>1, <2>3 DEF CommitDurable
<1> QED  BY <1>t, <1>a, <1>b, <1>c, <1>d, <1>e, <1>f, <1>g DEF IInv, Placement

\* Writing the records of a flush moves the floor to the end of the last one.
LEMMA FlushRecordsStep ==
    ASSUME IInv, FlushRecords
    PROVE  IInv'
<1>0. /\ TypeOK /\ hdr \in Header /\ dhdr \in Header /\ call \in Call
      /\ LsnsPositive /\ TailsOrdered /\ BufferPlaced /\ BufferOrdered /\ HeaderNamesLast
      /\ CallRecord /\ call.pc = "records"
      /\ Len(wbuf) \in Nat /\ wbuf \in Seq(Entry)
      BY BufferFacts DEF IInv, Placement, TypeOK, FlushRecords
<1>1. PICK n \in 1..Len(wbuf) :
         /\ Covered(n)
         /\ file' = Overwrite(file, {wbuf[i] : i \in 1..n})
         /\ flushed' = wbuf[n].lsn
         /\ wbuf' = SubSeq(wbuf, n + 1, Len(wbuf))
         /\ call' = [pc |-> "header", todo |-> call.todo, rec |-> call.rec,
                     target |-> call.target, off |-> wbuf[n].off,
                     len |-> IF n = Len(wbuf) THEN hdr.len
                             ELSE wbuf[n + 1].off - wbuf[n].off]
      BY DEF FlushRecords, LastFlushed, Remaining
<1>2. /\ UNCHANGED <<hdr, dhdr, active, acked, opened, crashes, ioerrs>>
      BY DEF FlushRecords
<1>3. /\ \A i \in 1..Len(wbuf) : wbuf[i] \in Entry
      /\ n \in Nat /\ n >= 1 /\ n <= Len(wbuf) /\ wbuf[n] \in Entry
      BY <1>0, <1>1, BufferFacts
<1>4. /\ wbuf' \in Seq(Entry) /\ Len(wbuf') = Len(wbuf) - n
      /\ \A i \in 1..Len(wbuf') : /\ wbuf'[i] = wbuf[n + i] /\ n + i \in 1..Len(wbuf)
                                  /\ n + i > n
  <2>1. \A i \in n + 1..Len(wbuf) : wbuf[i] \in Entry
        BY <1>0, <1>3
  <2>2. /\ wbuf' \in Seq(Entry)
        /\ Len(wbuf') = IF n + 1 <= Len(wbuf) THEN Len(wbuf) - (n + 1) + 1 ELSE 0
        /\ \A i \in 1..Len(wbuf) - (n + 1) + 1 : wbuf'[i] = wbuf[(n + 1) + i - 1]
        BY <1>0, <1>1, <1>3, <2>1, SubSeqProperties
  <2>3. Len(wbuf') = Len(wbuf) - n
        BY <1>0, <1>3, <2>2
  <2>4. ASSUME NEW i \in 1..Len(wbuf')
        PROVE  /\ wbuf'[i] = wbuf[n + i] /\ n + i \in 1..Len(wbuf) /\ n + i > n
    <3>1. i \in 1..Len(wbuf) - (n + 1) + 1 /\ (n + 1) + i - 1 = n + i
          BY <1>0, <1>3, <2>3
    <3>2. wbuf'[i] = wbuf[n + i]
          BY <2>2, <3>1
    <3> QED  BY <1>0, <1>3, <2>3, <3>2
  <2> QED  BY <2>2, <2>3, <2>4
<1>5. /\ NextOffset(hdr) \in Nat /\ NextOffset(dhdr) \in Nat /\ hdr.len \in Nat
      /\ wbuf[n].off \in Nat /\ wbuf[n].lsn \in Nat /\ End(wbuf[n]) \in Nat
      /\ wbuf[n].off < End(wbuf[n])
      BY <1>0, <1>3, RecordFacts
<1>6. /\ NextOffset(dhdr) <= wbuf[n].off /\ End(wbuf[n]) <= NextOffset(hdr)
      /\ Floor = NextOffset(dhdr)
      BY <1>0, <1>1 DEF BufferPlaced, Floor
\* The floor reached, when the flush stops at record n.
<1>7. /\ call'.len \in Nat /\ call'.off = wbuf[n].off /\ Floor' = wbuf[n].off + call'.len
      /\ End(wbuf[n]) <= Floor' /\ Floor' <= NextOffset(hdr) /\ Floor' \in Nat
      /\ \A i \in 1..Len(wbuf') : Floor' <= wbuf'[i].off
  <2>0. call'.pc = "header" /\ call'.off = wbuf[n].off /\ Floor' = call'.off + call'.len
        BY <1>1 DEF Floor
  <2>1. CASE n = Len(wbuf)
    <3>1. call'.len = hdr.len
          BY <1>1, <2>1
    <3>2. wbuf[n].off = hdr.off /\ wbuf[n].len = hdr.len
          BY <1>0, <1>3, <2>1 DEF HeaderNamesLast
    <3>3. End(wbuf[n]) = NextOffset(hdr) /\ Floor' = NextOffset(hdr)
          BY <2>0, <3>1, <3>2 DEF End, NextOffset
    <3>4. Len(wbuf') = 0
          BY <1>0, <1>4, <2>1
    <3> QED  BY <1>5, <2>0, <3>1, <3>3, <3>4
  <2>2. CASE n # Len(wbuf)
    <3>0. n + 1 \in 1..Len(wbuf)
          BY <1>0, <1>3, <2>2
    <3>1. /\ wbuf[n + 1] \in Entry /\ End(wbuf[n]) <= wbuf[n + 1].off
          /\ End(wbuf[n + 1]) <= NextOffset(hdr)
          BY <1>0, <1>1, <1>3, <3>0 DEF BufferOrdered, BufferPlaced
    <3>2. /\ wbuf[n + 1].off \in Nat /\ End(wbuf[n + 1]) \in Nat
          /\ wbuf[n + 1].off < End(wbuf[n + 1])
          BY <3>1, RecordFacts
    <3>3. call'.len = wbuf[n + 1].off - wbuf[n].off
          BY <1>1, <2>2
    <3>4. Floor' = wbuf[n + 1].off /\ call'.len \in Nat
          BY <1>5, <2>0, <3>1, <3>2, <3>3
    <3>5. ASSUME NEW i \in 1..Len(wbuf')
          PROVE  wbuf[n + 1].off <= wbuf'[i].off
      <4>1. wbuf'[i] = wbuf[n + i] /\ n + i \in 1..Len(wbuf) /\ wbuf[n + i] \in Entry
            BY <1>3, <1>4
      <4>2. CASE i = 1
            BY <3>2, <4>1, <4>2
      <4>3. CASE i # 1
        <5>1. n + 1 < n + i
              BY <1>3, <1>4, <4>3
        <5>2. End(wbuf[n + 1]) <= wbuf[n + i].off
              BY <1>0, <3>0, <4>1, <5>1 DEF BufferOrdered
        <5> QED  BY <3>2, <4>1, <5>2, RecordFacts
      <4> QED  BY <4>2, <4>3
    <3> QED  BY <1>5, <2>0, <3>1, <3>2, <3>4, <3>5
  <2> QED  BY <2>1, <2>2
<1>8. /\ file' \subseteq Entry /\ Durable \subseteq file'
  <2>0. n \in 0..Len(wbuf)
        BY <1>0, <1>3
  <2>1. file' \in PartialWrite
        BY <1>0, <1>1, <2>0, Zenon DEF PartialWrite
  <2> QED  BY <2>1, PartialWriteKeeps
<1>t. TypeOK'
  <2>1. call' \in Call
        BY <1>0, <1>1, <1>5, <1>7 DEF Call
  <2> QED  BY <1>0, <1>1, <1>2, <1>4, <1>5, <1>8, <2>1 DEF TypeOK
<1>a. LsnsPositive'
      BY <1>0, <1>2 DEF LsnsPositive
<1>b. TailsOrdered'
      BY <1>2, <1>5, <1>6, <1>7 DEF TailsOrdered, NextOffset
<1>c. BufferPlaced'
  <2> SUFFICES ASSUME NEW i \in 1..Len(wbuf')
               PROVE  /\ Floor' <= wbuf'[i].off /\ End(wbuf'[i]) <= NextOffset(hdr)
                      /\ wbuf'[i].lsn < hdr.next
      BY <1>2 DEF BufferPlaced, End, NextOffset
  <2> QED  BY <1>0, <1>4, <1>7 DEF BufferPlaced
<1>d. BufferOrdered'
  <2> SUFFICES ASSUME NEW i \in 1..Len(wbuf'), NEW j \in 1..Len(wbuf'), i < j
               PROVE  End(wbuf'[i]) <= wbuf'[j].off /\ wbuf'[i].lsn < wbuf'[j].lsn
      BY DEF BufferOrdered, End
  <2>1. n + i < n + j
        BY <1>3
  <2> QED  BY <1>0, <1>4, <2>1 DEF BufferOrdered
<1>e. HeaderNamesLast'
  <2> SUFFICES ASSUME Len(wbuf') > 0
               PROVE  wbuf'[Len(wbuf')] = wbuf[Len(wbuf)] /\ Len(wbuf) > 0
      BY <1>0, <1>2 DEF HeaderNamesLast
  <2>1. n + Len(wbuf') = Len(wbuf) /\ Len(wbuf') \in 1..Len(wbuf')
        BY <1>0, <1>3, <1>4
  <2> QED  BY <1>0, <1>3, <1>4, <2>1
<1>f. CallRecord'
  <2>1. CASE call.rec = {}
        BY <1>0, <1>1, <2>1 DEF CallRecord
  <2>2. CASE call.rec # {}
    <3>1. call.rec = {wbuf[Len(wbuf)]} /\ call.target = wbuf[Len(wbuf)].lsn
          /\ call.todo = {}
          BY <1>0, <2>2 DEF CallRecord
    <3>2. n = Len(wbuf)
      <4> SUFFICES ASSUME n # Len(wbuf) PROVE FALSE
          OBVIOUS
      <4>1. n + 1 \in 1..Len(wbuf) /\ n < Len(wbuf)
            BY <1>0, <1>3
      <4>2. wbuf[n + 1].lsn > wbuf[Len(wbuf)].lsn
            BY <1>1, <3>1, <4>1 DEF Covered
      <4>3. CASE n + 1 = Len(wbuf)
            BY <1>3, <4>1, <4>2, <4>3, RecordFacts
      <4>4. CASE n + 1 < Len(wbuf)
        <5>1. wbuf[n + 1].lsn < wbuf[Len(wbuf)].lsn
              BY <1>0, <4>1, <4>4 DEF BufferOrdered
        <5> QED  BY <1>0, <1>3, <4>1, <4>2, <5>1, RecordFacts
      <4> QED  BY <1>0, <1>3, <4>1, <4>3, <4>4
    <3>3. Len(wbuf') = 0
          BY <1>0, <1>4, <3>2
    <3>4. wbuf[n] \in file'
      <4>1. /\ {wbuf[i] : i \in 1..n} \subseteq file'
            BY <1>1 DEF Overwrite
      <4> QED  BY <1>3, <4>1
    <3>5. call'.rec = {wbuf[n]} /\ call'.todo = {} /\ call'.pc = "header"
          BY <1>1, <3>1, <3>2
    <3>6. End(wbuf[n]) <= call'.off + call'.len
          BY <1>7
    <3> QED  BY <3>3, <3>4, <3>5, <3>6 DEF CallRecord, End
  <2> QED  BY <2>1, <2>2
<1>g. CommitDurable'
  <2>1. Durable \subseteq Durable'
    <3>1. dhdr' = dhdr /\ file \subseteq Entry
          BY <1>0, <1>2 DEF TypeOK
    <3> QED  BY <1>0, <1>5, <1>8, <3>1, DurableGrows
  <2> QED  BY <1>2, <2>1 DEF IInv, CommitDurable
<1> QED  BY <1>t, <1>a, <1>b, <1>c, <1>d, <1>e, <1>f, <1>g DEF IInv, Placement

\* Nothing else a call does, and no failure and no crash, breaks it: the
\* floor and the buffer stay, or the buffer is gone.
LEMMA FlushHeaderStep ==
    ASSUME IInv, FlushHeader
    PROVE  IInv'
<1>0. /\ TypeOK /\ hdr \in Header /\ dhdr \in Header /\ call \in Call /\ call.pc = "header"
      /\ LsnsPositive /\ TailsOrdered /\ BufferPlaced /\ BufferOrdered /\ HeaderNamesLast
      /\ CallRecord /\ CommitDurable
      /\ UNCHANGED <<file, flushed, opened, crashes, ioerrs>> /\ dhdr' = FlushedHeader
      BY DEF IInv, Placement, TypeOK, FlushHeader
<1>1. FlushedHeader \in PartialHeader
      BY <1>0 DEF PartialHeader
<1>2. /\ dhdr' \in Header /\ dhdr'.next >= 1
      /\ NextOffset(dhdr) <= NextOffset(dhdr') /\ NextOffset(dhdr') <= NextOffset(hdr)
      /\ \A i \in 1..Len(wbuf) : NextOffset(dhdr') <= wbuf[i].off
      BY <1>0, <1>1, PartialHeaderFacts
<1>3. /\ NextOffset(dhdr') = Floor /\ NextOffset(dhdr') = call.off + call.len
      /\ NextOffset(dhdr') \in Nat
      BY <1>0, <1>2, RecordFacts DEF FlushedHeader, NextOffset, Floor, Header
<1>4. Durable \subseteq Durable'
      BY <1>0, <1>2, DurableGrows DEF Durable, TypeOK
<1>5. CASE acked' = acked /\ \E r \in call.todo : AppendRecord(r)
  <2>1. PICK r \in call.todo : AppendRecord(r)
        BY <1>5
  <2>2. r \in Request
        BY <1>0, <2>1 DEF Call
  <2> QED  BY <1>0, <1>2, <1>3, <1>5, <2>1, <2>2, AppendStep
<1>6. CASE /\ \E e \in call.rec : hdr' = [hdr EXCEPT !.chk = CheckpointLsn(e)]
           /\ call.rec # {} /\ call' = [call EXCEPT !.pc = "chk"] /\ UNCHANGED <<wbuf, active, acked>>
  <2>1. PICK e \in call.rec : hdr' = [hdr EXCEPT !.chk = e.lsn]
        BY <1>6 DEF CheckpointLsn
  <2>2. e \in Entry
        BY <1>0, <2>1 DEF Call
  <2>3. /\ hdr' \in Header /\ hdr'.next = hdr.next /\ hdr'.off = hdr.off /\ hdr'.len = hdr.len
        BY <1>0, <2>1, <2>2, RecordFacts DEF Header
  <2>4. NextOffset(hdr') = NextOffset(hdr)
        BY <2>3 DEF NextOffset
  <2>5. /\ call' \in Call /\ call'.pc = "chk" /\ call'.rec = call.rec /\ call'.todo = call.todo
        BY <1>0, <1>6 DEF Call
  <2>6. Floor' = NextOffset(dhdr')
        BY <2>5 DEF Floor
  <2>7. Len(wbuf) = 0 /\ call.rec \subseteq file /\ \A f \in call.rec : End(f) <= NextOffset(dhdr')
        BY <1>0, <1>3, <1>6 DEF CallRecord
  <2>t. TypeOK'
        BY <1>0, <1>2, <1>6, <2>3, <2>5 DEF TypeOK
  <2>a. LsnsPositive'
        BY <1>0, <1>2, <2>3 DEF LsnsPositive
  <2>b. TailsOrdered'
        BY <1>2, <1>3, <2>4, <2>6 DEF TailsOrdered
  <2>c. BufferPlaced' /\ BufferOrdered' /\ HeaderNamesLast'
        BY <1>6, <2>7 DEF BufferPlaced, BufferOrdered, HeaderNamesLast
  <2>d. CallRecord'
        BY <1>0, <1>6, <2>5, <2>7 DEF CallRecord, Durable, End, NextOffset
  <2>e. CommitDurable'
        BY <1>0, <1>4, <1>6 DEF CommitDurable
  <2> QED  BY <2>t, <2>a, <2>b, <2>c, <2>d, <2>e DEF IInv, Placement
<1>7. CASE acked' = acked \cup call.rec /\ call' = Idle /\ UNCHANGED <<hdr, wbuf, active>>
  <2>1. call' \in Call /\ Floor' = NextOffset(dhdr')
        BY <1>7 DEF Idle, Call, Floor
  <2>2. call.rec \subseteq Durable'
    <3>1. \A e \in call.rec : e \in file /\ End(e) <= NextOffset(dhdr')
          BY <1>0, <1>3 DEF CallRecord
    <3> QED  BY <1>0, <3>1 DEF Durable, End, NextOffset
  <2>t. TypeOK'
        BY <1>0, <1>2, <1>7, <2>1 DEF TypeOK, Call
  <2>a. LsnsPositive'
        BY <1>0, <1>2, <1>7 DEF LsnsPositive
  <2>b. TailsOrdered'
        BY <1>2, <1>3, <1>7, <2>1 DEF TailsOrdered, NextOffset
  <2>c. BufferPlaced' /\ BufferOrdered' /\ HeaderNamesLast'
        BY <1>0, <1>2, <1>7, <2>1
           DEF BufferPlaced, BufferOrdered, HeaderNamesLast, NextOffset, End
  <2>d. CallRecord'
        BY <1>7 DEF CallRecord, Idle
  <2>e. CommitDurable'
        BY <1>0, <1>4, <1>7, <2>2 DEF CommitDurable
  <2> QED  BY <2>t, <2>a, <2>b, <2>c, <2>d, <2>e DEF IInv, Placement
<1> QED  BY <1>5, <1>6, <1>7 DEF FlushHeader

LEMMA FlushCheckpointStep ==
    ASSUME IInv, FlushCheckpoint
    PROVE  IInv'
<1>0. /\ TypeOK /\ hdr \in Header /\ dhdr \in Header /\ call \in Call /\ call.pc = "chk"
      /\ LsnsPositive /\ TailsOrdered /\ CallRecord /\ CommitDurable
      /\ UNCHANGED <<hdr, wbuf, file, flushed, active, opened, crashes, ioerrs>>
      /\ dhdr' = hdr /\ acked' = acked \cup call.rec /\ call' = Idle
      BY DEF IInv, Placement, TypeOK, FlushCheckpoint
<1>1. hdr \in PartialHeader
      BY <1>0 DEF PartialHeader
<1>2. NextOffset(dhdr) <= NextOffset(hdr) /\ NextOffset(hdr) \in Nat
      BY <1>0, <1>1, PartialHeaderFacts, RecordFacts
<1>3. Durable \subseteq Durable'
      BY <1>0, <1>2, DurableGrows DEF Durable, TypeOK
<1>4. Len(wbuf) = 0 /\ call.rec \subseteq Durable
      BY <1>0 DEF CallRecord
<1>5. call' \in Call /\ Floor' = NextOffset(hdr)
      BY <1>0 DEF Idle, Call, Floor
<1>t. TypeOK'
      BY <1>0, <1>5 DEF TypeOK, Call
<1>a. LsnsPositive' /\ TailsOrdered'
      BY <1>0, <1>2, <1>5 DEF LsnsPositive, TailsOrdered, NextOffset
<1>b. BufferPlaced' /\ BufferOrdered' /\ HeaderNamesLast' /\ CallRecord'
      BY <1>0, <1>4 DEF BufferPlaced, BufferOrdered, HeaderNamesLast, CallRecord, Idle
<1>c. CommitDurable'
      BY <1>0, <1>3, <1>4 DEF CommitDurable
<1> QED  BY <1>t, <1>a, <1>b, <1>c DEF IInv, Placement

LEMMA IoErrorStep ==
    ASSUME IInv, IoError
    PROVE  IInv'
<1>0. /\ TypeOK /\ hdr \in Header /\ dhdr \in Header
      /\ LsnsPositive /\ BufferPlaced /\ BufferOrdered /\ HeaderNamesLast /\ CommitDurable
      /\ file' \in PartialWrite /\ dhdr' \in PartialHeader /\ call' = Idle
      /\ UNCHANGED <<hdr, wbuf, flushed, active, acked, opened, crashes>>
      /\ ioerrs < MaxIoErrors /\ ioerrs' = ioerrs + 1
      BY DEF IInv, Placement, TypeOK, IoError
<1>1. /\ dhdr' \in Header /\ dhdr'.next >= 1
      /\ NextOffset(dhdr) <= NextOffset(dhdr') /\ NextOffset(dhdr') <= NextOffset(hdr)
      /\ \A i \in 1..Len(wbuf) : NextOffset(dhdr') <= wbuf[i].off
      BY <1>0, PartialHeaderFacts
<1>2. file' \subseteq Entry /\ Durable \subseteq file'
      BY <1>0, PartialWriteKeeps
<1>3. Durable \subseteq Durable'
      BY <1>0, <1>1, <1>2, DurableGrows DEF TypeOK
<1>4. call' \in Call /\ Floor' = NextOffset(dhdr') /\ NextOffset(dhdr') \in Nat
      BY <1>0, <1>1, RecordFacts DEF Idle, Call, Floor
<1>5. ioerrs' \in 0..MaxIoErrors
      BY <1>0, WalAssumption DEF TypeOK
<1>t. TypeOK'
      BY <1>0, <1>1, <1>2, <1>4, <1>5 DEF TypeOK
<1>a. LsnsPositive' /\ TailsOrdered'
      BY <1>0, <1>1, <1>4 DEF LsnsPositive, TailsOrdered, NextOffset
<1>b. BufferPlaced' /\ BufferOrdered' /\ HeaderNamesLast'
      BY <1>0, <1>1, <1>4 DEF BufferPlaced, BufferOrdered, HeaderNamesLast, NextOffset, End
<1>c. CallRecord' /\ CommitDurable'
      BY <1>0, <1>3 DEF CallRecord, Idle, CommitDurable
<1> QED  BY <1>t, <1>a, <1>b, <1>c DEF IInv, Placement

LEMMA RestartStep ==
    ASSUME IInv, Restart
    PROVE  IInv'
<1>0. /\ TypeOK /\ dhdr \in Header /\ CommitDurable
      /\ file' \in PartialWrite /\ dhdr' \in PartialHeader /\ call' = Idle
      /\ hdr' = dhdr' /\ wbuf' = <<>> /\ flushed' = dhdr'.next - 1
      /\ active' = [t \in Txns |-> 0] /\ opened' = dhdr'.next /\ UNCHANGED <<acked, ioerrs>>
      /\ crashes < MaxCrashes /\ crashes' = crashes + 1
      BY DEF IInv, TypeOK, Restart
<1>1. /\ dhdr' \in Header /\ dhdr'.next >= 1 /\ NextOffset(dhdr) <= NextOffset(dhdr')
      BY <1>0, PartialHeaderFacts
<1>2. file' \subseteq Entry /\ Durable \subseteq file'
      BY <1>0, PartialWriteKeeps
<1>3. Durable \subseteq Durable'
      BY <1>0, <1>1, <1>2, DurableGrows DEF TypeOK
<1>4. call' \in Call /\ Floor' = NextOffset(dhdr') /\ NextOffset(dhdr') \in Nat
      BY <1>0, <1>1, RecordFacts DEF Idle, Call, Floor
<1>5. crashes' \in 0..MaxCrashes
      BY <1>0, WalAssumption DEF TypeOK
<1>6. wbuf' \in Seq(Entry) /\ Len(wbuf') = 0
      BY <1>0, EmptySeq
<1>7. flushed' \in Nat /\ opened' \in Nat
      BY <1>0, <1>1, RecordFacts
<1>t. TypeOK'
      BY <1>0, <1>1, <1>2, <1>4, <1>5, <1>6, <1>7 DEF TypeOK
<1>a. LsnsPositive' /\ TailsOrdered'
      BY <1>0, <1>1, <1>4 DEF LsnsPositive, TailsOrdered
<1>b. BufferPlaced' /\ BufferOrdered' /\ HeaderNamesLast'
      BY <1>6 DEF BufferPlaced, BufferOrdered, HeaderNamesLast
<1>c. CallRecord' /\ CommitDurable'
      BY <1>0, <1>3 DEF CallRecord, Idle, CommitDurable
<1> QED  BY <1>t, <1>a, <1>b, <1>c DEF IInv, Placement

\* A call that only starts to flush changes nothing but `call'.
LEMMA StartFlushStep ==
    ASSUME IInv, call.pc = "idle", NEW todo \in SUBSET Request,
           call' = Flushing(todo, {}, call'.target), call'.target \in Nat,
           UNCHANGED <<hdr, dhdr, wbuf, file, flushed, active, acked, opened, crashes, ioerrs>>
    PROVE  IInv'
<1>1. /\ call' \in Call /\ call'.pc = "records" /\ call'.rec = {} /\ Floor' = Floor
      BY DEF Flushing, Call, Floor, NextOffset
<1>2. TypeOK'
      BY <1>1 DEF IInv, TypeOK
<1>3. Placement'
      BY <1>1 DEF IInv, Placement, LsnsPositive, TailsOrdered, BufferPlaced, BufferOrdered,
                  HeaderNamesLast, CallRecord, NextOffset, End
<1>4. CommitDurable'
      BY DEF IInv, CommitDurable, Durable, NextOffset, End
<1> QED  BY <1>2, <1>3, <1>4 DEF IInv
-----------------------------------------------------------------------------
LEMMA InitInv == Init => IInv
<1> SUFFICES ASSUME Init PROVE IInv
    OBVIOUS
<1>1. /\ hdr = [chk |-> 0, off |-> HdrSize, len |-> 0, next |-> 1] /\ dhdr = hdr
      /\ hdr \in Header /\ HdrSize \in Nat
      BY WalAssumption DEF Init, Header
<1>2. call = Idle /\ Idle \in Call /\ Idle.pc = "idle" /\ Idle.todo = {}
      BY DEF Init, Idle, Call
<1>3. wbuf \in Seq(Entry) /\ Len(wbuf) = 0
      BY EmptySeq DEF Init
<1>4. TypeOK
      BY <1>1, <1>2, <1>3, WalAssumption DEF Init, TypeOK
<1>5. LsnsPositive /\ TailsOrdered
      BY <1>1, <1>2 DEF LsnsPositive, TailsOrdered, Floor, NextOffset
<1>6. BufferPlaced /\ BufferOrdered /\ HeaderNamesLast /\ CallRecord
      BY <1>2, <1>3 DEF BufferPlaced, BufferOrdered, HeaderNamesLast, CallRecord
<1>7. CommitDurable
      BY DEF Init, CommitDurable
<1> QED  BY <1>4, <1>5, <1>6, <1>7 DEF IInv, Placement

\* Every step of the log preserves the invariant.
LEMMA StepInv == IInv /\ [Next]_vars => IInv'
<1> SUFFICES ASSUME IInv, [Next]_vars PROVE IInv'
    OBVIOUS
<1>0. TypeOK /\ Requests \subseteq Request /\ hdr.next \in Nat
      BY WalAssumption, RecordFacts DEF IInv, TypeOK
<1>1. ASSUME NEW r \in Requests, WriteRecord(r)
      PROVE  IInv'
  <2>1. /\ r \in Request /\ AppendRecord(r)
        /\ UNCHANGED <<dhdr, file, flushed, acked, opened, crashes, ioerrs>> /\ call.pc = "idle"
        BY <1>0, <1>1 DEF WriteRecord, Idle
  <2>2. dhdr' \in Header /\ dhdr'.next >= 1 /\ NextOffset(dhdr') = Floor
        BY <2>1 DEF IInv, Placement, LsnsPositive, TypeOK, Floor, NextOffset
  <2> QED  BY <2>1, <2>2, AppendStep
<1>2. ASSUME NEW r \in Requests, WriteRecordFull(r)
      PROVE  IInv'
  <2>1. /\ {r} \in SUBSET Request /\ call.pc = "idle" /\ call'.target = hdr.next
        /\ call' = Flushing({r}, {}, hdr.next)
        /\ UNCHANGED <<hdr, dhdr, wbuf, file, flushed, active, acked, opened, crashes, ioerrs>>
        BY <1>0, <1>2 DEF WriteRecordFull, Idle, Flushing, FlushAllTarget
  <2> QED  BY <1>0, <2>1, StartFlushStep
<1>3. ASSUME NEW target \in 1..hdr.next, FlushNothing(target)
      PROVE  IInv'
  <2>1. UNCHANGED vars
        BY <1>3 DEF FlushNothing
  <2> QED  BY <2>1 DEF vars, IInv, TypeOK, Placement, LsnsPositive, TailsOrdered, BufferPlaced,
             BufferOrdered, HeaderNamesLast, CallRecord, CommitDurable, Durable, Floor,
             NextOffset, End
<1>4. ASSUME NEW target \in 1..hdr.next, FlushUpTo(target)
      PROVE  IInv'
  <2>1. /\ {} \in SUBSET Request /\ call.pc = "idle" /\ call'.target = target
        /\ call' = Flushing({}, {}, target) /\ target \in Nat
        /\ UNCHANGED <<hdr, dhdr, wbuf, file, flushed, active, acked, opened, crashes, ioerrs>>
        BY <1>0, <1>4 DEF FlushUpTo, Idle, Flushing
  <2> QED  BY <2>1, StartFlushStep
<1>5. ASSUME UNCHANGED vars
      PROVE  IInv'
      BY <1>5 DEF vars, IInv, TypeOK, Placement, LsnsPositive, TailsOrdered, BufferPlaced,
             BufferOrdered, HeaderNamesLast, CallRecord, CommitDurable, Durable, Floor,
             NextOffset, End
<1> QED  BY <1>1, <1>2, <1>3, <1>4, <1>5, FlushRecordsStep, FlushHeaderStep,
            FlushCheckpointStep, IoErrorStep, RestartStep DEF Next

THEOREM Invariance == Spec => []IInv
BY InitInv, StepInv, PTL DEF Spec

\* The log's variables always have their types; LSNs and offsets never go
\* below zero, although a flush computes a length as a difference of offsets.
THEOREM TypeInvariant == Spec => []TypeOK
<1>1. IInv => TypeOK
      BY DEF IInv
<1> QED  BY <1>1, Invariance, PTL

\* A commit, abort or checkpoint whose call returned Ok is durable, whatever
\* is written, fails or crashes afterwards.
THEOREM CommitDurability == Spec => []CommitDurable
<1>1. IInv => CommitDurable
      BY DEF IInv
<1> QED  BY <1>1, Invariance, PTL

\* In every step the file is what a write of the buffer, complete or not, may
\* leave, and so is the header on disk.
LEMMA StepWrites ==
    ASSUME IInv, [Next]_vars
    PROVE  file' \in PartialWrite /\ dhdr' \in PartialHeader
<1>1. CASE UNCHANGED <<file, dhdr>> /\ call.pc # "records"
      BY <1>1 DEF PartialWrite, PartialHeader
<1>2. CASE UNCHANGED <<file, dhdr>> /\ call.pc = "records"
  <2>1. /\ 0 \in 0..Len(wbuf) /\ file = Overwrite(file, {wbuf[i] : i \in 1..0})
        BY BufferFacts DEF IInv, Overwrite
  <2>2. file \in {Overwrite(file, {wbuf[i] : i \in 1..k}) : k \in 0..Len(wbuf)}
        BY <2>1, Zenon
  <2> QED  BY <1>2, <2>2 DEF PartialWrite, PartialHeader
<1>3. CASE FlushRecords
  <2>1. PICK n \in 1..Len(wbuf) : file' = Overwrite(file, {wbuf[i] : i \in 1..n})
        BY <1>3 DEF FlushRecords
  <2>2. n \in 0..Len(wbuf) /\ call.pc = "records" /\ dhdr' = dhdr
        BY <1>3, <2>1, BufferFacts DEF FlushRecords, IInv
  <2>3. file' \in {Overwrite(file, {wbuf[i] : i \in 1..k}) : k \in 0..Len(wbuf)}
        BY <2>1, <2>2, Zenon
  <2> QED  BY <2>2, <2>3 DEF PartialWrite, PartialHeader
<1>4. CASE FlushHeader
      BY <1>4 DEF FlushHeader, PartialWrite, PartialHeader
<1>5. CASE FlushCheckpoint
      BY <1>5 DEF FlushCheckpoint, PartialWrite, PartialHeader
<1>6. CASE IoError \/ Restart
      BY <1>6 DEF IoError, Restart
<1>7. ASSUME NEW r \in Requests, WriteRecord(r) \/ WriteRecordFull(r)
      PROVE  UNCHANGED <<file, dhdr>>
      BY <1>7 DEF WriteRecord, WriteRecordFull
<1>8. ASSUME NEW target \in 1..hdr.next, FlushNothing(target) \/ FlushUpTo(target)
      PROVE  UNCHANGED <<file, dhdr>>
      BY <1>8 DEF FlushNothing, FlushUpTo, vars
<1> QED  BY <1>1, <1>2, <1>3, <1>4, <1>5, <1>6, <1>7, <1>8 DEF Next, vars

\* No step of any call, no failed write and no crash destroys a durable record
\* or moves the durable tail back.
THEOREM DurableStable == Spec => StableLog
<1>1. ASSUME IInv, [Next]_vars
      PROVE  Durable \subseteq Durable' /\ NextOffset(dhdr') >= NextOffset(dhdr)
  <2>1. /\ file' \in PartialWrite /\ dhdr' \in PartialHeader
        /\ file \subseteq Entry /\ dhdr \in Header
        BY <1>1, StepWrites DEF IInv, TypeOK
  <2>2. Durable \subseteq file' /\ dhdr' \in Header /\ NextOffset(dhdr) <= NextOffset(dhdr')
        BY <1>1, <2>1, PartialWriteKeeps, PartialHeaderFacts
  <2> QED  BY <2>1, <2>2, DurableGrows, RecordFacts
<1>2. IInv /\ [Next]_vars =>
         [Durable \subseteq Durable' /\ NextOffset(dhdr') >= NextOffset(dhdr)]_vars
      BY <1>1
<1> QED  BY <1>2, Invariance, PTL DEF Spec, StableLog
-----------------------------------------------------------------------------
(***************************************************************************)
(* What the log file, its header and its buffer add up to: a log in LSN     *)
(* order of which the header on disk accounts for a prefix.  Proved for     *)
(* every set of transactions and requests, every buffer size and every      *)
(* bound: the soundness of the header, the exactness of the                 *)
(* active-transaction table, that what is called flushed is durable, and    *)
(* that the module implements AbstractLog.                                  *)
(*                                                                          *)
(* None of these is inductive.  The argument is about the set Log: a step   *)
(* either leaves it alone, appends the next LSN to it, or (a crash) cuts it *)
(* down to its durable part.  For that, the remains of a flush that was cut *)
(* short must not enter it: every write starts where the log ends in the    *)
(* file, leaves no hole, and no record in the file lies across that place.  *)
(***************************************************************************)

\* Buffered records follow one another without a gap.
Contiguous ==
    \A i \in 1..Len(wbuf) : i + 1 \in 1..Len(wbuf) => wbuf[i + 1].off = End(wbuf[i])

\* The flush in flight, once its records are written, stops where the rest of
\* the buffer starts; a checkpoint's second header write finds nothing new to
\* account for; and a record that waits for room is one a caller asked for.
CallSound ==
    /\ call.todo \subseteq Requests
    /\ call.pc = "header" => call.off + call.len = BufferStart
    /\ call.pc = "chk" => NextOffset(dhdr) = NextOffset(hdr)

\* No record in the file lies across the end of the durable part, or across
\* the place where the next write starts.
NoStraddle ==
    \A e \in file : \A o \in {NextOffset(dhdr), BufferStart} : End(e) <= o \/ o <= e.off

\* e comes before f: it ends before f starts, and has a smaller LSN.
Before(e, f) == End(e) <= f.off /\ e.lsn < f.lsn

\* The records of the log are in LSN order and do not overlap, and the next
\* record comes after all of them.
LogOrdered ==
    /\ \A e, f \in Log : e = f \/ Before(e, f) \/ Before(f, e)
    /\ \A e \in Log : End(e) <= NextOffset(hdr) /\ e.lsn < hdr.next

\* A process that starts from the header on disk gives out fresh LSNs.
DurableBehind ==
    /\ dhdr.next <= hdr.next
    /\ \A e \in Durable : e.lsn < dhdr.next

\* The checkpoint a header names is durable.
NamesCheckpoint(h) ==
    h.chk # 0 => \E e \in Durable : e.lsn = h.chk /\ e.type = "Checkpoint"
CheckpointsNamed == NamesCheckpoint(hdr) /\ NamesCheckpoint(dhdr)

\* flushed_lsn is behind the buffer; until a file write fails, everything
\* written is durable except between the two writes of a flush.
FlushTracked ==
    /\ flushed < hdr.next
    /\ \A i \in 1..Len(wbuf) : flushed < wbuf[i].lsn
    /\ ioerrs = 0 /\ call.pc # "header" => NextOffset(dhdr) = BufferStart

\* The transaction table is exact, and this process gives out no LSN below the
\* first it gave out.
ActiveTracked == opened <= hdr.next /\ ActiveTxnsExact

LogInv == /\ IInv /\ Contiguous /\ CallSound /\ NoStraddle /\ LogOrdered
          /\ DurableBehind /\ CheckpointsNamed /\ ActiveTracked /\ FlushTracked
-----------------------------------------------------------------------------
\* The first n buffered records cover every offset from the first of them to
\* the end of the last: no remains of an earlier flush can lie between them.
LEMMA SpanCovered ==
    ASSUME TypeOK, Contiguous, NEW n \in 1..Len(wbuf), NEW o \in Nat,
           wbuf[1].off <= o, o < End(wbuf[n])
    PROVE  \E i \in 1..n : wbuf[i].off <= o /\ o < End(wbuf[i])
<1> DEFINE S == {i \in 1..n : o < End(wbuf[i])}
<1>0. /\ Len(wbuf) \in Nat /\ n \in Nat /\ n <= Len(wbuf) /\ n >= 1
      /\ \A i \in 1..Len(wbuf) : wbuf[i] \in Entry
      BY BufferFacts
<1>1. S \in SUBSET Nat /\ n \in S
      BY <1>0
<1>2. PICK i \in S : \A k \in S : i <= k
      BY <1>1, LeastNatural
<1>3. i \in 1..n /\ o < End(wbuf[i]) /\ i \in 1..Len(wbuf)
      BY <1>0, <1>2
<1>4. CASE i = 1
      BY <1>3, <1>4
<1>5. CASE i # 1
  <2>1. i - 1 \in 1..n /\ i - 1 \in 1..Len(wbuf) /\ (i - 1) + 1 = i
        BY <1>0, <1>3, <1>5
  <2>2. i - 1 \notin S
        BY <1>2, <2>1
  <2>3. ~(o < End(wbuf[i - 1])) /\ wbuf[i].off = End(wbuf[i - 1])
        BY <1>3, <2>1, <2>2 DEF Contiguous
  <2>4. End(wbuf[i - 1]) \in Nat
        BY <1>0, <2>1, RecordFacts
  <2> QED  BY <1>3, <2>3, <2>4
<1> QED  BY <1>4, <1>5

\* Where the buffer starts: behind the floor, before every buffered record.
LEMMA BufferStartFacts ==
    ASSUME IInv
    PROVE  /\ BufferStart \in Nat /\ NextOffset(dhdr) \in Nat /\ NextOffset(hdr) \in Nat
           /\ Floor \in Nat
           /\ NextOffset(dhdr) <= BufferStart /\ BufferStart <= NextOffset(hdr)
           /\ \A i \in 1..Len(wbuf) : BufferStart <= wbuf[i].off
<1>0. /\ TypeOK /\ hdr \in Header /\ dhdr \in Header /\ call.off \in Nat /\ call.len \in Nat
      /\ TailsOrdered /\ BufferPlaced /\ BufferOrdered
      /\ Len(wbuf) \in Nat /\ wbuf \in Seq(Entry)
      BY BufferFacts DEF IInv, Placement, TypeOK, Call
<1>1. NextOffset(hdr) \in Nat /\ NextOffset(dhdr) \in Nat /\ Floor \in Nat
      BY <1>0, RecordFacts DEF Floor
<1>2. CASE wbuf = <<>>
      BY <1>0, <1>1, <1>2 DEF BufferStart, TailsOrdered
<1>3. CASE wbuf # <<>>
  <2>1. 1 \in 1..Len(wbuf) /\ BufferStart = wbuf[1].off
        BY <1>0, <1>3, EmptySeq DEF BufferStart
  <2>2. \A i \in 1..Len(wbuf) : /\ wbuf[i].off \in Nat /\ End(wbuf[i]) \in Nat
                                /\ wbuf[i].off < End(wbuf[i])
        BY <1>0, BufferFacts, RecordFacts
  <2>3. Floor <= BufferStart /\ End(wbuf[1]) <= NextOffset(hdr)
        BY <1>0, <2>1 DEF BufferPlaced
  <2>4. \A i \in 1..Len(wbuf) : i # 1 => End(wbuf[1]) <= wbuf[i].off
        BY <1>0, <2>1 DEF BufferOrdered
  <2>5. ASSUME NEW i \in 1..Len(wbuf)
        PROVE  BufferStart <= wbuf[i].off
        BY <2>1, <2>2, <2>4
  <2> QED  BY <1>0, <1>1, <2>1, <2>2, <2>3, <2>5 DEF TailsOrdered
<1> QED  BY <1>2, <1>3

\* A header write, complete or not, leaves the old header or one that accounts
\* for everything before the buffer.
LEMMA HeaderWrite ==
    ASSUME LogInv, NEW h \in PartialHeader
    PROVE  \/ h = dhdr
           \/ /\ NextOffset(h) = BufferStart
              /\ h.next = hdr.next /\ h.chk = hdr.chk
<1>0. /\ hdr \in Header /\ CallSound /\ CallRecord /\ wbuf \in Seq(Entry)
      BY DEF LogInv, IInv, Placement, TypeOK
<1>1. CASE call.pc = "header" /\ h = FlushedHeader
      BY <1>0, <1>1 DEF FlushedHeader, NextOffset, CallSound, Header
<1>2. CASE call.pc = "chk" /\ h = hdr
      BY <1>0, <1>2, EmptySeq DEF CallRecord, BufferStart
<1> QED  BY <1>1, <1>2 DEF PartialHeader
-----------------------------------------------------------------------------
\* What a write of the first k buffered records leaves in the file: a record
\* that was written before, one that is written now, or one behind them all.
LEMMA WriteFirst ==
    ASSUME LogInv, NEW k \in 1..Len(wbuf)
    PROVE  LET new == {wbuf[i] : i \in 1..k}
               f == Overwrite(file, new)
           IN  /\ f \subseteq Entry
               /\ Written \cup new \subseteq f
               /\ \A e \in f : \/ e \in Written
                               \/ e \in new
                               \/ e \in file /\ End(wbuf[k]) <= e.off
               /\ \A e \in new : BufferStart <= e.off /\ End(e) <= End(wbuf[k])
               /\ End(wbuf[k]) \in Nat /\ BufferStart < End(wbuf[k])
<1> DEFINE new == {wbuf[i] : i \in 1..k}
           f == Overwrite(file, new)
<1>0. /\ TypeOK /\ IInv /\ file \subseteq Entry /\ Contiguous /\ NoStraddle /\ BufferOrdered
      /\ Len(wbuf) \in Nat /\ k \in Nat /\ k <= Len(wbuf) /\ k >= 1 /\ wbuf # <<>>
      /\ \A i \in 1..Len(wbuf) : wbuf[i] \in Entry
      BY BufferFacts DEF LogInv, IInv, Placement, TypeOK
<1>1. BufferStart = wbuf[1].off /\ BufferStart \in Nat
      BY <1>0, BufferStartFacts DEF BufferStart
<1>2. new \subseteq Entry /\ f \subseteq Entry /\ new \subseteq f
      BY <1>0, OverwriteType
<1>3. ASSUME NEW i \in 1..k
      PROVE  BufferStart <= wbuf[i].off /\ End(wbuf[i]) <= End(wbuf[k])
  <2>1. i \in 1..Len(wbuf) /\ BufferStart <= wbuf[i].off
        BY <1>0, BufferStartFacts
  <2>2. i # k => End(wbuf[i]) <= wbuf[k].off
        BY <1>0, <2>1 DEF BufferOrdered
  <2> QED  BY <1>0, <2>1, <2>2, RecordFacts
<1>4. Written \subseteq f
  <2>1. \A n \in new : BufferStart <= n.off
        BY <1>3
  <2> HIDE DEF new
  <2> QED  BY <1>0, <1>1, <1>2, <2>1, OverwriteKeeps DEF Written
<1>5. ASSUME NEW e \in f, e \notin Written, e \notin new
      PROVE  e \in file /\ End(wbuf[k]) <= e.off
  <2>1. e \in file /\ e \in Entry /\ \A i \in 1..k : e.off < wbuf[i].off \/ e.off >= End(wbuf[i])
        BY <1>0, <1>5 DEF Overwrite
  <2>2. BufferStart <= e.off /\ e.off \in Nat
        BY <1>0, <1>5, <2>1, RecordFacts DEF NoStraddle, Written
  <2>3. ~(e.off < End(wbuf[k]))
    <3> SUFFICES ASSUME e.off < End(wbuf[k]) PROVE FALSE
        OBVIOUS
    <3>1. PICK i \in 1..k : wbuf[i].off <= e.off /\ e.off < End(wbuf[i])
          BY <1>0, <1>1, <2>2, SpanCovered
    <3>2. wbuf[i] \in Entry
          BY <1>0, <3>1
    <3> QED  BY <2>1, <2>2, <3>1, <3>2, RecordFacts
  <2> QED  BY <1>0, <2>1, <2>2, <2>3, RecordFacts
<1>6. End(wbuf[k]) \in Nat /\ BufferStart < End(wbuf[k])
  <2>1. k \in 1..k /\ wbuf[k] \in Entry
        BY <1>0
  <2> QED  BY <1>1, <1>3, <2>1, RecordFacts
<1> QED  BY <1>2, <1>3, <1>4, <1>5, <1>6

\* A write of buffered records, complete or not, changes neither what was
\* written before nor what is durable, and leaves no record across either end.
LEMMA FileWrite ==
    ASSUME LogInv, NEW f \in PartialWrite
    PROVE  /\ {e \in f : End(e) <= BufferStart} = Written
           /\ {e \in f : End(e) <= NextOffset(dhdr)} = Durable
           /\ \A e \in f : \A o \in {NextOffset(dhdr), BufferStart} :
                 End(e) <= o \/ o <= e.off
<1>0. /\ IInv /\ NoStraddle /\ file \subseteq Entry /\ Len(wbuf) \in Nat
      /\ BufferStart \in Nat /\ NextOffset(dhdr) \in Nat /\ NextOffset(dhdr) <= BufferStart
      BY BufferFacts, BufferStartFacts DEF LogInv, IInv, TypeOK
<1>1. CASE f = file
      BY <1>0, <1>1 DEF Written, Durable, NoStraddle
<1>2. ASSUME NEW k \in 0..Len(wbuf), f = Overwrite(file, {wbuf[i] : i \in 1..k}), k # 0
      PROVE  /\ {e \in f : End(e) <= BufferStart} = Written
             /\ {e \in f : End(e) <= NextOffset(dhdr)} = Durable
             /\ \A e \in f : \A o \in {NextOffset(dhdr), BufferStart} :
                   End(e) <= o \/ o <= e.off
  <2> DEFINE new == {wbuf[i] : i \in 1..k}
  <2>1. /\ k \in 1..Len(wbuf) /\ f \subseteq Entry /\ Written \subseteq f
        /\ \A e \in f : \/ e \in Written
                        \/ e \in new
                        \/ e \in file /\ End(wbuf[k]) <= e.off
        /\ \A e \in new : BufferStart <= e.off
        /\ BufferStart < End(wbuf[k]) /\ End(wbuf[k]) \in Nat
    <3>1. k \in 1..Len(wbuf)
          BY <1>0, <1>2
    <3> QED  BY <1>2, <3>1, WriteFirst
  <2> HIDE DEF new
  <2>2. \A e \in f : e \in Written \/ BufferStart <= e.off
        BY <1>0, <2>1, RecordFacts
  <2>3. Written \subseteq file /\ \A e \in Written : End(e) <= BufferStart
        BY DEF Written
  <2>4. \A e \in f : End(e) <= BufferStart => e \in Written
        BY <1>0, <2>1, <2>2, RecordFacts
  <2>5. \A e \in f : End(e) <= NextOffset(dhdr) => e \in Written
        BY <1>0, <2>1, <2>4, RecordFacts
  <2>6. Durable \subseteq Written
        BY <1>0, RecordFacts DEF Durable, Written
  <2>7. \A e \in f, o \in {NextOffset(dhdr), BufferStart} : End(e) <= o \/ o <= e.off
        BY <1>0, <2>1, <2>2, <2>3, RecordFacts DEF NoStraddle
  <2>8. {e \in f : End(e) <= BufferStart} = Written
        BY <2>1, <2>3, <2>4
  <2>9. {e \in f : End(e) <= NextOffset(dhdr)} = Durable
        BY <2>1, <2>3, <2>5, <2>6 DEF Durable
  <2> QED  BY <2>7, <2>8, <2>9
<1>3. ASSUME f = Overwrite(file, {wbuf[i] : i \in 1..0})
      PROVE  f = file
      BY <1>3 DEF Overwrite
<1>4. \/ f = file
      \/ \E k \in 0..Len(wbuf) : f = Overwrite(file, {wbuf[i] : i \in 1..k})
      BY DEF PartialWrite
<1>5. CASE \E k \in 0..Len(wbuf) : f = Overwrite(file, {wbuf[i] : i \in 1..k})
  <2>1. PICK k \in 0..Len(wbuf) : f = Overwrite(file, {wbuf[i] : i \in 1..k})
        BY <1>5
  <2>2. CASE k = 0
        BY <1>1, <1>3, <2>1, <2>2
  <2>3. CASE k # 0
        BY <1>2, <2>1, <2>3
  <2> QED  BY <2>2, <2>3
<1> QED  BY <1>1, <1>4, <1>5
-----------------------------------------------------------------------------
\* The parts of the log: the durable records were written, the written ones
\* lie before the buffered ones.
LEMMA LogFacts ==
    ASSUME LogInv
    PROVE  /\ Log \subseteq Entry /\ Written \subseteq Log /\ SeqSet(wbuf) \subseteq Log
           /\ Durable \subseteq Written
           /\ \A e \in SeqSet(wbuf) : BufferStart <= e.off /\ e \notin Written
           /\ \A e \in Written, f \in SeqSet(wbuf) : Before(e, f)
<1>0. /\ IInv /\ file \subseteq Entry /\ LogOrdered
      /\ BufferStart \in Nat /\ NextOffset(dhdr) \in Nat /\ NextOffset(dhdr) <= BufferStart
      BY BufferStartFacts DEF LogInv, IInv, TypeOK
<1>1. SeqSet(wbuf) \subseteq Entry /\ \A e \in SeqSet(wbuf) : BufferStart <= e.off
      BY <1>0, BufferFacts, BufferStartFacts DEF SeqSet, IInv, TypeOK
<1>2. Written \subseteq Entry /\ \A e \in Written : End(e) <= BufferStart
      BY <1>0 DEF Written
<1>3. \A e \in SeqSet(wbuf) : e \notin Written
      BY <1>0, <1>1, <1>2, RecordFacts
<1>4. Durable \subseteq Written
      BY <1>0, RecordFacts DEF Durable, Written
<1>5. Log \subseteq Entry /\ Written \subseteq Log /\ SeqSet(wbuf) \subseteq Log
      BY <1>1, <1>2 DEF Log
<1>6. ASSUME NEW e \in Written, NEW f \in SeqSet(wbuf)
      PROVE  Before(e, f)
  <2>1. e \in Log /\ f \in Log /\ e # f /\ e \in Entry /\ f \in Entry
        BY <1>3, <1>5
  <2>2. End(e) <= BufferStart /\ BufferStart <= f.off
        BY <1>1, <1>2
  <2>3. ~(End(f) <= e.off)
        BY <1>0, <2>1, <2>2, RecordFacts
  <2> QED  BY <1>0, <2>1, <2>3 DEF LogOrdered, Before
<1> QED  BY <1>1, <1>3, <1>4, <1>5, <1>6

\* What any step does to the durable part: nothing, or it now holds all that
\* was written.  The new header is as sound as the old one.
LEMMA DurableStep ==
    ASSUME LogInv, IInv', file' \in PartialWrite, dhdr' \in PartialHeader
    PROVE  /\ {e \in file' : End(e) <= BufferStart} = Written
           /\ \/ Durable' = Durable /\ NextOffset(dhdr') = NextOffset(dhdr)
              \/ Durable' = Written /\ NextOffset(dhdr') = BufferStart
           /\ Durable \subseteq Durable' /\ Durable' \subseteq Log
           /\ dhdr'.next <= hdr.next
           /\ \A e \in Durable' : e.lsn < dhdr'.next
           /\ hdr.chk # 0 => \E e \in Durable' : e.lsn = hdr.chk /\ e.type = "Checkpoint"
           /\ dhdr'.chk # 0 => \E e \in Durable' : e.lsn = dhdr'.chk /\ e.type = "Checkpoint"
           /\ \A e \in file' : \A o \in {NextOffset(dhdr'), BufferStart} :
                 End(e) <= o \/ o <= e.off
<1>0. /\ IInv /\ LogOrdered /\ DurableBehind /\ CheckpointsNamed
      /\ hdr \in Header /\ dhdr \in Header /\ dhdr' \in Header
      BY DEF LogInv, IInv, TypeOK
<1>1. /\ {e \in file' : End(e) <= BufferStart} = Written
      /\ {e \in file' : End(e) <= NextOffset(dhdr)} = Durable
      /\ \A e \in file' : \A o \in {NextOffset(dhdr), BufferStart} : End(e) <= o \/ o <= e.off
      BY FileWrite
<1>2. Durable' = {e \in file' : End(e) <= NextOffset(dhdr')}
      BY DEF Durable, End, NextOffset
<1>3. Written \subseteq Log /\ Durable \subseteq Written /\ Log \subseteq Entry
      BY LogFacts
<1>4. CASE dhdr' = dhdr
      BY <1>0, <1>1, <1>2, <1>3, <1>4 DEF DurableBehind, CheckpointsNamed, NamesCheckpoint
<1>5. CASE NextOffset(dhdr') = BufferStart /\ dhdr'.next = hdr.next /\ dhdr'.chk = hdr.chk
  <2>1. Durable' = Written
        BY <1>1, <1>2, <1>5
  <2>2. \A e \in Durable' : e.lsn < dhdr'.next
        BY <1>0, <1>3, <1>5, <2>1 DEF LogOrdered
  <2>3. dhdr'.next <= hdr.next
        BY <1>0, <1>5, RecordFacts
  <2> QED  BY <1>0, <1>1, <1>3, <1>5, <2>1, <2>2, <2>3 DEF CheckpointsNamed, NamesCheckpoint
<1> QED  BY <1>4, <1>5, HeaderWrite

\* A step that leaves the buffer and its place alone leaves the log alone.
LEMMA LogStays ==
    ASSUME LogInv, IInv', file' \in PartialWrite, dhdr' \in PartialHeader,
           wbuf' = wbuf, BufferStart' = BufferStart
    PROVE  Log' = Log /\ Written' = Written
<1>1. Written' = {e \in file' : End(e) <= BufferStart}
      BY DEF Written, End
<1>2. Written' = Written
      BY <1>1, DurableStep
<1> QED  BY <1>2 DEF Log, SeqSet
-----------------------------------------------------------------------------
\* A step does one of three things to the log: nothing, append a record with
\* the next LSN at its end, or (a restart) cut it down to its durable part.
LogKept == Log' = Log /\ hdr'.off = hdr.off /\ hdr'.len = hdr.len
Appended(e) ==
    /\ e \notin Log /\ Log' = Log \cup {e} /\ \A f \in Log : f.lsn < e.lsn
    /\ e.off = NextOffset(hdr) /\ e.prev = hdr.len
    /\ hdr'.off = e.off /\ hdr'.len = e.len

\* A step that leaves the buffer, the tail of the log and the transaction
\* table alone keeps the invariant, if its call is where it should be and the
\* header in memory names a durable checkpoint.
LEMMA QuietStep ==
    ASSUME LogInv, IInv', file' \in PartialWrite, dhdr' \in PartialHeader,
           wbuf' = wbuf, hdr'.off = hdr.off, hdr'.len = hdr.len, hdr'.next = hdr.next,
           active' = active, opened' = opened, flushed' = flushed,
           CallSound',
           hdr'.chk = hdr.chk \/ NamesCheckpoint(hdr)',
           ioerrs' = 0 /\ call'.pc # "header" => NextOffset(dhdr') = BufferStart
    PROVE  LogInv' /\ LogKept
<1>0. /\ Contiguous /\ NoStraddle /\ LogOrdered /\ DurableBehind /\ CheckpointsNamed
      /\ ActiveTracked /\ FlushTracked
      BY DEF LogInv
<1>1. BufferStart' = BufferStart /\ NextOffset(hdr') = NextOffset(hdr)
      BY DEF BufferStart, NextOffset
<1>2. Log' = Log
      BY <1>1, LogStays
<1>3. /\ dhdr'.next <= hdr.next
      /\ \A e \in Durable' : e.lsn < dhdr'.next
      /\ hdr.chk # 0 => \E e \in Durable' : e.lsn = hdr.chk /\ e.type = "Checkpoint"
      /\ dhdr'.chk # 0 => \E e \in Durable' : e.lsn = dhdr'.chk /\ e.type = "Checkpoint"
      /\ \A e \in file' : \A o \in {NextOffset(dhdr'), BufferStart} :
            End(e) <= o \/ o <= e.off
      BY DurableStep
<1>a. Contiguous'
      BY <1>0 DEF Contiguous, End
<1>b. NoStraddle'
      BY <1>1, <1>3 DEF NoStraddle, End, NextOffset
<1>c. LogOrdered'
      BY <1>0, <1>1, <1>2 DEF LogOrdered, Before, End, NextOffset
<1>d. DurableBehind'
      BY <1>3 DEF DurableBehind
<1>e. CheckpointsNamed'
      BY <1>3 DEF CheckpointsNamed, NamesCheckpoint
<1>f. ActiveTracked'
      BY <1>0, <1>2 DEF ActiveTracked, ActiveTxnsExact, Mine
<1>g. FlushTracked'
      BY <1>0, <1>1 DEF FlushTracked, NextOffset
<1> QED  BY <1>2, <1>a, <1>b, <1>c, <1>d, <1>e, <1>f, <1>g DEF LogInv, LogKept

\* Appending a record adds it to the log, behind every other record.
LEMMA AppendLog ==
    ASSUME LogInv, IInv', NEW r \in Request, AppendRecord(r),
           r.type = "Checkpoint" => r.txn = AutoTxn,
           file' = file, dhdr' \in PartialHeader, flushed' = flushed, opened' = opened, ioerrs' = ioerrs,
           ioerrs = 0 => NextOffset(dhdr') = BufferStart
    PROVE  LogInv' /\ Appended(NewEntry(r))
<1> DEFINE new == NewEntry(r)
<1>0. /\ TypeOK /\ IInv /\ wbuf \in Seq(Entry) /\ Len(wbuf) \in Nat /\ hdr \in Header
      /\ Contiguous /\ NoStraddle /\ LogOrdered /\ DurableBehind /\ CheckpointsNamed
      /\ ActiveTracked /\ FlushTracked /\ HeaderNamesLast
      /\ r.len \in Nat /\ r.len > 0
      BY BufferFacts DEF LogInv, IInv, Placement, TypeOK, Request
<1>1. /\ new \in Entry /\ new.off = NextOffset(hdr) /\ new.lsn = hdr.next
      /\ End(new) = NextOffset(hdr) + r.len /\ new.txn = r.txn /\ new.type = r.type
      /\ new.prev = hdr.len /\ new.len = r.len
      BY <1>0, NewEntryFacts DEF NewEntry
<1>2. /\ NextOffset(hdr) \in Nat /\ hdr.next \in Nat /\ BufferStart \in Nat
      /\ BufferStart <= NextOffset(hdr)
      BY <1>0, BufferStartFacts, RecordFacts
<1>3. /\ hdr'.chk = hdr.chk /\ hdr'.next = hdr.next + 1 /\ NextOffset(hdr') = End(new)
      /\ wbuf' = Append(wbuf, new) /\ active' = Register(r)
      /\ call'.pc \in {"idle", "records"} /\ call'.todo = {}
      /\ hdr'.off = new.off /\ hdr'.len = new.len
      BY <1>1 DEF AppendRecord, NextOffset, Idle, Flushing
<1> HIDE DEF new
<1>4. /\ Len(wbuf') = Len(wbuf) + 1 /\ wbuf'[Len(wbuf) + 1] = new /\ wbuf' # <<>>
      /\ \A i \in 1..Len(wbuf) : wbuf'[i] = wbuf[i]
      /\ DOMAIN wbuf' = 1..Len(wbuf) + 1 /\ DOMAIN wbuf = 1..Len(wbuf)
      BY <1>0, <1>1, <1>3
<1>5. BufferStart' = BufferStart
  <2>1. CASE wbuf = <<>>
    <3>1. Len(wbuf) = 0 /\ wbuf'[1] = new
          BY <1>0, <1>4, <2>1, EmptySeq
    <3> QED  BY <1>1, <1>4, <2>1, <3>1 DEF BufferStart
  <2>2. CASE wbuf # <<>>
    <3>1. 1 \in 1..Len(wbuf)
          BY <1>0, <2>2, EmptySeq
    <3> QED  BY <1>4, <2>2, <3>1 DEF BufferStart
  <2> QED  BY <2>1, <2>2
<1>6. SeqSet(wbuf') = SeqSet(wbuf) \cup {new}
      BY <1>0, <1>4 DEF SeqSet
<1>7. Written' = Written
      BY <1>5 DEF Written, End
<1>8. Log' = Log \cup {new}
      BY <1>6, <1>7 DEF Log
<1>9. Log \subseteq Entry /\ \A e \in Log : Before(e, new)
  <2>1. Log \subseteq Entry
        BY LogFacts
  <2> QED  BY <1>0, <1>1, <2>1 DEF LogOrdered, Before
<1>10. new \notin Log /\ \A e \in Log : e.lsn < new.lsn
      BY <1>0, <1>1, <1>2, <1>9 DEF Before
<1>11. file \in PartialWrite
  <2>1. /\ 0 \in 0..Len(wbuf) /\ file = Overwrite(file, {wbuf[i] : i \in 1..0})
        BY <1>0 DEF Overwrite
  <2>2. file \in {Overwrite(file, {wbuf[i] : i \in 1..k}) : k \in 0..Len(wbuf)}
        BY <2>1, Zenon
  <2> QED  BY <2>2 DEF PartialWrite
<1>12. /\ dhdr'.next <= hdr.next /\ dhdr'.next \in Nat
       /\ \A e \in Durable' : e.lsn < dhdr'.next
       /\ hdr.chk # 0 => \E e \in Durable' : e.lsn = hdr.chk /\ e.type = "Checkpoint"
       /\ dhdr'.chk # 0 => \E e \in Durable' : e.lsn = dhdr'.chk /\ e.type = "Checkpoint"
       /\ \A e \in file' : \A o \in {NextOffset(dhdr'), BufferStart} :
             End(e) <= o \/ o <= e.off
      BY <1>11, DurableStep, RecordFacts DEF IInv, TypeOK
<1>a. Contiguous'
  <2> SUFFICES ASSUME NEW i \in 1..Len(wbuf'), i + 1 \in 1..Len(wbuf')
               PROVE  wbuf'[i + 1].off = End(wbuf'[i])
      BY DEF Contiguous, End
  <2>1. i \in 1..Len(wbuf) /\ wbuf'[i] = wbuf[i]
        BY <1>0, <1>4
  <2>2. CASE i + 1 \in 1..Len(wbuf)
        BY <1>0, <1>4, <2>1, <2>2 DEF Contiguous
  <2>3. CASE i + 1 \notin 1..Len(wbuf)
    <3>1. i = Len(wbuf) /\ Len(wbuf) > 0
      <4>1. Len(wbuf) \in Nat /\ i \in 1..Len(wbuf)
            BY <1>0, <2>1
      <4> QED  BY <2>3, <4>1
    <3>2. End(wbuf[i]) = NextOffset(hdr)
          BY <1>0, <3>1 DEF HeaderNamesLast, End, NextOffset
    <3> QED  BY <1>1, <1>4, <2>1, <3>1, <3>2
  <2> QED  BY <2>2, <2>3
<1>b. CallSound'
      BY <1>3 DEF CallSound
<1>c. NoStraddle'
      BY <1>5, <1>12 DEF NoStraddle, End, NextOffset
<1>d. LogOrdered'
  <2>1. ASSUME NEW e \in Log', NEW f \in Log'
        PROVE  e = f \/ Before(e, f) \/ Before(f, e)
        BY <1>0, <1>8, <1>9 DEF LogOrdered
  <2>2. ASSUME NEW e \in Log'
        PROVE  End(e) <= NextOffset(hdr') /\ e.lsn < hdr'.next
    <3>1. CASE e = new
      <4>1. End(new) \in Nat
            BY <1>1, RecordFacts
      <4> QED  BY <1>1, <1>2, <1>3, <3>1, <4>1
    <3>2. CASE e \in Log
      <4>1. e \in Entry /\ End(e) <= NextOffset(hdr) /\ e.lsn < hdr.next
            BY <1>0, <1>9, <3>2 DEF LogOrdered
      <4> QED  BY <1>0, <1>1, <1>2, <1>3, <4>1, RecordFacts
    <3> QED  BY <1>8, <3>1, <3>2
  <2> QED  BY <2>1, <2>2 DEF LogOrdered, Before, End, NextOffset
<1>e. DurableBehind'
      BY <1>2, <1>3, <1>12 DEF DurableBehind
<1>f. CheckpointsNamed'
      BY <1>3, <1>12 DEF CheckpointsNamed, NamesCheckpoint
<1>g. ActiveTracked'
  <2>0. /\ r.type \in RecordType /\ active \in [Txns -> Nat] /\ AutoTxn \notin Txns
        /\ opened \in Nat /\ opened <= hdr.next /\ ActiveTxnsExact
        BY <1>0, WalAssumption DEF TypeOK, Request, ActiveTracked
  <2>1. ASSUME NEW t \in Txns, r.txn = t
        PROVE  /\ Mine(t)' # {}
               /\ \A e \in Mine(t)' :
                     (\A f \in Mine(t)' : f.lsn <= e.lsn) =>
                         active'[t] = IF e.type \in Forced THEN 0 ELSE e.lsn
    <3>1. /\ r.type \in {"Commit", "Abort"} => active'[t] = 0
          /\ r.type \notin {"Commit", "Abort"} => active'[t] = hdr.next
          /\ r.type # "Checkpoint"
          BY <1>3, <2>0, <2>1 DEF Register, RecordType
    <3>2. active'[t] = IF new.type \in Forced THEN 0 ELSE new.lsn
          BY <1>1, <3>1 DEF Forced
    <3>3. new \in Mine(t)'
          BY <1>1, <1>8, <2>0, <2>1 DEF Mine
    <3>4. ASSUME NEW e \in Mine(t)', \A f \in Mine(t)' : f.lsn <= e.lsn
          PROVE  e = new
      <4>1. e \in Log' /\ new.lsn <= e.lsn
            BY <3>3, <3>4 DEF Mine
      <4>2. CASE e \in Log
        <5>1. e \in Entry /\ e.lsn \in Nat /\ e.lsn < new.lsn
              BY <1>9, <1>10, <4>2, RecordFacts
        <5> QED  BY <1>1, <1>2, <4>1, <5>1
      <4> QED  BY <1>8, <4>1, <4>2
    <3> QED  BY <3>2, <3>3, <3>4
  <2>2. ASSUME NEW t \in Txns, r.txn # t
        PROVE  active'[t] = active[t] /\ Mine(t)' = Mine(t)
    <3>1. active'[t] = active[t]
          BY <1>3, <2>0, <2>2 DEF Register
    <3>2. new.txn # t
          BY <1>1, <2>2
    <3> QED  BY <1>8, <3>1, <3>2 DEF Mine
  <2>3. ActiveTxnsExact'
    <3> SUFFICES ASSUME NEW t \in Txns
                 PROVE  /\ Mine(t)' = {} => active'[t] = 0
                        /\ \A e \in Mine(t)' :
                              (\A f \in Mine(t)' : f.lsn <= e.lsn) =>
                                  active'[t] = IF e.type \in Forced THEN 0 ELSE e.lsn
        BY DEF ActiveTxnsExact
    <3>1. CASE r.txn = t
          BY <2>1, <3>1
    <3>2. CASE r.txn # t
      <4>1. active'[t] = active[t] /\ Mine(t)' = Mine(t)
            BY <2>2, <3>2
      <4> QED  BY <2>0, <4>1 DEF ActiveTxnsExact
    <3> QED  BY <3>1, <3>2
  <2> QED  BY <1>2, <1>3, <2>0, <2>3 DEF ActiveTracked
<1>h. FlushTracked'
  <2>1. flushed \in Nat /\ flushed < hdr.next
        BY <1>0 DEF FlushTracked, TypeOK
  <2>2. \A i \in 1..Len(wbuf') : flushed < wbuf'[i].lsn
    <3> SUFFICES ASSUME NEW i \in 1..Len(wbuf') PROVE flushed < wbuf'[i].lsn
        OBVIOUS
    <3>1. i \in 1..Len(wbuf) \/ i = Len(wbuf) + 1
          BY <1>0, <1>4
    <3> QED  BY <1>0, <1>1, <1>4, <2>1, <3>1 DEF FlushTracked
  <2> QED  BY <1>2, <1>3, <1>5, <2>1, <2>2 DEF FlushTracked, NextOffset
<1>i. Appended(new)
      BY <1>1, <1>3, <1>8, <1>10 DEF Appended
<1> QED  BY <1>a, <1>b, <1>c, <1>d, <1>e, <1>f, <1>g, <1>h, <1>i DEF LogInv, new
\* Writing the first n buffered records moves them from the buffer to the
\* written part; the remains of earlier flushes that lay there are gone.
LEMMA FlushRecordsLog ==
    ASSUME LogInv, IInv', FlushRecords
    PROVE  LogInv' /\ LogKept /\ Durable' = Durable
<1>0. /\ TypeOK /\ IInv /\ file \subseteq Entry /\ wbuf \in Seq(Entry) /\ Len(wbuf) \in Nat
      /\ hdr \in Header /\ CallSound
      /\ Contiguous /\ NoStraddle /\ LogOrdered /\ DurableBehind /\ CheckpointsNamed
      /\ ActiveTracked /\ FlushTracked /\ HeaderNamesLast /\ BufferOrdered /\ BufferPlaced
      /\ \A i \in 1..Len(wbuf) : wbuf[i] \in Entry
      BY BufferFacts DEF LogInv, IInv, Placement, TypeOK
<1>1. PICK n \in 1..Len(wbuf) :
         /\ file' = Overwrite(file, {wbuf[i] : i \in 1..n})
         /\ flushed' = wbuf[n].lsn
         /\ wbuf' = SubSeq(wbuf, n + 1, Len(wbuf))
         /\ call' = [pc |-> "header", todo |-> call.todo, rec |-> call.rec,
                     target |-> call.target, off |-> wbuf[n].off,
                     len |-> IF n = Len(wbuf) THEN hdr.len
                             ELSE wbuf[n + 1].off - wbuf[n].off]
      BY DEF FlushRecords, LastFlushed, Remaining
<1>2. /\ UNCHANGED <<hdr, dhdr, active, acked, opened, crashes, ioerrs>> /\ call.pc = "records"
      /\ call'.pc = "header" /\ call'.todo = call.todo /\ call'.off = wbuf[n].off
      /\ call'.len = IF n = Len(wbuf) THEN hdr.len ELSE wbuf[n + 1].off - wbuf[n].off
      BY <1>1 DEF FlushRecords
<1>3. /\ n \in Nat /\ n >= 1 /\ n <= Len(wbuf) /\ wbuf[n] \in Entry
      /\ wbuf[n].off \in Nat /\ wbuf[n].len \in Nat
      /\ End(wbuf[n]) = wbuf[n].off + wbuf[n].len /\ End(wbuf[n]) \in Nat
      BY <1>0, <1>1, RecordFacts DEF End
<1>4. /\ Len(wbuf') = Len(wbuf) - n /\ wbuf' \in Seq(Entry)
      /\ DOMAIN wbuf' = 1..Len(wbuf')
      /\ \A i \in 1..Len(wbuf') : wbuf'[i] = wbuf[n + i] /\ n + i \in n + 1..Len(wbuf)
  <2>1. \A i \in n + 1..Len(wbuf) : wbuf[i] \in Entry
        BY <1>0, <1>3
  <2>2. /\ wbuf' \in Seq(Entry)
        /\ Len(wbuf') = IF n + 1 <= Len(wbuf) THEN Len(wbuf) - (n + 1) + 1 ELSE 0
        /\ \A i \in 1..Len(wbuf) - (n + 1) + 1 : wbuf'[i] = wbuf[(n + 1) + i - 1]
        BY <1>0, <1>1, <1>3, <2>1, SubSeqProperties
  <2>3. Len(wbuf') = Len(wbuf) - n
        BY <1>0, <1>3, <2>2
  <2>4. ASSUME NEW i \in 1..Len(wbuf')
        PROVE  wbuf'[i] = wbuf[n + i] /\ n + i \in n + 1..Len(wbuf)
    <3>1. i \in 1..Len(wbuf) - (n + 1) + 1 /\ (n + 1) + i - 1 = n + i
          BY <1>0, <1>3, <2>3
    <3>2. wbuf'[i] = wbuf[n + i]
          BY <2>2, <3>1
    <3> QED  BY <1>0, <1>3, <2>3, <3>2
  <2> QED  BY <2>2, <2>3, <2>4
\* The buffer now starts where the records just written end.
<1>5. BufferStart' = End(wbuf[n])
  <2>1. CASE n = Len(wbuf)
    <3>1. wbuf' = <<>>
          BY <1>0, <1>4, <2>1, EmptySeq
    <3>2. End(wbuf[n]) = NextOffset(hdr)
          BY <1>0, <1>3, <2>1 DEF HeaderNamesLast, End, NextOffset
    <3> QED  BY <1>2, <3>1, <3>2 DEF BufferStart, NextOffset
  <2>2. CASE n # Len(wbuf)
    <3>1. 1 \in 1..Len(wbuf') /\ n + 1 \in 1..Len(wbuf)
          BY <1>0, <1>3, <1>4, <2>2
    <3>2. wbuf' # <<>> /\ wbuf'[1] = wbuf[n + 1]
          BY <1>4, <3>1, EmptySeq
    <3> QED  BY <1>0, <1>1, <3>1, <3>2 DEF BufferStart, Contiguous
  <2> QED  BY <2>1, <2>2
<1> DEFINE new == {wbuf[i] : i \in 1..n}
<1>6. /\ file' \subseteq Entry /\ Written \cup new \subseteq file'
      /\ \A e \in file' : \/ e \in Written
                          \/ e \in new
                          \/ e \in file /\ End(wbuf[n]) <= e.off
      /\ \A e \in new : BufferStart <= e.off /\ End(e) <= End(wbuf[n])
      /\ BufferStart < End(wbuf[n])
      BY <1>1, WriteFirst
<1>7. SeqSet(wbuf) = new \cup SeqSet(wbuf')
  <2>1. DOMAIN wbuf = 1..Len(wbuf)
        BY <1>0
  <2>2. ASSUME NEW i \in 1..Len(wbuf), i \notin 1..n
        PROVE  wbuf[i] \in SeqSet(wbuf')
    <3>1. i - n \in 1..Len(wbuf') /\ n + (i - n) = i
          BY <1>0, <1>3, <1>4, <2>2
    <3> QED  BY <1>4, <3>1 DEF SeqSet
  <2>3. \A i \in 1..Len(wbuf') : wbuf'[i] = wbuf[n + i] /\ n + i \in 1..Len(wbuf)
        BY <1>0, <1>3, <1>4
  <2>4. 1..n \subseteq 1..Len(wbuf)
        BY <1>0, <1>3
  <2>5. SeqSet(wbuf') \subseteq SeqSet(wbuf) /\ new \subseteq SeqSet(wbuf)
        BY <1>4, <2>1, <2>3, <2>4 DEF SeqSet
  <2>6. SeqSet(wbuf) \subseteq new \cup SeqSet(wbuf')
        BY <2>1, <2>2 DEF SeqSet
  <2> QED  BY <2>5, <2>6
<1> HIDE DEF new
<1>8. BufferStart \in Nat /\ NextOffset(dhdr) \in Nat /\ NextOffset(dhdr) <= BufferStart
      BY <1>0, BufferStartFacts
<1>9. Written' = Written \cup new
  <2>1. \A e \in Written : e \in Entry /\ End(e) <= End(wbuf[n])
        BY <1>0, <1>3, <1>6, <1>8, RecordFacts DEF Written
  <2>2. ASSUME NEW e \in file', End(e) <= End(wbuf[n])
        PROVE  e \in Written \cup new
    <3>1. e \in Entry
          BY <1>6
    <3>2. ~(End(wbuf[n]) <= e.off)
          BY <1>3, <2>2, <3>1, RecordFacts
    <3> QED  BY <1>6, <3>2
  <2>3. Written' = {e \in file' : End(e) <= End(wbuf[n])}
        BY <1>5 DEF Written, End
  <2> QED  BY <1>6, <2>1, <2>2, <2>3
<1>10. Log' = Log
      BY <1>7, <1>9 DEF Log
<1>11. file' \in PartialWrite /\ dhdr' \in PartialHeader
      BY <1>0, StepWrites DEF Next
<1>12. /\ {e \in file' : End(e) <= NextOffset(dhdr)} = Durable
       /\ \A e \in file' : End(e) <= NextOffset(dhdr) \/ NextOffset(dhdr) <= e.off
      BY <1>11, FileWrite
<1>13. Durable' = Durable
      BY <1>2, <1>12 DEF Durable, End, NextOffset
<1>a. Contiguous'
  <2> SUFFICES ASSUME NEW i \in 1..Len(wbuf'), i + 1 \in 1..Len(wbuf')
               PROVE  wbuf'[i + 1].off = End(wbuf'[i])
      BY DEF Contiguous, End
  <2>1. /\ wbuf'[i] = wbuf[n + i] /\ wbuf'[i + 1] = wbuf[(n + i) + 1]
        /\ n + i \in 1..Len(wbuf) /\ (n + i) + 1 \in 1..Len(wbuf)
    <3>1. n + (i + 1) = (n + i) + 1
          BY <1>3
    <3> QED  BY <1>0, <1>3, <1>4, <3>1
  <2> QED  BY <1>0, <2>1 DEF Contiguous
<1>b. CallSound'
  <2>1. CASE n = Len(wbuf)
    <3>1. call'.len = wbuf[n].len
          BY <1>0, <1>2, <1>3, <2>1 DEF HeaderNamesLast
    <3> QED  BY <1>0, <1>2, <1>3, <1>5, <3>1 DEF CallSound
  <2>2. CASE n # Len(wbuf)
    <3>1. n + 1 \in 1..Len(wbuf)
          BY <1>0, <1>3, <2>2
    <3>2. wbuf[n + 1].off = End(wbuf[n])
          BY <1>0, <3>1 DEF Contiguous
    <3>3. call'.off + call'.len = End(wbuf[n])
          BY <1>2, <1>3, <2>2, <3>2
    <3> QED  BY <1>0, <1>2, <1>5, <3>3 DEF CallSound
  <2> QED  BY <2>1, <2>2
<1>c. NoStraddle'
  <2>1. \A e \in Written : End(e) <= BufferStart
        BY DEF Written
  <2>2. \A e \in file' : End(e) <= End(wbuf[n]) \/ End(wbuf[n]) <= e.off
        BY <1>3, <1>6, <1>8, <2>1, RecordFacts
  <2> QED  BY <1>2, <1>5, <1>12, <2>2 DEF NoStraddle, End, NextOffset
<1>d. LogOrdered'
      BY <1>0, <1>2, <1>10 DEF LogOrdered, Before, End, NextOffset
<1>e. DurableBehind'
      BY <1>0, <1>2, <1>13 DEF DurableBehind
<1>f. CheckpointsNamed'
      BY <1>0, <1>2, <1>13 DEF CheckpointsNamed, NamesCheckpoint
<1>g. ActiveTracked'
      BY <1>0, <1>2, <1>10 DEF ActiveTracked, ActiveTxnsExact, Mine
<1>h. FlushTracked'
  <2>1. flushed' < hdr'.next
        BY <1>0, <1>1, <1>2 DEF BufferPlaced
  <2>2. ASSUME NEW i \in 1..Len(wbuf')
        PROVE  flushed' < wbuf'[i].lsn
    <3>1. wbuf'[i] = wbuf[n + i] /\ n + i \in n + 1..Len(wbuf)
          BY <1>4
    <3>2. Len(wbuf) \in Nat /\ n \in 1..Len(wbuf)
          BY <1>0, <1>3
    <3>3. n + i \in 1..Len(wbuf) /\ n < n + i
          BY <3>1, <3>2
    <3> QED  BY <1>0, <1>1, <3>1, <3>3 DEF BufferOrdered
  <2> QED  BY <1>2, <2>1, <2>2 DEF FlushTracked
<1> QED  BY <1>2, <1>10, <1>13, <1>a, <1>b, <1>c, <1>d, <1>e, <1>f, <1>g, <1>h
          DEF LogInv, LogKept

\* The second write of a flush, whatever its call goes on with.
LEMMA FlushHeaderLog ==
    ASSUME LogInv, IInv', FlushHeader
    PROVE  LogInv' /\ (LogKept \/ \E e \in Entry : Appended(e))
<1>0. /\ TypeOK /\ IInv /\ call \in Call /\ call.pc = "header" /\ CallRecord
      /\ wbuf \in Seq(Entry) /\ hdr \in Header
      /\ dhdr' = FlushedHeader /\ UNCHANGED <<file, flushed, opened, crashes, ioerrs>>
      /\ CallSound
      BY DEF LogInv, IInv, Placement, TypeOK, FlushHeader
<1>1. file' \in PartialWrite /\ dhdr' \in PartialHeader
      BY <1>0 DEF PartialWrite, PartialHeader
<1>2. /\ NextOffset(dhdr') = BufferStart
      /\ NextOffset(dhdr') = call.off + call.len
      BY <1>0 DEF FlushedHeader, NextOffset, CallSound, Header
<1>3. CASE \E r \in call.todo : AppendRecord(r)
  <2>1. PICK r \in call.todo : AppendRecord(r)
        BY <1>3
  <2>2. r \in Request
        BY <1>0, <2>1 DEF Call
  <2>3. r.type = "Checkpoint" => r.txn = AutoTxn
        BY <1>0, <2>1, WalAssumption DEF CallSound
  <2>4. NewEntry(r) \in Entry
        BY <1>0, <2>2, NewEntryFacts
  <2> QED  BY <1>0, <1>1, <1>2, <2>1, <2>2, <2>3, <2>4, AppendLog
<1>4. CASE /\ \E e \in call.rec : e.type = "Checkpoint" /\ hdr' = [hdr EXCEPT !.chk = CheckpointLsn(e)]
           /\ call' = [call EXCEPT !.pc = "chk"] /\ UNCHANGED <<wbuf, active, acked>>
  <2>1. PICK e \in call.rec : e.type = "Checkpoint" /\ hdr' = [hdr EXCEPT !.chk = CheckpointLsn(e)]
        BY <1>4
  <2>2. /\ hdr'.chk = e.lsn /\ hdr'.next = hdr.next /\ hdr'.off = hdr.off /\ hdr'.len = hdr.len
        BY <1>0, <2>1 DEF Header, CheckpointLsn
  <2>3. NextOffset(hdr') = NextOffset(hdr)
        BY <2>2 DEF NextOffset
  <2>4. Len(wbuf) = 0 /\ e \in file /\ End(e) <= NextOffset(dhdr')
        BY <1>0, <1>2, <2>1 DEF CallRecord
  <2>5. e \in Durable'
        BY <1>0, <2>4 DEF Durable, End, NextOffset
  <2>6. NamesCheckpoint(hdr)'
        BY <2>1, <2>2, <2>5 DEF NamesCheckpoint
  <2>7. BufferStart = NextOffset(hdr) /\ call'.pc = "chk" /\ call'.todo = call.todo
        BY <1>0, <1>4, <2>4, EmptySeq DEF BufferStart, Call
  <2>8. CallSound'
        BY <1>0, <1>2, <2>3, <2>7 DEF CallSound, NextOffset
  <2> QED  BY <1>0, <1>1, <1>2, <1>4, <2>2, <2>3, <2>6, <2>8, QuietStep
<1>5. CASE call' = Idle /\ UNCHANGED <<hdr, wbuf, active>>
  <2>1. CallSound' /\ hdr'.off = hdr.off /\ hdr'.len = hdr.len
        BY <1>5 DEF CallSound, Idle
  <2> QED  BY <1>0, <1>1, <1>2, <1>5, <2>1, QuietStep
<1> QED  BY <1>3, <1>4, <1>5 DEF FlushHeader

\* A checkpoint's second header write.
LEMMA FlushCheckpointLog ==
    ASSUME LogInv, IInv', FlushCheckpoint
    PROVE  LogInv' /\ LogKept
<1>0. /\ CallRecord /\ wbuf \in Seq(Entry) /\ call.pc = "chk" /\ dhdr' = hdr /\ call' = Idle
      /\ UNCHANGED <<hdr, wbuf, file, flushed, active, opened, crashes, ioerrs>>
      BY DEF LogInv, IInv, Placement, TypeOK, FlushCheckpoint
<1>1. file' \in PartialWrite /\ dhdr' \in PartialHeader
      BY <1>0 DEF PartialWrite, PartialHeader
<1>2. NextOffset(dhdr') = BufferStart
      BY <1>0, EmptySeq DEF CallRecord, BufferStart
<1>3. CallSound'
      BY <1>0 DEF CallSound, Idle
<1> QED  BY <1>0, <1>1, <1>2, <1>3, QuietStep

\* A failed write, which from then on makes FlushTracked's last claim void.
LEMMA IoErrorLog ==
    ASSUME LogInv, IInv', IoError
    PROVE  LogInv' /\ LogKept
<1>0. /\ file' \in PartialWrite /\ dhdr' \in PartialHeader /\ call' = Idle
      /\ UNCHANGED <<hdr, wbuf, flushed, active, acked, opened, crashes>>
      /\ ioerrs' = ioerrs + 1 /\ ioerrs \in Nat
      BY WalAssumption DEF LogInv, IInv, TypeOK, IoError
<1>1. CallSound' /\ ioerrs' # 0
      BY <1>0 DEF CallSound, Idle
<1> QED  BY <1>0, <1>1, QuietStep

\* A crash leaves the durable part, and a process that goes on from it.
LEMMA RestartLog ==
    ASSUME LogInv, IInv', Restart
    PROVE  LogInv' /\ Log' = Durable'
<1>0. /\ file' \in PartialWrite /\ dhdr' \in PartialHeader /\ call' = Idle
      /\ hdr' = dhdr' /\ wbuf' = <<>> /\ flushed' = dhdr'.next - 1
      /\ active' = [t \in Txns |-> 0] /\ opened' = dhdr'.next /\ dhdr' \in Header
      /\ LogOrdered /\ IInv
      BY DEF LogInv, IInv, TypeOK, Restart
<1>1. Len(wbuf') = 0 /\ DOMAIN wbuf' = {}
      BY <1>0
<1>2. BufferStart' = NextOffset(dhdr')
      BY <1>0 DEF BufferStart, NextOffset
<1>3. Written' = Durable'
      BY <1>2 DEF Written, Durable, NextOffset
<1>4. Log' = Durable'
      BY <1>1, <1>3 DEF Log, SeqSet
<1>5. /\ Durable' \subseteq Log
      /\ \A e \in Durable' : e.lsn < dhdr'.next
      /\ dhdr'.chk # 0 => \E e \in Durable' : e.lsn = dhdr'.chk /\ e.type = "Checkpoint"
      /\ \A e \in file' : \A o \in {NextOffset(dhdr'), BufferStart} :
            End(e) <= o \/ o <= e.off
      BY <1>0, DurableStep
<1>6. \A e \in Durable' : End(e) <= NextOffset(dhdr')
      BY DEF Durable, End, NextOffset
<1>a. Contiguous'
      BY <1>1 DEF Contiguous
<1>b. CallSound'
      BY <1>0 DEF CallSound, Idle
<1>c. NoStraddle'
      BY <1>2, <1>5 DEF NoStraddle, End, NextOffset
<1>d. LogOrdered'
      BY <1>0, <1>4, <1>5, <1>6 DEF LogOrdered, Before, End, NextOffset
<1>e. DurableBehind'
      BY <1>0, <1>5, RecordFacts DEF DurableBehind
<1>f. CheckpointsNamed'
      BY <1>0, <1>5 DEF CheckpointsNamed, NamesCheckpoint
<1>g. ActiveTracked'
  <2>1. dhdr'.next \in Nat /\ Durable' \subseteq Entry
    <3>1. TypeOK'
          BY <1>0 DEF IInv
    <3> QED  BY <1>0, <3>1, RecordFacts DEF Durable, TypeOK
  <2>2. \A t \in Txns : Mine(t)' = {}
    <3> SUFFICES ASSUME NEW t \in Txns, NEW e \in Mine(t)' PROVE FALSE
        OBVIOUS
    <3>1. e \in Durable' /\ e.lsn >= dhdr'.next
          BY <1>0, <1>4 DEF Mine
    <3>2. e.lsn \in Nat /\ e.lsn < dhdr'.next
          BY <1>5, <2>1, <3>1, RecordFacts
    <3> QED  BY <2>1, <3>1, <3>2
  <2>3. \A t \in Txns : active'[t] = 0
        BY <1>0
  <2>4. opened' <= hdr'.next
        BY <1>0, <2>1
  <2>5. ActiveTxnsExact'
        BY <2>2, <2>3 DEF ActiveTxnsExact
  <2> QED  BY <2>4, <2>5 DEF ActiveTracked
<1>h. FlushTracked'
  <2>1. dhdr'.next \in Nat
        BY <1>0, RecordFacts
  <2> QED  BY <1>0, <1>1, <1>2, <2>1 DEF FlushTracked, NextOffset
<1> QED  BY <1>4, <1>a, <1>b, <1>c, <1>d, <1>e, <1>f, <1>g, <1>h DEF LogInv

\* A step that only starts a flush, or does nothing.
LEMMA StartFlushLog ==
    ASSUME LogInv, IInv', call.pc = "idle" \/ call' = call,
           call' = call \/ call'.pc = "records", call'.todo \subseteq Requests,
           UNCHANGED <<hdr, dhdr, wbuf, file, flushed, active, acked, opened, crashes, ioerrs>>,
           file' \in PartialWrite, dhdr' \in PartialHeader
    PROVE  LogInv' /\ LogKept
<1>1. CallSound'
      BY DEF LogInv, CallSound, BufferStart, NextOffset
<1>2. ioerrs' = 0 /\ call'.pc # "header" => NextOffset(dhdr') = BufferStart
      BY DEF LogInv, FlushTracked, NextOffset
<1>3. hdr'.off = hdr.off /\ hdr'.len = hdr.len /\ hdr'.next = hdr.next /\ hdr'.chk = hdr.chk
      OBVIOUS
<1> QED  BY <1>1, <1>2, <1>3, QuietStep

LEMMA LogInit == Init => LogInv
<1> SUFFICES ASSUME Init PROVE LogInv
    OBVIOUS
<1>1. /\ IInv /\ hdr = [chk |-> 0, off |-> HdrSize, len |-> 0, next |-> 1] /\ dhdr = hdr
      /\ wbuf = <<>> /\ file = {} /\ flushed = 0 /\ call = Idle
      /\ active = [t \in Txns |-> 0] /\ opened = 1
      BY InitInv DEF Init
<1>2. Len(wbuf) = 0 /\ DOMAIN wbuf = {} /\ HdrSize \in Nat
      BY <1>1, WalAssumption
<1>3. BufferStart = NextOffset(dhdr)
      BY <1>1 DEF BufferStart
<1>4. Log = {} /\ Durable = {}
      BY <1>1, <1>2 DEF Log, Written, SeqSet, Durable
<1>a. Contiguous /\ NoStraddle /\ FlushTracked
      BY <1>1, <1>2, <1>3 DEF Contiguous, NoStraddle, FlushTracked
<1>b. CallSound /\ LogOrdered /\ DurableBehind
      BY <1>1, <1>4 DEF CallSound, Idle, LogOrdered, DurableBehind
<1>c. CheckpointsNamed /\ ActiveTracked
      BY <1>1, <1>4 DEF CheckpointsNamed, NamesCheckpoint, ActiveTracked, ActiveTxnsExact, Mine
<1> QED  BY <1>1, <1>a, <1>b, <1>c DEF LogInv

\* Every step keeps the invariant and does one of the three things to the log.
LEMMA LogStepInv ==
    ASSUME LogInv, [Next]_vars
    PROVE  LogInv' /\ IInv' /\ (\/ LogKept
                                \/ \E e \in Entry : Appended(e)
                                \/ Restart /\ Log' = Durable')
<1>0. /\ IInv' /\ file' \in PartialWrite /\ dhdr' \in PartialHeader /\ TypeOK
      /\ Requests \subseteq Request
      BY StepInv, StepWrites, WalAssumption DEF LogInv, IInv
<1>1. ASSUME NEW r \in Requests, WriteRecord(r)
      PROVE  LogInv' /\ \E e \in Entry : Appended(e)
  <2>1. /\ r \in Request /\ AppendRecord(r)
        /\ r.type = "Checkpoint" => r.txn = AutoTxn
        /\ UNCHANGED <<dhdr, file, flushed, acked, opened, crashes, ioerrs>> /\ call.pc = "idle"
        BY <1>0, <1>1, WalAssumption DEF WriteRecord, Idle
  <2>2. ioerrs = 0 => NextOffset(dhdr') = BufferStart
        BY <2>1 DEF LogInv, FlushTracked, NextOffset
  <2>3. NewEntry(r) \in Entry
        BY <1>0, <2>1, NewEntryFacts
  <2> QED  BY <1>0, <2>1, <2>2, <2>3, AppendLog
<1>2. ASSUME NEW r \in Requests, WriteRecordFull(r)
      PROVE  LogInv' /\ LogKept
  <2>1. /\ call.pc = "idle" /\ call'.pc = "records" /\ call'.todo = {r}
        /\ UNCHANGED <<hdr, dhdr, wbuf, file, flushed, active, acked, opened, crashes, ioerrs>>
        BY <1>2 DEF WriteRecordFull, Idle, Flushing
  <2> QED  BY <1>0, <2>1, StartFlushLog
<1>3. ASSUME NEW target \in 1..hdr.next, FlushUpTo(target)
      PROVE  LogInv' /\ LogKept
  <2>1. /\ call.pc = "idle" /\ call'.pc = "records" /\ call'.todo = {}
        /\ UNCHANGED <<hdr, dhdr, wbuf, file, flushed, active, acked, opened, crashes, ioerrs>>
        BY <1>3 DEF FlushUpTo, Idle, Flushing
  <2> QED  BY <1>0, <2>1, StartFlushLog
<1>4. ASSUME UNCHANGED vars
      PROVE  LogInv' /\ LogKept
  <2>1. /\ call' = call /\ call'.todo \subseteq Requests
        /\ UNCHANGED <<hdr, dhdr, wbuf, file, flushed, active, acked, opened, crashes, ioerrs>>
        BY <1>4 DEF vars, LogInv, CallSound
  <2> QED  BY <1>0, <2>1, StartFlushLog
<1>5. ASSUME NEW target \in 1..hdr.next, FlushNothing(target)
      PROVE  LogInv' /\ LogKept
      BY <1>4, <1>5 DEF FlushNothing
<1>6. CASE FlushRecords
      BY <1>0, <1>6, FlushRecordsLog
<1>7. CASE FlushHeader
      BY <1>0, <1>7, FlushHeaderLog
<1>8. CASE FlushCheckpoint
      BY <1>0, <1>8, FlushCheckpointLog
<1>9. CASE IoError
      BY <1>0, <1>9, IoErrorLog
<1>10. CASE Restart
      BY <1>0, <1>10, RestartLog
<1> QED  BY <1>0, <1>1, <1>2, <1>3, <1>4, <1>5, <1>6, <1>7, <1>8, <1>9, <1>10 DEF Next

THEOREM LogInvariance == Spec => []LogInv
<1>1. LogInv /\ [Next]_vars => LogInv'
      BY LogStepInv
<1> QED  BY <1>1, LogInit, PTL DEF Spec

\* A crash at any point leaves a header whose checkpoint recovery can reach
\* and whose next LSN no durable record has, over records in LSN order.
THEOREM HeaderSoundHolds == Spec => []HeaderSound
<1>1. ASSUME LogInv
      PROVE  HeaderSound
  <2>1. /\ Durable \subseteq Log /\ Log \subseteq Entry
        /\ LogOrdered /\ DurableBehind /\ CheckpointsNamed
        BY <1>1, LogFacts DEF LogInv
  <2>2. ASSUME NEW e \in Durable, NEW f \in Durable
        PROVE  /\ e.lsn = f.lsn => e = f
               /\ e.off < f.off => e.lsn < f.lsn
        BY <2>1, RecordFacts DEF LogOrdered, Before
  <2>3. LsnOrder
        BY <2>1, <2>2 DEF LsnOrder, DurableBehind
  <2>4. CheckpointReachable
        BY <2>1, <2>2 DEF CheckpointReachable, CheckpointsNamed, NamesCheckpoint
  <2> QED  BY <2>3, <2>4 DEF HeaderSound
<1> QED  BY <1>1, LogInvariance, PTL

\* The transaction table a checkpoint records has exactly the transactions this
\* process left open, each with its last record.
THEOREM ActiveTxnsExactHolds == Spec => []ActiveTxnsExact
<1>1. LogInv => ActiveTxnsExact
      BY DEF LogInv, ActiveTracked
<1> QED  BY <1>1, LogInvariance, PTL

\* Until a file write fails, what flush_up_to calls flushed is durable between
\* calls: the write-ahead rule rests on it.
THEOREM FlushedIsDurableHolds == Spec => []FlushedIsDurable
<1>1. ASSUME LogInv, ioerrs = 0, call.pc = "idle"
      PROVE  {e \in Log : e.lsn <= flushed} \subseteq Durable
  <2>1. /\ NextOffset(dhdr) = BufferStart /\ TypeOK /\ flushed \in Nat
        /\ \A i \in 1..Len(wbuf) : flushed < wbuf[i].lsn
        /\ \A i \in 1..Len(wbuf) : wbuf[i] \in Entry
        /\ DOMAIN wbuf = 1..Len(wbuf)
        BY <1>1, BufferFacts DEF LogInv, FlushTracked, IInv, TypeOK
  <2>2. \A e \in SeqSet(wbuf) : ~(e.lsn <= flushed)
        BY <2>1, RecordFacts DEF SeqSet
  <2>3. Written = Durable
        BY <2>1 DEF Written, Durable
  <2> QED  BY <2>2, <2>3 DEF Log
<1>2. LogInv => FlushedIsDurable
      BY <1>1 DEF FlushedIsDurable
<1> QED  BY <1>2, LogInvariance, PTL
-----------------------------------------------------------------------------
(* The log implements AbstractLog. *)

\* What becomes durable in a step is a prefix of what was not yet durable.
LEMMA DurablePrefix ==
    ASSUME LogInv, [Next]_vars
    PROVE  \E P \in Abstract!Prefixes : Durable' = Durable \cup P
<1>1. /\ file' \in PartialWrite /\ dhdr' \in PartialHeader /\ IInv'
      BY StepInv, StepWrites DEF LogInv
<1>2. Durable' = Durable \/ Durable' = Written
      BY <1>1, DurableStep
<1>3. /\ Durable \subseteq Written /\ Log = Written \cup SeqSet(wbuf)
      /\ \A e \in Written, f \in SeqSet(wbuf) : Before(e, f)
      BY LogFacts DEF Log
<1>4. {} \in Abstract!Prefixes
      BY DEF Abstract!Prefixes
<1>5. Written \ Durable \in Abstract!Prefixes
  <2> SUFFICES ASSUME NEW e \in Written \ Durable, NEW f \in (Log \ Durable) \ (Written \ Durable)
               PROVE  e.lsn < f.lsn
      BY <1>3 DEF Abstract!Prefixes
  <2> QED  BY <1>3 DEF Before
<1> QED  BY <1>2, <1>3, <1>4, <1>5

\* Every step of the log is a step of the abstract log.
LEMMA StepRefines ==
    ASSUME LogInv, [Next]_vars
    PROVE  Abstract!Advance \/ Abstract!Lose \/ UNCHANGED Abstract!logVars
<1>1. /\ file' \in PartialWrite /\ dhdr' \in PartialHeader /\ IInv' /\ IInv
      BY StepInv, StepWrites DEF LogInv
<1>2. /\ Durable \subseteq Durable' /\ Durable' \subseteq Log /\ Durable \subseteq Log
      BY <1>1, DurableStep, LogFacts
<1>3. PICK P \in Abstract!Prefixes : Durable' = Durable \cup P
      BY DurablePrefix
<1>4. P \subseteq Log /\ P \cap Durable = {}
      BY <1>3 DEF Abstract!Prefixes
<1>5. acked' \subseteq Durable'
      BY <1>1 DEF IInv, CommitDurable
<1>6. acked \subseteq acked'
      BY DEF Next, vars, WriteRecord, WriteRecordFull, FlushNothing, FlushUpTo, FlushRecords,
             FlushHeader, FlushCheckpoint, IoError, Restart
<1>7. CASE LogKept
  <2>0. Log' = Log
        BY <1>7 DEF LogKept
  <2>1. /\ (Log \ Durable) \ P \subseteq Log' \ Durable'
        /\ (Log' \ Durable') \cap P = {}
        /\ (Log' \ Durable') \ (Log \ Durable) = {}
        BY <1>2, <1>3, <2>0
  <2> QED  BY <1>3, <1>5, <1>6, <2>1 DEF Abstract!Advance
<1>8. ASSUME NEW e \in Entry, Appended(e)
      PROVE  Abstract!Advance
  <2>1. /\ e \notin Log /\ Log' = Log \cup {e} /\ \A f \in Log : f.lsn < e.lsn
        BY <1>8 DEF Appended
  <2>2. /\ (Log \ Durable) \ P \subseteq Log' \ Durable'
        /\ (Log' \ Durable') \cap P = {}
        /\ (Log' \ Durable') \ (Log \ Durable) \subseteq {e}
        BY <1>2, <1>3, <2>1
  <2>3. \A f \in Durable' \cup ((Log' \ Durable') \ {e}) : f.lsn < e.lsn
        BY <1>2, <2>1
  <2> QED  BY <1>3, <1>5, <1>6, <2>2, <2>3 DEF Abstract!Advance
<1>9. CASE Restart /\ Log' = Durable'
  <2>1. Log' \ Durable' = {} /\ acked' = acked
        BY <1>9 DEF Restart
  <2> QED  BY <1>3, <2>1 DEF Abstract!Lose
<1> QED  BY <1>7, <1>8, <1>9, LogStepInv

\* The file, the buffer and the two headers implement a log with a stable part
\* that only grows, in LSN order, and a volatile part that a crash takes away.
THEOREM Refinement == Spec => ImplementsLog
<1>1. Init => Abstract!LogInit
  <2> SUFFICES ASSUME Init PROVE Abstract!LogInit
      OBVIOUS
  <2>1. file = {} /\ wbuf = <<>> /\ acked = {} /\ DOMAIN wbuf = {}
        BY DEF Init
  <2>2. Log = {} /\ Durable = {}
        BY <2>1 DEF Log, Written, SeqSet, Durable
  <2> QED  BY <2>1, <2>2 DEF Abstract!LogInit
<1>2. LogInv /\ [Next]_vars => [Abstract!Advance \/ Abstract!Lose]_(Abstract!logVars)
      BY StepRefines
<1> QED  BY <1>1, <1>2, LogInvariance, PTL DEF Spec, ImplementsLog, Abstract!LogSpec
-----------------------------------------------------------------------------
(* The two readers of the log agree after any crash: the walk back from the *)
(* header on disk returns the durable records, and the scan from the start  *)
(* meets them all.  Both readers are recursive functions.  Their recursion  *)
(* equations hold because some function satisfies them: the one that gives  *)
(* the records reachable from an offset.  The rest is induction along the   *)
(* log, which needs that every record but the first follows another, and    *)
(* knows how long that one is.                                              *)

\* Every record of the log is the first, or follows another of which it keeps
\* the length.
Chained ==
    \A e \in Log :
        /\ HdrSize <= e.off
        /\ \/ e.off = HdrSize /\ e.prev = 0
           \/ \E p \in Log : End(p) = e.off /\ e.prev = p.len

\* (off, len) is where a log made of the records R ends: its last record.
NamesLast(off, len, R) ==
    \/ R = {} /\ off = HdrSize /\ len = 0
    \/ \E e \in R : e.off = off /\ e.len = len

HeadersNameLast ==
    /\ NamesLast(hdr.off, hdr.len, Log)
    /\ NamesLast(dhdr.off, dhdr.len, Durable)
    /\ call.pc = "header" => NamesLast(call.off, call.len, Written)


ChainInv == LogInv /\ Chained /\ HeadersNameLast
-----------------------------------------------------------------------------
\* What comes before a durable (written) record in the log is durable (written).
LEMMA PrefixClosed ==
    ASSUME LogInv, NEW p \in Log, NEW e \in Written, End(p) <= e.off
    PROVE  p \in Written /\ (e \in Durable => p \in Durable)
<1>0. /\ Log = Written \cup SeqSet(wbuf) /\ Log \subseteq Entry /\ e \in Log /\ Written \subseteq file
      /\ \A f \in SeqSet(wbuf) : Before(e, f)
      /\ NextOffset(dhdr) \in Nat
      BY LogFacts, BufferStartFacts DEF Log, Written, LogInv
<1>1. p \notin SeqSet(wbuf)
      BY <1>0, RecordFacts DEF Before
<1>2. e \in Durable => End(p) <= NextOffset(dhdr)
      BY <1>0, RecordFacts DEF Durable
<1> QED  BY <1>0, <1>1, <1>2 DEF Durable

\* Which record the header on disk names after a step.
LEMMA HeaderNames ==
    ASSUME ChainInv, IInv', file' \in PartialWrite, dhdr' \in PartialHeader
    PROVE  NamesLast(dhdr'.off, dhdr'.len, Durable')
<1>0. /\ HeadersNameLast /\ CallSound /\ LogInv /\ CallRecord /\ wbuf \in Seq(Entry)
      /\ hdr \in Header /\ TypeOK
      BY DEF ChainInv, LogInv, IInv, Placement, TypeOK
<1>1. \/ Durable' = Durable /\ NextOffset(dhdr') = NextOffset(dhdr)
      \/ Durable' = Written /\ NextOffset(dhdr') = BufferStart
      BY <1>0, DurableStep
<1>2. NextOffset(dhdr') = BufferStart => Durable' = Written
      BY <1>1 DEF Durable, Written
<1>3. {e \in file' : End(e) <= NextOffset(dhdr)} = Durable
      BY <1>0, FileWrite
<1>4. CASE dhdr' = dhdr
  <2>1. Durable' = Durable
        BY <1>3, <1>4 DEF Durable, End, NextOffset
  <2> QED  BY <1>0, <1>4, <2>1 DEF HeadersNameLast
<1>5. CASE call.pc = "header" /\ dhdr' = FlushedHeader
  <2>1. dhdr'.off = call.off /\ dhdr'.len = call.len /\ NextOffset(dhdr') = BufferStart
        BY <1>0, <1>5 DEF FlushedHeader, Header, CallSound, NextOffset
  <2> QED  BY <1>0, <1>2, <1>5, <2>1 DEF HeadersNameLast
<1>6. CASE call.pc = "chk" /\ dhdr' = hdr
  <2>1. wbuf = <<>> /\ DOMAIN wbuf = {}
        BY <1>0, <1>6, EmptySeq DEF CallRecord
  <2>2. Log = Written /\ NextOffset(dhdr') = BufferStart
        BY <1>6, <2>1 DEF Log, SeqSet, BufferStart
  <2> QED  BY <1>0, <1>2, <1>6, <2>2 DEF HeadersNameLast
<1> QED  BY <1>4, <1>5, <1>6 DEF PartialHeader

\* What the flush in flight has written last is where the written part ends.
LEMMA CallNames ==
    ASSUME ChainInv, LogInv', [Next]_vars, call'.pc = "header"
    PROVE  NamesLast(call'.off, call'.len, Written')
<1>0. /\ TypeOK /\ CallRecord /\ Contiguous /\ HeaderNamesLast
      /\ \A i \in 1..Len(wbuf) : wbuf[i] \in Entry
      /\ Len(wbuf) \in Nat
      BY BufferFacts DEF ChainInv, LogInv, IInv, Placement
<1>1. CASE FlushRecords
  <2>1. PICK n \in 1..Len(wbuf) :
           /\ file' = Overwrite(file, {wbuf[i] : i \in 1..n})
           /\ call' = [pc |-> "header", todo |-> call.todo, rec |-> call.rec,
                       target |-> call.target, off |-> wbuf[n].off,
                       len |-> IF n = Len(wbuf) THEN hdr.len
                               ELSE wbuf[n + 1].off - wbuf[n].off]
        BY <1>1 DEF FlushRecords
  <2>2. /\ wbuf[n] \in file' /\ wbuf[n] \in Entry /\ n \in Nat
        BY <1>0, <2>1 DEF Overwrite
  <2>3. /\ wbuf[n].off \in Nat /\ wbuf[n].len \in Nat
        /\ End(wbuf[n]) = wbuf[n].off + wbuf[n].len
        BY <2>2, RecordFacts DEF End
  <2>4. call'.off = wbuf[n].off /\ call'.len = wbuf[n].len
    <3>1. CASE n = Len(wbuf)
      <4>1. Len(wbuf) > 0
            BY <1>0, <2>1, <3>1
      <4> QED  BY <1>0, <2>1, <3>1, <4>1 DEF HeaderNamesLast
    <3>2. CASE n # Len(wbuf)
      <4>1. n + 1 \in 1..Len(wbuf)
            BY <1>0, <2>1, <3>2
      <4>2. wbuf[n + 1].off = End(wbuf[n])
            BY <1>0, <4>1 DEF Contiguous
      <4> QED  BY <2>1, <2>3, <3>2, <4>2
    <3> QED  BY <3>1, <3>2
  <2>5. call'.off + call'.len = BufferStart'
        BY DEF LogInv, CallSound
  <2>6. End(wbuf[n]) <= BufferStart'
        BY <2>3, <2>4, <2>5
  <2>7. wbuf[n] \in Written'
        BY <2>2, <2>6 DEF Written, End
  <2> QED  BY <2>4, <2>7 DEF NamesLast
<1>2. CASE UNCHANGED vars
      BY <1>2 DEF ChainInv, HeadersNameLast, vars, Written, BufferStart, NamesLast, End, NextOffset
<1>3. ASSUME NEW r \in Requests, WriteRecord(r) \/ WriteRecordFull(r)
      PROVE  FALSE
      BY <1>3 DEF WriteRecord, WriteRecordFull, AppendRecord, Flushing, Idle
<1>4. ASSUME NEW target \in 1..hdr.next, FlushUpTo(target)
      PROVE  FALSE
      BY <1>4 DEF FlushUpTo, Flushing, Idle
<1>5. CASE FlushHeader
      BY <1>0, <1>5 DEF FlushHeader, AppendRecord, Flushing, Idle, TypeOK, Call
<1>6. CASE FlushCheckpoint \/ IoError \/ Restart
      BY <1>6 DEF FlushCheckpoint, IoError, Restart, Idle
<1> QED  BY <1>1, <1>2, <1>3, <1>4, <1>5, <1>6 DEF Next, FlushNothing

LEMMA ChainStep ==
    ASSUME ChainInv, [Next]_vars
    PROVE  ChainInv'
<1>0. /\ LogInv /\ Chained /\ HeadersNameLast /\ IInv' /\ LogInv'
      /\ file' \in PartialWrite /\ dhdr' \in PartialHeader
      /\ hdr \in Header /\ HdrSize \in Nat /\ Log \subseteq Entry
      BY LogStepInv, StepWrites, LogFacts, WalAssumption DEF ChainInv, LogInv, IInv, TypeOK
<1>1. NamesLast(dhdr'.off, dhdr'.len, Durable')
      BY <1>0, HeaderNames
<1>2. call'.pc = "header" => NamesLast(call'.off, call'.len, Written')
      BY <1>0, CallNames
<1>3. CASE LogKept
  <2>1. Chained'
        BY <1>0, <1>3 DEF LogKept, Chained, End
  <2>2. NamesLast(hdr'.off, hdr'.len, Log')
        BY <1>0, <1>3 DEF LogKept, HeadersNameLast
  <2> QED  BY <1>0, <1>1, <1>2, <2>1, <2>2 DEF ChainInv, HeadersNameLast, NamesLast
<1>4. ASSUME NEW e \in Entry, Appended(e)
      PROVE  ChainInv'
  <2>1. /\ Log' = Log \cup {e} /\ e.off = NextOffset(hdr) /\ e.prev = hdr.len
        /\ hdr'.off = e.off /\ hdr'.len = e.len
        BY <1>4 DEF Appended
  <2>2. \/ Log = {} /\ hdr.off = HdrSize /\ hdr.len = 0
        \/ \E p \in Log : p.off = hdr.off /\ p.len = hdr.len
        BY <1>0 DEF HeadersNameLast, NamesLast
  <2>3. CASE Log = {} /\ hdr.off = HdrSize /\ hdr.len = 0
    <3>1. e.off = HdrSize /\ e.prev = 0
          BY <1>0, <2>1, <2>3 DEF NextOffset
    <3> QED  BY <1>0, <1>1, <1>2, <2>1, <2>3, <3>1 DEF ChainInv, Chained, HeadersNameLast, NamesLast, End
  <2>4. CASE \E p \in Log : p.off = hdr.off /\ p.len = hdr.len
    <3>1. PICK p \in Log : p.off = hdr.off /\ p.len = hdr.len
          BY <2>4
    <3>2. End(p) = e.off /\ e.prev = p.len /\ HdrSize <= e.off
          BY <1>0, <2>1, <3>1, RecordFacts DEF NextOffset, End, Chained
    <3>3. Chained'
          BY <1>0, <2>1, <3>1, <3>2 DEF Chained, End
    <3>4. NamesLast(hdr'.off, hdr'.len, Log')
          BY <2>1 DEF NamesLast
    <3> QED  BY <1>0, <1>1, <1>2, <3>3, <3>4 DEF ChainInv, HeadersNameLast, NamesLast
  <2> QED  BY <2>2, <2>3, <2>4
<1>5. CASE Restart /\ Log' = Durable'
  <2>1. hdr' = dhdr'
        BY <1>5 DEF Restart
  <2>2. (Durable' = Durable \/ Durable' = Written) /\ Durable' \subseteq Log /\ Durable \subseteq Written
        BY <1>0, DurableStep, LogFacts
  <2>3. ASSUME NEW e \in Durable', NEW p \in Log, End(p) = e.off
        PROVE  p \in Durable'
    <3>1. e \in Written /\ End(p) <= e.off
          BY <1>0, <2>2, <2>3, RecordFacts
    <3> QED  BY <1>0, <2>2, <3>1, PrefixClosed
  <2>4. Chained'
        BY <1>0, <1>5, <2>2, <2>3 DEF Chained, End
  <2> QED  BY <1>0, <1>1, <1>2, <1>5, <2>1, <2>4 DEF ChainInv, HeadersNameLast, NamesLast
<1> QED  BY <1>0, <1>3, <1>4, <1>5, LogStepInv

LEMMA ChainInit == Init => ChainInv
<1> SUFFICES ASSUME Init PROVE ChainInv
    OBVIOUS
<1>1. LogInv
      BY LogInit
<1>2. /\ hdr = [chk |-> 0, off |-> HdrSize, len |-> 0, next |-> 1] /\ dhdr = hdr
      /\ wbuf = <<>> /\ file = {} /\ call.pc = "idle" /\ DOMAIN wbuf = {}
      BY DEF Init, Idle
<1>3. Log = {} /\ Durable = {}
      BY <1>2 DEF Log, Written, SeqSet, Durable
<1> QED  BY <1>1, <1>2, <1>3 DEF ChainInv, Chained, HeadersNameLast, NamesLast

THEOREM ChainInvariance == Spec => []ChainInv
<1>1. ChainInv /\ [Next]_vars => ChainInv'
      BY ChainStep
<1> QED  BY <1>1, ChainInit, PTL DEF Spec
-----------------------------------------------------------------------------
(* The recursion equations of the readers. *)

\* The elements of F that can be reached from S by the links L.
Closed(C, L) == \A x \in C : \A y : <<x, y>> \in L => y \in C
Reach(F, L, S) == {e \in F : \A C \in SUBSET F : S \subseteq C /\ Closed(C, L) => e \in C}

\* Reaching is taking one link after another: what the recursion does.
LEMMA ReachStep ==
    ASSUME NEW F, NEW L \in SUBSET (F \X F), NEW S \in SUBSET F
    PROVE  /\ S \subseteq Reach(F, L, S)
           /\ \A x \in S : Reach(F, L, {y \in F : <<x, y>> \in L}) \subseteq Reach(F, L, S)
           /\ \A e \in Reach(F, L, S) :
                 \/ e \in S
                 \/ \E x \in S : e \in Reach(F, L, {y \in F : <<x, y>> \in L})
<1> DEFINE Succ(x) == {y \in F : <<x, y>> \in L}
<1>1. S \subseteq Reach(F, L, S)
      BY DEF Reach
<1>2. ASSUME NEW x \in S, NEW e \in Reach(F, L, Succ(x))
      PROVE  e \in Reach(F, L, S)
  <2> SUFFICES ASSUME NEW C \in SUBSET F, S \subseteq C, Closed(C, L)
               PROVE  e \in C
      BY <1>2 DEF Reach
  <2>1. Succ(x) \subseteq C
        BY DEF Closed
  <2> QED  BY <1>2, <2>1 DEF Reach
<1>3. ASSUME NEW e \in Reach(F, L, S), e \notin S
      PROVE  \E x \in S : e \in Reach(F, L, Succ(x))
  <2> DEFINE C == S \cup {f \in F : \E x \in S : f \in Reach(F, L, Succ(x))}
  <2>1. C \in SUBSET F /\ S \subseteq C
        OBVIOUS
  <2>2. ASSUME NEW f \in C, NEW g, <<f, g>> \in L
        PROVE  g \in C
    <3>1. g \in F
          BY <2>2
    <3>2. CASE f \in S
      <4>1. g \in Succ(f)
            BY <2>2, <3>1
      <4>2. Succ(f) \subseteq Reach(F, L, Succ(f))
            BY DEF Reach
      <4> QED  BY <3>1, <3>2, <4>1, <4>2
    <3>3. CASE f \notin S
      <4>1. PICK x \in S : f \in Reach(F, L, Succ(x))
            BY <2>2, <3>3
      <4>2. g \in Reach(F, L, Succ(x))
            BY <2>2, <3>1, <4>1 DEF Reach, Closed
      <4> QED  BY <3>1, <4>1, <4>2
    <3> QED  BY <3>2, <3>3
  <2>3. Closed(C, L)
        BY <2>2 DEF Closed
  <2>4. e \in C
        BY <1>3, <2>1, <2>3 DEF Reach
  <2> QED  BY <1>3, <2>4
<1> QED  BY <1>1, <1>2, <1>3

At(o) == {f \in file : f.off = o}
BackStops(e) == e.prev = 0 \/ e.off < HdrSize + e.prev
BackLinks == {p \in file \X file : ~BackStops(p[1]) /\ p[2].off = p[1].off - p[1].prev}
ScanLinks == {p \in file \X file : p[2].off = End(p[1])}

LEMMA BackEquation ==
    ASSUME file \subseteq Entry, HdrSize \in Nat
    PROVE  BackFrom = [o \in Nat |->
               UNION {{e} \cup IF e.prev = 0 \/ o < HdrSize + e.prev
                               THEN {} ELSE BackFrom[o - e.prev]
                      : e \in {f \in file : f.off = o}}]
<1> DEFINE g == [o \in Nat |-> Reach(file, BackLinks, At(o))]
           Rest(o, e) == IF e.prev = 0 \/ o < HdrSize + e.prev THEN {} ELSE g[o - e.prev]
<1>1. ASSUME NEW o \in Nat
      PROVE  g[o] = UNION {{e} \cup Rest(o, e) : e \in {f \in file : f.off = o}}
  <2>1. BackLinks \in SUBSET (file \X file) /\ At(o) \in SUBSET file
        BY DEF BackLinks, At
  <2>2. ASSUME NEW e \in At(o)
        PROVE  /\ {y \in file : <<e, y>> \in BackLinks} =
                     IF e.prev = 0 \/ o < HdrSize + e.prev THEN {} ELSE At(o - e.prev)
               /\ ~(e.prev = 0 \/ o < HdrSize + e.prev) => o - e.prev \in Nat
    <3>1. e \in file /\ e.off = o /\ e.prev \in Nat
          BY RecordFacts DEF At
    <3>2. \A y \in file : <<e, y>> \in BackLinks <=> ~BackStops(e) /\ y.off = o - e.prev
          BY <3>1 DEF BackLinks
    <3> QED  BY <3>1, <3>2 DEF At, BackStops
  <2>3. Reach(file, BackLinks, {}) = {}
    <3>1. Closed({}, BackLinks)
          BY DEF Closed
    <3> QED  BY <3>1 DEF Reach
  <2>4. ASSUME NEW e \in At(o)
        PROVE  Reach(file, BackLinks, {y \in file : <<e, y>> \in BackLinks}) = Rest(o, e)
        BY <2>2, <2>3
  <2>5. LET R == Reach(file, BackLinks, At(o))
         IN  /\ At(o) \subseteq R
             /\ \A e \in At(o) : Reach(file, BackLinks, {y \in file : <<e, y>> \in BackLinks}) \subseteq R
             /\ \A f \in R :
                   \/ f \in At(o)
                   \/ \E e \in At(o) : f \in Reach(file, BackLinks, {y \in file : <<e, y>> \in BackLinks})
        BY <2>1, ReachStep
  <2>6. g[o] = Reach(file, BackLinks, At(o))
        OBVIOUS
  <2> HIDE DEF g
  <2>7. /\ At(o) \subseteq g[o]
        /\ \A e \in At(o) : Rest(o, e) \subseteq g[o]
        /\ \A f \in g[o] : f \in At(o) \/ \E e \in At(o) : f \in Rest(o, e)
        BY <2>4, <2>5, <2>6
  <2> QED  BY <2>7 DEF At
<1>2. g = [o \in Nat |-> UNION {{e} \cup Rest(o, e) : e \in {f \in file : f.off = o}}]
  <2> DEFINE h == [o \in Nat |-> UNION {{e} \cup Rest(o, e) : e \in {f \in file : f.off = o}}]
  <2>1. \A o \in Nat : g[o] = h[o]
        BY <1>1
  <2>2. g = [o \in Nat |-> g[o]] /\ h = [o \in Nat |-> h[o]]
        OBVIOUS
  <2> QED  BY <2>1, <2>2
<1> HIDE DEF g
<1> QED  BY <1>2, Zenon DEF BackFrom

LEMMA ScanEquation ==
    ASSUME file \subseteq Entry
    PROVE  ScanFrom = [o \in Nat |->
               UNION {{e} \cup ScanFrom[End(e)] : e \in {f \in file : f.off = o}}]
<1> DEFINE g == [o \in Nat |-> Reach(file, ScanLinks, At(o))]
<1>1. ASSUME NEW o \in Nat
      PROVE  g[o] = UNION {{e} \cup g[End(e)] : e \in {f \in file : f.off = o}}
  <2>1. ScanLinks \in SUBSET (file \X file) /\ At(o) \in SUBSET file
        BY DEF ScanLinks, At
  <2>2. ASSUME NEW e \in At(o)
        PROVE  Reach(file, ScanLinks, {y \in file : <<e, y>> \in ScanLinks}) = g[End(e)]
    <3>1. e \in file /\ End(e) \in Nat
          BY RecordFacts DEF At
    <3>2. {y \in file : <<e, y>> \in ScanLinks} = At(End(e))
          BY <3>1 DEF ScanLinks, At
    <3> QED  BY <3>1, <3>2
  <2>3. LET R == Reach(file, ScanLinks, At(o))
         IN  /\ At(o) \subseteq R
             /\ \A e \in At(o) : Reach(file, ScanLinks, {y \in file : <<e, y>> \in ScanLinks}) \subseteq R
             /\ \A f \in R :
                   \/ f \in At(o)
                   \/ \E e \in At(o) : f \in Reach(file, ScanLinks, {y \in file : <<e, y>> \in ScanLinks})
        BY <2>1, ReachStep
  <2>4. g[o] = Reach(file, ScanLinks, At(o))
        OBVIOUS
  <2> HIDE DEF g
  <2>5. /\ At(o) \subseteq g[o]
        /\ \A e \in At(o) : g[End(e)] \subseteq g[o]
        /\ \A f \in g[o] : f \in At(o) \/ \E e \in At(o) : f \in g[End(e)]
        BY <2>2, <2>3, <2>4
  <2> QED  BY <2>5 DEF At
<1>2. g = [o \in Nat |-> UNION {{e} \cup g[End(e)] : e \in {f \in file : f.off = o}}]
  <2> DEFINE h == [o \in Nat |-> UNION {{e} \cup g[End(e)] : e \in {f \in file : f.off = o}}]
  <2>1. \A o \in Nat : g[o] = h[o]
        BY <1>1
  <2>2. g = [o \in Nat |-> g[o]] /\ h = [o \in Nat |-> h[o]]
        OBVIOUS
  <2> QED  BY <2>1, <2>2
<1> HIDE DEF g
<1> QED  BY <1>2, Zenon DEF ScanFrom
-----------------------------------------------------------------------------
\* The durable records: no other record of the file starts where one of them
\* does, they do not overlap, and each but the first follows another.
LEMMA DurableChain ==
    ASSUME ChainInv
    PROVE  /\ Durable \subseteq file /\ file \subseteq Entry /\ HdrSize \in Nat
           /\ \A e \in Durable : At(e.off) = {e}
           /\ \A e, f \in Durable : e = f \/ End(e) <= f.off \/ End(f) <= e.off
           /\ \A e \in Durable :
                 /\ HdrSize <= e.off
                 /\ \/ e.off = HdrSize /\ e.prev = 0
                    \/ \E p \in Durable : End(p) = e.off /\ e.prev = p.len
<1>0. /\ LogInv /\ LogOrdered /\ NoStraddle /\ Chained /\ file \subseteq Entry /\ HdrSize \in Nat
      /\ NextOffset(dhdr) \in Nat /\ Durable \subseteq file
      /\ Durable \subseteq Written /\ Written \subseteq Log
      BY BufferStartFacts, LogFacts, WalAssumption DEF ChainInv, LogInv, IInv, TypeOK, Durable
<1>1. \A e, f \in Durable : e = f \/ End(e) <= f.off \/ End(f) <= e.off
      BY <1>0 DEF LogOrdered, Before
<1>2. ASSUME NEW e \in Durable
      PROVE  At(e.off) = {e}
  <2>1. ASSUME NEW f \in file, f.off = e.off
        PROVE  f = e
    <3>1. e \in Entry /\ f \in Entry /\ End(e) <= NextOffset(dhdr)
          BY <1>0 DEF Durable
    <3>2. End(f) <= NextOffset(dhdr)
          BY <1>0, <2>1, <3>1, RecordFacts DEF NoStraddle
    <3>3. f \in Durable
          BY <3>2 DEF Durable
    <3> QED  BY <1>1, <2>1, <3>1, <3>3, RecordFacts
  <2> QED  BY <1>0, <2>1 DEF At
<1>3. ASSUME NEW e \in Durable, NEW p \in Log, End(p) = e.off
      PROVE  p \in Durable
  <2>1. e \in Written /\ End(p) <= e.off
        BY <1>0, <1>3, RecordFacts
  <2> QED  BY <1>0, <2>1, PrefixClosed
<1>4. ASSUME NEW e \in Durable
      PROVE  /\ HdrSize <= e.off
             /\ \/ e.off = HdrSize /\ e.prev = 0
                \/ \E p \in Durable : End(p) = e.off /\ e.prev = p.len
      BY <1>0, <1>3 DEF Chained
<1> QED  BY <1>0, <1>1, <1>2, <1>4

\* The walk back from a durable record returns it and all before it.
LEMMA WalkBackFrom ==
    ASSUME ChainInv
    PROVE  \A e \in Durable : BackFrom[e.off] = {f \in Durable : f.off <= e.off}
<1> DEFINE Upto(o) == {f \in Durable : f.off <= o}
           S == {n \in Nat : \E e \in Durable : e.off = n /\ BackFrom[n] # Upto(n)}
<1>0. /\ Durable \subseteq file /\ file \subseteq Entry /\ HdrSize \in Nat
      /\ \A e \in Durable : At(e.off) = {e}
      /\ \A e, f \in Durable : e = f \/ End(e) <= f.off \/ End(f) <= e.off
      /\ \A e \in Durable :
            /\ HdrSize <= e.off
            /\ \/ e.off = HdrSize /\ e.prev = 0
               \/ \E p \in Durable : End(p) = e.off /\ e.prev = p.len
      BY DurableChain
<1>1. ASSUME NEW e \in Durable,
             \A p \in Durable : p.off < e.off => BackFrom[p.off] = Upto(p.off)
      PROVE  BackFrom[e.off] = Upto(e.off)
  <2>1. e \in Entry /\ e.off \in Nat /\ e.prev \in Nat
        BY <1>0, RecordFacts
  <2>2. BackFrom[e.off] = {e} \cup IF e.prev = 0 \/ e.off < HdrSize + e.prev
                                   THEN {} ELSE BackFrom[e.off - e.prev]
    <3>1. {f \in file : f.off = e.off} = {e}
          BY <1>0 DEF At
    <3>2. BackFrom[e.off] =
             UNION {{d} \cup IF d.prev = 0 \/ e.off < HdrSize + d.prev
                             THEN {} ELSE BackFrom[e.off - d.prev]
                    : d \in {f \in file : f.off = e.off}}
      <4>1. BackFrom = [o \in Nat |->
               UNION {{d} \cup IF d.prev = 0 \/ o < HdrSize + d.prev
                               THEN {} ELSE BackFrom[o - d.prev]
                      : d \in {f \in file : f.off = o}}]
            BY <1>0, BackEquation
      <4> DEFINE G(o) == UNION {{d} \cup IF d.prev = 0 \/ o < HdrSize + d.prev
                               THEN {} ELSE BackFrom[o - d.prev]
                      : d \in {f \in file : f.off = o}}
      <4>2. BackFrom = [o \in Nat |-> G(o)]
            BY <4>1
      <4> HIDE DEF G
      <4>3. BackFrom[e.off] = G(e.off)
            BY <2>1, <4>2
      <4> QED  BY <4>3 DEF G
    <3> QED  BY <3>1, <3>2
  <2>3. CASE e.off = HdrSize /\ e.prev = 0
    <3>1. ASSUME NEW f \in Durable, f.off <= e.off
          PROVE  f = e
          BY <1>0, <2>1, <2>3, <3>1, RecordFacts
    <3> QED  BY <2>1, <2>2, <2>3, <3>1
  <2>4. ASSUME NEW p \in Durable, End(p) = e.off, e.prev = p.len
        PROVE  BackFrom[e.off] = Upto(e.off)
    <3>1. /\ p \in Entry /\ p.off \in Nat /\ p.len \in Nat /\ p.len > 0 /\ HdrSize <= p.off
          /\ e.off = p.off + p.len
          BY <1>0, <2>4, RecordFacts DEF End
    <3>2. e.prev # 0 /\ ~(e.off < HdrSize + e.prev) /\ e.off - e.prev = p.off /\ p.off < e.off
          BY <1>0, <2>4, <3>1
    <3>3. BackFrom[e.off] = {e} \cup Upto(p.off)
          BY <1>1, <2>2, <3>2
    <3>4. ASSUME NEW f \in Durable, f.off <= e.off, f # e
          PROVE  f.off <= p.off
      <4>1. f \in Entry /\ End(f) <= e.off
            BY <1>0, <2>1, <3>4, RecordFacts
      <4>2. ~(End(p) <= f.off)
            BY <2>1, <2>4, <4>1, RecordFacts
      <4> QED  BY <1>0, <3>1, <4>1, <4>2, RecordFacts
    <3>5. \A f \in Durable : f.off <= p.off => f.off <= e.off
          BY <1>0, <2>1, <3>1, <3>2, RecordFacts
    <3> QED  BY <2>1, <3>3, <3>4, <3>5
  <2> QED  BY <1>0, <2>3, <2>4
<1>2. S = {}
  <2> SUFFICES ASSUME S # {} PROVE FALSE
      OBVIOUS
  <2>1. PICK n \in S : \A k \in S : n <= k
        BY LeastNatural
  <2>2. PICK e \in Durable : e.off = n /\ BackFrom[n] # Upto(n)
        BY <2>1
  <2>3. ASSUME NEW p \in Durable, p.off < e.off
        PROVE  BackFrom[p.off] = Upto(p.off)
    <3>1. p.off \in Nat /\ p.off \notin S
          BY <1>0, <2>1, <2>2, <2>3, RecordFacts
    <3> QED  BY <3>1
  <2> HIDE DEF Upto
  <2> QED  BY <1>1, <2>2, <2>3
<1>3. \A e \in Durable : e.off \in Nat
      BY <1>0, RecordFacts
<1> QED  BY <1>2, <1>3

\* The scan from the start meets every durable record.
LEMMA ScanMeets ==
    ASSUME ChainInv
    PROVE  Durable \subseteq Scan
<1> DEFINE S == {n \in Nat : \E e \in Durable : e.off = n /\ ~(ScanFrom[n] \subseteq Scan)}
<1>0. /\ Durable \subseteq file /\ file \subseteq Entry /\ HdrSize \in Nat
      /\ \A e \in Durable :
            /\ HdrSize <= e.off
            /\ \/ e.off = HdrSize /\ e.prev = 0
               \/ \E p \in Durable : End(p) = e.off /\ e.prev = p.len
      BY DurableChain
<1>1. ASSUME NEW e \in Durable
      PROVE  e.off \in Nat /\ e \in ScanFrom[e.off] /\ ScanFrom[End(e)] \subseteq ScanFrom[e.off]
  <2> DEFINE G(o) == UNION {{d} \cup ScanFrom[End(d)] : d \in {f \in file : f.off = o}}
  <2>1. ScanFrom = [o \in Nat |-> G(o)]
        BY <1>0, ScanEquation
  <2>2. e \in file /\ e.off \in Nat
        BY <1>0, RecordFacts
  <2> HIDE DEF G
  <2>3. ScanFrom[e.off] = G(e.off)
        BY <2>1, <2>2
  <2>4. {e} \cup ScanFrom[End(e)] \subseteq G(e.off)
        BY <2>2 DEF G
  <2> QED  BY <2>2, <2>3, <2>4
<1>2. S = {}
  <2> SUFFICES ASSUME S # {} PROVE FALSE
      OBVIOUS
  <2>1. PICK n \in S : \A k \in S : n <= k
        BY LeastNatural
  <2>2. PICK e \in Durable : e.off = n /\ ~(ScanFrom[n] \subseteq Scan)
        BY <2>1
  <2>3. e.off # HdrSize
        BY <2>2 DEF Scan
  <2>4. PICK p \in Durable : End(p) = e.off
        BY <1>0, <2>3
  <2>5. p.off < e.off /\ p.off \in Nat
        BY <1>0, <2>4, RecordFacts
  <2>6. p.off \notin S
        BY <2>1, <2>2, <2>5
  <2>7. ScanFrom[p.off] \subseteq Scan
        BY <2>5, <2>6
  <2> QED  BY <1>1, <2>2, <2>4, <2>7
<1> QED  BY <1>1, <1>2

\* After any crash, failed write or torn flush, the walk back from the header
\* on disk returns exactly the durable records, and the scan all of them.
THEOREM ReadersAgreeHolds == Spec => []ReadersAgree
<1>1. ASSUME ChainInv
      PROVE  WalkBack(dhdr) = Durable
  <2>0. /\ NamesLast(dhdr.off, dhdr.len, Durable)
        /\ Durable \subseteq Entry /\ dhdr \in Header
        BY <1>1 DEF ChainInv, HeadersNameLast, LogInv, IInv, TypeOK, Durable
  <2>1. CASE Durable = {} /\ dhdr.len = 0
        BY <2>1 DEF WalkBack
  <2>2. ASSUME NEW e \in Durable, e.off = dhdr.off, e.len = dhdr.len
        PROVE  WalkBack(dhdr) = Durable
    <3>1. e \in Entry /\ e.len > 0 /\ End(e) = NextOffset(dhdr)
          BY <2>0, <2>2, RecordFacts DEF End, NextOffset
    <3>2. ASSUME NEW f \in Durable
          PROVE  f.off <= e.off
      <4>1. f \in Entry /\ End(f) <= End(e) /\ (f = e \/ End(e) <= f.off \/ End(f) <= e.off)
            BY <1>1, <2>0, <3>1, DurableChain DEF Durable
      <4> QED  BY <3>1, <4>1, RecordFacts
    <3>3. WalkBack(dhdr) = BackFrom[e.off]
          BY <2>0, <2>2, <3>1, RecordFacts DEF WalkBack
    <3> QED  BY <1>1, <3>2, <3>3, WalkBackFrom
  <2> QED  BY <2>0, <2>1, <2>2 DEF NamesLast
<1>2. ChainInv => ReadersAgree
      BY <1>1, ScanMeets DEF ReadersAgree
<1> QED  BY <1>2, ChainInvariance, PTL
=============================================================================
