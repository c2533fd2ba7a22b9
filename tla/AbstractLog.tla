---------------------------- MODULE AbstractLog ----------------------------
(***************************************************************************)
(* What the write-ahead log promises the rest of the engine, with no file,  *)
(* buffer or header in sight: a log is a stable part that only grows and a  *)
(* volatile part that a crash takes away.  Records become stable in LSN     *)
(* order, and a call that forces its record returns Ok only once the record *)
(* is stable.                                                               *)
(***************************************************************************)
EXTENDS Integers

VARIABLES
    stable,    \* the records a crash cannot take away
    volatile,  \* the records appended since, not yet stable
    acked      \* the records some caller was told are stable

logVars == <<stable, volatile, acked>>

\* Sets of volatile records that may become stable together: older ones first.
Prefixes == {P \in SUBSET volatile : \A e \in P, f \in volatile \ P : e.lsn < f.lsn}

LogInit == stable = {} /\ volatile = {} /\ acked = {}

\* Some of the volatile records become stable, a record with a new, larger
\* LSN may be appended behind them, and a caller may be told of stable ones.
Advance ==
    /\ \E P \in Prefixes :
          /\ stable' = stable \cup P
          /\ volatile \ P \subseteq volatile'
          /\ volatile' \cap P = {}
    /\ \A e \in volatile' \ volatile :
          /\ \A f \in stable' \cup (volatile' \ {e}) : f.lsn < e.lsn
    /\ acked \subseteq acked' /\ acked' \subseteq stable'

\* A crash: what was becoming stable may have made it, the rest is gone.
Lose ==
    /\ \E P \in Prefixes : stable' = stable \cup P
    /\ volatile' = {}
    /\ UNCHANGED acked

LogSpec == LogInit /\ [][Advance \/ Lose]_logVars
=============================================================================
