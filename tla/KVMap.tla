------------------------------- MODULE KVMap -------------------------------
(***************************************************************************)
(* What the index promises its callers: a map from keys to records, and    *)
(* answers that tell the truth about it.                                   *)
(***************************************************************************)
EXTENDS Integers, FiniteSets

CONSTANT Absent

VARIABLES
    entries,  \* the map: a set of [key, val]
    reply     \* the last answer: [op, key, out]

mapVars == <<entries, reply>>

KeysIn(m) == {e.key : e \in m}

\* An answer is truthful.  "error" is an internal failure, which promises nothing.
Truthful(r, m) ==
    \/ r.out = "error"
    \/ r.op = "insert" /\ r.out \in {"ok", "exists"} /\ r.key \in KeysIn(m)
    \/ r.op = "insert" /\ r.out = "refused" /\ r.key \notin KeysIn(m)
    \/ r.op = "delete" /\ r.out \in {"ok", "missing"} /\ r.key \notin KeysIn(m)
    \/ r.op = "get" /\ r.out = Absent /\ r.key \notin KeysIn(m)
    \/ r.op = "get" /\ [key |-> r.key, val |-> r.out] \in m

\* The smaller map, with one more key.
AddsOne(m, n) ==
    /\ m \subseteq n
    /\ Cardinality(n) = Cardinality(m) + 1
    /\ Cardinality(KeysIn(n)) = Cardinality(n)

MapInit == entries = {} /\ reply.out = "none"

\* A call adds a key that has no record or takes a key away; no call changes
\* a record or touches another key.
MapNext ==
    /\ UNCHANGED entries \/ AddsOne(entries, entries') \/ AddsOne(entries', entries)
    /\ reply' # reply => Truthful(reply', entries')

MapSpec == MapInit /\ [][MapNext]_mapVars
=============================================================================
