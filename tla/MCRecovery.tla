----------------------------- MODULE MCRecovery -----------------------------
(***************************************************************************)
(* The instances of Recovery for the runs.  Their action constraints are    *)
(* the parts of Orderly; one configuration for each part leaves it out and  *)
(* shows what recovery then does not survive.                               *)
(***************************************************************************)
EXTENDS Recovery

Symmetry == Permutations(Txns) \cup Permutations(Pages) \cup Permutations(Items)

\* One transaction at a time, which changes an item once, and commits or is cut off.
OneAtATime ==
    /\ Cardinality(Active') <= 1
    /\ \A t \in Txns : /\ txn'[t] # "aborted"
                       /\ txn'[t] = "active" => did[t] \subseteq did'[t]

\* No lookup evicts, and before the first crash there are neither checkpoints nor
\* calls outside transactions.
LateCheckpoints ==
    /\ leaving' = {}
    /\ crashes' # 1 => ckpt' = Quiet /\ \A r \in NewRecords : r.type # "Checkpoint" => r.txn # AutoTxn

\* The pages that records change.
Touches(l) == {l[n].page : n \in {m \in DOMAIN l : l[m].type \in Changes}}

\* One checkpoint, and one lookup that evicts, at a time; two pages are changed with one
\* crash and 5 records only, besides those of a recovery.
FewAtATime ==
    /\ Cardinality(leaving') <= 1
    /\ Cardinality({n \in DOMAIN log' : log'[n].type = "Checkpoint"}) <= 1
    /\ Cardinality(Touches(log')) > 1 =>
          crashes' <= 1 /\ (phase = "running" /\ NewRecords # {} => Len(log') <= 5)
=============================================================================
