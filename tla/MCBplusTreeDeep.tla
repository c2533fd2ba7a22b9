-------------------------- MODULE MCBplusTreeDeep --------------------------
(***************************************************************************)
(* Trees of three levels, which no search from an empty tree reaches: the   *)
(* insertions of `load' come first, in their order, then the calls a run    *)
(* allows, in any order.                                                    *)
(***************************************************************************)
EXTENDS BplusTree

CONSTANTS
    Loads,     \* what may be inserted first
    Calls,     \* bound: insertions and deletions after that
    Reinsert   \* the keys callers insert then

VARIABLES
    load,  \* the keys inserted first, one of Loads
    done   \* how many of load and Calls have begun

MCKeys == 1..26
MCRecords == [k \in MCKeys |-> {"record" \o ToString(k)}]
NoKeys == {}

\* Two internal pages, of 3 cells and of 1; every leaf but the last has 3 cells.
BaseLoad == [i \in 1..17 |-> i]
\* Of 3 cells and of 3.
EvenLoad == [i \in 1..23 |-> i]
\* Of 3 cells and of 4.
RightLoad == [i \in 1..26 |-> i]
\* Of 4 cells and of 1.
LeftLoad == [i \in 1..17 |-> i + 2] \o <<1, 2>>

\* The trees each run starts from.
BorrowAndMerge == {BaseLoad, LeftLoad}
FullSiblings == {EvenLoad, RightLoad}

DeepInit == Init /\ load \in Loads /\ done = 0

DeepNext ==
    /\ UNCHANGED load
    /\ \/ /\ op = Idle /\ done < Len(load)
          /\ \E record \in Records[load[done + 1]] : Insert(load[done + 1], record)
          /\ done' = done + 1
       \/ /\ op = Idle /\ done >= Len(load) /\ done < Len(load) + Calls
          /\ \/ \E key \in Reinsert : \E record \in Records[key] : Insert(key, record)
             \/ \E key \in Deletable : Delete(key)
          /\ done' = done + 1
       \/ /\ done >= Len(load) /\ \E key \in Keys : Get(key)
          /\ UNCHANGED done
       \/ HandleOverfull /\ UNCHANGED done
       \/ HandleUnderfull /\ UNCHANGED done

DeepSpec == DeepInit /\ [][DeepNext]_<<vars, load, done>>
=============================================================================
