---------------------------- MODULE MCBplusTree ----------------------------
\* Small instances of the index.  Pages of at most 5 cells: the smallest odd
\* ORDER (the code's is 203) whose internal pages split into two with cells.
EXTENDS BplusTree

CONSTANT KeyCount

MCKeys == 1..KeyCount
MCRecords == [k \in MCKeys |-> {"record" \o ToString(k)}]
NoKeys == {}

OneRootSpec == Init /\ [][Next /\ OneRoot]_vars
=============================================================================
