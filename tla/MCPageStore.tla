---------------------------- MODULE MCPageStore ----------------------------
EXTENDS PageStore

Symmetry == Permutations(Readers) \cup Permutations(Pages)

\* Lookups beside each other, in every order but the one that loses changes.
ReadsAfterWritesSpec == Init /\ [][Next /\ ReadsAfterWrites]_vars
=============================================================================
