SPECIFICATION Spec
CONSTANTS
    Readers = {r1}
    Pages = {p, q, s}
    Capacity = 2
    FlushAlone = FALSE
    MaxLsn = 4
INVARIANT DirtyTableCovers
SYMMETRY Symmetry
CHECK_DEADLOCK FALSE
