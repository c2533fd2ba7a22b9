SPECIFICATION Spec
CONSTANTS
    Readers = {r1, r2}
    Pages = {p, q, s}
    Capacity = 2
    FlushAlone = TRUE
    MaxLsn = 4
INVARIANT NoChangeLost
SYMMETRY Symmetry
CHECK_DEADLOCK FALSE
