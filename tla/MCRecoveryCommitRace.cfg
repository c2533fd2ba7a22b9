SPECIFICATION Spec
CONSTANTS
    Txns = {t1, t2}
    AutoTxn = t0
    Pages = {p, q}
    Items = {a, b}
    MaxFrames = 2
    MaxLog = 4
    MaxCrashes = 1
INVARIANT CommittedSurvive
ACTION_CONSTRAINTS FreshIds Isolated QuietPool NoOrphans AutoOnePage
SYMMETRY Symmetry
CHECK_DEADLOCK FALSE
