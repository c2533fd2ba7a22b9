SPECIFICATION Spec
CONSTANTS
    Txns = {t1}
    AutoTxn = t0
    Pages = {p}
    Items = {a, b}
    MaxFrames = 2
    MaxLog = 6
    MaxCrashes = 1
INVARIANT CommittedSurvive
ACTION_CONSTRAINTS Isolated QuietTxns QuietPool NoOrphans AutoOnePage
SYMMETRY Symmetry
CHECK_DEADLOCK FALSE
