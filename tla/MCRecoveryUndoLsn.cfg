SPECIFICATION Spec
CONSTANTS
    Txns = {t1, t2}
    AutoTxn = t0
    Pages = {p}
    Items = {a, b}
    MaxFrames = 2
    MaxLog = 8
    MaxCrashes = 2
INVARIANT CommittedSurvive
ACTION_CONSTRAINTS FreshIds Isolated QuietTxns QuietPool NoOrphans AutoOnePage OneAtATime LateCheckpoints
SYMMETRY Symmetry
CHECK_DEADLOCK FALSE
