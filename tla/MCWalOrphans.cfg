SPECIFICATION Spec
CONSTANTS
    t1 = t1
    auto = auto
    AutoTxn = auto
    HdrSize = 1
    MaxFrames = 2
    Txns <- MCTxns
    Requests <- MCRequests
    MaxLsn = 3
    MaxCrashes = 1
    MaxIoErrors = 0
INVARIANTS WalkBackMeetsScan
