SPECIFICATION Spec
CONSTANTS
    t1 = t1
    auto = auto
    AutoTxn = auto
    HdrSize = 1
    MaxFrames = 2
    Txns <- MCTxns
    Requests <- MCRequests
    MaxLsn = 4
    MaxCrashes = 2
    MaxIoErrors = 1
INVARIANTS TypeOK CommitDurable ReadersAgree HeaderSound ActiveTxnsExact FlushedIsDurable
PROPERTIES StableLog ImplementsLog
