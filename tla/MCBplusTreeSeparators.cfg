SPECIFICATION DeepSpec
CONSTANTS
    ORDER = 5
    Absent = "absent"
    Keys <- MCKeys
    Records <- MCRecords
    Reinsert <- NoKeys
    Loads <- BorrowAndMerge
    Calls = 1
    Deletable <- MCKeys
    MaxPages = 20
    MaxReopens = 0
INVARIANT SeparatorsAreFirstKeys
