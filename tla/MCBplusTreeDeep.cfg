SPECIFICATION DeepSpec
CONSTANTS
    ORDER = 5
    Absent = "absent"
    Keys <- MCKeys
    Records <- MCRecords
    Deletable <- MCKeys
    Reinsert <- MCKeys
    Loads <- BorrowAndMerge
    Calls = 2
    MaxPages = 20
    MaxReopens = 0
INVARIANTS SearchFinds WellFormed
