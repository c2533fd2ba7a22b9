SPECIFICATION Spec
CONSTANTS
    ORDER = 5
    Absent = "absent"
    Keys <- MCKeys
    Records <- MCRecords
    KeyCount = 6
    Deletable <- MCKeys
    MaxPages = 3
    MaxReopens = 0
INVARIANT NeverPageOverflow
