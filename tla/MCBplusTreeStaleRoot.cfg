SPECIFICATION Spec
CONSTANTS
    ORDER = 5
    Absent = "absent"
    Keys <- MCKeys
    Records <- MCRecords
    KeyCount = 5
    Deletable <- MCKeys
    MaxPages = 4
    MaxReopens = 1
PROPERTY KeysStayFound
