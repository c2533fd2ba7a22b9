SPECIFICATION OneRootSpec
CONSTANTS
    ORDER = 5
    Absent = "absent"
    Keys <- MCKeys
    Records <- MCRecords
    KeyCount = 7
    Deletable <- MCKeys
    MaxPages = 3
    MaxReopens = 1
INVARIANTS TypeOK SearchFinds WellFormed
PROPERTIES ImplementsMap KeysStayFound
