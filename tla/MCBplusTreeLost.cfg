SPECIFICATION DeepSpec
CONSTANTS
    ORDER = 5
    Absent = "absent"
    Keys <- MCKeys
    Records <- MCRecords
    Deletable <- MCKeys
    Reinsert <- NoKeys
    Loads <- FullSiblings
    Calls = 2
    MaxPages = 20
    MaxReopens = 0
PROPERTY KeysStayFound
