SPECIFICATION TableSpec
CONSTANTS
    TableNames = {n1, n2, n3}
    SearchWidth = 2
    MaxTables = 2
CHECK_DEADLOCK FALSE
INVARIANT ReferencesShown
