SPECIFICATION Spec
CONSTANTS
    p1 = p1
    p2 = p2
    Processes <- MC_Processes
    Urls <- MC_Urls
    MaxSaves = 4
INVARIANTS
    TypeOK
    SavesReplaceOlderRows
    RowsAreReal
PROPERTIES
    ImplementsStore
\* No more items to save.
CHECK_DEADLOCK FALSE
