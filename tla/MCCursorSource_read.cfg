SPECIFICATION FairSpec
CONSTANTS
    i1 = i1
    i2 = i2
    Ids = {i1, i2}
    Nullable = {i1}
    Modes <- MCModes
    FullRefresh = {FALSE, TRUE}
    Faults = {"batch", "read", "commit", "ack", "set", "crash"}
    Null = Null
    Unset = Unset
    FetchAttempts = 3
    MaxCursor = 1
    MaxWrites = 3
    MaxFaults = 1
    MaxRuns = 2
INVARIANTS
    CursorTypeOK
    OnlyLateRowsPassedOver
    OnlyTiesRepeated
PROPERTIES
    MarkMovesOn
    RowsArrive
