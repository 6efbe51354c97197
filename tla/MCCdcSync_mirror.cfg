SPECIFICATION FairSpec
CONSTANTS
    k1 = k1
    k2 = k2
    Keys = {k1, k2}
    Modes = {"log", "shuttle", "none"}
    Dialect = "mssql"
    FullRefresh = {FALSE, TRUE}
    Faults = {"read", "commit", "ack", "set", "crash"}
    Blank = Blank
    Unset = Unset
    MaxCid <- MCMaxCid
    MaxFaults = 2
INVARIANTS
    CdcTypeOK
    NoChangeSkipped
    NoDeleteSkipped
PROPERTIES
    RowsOnlyMoveForward
    CidNeverRegresses
    Converges
