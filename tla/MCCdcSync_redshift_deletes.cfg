SPECIFICATION Spec
CONSTANTS
    k1 = k1
    k2 = k2
    Keys = {k1, k2}
    Modes = {"log"}
    Dialect = "sql"
    FullRefresh = {FALSE}
    Faults = {}
    Blank = Blank
    Unset = Unset
    MaxCid <- MCMaxCid
    MaxFaults = 0
INVARIANTS
    OnlyRowsInserted
