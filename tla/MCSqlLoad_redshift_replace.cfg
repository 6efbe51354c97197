SPECIFICATION Spec
CONSTANTS
    r1 = r1  r2 = r2
    k1 = k1  k2 = k2
    key = key  name = name  loaded_at = loaded_at
    Runs = {r1}
    Keys = {k1}
    Columns = {key, name, loaded_at}
    KeyColumn = key
    Schemas <- MCFound
    Contracts <- MCContracts
    Modes <- MCModes
    Copies = 1
    Absent = Absent
    MaxRuns = 2
INVARIANTS
    CommitMakesDurable
