SPECIFICATION Spec
CONSTANTS
    r1 = r1  r2 = r2
    k1 = k1  k2 = k2
    key = key  name = name  loaded_at = loaded_at
    Runs = {r1, r2}
    Keys = {k1, k2}
    Columns = {key, name, loaded_at}
    KeyColumn = key
    Schemas <- MCSchemas
    Contracts <- MCContracts
    Modes <- MCModes
    Copies = 2
    Absent = Absent
    MaxRuns = 3
SYMMETRY MCSymmetry
INVARIANTS
    LoadTypeOK
    LoadsFit
PROPERTIES
    CommitDelivers
