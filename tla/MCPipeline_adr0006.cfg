SPECIFICATION Spec
CONSTANTS
    s1 = s1
    s2 = s2
    s3 = s3
    Streams = {s1, s2}
    Requests <- MCBoth
    Workers = 2
    ChunkSize = 2
    QueueCap = 1
    ReadMayFail = {s1, s2}
    MaxRows = 2
    Loader = "insert"
    Disposition <- MCMixed
    FullRefresh = {FALSE, TRUE}
    Faults = {"write"}
    MaxRuns = 2
INVARIANTS
    ContinueOnStreamError
