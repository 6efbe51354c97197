SPECIFICATION MCSpec
CONSTANTS
    s1 = s1
    s2 = s2
    s3 = s3
    Streams = {s1, s2, s3}
    Requests <- MCSafetyRequests
    Workers = 2
    ChunkSize = 2
    QueueCap = 2
    ReadMayFail = {s1, s2}
    MaxRows = 3
INVARIANTS
    IterTypeOK
    EveryRowYielded
    NothingLeftBehind
    ErrorsAreTheFailures
PROPERTIES
    YieldsInOrder
