SPECIFICATION FairSpec
CONSTANTS
    s1 = s1
    s2 = s2
    s3 = s3
    Streams = {s1, s2}
    Requests <- MCBoth
    Workers = 2
    ChunkSize = 2
    QueueCap = 1
    ReadMayFail = {s1, s2}
    MaxRows = 2
    Loader = "mssql"
    Disposition <- MCMixed
    FullRefresh = {FALSE, TRUE}
    Faults = {"start", "clash", "prepare", "write", "commit", "ack", "set", "crash"}
    MaxRuns = 2
INVARIANTS
    TypeOK
    NoLoss
    DuplicatesExplained
    CommitsWholeBatch
    ConnectionsReleased
PROPERTIES
    WatermarkNeverRegresses
    ImplementsAtLeastOnce
    RunEnds
