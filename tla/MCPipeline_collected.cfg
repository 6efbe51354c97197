SPECIFICATION Spec
CONSTANTS
    s1 = s1
    s2 = s2
    s3 = s3
    Streams = {s1, s2}
    Requests <- MCAny
    Workers = 2
    ChunkSize = 2
    QueueCap = 1
    ReadMayFail = {s1, s2}
    MaxRows = 2
    Loader = "copy"
    Disposition <- MCAppendReplace
    FullRefresh = {FALSE, TRUE}
    Faults = {"prepare", "commit", "ack", "set", "crash"}
    MaxRuns = 2
INVARIANTS
    ContinueOnStreamError
    FailuresReported
    
