SPECIFICATION FairSpec
CONSTANTS
    a_b = a_b
    adotb = adotb
    gone = gone
    NoStream = NoStream
    Discovered = {a_b, adotb}
    Streams = {a_b, adotb, gone}
    Keys = {1, 2}
    Procs = {1, 2}
    Lists <- MCLists
    Sanitized <- MCSanitized
    Disposition <- MCDisposition
    FullRefresh = {FALSE, TRUE}
    PolicyAttempts = 2
    TaskTries = 2
    Faults = {"run", "set", "crash", "heartbeat"}
    MaxChanges = 2
INVARIANTS
    TaskTypeOK
    NoUpdateLost
    SuccessDelivers
PROPERTIES
    TasksEnd
