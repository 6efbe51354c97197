SPECIFICATION Spec
CONSTANTS
    t1 = t1  t2 = t2  t3 = t3
    q1 = q1  q2 = q2
    sA = sA  sB = sB
    pA = pA  pB = pB
    i1 = i1  i2 = i2  i3 = i3  i4 = i4  i5 = i5
    Streams = {sA, sB}
    Paths = {pA, pB}
    PathOf <- MCOwnPaths
    Procs = {q1, q2}
    Threads = {t1, t2, t3}
    ProcOf <- MCProcOf
    Stores = {"file", "sql"}
    Serves <- MCServes
    Inodes = {i1, i2, i3, i4, i5}
    NoState = NoState
    Raised = Raised
    Stored = Stored
    NotStored = NotStored
    None = None
    Empty = Empty
    Torn = Torn
    MaxSets = 3
SYMMETRY MCSymmetry
INVARIANTS
    StoresTypeOK
PROPERTIES
    ImplementsRegister
