SPECIFICATION Spec
CONSTANTS
    h1 = h1
    h2 = h2
    h3 = h3
    p1 = p1
    p2 = p2
    p3 = p3
    k1 = k1
    k2 = k2
    o1 = o1
    o2 = o2
    r1 = r1
    r2 = r2
    r3 = r3
    r4 = r4
    None = None
    Torn = Torn
    Hosts = {h1, h2}
    Procs = {p1, p2}
    Keys = {k1, k2}
    Outputs = {o1}
    Reqs = {r1, r2, r3}
    HostOf <- MCOwnHost
    ProcOf <- MCProcOf
    Compress <- MCOnlyP1
    ReadOnly <- MCOff
    EmptyOutputs = {}
    LockType = "fslock"
    AsyncPut = TRUE
    SemCap = 1
    BackendType = "gcs"
    Faults = {"lock", "read", "body", "write", "meta", "get", "put", "clear"}
SYMMETRY MCSymmetric
INVARIANTS
    AnswersHaveFiles
    Provenance
PROPERTIES
    UsesUploads
