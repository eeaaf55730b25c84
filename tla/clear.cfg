SPECIFICATION ClearSpec
CONSTANTS
    h1 = h1
    p1 = p1
    p2 = p2
    k1 = k1
    k2 = k2
    o1 = o1
    o2 = o2
    r1 = r1
    r2 = r2
    None = None
    Torn = Torn
    Hosts = {h1}
    Procs = {p1, p2}
    Keys = {k1, k2}
    Outputs = {o1, o2}
    Reqs = {r1, r2}
    HostOf <- MCOneHost
    ProcOf <- MCProcOf
    Compress <- MCOff
    ReadOnly <- MCOff
    EmptyOutputs = {}
    LockType = "fslock"
    AsyncPut = TRUE
    SemCap = 2
    BackendType = "s3"
    Faults = {"clear", "put", "crash"}
    Commands = {"local", "remote", "all"}
    DeleteErrors = TRUE
SYMMETRY MCSymmetric
INVARIANTS
    ClearTypeOK
    EntriesWholeOrCut
    RemoteCleared
    ClearSticks
    Provenance
PROPERTIES
    ServesAsBefore
