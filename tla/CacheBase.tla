----------------------------- MODULE CacheBase -----------------------------
(***************************************************************************)
(* The parameters and the data that every gobuildcache module shares.      *)
(*                                                                         *)
(* A host has one local cache directory; the processes of a host share it. *)
(* A request is one GET or PUT of the go command, read by one process.     *)
(* An action ID is a key, an output ID stands for itself and for the bytes *)
(* it names, so a file or an object is an output and its encoding.         *)
(***************************************************************************)
EXTENDS Naturals, FiniteSets

CONSTANTS
    Hosts,          \* machines, each with its own cache directory
    Procs,          \* gobuildcache processes
    Keys,           \* action IDs
    Outputs,        \* output IDs, and the bytes they stand for
    Reqs,           \* GET and PUT requests
    HostOf,         \* HostOf[p]: the host of process p
    ProcOf,         \* ProcOf[r]: the process that reads request r
    Compress,       \* Compress[p]: the -compression flag of p
    ReadOnly,       \* ReadOnly[p]: the -read-only flag of p
    EmptyOutputs,   \* the outputs of zero bytes (BodySize = 0)
    LockType,       \* the -lock-type flag: "fslock" or "memory"
    AsyncPut,       \* the -async-backend flag
    SemCap,         \* async PUTs in flight per process, 128 * GOMAXPROCS
    BackendType,    \* "noop" (-backend=disk), "s3" or "gcs"
    Faults,         \* what the environment may do wrong in this instance
    None,           \* no value
    Torn            \* the content of a file that is being written

FaultKinds ==
    {"lock",    \* the lock file cannot be opened
     "read",    \* a metadata file cannot be read
     "body",    \* a PUT's body is shorter than announced
     "write",   \* a data file cannot be written
     "meta",    \* a metadata file cannot be written
     "get",     \* a backend GET fails
     "put",     \* a backend PUT fails
     "clear",   \* clear-remote runs somewhere
     "crash"}   \* a process dies

Slots == Hosts \X Keys

Content == [out : Outputs, enc : {"raw", "lz4"}]

Raw(o) == [out |-> o, enc |-> "raw"]

(* What the go command asks, and what the handler's result makes of it: a  *)
(* hit names its output; a PUT answers the path alone; an error answers    *)
(* Err, and for a GET also Miss.                                           *)
Requests ==
    [op : {"get"}, key : Keys, out : {None}] \cup [op : {"put"}, key : Keys, out : Outputs]

Results ==
    [kind : {"none", "hit", "miss", "put", "err", "nolock"}, out : Outputs \cup {None}]

NoReq == [op |-> "none", key |-> None, out |-> None]
NoRes == [kind |-> "none", out |-> None]

ASSUME ConfigAssumption ==
    /\ HostOf \in [Procs -> Hosts]
    /\ ProcOf \in [Reqs -> Procs]
    /\ Compress \in [Procs -> BOOLEAN]
    /\ ReadOnly \in [Procs -> BOOLEAN]
    /\ EmptyOutputs \subseteq Outputs
    /\ LockType \in {"fslock", "memory"}
    /\ AsyncPut \in BOOLEAN
    /\ SemCap \in Nat
    /\ BackendType \in {"noop", "s3", "gcs"}
    /\ Faults \subseteq FaultKinds

ASSUME DistinctAssumption ==
    /\ None \notin Outputs \cup Reqs \cup Keys \cup Content
    /\ Torn \notin Outputs \cup Content \cup {None}

(* MemLock keeps its mutexes in the process; it is only used where no two  *)
(* processes share a cache directory.                                      *)
ASSUME MemoryLockAssumption ==
    LockType = "memory" =>
        \A p, q \in Procs : HostOf[p] = HostOf[q] => p = q

-----------------------------------------------------------------------------

(* What process p hands to the backend for an output: LZ4 when the flag is *)
(* set and the body is not empty, the body itself otherwise.               *)
Encode(p, o) ==
    [out |-> o,
     enc |-> IF Compress[p] /\ o \notin EmptyOutputs THEN "lz4" ELSE "raw"]

(* What process p makes of the body c that comes with the attributes of    *)
(* output o: the reader's flag and the size in the attributes decide. The  *)
(* LZ4 reader rejects a body that is not an LZ4 frame.                     *)
Decode(p, o, c) ==
    IF ~Compress[p] \/ o \in EmptyOutputs THEN c
    ELSE IF c.enc = "lz4" THEN Raw(c.out)
    ELSE None

(* No process meets an error other than "not found" when it reads metadata.*)
ReadsReliable == "read" \notin Faults

(* All the processes that share the backend use the same -compression flag.*)
CompressionAgrees == \A p, q \in Procs : Compress[p] = Compress[q]

(* A GET reads the attributes and the body of one and the same object; for *)
(* GCS they are two calls.                                                 *)
SnapshotGets == BackendType # "gcs"

=============================================================================
