----------------------------- MODULE CacheProg -----------------------------
(***************************************************************************)
(* server.go's request handlers: every process runs one goroutine per      *)
(* request, each walking through DoWithLock, the local cache and the       *)
(* backend. Any number of processes share a cache directory and its locks, *)
(* all hosts share the backend. A process may die between any two steps;   *)
(* one whose requests are all still unread may start after that, so it     *)
(* also stands for a restart.                                              *)
(***************************************************************************)
EXTENDS Locking, LocalCache, Backend

VARIABLES
    req,    \* req[r]: the request as read from stdin
    pc,     \* pc[r]: the next step of its goroutine
    job,    \* job[r]: the output ID and bytes it is writing locally
    res     \* res[r]: the result of the handler, what the response says

handlerVars == <<req, job, res>>
vars == <<lock, fileVars, backendVars, req, pc, job, res>>

NoJob == [out |-> None, body |-> None]

Jobs == [out : Outputs \cup {None}, body : Content \cup {None}]

(* Between taking the lock and releasing it. *)
Writing == {"create", "copy", "rename", "wmeta", "rmeta"}
Holding == {"check", "fetch", "reader", "store", "await", "unlock"} \cup Writing
Labels == {"idle", "lock", "wait", "reply", "done", "dead"} \cup Holding

\* One lock and one file for all the action IDs of a host.
Slot_OneFile(r) == <<HostOf[ProcOf[r]], CHOOSE k \in Keys : TRUE>>

Slot(r) == <<HostOf[ProcOf[r]], req[r].key>>

Init ==
    /\ LockInit
    /\ FilesInit
    /\ BackendInit
    /\ req = [r \in Reqs |-> NoReq]
    /\ pc = [r \in Reqs |-> "idle"]
    /\ job = [r \in Reqs |-> NoJob]
    /\ res = [r \in Reqs |-> NoRes]

Goto(r, l) == pc' = [pc EXCEPT ![r] = l]

\* An error that leaves around the deferred Unlock.
Return_ErrorKeepsLock(r, kind, o) ==
    /\ res' = [res EXCEPT ![r] = [kind |-> kind, out |-> o]]
    /\ Goto(r, IF kind = "err" THEN "reply" ELSE "unlock")

(* The function under the lock returns. *)
Return(r, kind, o) ==
    /\ res' = [res EXCEPT ![r] = [kind |-> kind, out |-> o]]
    /\ Goto(r, "unlock")

-----------------------------------------------------------------------------
(* The main loop dispatches a request to a goroutine of its own. *)
ReadRequest(r) ==
    /\ pc[r] = "idle"
    /\ \E q \in Requests : req' = [req EXCEPT ![r] = q]
    /\ Goto(r, "lock")
    /\ UNCHANGED <<lock, fileVars, backendVars, job, res>>

\* DoWithLock that does not look at who holds the lock.
AcquireLock_Unchecked(r) ==
    /\ pc[r] \in {"lock", "wait"}
    /\ TakeLock(Slot(r), r)
    /\ Goto(r, "check")
    /\ UNCHANGED <<fileVars, backendVars, handlerVars>>

AcquireLock(r) ==
    /\ pc[r] \in {"lock", "wait"}
    /\ LockFree(Slot(r))
    /\ TakeLock(Slot(r), r)
    /\ Goto(r, "check")
    /\ UNCHANGED <<fileVars, backendVars, handlerVars>>

(* TryLockContext polls a held flock; a mutex simply blocks. *)
LockBusy(r) ==
    /\ LockType = "fslock"
    /\ pc[r] = "lock"
    /\ ~LockFree(Slot(r))
    /\ Goto(r, "wait")
    /\ UNCHANGED <<lock, fileVars, backendVars, handlerVars>>

LockFails(r) ==
    /\ res' = [res EXCEPT ![r] = [kind |-> "nolock", out |-> None]]
    /\ Goto(r, "reply")
    /\ UNCHANGED <<lock, fileVars, backendVars, req, job>>

\* The deferred Unlock registered before the lock is known to be held.
LockTimeout_Unlocks(r) ==
    /\ pc[r] = "wait"
    /\ res' = [res EXCEPT ![r] = [kind |-> "nolock", out |-> None]]
    /\ Goto(r, "unlock")
    /\ UNCHANGED <<lock, fileVars, backendVars, req, job>>

(* One second after the first attempt, whether or not the lock is free. *)
LockTimeout(r) ==
    /\ pc[r] = "wait"
    /\ LockFails(r)

(* The lock file cannot be opened. *)
LockError(r) ==
    /\ LockType = "fslock"
    /\ "lock" \in Faults
    /\ pc[r] \in {"lock", "wait"}
    /\ LockFails(r)

-----------------------------------------------------------------------------
(* localCache.check. A hit ends the handler: a GET answers what the        *)
(* metadata says, a PUT answers the path and drops its body.               *)
CheckHit(r) ==
    /\ pc[r] = "check"
    /\ Found(Slot(r))
    /\ IF req[r].op = "get"
       THEN Return(r, "hit", meta[Slot(r)])
       ELSE Return(r, "put", None)
    /\ UNCHANGED <<lock, fileVars, backendVars, req, job>>

(* A GET turns to the backend, a PUT decodes its body and writes it.       *)
GoOn(r) ==
    /\ IF req[r].op = "get"
       THEN /\ Goto(r, "fetch")
            /\ UNCHANGED job
       ELSE /\ job' = [job EXCEPT ![r] = [out |-> req[r].out, body |-> Raw(req[r].out)]]
            /\ Goto(r, "create")
    /\ UNCHANGED <<lock, fileVars, backendVars, req, res>>

\* A PUT that overwrites an entry that is already there.
CheckMiss_PutOverwrites(r) ==
    /\ pc[r] = "check"
    /\ req[r].op = "put" \/ ~Found(Slot(r)) \/ ~ReadsReliable
    /\ GoOn(r)

\* A GET that prefers the backend.
CheckMiss_GetRefetches(r) ==
    /\ pc[r] = "check"
    /\ req[r].op = "get" \/ ~Found(Slot(r)) \/ ~ReadsReliable
    /\ GoOn(r)

(* check returns nil on any error, so an entry whose metadata cannot be    *)
(* read is as good as absent.                                              *)
CheckMiss(r) ==
    /\ pc[r] = "check"
    /\ ~Found(Slot(r)) \/ ~ReadsReliable
    /\ GoOn(r)

(* The body line decodes to fewer bytes than BodySize. *)
ShortBody(r) ==
    /\ "body" \in Faults
    /\ pc[r] = "check"
    /\ req[r].op = "put"
    /\ req[r].out \notin EmptyOutputs
    /\ ~Found(Slot(r)) \/ ~ReadsReliable
    /\ Return(r, "err", None)
    /\ UNCHANGED <<lock, fileVars, backendVars, req, job>>

(* No such object, or with GCS none any more when its reader is opened. *)
FetchMiss(r) ==
    /\ pc[r] \in {"fetch", "reader"}
    /\ store[req[r].key] = None
    /\ Return(r, "miss", None)
    /\ UNCHANGED <<lock, fileVars, backendVars, req, job>>

(* backend.Get, or reading a body that is to be decompressed, fails. *)
FetchError(r) ==
    /\ "get" \in Faults
    /\ pc[r] \in {"fetch", "reader"}
    /\ Return(r, "err", None)
    /\ UNCHANGED <<lock, fileVars, backendVars, req, job>>

(* GCS: the attributes, with the output ID, come with a call of their own. *)
FetchAttrs(r) ==
    LET obj == store[req[r].key] IN
    /\ ~SnapshotGets
    /\ pc[r] = "fetch"
    /\ obj # None
    /\ job' = [job EXCEPT ![r] = [out |-> obj.out, body |-> None]]
    /\ Goto(r, "reader")
    /\ UNCHANGED <<lock, fileVars, backendVars, req, res>>

(* The output ID that goes with the body request r is about to receive. *)
Fetching(r) ==
    \/ SnapshotGets /\ pc[r] = "fetch"
    \/ pc[r] = "reader"

FetchedOut(r) == IF pc[r] = "reader" THEN job[r].out ELSE store[req[r].key].out

FetchedBody(r) == Decode(ProcOf[r], FetchedOut(r), store[req[r].key])

\* Compressed bytes handed on as they came.
FetchHit_NotDecoded(r) ==
    /\ Fetching(r)
    /\ store[req[r].key] # None
    /\ job' = [job EXCEPT ![r] = [out |-> FetchedOut(r), body |-> store[req[r].key]]]
    /\ Goto(r, "create")
    /\ UNCHANGED <<lock, fileVars, backendVars, req, res>>

FetchHit(r) ==
    /\ Fetching(r)
    /\ store[req[r].key] # None
    /\ FetchedBody(r) # None
    /\ job' = [job EXCEPT ![r] = [out |-> FetchedOut(r), body |-> FetchedBody(r)]]
    /\ Goto(r, "create")
    /\ UNCHANGED <<lock, fileVars, backendVars, req, res>>

(* decompressData rejects the body. *)
FetchUndecodable(r) ==
    /\ Fetching(r)
    /\ store[req[r].key] # None
    /\ FetchedBody(r) = None
    /\ Return(r, "err", None)
    /\ UNCHANGED <<lock, fileVars, backendVars, req, job>>

-----------------------------------------------------------------------------
(* writeWithMetadata, call by call. A failure to write the data ends the   *)
(* handler with an error; a failure to write the metadata is only logged.  *)
Create(r) ==
    /\ pc[r] = "create"
    /\ CreateTmp(Slot(r))
    /\ Goto(r, "copy")
    /\ UNCHANGED <<lock, backendVars, handlerVars>>

\* A PUT that goes on to the backend when the local write failed.
CreateFails_Ignored(r) ==
    /\ "write" \in Faults
    /\ pc[r] = "create"
    /\ IF req[r].op = "put"
       THEN Goto(r, "store") /\ UNCHANGED res
       ELSE Return(r, "err", None)
    /\ UNCHANGED <<lock, fileVars, backendVars, req, job>>

CreateFails(r) ==
    /\ "write" \in Faults
    /\ pc[r] = "create"
    /\ Return(r, "err", None)
    /\ UNCHANGED <<lock, fileVars, backendVars, req, job>>

Copy(r) ==
    /\ pc[r] = "copy"
    /\ FillTmp(Slot(r), job[r].body)
    /\ Goto(r, "rename")
    /\ UNCHANGED <<lock, backendVars, handlerVars>>

\* The error of io.Copy is not looked at.
CopyFails_Ignored(r) ==
    /\ "write" \in Faults
    /\ pc[r] = "copy"
    /\ Goto(r, "rename")
    /\ UNCHANGED <<lock, fileVars, backendVars, handlerVars>>

(* The disk is full, or the backend's body, streamed to the file when      *)
(* there is nothing to decompress, breaks off.                             *)
CopyFails(r) ==
    /\ \/ "write" \in Faults
       \/ "get" \in Faults /\ req[r].op = "get" /\ ~Compress[ProcOf[r]]
    /\ pc[r] = "copy"
    /\ RemoveTmp(Slot(r))
    /\ Return(r, "err", None)
    /\ UNCHANGED <<lock, backendVars, req, job>>

Rename(r) ==
    /\ pc[r] = "rename"
    /\ RenameTmp(Slot(r))
    /\ Goto(r, "wmeta")
    /\ UNCHANGED <<lock, backendVars, handlerVars>>

RenameFails(r) ==
    /\ "write" \in Faults
    /\ pc[r] = "rename"
    /\ RemoveTmp(Slot(r))
    /\ Return(r, "err", None)
    /\ UNCHANGED <<lock, backendVars, req, job>>

(* What follows a successful write: a GET answers its hit, a PUT of a      *)
(* read-only process is over, any other PUT goes on to the backend.        *)
AfterWrite(r) ==
    \/ req[r].op = "get" /\ Return(r, "hit", job[r].out)
    \/ req[r].op = "put" /\ ReadOnly[ProcOf[r]] /\ Return(r, "put", None)
    \/ req[r].op = "put" /\ ~ReadOnly[ProcOf[r]] /\ Goto(r, "store") /\ UNCHANGED res

WriteMeta(r) ==
    /\ pc[r] = "wmeta"
    /\ WriteMetaTmp(Slot(r), job[r].out)
    /\ Goto(r, "rmeta")
    /\ UNCHANGED <<lock, backendVars, handlerVars>>

(* os.WriteFile may leave a partial temporary file behind. *)
WriteMetaFails(r) ==
    /\ "meta" \in Faults
    /\ pc[r] = "wmeta"
    /\ WriteMetaTmp(Slot(r), Torn) \/ UNCHANGED fileVars
    /\ AfterWrite(r)
    /\ UNCHANGED <<lock, backendVars, req, job>>

RenameMeta(r) ==
    /\ pc[r] = "rmeta"
    /\ RenameMetaTmp(Slot(r))
    /\ AfterWrite(r)
    /\ UNCHANGED <<lock, backendVars, req, job>>

RenameMetaFails(r) ==
    /\ "meta" \in Faults
    /\ pc[r] = "rmeta"
    /\ RemoveMetaTmp(Slot(r))
    /\ AfterWrite(r)
    /\ UNCHANGED <<lock, backendVars, req, job>>

-----------------------------------------------------------------------------
(* The object a PUT hands to the backend. *)
Object(r) == Encode(ProcOf[r], req[r].out)

\* A handler that tries again when its upload is turned down.
PutAsync_Retries(r) ==
    /\ pc[r] = "store"
    /\ AsyncPut
    /\ \/ StartUpload(r) /\ Return(r, "put", None)
       \/ RejectUpload(r) /\ Goto(r, "store") /\ UNCHANGED res
    /\ UNCHANGED <<lock, fileVars, req, job>>

(* The answer of a PUT does not depend on the backend. *)
PutAsync(r) ==
    /\ pc[r] = "store"
    /\ AsyncPut
    /\ StartUpload(r) \/ RejectUpload(r)
    /\ Return(r, "put", None)
    /\ UNCHANGED <<lock, fileVars, req, job>>

PutSync(r) ==
    /\ pc[r] = "store"
    /\ ~AsyncPut
    /\ StartPut(r)
    /\ Goto(r, "await")
    /\ UNCHANGED <<lock, fileVars, handlerVars>>

PutReturns(r) ==
    /\ pc[r] = "await"
    /\ upload[r] \in {"ok", "failed", "late"}
    /\ CountPut(r)
    /\ Return(r, "put", None)
    /\ UNCHANGED <<lock, fileVars, req, job>>

Unlock(r) ==
    /\ pc[r] = "unlock"
    /\ ReleaseLock(Slot(r))
    /\ Goto(r, "reply")
    /\ UNCHANGED <<fileVars, backendVars, handlerVars>>

Reply(r) ==
    /\ pc[r] = "reply"
    /\ Goto(r, "done")
    /\ UNCHANGED <<lock, fileVars, backendVars, handlerVars>>

(* The end of a backend PUT, one way or the other. *)
Settle(r) ==
    /\ \/ UploadLands(r, req[r].key, Object(r))
       \/ UploadFails(r)
       \/ UploadLate(r, req[r].key, Object(r))
    /\ UNCHANGED <<lock, fileVars, handlerVars, pc>>

(* A process dies: its goroutines and uploads stop where they are, its     *)
(* locks are dropped, the files stay as they are.                          *)
Crash(p) ==
    LET mine == {r \in Reqs : ProcOf[r] = p /\ pc[r] # "done"} IN
    /\ "crash" \in Faults
    /\ (\E r \in mine : pc[r] \notin {"idle", "dead"}) \/ InFlight(p) # {}
    /\ pc' = [r \in Reqs |-> IF r \in mine THEN "dead" ELSE pc[r]]
    /\ DropLocks(mine)
    /\ AbandonUploads(p)
    /\ UNCHANGED <<fileVars, handlerVars>>

Clear(k) ==
    /\ DeleteObject(k)
    /\ UNCHANGED <<lock, fileVars, handlerVars, pc>>

Terminating ==
    /\ \A r \in Reqs : pc[r] \in {"done", "dead"} /\ upload[r] # "inflight"
    /\ UNCHANGED vars

(* The steps of a request's goroutine after it was read. *)
Step(r) ==
    \/ AcquireLock(r) \/ LockBusy(r) \/ LockTimeout(r) \/ LockError(r)
    \/ CheckHit(r) \/ CheckMiss(r) \/ ShortBody(r)
    \/ FetchMiss(r) \/ FetchError(r) \/ FetchAttrs(r) \/ FetchHit(r) \/ FetchUndecodable(r)
    \/ Create(r) \/ CreateFails(r) \/ Copy(r) \/ CopyFails(r)
    \/ Rename(r) \/ RenameFails(r)
    \/ WriteMeta(r) \/ WriteMetaFails(r) \/ RenameMeta(r) \/ RenameMetaFails(r)
    \/ PutAsync(r) \/ PutSync(r) \/ PutReturns(r) \/ Unlock(r) \/ Reply(r)

Next ==
    \/ \E r \in Reqs : ReadRequest(r) \/ Step(r) \/ Settle(r)
    \/ \E p \in Procs : Crash(p)
    \/ \E k \in Keys : Clear(k)
    \/ Terminating

Spec == Init /\ [][Next]_vars

(* A goroutine that can run does run, and a call to the backend returns.   *)
(* The go command need not send anything, processes need not crash, and a  *)
(* PUT whose process died need not be applied.                             *)
Fairness ==
    \A r \in Reqs : WF_vars(Step(r)) /\ WF_vars(upload[r] = "inflight" /\ Settle(r))

FairSpec == Spec /\ Fairness

-----------------------------------------------------------------------------
(* Every variable has its type. The interesting part: a path that may be   *)
(* given out never holds a file that is still being written.               *)
TypeOK ==
    /\ lock \in [Slots -> Reqs \cup {None}]
    /\ tmp \in [Slots -> Content \cup {None, Torn}]
    /\ data \in [Slots -> Content \cup {None}]
    /\ mtmp \in [Slots -> Outputs \cup {None, Torn}]
    /\ meta \in [Slots -> Outputs \cup {None}]
    /\ store \in [Keys -> Content \cup {None}]
    /\ upload \in [Reqs -> UploadStates]
    /\ counted \subseteq Reqs
    /\ req \in [Reqs -> Requests \cup {NoReq}]
    /\ pc \in [Reqs -> Labels]
    /\ job \in [Reqs -> Jobs]
    /\ res \in [Reqs -> Results]

(* Mutual exclusion (locking.Group): no two requests for one action ID of  *)
(* one host are inside DoWithLock's function, whatever their processes.    *)
LockExclusive ==
    \A r, q \in Reqs :
        r # q /\ pc[r] \in Holding /\ pc[q] \in Holding => Slot(r) # Slot(q)

(* memlock.go:28, fslock.go:63. A lock that is held has a live request     *)
(* inside the function: no way out of a handler, and no death, leaves it   *)
(* to nobody.                                                              *)
NoLockLeaked ==
    \A s \in Slots : lock[s] # None => pc[lock[s]] \in Holding /\ Slot(lock[s]) = s

(* localcache.go's claim that metadata is written last and atomically: the *)
(* entry another request, or another process after a crash, finds by its   *)
(* metadata has exactly the bytes of the output it names.                  *)
EntryConsistent == \A s \in Slots : meta[s] # None => data[s] = Raw(meta[s])

(* The same up to encoding, where hosts disagree on -compression. *)
EntryNamesData ==
    \A s \in Slots : meta[s] # None => data[s] # None /\ data[s].out = meta[s]

(* The checks at server.go:412 and 540: once an entry can be found, no     *)
(* request of any process ever writes its files again.                     *)
EntriesImmutable ==
    [][\A s \in Slots : meta[s] # None => meta'[s] = meta[s] /\ data'[s] = data[s]]_vars

(* A GET answers a path and leaves, and the go command opens it later: the *)
(* file at that path goes on holding the output the answer named.          *)
AnswersStayValid ==
    \A r \in Reqs : res[r].kind = "hit" => data[Slot(r)] = Raw(res[r].out)

(* Whatever failed on the way, a path that is given out has a file.        *)
AnswersHaveFiles ==
    \A r \in Reqs : res[r].kind \in {"hit", "put"} => data[Slot(r)] # None

(* A GET only ever answers an output that some request PUT for its action  *)
(* ID, on this host or on another one.                                     *)
Provenance ==
    \A r \in Reqs : res[r].kind = "hit" =>
        \E q \in Reqs : req[q] = [op |-> "put", key |-> req[r].key, out |-> res[r].out]

(* localcache.go:159: a data file's temporary survives its writer only if  *)
(* the writer's process died.                                              *)
TempFilesCleaned ==
    \A s \in Slots : tmp[s] # None /\ LockFree(s) =>
        \E r \in Reqs : pc[r] = "dead" /\ req[r] # NoReq /\ Slot(r) = s

(* README.md:386, GETs are deduplicated: when one request of a host got an *)
(* entry, no other asks the backend for it.                                *)
Deduplicated ==
    \A r, q \in Reqs :
        res[r].kind = "hit" /\ pc[q] \in {"fetch", "reader"} => Slot(q) # Slot(r)

(* A host offers the output of an action ID to the backend at most once,   *)
(* so its uploads of one object cannot overtake each other; one turned     *)
(* down at the semaphore is never offered again.                           *)
UploadedOnce ==
    \A r, q \in Reqs :
        upload[r] # "none" /\ upload[q] # "none" /\ Slot(r) = Slot(q) => r = q

(* The local entry comes first (server.go:440 before 481): every object in *)
(* the backend was PUT under its key by a process that may write, whose    *)
(* host still has the very same output, even after crashes.                *)
RemoteImpliesLocal ==
    \A k \in Keys : store[k] # None =>
        \E r \in Reqs :
            /\ req[r] = [op |-> "put", key |-> k, out |-> store[k].out]
            /\ ~ReadOnly[ProcOf[r]]
            /\ data[Slot(r)] = Raw(store[k].out)

(* Every request that was read is answered, unless its process dies: no    *)
(* failure on the way keeps a lock from the others or loses the response.  *)
EveryRequestAnswered ==
    \A r \in Reqs : pc[r] = "lock" ~> pc[r] \in {"done", "dead"}

(* The handlers keep the promise of BuildCache: the register of a slot is  *)
(* its metadata file. It is written once, by a rename, and every answer is *)
(* the one the register gives at the moment the handler returns.           *)
Promise == INSTANCE BuildCache WITH asked <- req, entry <- meta, answer <- res

ImplementsBuildCache == Promise!Spec

(* server.go:412, 540. No host goes back on an answer: a GET that comes    *)
(* after a hit or a PUT of its action ID does not miss, in whatever        *)
(* process, and after a hit it names the same output.                      *)
AnswersStand == Promise!AnswersStand

(* async_backend.go:44, server.go:481. The handlers use the asynchronous   *)
(* writer as AsyncWriter implements it: each request hands it at most one  *)
(* PUT, at any time, and never takes one back or repeats it; nothing else  *)
(* touches the store but the deletions of a clear.                         *)
UsesUploads == UploadsSpec

-----------------------------------------------------------------------------
(* What comments and the README say that the code does not do.             *)

(* README.md:386, locking "prevents `GET` operations from seeing torn/     *)
(* partial writes from failed or in-flight `PUT` operations"               *)
GetsNotTorn ==
    \A r \in Reqs : res[r].kind = "hit" => data[Slot(r)].out = res[r].out

(* backend.go:14-16 "the caller (server.go) guarantees that there will     *)
(* never be two inflight operations of the same type for the same actionID"*)
SinglePutInFlight ==
    \A r, q \in Reqs :
        /\ upload[r] = "inflight"
        /\ upload[q] = "inflight"
        /\ ProcOf[r] = ProcOf[q]
        /\ req[r].key = req[q].key
        => r = q

(* server.go:577 "Backend hit - decompress if needed, then write to local  *)
(* cache with metadata"                                                    *)
HitsDecompressed ==
    \A r \in Reqs : res[r].kind = "hit" => data[Slot(r)].enc = "raw"

=============================================================================
