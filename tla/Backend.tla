------------------------------ MODULE Backend ------------------------------
(***************************************************************************)
(* pkg/backends as server.go sees it: an object store shared by all hosts  *)
(* (S3, GCS) or none at all (Noop, with -backend=disk), and the            *)
(* asynchronous writer in front of it. One object per action ID; a PUT     *)
(* replaces the object and its output ID in one go.                        *)
(***************************************************************************)
EXTENDS CacheBase

VARIABLES
    store,      \* store[k]: the object of key k, or None
    upload,     \* upload[r]: what became of the backend PUT of request r
    counted     \* the requests added to backendBytesWritten

backendVars == <<store, upload, counted>>

UploadStates ==
    {"none",        \* no backend PUT was made
     "rejected",    \* turned down at the semaphore
     "inflight",    \* the call is being made
     "ok",          \* the object is stored
     "failed",      \* the call returned an error
     "lost",        \* its process died while it was in flight
     "late"}        \* failed or lost, and applied by the store afterwards

BackendInit ==
    /\ store = [k \in Keys |-> None]
    /\ upload = [r \in Reqs |-> "none"]
    /\ counted = {}

InFlight(p) == {r \in Reqs : ProcOf[r] = p /\ upload[r] = "inflight"}

(* The slot of the semaphore is given back by a deferred call of the       *)
(* upload's goroutine, some time after the outcome. The scheduler may put  *)
(* that off for as long as it likes: an upload that has come to its end may*)
(* hold its slot still. AsyncWriter has the slots themselves.              *)
MayHoldSlot(p) ==
    {r \in Reqs : ProcOf[r] = p /\ upload[r] \in {"inflight", "ok", "failed", "late"}}

(* The PUTs that may yet change the store. An error answer does not say    *)
(* that the store did not, or will not, apply the call.                    *)
MayLand == {r \in Reqs : upload[r] \in {"inflight", "failed", "lost"}}

(* Noop.Put returns nil and stores nothing. *)
Store(k, c) ==
    store' = IF BackendType = "noop" THEN store ELSE [store EXCEPT ![k] = c]

(* AsyncBackendWriter.Put: a free slot of the semaphore starts the upload  *)
(* and Put returns nil, no free slot and Put returns an error.             *)
StartUpload(r) ==
    /\ Cardinality(InFlight(ProcOf[r])) < SemCap
    /\ upload' = [upload EXCEPT ![r] = "inflight"]
    /\ counted' = counted \cup {r}
    /\ UNCHANGED store

RejectUpload(r) ==
    /\ Cardinality(MayHoldSlot(ProcOf[r])) >= SemCap
    /\ upload' = [upload EXCEPT ![r] = "rejected"]
    /\ UNCHANGED <<store, counted>>

(* Without -async-backend the handler makes the call itself, waits for the *)
(* answer and counts the bytes of a success.                               *)
StartPut(r) ==
    /\ upload' = [upload EXCEPT ![r] = "inflight"]
    /\ UNCHANGED <<store, counted>>

CountPut(r) ==
    /\ counted' = IF upload[r] = "ok" THEN counted \cup {r} ELSE counted
    /\ UNCHANGED <<store, upload>>

(* The backend's Put takes effect and says so. *)
UploadLands(r, k, c) ==
    /\ upload[r] = "inflight"
    /\ upload' = [upload EXCEPT ![r] = "ok"]
    /\ Store(k, c)
    /\ UNCHANGED counted

UploadFails(r) ==
    /\ "put" \in Faults
    /\ upload[r] = "inflight"
    /\ upload' = [upload EXCEPT ![r] = "failed"]
    /\ UNCHANGED <<store, counted>>

(* A call that returned an error, or whose process died, has been sent: the*)
(* store may still apply it, at any time.                                  *)
UploadLate(r, k, c) ==
    /\ BackendType # "noop"
    /\ upload[r] \in {"failed", "lost"}
    /\ upload' = [upload EXCEPT ![r] = "late"]
    /\ Store(k, c)
    /\ UNCHANGED counted

AbandonUploads(p) ==
    /\ upload' = [r \in Reqs |-> IF r \in InFlight(p) THEN "lost" ELSE upload[r]]
    /\ UNCHANGED <<store, counted>>

(* clear-remote, run by anybody, deletes the objects one after the other.  *)
DeleteObject(k) ==
    /\ "clear" \in Faults
    /\ store[k] # None
    /\ store' = [store EXCEPT ![k] = None]
    /\ UNCHANGED <<upload, counted>>

(* The asynchronous writers by themselves, as AsyncWriter implements them  *)
(* and the handlers use them: one Put for each request.                    *)
UploadsNext ==
    \/ \E r \in Reqs : upload[r] = "none" /\ (StartUpload(r) \/ RejectUpload(r))
    \/ \E p \in Procs : AbandonUploads(p)
    \/ \E r \in Reqs : UploadFails(r)
    \/ \E r \in Reqs, k \in Keys, c \in Content : UploadLands(r, k, c) \/ UploadLate(r, k, c)
    \/ \E k \in Keys : DeleteObject(k)

UploadsSpec == BackendInit /\ [][UploadsNext]_backendVars

=============================================================================
