-------------------------- MODULE CacheProgProofs --------------------------
(***************************************************************************)
(* Proofs about CacheProg, for any number of hosts, processes, keys,       *)
(* outputs and requests.                                                   *)
(***************************************************************************)
EXTENDS CacheProg, TLAPS

(* What holds of one request in every state, whatever fails, and even      *)
(* where files can disappear: it holds the lock of its slot between taking *)
(* and releasing it, and the temporary files it renames, where they are    *)
(* there, are those it wrote.                                              *)
ReqInv(r) ==
    /\ pc[r] \notin {"idle", "dead"} => req[r] \in Requests
    /\ pc[r] \in Holding => lock[Slot(r)] = r
    /\ pc[r] \in Writing =>
          /\ job[r].out \in Outputs
          /\ job[r].body \in Content
          /\ SnapshotGets => job[r].body.out = job[r].out
    /\ pc[r] = "reader" => job[r].out \in Outputs /\ ~SnapshotGets
    /\ pc[r] = "rename" => tmp[Slot(r)] \in {job[r].body, None}
    /\ pc[r] = "rmeta" => mtmp[Slot(r)] \in {job[r].out, None}
    /\ upload[r] # "none" \/ pc[r] \in {"store", "await"} =>
          req[r] \in Requests /\ req[r].op = "put" /\ pc[r] # "idle"

(* Nobody removes the files of others: each stage of writeWithMetadata     *)
(* finds the file the stage before it left.                                *)
Placed(r) ==
    /\ pc[r] = "rename" => tmp[Slot(r)] = job[r].body
    /\ pc[r] = "rmeta" => mtmp[Slot(r)] = job[r].out
    /\ pc[r] \in {"wmeta", "rmeta"} => data[Slot(r)] = job[r].body

Inv == TypeOK /\ \A r \in Reqs : ReqInv(r) /\ Placed(r)

(* What a step of request r leaves alone: the other requests, and the      *)
(* files and locks of all slots but its own, which nobody else holds.      *)
Local(r) ==
    /\ \A q \in Reqs \ {r} :
        pc'[q] = pc[q] /\ job'[q] = job[q] /\ req'[q] = req[q] /\ upload'[q] = upload[q]
    /\ \/ UNCHANGED <<lock, fileVars>>
       \/ /\ lock[Slot(r)] \in {r, None}
          /\ \A s \in Slots \ {Slot(r)} :
                /\ lock'[s] = lock[s] /\ tmp'[s] = tmp[s] /\ data'[s] = data[s]
                /\ mtmp'[s] = mtmp[s] /\ meta'[s] = meta[s]

-----------------------------------------------------------------------------

(* The directory of the process's host and the key name a slot. *)
LEMMA SlotType ==
    ASSUME NEW r \in Reqs, req[r] \in Requests
    PROVE  Slot(r) \in Slots
BY ConfigAssumption DEF Slot, Slots, Requests

(* A handler's result and next step have their types. *)
LEMMA ReturnType ==
    ASSUME TypeOK, NEW r \in Reqs, NEW o \in Outputs \cup {None},
           NEW kind \in {"hit", "miss", "put", "err", "nolock"}, Return(r, kind, o)
    PROVE  res' \in [Reqs -> Results] /\ pc' \in [Reqs -> Labels]
BY DEF TypeOK, Return, Goto, Results, Labels, Holding

(* What a PUT hands to the backend is an object. *)
LEMMA ObjectType ==
    ASSUME NEW r \in Reqs, req[r] \in Requests, req[r].op = "put"
    PROVE  Object(r) \in Content
BY DEF Requests, Object, Encode, Content

(* The invariant holds initially: no file, no lock, every request unread. *)
LEMMA InitInv == Init => Inv
BY ConfigAssumption, DistinctAssumption
   DEF Init, LockInit, FilesInit, BackendInit, Inv, TypeOK, ReqInv, Placed, Jobs, Results,
       Labels, Holding, Writing, UploadStates, NoJob, NoReq, NoRes

(* A step of r disturbs no other request q: if q holds its slot's lock,    *)
(* then r's slot is another one.                                           *)
LEMMA OthersKeep ==
    ASSUME NEW r \in Reqs, NEW q \in Reqs \ {r}, ReqInv(q), Local(r)
    PROVE  ReqInv(q)' /\ (Placed(q) => Placed(q)')
<1>1. ReqInv(q)
    OBVIOUS
<1>2. Slot(q)' = Slot(q)
    BY DEF Slot, Local
<1>3. CASE UNCHANGED <<lock, fileVars>>
    BY <1>1, <1>2, <1>3 DEF ReqInv, Placed, Local, fileVars
<1>4. CASE lock[Slot(r)] \in {r, None} /\ pc[q] \in Holding
    <2>1. Slot(q) \in Slots
        BY <1>1, <1>4, SlotType DEF ReqInv, Holding, Writing
    <2>2. Slot(q) # Slot(r)
        BY <1>1, <1>4, DistinctAssumption DEF ReqInv
    <2>3. QED
        BY <1>1, <1>2, <2>1, <2>2, <1>4 DEF ReqInv, Placed, Local, fileVars
<1>5. CASE pc[q] \notin Holding
    BY <1>1, <1>2, <1>5 DEF ReqInv, Placed, Local, Holding, Writing
<1>6. QED
    BY <1>3, <1>4, <1>5 DEF Local

(* ... nor the files of a request that holds its lock.                     *)
LEMMA OthersFiles ==
    ASSUME NEW r \in Reqs, NEW q \in Reqs \ {r}, ReqInv(q), pc[q] \in Holding, Local(r)
    PROVE  /\ Slot(q)' = Slot(q) /\ pc'[q] = pc[q] /\ job'[q] = job[q]
           /\ tmp'[Slot(q)] = tmp[Slot(q)] /\ data'[Slot(q)] = data[Slot(q)]
           /\ mtmp'[Slot(q)] = mtmp[Slot(q)] /\ meta'[Slot(q)] = meta[Slot(q)]
<1>1. Slot(q)' = Slot(q) /\ pc'[q] = pc[q] /\ job'[q] = job[q]
    BY DEF Slot, Local
<1>2. CASE UNCHANGED <<lock, fileVars>>
    BY <1>1, <1>2 DEF fileVars
<1>3. CASE lock[Slot(r)] \in {r, None}
    <2>1. Slot(q) \in Slots
        BY SlotType DEF ReqInv, Holding, Writing
    <2>2. Slot(q) # Slot(r)
        BY <1>3, DistinctAssumption DEF ReqInv
    <2>3. QED
        BY <1>1, <1>2, <1>3, <2>1, <2>2 DEF Local
<1>4. QED
    BY <1>2, <1>3 DEF Local

(* A goroutine keeps its question. *)
LEMMA StepKeepsQuestions ==
    ASSUME NEW r \in Reqs, Step(r)
    PROVE  req' = req
BY DEF Step, AcquireLock, LockBusy, LockTimeout, LockError, LockFails, CheckHit, CheckMiss,
       GoOn, ShortBody, FetchMiss, FetchError, FetchAttrs, FetchHit, FetchUndecodable,
       Create, CreateFails, Copy, CopyFails, Rename, RenameFails, WriteMeta,
       WriteMetaFails, RenameMeta, RenameMetaFails, PutAsync, PutSync, PutReturns, Unlock,
       Reply, handlerVars

(* Neither an unread request nor a finished one takes a step.              *)
LEMMA StepAwake ==
    ASSUME NEW r \in Reqs, Step(r)
    PROVE  pc[r] \notin {"idle", "done", "dead"}
BY DEF Step, AcquireLock, LockBusy, LockTimeout, LockError, CheckHit, CheckMiss, ShortBody,
       FetchMiss, FetchError, FetchAttrs, FetchHit, Fetching, FetchUndecodable, Create,
       CreateFails, Copy, CopyFails, Rename, RenameFails, WriteMeta, WriteMetaFails,
       RenameMeta, RenameMetaFails, PutAsync, PutSync, PutReturns, Unlock, Reply

(* Every action of r keeps the types, is local and keeps r's invariant. *)
LEMMA StepLocal ==
    ASSUME NEW r \in Reqs, TypeOK, ReqInv(r), Step(r)
    PROVE  TypeOK' /\ Local(r) /\ ReqInv(r)'
<1> USE DEF Goto, fileVars, backendVars, handlerVars
<1>1. TypeOK /\ ReqInv(r)
    OBVIOUS
<1>2. CASE AcquireLock(r)
    <2>1. req[r] \in Requests /\ Slot(r) \in Slots
        BY <1>1, <1>2, SlotType DEF ReqInv, AcquireLock
    <2>2. Slot(r)' = Slot(r)
        BY <1>2 DEF AcquireLock, Slot
    <2>3. TypeOK'
        BY <1>1, <1>2, <2>1
           DEF AcquireLock, TakeLock, LockFree, TypeOK, ReqInv, Jobs, Results, Labels,
               Holding, Writing, Content, Requests, UploadStates
    <2>4. Local(r)
        BY <1>1, <1>2, <2>1
           DEF AcquireLock, TakeLock, LockFree, Local, TypeOK, ReqInv, Holding, Writing
    <2>5. ReqInv(r)'
        BY <1>1, <1>2, <2>1, <2>2
           DEF AcquireLock, TakeLock, LockFree, TypeOK, ReqInv, Holding, Writing, Content,
               Requests, Jobs
    <2>6. QED
        BY <2>3, <2>4, <2>5
<1>3. CASE LockBusy(r)
    <2>1. req[r] \in Requests /\ Slot(r) \in Slots
        BY <1>1, <1>3, SlotType DEF ReqInv, LockBusy
    <2>2. Slot(r)' = Slot(r)
        BY <1>3 DEF LockBusy, Slot
    <2>3. TypeOK'
        BY <1>1, <1>3, <2>1
           DEF LockBusy, TypeOK, ReqInv, Jobs, Results, Labels, Holding, Writing, Content,
               Requests, UploadStates
    <2>4. Local(r)
        BY <1>1, <1>3, <2>1 DEF LockBusy, Local, TypeOK, ReqInv, Holding, Writing
    <2>5. ReqInv(r)'
        BY <1>1, <1>3, <2>1, <2>2
           DEF LockBusy, TypeOK, ReqInv, Holding, Writing, Content, Requests, Jobs
    <2>6. QED
        BY <2>3, <2>4, <2>5
<1>4. CASE LockTimeout(r)
    <2>1. req[r] \in Requests /\ Slot(r) \in Slots
        BY <1>1, <1>4, SlotType DEF ReqInv, LockTimeout
    <2>2. Slot(r)' = Slot(r)
        BY <1>4 DEF LockTimeout, Slot, LockFails
    <2>3. TypeOK'
        BY <1>1, <1>4, <2>1
           DEF LockTimeout, LockFails, TypeOK, ReqInv, Jobs, Results, Labels, Holding,
               Writing, Content, Requests, UploadStates
    <2>4. Local(r)
        BY <1>1, <1>4, <2>1
           DEF LockTimeout, LockFails, Local, TypeOK, ReqInv, Holding, Writing
    <2>5. ReqInv(r)'
        BY <1>1, <1>4, <2>1, <2>2
           DEF LockTimeout, LockFails, TypeOK, ReqInv, Holding, Writing, Content, Requests,
               Jobs
    <2>6. QED
        BY <2>3, <2>4, <2>5
<1>5. CASE LockError(r)
    <2>1. req[r] \in Requests /\ Slot(r) \in Slots
        BY <1>1, <1>5, SlotType DEF ReqInv, LockError
    <2>2. Slot(r)' = Slot(r)
        BY <1>5 DEF LockError, Slot, LockFails
    <2>3. TypeOK'
        BY <1>1, <1>5, <2>1
           DEF LockError, LockFails, TypeOK, ReqInv, Jobs, Results, Labels, Holding,
               Writing, Content, Requests, UploadStates
    <2>4. Local(r)
        BY <1>1, <1>5, <2>1
           DEF LockError, LockFails, Local, TypeOK, ReqInv, Holding, Writing
    <2>5. ReqInv(r)'
        BY <1>1, <1>5, <2>1, <2>2
           DEF LockError, LockFails, TypeOK, ReqInv, Holding, Writing, Content, Requests,
               Jobs
    <2>6. QED
        BY <2>3, <2>4, <2>5
<1>6. CASE CheckHit(r)
    <2>1. req[r] \in Requests /\ Slot(r) \in Slots
        BY <1>1, <1>6, SlotType DEF ReqInv, CheckHit
    <2>2. Slot(r)' = Slot(r)
        BY <1>6 DEF CheckHit, Slot
    <2>3a. res' \in [Reqs -> Results] /\ pc' \in [Reqs -> Labels]
        BY <1>1, <1>6, <2>1, ReturnType
           DEF CheckHit, Found, ReqInv, TypeOK, Writing, Labels, Holding
    <2>3. TypeOK'
        BY <1>1, <1>6, <2>1, <2>3a DEF CheckHit, Return, Found, TypeOK, ReqInv, Writing
    <2>4. Local(r)
        BY <1>1, <1>6, <2>1
           DEF CheckHit, Return, Found, Local, TypeOK, ReqInv, Holding, Writing
    <2>5. ReqInv(r)'
        BY <1>1, <1>6, <2>1, <2>2
           DEF CheckHit, Return, Found, TypeOK, ReqInv, Holding, Writing, Content,
               Requests, Jobs
    <2>6. QED
        BY <2>3, <2>4, <2>5
<1>7. CASE CheckMiss(r)
    <2>1. req[r] \in Requests /\ Slot(r) \in Slots
        BY <1>1, <1>7, SlotType DEF ReqInv, CheckMiss, GoOn
    <2>2. Slot(r)' = Slot(r)
        BY <1>7 DEF CheckMiss, GoOn, Slot
    <2>3a. job' \in [Reqs -> Jobs]
        <3>1. /\ req[r].op # "get" => req[r].out \in Outputs
              /\ Raw(req[r].out) = [out |-> req[r].out, enc |-> "raw"]
            BY <2>1 DEF Requests, Raw
        <3>2. QED
            BY <1>1, <1>7, <3>1 DEF CheckMiss, GoOn, TypeOK, Jobs, Content
    <2>3. TypeOK'
        BY <1>1, <1>7, <2>1, <2>3a
           DEF CheckMiss, GoOn, Found, Raw, TypeOK, Labels, Holding, Writing
    <2>4. Local(r)
        BY <1>1, <1>7, <2>1
           DEF CheckMiss, GoOn, Found, Raw, Local, TypeOK, ReqInv, Holding, Writing
    <2>5. ReqInv(r)'
        BY <1>1, <1>7, <2>1, <2>2
           DEF CheckMiss, GoOn, Found, Raw, TypeOK, ReqInv, Holding, Writing, Content, Requests,
               Jobs
    <2>6. QED
        BY <2>3, <2>4, <2>5
<1>8. CASE ShortBody(r)
    <2>1. req[r] \in Requests /\ Slot(r) \in Slots
        BY <1>1, <1>8, SlotType DEF ReqInv, ShortBody
    <2>2. Slot(r)' = Slot(r)
        BY <1>8 DEF ShortBody, Slot
    <2>3. TypeOK'
        BY <1>1, <1>8, <2>1
           DEF ShortBody, Return, TypeOK, ReqInv, Jobs, Results, Labels, Holding, Writing,
               Content, Requests, UploadStates
    <2>4. Local(r)
        BY <1>1, <1>8, <2>1 DEF ShortBody, Return, Local, TypeOK, ReqInv, Holding, Writing
    <2>5. ReqInv(r)'
        BY <1>1, <1>8, <2>1, <2>2
           DEF ShortBody, Return, TypeOK, ReqInv, Holding, Writing, Content, Requests, Jobs
    <2>6. QED
        BY <2>3, <2>4, <2>5
<1>9. CASE FetchMiss(r)
    <2>1. req[r] \in Requests /\ Slot(r) \in Slots
        BY <1>1, <1>9, SlotType DEF ReqInv, FetchMiss
    <2>2. Slot(r)' = Slot(r)
        BY <1>9 DEF FetchMiss, Slot
    <2>3. TypeOK'
        BY <1>1, <1>9, <2>1
           DEF FetchMiss, Return, TypeOK, ReqInv, Jobs, Results, Labels, Holding, Writing,
               Content, Requests, UploadStates
    <2>4. Local(r)
        BY <1>1, <1>9, <2>1 DEF FetchMiss, Return, Local, TypeOK, ReqInv, Holding, Writing
    <2>5. ReqInv(r)'
        BY <1>1, <1>9, <2>1, <2>2
           DEF FetchMiss, Return, TypeOK, ReqInv, Holding, Writing, Content, Requests, Jobs
    <2>6. QED
        BY <2>3, <2>4, <2>5
<1>10. CASE FetchError(r)
    <2>1. req[r] \in Requests /\ Slot(r) \in Slots
        BY <1>1, <1>10, SlotType DEF ReqInv, FetchError
    <2>2. Slot(r)' = Slot(r)
        BY <1>10 DEF FetchError, Slot
    <2>3. TypeOK'
        BY <1>1, <1>10, <2>1
           DEF FetchError, Return, TypeOK, ReqInv, Jobs, Results, Labels, Holding, Writing,
               Content, Requests, UploadStates
    <2>4. Local(r)
        BY <1>1, <1>10, <2>1 DEF FetchError, Return, Local, TypeOK, ReqInv, Holding, Writing
    <2>5. ReqInv(r)'
        BY <1>1, <1>10, <2>1, <2>2
           DEF FetchError, Return, TypeOK, ReqInv, Holding, Writing, Content, Requests,
               Jobs
    <2>6. QED
        BY <2>3, <2>4, <2>5
<1>11. CASE FetchAttrs(r)
    <2>1. req[r] \in Requests /\ Slot(r) \in Slots
        BY <1>1, <1>11, SlotType DEF ReqInv, FetchAttrs
    <2>2. Slot(r)' = Slot(r)
        BY <1>11 DEF FetchAttrs, Slot
    <2>3. TypeOK'
        BY <1>1, <1>11, <2>1
           DEF FetchAttrs, TypeOK, ReqInv, Jobs, Results, Labels, Holding, Writing,
               Content, Requests, UploadStates
    <2>4. Local(r)
        BY <1>1, <1>11, <2>1 DEF FetchAttrs, Local, TypeOK, ReqInv, Holding, Writing
    <2>5. ReqInv(r)'
        BY <1>1, <1>11, <2>1, <2>2
           DEF FetchAttrs, TypeOK, ReqInv, Holding, Writing, Content, Requests, Jobs
    <2>6. QED
        BY <2>3, <2>4, <2>5
<1>12. CASE FetchHit(r)
    <2>1. req[r] \in Requests /\ Slot(r) \in Slots
        BY <1>1, <1>12, SlotType DEF ReqInv, FetchHit, Fetching
    <2>2. Slot(r)' = Slot(r)
        BY <1>12 DEF FetchHit, Slot
    <2>3. TypeOK'
        BY <1>1, <1>12, <2>1
           DEF FetchHit, Fetching, FetchedOut, FetchedBody, Decode, Raw, TypeOK, ReqInv,
               Jobs, Results, Labels, Holding, Writing, Content, Requests, UploadStates
    <2>4. Local(r)
        BY <1>1, <1>12, <2>1
           DEF FetchHit, Fetching, FetchedOut, FetchedBody, Decode, Raw, Local, TypeOK,
               ReqInv, Holding, Writing
    <2>5. ReqInv(r)'
        BY <1>1, <1>12, <2>1, <2>2
           DEF FetchHit, Fetching, FetchedOut, FetchedBody, Decode, Raw, TypeOK, ReqInv,
               Holding, Writing, Content, Requests, Jobs
    <2>6. QED
        BY <2>3, <2>4, <2>5
<1>13. CASE FetchUndecodable(r)
    <2>1. req[r] \in Requests /\ Slot(r) \in Slots
        BY <1>1, <1>13, SlotType DEF ReqInv, FetchUndecodable, Fetching
    <2>2. Slot(r)' = Slot(r)
        BY <1>13 DEF FetchUndecodable, Slot
    <2>3. TypeOK'
        BY <1>1, <1>13, <2>1
           DEF FetchUndecodable, Fetching, Return, TypeOK, ReqInv, Jobs, Results, Labels,
               Holding, Writing, Content, Requests, UploadStates
    <2>4. Local(r)
        BY <1>1, <1>13, <2>1
           DEF FetchUndecodable, Fetching, Return, Local, TypeOK, ReqInv, Holding, Writing
    <2>5. ReqInv(r)'
        BY <1>1, <1>13, <2>1, <2>2
           DEF FetchUndecodable, Fetching, Return, TypeOK, ReqInv, Holding, Writing,
               Content, Requests, Jobs
    <2>6. QED
        BY <2>3, <2>4, <2>5
<1>14. CASE Create(r)
    <2>1. req[r] \in Requests /\ Slot(r) \in Slots
        BY <1>1, <1>14, SlotType DEF ReqInv, Create
    <2>2. Slot(r)' = Slot(r)
        BY <1>14 DEF Create, Slot
    <2>3. TypeOK'
        BY <1>1, <1>14, <2>1
           DEF Create, CreateTmp, TypeOK, ReqInv, Jobs, Results, Labels, Holding, Writing,
               Content, Requests, UploadStates
    <2>4. Local(r)
        BY <1>1, <1>14, <2>1 DEF Create, CreateTmp, Local, TypeOK, ReqInv, Holding, Writing
    <2>5. ReqInv(r)'
        BY <1>1, <1>14, <2>1, <2>2
           DEF Create, CreateTmp, TypeOK, ReqInv, Holding, Writing, Content, Requests, Jobs
    <2>6. QED
        BY <2>3, <2>4, <2>5
<1>15. CASE CreateFails(r)
    <2>1. req[r] \in Requests /\ Slot(r) \in Slots
        BY <1>1, <1>15, SlotType DEF ReqInv, CreateFails
    <2>2. Slot(r)' = Slot(r)
        BY <1>15 DEF CreateFails, Slot
    <2>3. TypeOK'
        BY <1>1, <1>15, <2>1
           DEF CreateFails, Return, TypeOK, ReqInv, Jobs, Results, Labels, Holding,
               Writing, Content, Requests, UploadStates
    <2>4. Local(r)
        BY <1>1, <1>15, <2>1
           DEF CreateFails, Return, Local, TypeOK, ReqInv, Holding, Writing
    <2>5. ReqInv(r)'
        BY <1>1, <1>15, <2>1, <2>2
           DEF CreateFails, Return, TypeOK, ReqInv, Holding, Writing, Content, Requests,
               Jobs
    <2>6. QED
        BY <2>3, <2>4, <2>5
<1>16. CASE Copy(r)
    <2>1. req[r] \in Requests /\ Slot(r) \in Slots
        BY <1>1, <1>16, SlotType DEF ReqInv, Copy
    <2>2. Slot(r)' = Slot(r)
        BY <1>16 DEF Copy, Slot
    <2>3. TypeOK'
        BY <1>1, <1>16, <2>1
           DEF Copy, FillTmp, TypeOK, ReqInv, Jobs, Results, Labels, Holding, Writing,
               Content, Requests, UploadStates
    <2>4. Local(r)
        BY <1>1, <1>16, <2>1 DEF Copy, FillTmp, Local, TypeOK, ReqInv, Holding, Writing
    <2>5. ReqInv(r)'
        BY <1>1, <1>16, <2>1, <2>2
           DEF Copy, FillTmp, TypeOK, ReqInv, Holding, Writing, Content, Requests, Jobs
    <2>6. QED
        BY <2>3, <2>4, <2>5
<1>17. CASE CopyFails(r)
    <2>1. req[r] \in Requests /\ Slot(r) \in Slots
        BY <1>1, <1>17, SlotType DEF ReqInv, CopyFails
    <2>2. Slot(r)' = Slot(r)
        BY <1>17 DEF CopyFails, Slot
    <2>3. TypeOK'
        BY <1>1, <1>17, <2>1
           DEF CopyFails, RemoveTmp, Return, TypeOK, ReqInv, Jobs, Results, Labels,
               Holding, Writing, Content, Requests, UploadStates
    <2>4. Local(r)
        BY <1>1, <1>17, <2>1
           DEF CopyFails, RemoveTmp, Return, Local, TypeOK, ReqInv, Holding, Writing
    <2>5. ReqInv(r)'
        BY <1>1, <1>17, <2>1, <2>2
           DEF CopyFails, RemoveTmp, Return, TypeOK, ReqInv, Holding, Writing, Content,
               Requests, Jobs
    <2>6. QED
        BY <2>3, <2>4, <2>5
<1>18. CASE Rename(r)
    <2>1. req[r] \in Requests /\ Slot(r) \in Slots
        BY <1>1, <1>18, SlotType DEF ReqInv, Rename
    <2>2. Slot(r)' = Slot(r)
        BY <1>18 DEF Rename, Slot
    <2>3. TypeOK'
        BY <1>1, <1>18, <2>1
           DEF Rename, RenameTmp, TypeOK, ReqInv, Jobs, Results, Labels, Holding, Writing,
               Content, Requests, UploadStates
    <2>4. Local(r)
        BY <1>1, <1>18, <2>1 DEF Rename, RenameTmp, Local, TypeOK, ReqInv, Holding, Writing
    <2>5. ReqInv(r)'
        BY <1>1, <1>18, <2>1, <2>2
           DEF Rename, RenameTmp, TypeOK, ReqInv, Holding, Writing, Content, Requests, Jobs
    <2>6. QED
        BY <2>3, <2>4, <2>5
<1>19. CASE RenameFails(r)
    <2>1. req[r] \in Requests /\ Slot(r) \in Slots
        BY <1>1, <1>19, SlotType DEF ReqInv, RenameFails
    <2>2. Slot(r)' = Slot(r)
        BY <1>19 DEF RenameFails, Slot
    <2>3. TypeOK'
        BY <1>1, <1>19, <2>1
           DEF RenameFails, RemoveTmp, Return, TypeOK, ReqInv, Jobs, Results, Labels,
               Holding, Writing, Content, Requests, UploadStates
    <2>4. Local(r)
        BY <1>1, <1>19, <2>1
           DEF RenameFails, RemoveTmp, Return, Local, TypeOK, ReqInv, Holding, Writing
    <2>5. ReqInv(r)'
        BY <1>1, <1>19, <2>1, <2>2
           DEF RenameFails, RemoveTmp, Return, TypeOK, ReqInv, Holding, Writing, Content,
               Requests, Jobs
    <2>6. QED
        BY <2>3, <2>4, <2>5
<1>20. CASE WriteMeta(r)
    <2>1. req[r] \in Requests /\ Slot(r) \in Slots
        BY <1>1, <1>20, SlotType DEF ReqInv, WriteMeta
    <2>2. Slot(r)' = Slot(r)
        BY <1>20 DEF WriteMeta, Slot
    <2>3. TypeOK'
        BY <1>1, <1>20, <2>1
           DEF WriteMeta, WriteMetaTmp, TypeOK, ReqInv, Jobs, Results, Labels, Holding,
               Writing, Content, Requests, UploadStates
    <2>4. Local(r)
        BY <1>1, <1>20, <2>1
           DEF WriteMeta, WriteMetaTmp, Local, TypeOK, ReqInv, Holding, Writing
    <2>5. ReqInv(r)'
        BY <1>1, <1>20, <2>1, <2>2
           DEF WriteMeta, WriteMetaTmp, TypeOK, ReqInv, Holding, Writing, Content,
               Requests, Jobs
    <2>6. QED
        BY <2>3, <2>4, <2>5
<1>21. CASE WriteMetaFails(r)
    <2>1. req[r] \in Requests /\ Slot(r) \in Slots
        BY <1>1, <1>21, SlotType DEF ReqInv, WriteMetaFails
    <2>2. Slot(r)' = Slot(r)
        BY <1>21 DEF WriteMetaFails, Slot
    <2>3a. res' \in [Reqs -> Results] /\ pc' \in [Reqs -> Labels]
        BY <1>1, <1>21, <2>1, ReturnType
           DEF WriteMetaFails, WriteMetaTmp, AfterWrite, ReqInv, TypeOK, Writing, Labels,
               Holding
    <2>3. TypeOK'
        BY <1>1, <1>21, <2>1, <2>3a
           DEF WriteMetaFails, WriteMetaTmp, AfterWrite, Return, TypeOK, ReqInv, Writing
    <2>4. Local(r)
        BY <1>1, <1>21, <2>1
           DEF WriteMetaFails, WriteMetaTmp, AfterWrite, Return, Local, TypeOK, ReqInv,
               Holding, Writing
    <2>5. ReqInv(r)'
        BY <1>1, <1>21, <2>1, <2>2
           DEF WriteMetaFails, WriteMetaTmp, AfterWrite, Return, TypeOK, ReqInv, Holding,
               Writing, Content, Requests, Jobs
    <2>6. QED
        BY <2>3, <2>4, <2>5
<1>22. CASE RenameMeta(r)
    <2>1. req[r] \in Requests /\ Slot(r) \in Slots
        BY <1>1, <1>22, SlotType DEF ReqInv, RenameMeta
    <2>2. Slot(r)' = Slot(r)
        BY <1>22 DEF RenameMeta, Slot
    <2>3a. res' \in [Reqs -> Results] /\ pc' \in [Reqs -> Labels]
        BY <1>1, <1>22, <2>1, ReturnType
           DEF RenameMeta, RenameMetaTmp, AfterWrite, ReqInv, TypeOK, Writing, Labels,
               Holding
    <2>3. TypeOK'
        BY <1>1, <1>22, <2>1, <2>3a
           DEF RenameMeta, RenameMetaTmp, AfterWrite, Return, TypeOK, ReqInv, Writing
    <2>4. Local(r)
        BY <1>1, <1>22, <2>1
           DEF RenameMeta, RenameMetaTmp, AfterWrite, Return, Local, TypeOK, ReqInv,
               Holding, Writing
    <2>5. ReqInv(r)'
        BY <1>1, <1>22, <2>1, <2>2
           DEF RenameMeta, RenameMetaTmp, AfterWrite, Return, TypeOK, ReqInv, Holding,
               Writing, Content, Requests, Jobs
    <2>6. QED
        BY <2>3, <2>4, <2>5
<1>23. CASE RenameMetaFails(r)
    <2>1. req[r] \in Requests /\ Slot(r) \in Slots
        BY <1>1, <1>23, SlotType DEF ReqInv, RenameMetaFails
    <2>2. Slot(r)' = Slot(r)
        BY <1>23 DEF RenameMetaFails, Slot
    <2>3a. res' \in [Reqs -> Results] /\ pc' \in [Reqs -> Labels]
        BY <1>1, <1>23, <2>1, ReturnType
           DEF RenameMetaFails, RemoveMetaTmp, AfterWrite, ReqInv, TypeOK, Writing, Labels,
               Holding
    <2>3. TypeOK'
        BY <1>1, <1>23, <2>1, <2>3a
           DEF RenameMetaFails, RemoveMetaTmp, AfterWrite, Return, TypeOK, ReqInv, Writing
    <2>4. Local(r)
        BY <1>1, <1>23, <2>1
           DEF RenameMetaFails, RemoveMetaTmp, AfterWrite, Return, Local, TypeOK, ReqInv,
               Holding, Writing
    <2>5. ReqInv(r)'
        BY <1>1, <1>23, <2>1, <2>2
           DEF RenameMetaFails, RemoveMetaTmp, AfterWrite, Return, TypeOK, ReqInv, Holding,
               Writing, Content, Requests, Jobs
    <2>6. QED
        BY <2>3, <2>4, <2>5
<1>24. CASE PutAsync(r)
    <2>1. req[r] \in Requests /\ Slot(r) \in Slots
        BY <1>1, <1>24, SlotType DEF ReqInv, PutAsync
    <2>2. Slot(r)' = Slot(r)
        BY <1>24 DEF PutAsync, Slot
    <2>3. TypeOK'
        BY <1>1, <1>24, <2>1
           DEF PutAsync, StartUpload, RejectUpload, Return, TypeOK, ReqInv, Jobs, Results,
               Labels, Holding, Writing, Content, Requests, UploadStates
    <2>4. Local(r)
        BY <1>1, <1>24, <2>1
           DEF PutAsync, StartUpload, RejectUpload, Return, Local, TypeOK, ReqInv, Holding,
               Writing
    <2>5. ReqInv(r)'
        BY <1>1, <1>24, <2>1, <2>2
           DEF PutAsync, StartUpload, RejectUpload, Return, TypeOK, ReqInv, Holding,
               Writing, Content, Requests, Jobs
    <2>6. QED
        BY <2>3, <2>4, <2>5
<1>25. CASE PutSync(r)
    <2>1. req[r] \in Requests /\ Slot(r) \in Slots
        BY <1>1, <1>25, SlotType DEF ReqInv, PutSync
    <2>2. Slot(r)' = Slot(r)
        BY <1>25 DEF PutSync, Slot
    <2>3. TypeOK'
        BY <1>1, <1>25, <2>1
           DEF PutSync, StartPut, TypeOK, ReqInv, Jobs, Results, Labels, Holding, Writing,
               Content, Requests, UploadStates
    <2>4. Local(r)
        BY <1>1, <1>25, <2>1 DEF PutSync, StartPut, Local, TypeOK, ReqInv, Holding, Writing
    <2>5. ReqInv(r)'
        BY <1>1, <1>25, <2>1, <2>2
           DEF PutSync, StartPut, TypeOK, ReqInv, Holding, Writing, Content, Requests, Jobs
    <2>6. QED
        BY <2>3, <2>4, <2>5
<1>26. CASE PutReturns(r)
    <2>1. req[r] \in Requests /\ Slot(r) \in Slots
        BY <1>1, <1>26, SlotType DEF ReqInv, PutReturns
    <2>2. Slot(r)' = Slot(r)
        BY <1>26 DEF PutReturns, Slot
    <2>3. TypeOK'
        BY <1>1, <1>26, <2>1
           DEF PutReturns, CountPut, Return, TypeOK, ReqInv, Jobs, Results, Labels,
               Holding, Writing, Content, Requests, UploadStates
    <2>4. Local(r)
        BY <1>1, <1>26, <2>1
           DEF PutReturns, CountPut, Return, Local, TypeOK, ReqInv, Holding, Writing
    <2>5. ReqInv(r)'
        BY <1>1, <1>26, <2>1, <2>2
           DEF PutReturns, CountPut, Return, TypeOK, ReqInv, Holding, Writing, Content,
               Requests, Jobs
    <2>6. QED
        BY <2>3, <2>4, <2>5
<1>27. CASE Unlock(r)
    <2>1. req[r] \in Requests /\ Slot(r) \in Slots
        BY <1>1, <1>27, SlotType DEF ReqInv, Unlock
    <2>2. Slot(r)' = Slot(r)
        BY <1>27 DEF Unlock, Slot
    <2>3. TypeOK'
        BY <1>1, <1>27, <2>1
           DEF Unlock, ReleaseLock, TypeOK, ReqInv, Jobs, Results, Labels, Holding,
               Writing, Content, Requests, UploadStates
    <2>4. Local(r)
        BY <1>1, <1>27, <2>1
           DEF Unlock, ReleaseLock, Local, TypeOK, ReqInv, Holding, Writing
    <2>5. ReqInv(r)'
        BY <1>1, <1>27, <2>1, <2>2
           DEF Unlock, ReleaseLock, TypeOK, ReqInv, Holding, Writing, Content, Requests,
               Jobs
    <2>6. QED
        BY <2>3, <2>4, <2>5
<1>28. CASE Reply(r)
    <2>1. req[r] \in Requests /\ Slot(r) \in Slots
        BY <1>1, <1>28, SlotType DEF ReqInv, Reply
    <2>2. Slot(r)' = Slot(r)
        BY <1>28 DEF Reply, Slot
    <2>3. TypeOK'
        BY <1>1, <1>28, <2>1
           DEF Reply, TypeOK, ReqInv, Jobs, Results, Labels, Holding, Writing, Content,
               Requests, UploadStates
    <2>4. Local(r)
        BY <1>1, <1>28, <2>1 DEF Reply, Local, TypeOK, ReqInv, Holding, Writing
    <2>5. ReqInv(r)'
        BY <1>1, <1>28, <2>1, <2>2
           DEF Reply, TypeOK, ReqInv, Holding, Writing, Content, Requests, Jobs
    <2>6. QED
        BY <2>3, <2>4, <2>5
<1>29. QED
    BY <1>2, <1>3, <1>4, <1>5, <1>6, <1>7, <1>8, <1>9, <1>10, <1>11, <1>12, <1>13, <1>14,
       <1>15, <1>16, <1>17, <1>18, <1>19, <1>20, <1>21, <1>22, <1>23, <1>24, <1>25, <1>26,
       <1>27, <1>28
       DEF Step

(* A request is read: only its goroutine starts. *)
LEMMA ReadRequestLocal ==
    ASSUME NEW r \in Reqs, TypeOK, ReqInv(r), ReadRequest(r)
    PROVE  TypeOK' /\ Local(r) /\ ReqInv(r)'
<1> USE DEF ReadRequest, Goto, fileVars, backendVars
<1>1. TypeOK /\ ReqInv(r)
    OBVIOUS
<1>2. TypeOK'
    BY <1>1 DEF TypeOK, Labels
<1>3. Local(r)
    BY <1>1 DEF Local, TypeOK
<1>4. ReqInv(r)'
    BY <1>1 DEF TypeOK, ReqInv, Holding, Writing
<1>5. QED
    BY <1>2, <1>3, <1>4

(* A backend PUT ends: the store and the state of that upload change. *)
LEMMA SettleLocal ==
    ASSUME NEW r \in Reqs, TypeOK, ReqInv(r), Settle(r)
    PROVE  TypeOK' /\ Local(r) /\ ReqInv(r)'
<1> USE DEF Settle, UploadLands, UploadFails, UploadLate, Store, fileVars, handlerVars
<1>1. TypeOK /\ ReqInv(r)
    OBVIOUS
<1>2. req[r] \in Requests /\ req[r].op = "put"
    BY <1>1 DEF ReqInv
<1>3. req[r].key \in Keys /\ Object(r) \in Content
    BY <1>2, ObjectType DEF Requests
<1>4. TypeOK'
    BY <1>1, <1>3 DEF TypeOK, UploadStates
<1>5. Local(r)
    BY <1>1 DEF Local, TypeOK
<1>6. ReqInv(r)'
    BY <1>1, <1>2 DEF TypeOK, ReqInv, Slot
<1>7. QED
    BY <1>4, <1>5, <1>6

(* A crash: the requests that live on keep their locks and files. *)
LEMMA CrashType ==
    ASSUME TypeOK, NEW p \in Procs, Crash(p)
    PROVE  TypeOK'
BY DEF Crash, DropLocks, AbandonUploads, InFlight, fileVars, handlerVars, TypeOK, Labels,
       UploadStates

LEMMA CrashKeeps ==
    ASSUME TypeOK, NEW p \in Procs, Crash(p), NEW q \in Reqs, ReqInv(q)
    PROVE  ReqInv(q)' /\ (Placed(q) => Placed(q)')
<1> DEFINE mine == {r \in Reqs : ProcOf[r] = p /\ pc[r] # "done"}
<1> USE DEF Crash, DropLocks, AbandonUploads, InFlight, fileVars, handlerVars
<1>1. Slot(q)' = Slot(q)
    BY DEF Slot
<1>2. upload'[q] # "none" => upload[q] # "none"
    BY DEF TypeOK
<1>3. CASE q \in mine
    BY <1>2, <1>3 DEF ReqInv, Placed, Holding, Writing
<1>4. CASE q \notin mine
    <2>1. pc'[q] = pc[q]
        BY <1>4
    <2>2. pc[q] \in Holding => lock'[Slot(q)] = q
        <3>1. pc[q] \in Holding => Slot(q) \in Slots
            BY SlotType DEF ReqInv, Holding, Writing
        <3>2. QED
            BY <1>4, <3>1 DEF ReqInv
    <2>3. QED
        BY <1>1, <1>2, <2>1, <2>2 DEF ReqInv, Placed
<1>5. QED
    BY <1>3, <1>4

(* Each stage of writeWithMetadata leaves its file to the next one. *)
LEMMA StepPlaced ==
    ASSUME Inv, NEW r \in Reqs, Step(r)
    PROVE  Placed(r)'
<1> USE DEF Goto, fileVars, backendVars, handlerVars
<1>1. TypeOK /\ ReqInv(r) /\ Placed(r)
    BY DEF Inv
<1>2. Slot(r)' = Slot(r)
    BY StepKeepsQuestions DEF Slot
<1>3. CASE Copy(r) \/ Rename(r) \/ WriteMeta(r)
    <2>1. Slot(r) \in Slots /\ job' = job
        BY <1>1, <1>3, SlotType DEF ReqInv, Copy, Rename, WriteMeta
    <2>2. QED
        BY <1>1, <1>2, <1>3, <2>1
           DEF Copy, FillTmp, Rename, RenameTmp, WriteMeta, WriteMetaTmp, Placed, TypeOK
<1>4. CASE ~(Copy(r) \/ Rename(r) \/ WriteMeta(r))
    <2>1. pc'[r] \notin {"rename", "wmeta", "rmeta"}
        BY <1>1, <1>4
           DEF Step, AcquireLock, LockBusy, LockTimeout, LockError, LockFails, CheckHit,
               CheckMiss, GoOn, ShortBody, FetchMiss, FetchError, FetchAttrs, FetchHit,
               FetchUndecodable, Create, CreateFails, CopyFails, RenameFails, WriteMetaFails,
               RenameMeta, RenameMetaFails, AfterWrite, Return, PutAsync, PutSync,
               PutReturns, Unlock, Reply, TypeOK
    <2>2. QED
        BY <2>1 DEF Placed
<1>5. QED
    BY <1>3, <1>4

(* Inv is inductive. *)
LEMMA NextInv ==
    ASSUME Inv, [Next]_vars
    PROVE  Inv'
<1> USE DEF Inv
<1>1. ASSUME NEW r \in Reqs, ReadRequest(r) \/ Step(r) \/ Settle(r) PROVE Inv'
    <2>1. TypeOK' /\ Local(r) /\ ReqInv(r)'
        BY <1>1, ReadRequestLocal, StepLocal, SettleLocal
    <2>2. ASSUME NEW q \in Reqs \ {r} PROVE ReqInv(q)' /\ Placed(q)'
        BY <2>1, OthersKeep
    <2>3. ReadRequest(r) \/ Settle(r) => Placed(r)'
        BY DEF ReadRequest, Settle, Goto, Placed, Slot, TypeOK, fileVars, handlerVars
    <2>4. QED
        BY <1>1, <2>1, <2>2, <2>3, StepPlaced
<1>2. ASSUME NEW p \in Procs, Crash(p) PROVE Inv'
    BY <1>2, CrashType, CrashKeeps
<1>3. ASSUME NEW k \in Keys, Clear(k) PROVE Inv'
    BY <1>3 DEF Clear, DeleteObject, fileVars, handlerVars, TypeOK, ReqInv, Placed, Slot
<1>4. CASE UNCHANGED vars
    BY <1>4 DEF vars, fileVars, backendVars, TypeOK, ReqInv, Placed, Slot
<1>5. QED
    BY <1>1, <1>2, <1>3, <1>4 DEF Next, Terminating

(* Types, and where a request inside DoWithLock stands with its files and  *)
(* its lock (ReqInv), in every reachable state.                            *)
THEOREM Invariance == Spec => []Inv
BY InitInv, NextInv, PTL DEF Spec

(* Every variable has its type in every reachable state; in particular no  *)
(* path that can be given out holds a file that is still being written     *)
(* (localcache.go:172, "prevents any partial cache files").                *)
THEOREM TypeCorrect == Spec => []TypeOK
BY Invariance, PTL DEF Inv

(* locking.Group's promise: no two requests for one action ID of one host  *)
(* are inside DoWithLock's function, whatever crashes and fails.           *)
THEOREM MutualExclusion == Spec => []LockExclusive
<1>1. Inv => LockExclusive
    BY DEF Inv, ReqInv, LockExclusive
<1>2. QED
    BY <1>1, Invariance, PTL

(* A goroutine leaves the function by Unlock only, and enters it by taking *)
(* the lock.                                                               *)
LEMMA StepHolds ==
    ASSUME TypeOK, NEW r \in Reqs, ReqInv(r), Step(r)
    PROVE  \/ lock' = lock /\ (pc[r] \in Holding => pc'[r] \in Holding)
           \/ lock' = [lock EXCEPT ![Slot(r)] = r] /\ pc'[r] \in Holding
           \/ lock' = [lock EXCEPT ![Slot(r)] = None]
<1> USE DEF Goto, fileVars, backendVars, handlerVars, Holding, Writing
<1>1. CASE AcquireLock(r)
    BY <1>1 DEF AcquireLock, TakeLock, TypeOK
<1>2. CASE Unlock(r)
    BY <1>2 DEF Unlock, ReleaseLock
<1>3. CASE LockBusy(r) \/ LockTimeout(r) \/ LockError(r) \/ Reply(r)
    BY <1>3 DEF LockBusy, LockTimeout, LockError, LockFails, Reply
<1>4. CASE CheckHit(r) \/ ShortBody(r) \/ FetchMiss(r) \/ FetchError(r)
           \/ FetchUndecodable(r) \/ CreateFails(r) \/ CopyFails(r) \/ RenameFails(r)
           \/ WriteMetaFails(r) \/ RenameMeta(r) \/ RenameMetaFails(r) \/ PutAsync(r)
           \/ PutReturns(r)
    BY <1>4
       DEF CheckHit, ShortBody, FetchMiss, FetchError, FetchUndecodable, CreateFails,
           CopyFails, RenameFails, WriteMetaFails, RenameMeta, RenameMetaFails, AfterWrite,
           PutAsync, PutReturns, Return, TypeOK
<1>5. CASE CheckMiss(r) \/ FetchAttrs(r) \/ FetchHit(r) \/ Create(r) \/ Copy(r)
           \/ Rename(r) \/ WriteMeta(r) \/ PutSync(r)
    BY <1>5
       DEF CheckMiss, GoOn, FetchAttrs, FetchHit, Create, Copy, Rename, WriteMeta, PutSync,
           TypeOK
<1>6. QED
    BY <1>1, <1>2, <1>3, <1>4, <1>5 DEF Step

(* Such a step, of one goroutine, leaves no lock to nobody. *)
LEMMA LeaksNothing ==
    ASSUME TypeOK, NoLockLeaked, NEW r \in Reqs, Local(r), req' = req,
           \/ lock' = lock /\ (pc[r] \in Holding => pc'[r] \in Holding)
           \/ lock' = [lock EXCEPT ![Slot(r)] = r] /\ pc'[r] \in Holding
           \/ lock' = [lock EXCEPT ![Slot(r)] = None]
    PROVE  NoLockLeaked'
<1> SUFFICES ASSUME NEW s \in Slots, lock'[s] # None
             PROVE  pc'[lock'[s]] \in Holding /\ Slot(lock[s])' = s
    BY DEF NoLockLeaked
<1>1. lock[s] # None => lock[s] \in Reqs /\ pc[lock[s]] \in Holding /\ Slot(lock[s]) = s
    BY DEF NoLockLeaked, TypeOK
<1>2. CASE lock'[s] # lock[s]
    <2>1. Slot(r) = s /\ lock'[s] = r /\ pc'[r] \in Holding
        BY <1>2 DEF TypeOK
    <2>2. QED
        BY <2>1 DEF Slot
<1>3. CASE lock'[s] = lock[s]
    <2>1. Slot(lock[s])' = s
        BY <1>1, <1>3 DEF Slot
    <2>2. CASE lock[s] # r
        BY <1>1, <1>3, <2>1, <2>2 DEF Local
    <2>3. CASE lock[s] = r
        BY <1>1, <1>3, <2>1, <2>3 DEF TypeOK
    <2>4. QED
        BY <2>2, <2>3
<1>4. QED
    BY <1>2, <1>3

LEMMA CrashHolds ==
    ASSUME TypeOK, NoLockLeaked, NEW p \in Procs, Crash(p)
    PROVE  NoLockLeaked'
BY DEF NoLockLeaked, TypeOK, Crash, DropLocks, handlerVars, Slot, Holding, Writing

LEMMA NextHolds ==
    ASSUME Inv, NoLockLeaked, [Next]_vars
    PROVE  NoLockLeaked'
<1>1. \A s \in Slots : lock[s] # None =>
          lock[s] \in Reqs /\ pc[lock[s]] \in Holding /\ Slot(lock[s]) = s
    BY DEF NoLockLeaked, Inv, TypeOK
<1>2. ASSUME NEW r \in Reqs, Step(r)
      PROVE  NoLockLeaked'
    <2>1. TypeOK /\ ReqInv(r) /\ Local(r) /\ req' = req
        BY <1>2, StepLocal, StepKeepsQuestions DEF Inv
    <2>2. QED
        BY <1>2, <2>1, StepHolds, LeaksNothing
<1>3. ASSUME NEW r \in Reqs, ReadRequest(r)
      PROVE  NoLockLeaked'
    BY <1>1, <1>3 DEF NoLockLeaked, ReadRequest, Goto, Slot, Inv, TypeOK, Holding, Writing
<1>4. ASSUME NEW p \in Procs, Crash(p)
      PROVE  NoLockLeaked'
    BY <1>4, CrashHolds DEF Inv
<1>5. CASE (\E r \in Reqs : Settle(r)) \/ (\E k \in Keys : Clear(k)) \/ UNCHANGED vars
    BY <1>1, <1>5 DEF NoLockLeaked, Settle, Clear, vars, handlerVars, Slot
<1>6. QED
    BY <1>2, <1>3, <1>4, <1>5 DEF Next, Terminating

(* No lock is leaked (memlock.go:28, fslock.go:63): whatever fails, the    *)
(* holder of a lock is a live request inside the function.                 *)
THEOREM LocksReturned == Spec => []NoLockLeaked
<1>1. Init => NoLockLeaked
    BY DEF Init, LockInit, NoLockLeaked
<1>2. Inv /\ NoLockLeaked /\ [Next]_vars => NoLockLeaked'
    BY NextHolds
<1>3. QED
    BY <1>1, <1>2, Invariance, PTL DEF Spec

-----------------------------------------------------------------------------
(* Where metadata can always be read, a request past the check at the head *)
(* of the handler works on a slot that has no entry.                       *)
Quiet(r) == pc[r] \in Writing \cup {"fetch", "reader"} => meta[Slot(r)] = None

WriteInv == \A r \in Reqs : Quiet(r)

(* Published entries, and the paths they lead to, are left as they are. *)
EntriesKept ==
    \A s \in Slots : meta[s] # None => meta'[s] = meta[s] /\ data'[s] = data[s]

(* Only the stages of writeWithMetadata change a data or metadata file. *)
LEMMA OnlyWritersWrite ==
    ASSUME NEW r \in Reqs, Step(r), pc[r] \notin Writing
    PROVE  UNCHANGED <<data, meta>>
BY DEF Step, Writing, fileVars,
       AcquireLock, LockBusy, LockTimeout, LockError, LockFails, CheckHit, CheckMiss, GoOn,
       ShortBody, FetchMiss, FetchError, FetchAttrs, FetchHit, FetchUndecodable, Create, CreateFails,
       Copy, CopyFails, Rename, RenameFails, WriteMeta, WriteMetaFails, RenameMeta,
       RenameMetaFails, PutAsync, PutSync, PutReturns, Unlock, Reply

(* A step of a request changes no entry: a writer's slot has none. *)
LEMMA StepKeepsEntries ==
    ASSUME Inv, WriteInv, NEW r \in Reqs, Step(r)
    PROVE  EntriesKept
<1>1. CASE pc[r] \notin Writing
    BY <1>1, OnlyWritersWrite DEF EntriesKept
<1>2. CASE pc[r] \in Writing
    <2>1. Local(r)
        BY StepLocal DEF Inv
    <2>2. meta[Slot(r)] = None
        BY <1>2 DEF WriteInv, Quiet
    <2>3. QED
        BY <2>1, <2>2 DEF Local, EntriesKept, fileVars
<1>3. QED
    BY <1>1, <1>2

(* Nothing else a process, the backend or a crash does touches the files. *)
LEMMA NextKeepsEntries ==
    ASSUME Inv, WriteInv, [Next]_vars
    PROVE  EntriesKept
<1>1. ASSUME NEW r \in Reqs, Step(r) PROVE EntriesKept
    BY <1>1, StepKeepsEntries
<1>2. CASE UNCHANGED fileVars
    BY <1>2 DEF fileVars, EntriesKept
<1>3. QED
    BY <1>1, <1>2
       DEF Next, ReadRequest, Settle, Crash, Clear, Terminating, vars, fileVars

(* The request that steps: it gets past the check only where no entry is,  *)
(* and stops being a writer when it publishes one.                         *)
LEMMA StepQuiet ==
    ASSUME ReadsReliable, TypeOK, NEW r \in Reqs, ReqInv(r), Quiet(r), Step(r)
    PROVE  Quiet(r)'
<1> USE DEF Quiet, Goto, fileVars, handlerVars
<1>1. TypeOK /\ ReqInv(r)
    OBVIOUS
<1>2. CASE CheckMiss(r)
    BY <1>1, <1>2 DEF CheckMiss, GoOn, Found, TypeOK, Slot, Writing
<1>3. CASE FetchAttrs(r) \/ FetchHit(r) \/ Create(r) \/ Copy(r) \/ Rename(r) \/ WriteMeta(r)
    BY <1>1, <1>3
       DEF FetchAttrs, FetchHit, Fetching, Create, Copy, Rename, WriteMeta, CreateTmp,
           FillTmp, RenameTmp,
           WriteMetaTmp, TypeOK, Slot, Writing
<1>4. CASE pc'[r] \notin Writing \cup {"fetch", "reader"}
    BY <1>4
<1>5. CASE AcquireLock(r) \/ LockBusy(r) \/ PutSync(r) \/ Unlock(r) \/ Reply(r)
    BY <1>1, <1>4, <1>5 DEF AcquireLock, LockBusy, PutSync, Unlock, Reply, TypeOK, Writing
<1>6. CASE LockTimeout(r) \/ LockError(r)
    BY <1>1, <1>4, <1>6 DEF LockTimeout, LockError, LockFails, TypeOK, Writing
<1>7. CASE CheckHit(r) \/ ShortBody(r) \/ FetchMiss(r) \/ FetchError(r)
           \/ FetchUndecodable(r) \/ CreateFails(r) \/ CopyFails(r) \/ RenameFails(r)
           \/ PutAsync(r) \/ PutReturns(r)
    BY <1>1, <1>4, <1>7
       DEF CheckHit, ShortBody, FetchMiss, FetchError, FetchUndecodable, CreateFails,
           CopyFails, RenameFails, PutAsync, PutReturns, Return, TypeOK, Writing
<1>8. CASE WriteMetaFails(r) \/ RenameMeta(r) \/ RenameMetaFails(r)
    BY <1>1, <1>4, <1>8
       DEF WriteMetaFails, RenameMeta, RenameMetaFails, AfterWrite, Return, TypeOK, Writing
<1>9. QED
    BY <1>2, <1>3, <1>5, <1>6, <1>7, <1>8 DEF Step

(* The others: the slot of a request between check and publication is its  *)
(* own, so no step of another request gives it an entry.                   *)
LEMMA OthersQuiet ==
    ASSUME NEW r \in Reqs, NEW q \in Reqs \ {r}, ReqInv(q), Quiet(q), Local(r)
    PROVE  Quiet(q)'
<1>1. CASE pc[q] \in Writing \cup {"fetch", "reader"}
    BY <1>1, OthersFiles DEF Quiet, Holding
<1>2. CASE pc[q] \notin Writing \cup {"fetch", "reader"}
    BY <1>2 DEF Quiet, Local
<1>3. QED
    BY <1>1, <1>2

LEMMA NextWriteInv ==
    ASSUME ReadsReliable, Inv, WriteInv, [Next]_vars
    PROVE  WriteInv'
<1>1. ASSUME NEW r \in Reqs, ReadRequest(r) \/ Step(r) \/ Settle(r),
             NEW q \in Reqs \ {r}
      PROVE  Quiet(q)'
    <2>1. Local(r)
        BY <1>1, ReadRequestLocal, StepLocal, SettleLocal DEF Inv
    <2>2. QED
        BY <2>1, OthersQuiet DEF WriteInv, Inv
<1>2. ASSUME NEW r \in Reqs, ReadRequest(r) \/ Step(r) \/ Settle(r)
      PROVE  Quiet(r)'
    <2>1. CASE Step(r)
        BY <2>1, StepQuiet DEF WriteInv, Inv
    <2>2. CASE ReadRequest(r)
        BY <2>2 DEF ReadRequest, Goto, Quiet, Writing, Inv, TypeOK
    <2>3. CASE Settle(r)
        BY <2>3 DEF Settle, Quiet, WriteInv, Slot, fileVars, handlerVars
    <2>4. QED
        BY <1>2, <2>1, <2>2, <2>3
<1>3. ASSUME NEW p \in Procs, Crash(p)
      PROVE  WriteInv'
    BY <1>3 DEF Crash, WriteInv, Quiet, Slot, Writing, fileVars, handlerVars
<1>4. CASE UNCHANGED <<fileVars, handlerVars, pc>>
    BY <1>4 DEF fileVars, handlerVars, WriteInv, Quiet, Slot
<1>5. QED
    BY <1>1, <1>2, <1>3, <1>4
       DEF Next, Clear, Terminating, vars, fileVars, handlerVars, WriteInv

(* While a request writes its files (localcache.go:191) its slot has no    *)
(* entry that another request could find, in every reachable state.        *)
THEOREM WriteInvariance ==
    ASSUME ReadsReliable
    PROVE  Spec => []WriteInv
<1>1. Init => WriteInv
    BY DEF Init, WriteInv, Quiet, Writing
<1>2. Inv /\ WriteInv /\ [Next]_vars => WriteInv'
    BY NextWriteInv
<1>3. QED
    BY <1>1, <1>2, Invariance, PTL DEF Spec

(* Once an entry can be found by its metadata, no step of any process ever *)
(* changes it: a request whose check missed holds the lock of a slot that  *)
(* stays without an entry until the request itself publishes one.          *)
THEOREM Immutability ==
    ASSUME ReadsReliable
    PROVE  Spec => EntriesImmutable
<1>1. Inv /\ WriteInv /\ [Next]_vars =>
        [\A s \in Slots : meta[s] # None => meta'[s] = meta[s] /\ data'[s] = data[s]]_vars
    BY NextKeepsEntries DEF EntriesKept
<1>2. QED
    BY <1>1, Invariance, WriteInvariance, PTL DEF Spec, EntriesImmutable

-----------------------------------------------------------------------------
(* A slot gets an entry in one way only: the rename of the metadata file,  *)
(* when the data file is the body of the same request.                     *)
LEMMA Publication ==
    ASSUME Inv, NEW r \in Reqs, Step(r), NEW s \in Slots, meta[s] = None, meta'[s] # None
    PROVE  /\ pc[r] \in Writing
           /\ meta'[s] = job[r].out
           /\ data'[s] = job[r].body
<1>1. TypeOK /\ ReqInv(r) /\ Placed(r)
    BY DEF Inv
<1>2. CASE RenameMeta(r)
    BY <1>1, <1>2 DEF RenameMeta, RenameMetaTmp, TypeOK, ReqInv, Placed, Writing
<1>3. CASE UNCHANGED meta
    BY <1>3
<1>4. QED
    BY <1>2, <1>3
       DEF Step, fileVars, CreateTmp, FillTmp, RenameTmp, RemoveTmp, WriteMetaTmp,
           RemoveMetaTmp,
           AcquireLock, LockBusy, LockTimeout, LockError, LockFails, CheckHit, CheckMiss, GoOn,
           ShortBody, FetchMiss, FetchError, FetchAttrs, FetchHit, FetchUndecodable, Create, CreateFails,
           Copy, CopyFails, Rename, RenameFails, WriteMeta, WriteMetaFails,
           RenameMetaFails, PutAsync, PutSync, PutReturns, Unlock, Reply

(* The entry of a slot has the bytes of the output it names, up to         *)
(* encoding, however the hosts set -compression: the metadata is renamed   *)
(* into place after the data, by the only request that may write there.    *)
THEOREM EntryNaming ==
    ASSUME ReadsReliable, SnapshotGets
    PROVE  Spec => []EntryNamesData
<1>1. Init => EntryNamesData
    BY DEF Init, FilesInit, EntryNamesData
<1>2. Inv /\ WriteInv /\ EntryNamesData /\ [Next]_vars => EntryNamesData'
    <2> SUFFICES ASSUME Inv, WriteInv, EntryNamesData, [Next]_vars, NEW s \in Slots, meta'[s] # None
                 PROVE  data'[s] # None /\ data'[s].out = meta'[s]
        BY DEF EntryNamesData
    <2>1. CASE meta[s] # None
        BY <2>1, NextKeepsEntries DEF EntriesKept, EntryNamesData
    <2>2. CASE meta[s] = None
        <3>1. PICK r \in Reqs : Step(r)
            BY <2>2 DEF Next, ReadRequest, Settle, Crash, Clear, Terminating, vars, fileVars
        <3>2. pc[r] \in Writing /\ meta'[s] = job[r].out /\ data'[s] = job[r].body
            BY <2>2, <3>1, Publication
        <3>3. QED
            BY <3>2, DistinctAssumption DEF Inv, ReqInv
    <2>3. QED
        BY <2>1, <2>2
<1>3. QED
    BY <1>1, <1>2, Invariance, WriteInvariance, PTL DEF Spec

-----------------------------------------------------------------------------
(* With one -compression setting, every object decodes to its output and   *)
(* every request writes the plain bytes of the output it goes on to name.  *)
PlainInv ==
    /\ \A k \in Keys : store[k] # None =>
          \A p \in Procs : Decode(p, store[k].out, store[k]) = Raw(store[k].out)
    /\ \A r \in Reqs : pc[r] \in Writing => job[r].body = Raw(job[r].out)

(* Compressing and decompressing an output gives the output back.          *)
LEMMA DecodeEncode ==
    ASSUME CompressionAgrees, NEW p \in Procs, NEW q \in Procs, NEW o \in Outputs
    PROVE  /\ Decode(p, o, Encode(q, o)) = Raw(o)
           /\ Encode(q, o) \in Content
           /\ Encode(q, o).out = o
BY ConfigAssumption DEF CompressionAgrees, Decode, Encode, Raw, Content

(* The bodies a request writes come from a PUT as they are or from the     *)
(* store decoded.                                                          *)
LEMMA StepPlain ==
    ASSUME SnapshotGets, TypeOK, PlainInv, NEW r \in Reqs, ReqInv(r), Step(r)
    PROVE  UNCHANGED store /\ (pc'[r] \in Writing => job'[r].body = Raw(job'[r].out))
<1> USE DEF Goto, fileVars, backendVars, handlerVars
<1>1. TypeOK /\ ReqInv(r) /\ (pc[r] \in Writing => job[r].body = Raw(job[r].out))
    BY DEF PlainInv
<1>2. CASE CheckMiss(r)
    BY <1>1, <1>2 DEF CheckMiss, GoOn, TypeOK, Writing
<1>3. CASE FetchHit(r)
    <2>1. req[r].key \in Keys /\ ProcOf[r] \in Procs
        BY <1>1, <1>3, ConfigAssumption DEF FetchHit, Fetching, ReqInv, Requests
    <2>2. QED
        BY <1>1, <1>3, <2>1
           DEF FetchHit, Fetching, FetchedOut, FetchedBody, ReqInv, PlainInv, TypeOK
<1>4. CASE Create(r) \/ Copy(r) \/ Rename(r) \/ WriteMeta(r)
    BY <1>1, <1>4 DEF Create, Copy, Rename, WriteMeta, Writing, TypeOK
<1>5. CASE AcquireLock(r) \/ LockBusy(r) \/ PutSync(r) \/ Unlock(r) \/ Reply(r)
           \/ LockTimeout(r) \/ LockError(r)
    BY <1>1, <1>5
       DEF AcquireLock, LockBusy, PutSync, Unlock, Reply, LockTimeout, LockError, LockFails,
           StartPut, TypeOK, Writing
<1>6. CASE CheckHit(r) \/ ShortBody(r) \/ FetchMiss(r) \/ FetchError(r)
           \/ FetchAttrs(r) \/ FetchUndecodable(r) \/ CreateFails(r) \/ CopyFails(r) \/ RenameFails(r)
           \/ PutAsync(r) \/ PutReturns(r)
    BY <1>1, <1>6
       DEF CheckHit, ShortBody, FetchMiss, FetchError, FetchAttrs, FetchUndecodable,
           CreateFails,
           CopyFails, RenameFails, PutAsync, PutReturns, StartUpload, RejectUpload, CountPut,
           Return, TypeOK, Writing
<1>7. CASE WriteMetaFails(r) \/ RenameMeta(r) \/ RenameMetaFails(r)
    BY <1>1, <1>7
       DEF WriteMetaFails, RenameMeta, RenameMetaFails, AfterWrite, Return, TypeOK, Writing
<1>8. QED
    BY <1>2, <1>3, <1>4, <1>5, <1>6, <1>7 DEF Step

(* An object in the store is what some process encoded.                    *)
LEMMA SettlePlain ==
    ASSUME CompressionAgrees, TypeOK, PlainInv, NEW r \in Reqs, ReqInv(r), Settle(r)
    PROVE  PlainInv'
<1>1. req[r].key \in Keys /\ req[r].out \in Outputs /\ ProcOf[r] \in Procs
    BY ConfigAssumption DEF Settle, UploadLands, UploadFails, UploadLate, ReqInv, Requests
<1>2. /\ Object(r) \in Content
      /\ \A p \in Procs : Decode(p, Object(r).out, Object(r)) = Raw(Object(r).out)
    BY <1>1, DecodeEncode DEF Object
<1>3. UNCHANGED <<pc, job>>
    BY DEF Settle, handlerVars
<1>4. UNCHANGED store \/ store' = [store EXCEPT ![req[r].key] = Object(r)]
    BY DEF Settle, UploadLands, UploadFails, UploadLate, Store
<1>5. QED
    BY <1>2, <1>3, <1>4 DEF PlainInv, TypeOK

(* PlainInv is inductive: a body taken from the store is decoded with the  *)
(* flag it was encoded with.                                               *)
LEMMA NextPlain ==
    ASSUME SnapshotGets, CompressionAgrees, Inv, PlainInv, [Next]_vars
    PROVE  PlainInv'
<1>1. ASSUME NEW r \in Reqs, Step(r)
      PROVE  PlainInv'
    <2>1. Local(r)
        BY <1>1, StepLocal DEF Inv
    <2>2. QED
        BY <1>1, <2>1, StepPlain DEF PlainInv, Local, Inv
<1>2. ASSUME NEW r \in Reqs, ReadRequest(r)
      PROVE  PlainInv'
    BY <1>2 DEF ReadRequest, Goto, PlainInv, Writing, Inv, TypeOK, backendVars
<1>3. ASSUME NEW r \in Reqs, Settle(r)
      PROVE  PlainInv'
    BY <1>3, SettlePlain DEF Inv
<1>4. ASSUME NEW p \in Procs, Crash(p)
      PROVE  PlainInv'
    BY <1>4 DEF Crash, AbandonUploads, handlerVars, PlainInv, Writing
<1>5. ASSUME NEW k \in Keys, Clear(k)
      PROVE  PlainInv'
    BY <1>5 DEF Clear, DeleteObject, handlerVars, PlainInv, Inv, TypeOK
<1>6. CASE UNCHANGED vars
    BY <1>6 DEF vars, handlerVars, backendVars, PlainInv
<1>7. QED
    BY <1>1, <1>2, <1>3, <1>4, <1>5, <1>6 DEF Next, Terminating

(* What is written to a local file is an uncompressed output, whether it   *)
(* came from stdin or through decompressData, in every reachable state.    *)
THEOREM PlainInvariance ==
    ASSUME SnapshotGets, CompressionAgrees
    PROVE  Spec => []PlainInv
<1>1. Init => PlainInv
    BY DEF Init, BackendInit, PlainInv, Writing
<1>2. Inv /\ PlainInv /\ [Next]_vars => PlainInv'
    BY NextPlain
<1>3. QED
    BY <1>1, <1>2, Invariance, PTL DEF Spec

(* The entry of a slot has exactly the bytes of the output it names, when  *)
(* all processes use one -compression setting and metadata can be read.    *)
THEOREM Consistency ==
    ASSUME ReadsReliable, SnapshotGets, CompressionAgrees
    PROVE  Spec => []EntryConsistent
<1>1. Init => EntryConsistent
    BY DEF Init, FilesInit, EntryConsistent
<1>2. Inv /\ WriteInv /\ PlainInv /\ EntryConsistent /\ [Next]_vars => EntryConsistent'
    <2> SUFFICES ASSUME Inv, WriteInv, PlainInv, EntryConsistent, [Next]_vars,
                        NEW s \in Slots, meta'[s] # None
                 PROVE  data'[s] = Raw(meta'[s])
        BY DEF EntryConsistent
    <2>1. CASE meta[s] # None
        BY <2>1, NextKeepsEntries DEF EntriesKept, EntryConsistent
    <2>2. CASE meta[s] = None
        <3>1. PICK r \in Reqs : Step(r)
            BY <2>2 DEF Next, ReadRequest, Settle, Crash, Clear, Terminating, vars, fileVars
        <3>2. pc[r] \in Writing /\ meta'[s] = job[r].out /\ data'[s] = job[r].body
            BY <2>2, <3>1, Publication
        <3>3. QED
            BY <3>2 DEF PlainInv
    <2>3. QED
        BY <2>1, <2>2
<1>3. QED
    BY <1>1, <1>2, Invariance, WriteInvariance, PlainInvariance, PTL DEF Spec

-----------------------------------------------------------------------------
(* A GET that was answered a hit has its entry, where metadata can also    *)
(* always be written.                                                      *)
Kept(r) ==
    res[r].kind = "hit" =>
        /\ pc[r] \in {"unlock", "reply", "done", "dead"}
        /\ req[r] \in Requests
        /\ res[r].out \in Outputs
        /\ meta[Slot(r)] = res[r].out

HitInv == \A r \in Reqs : Kept(r)

(* The handler answers a hit on the entry it found or has just published.  *)
LEMMA StepKept ==
    ASSUME "meta" \notin Faults, Inv, NEW r \in Reqs, Kept(r), Step(r)
    PROVE  Kept(r)'
<1> USE DEF Goto, fileVars, handlerVars, Kept
<1>1. TypeOK /\ ReqInv(r) /\ Placed(r)
    BY DEF Inv
<1>2. CASE CheckHit(r)
    <2>1. req[r] \in Requests /\ Slot(r) \in Slots /\ Slot(r)' = Slot(r)
        BY <1>1, <1>2, SlotType DEF CheckHit, ReqInv, Slot
    <2>2. QED
        BY <1>1, <1>2, <2>1 DEF CheckHit, Found, Return, TypeOK
<1>3. CASE RenameMeta(r)
    <2>1. req[r] \in Requests /\ Slot(r) \in Slots /\ Slot(r)' = Slot(r)
        BY <1>1, <1>3, SlotType DEF RenameMeta, ReqInv, Slot
    <2>2. meta'[Slot(r)] = job[r].out /\ job[r].out \in Outputs
        BY <1>1, <1>3, <2>1
           DEF RenameMeta, RenameMetaTmp, ReqInv, Placed, Writing, TypeOK
    <2>3. QED
        BY <1>1, <1>3, <2>1, <2>2 DEF RenameMeta, AfterWrite, Return, TypeOK
<1>4. CASE Unlock(r) \/ Reply(r)
    BY <1>1, <1>4 DEF Unlock, Reply, TypeOK, Slot
<1>5. CASE AcquireLock(r) \/ LockBusy(r) \/ CheckMiss(r) \/ FetchAttrs(r) \/ FetchHit(r) \/ Create(r)
           \/ Copy(r) \/ Rename(r) \/ WriteMeta(r) \/ PutSync(r)
    BY <1>1, <1>5
       DEF AcquireLock, LockBusy, CheckMiss, GoOn, FetchAttrs, FetchHit, Fetching, Create, Copy,
           Rename, WriteMeta, PutSync
<1>6. CASE LockTimeout(r) \/ LockError(r)
    BY <1>1, <1>6 DEF LockTimeout, LockError, LockFails, TypeOK
<1>7. CASE ShortBody(r) \/ FetchMiss(r) \/ FetchError(r) \/ FetchUndecodable(r)
           \/ CreateFails(r) \/ CopyFails(r) \/ RenameFails(r) \/ PutAsync(r) \/ PutReturns(r)
    BY <1>1, <1>7
       DEF ShortBody, FetchMiss, FetchError, FetchUndecodable, CreateFails, CopyFails,
           RenameFails, PutAsync, PutReturns, Return, TypeOK
<1>8. CASE WriteMetaFails(r) \/ RenameMetaFails(r)
    BY <1>8 DEF WriteMetaFails, RenameMetaFails
<1>9. QED
    BY <1>2, <1>3, <1>4, <1>5, <1>6, <1>7, <1>8 DEF Step

(* Answers already given are kept because entries are never changed.       *)
LEMMA NextKept ==
    ASSUME "meta" \notin Faults, Inv, WriteInv, HitInv, [Next]_vars, NEW r \in Reqs
    PROVE  Kept(r)'
<1>1. Kept(r)
    BY DEF HitInv
<1>2. CASE Step(r)
    BY <1>1, <1>2, StepKept
<1>3. CASE ReadRequest(r)
    BY <1>1, <1>3 DEF ReadRequest, Kept
<1>4. ASSUME UNCHANGED <<req[r], res[r]>>, pc'[r] = pc[r] \/ pc'[r] = "dead"
      PROVE  Kept(r)'
    <2>1. Slot(r)' = Slot(r)
        BY <1>4 DEF Slot
    <2>2. CASE res[r].kind = "hit"
        <3>1. Slot(r) \in Slots /\ meta[Slot(r)] = res[r].out /\ meta[Slot(r)] # None
            BY <1>1, <2>2, SlotType, DistinctAssumption DEF Kept
        <3>2. meta'[Slot(r)] = meta[Slot(r)]
            BY <3>1, NextKeepsEntries DEF EntriesKept
        <3>3. QED
            BY <1>1, <1>4, <2>1, <2>2, <3>1, <3>2 DEF Kept
    <2>3. CASE res[r].kind # "hit"
        BY <1>4, <2>3 DEF Kept
    <2>4. QED
        BY <2>2, <2>3
<1>5. ASSUME NEW q \in Reqs \ {r}, Step(q)
      PROVE  UNCHANGED <<req[r], res[r]>> /\ pc'[r] = pc[r]
    BY <1>5
       DEF Step, Inv, TypeOK, Goto, Return, AfterWrite, handlerVars,
           AcquireLock, LockBusy, LockTimeout, LockError, LockFails, CheckHit, CheckMiss, GoOn,
           ShortBody, FetchMiss, FetchError, FetchAttrs, FetchHit, FetchUndecodable, Create, CreateFails,
           Copy, CopyFails, Rename, RenameFails, WriteMeta, WriteMetaFails, RenameMeta,
           RenameMetaFails, PutAsync, PutSync, PutReturns, Unlock, Reply
<1>6. ASSUME NEW q \in Reqs \ {r}, ReadRequest(q)
      PROVE  UNCHANGED <<req[r], res[r]>> /\ pc'[r] = pc[r]
    BY <1>6 DEF ReadRequest, Goto, Inv, TypeOK
<1>7. ASSUME (\E q \in Reqs : Settle(q)) \/ (\E p \in Procs : Crash(p))
             \/ (\E k \in Keys : Clear(k)) \/ UNCHANGED vars
      PROVE  UNCHANGED <<req[r], res[r]>> /\ (pc'[r] = pc[r] \/ pc'[r] = "dead")
    BY <1>7 DEF Settle, Crash, Clear, vars, handlerVars
<1>8. QED
    BY <1>2, <1>3, <1>4, <1>5, <1>6, <1>7 DEF Next, Terminating

(* The entry that a GET was answered with is the one its host has, for as  *)
(* long as its files last: whichever requests and crashes come in between. *)
THEOREM HitInvariance ==
    ASSUME ReadsReliable, "meta" \notin Faults
    PROVE  Spec => []HitInv
<1>1. Init => HitInv
    BY DEF Init, HitInv, Kept, NoRes
<1>2. Inv /\ WriteInv /\ HitInv /\ [Next]_vars => HitInv'
    BY NextKept DEF HitInv
<1>3. QED
    BY <1>1, <1>2, Invariance, WriteInvariance, PTL DEF Spec

(* What a GET answered stays true: the go command may open the path at any *)
(* later time and finds the output it was told (server.go:543).            *)
THEOREM AnswersValid ==
    ASSUME ReadsReliable, SnapshotGets, CompressionAgrees, "meta" \notin Faults
    PROVE  Spec => []AnswersStayValid
<1>1. Inv /\ HitInv /\ EntryConsistent => AnswersStayValid
    BY SlotType, DistinctAssumption DEF HitInv, Kept, EntryConsistent, AnswersStayValid
<1>2. QED
    BY <1>1, Invariance, HitInvariance, Consistency, PTL

(* README.md:386, where the store answers a GET with one object and its    *)
(* metadata can be kept: no path that was answered ever holds another      *)
(* output than the one it was answered for, however -compression is set.   *)
THEOREM AnswersNotTorn ==
    ASSUME ReadsReliable, SnapshotGets, "meta" \notin Faults
    PROVE  Spec => []GetsNotTorn
<1>1. Inv /\ HitInv /\ EntryNamesData => GetsNotTorn
    BY SlotType, DistinctAssumption DEF HitInv, Kept, EntryNamesData, GetsNotTorn
<1>2. QED
    BY <1>1, Invariance, HitInvariance, EntryNaming, PTL

=============================================================================
