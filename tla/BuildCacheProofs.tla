-------------------------- MODULE BuildCacheProofs --------------------------
(***************************************************************************)
(* The handlers implement BuildCache: every step of CacheProg is a step of *)
(* it or changes nothing it shows, wherever metadata can be read and       *)
(* written; everything else may fail. That a GET answers nothing but what  *)
(* was PUT needs not even that.                                            *)
(***************************************************************************)
EXTENDS CacheProgProofs

(* Where a request stands with its question and its answer, whatever fails:*)
(* it is asked once and answers once, and only GETs turn to the backend's  *)
(* objects.                                                                *)
Posed(r) ==
    /\ pc[r] = "idle" => req[r] = NoReq
    /\ pc[r] \in {"idle", "lock", "wait"} \cup (Holding \ {"unlock"}) => res[r] = NoRes
    /\ pc[r] \in {"fetch", "reader"} => req[r].op = "get"

PosedInv == \A r \in Reqs : Posed(r)

(* Where metadata can be read and written, a PUT goes to the backend only  *)
(* after its host has the entry.                                           *)
Ready(r) == Posed(r) /\ (pc[r] \in {"store", "await"} => meta[Slot(r)] # None)

ReadyInv == \A r \in Reqs : Ready(r)

(* What a request is about to publish was PUT for its action ID, and a PUT *)
(* publishes its own output.                                               *)
Sourced(r) ==
    /\ pc[r] \in Writing \cup {"reader"} => Promise!WasPut(req[r].key, job[r].out)
    /\ pc[r] \in Writing /\ req[r].op = "put" => job[r].out = req[r].out

SourceInv ==
    /\ \A r \in Reqs : Sourced(r)
    /\ \A k \in Keys : store[k] # None => Promise!WasPut(k, store[k].out)

-----------------------------------------------------------------------------
(* A request that was asked is not a blank one. *)
LEMMA AskedReal ==
    ASSUME NEW q \in Requests
    PROVE  q # NoReq
BY DEF Requests, NoReq

(* A step of another goroutine, and one of the environment, leaves the     *)
(* question, the answer and the job of r alone; it may end r by a crash.   *)
LEMMA OthersAlone ==
    ASSUME Inv, NEW r \in Reqs, [Next]_vars, ~Step(r), ~ReadRequest(r)
    PROVE  UNCHANGED <<req[r], res[r], job[r]>> /\ (pc'[r] = pc[r] \/ pc'[r] = "dead")
<1>1. ASSUME NEW q \in Reqs \ {r}, ReadRequest(q) \/ Step(q)
      PROVE  UNCHANGED <<req[r], job[r], pc[r]>>
    BY <1>1, StepLocal, ReadRequestLocal DEF Inv, Local
<1>2. ASSUME NEW q \in Reqs \ {r}, ReadRequest(q) \/ Step(q)
      PROVE  res'[r] = res[r]
    BY <1>2
       DEF Step, Inv, TypeOK, Return, AfterWrite, handlerVars, ReadRequest, AcquireLock,
           LockBusy, LockTimeout, LockError, LockFails, CheckHit, CheckMiss, GoOn,
           ShortBody, FetchMiss, FetchError, FetchAttrs, FetchHit, FetchUndecodable,
           Create, CreateFails, Copy, CopyFails, Rename, RenameFails, WriteMeta,
           WriteMetaFails, RenameMeta, RenameMetaFails, PutAsync, PutSync, PutReturns,
           Unlock, Reply
<1>3. ASSUME (\E q \in Reqs : Settle(q)) \/ (\E p \in Procs : Crash(p))
             \/ (\E k \in Keys : Clear(k)) \/ UNCHANGED vars
      PROVE  UNCHANGED <<req[r], res[r], job[r]>> /\ (pc'[r] = pc[r] \/ pc'[r] = "dead")
    BY <1>3 DEF Settle, Crash, Clear, vars, handlerVars
<1>4. QED
    BY <1>1, <1>2, <1>3 DEF Next, Terminating

(* The goroutine of r answers when its handler returns, and not before.    *)
LEMMA StepPosed ==
    ASSUME TypeOK, NEW r \in Reqs, ReqInv(r), Posed(r), Step(r)
    PROVE  Posed(r)'
<1> USE DEF Goto, fileVars, backendVars, handlerVars, Posed, Holding, Writing
<1>1. TypeOK /\ ReqInv(r) /\ Posed(r) /\ req' = req
    BY StepKeepsQuestions
<1>2. CASE AcquireLock(r) \/ LockBusy(r) \/ CheckMiss(r) \/ FetchAttrs(r) \/ FetchHit(r)
           \/ Create(r) \/ Copy(r) \/ Rename(r) \/ WriteMeta(r)
    BY <1>1, <1>2
       DEF AcquireLock, LockBusy, CheckMiss, GoOn, FetchAttrs, FetchHit, Fetching, Create,
           Copy, Rename, WriteMeta, TypeOK
<1>3. CASE LockTimeout(r) \/ LockError(r)
    BY <1>1, <1>3 DEF LockTimeout, LockError, LockFails, TypeOK
<1>4. CASE CheckHit(r) \/ ShortBody(r) \/ FetchMiss(r) \/ FetchError(r)
           \/ FetchUndecodable(r) \/ CreateFails(r) \/ CopyFails(r) \/ RenameFails(r)
           \/ PutAsync(r) \/ PutReturns(r)
    BY <1>1, <1>4
       DEF CheckHit, ShortBody, FetchMiss, FetchError, FetchUndecodable, CreateFails,
           CopyFails, RenameFails, PutAsync, PutReturns, Return, TypeOK
<1>5. CASE WriteMetaFails(r) \/ RenameMeta(r) \/ RenameMetaFails(r)
    BY <1>1, <1>5
       DEF WriteMetaFails, RenameMeta, RenameMetaFails, AfterWrite, Return, TypeOK
<1>6. CASE PutSync(r) \/ Unlock(r) \/ Reply(r)
    BY <1>1, <1>6 DEF PutSync, Unlock, Reply, TypeOK
<1>7. QED
    BY <1>2, <1>3, <1>4, <1>5, <1>6 DEF Step

(* What a request does not do itself it notices at most by dying.          *)
LEMMA NextPosed ==
    ASSUME Inv, PosedInv, [Next]_vars
    PROVE  PosedInv'
<1> SUFFICES ASSUME NEW r \in Reqs
             PROVE  Posed(r)'
    BY DEF PosedInv
<1>1. CASE Step(r)
    BY <1>1, StepPosed DEF Inv, PosedInv
<1>2. CASE ReadRequest(r)
    BY <1>2 DEF ReadRequest, PosedInv, Posed, Goto, Holding, Writing, Inv, TypeOK
<1>3. CASE ~Step(r) /\ ~ReadRequest(r)
    BY <1>3, OthersAlone DEF PosedInv, Posed, Holding, Writing
<1>4. QED
    BY <1>1, <1>2, <1>3

(* The goroutine of r enters the backend part only by way of the local     *)
(* entry it has just published.                                            *)
LEMMA StepReady ==
    ASSUME ReadsReliable, "meta" \notin Faults, Inv, NEW r \in Reqs, Ready(r), Step(r)
    PROVE  Ready(r)'
<1> USE DEF Goto, fileVars, backendVars, handlerVars
<1>1. TypeOK /\ ReqInv(r) /\ Placed(r) /\ Ready(r)
    BY DEF Inv
<1>2. Posed(r)' /\ Slot(r)' = Slot(r)
    BY <1>1, StepPosed, StepKeepsQuestions DEF Ready, Slot
<1>3. CASE RenameMeta(r)
    <2>1. Slot(r) \in Slots /\ job[r].out \in Outputs /\ mtmp[Slot(r)] = job[r].out
        BY <1>1, <1>3, SlotType DEF RenameMeta, ReqInv, Placed, Writing
    <2>2. meta'[Slot(r)] # None
        BY <1>1, <1>3, <2>1, DistinctAssumption DEF RenameMeta, RenameMetaTmp, TypeOK
    <2>3. QED
        BY <1>2, <2>2 DEF Ready
<1>4. CASE PutSync(r)
    BY <1>1, <1>2, <1>4 DEF PutSync, Ready, TypeOK
<1>5. CASE ~RenameMeta(r) /\ ~PutSync(r)
    <2>1. pc'[r] \notin {"store", "await"}
        BY <1>1, <1>5
           DEF Step, AcquireLock, LockBusy, LockTimeout, LockError, LockFails, CheckHit,
               CheckMiss, GoOn, ShortBody, FetchMiss, FetchError, FetchAttrs, FetchHit,
               FetchUndecodable, Create, CreateFails, Copy, CopyFails, Rename, RenameFails,
               WriteMeta, WriteMetaFails, RenameMetaFails, PutAsync, PutReturns, Return,
               Unlock, Reply, TypeOK
    <2>2. QED
        BY <1>2, <2>1 DEF Ready
<1>6. QED
    BY <1>3, <1>4, <1>5

(* A question is asked once, so what was PUT stays PUT. *)
LEMMA QuestionsStay ==
    ASSUME Inv, PosedInv, [Next]_vars, NEW r \in Reqs
    PROVE  /\ req[r] # NoReq => req'[r] = req[r]
           /\ req'[r] # req[r] => ReadRequest(r)
<1>1. ASSUME NEW q \in Reqs, Step(q)
      PROVE  req' = req
    BY <1>1, StepKeepsQuestions
<1>2. ASSUME NEW q \in Reqs, ReadRequest(q)
      PROVE  /\ req[r] # NoReq => req'[r] = req[r]
             /\ req'[r] # req[r] => q = r
    BY <1>2 DEF ReadRequest, PosedInv, Posed, Inv, TypeOK
<1>3. CASE UNCHANGED req
    BY <1>3
<1>4. QED
    BY <1>1, <1>2, <1>3 DEF Next, Settle, Crash, Clear, Terminating, vars, handlerVars

(* An output that was PUT for an action ID stays one that was PUT for it.  *)
LEMMA PutsStay ==
    ASSUME Inv, PosedInv, [Next]_vars, NEW k \in Keys, NEW o \in Outputs,
           Promise!WasPut(k, o)
    PROVE  Promise!WasPut(k, o)'
<1>1. PICK q \in Reqs : req[q] = [op |-> "put", key |-> k, out |-> o]
    BY DEF Promise!WasPut
<1>2. req[q] # NoReq
    BY <1>1 DEF NoReq
<1>3. QED
    BY <1>1, <1>2, QuestionsStay DEF Promise!WasPut

(* What a request does not do itself leaves it ready: a published entry is *)
(* not taken away.                                                         *)
LEMMA NextReady ==
    ASSUME ReadsReliable, "meta" \notin Faults, Inv, WriteInv, ReadyInv, [Next]_vars,
           NEW r \in Reqs
    PROVE  Ready(r)'
<1>1. Ready(r) /\ Posed(r)'
    BY NextPosed DEF ReadyInv, Ready, PosedInv
<1>2. CASE Step(r)
    BY <1>1, <1>2, StepReady
<1>3. CASE ReadRequest(r)
    BY <1>1, <1>3 DEF ReadRequest, Ready, Goto, Inv, TypeOK
<1>4. CASE ~Step(r) /\ ~ReadRequest(r) /\ pc[r] \in {"store", "await"}
    <2>1. Slot(r) \in Slots /\ meta[Slot(r)] # None
        BY <1>1, <1>4, SlotType DEF Ready, Inv, ReqInv
    <2>2. meta'[Slot(r)] = meta[Slot(r)]
        BY <2>1, NextKeepsEntries DEF EntriesKept
    <2>3. Slot(r)' = Slot(r)
        BY <1>4, OthersAlone DEF Slot
    <2>4. QED
        BY <1>1, <2>1, <2>2, <2>3 DEF Ready
<1>5. CASE ~Step(r) /\ ~ReadRequest(r) /\ pc[r] \notin {"store", "await"}
    BY <1>1, <1>5, OthersAlone DEF Ready
<1>6. QED
    BY <1>2, <1>3, <1>4, <1>5

-----------------------------------------------------------------------------
(* A PUT is a witness of its own. *)
LEMMA OwnPut ==
    ASSUME NEW r \in Reqs, req[r] \in Requests, req[r].op = "put"
    PROVE  req[r].out \in Outputs /\ Promise!WasPut(req[r].key, req[r].out)
<1>1. req[r] = [op |-> "put", key |-> req[r].key, out |-> req[r].out]
    BY DEF Requests
<1>2. QED
    BY <1>1 DEF Requests, Promise!WasPut

(* Where the output comes from that a request is about to write: its own   *)
(* body, or the object its GET fetched.                                    *)
LEMMA StepSource ==
    ASSUME TypeOK, NEW r \in Reqs, ReqInv(r), Posed(r), Sourced(r), Step(r),
           \A k \in Keys : store[k] # None => Promise!WasPut(k, store[k].out)
    PROVE  pc'[r] \in Writing \cup {"reader"} =>
               /\ req[r] \in Requests
               /\ job'[r].out \in Outputs
               /\ Promise!WasPut(req[r].key, job'[r].out)
               /\ pc'[r] \in Writing /\ req[r].op = "put" => job'[r].out = req[r].out
<1> USE DEF Goto, fileVars, backendVars, handlerVars, Writing
<1>1. TypeOK /\ ReqInv(r)
    OBVIOUS
<1>2. CASE CheckMiss(r)
    <2>1. req[r] \in Requests
        BY <1>1, <1>2 DEF CheckMiss, ReqInv
    <2>2. CASE req[r].op = "put"
        BY <1>1, <1>2, <2>1, <2>2, OwnPut DEF CheckMiss, GoOn, TypeOK
    <2>3. CASE req[r].op # "put"
        BY <1>1, <1>2, <2>1, <2>3 DEF CheckMiss, GoOn, TypeOK, Requests
    <2>4. QED
        BY <2>2, <2>3
<1>3. CASE FetchAttrs(r) \/ FetchHit(r)
    <2>1. /\ req[r] \in Requests /\ req[r].op = "get" /\ req[r].key \in Keys
          /\ store[req[r].key] \in Content /\ pc[r] \in {"fetch", "reader"}
        BY <1>1, <1>3
           DEF FetchAttrs, FetchHit, Fetching, ReqInv, Posed, Requests, TypeOK
    <2>2. Promise!WasPut(req[r].key, store[req[r].key].out)
        BY <1>3, <2>1 DEF FetchAttrs, FetchHit
    <2>3. job'[r].out = store[req[r].key].out
            \/ (pc[r] = "reader" /\ job'[r].out = job[r].out)
        <3>1. CASE FetchAttrs(r)
            BY <1>1, <3>1 DEF FetchAttrs, TypeOK
        <3>2. CASE FetchHit(r)
            BY <1>1, <3>2 DEF FetchHit, FetchedOut, TypeOK
        <3>3. QED
            BY <1>3, <3>1, <3>2
    <2>4. pc[r] = "reader" => job[r].out \in Outputs /\ Promise!WasPut(req[r].key, job[r].out)
        BY <1>1 DEF ReqInv, Sourced
    <2>5. QED
        BY <2>1, <2>2, <2>3, <2>4 DEF Content
<1>4. CASE Create(r) \/ Copy(r) \/ Rename(r) \/ WriteMeta(r)
    BY <1>1, <1>4 DEF Create, Copy, Rename, WriteMeta, TypeOK, ReqInv, Sourced
<1>5. CASE AcquireLock(r) \/ LockBusy(r) \/ PutSync(r) \/ Unlock(r) \/ Reply(r)
           \/ LockTimeout(r) \/ LockError(r)
    BY <1>1, <1>5
       DEF AcquireLock, LockBusy, PutSync, Unlock, Reply, LockTimeout, LockError,
           LockFails, TypeOK
<1>6. CASE CheckHit(r) \/ ShortBody(r) \/ FetchMiss(r) \/ FetchError(r)
           \/ FetchUndecodable(r) \/ CreateFails(r) \/ CopyFails(r) \/ RenameFails(r)
           \/ PutAsync(r) \/ PutReturns(r)
    BY <1>1, <1>6
       DEF CheckHit, ShortBody, FetchMiss, FetchError, FetchUndecodable, CreateFails,
           CopyFails, RenameFails, PutAsync, PutReturns, Return, TypeOK
<1>7. CASE WriteMetaFails(r) \/ RenameMeta(r) \/ RenameMetaFails(r)
    BY <1>1, <1>7
       DEF WriteMetaFails, RenameMeta, RenameMetaFails, AfterWrite, Return, TypeOK
<1>8. QED
    BY <1>2, <1>3, <1>4, <1>5, <1>6, <1>7 DEF Step

(* No step makes up an output: objects are what a PUT was asked to store.  *)
LEMMA NextSource ==
    ASSUME Inv, PosedInv, SourceInv, [Next]_vars
    PROVE  SourceInv'
<1>1. ASSUME NEW r \in Reqs
      PROVE  Sourced(r)'
    <2>1. CASE Step(r)
        <3>1. /\ pc'[r] \in Writing \cup {"reader"} =>
                   /\ req[r] \in Requests
                   /\ job'[r].out \in Outputs
                   /\ Promise!WasPut(req[r].key, job'[r].out)
                   /\ pc'[r] \in Writing /\ req[r].op = "put" => job'[r].out = req[r].out
            BY <2>1, StepSource DEF PosedInv, SourceInv, Inv
        <3>2. CASE pc'[r] \in Writing \cup {"reader"}
            <4>1. req'[r] = req[r] /\ req[r].key \in Keys
                BY <3>1, <3>2, AskedReal, QuestionsStay DEF Requests
            <4>2. \A o \in Outputs :
                    Promise!WasPut(req[r].key, o) => Promise!WasPut(req[r].key, o)'
                BY <4>1, PutsStay
            <4>3. QED
                BY <3>1, <3>2, <4>1, <4>2 DEF Sourced
        <3>3. QED
            BY <3>2 DEF Sourced, Writing
    <2>2. CASE pc'[r] \notin Writing \cup {"reader"}
        BY <2>2 DEF Sourced, Writing
    <2>3. CASE UNCHANGED <<pc[r], job[r]>> /\ pc[r] \in Writing \cup {"reader"}
        <3>1. req[r] \in Requests /\ job[r].out \in Outputs /\ Sourced(r)
            BY <2>3 DEF Inv, ReqInv, Writing, SourceInv
        <3>2. req'[r] = req[r] /\ req[r].key \in Keys
            BY <3>1, AskedReal, QuestionsStay DEF Requests
        <3>3. QED
            BY <2>3, <3>1, <3>2, PutsStay DEF Sourced
    <2>4. Step(r) \/ pc'[r] \notin Writing \cup {"reader"} \/ UNCHANGED <<pc[r], job[r]>>
        <3>1. ASSUME NEW q \in Reqs \ {r}, ReadRequest(q) \/ Step(q)
              PROVE  UNCHANGED <<pc[r], job[r]>>
            BY <3>1, StepLocal, ReadRequestLocal DEF Inv, Local
        <3>2. CASE ReadRequest(r)
            BY <3>2 DEF ReadRequest, Goto, Writing, Inv, TypeOK
        <3>3. ASSUME (\E q \in Reqs : Settle(q)) \/ (\E p \in Procs : Crash(p))
                     \/ (\E k \in Keys : Clear(k)) \/ UNCHANGED vars
              PROVE  job' = job /\ (pc'[r] = pc[r] \/ pc'[r] = "dead")
            BY <3>3 DEF Settle, Crash, Clear, vars, handlerVars
        <3>4. QED
            BY <3>1, <3>2, <3>3 DEF Next, Terminating, Writing
    <2>5. QED
        BY <2>1, <2>2, <2>3, <2>4
<1>2. ASSUME NEW k \in Keys, store'[k] # None
      PROVE  Promise!WasPut(k, store[k].out)'
    <2>1. CASE store'[k] = store[k]
        <3>1. store[k].out \in Outputs /\ Promise!WasPut(k, store[k].out)
            BY <1>2, <2>1 DEF Inv, TypeOK, Content, SourceInv
        <3>2. QED
            BY <2>1, <3>1, PutsStay
    <2>2. ASSUME NEW r \in Reqs, Settle(r), store'[k] # store[k]
          PROVE  Promise!WasPut(k, store[k].out)'
        <3>1. req[r] \in Requests /\ req[r].op = "put" /\ req[r].key \in Keys
            BY <2>2 DEF Settle, UploadLands, UploadFails, UploadLate, Inv, ReqInv, Requests
        <3>2. k = req[r].key /\ store'[k] = Object(r)
            BY <2>2, <3>1 DEF Settle, UploadLands, UploadFails, UploadLate, Store, Inv, TypeOK
        <3>3. QED
            BY <3>1, <3>2, OwnPut, PutsStay DEF Object, Encode
    <2>3. ASSUME NEW r \in Reqs, ReadRequest(r) \/ Step(r)
          PROVE  store' = store
        BY <2>3
           DEF Step, ReadRequest, backendVars, AcquireLock, LockBusy, LockTimeout, LockError,
               LockFails, CheckHit, CheckMiss, GoOn, ShortBody, FetchMiss, FetchError,
               FetchAttrs, FetchHit, FetchUndecodable, Create, CreateFails, Copy, CopyFails,
               Rename, RenameFails, WriteMeta, WriteMetaFails, RenameMeta, RenameMetaFails,
               PutAsync, PutSync, PutReturns, StartUpload, RejectUpload, StartPut, CountPut,
               Unlock, Reply
    <2>4. ASSUME NEW p \in Procs, Crash(p)
          PROVE  store' = store
        BY <2>4 DEF Crash, AbandonUploads
    <2>5. ASSUME NEW j \in Keys, Clear(j)
          PROVE  store'[k] = store[k]
        BY <1>2, <2>5 DEF Clear, DeleteObject, Inv, TypeOK
    <2>6. CASE UNCHANGED vars
        BY <2>1, <2>6 DEF vars, backendVars
    <2>7. QED
        BY <2>1, <2>2, <2>3, <2>4, <2>5, <2>6 DEF Next, Terminating
<1>3. QED
    BY <1>1, <1>2 DEF SourceInv

-----------------------------------------------------------------------------
(* A handler that gives up answers a failure and writes nothing. *)
LEMMA FailureServes ==
    ASSUME NEW r \in Reqs, NEW kind \in {"err", "nolock"}, res[r] = NoRes,
           req[r] \in Requests,
           res' = [res EXCEPT ![r] = [kind |-> kind, out |-> None]], UNCHANGED <<req, meta>>
    PROVE  Promise!Serve(r)
BY AskedReal
   DEF Promise!Serve, Promise!Fail, Promise!Answer, Promise!NoRes, Promise!NoReq, NoRes,
       NoReq

(* The goroutine of r serves its question, or shows nothing: it answers    *)
(* what the register holds when the handler returns, and writes the        *)
(* register in the rename of the metadata file alone.                      *)
LEMMA StepServe ==
    ASSUME ReadsReliable, "meta" \notin Faults, Inv, WriteInv,
           NEW r \in Reqs, Ready(r), Sourced(r), Step(r)
    PROVE  Promise!Serve(r) \/ UNCHANGED <<req, meta, res>>
<1> USE DEF Goto, fileVars, backendVars, handlerVars
<1>1. TypeOK /\ ReqInv(r) /\ Placed(r) /\ Quiet(r)
    BY DEF Inv, WriteInv
<1>2. CASE AcquireLock(r) \/ LockBusy(r) \/ CheckMiss(r) \/ FetchAttrs(r) \/ FetchHit(r)
           \/ Create(r) \/ Copy(r) \/ Rename(r) \/ WriteMeta(r) \/ PutSync(r) \/ Unlock(r)
           \/ Reply(r)
    BY <1>2
       DEF AcquireLock, LockBusy, CheckMiss, GoOn, FetchAttrs, FetchHit, Create, CreateTmp,
           Copy, FillTmp, Rename, RenameTmp, WriteMeta, WriteMetaTmp, PutSync, Unlock, Reply
<1>3. ASSUME pc[r] \in {"lock", "wait"} \cup (Holding \ {"unlock"})
      PROVE  req[r] \in Requests /\ req[r] # NoReq /\ res[r] = NoRes
    BY <1>1, <1>3, AskedReal DEF ReqInv, Ready, Posed, Holding, Writing
<1>4. CASE LockTimeout(r) \/ LockError(r)
    BY <1>3, <1>4, FailureServes DEF LockTimeout, LockError, LockFails
<1>5. CASE ShortBody(r) \/ FetchError(r) \/ FetchUndecodable(r) \/ CreateFails(r)
           \/ CopyFails(r) \/ RenameFails(r)
    <2>1. /\ pc[r] \in Holding \ {"unlock"}
          /\ res' = [res EXCEPT ![r] = [kind |-> "err", out |-> None]]
          /\ UNCHANGED <<req, meta>>
        BY <1>5
           DEF ShortBody, FetchError, FetchUndecodable, Fetching, CreateFails, CopyFails,
               RenameFails, RemoveTmp, Return, Holding, Writing
    <2>2. QED
        BY <1>3, <2>1, FailureServes
<1>6. CASE CheckHit(r)
    <2>1. req[r] \in Requests /\ req[r] # NoReq /\ res[r] = NoRes
        BY <1>3, <1>6 DEF CheckHit, Holding
    <2>2. /\ meta[Slot(r)] # None /\ UNCHANGED <<req, meta>>
          /\ IF req[r].op = "get"
             THEN res' = [res EXCEPT ![r] = [kind |-> "hit", out |-> meta[Slot(r)]]]
             ELSE res' = [res EXCEPT ![r] = [kind |-> "put", out |-> None]]
        BY <1>6 DEF CheckHit, Found, Return
    <2>3. Promise!Hit(r) \/ Promise!Stored(r)
        BY <2>1, <2>2
           DEF Promise!Hit, Promise!Stored, Promise!Answer, Promise!NoRes, NoRes,
               Promise!Register, Slot, Requests
    <2>4. QED
        BY <2>1, <2>2, <2>3 DEF Promise!Serve, Promise!NoReq, NoReq
<1>7. CASE FetchMiss(r)
    <2>1. req[r] # NoReq /\ res[r] = NoRes /\ req[r].op = "get" /\ meta[Slot(r)] = None
        BY <1>1, <1>3, <1>7 DEF FetchMiss, Holding, Ready, Posed, Quiet
    <2>2. /\ res' = [res EXCEPT ![r] = [kind |-> "miss", out |-> None]]
          /\ UNCHANGED <<req, meta>>
        BY <1>7 DEF FetchMiss, Return
    <2>3. Promise!Miss(r)
        BY <2>1, <2>2
           DEF Promise!Miss, Promise!Answer, Promise!NoRes, NoRes, Promise!Register, Slot
    <2>4. QED
        BY <2>1, <2>2, <2>3 DEF Promise!Serve, Promise!NoReq, NoReq
<1>8. CASE RenameMeta(r)
    <2>1. /\ req[r] \in Requests /\ req[r] # NoReq /\ res[r] = NoRes
          /\ Slot(r) \in Slots /\ meta[Slot(r)] = None
          /\ job[r].out \in Outputs /\ mtmp[Slot(r)] = job[r].out
        BY <1>1, <1>3, <1>8, SlotType
           DEF RenameMeta, Holding, Writing, ReqInv, Placed, Quiet
    <2>2. /\ meta' = [meta EXCEPT ![Slot(r)] = job[r].out] /\ UNCHANGED req
          /\ meta'[Slot(r)] = job[r].out /\ job[r].out # None
        BY <1>1, <1>8, <2>1, DistinctAssumption DEF RenameMeta, RenameMetaTmp, TypeOK
    <2>3. Promise!Write(r)
        <3>1. /\ Promise!WasPut(req[r].key, job[r].out)
              /\ req[r].op = "put" => job[r].out = req[r].out
            BY <1>8 DEF RenameMeta, Sourced, Writing
        <3>2. QED
            BY <2>1, <2>2, <3>1 DEF Promise!Write, Promise!Register, Slot
    <2>4. Promise!Hit(r) \/ Promise!Stored(r) \/ UNCHANGED res
        BY <1>8, <2>1, <2>2
           DEF RenameMeta, AfterWrite, Return, Promise!Hit, Promise!Stored, Promise!Answer,
               Promise!NoRes, NoRes, Promise!Register, Slot
    <2>5. QED
        BY <2>1, <2>2, <2>3, <2>4 DEF Promise!Serve, Promise!NoReq, NoReq
<1>9. CASE PutAsync(r) \/ PutReturns(r)
    <2>1. /\ req[r] # NoReq /\ res[r] = NoRes /\ req[r].op = "put" /\ meta[Slot(r)] # None
        BY <1>1, <1>3, <1>9 DEF PutAsync, PutReturns, Holding, Ready, ReqInv
    <2>2. /\ res' = [res EXCEPT ![r] = [kind |-> "put", out |-> None]]
          /\ UNCHANGED <<req, meta>>
        BY <1>9 DEF PutAsync, PutReturns, Return
    <2>3. Promise!Stored(r)
        BY <2>1, <2>2
           DEF Promise!Stored, Promise!Answer, Promise!NoRes, NoRes, Promise!Register, Slot
    <2>4. QED
        BY <2>1, <2>2, <2>3 DEF Promise!Serve, Promise!NoReq, NoReq
<1>10. CASE WriteMetaFails(r) \/ RenameMetaFails(r)
    BY <1>10 DEF WriteMetaFails, RenameMetaFails
<1>11. QED
    BY <1>2, <1>4, <1>5, <1>6, <1>7, <1>8, <1>9, <1>10 DEF Step

(* The handlers of all processes and hosts keep the promise of BuildCache, *)
(* where metadata can be read and written: whatever else fails, and in     *)
(* whatever order requests, uploads and crashes come, a GET answers what   *)
(* was PUT for its action ID, once and for all on its host.                *)
THEOREM Implementation ==
    ASSUME ReadsReliable, "meta" \notin Faults
    PROVE  Spec => ImplementsBuildCache
<1>1. Init => Promise!Init /\ ReadyInv /\ SourceInv
    <2>1. Init => Promise!Init
        BY DEF Init, FilesInit, Promise!Init, Promise!Slots, Slots, Promise!NoReq, NoReq,
               Promise!NoRes, NoRes
    <2>2. Init => ReadyInv
        BY DEF Init, ReadyInv, Ready, Posed, Holding, Writing
    <2>3. Init => SourceInv
        BY DEF Init, BackendInit, SourceInv, Sourced, Writing
    <2>4. QED
        BY <2>1, <2>2, <2>3
<1>2. Inv /\ WriteInv /\ ReadyInv /\ [Next]_vars => ReadyInv'
    BY NextReady DEF ReadyInv
<1>3. Inv /\ ReadyInv /\ SourceInv /\ [Next]_vars => SourceInv'
    BY NextSource DEF ReadyInv, Ready, PosedInv
<1>4. Inv /\ WriteInv /\ ReadyInv /\ SourceInv /\ [Next]_vars
          => [Promise!Next]_<<req, meta, res>>
    <2> SUFFICES ASSUME Inv, WriteInv, ReadyInv, SourceInv, [Next]_vars
                 PROVE  Promise!Next \/ UNCHANGED <<req, meta, res>>
        OBVIOUS
    <2>1. ASSUME NEW r \in Reqs, Step(r)
          PROVE  Promise!Next \/ UNCHANGED <<req, meta, res>>
        BY <2>1, StepServe DEF ReadyInv, SourceInv, Promise!Next
    <2>2. ASSUME NEW r \in Reqs, ReadRequest(r)
          PROVE  Promise!Next
        <3>1. req[r] = NoReq
            BY <2>2 DEF ReadRequest, ReadyInv, Ready, Posed
        <3>2. Promise!Ask(r)
            BY <2>2, <3>1
               DEF ReadRequest, fileVars, Promise!Ask, Promise!Requests, Requests,
                   Promise!NoReq, NoReq
        <3>3. QED
            BY <3>2 DEF Promise!Next
    <2>3. CASE (\E r \in Reqs : Settle(r)) \/ (\E p \in Procs : Crash(p))
               \/ (\E k \in Keys : Clear(k)) \/ UNCHANGED vars
        BY <2>3 DEF Settle, Crash, Clear, vars, fileVars, handlerVars
    <2>4. QED
        BY <2>1, <2>2, <2>3 DEF Next, Terminating
<1>5. QED
    BY <1>1, <1>2, <1>3, <1>4, Invariance, WriteInvariance, PTL
       DEF Spec, ImplementsBuildCache, Promise!Spec

-----------------------------------------------------------------------------
(* What follows from the registers alone follows for the handlers: Laws is *)
(* Promise together with the theorems about it.                            *)
Laws == INSTANCE BuildCacheLaws WITH asked <- req, entry <- meta, answer <- res

(* Where metadata can be read and written, no host goes back on an answer, *)
(* in whatever process and after whatever crash the next one is given      *)
(* (server.go:412, 540): what was hit or PUT is not missed later, and the  *)
(* hits of a host name one output.                                         *)
THEOREM AnswersKept ==
    ASSUME ReadsReliable, "meta" \notin Faults
    PROVE  Spec => AnswersStand
<1>1. Promise!Init => Laws!Init
    BY DEF Promise!Init, Promise!Slots, Promise!NoReq, Promise!NoRes,
           Laws!Init, Laws!Slots, Laws!NoReq, Laws!NoRes
<1>2. Promise!Next => Laws!Next
    BY DEF Promise!Next, Promise!Ask, Promise!Serve, Promise!Write, Promise!Hit,
           Promise!Miss, Promise!Stored, Promise!Fail, Promise!Answer, Promise!Register,
           Promise!WasPut, Promise!Requests, Promise!NoReq, Promise!NoRes,
           Laws!Next, Laws!Ask, Laws!Serve, Laws!Write, Laws!Hit, Laws!Miss, Laws!Stored,
           Laws!Fail, Laws!Answer, Laws!Register, Laws!WasPut, Laws!Requests,
           Laws!NoReq, Laws!NoRes
<1>3. Laws!Spec => Laws!AnswersStand
    BY Laws!RegistersStand, ConfigAssumption, DistinctAssumption, MemoryLockAssumption
       DEF Laws!FaultKinds, FaultKinds, Laws!Content, Content
<1>4. Laws!AnswersStand => AnswersStand
    BY DEF AnswersStand, Promise!AnswersStand, Laws!AnswersStand, Promise!Register,
           Laws!Register
<1>5. QED
    BY <1>1, <1>2, <1>3, <1>4, Implementation, PTL
       DEF ImplementsBuildCache, Promise!Spec, Laws!Spec

-----------------------------------------------------------------------------
(* Metadata comes into place in one way only.                              *)
LEMMA OnlyRenamesMeta ==
    ASSUME NEW r \in Reqs, Step(r), ~RenameMeta(r)
    PROVE  meta' = meta
BY DEF Step, fileVars, CreateTmp, FillTmp, RenameTmp, RemoveTmp, WriteMetaTmp,
       RemoveMetaTmp, AcquireLock, LockBusy, LockTimeout, LockError, LockFails, CheckHit,
       CheckMiss, GoOn, ShortBody, FetchMiss, FetchError, FetchAttrs, FetchHit,
       FetchUndecodable, Create, CreateFails, Copy, CopyFails, Rename, RenameFails,
       WriteMeta, WriteMetaFails, RenameMetaFails, PutAsync, PutSync, PutReturns, Unlock,
       Reply

(* ... and names the output of the job of the request that renames it.     *)
LEMMA StepNames ==
    ASSUME TypeOK, NEW r \in Reqs, ReqInv(r), Step(r), NEW s \in Slots, meta'[s] # None
    PROVE  \/ meta'[s] = meta[s]
           \/ pc[r] = "rmeta" /\ Slot(r) = s /\ meta'[s] = job[r].out
<1>1. CASE RenameMeta(r)
    <2>1. pc[r] = "rmeta" /\ mtmp[Slot(r)] \in {job[r].out, None}
        BY <1>1 DEF RenameMeta, ReqInv
    <2>2. QED
        BY <1>1, <2>1 DEF RenameMeta, RenameMetaTmp, TypeOK
<1>2. QED
    BY <1>1, OnlyRenamesMeta

(* A handler answers a hit on the entry that it found, or on its own job.  *)
LEMMA StepAnswers ==
    ASSUME TypeOK, NEW r \in Reqs, ReqInv(r), Step(r), res'[r].kind = "hit"
    PROVE  \/ res'[r] = res[r]
           \/ Slot(r) \in Slots /\ meta[Slot(r)] # None /\ res'[r].out = meta[Slot(r)]
           \/ pc[r] \in Writing /\ res'[r].out = job[r].out
<1> USE DEF Goto, fileVars, handlerVars, TypeOK
<1>1. CASE CheckHit(r)
    <2>1. Slot(r) \in Slots
        BY <1>1, SlotType DEF CheckHit, ReqInv
    <2>2. QED
        BY <1>1, <2>1 DEF CheckHit, Found, Return
<1>2. CASE WriteMetaFails(r) \/ RenameMeta(r) \/ RenameMetaFails(r)
    BY <1>2
       DEF WriteMetaFails, RenameMeta, RenameMetaFails, AfterWrite, Return, Writing
<1>3. CASE ShortBody(r) \/ FetchMiss(r) \/ FetchError(r) \/ FetchUndecodable(r)
           \/ CreateFails(r) \/ CopyFails(r) \/ RenameFails(r) \/ PutAsync(r) \/ PutReturns(r)
           \/ LockTimeout(r) \/ LockError(r)
    BY <1>3
       DEF ShortBody, FetchMiss, FetchError, FetchUndecodable, CreateFails, CopyFails,
           RenameFails, PutAsync, PutReturns, LockTimeout, LockError, LockFails, Return
<1>4. CASE AcquireLock(r) \/ LockBusy(r) \/ CheckMiss(r) \/ FetchAttrs(r) \/ FetchHit(r)
           \/ Create(r) \/ Copy(r) \/ Rename(r) \/ WriteMeta(r) \/ PutSync(r) \/ Unlock(r)
           \/ Reply(r)
    BY <1>4
       DEF AcquireLock, LockBusy, CheckMiss, GoOn, FetchAttrs, FetchHit, Create, Copy,
           Rename, WriteMeta, PutSync, Unlock, Reply
<1>5. QED
    BY <1>1, <1>2, <1>3, <1>4 DEF Step

(* What a host has published was PUT for its action ID, and so was what a  *)
(* GET answered.                                                           *)
EntriesSourced == \A s \in Slots : meta[s] # None => Promise!WasPut(s[2], meta[s])

AnswerSourced(r) ==
    res[r].kind = "hit" =>
        /\ req[r] \in Requests
        /\ res[r].out \in Outputs
        /\ Promise!WasPut(req[r].key, res[r].out)

AnswersSourced == \A r \in Reqs : AnswerSourced(r)

LEMMA NextEntriesSourced ==
    ASSUME Inv, PosedInv, SourceInv, EntriesSourced, [Next]_vars
    PROVE  EntriesSourced'
<1> SUFFICES ASSUME NEW s \in Slots, meta'[s] # None
             PROVE  Promise!WasPut(s[2], meta[s])'
    BY DEF EntriesSourced
<1>1. s[2] \in Keys /\ meta[s] \in Outputs \cup {None}
    BY DEF Slots, Inv, TypeOK
<1>2. CASE meta'[s] = meta[s]
    <2>1. meta[s] \in Outputs /\ Promise!WasPut(s[2], meta[s])
        BY <1>1, <1>2 DEF EntriesSourced
    <2>2. QED
        BY <1>1, <1>2, <2>1, PutsStay DEF Promise!WasPut
<1>3. CASE meta'[s] # meta[s]
    <2>1. PICK r \in Reqs : Step(r)
        BY <1>3 DEF Next, ReadRequest, Settle, Crash, Clear, Terminating, vars, fileVars
    <2>2. pc[r] = "rmeta" /\ Slot(r) = s /\ meta'[s] = job[r].out
        BY <1>3, <2>1, StepNames DEF Inv
    <2>3. s[2] = req[r].key /\ job[r].out \in Outputs
        BY <2>2 DEF Slot, Inv, ReqInv, Writing
    <2>4. Promise!WasPut(s[2], job[r].out)
        BY <2>2, <2>3 DEF SourceInv, Sourced, Writing
    <2>5. QED
        BY <1>1, <2>2, <2>3, <2>4, PutsStay DEF Promise!WasPut
<1>4. QED
    BY <1>2, <1>3

LEMMA NextAnswersSourced ==
    ASSUME Inv, PosedInv, SourceInv, EntriesSourced, AnswersSourced, [Next]_vars
    PROVE  AnswersSourced'
<1> SUFFICES ASSUME NEW r \in Reqs, res'[r].kind = "hit"
             PROVE  /\ req'[r] \in Requests /\ res'[r].out \in Outputs
                    /\ Promise!WasPut(req[r].key, res[r].out)'
    BY DEF AnswersSourced, AnswerSourced
<1>1. req[r] \in Requests => req'[r] = req[r] /\ req[r].key \in Keys
    BY AskedReal, QuestionsStay DEF Requests
<1>2. ASSUME req[r] \in Requests, res'[r].out \in Outputs,
             Promise!WasPut(req[r].key, res'[r].out)
      PROVE  /\ req'[r] \in Requests /\ res'[r].out \in Outputs
             /\ Promise!WasPut(req[r].key, res[r].out)'
    BY <1>1, <1>2, PutsStay DEF Promise!WasPut
<1>3. CASE res'[r] = res[r]
    BY <1>2, <1>3 DEF AnswersSourced, AnswerSourced
<1>4. CASE res'[r] # res[r]
    <2>1. Step(r)
        BY <1>4, OthersAlone DEF ReadRequest
    <2>2. req[r] \in Requests
        BY <2>1, StepAwake DEF Inv, ReqInv
    <2>3. \/ Slot(r) \in Slots /\ meta[Slot(r)] # None /\ res'[r].out = meta[Slot(r)]
          \/ pc[r] \in Writing /\ res'[r].out = job[r].out
        BY <1>4, <2>1, StepAnswers DEF Inv
    <2>4. Slot(r)[2] = req[r].key
        BY DEF Slot
    <2>5. res'[r].out \in Outputs /\ Promise!WasPut(req[r].key, res'[r].out)
        BY <2>3, <2>4 DEF Inv, TypeOK, ReqInv, EntriesSourced, SourceInv, Sourced
    <2>6. QED
        BY <1>2, <2>2, <2>5
<1>5. QED
    BY <1>3, <1>4

(* A GET only ever answers an output that some request PUT for its action  *)
(* ID: neither a failure nor a crash nor a lost or reordered upload makes  *)
(* one up or gives one action ID the output of another.                    *)
THEOREM Provenanced == Spec => []Provenance
<1>1. Init => PosedInv /\ SourceInv /\ EntriesSourced /\ AnswersSourced
    BY DEF Init, FilesInit, BackendInit, PosedInv, Posed, SourceInv, Sourced,
           EntriesSourced, AnswersSourced, AnswerSourced, NoRes, Holding, Writing
<1>2. Inv /\ PosedInv /\ [Next]_vars => PosedInv'
    BY NextPosed
<1>3. Inv /\ PosedInv /\ SourceInv /\ [Next]_vars => SourceInv'
    BY NextSource
<1>4. Inv /\ PosedInv /\ SourceInv /\ EntriesSourced /\ [Next]_vars => EntriesSourced'
    BY NextEntriesSourced
<1>5. Inv /\ PosedInv /\ SourceInv /\ EntriesSourced /\ AnswersSourced /\ [Next]_vars
          => AnswersSourced'
    BY NextAnswersSourced
<1>6. AnswersSourced => Provenance
    BY DEF AnswersSourced, AnswerSourced, Provenance, Promise!WasPut
<1>7. QED
    BY <1>1, <1>2, <1>3, <1>4, <1>5, <1>6, Invariance, PTL DEF Spec

=============================================================================
