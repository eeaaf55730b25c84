--------------------------- MODULE SharingProofs ---------------------------
(***************************************************************************)
(* What requests leave behind for each other: temporary files, the files   *)
(* of an answered path, entries other requests wait for, and objects in    *)
(* the backend.                                                            *)
(***************************************************************************)
EXTENDS BuildCacheProofs, FiniteSetTheorems

-----------------------------------------------------------------------------
(* Only the goroutines touch files. *)
LEMMA OnlyStepsTouchFiles ==
    ASSUME [Next]_vars, \A r \in Reqs : ~Step(r)
    PROVE  UNCHANGED fileVars
BY DEF Next, ReadRequest, Settle, Crash, Clear, Terminating, vars

-----------------------------------------------------------------------------
(* A temporary data file has a writer, alive or dead. *)
Writer(r, s) ==
    /\ req[r] \in Requests
    /\ Slot(r) = s
    /\ pc[r] \in {"copy", "rename", "dead"}

TmpInv == \A s \in Slots : tmp[s] # None => \E r \in Reqs : Writer(r, s)

(* A goroutine past a file's creation stays its writer until the file is   *)
(* renamed or removed.                                                     *)
LEMMA StepTmp ==
    ASSUME TypeOK, TmpInv, NEW r \in Reqs, ReqInv(r), Step(r),
           NEW s \in Slots, tmp'[s] # None
    PROVE  \E q \in Reqs : Writer(q, s)'
<1> USE DEF Goto, fileVars, handlerVars
<1>1. TypeOK /\ ReqInv(r) /\ Local(r) /\ req' = req
    BY StepLocal, StepKeepsQuestions
<1>2. ASSUME tmp'[s] = tmp[s], NEW q \in Reqs, Writer(q, s), pc'[q] = pc[q]
      PROVE  Writer(q, s)'
    BY <1>1, <1>2 DEF Writer, Slot
<1>3. CASE tmp'[s] = tmp[s]
    <2>1. PICK q \in Reqs : Writer(q, s)
        BY <1>3 DEF TmpInv
    <2>2. CASE q # r
        BY <1>1, <1>2, <1>3, <2>1, <2>2 DEF Local
    <2>3. CASE q = r
        <3>1. Slot(r) = s /\ pc[r] \in {"copy", "rename", "dead"} /\ req[r] \in Requests
            BY <2>1, <2>3 DEF Writer
        <3>2. Copy(r) \/ CopyFails(r) \/ Rename(r) \/ RenameFails(r)
            BY <3>1
               DEF Step, AcquireLock, LockBusy, LockTimeout, LockError, CheckHit, CheckMiss,
                   ShortBody, FetchMiss, FetchError, FetchAttrs, FetchHit, Fetching,
                   FetchUndecodable, Create, CreateFails, WriteMeta, WriteMetaFails,
                   RenameMeta, RenameMetaFails, PutAsync, PutSync, PutReturns, Unlock, Reply
        <3>3. Copy(r)
            BY <1>1, <3>1, <3>2
               DEF CopyFails, Rename, RenameFails, RemoveTmp, RenameTmp, TypeOK
        <3>4. QED
            BY <1>1, <3>1, <3>3 DEF Copy, Writer, Slot, TypeOK
    <2>4. QED
        BY <2>2, <2>3
<1>4. CASE tmp'[s] # tmp[s]
    <2>1. s = Slot(r)
        BY <1>1, <1>4 DEF Local
    <2>2. Create(r) \/ Copy(r)
        BY <1>1, <1>4, <2>1
           DEF Step, AcquireLock, LockBusy, LockTimeout, LockError, LockFails, CheckHit,
               CheckMiss, GoOn, ShortBody, FetchMiss, FetchError, FetchAttrs, FetchHit,
               FetchUndecodable, CreateFails, CopyFails, RemoveTmp, Rename, RenameTmp,
               RenameFails, WriteMeta, WriteMetaTmp, WriteMetaFails, RenameMeta,
               RenameMetaTmp, RenameMetaFails, RemoveMetaTmp, PutAsync, PutSync, PutReturns,
               Unlock, Reply, TypeOK
    <2>3. req[r] \in Requests
        BY <1>1, <2>2 DEF Create, Copy, ReqInv
    <2>4. Writer(r, s)'
        BY <1>1, <2>1, <2>2, <2>3 DEF Create, Copy, Writer, Slot, TypeOK
    <2>5. QED
        BY <2>4
<1>5. QED
    BY <1>3, <1>4

(* TmpInv is inductive: a crash makes a writer a dead one. *)
LEMMA NextTmp ==
    ASSUME Inv, TmpInv, [Next]_vars
    PROVE  TmpInv'
<1>1. CASE \E r \in Reqs : Step(r)
    BY <1>1, StepTmp DEF Inv, TmpInv
<1>2. CASE \A r \in Reqs : ~Step(r)
    <2> SUFFICES ASSUME NEW s \in Slots, tmp'[s] # None
                 PROVE  \E r \in Reqs : Writer(r, s)'
        BY DEF TmpInv
    <2>1. tmp'[s] = tmp[s]
        BY <1>2, OnlyStepsTouchFiles DEF fileVars
    <2>2. PICK r \in Reqs : Writer(r, s)
        BY <2>1 DEF TmpInv
    <2>3. ~ReadRequest(r)
        BY <2>2 DEF Writer, ReadRequest
    <2>4. Writer(r, s)'
        BY <1>2, <2>2, <2>3, OthersAlone DEF Writer, Slot
    <2>5. QED
        BY <2>4
<1>3. QED
    BY <1>1, <1>2

(* A live writer has the lock. *)
LEMMA DeadWriter ==
    ASSUME TypeOK, \A r \in Reqs : ReqInv(r), TmpInv
    PROVE  TempFilesCleaned
<1> SUFFICES ASSUME NEW s \in Slots, tmp[s] # None, LockFree(s)
             PROVE  \E r \in Reqs : pc[r] = "dead" /\ req[r] # NoReq /\ Slot(r) = s
    BY DEF TempFilesCleaned
<1>1. PICK r \in Reqs : Writer(r, s)
    BY DEF TmpInv
<1>2. pc[r] \notin {"copy", "rename"}
    BY <1>1, DistinctAssumption DEF Writer, ReqInv, Holding, Writing, LockFree
<1>3. QED
    BY <1>1, <1>2, AskedReal DEF Writer

(* A data file's temporary survives its writer only if the writer's        *)
(* process died: every way out of localCache.write renames it or removes   *)
(* it (localcache.go:159), whatever fails, and a live writer has the lock. *)
THEOREM TemporariesCleaned == Spec => []TempFilesCleaned
<1>1. Init => TmpInv
    BY DEF Init, FilesInit, TmpInv
<1>2. Inv /\ TmpInv /\ [Next]_vars => TmpInv'
    BY NextTmp
<1>3. Inv /\ TmpInv => TempFilesCleaned
    BY DeadWriter DEF Inv
<1>4. QED
    BY <1>1, <1>2, <1>3, Invariance, PTL DEF Spec

-----------------------------------------------------------------------------
(* A file that is given out is there: the data file of an entry, of a      *)
(* request that has written it, and of an answer.                          *)
Backed(r) ==
    /\ pc[r] \in {"wmeta", "rmeta", "store", "await"} => data[Slot(r)] # None
    /\ res[r].kind \in {"hit", "put"} =>
          pc[r] # "idle" /\ req[r] \in Requests /\ data[Slot(r)] # None

FileInv ==
    /\ \A s \in Slots : meta[s] # None => data[s] # None
    /\ \A r \in Reqs : Backed(r)

(* A data file comes into place in one way only.                           *)
LEMMA OnlyRenamesData ==
    ASSUME [Next]_vars
    PROVE  data' = data \/ \E r \in Reqs : Rename(r)
<1>1. ASSUME NEW r \in Reqs, Step(r), ~Rename(r)
      PROVE  data' = data
    BY <1>1
       DEF Step, fileVars, AcquireLock, LockBusy, LockTimeout, LockError, LockFails,
           CheckHit, CheckMiss, GoOn, ShortBody, FetchMiss, FetchError, FetchAttrs,
           FetchHit, FetchUndecodable, Create, CreateTmp, CreateFails, Copy, FillTmp,
           CopyFails, RemoveTmp, RenameFails, WriteMeta, WriteMetaTmp, WriteMetaFails,
           RenameMeta, RenameMetaTmp, RenameMetaFails, RemoveMetaTmp, PutAsync, PutSync,
           PutReturns, Unlock, Reply
<1>2. QED
    BY <1>1, OnlyStepsTouchFiles DEF fileVars

(* A data file is only ever replaced by another one: what is renamed onto  *)
(* it is a file that was written to its end.                               *)
LEMMA FilesStay ==
    ASSUME Inv, [Next]_vars, NEW s \in Slots, data[s] # None
    PROVE  data'[s] # None
<1>1. ASSUME NEW r \in Reqs, Rename(r)
      PROVE  data'[s] # None
    <2>1. tmp[Slot(r)] \in Content
        BY <1>1 DEF Rename, Inv, ReqInv, Placed, Writing
    <2>2. QED
        BY <1>1, <2>1, DistinctAssumption DEF Rename, RenameTmp, Inv, TypeOK
<1>2. QED
    BY <1>1, OnlyRenamesData

(* A handler answers a path only where it found or wrote the file.         *)
LEMMA StepBacked ==
    ASSUME Inv, FileInv, NEW r \in Reqs, Step(r)
    PROVE  Backed(r)'
<1> USE DEF Goto, fileVars, handlerVars, Backed
<1>1. TypeOK /\ ReqInv(r) /\ Placed(r) /\ Backed(r) /\ req' = req /\ Slot(r)' = Slot(r)
    BY StepKeepsQuestions DEF Inv, FileInv, Slot
<1>2. Step(r) => req[r] \in Requests /\ Slot(r) \in Slots
    <2>1. pc[r] \notin {"idle", "dead"}
        BY StepAwake
    <2>2. QED
        BY <1>1, <2>1, SlotType DEF ReqInv
<1>3. data[Slot(r)] # None => data'[Slot(r)] # None
    BY <1>2, FilesStay DEF Next
<1>4. CASE AcquireLock(r) \/ LockBusy(r) \/ CheckMiss(r) \/ FetchAttrs(r) \/ FetchHit(r)
           \/ Create(r) \/ Copy(r)
    BY <1>1, <1>2, <1>3, <1>4
       DEF AcquireLock, LockBusy, CheckMiss, GoOn, FetchAttrs, FetchHit, Create, Copy, TypeOK
<1>5. CASE Rename(r)
    <2>1. data'[Slot(r)] = job[r].body /\ job[r].body # None
        BY <1>1, <1>2, <1>5, DistinctAssumption
           DEF Rename, RenameTmp, ReqInv, Placed, Writing, TypeOK
    <2>2. QED
        BY <1>1, <1>2, <1>5, <2>1 DEF Rename, TypeOK
<1>6. CASE WriteMeta(r) \/ PutSync(r) \/ Unlock(r) \/ Reply(r)
    BY <1>1, <1>2, <1>3, <1>6 DEF WriteMeta, PutSync, Unlock, Reply, TypeOK
<1>7. CASE LockTimeout(r) \/ LockError(r)
    BY <1>1, <1>7 DEF LockTimeout, LockError, LockFails, TypeOK
<1>8. CASE CheckHit(r)
    <2>1. data[Slot(r)] # None
        BY <1>2, <1>8 DEF CheckHit, Found, FileInv
    <2>2. QED
        BY <1>1, <1>2, <1>8, <2>1 DEF CheckHit, Return, TypeOK
<1>9. CASE ShortBody(r) \/ FetchMiss(r) \/ FetchError(r) \/ FetchUndecodable(r)
           \/ CreateFails(r) \/ CopyFails(r) \/ RenameFails(r)
    BY <1>1, <1>9
       DEF ShortBody, FetchMiss, FetchError, FetchUndecodable, CreateFails, CopyFails,
           RenameFails, Return, TypeOK
<1>10. CASE WriteMetaFails(r) \/ RenameMeta(r) \/ RenameMetaFails(r)
    BY <1>1, <1>2, <1>3, <1>10
       DEF WriteMetaFails, RenameMeta, RenameMetaFails, AfterWrite, Return, TypeOK
<1>11. CASE PutAsync(r) \/ PutReturns(r)
    BY <1>1, <1>2, <1>3, <1>11 DEF PutAsync, PutReturns, Return, TypeOK
<1>12. QED
    BY <1>4, <1>5, <1>6, <1>7, <1>8, <1>9, <1>10, <1>11 DEF Step

(* FileInv is inductive: a new entry is that of a request in "rmeta".      *)
LEMMA NextFile ==
    ASSUME Inv, FileInv, [Next]_vars
    PROVE  FileInv'
<1>1. ASSUME NEW s \in Slots, meta'[s] # None
      PROVE  data'[s] # None
    <2>1. CASE meta[s] # None
        BY <2>1, FilesStay DEF FileInv
    <2>2. CASE meta[s] = None
        <3>1. PICK r \in Reqs : Step(r)
            BY <1>1, <2>2, OnlyStepsTouchFiles DEF fileVars
        <3>2. pc[r] \in Writing /\ data'[s] = job[r].body
            BY <1>1, <2>2, <3>1, Publication
        <3>3. QED
            BY <3>2, DistinctAssumption DEF Inv, ReqInv
    <2>3. QED
        BY <2>1, <2>2
<1>2. ASSUME NEW r \in Reqs
      PROVE  Backed(r)'
    <2>1. CASE Step(r)
        BY <2>1, StepBacked
    <2>2. CASE ReadRequest(r)
        BY <2>2 DEF ReadRequest, Goto, Inv, TypeOK, FileInv, Backed
    <2>3. CASE ~Step(r) /\ ~ReadRequest(r)
        <3>1. /\ UNCHANGED <<req[r], res[r]>> /\ (pc'[r] = pc[r] \/ pc'[r] = "dead")
              /\ Slot(r)' = Slot(r)
            BY <2>3, OthersAlone DEF Slot
        <3>2. Backed(r) /\ ReqInv(r)
            BY DEF FileInv, Inv
        <3>3. req[r] \in Requests /\ data[Slot(r)] # None => data'[Slot(r)] # None
            BY SlotType, FilesStay
        <3>4. QED
            BY <3>1, <3>2, <3>3 DEF Backed, ReqInv
    <2>4. QED
        BY <2>1, <2>2, <2>3
<1>3. QED
    BY <1>1, <1>2 DEF FileInv

LEMMA FileInvariance == Spec => []FileInv
<1>1. Init => FileInv
    BY DEF Init, FilesInit, FileInv, Backed, NoRes
<1>2. Inv /\ FileInv /\ [Next]_vars => FileInv'
    BY NextFile
<1>3. QED
    BY <1>1, <1>2, Invariance, PTL DEF Spec

(* Whatever failed on the way, a path that is given out has a file: a hit  *)
(* and a PUT's answer come after the rename of the data file or after an   *)
(* entry that came after it (localcache.go:189).                           *)
THEOREM AnswersBacked == Spec => []AnswersHaveFiles
<1>1. FileInv => AnswersHaveFiles
    BY DEF FileInv, Backed, AnswersHaveFiles
<1>2. QED
    BY <1>1, FileInvariance, PTL

(* Whatever is in a data file that can be given out is not compressed.     *)
DataRaw == \A s \in Slots : data[s] # None => data[s].enc = "raw"

LEMMA NextRaw ==
    ASSUME Inv, PlainInv, DataRaw, [Next]_vars
    PROVE  DataRaw'
<1>1. CASE UNCHANGED data
    BY <1>1 DEF DataRaw
<1>2. ASSUME NEW r \in Reqs, Rename(r)
      PROVE  DataRaw'
    <2>1. tmp[Slot(r)] = Raw(job[r].out)
        BY <1>2 DEF Rename, Inv, Placed, PlainInv, Writing
    <2>2. QED
        BY <1>2, <2>1 DEF Rename, RenameTmp, DataRaw, Raw, Inv, TypeOK
<1>3. QED
    BY <1>1, <1>2, OnlyRenamesData

(* server.go:577, where all processes agree on -compression and the store  *)
(* answers a GET with one object: a hit's bytes are decompressed, whatever *)
(* fails, metadata included.                                               *)
THEOREM HitsRaw ==
    ASSUME SnapshotGets, CompressionAgrees
    PROVE  Spec => []HitsDecompressed
<1>1. Init => DataRaw
    BY DEF Init, FilesInit, DataRaw
<1>2. Inv /\ PlainInv /\ DataRaw /\ [Next]_vars => DataRaw'
    BY NextRaw
<1>3. Inv /\ FileInv /\ DataRaw => HitsDecompressed
    BY SlotType DEF FileInv, Backed, DataRaw, HitsDecompressed
<1>4. QED
    BY <1>1, <1>2, <1>3, Invariance, FileInvariance, PlainInvariance, PTL DEF Spec

-----------------------------------------------------------------------------
(* README.md:386: when one request of a host got an entry, no other asks   *)
(* the backend for it, as the check under the lock finds it.               *)
THEOREM Deduplication ==
    ASSUME ReadsReliable, "meta" \notin Faults
    PROVE  Spec => []Deduplicated
<1>1. WriteInv /\ HitInv => Deduplicated
    BY DistinctAssumption DEF WriteInv, Quiet, HitInv, Kept, Deduplicated
<1>2. QED
    BY <1>1, HitInvariance, WriteInvariance, PTL

-----------------------------------------------------------------------------
(* The request that offers, or offered, its slot's output to the backend. *)
Offers(r) == upload[r] # "none" \/ pc[r] \in {"store", "await"}

(* It wrote the entry of its host, which has its very bytes: it is the     *)
(* only one of its slot.                                                   *)
Offered(r) ==
    Offers(r) =>
        /\ meta[Slot(r)] # None
        /\ data[Slot(r)] = Raw(req[r].out)
        /\ ~ReadOnly[ProcOf[r]]

(* A PUT writes the bytes it got on stdin.                                 *)
Putting(r) ==
    pc[r] \in Writing /\ req[r].op = "put" =>
        job[r] = [out |-> req[r].out, body |-> Raw(req[r].out)]

OfferInv ==
    /\ \A r \in Reqs : Offered(r) /\ Putting(r)
    /\ \A r, q \in Reqs : Offers(r) /\ Offers(q) /\ Slot(r) = Slot(q) => r = q

(* A request starts to offer in one step only, the publication of its      *)
(* entry.                                                                  *)
LEMMA NewOffer ==
    ASSUME "meta" \notin Faults, Inv, NEW r \in Reqs, [Next]_vars, ~Offers(r), Offers(r)'
    PROVE  RenameMeta(r) /\ req[r].op = "put" /\ ~ReadOnly[ProcOf[r]]
<1> USE DEF Goto, fileVars, backendVars, handlerVars, Offers
<1>1. TypeOK /\ ReqInv(r)
    BY DEF Inv
<1>2. ASSUME NEW q \in Reqs \ {r}, ReadRequest(q) \/ Step(q) \/ Settle(q)
      PROVE  UNCHANGED <<upload[r], pc[r]>>
    BY <1>2, ReadRequestLocal, StepLocal, SettleLocal DEF Inv, Local
<1>3. ~ReadRequest(r) /\ ~Settle(r)
    BY <1>1 DEF ReadRequest, Settle, UploadLands, UploadFails, UploadLate, TypeOK
<1>4. ASSUME NEW p \in Procs, Crash(p)
      PROVE  ~Offers(r)'
    BY <1>1, <1>4 DEF Crash, AbandonUploads, InFlight, TypeOK
<1>5. Step(r)
    BY <1>2, <1>3, <1>4 DEF Next, Clear, DeleteObject, Terminating, vars
<1>6. RenameMeta(r)
    BY <1>1, <1>5
       DEF Step, AcquireLock, LockBusy, LockTimeout, LockError, LockFails, CheckHit,
           CheckMiss, GoOn, ShortBody, FetchMiss, FetchError, FetchAttrs, FetchHit,
           FetchUndecodable, Create, CreateFails, Copy, CopyFails, Rename, RenameFails,
           WriteMeta, WriteMetaFails, RenameMetaFails, PutAsync, PutSync, PutReturns,
           CountPut, Return, Unlock, Reply, TypeOK
<1>7. QED
    BY <1>1, <1>6 DEF RenameMeta, AfterWrite, Return, TypeOK

(* The body and the name of a PUT are its own from the check on.           *)
LEMMA NextPutting ==
    ASSUME Inv, NEW r \in Reqs, Posed(r), Putting(r), [Next]_vars
    PROVE  Putting(r)'
<1> USE DEF Goto, fileVars, backendVars, handlerVars, Putting, Writing
<1>1. TypeOK /\ ReqInv(r)
    BY DEF Inv
<1>2. CASE CheckMiss(r)
    BY <1>1, <1>2 DEF CheckMiss, GoOn, TypeOK
<1>3. CASE Create(r) \/ Copy(r) \/ Rename(r) \/ WriteMeta(r)
    BY <1>1, <1>3 DEF Create, Copy, Rename, WriteMeta, TypeOK
<1>4. CASE FetchAttrs(r) \/ FetchHit(r)
    BY <1>1, <1>4, StepKeepsQuestions DEF FetchAttrs, FetchHit, Fetching, Posed, Step
<1>5. CASE AcquireLock(r) \/ LockBusy(r) \/ PutSync(r) \/ Unlock(r) \/ Reply(r)
           \/ LockTimeout(r) \/ LockError(r)
    BY <1>1, <1>5
       DEF AcquireLock, LockBusy, PutSync, Unlock, Reply, LockTimeout, LockError, LockFails,
           TypeOK
<1>6. CASE CheckHit(r) \/ ShortBody(r) \/ FetchMiss(r) \/ FetchError(r)
           \/ FetchUndecodable(r) \/ CreateFails(r) \/ CopyFails(r) \/ RenameFails(r)
           \/ WriteMetaFails(r) \/ RenameMeta(r) \/ RenameMetaFails(r) \/ PutAsync(r)
           \/ PutReturns(r)
    BY <1>1, <1>6
       DEF CheckHit, ShortBody, FetchMiss, FetchError, FetchUndecodable, CreateFails,
           CopyFails, RenameFails, WriteMetaFails, RenameMeta, RenameMetaFails, AfterWrite,
           PutAsync, PutReturns, Return, TypeOK
<1>7. CASE ReadRequest(r)
    BY <1>1, <1>7 DEF ReadRequest, TypeOK
<1>8. CASE ~Step(r) /\ ~ReadRequest(r)
    BY <1>8, OthersAlone
<1>9. QED
    BY <1>2, <1>3, <1>4, <1>5, <1>6, <1>7, <1>8 DEF Step

(* Whoever offers first stays the only one of its slot: the next one finds *)
(* its entry.                                                              *)
LEMMA NextOffer ==
    ASSUME ReadsReliable, "meta" \notin Faults, Inv, WriteInv, ReadyInv, OfferInv, [Next]_vars
    PROVE  OfferInv'
<1> USE DEF Offers
<1>1. ASSUME NEW r \in Reqs, Offers(r)
      PROVE  /\ Slot(r) \in Slots /\ Slot(r)' = Slot(r) /\ req'[r] = req[r]
             /\ meta[Slot(r)] # None
    <2>1. req[r] \in Requests
        BY <1>1 DEF Inv, ReqInv
    <2>2. req'[r] = req[r]
        BY <2>1, AskedReal, QuestionsStay DEF ReadyInv, Ready, PosedInv
    <2>3. QED
        BY <1>1, <2>1, <2>2, SlotType DEF Slot, OfferInv, Offered
<1>2. ASSUME NEW r \in Reqs, ~Offers(r), Offers(r)'
      PROVE  /\ Slot(r) \in Slots /\ Slot(r)' = Slot(r) /\ meta[Slot(r)] = None
             /\ meta'[Slot(r)] # None /\ data'[Slot(r)] = Raw(req[r].out)
             /\ req'[r] = req[r] /\ ~ReadOnly[ProcOf[r]]
    <2>1. RenameMeta(r) /\ req[r].op = "put" /\ ~ReadOnly[ProcOf[r]]
        BY <1>2, NewOffer
    <2>2. TypeOK /\ ReqInv(r) /\ Placed(r) /\ Quiet(r) /\ Putting(r)
        BY DEF Inv, WriteInv, OfferInv
    <2>3. Slot(r) \in Slots /\ meta[Slot(r)] = None /\ req' = req
        BY <2>1, <2>2, SlotType DEF RenameMeta, ReqInv, Quiet, Writing
    <2>4. mtmp[Slot(r)] \in Outputs /\ data[Slot(r)] = Raw(req[r].out)
        BY <2>1, <2>2 DEF RenameMeta, ReqInv, Placed, Writing, Putting
    <2>5. meta'[Slot(r)] # None /\ data' = data
        BY <2>1, <2>2, <2>3, <2>4, DistinctAssumption DEF RenameMeta, RenameMetaTmp, TypeOK
    <2>6. QED
        BY <2>1, <2>3, <2>4, <2>5 DEF Slot
<1>3. ASSUME NEW r \in Reqs
      PROVE  Offered(r)'
    <2>1. CASE Offers(r)
        <3>1. meta'[Slot(r)] = meta[Slot(r)] /\ data'[Slot(r)] = data[Slot(r)]
            BY <1>1, <2>1, NextKeepsEntries DEF EntriesKept
        <3>2. QED
            BY <1>1, <2>1, <3>1 DEF OfferInv, Offered
    <2>2. CASE ~Offers(r)
        BY <1>2, <2>2 DEF Offered
    <2>3. QED
        BY <2>1, <2>2
<1>4. ASSUME NEW r \in Reqs, NEW q \in Reqs, Offers(r)', Offers(q)', Slot(r)' = Slot(q)'
      PROVE  r = q
    <2>1. CASE Offers(r) /\ Offers(q)
        BY <1>1, <1>4, <2>1 DEF OfferInv
    <2>2. CASE Offers(r) # Offers(q)
        BY <1>1, <1>2, <1>4, <2>2
    <2>3. CASE ~Offers(r) /\ ~Offers(q)
        <3>1. pc'[r] # pc[r] /\ pc'[q] # pc[q] /\ Step(r)
            BY <1>4, <2>3, NewOffer DEF RenameMeta, AfterWrite, Return, Goto, Inv, TypeOK, Step
        <3>2. QED
            BY <3>1, StepLocal DEF Inv, Local
    <2>4. QED
        BY <2>1, <2>2, <2>3
<1>5. ASSUME NEW r \in Reqs
      PROVE  Putting(r)'
    BY NextPutting DEF OfferInv, ReadyInv, Ready
<1>6. QED
    BY <1>3, <1>4, <1>5 DEF OfferInv

(* OfferInv holds in every reachable state, as long as every entry that is *)
(* published can be found.                                                 *)
LEMMA OfferInvariance ==
    ASSUME ReadsReliable, "meta" \notin Faults
    PROVE  Spec => [](OfferInv /\ ReadyInv)
<1>1. Init => OfferInv /\ ReadyInv
    BY DEF Init, BackendInit, OfferInv, Offers, Offered, Putting, ReadyInv, Ready, Posed,
           Writing, Holding
<1>2. Inv /\ WriteInv /\ ReadyInv /\ [Next]_vars => ReadyInv'
    BY NextReady DEF ReadyInv
<1>3. Inv /\ WriteInv /\ ReadyInv /\ OfferInv /\ [Next]_vars => OfferInv'
    BY NextOffer
<1>4. QED
    BY <1>1, <1>2, <1>3, Invariance, WriteInvariance, PTL DEF Spec

(* A host offers the output of an action ID to the backend at most once,   *)
(* so its own uploads of one object cannot overtake each other             *)
(* (backend.go:14), whatever is rejected, fails or dies.                   *)
THEOREM OneUpload ==
    ASSUME ReadsReliable, "meta" \notin Faults
    PROVE  Spec => []UploadedOnce
<1>1. OfferInv => UploadedOnce
    BY DEF OfferInv, Offers, UploadedOnce
<1>2. QED
    BY <1>1, OfferInvariance, PTL

(* Without -async-backend the handler waits for its upload under the lock. *)
AwaitInv == \A r \in Reqs : upload[r] = "inflight" => pc[r] = "await"

LEMMA NextAwait ==
    ASSUME ~AsyncPut, Inv, AwaitInv, [Next]_vars
    PROVE  AwaitInv'
<1> USE DEF AwaitInv
<1>1. ASSUME NEW r \in Reqs, Step(r)
      PROVE  AwaitInv'
    <2>1. Local(r) /\ TypeOK
        BY <1>1, StepLocal DEF Inv
    <2>2. CASE PutSync(r)
        BY <2>1, <2>2 DEF PutSync, Goto, Local, TypeOK
    <2>3. CASE ~PutSync(r)
        <3>1. upload' = upload /\ (pc[r] = "await" => upload[r] # "inflight")
            BY <1>1, <2>3
               DEF Step, backendVars, AcquireLock, LockBusy, LockTimeout, LockError,
                   LockFails, CheckHit, CheckMiss, GoOn, ShortBody, FetchMiss, FetchError,
                   FetchAttrs, FetchHit, Fetching, FetchUndecodable, Create, CreateFails,
                   Copy, CopyFails, Rename, RenameFails, WriteMeta, WriteMetaFails,
                   RenameMeta, RenameMetaFails, PutAsync, PutReturns, CountPut, Unlock, Reply
        <3>2. QED
            BY <2>1, <3>1 DEF Local
    <2>4. QED
        BY <2>2, <2>3
<1>2. ASSUME NEW r \in Reqs, ReadRequest(r)
      PROVE  AwaitInv'
    BY <1>2 DEF ReadRequest, Goto, backendVars, Inv, TypeOK
<1>3. ASSUME NEW r \in Reqs, Settle(r)
      PROVE  AwaitInv'
    BY <1>3 DEF Settle, UploadLands, UploadFails, UploadLate, Inv, TypeOK
<1>4. ASSUME NEW p \in Procs, Crash(p)
      PROVE  AwaitInv'
    BY <1>4 DEF Crash, AbandonUploads, InFlight, Inv, TypeOK
<1>5. QED
    BY <1>1, <1>2, <1>3, <1>4
       DEF Next, Clear, DeleteObject, Terminating, vars, backendVars

(* backend.go:14, where it holds: the caller never has two PUTs for one    *)
(* action ID in flight if it waits for them under the lock, whatever fails,*)
(* or if every entry that is published can be found.                       *)
THEOREM OnePutInFlight ==
    ASSUME ~AsyncPut \/ (ReadsReliable /\ "meta" \notin Faults)
    PROVE  Spec => []SinglePutInFlight
<1>1. CASE ~AsyncPut
    <2>1. Init => AwaitInv
        BY DEF Init, BackendInit, AwaitInv
    <2>2. Inv /\ AwaitInv /\ [Next]_vars => AwaitInv'
        BY <1>1, NextAwait
    <2>3. AwaitInv /\ LockExclusive => SinglePutInFlight
        BY DEF AwaitInv, LockExclusive, SinglePutInFlight, Holding, Slot
    <2>4. QED
        BY <2>1, <2>2, <2>3, Invariance, MutualExclusion, PTL DEF Spec
<1>2. CASE ReadsReliable /\ "meta" \notin Faults
    <2>1. UploadedOnce => SinglePutInFlight
        BY DEF UploadedOnce, SinglePutInFlight, Slot
    <2>2. QED
        BY <1>2, <2>1, OneUpload, PTL
<1>3. QED
    BY <1>1, <1>2

-----------------------------------------------------------------------------
(* Every object was uploaded by a request that asked for it.               *)
UploadInv ==
    \A k \in Keys : store[k] # None =>
        \E r \in Reqs :
            upload[r] # "none" /\ req[r] = [op |-> "put", key |-> k, out |-> store[k].out]

(* Only the end of an upload puts an object into the backend.              *)
LEMMA NextUpload ==
    ASSUME Inv, PosedInv, UploadInv, [Next]_vars
    PROVE  UploadInv'
<1> SUFFICES ASSUME NEW k \in Keys, store'[k] # None
             PROVE  \E r \in Reqs :
                        upload'[r] # "none"
                        /\ req'[r] = [op |-> "put", key |-> k, out |-> store'[k].out]
    BY DEF UploadInv
<1>1. ASSUME NEW r \in Reqs, upload[r] # "none"
      PROVE  upload'[r] # "none" /\ req'[r] = req[r]
    <2>1. req'[r] = req[r]
        BY <1>1, AskedReal, QuestionsStay DEF Inv, ReqInv
    <2>2. ASSUME NEW q \in Reqs, ReadRequest(q) \/ Step(q) \/ Settle(q)
          PROVE  upload'[r] # "none"
        BY <1>1, <2>2
           DEF Inv, TypeOK, Step, ReadRequest, Settle, UploadLands, UploadFails, UploadLate,
               backendVars, AcquireLock, LockBusy, LockTimeout, LockError, LockFails, CheckHit, CheckMiss,
               GoOn, ShortBody, FetchMiss, FetchError, FetchAttrs, FetchHit,
               FetchUndecodable, Create, CreateFails, Copy, CopyFails, Rename, RenameFails,
               WriteMeta, WriteMetaFails, RenameMeta, RenameMetaFails, PutAsync, PutSync,
               PutReturns, StartUpload, RejectUpload, StartPut, CountPut, Unlock, Reply
    <2>3. ASSUME NEW p \in Procs, Crash(p)
          PROVE  upload'[r] # "none"
        BY <1>1, <2>3 DEF Crash, AbandonUploads
    <2>4. QED
        BY <1>1, <2>1, <2>2, <2>3
           DEF Next, Clear, DeleteObject, Terminating, vars, backendVars
<1>2. CASE store'[k] = store[k]
    BY <1>1, <1>2 DEF UploadInv
<1>3. ASSUME NEW r \in Reqs, Settle(r), store'[k] # store[k]
      PROVE  upload'[r] # "none"
             /\ req'[r] = [op |-> "put", key |-> k, out |-> store'[k].out]
    <2>1. upload[r] # "none" /\ req[r] \in Requests /\ req[r].op = "put"
        BY <1>3 DEF Settle, UploadLands, UploadFails, UploadLate, Inv, ReqInv
    <2>2. k = req[r].key /\ store'[k].out = req[r].out
        BY <1>3, <2>1
           DEF Settle, UploadLands, UploadFails, UploadLate, Store, Object, Encode, Inv,
               TypeOK, Requests
    <2>3. req[r] = [op |-> "put", key |-> k, out |-> store'[k].out]
        BY <2>1, <2>2 DEF Requests
    <2>4. QED
        BY <1>1, <2>1, <2>3
<1>4. ASSUME NEW r \in Reqs, ReadRequest(r) \/ Step(r)
      PROVE  store' = store
    BY <1>4
       DEF Step, ReadRequest, backendVars, AcquireLock, LockBusy, LockTimeout, LockError,
           LockFails, CheckHit, CheckMiss, GoOn, ShortBody, FetchMiss, FetchError,
           FetchAttrs, FetchHit, FetchUndecodable, Create, CreateFails, Copy, CopyFails,
           Rename, RenameFails, WriteMeta, WriteMetaFails, RenameMeta, RenameMetaFails,
           PutAsync, PutSync, PutReturns, StartUpload, RejectUpload, StartPut, CountPut,
           Unlock, Reply
<1>5. ASSUME (\E p \in Procs : Crash(p)) \/ (\E j \in Keys : Clear(j)) \/ UNCHANGED vars
      PROVE  store'[k] = store[k]
    BY <1>5 DEF Crash, AbandonUploads, Clear, DeleteObject, Inv, TypeOK, vars, backendVars
<1>6. QED
    BY <1>2, <1>3, <1>4, <1>5 DEF Next, Terminating

(* The local entry comes first (server.go:440 before 481): every object in *)
(* the backend was PUT under its key by a process that may write, and its  *)
(* host has the very same output, whichever processes died meanwhile.      *)
THEOREM LocalFirst ==
    ASSUME ReadsReliable, "meta" \notin Faults
    PROVE  Spec => []RemoteImpliesLocal
<1>1. Init => UploadInv
    BY DEF Init, BackendInit, UploadInv
<1>2. Inv /\ ReadyInv /\ UploadInv /\ [Next]_vars => UploadInv'
    BY NextUpload DEF ReadyInv, Ready, PosedInv
<1>3. OfferInv /\ UploadInv => RemoteImpliesLocal
    <2> SUFFICES ASSUME OfferInv, UploadInv, NEW k \in Keys, store[k] # None
                 PROVE  \E r \in Reqs :
                            /\ req[r] = [op |-> "put", key |-> k, out |-> store[k].out]
                            /\ ~ReadOnly[ProcOf[r]]
                            /\ data[Slot(r)] = Raw(store[k].out)
        BY DEF RemoteImpliesLocal
    <2>1. PICK r \in Reqs :
            upload[r] # "none" /\ req[r] = [op |-> "put", key |-> k, out |-> store[k].out]
        BY DEF UploadInv
    <2>2. ~ReadOnly[ProcOf[r]] /\ data[Slot(r)] = Raw(req[r].out)
        BY <2>1 DEF OfferInv, Offers, Offered
    <2>3. QED
        BY <2>1, <2>2
<1>4. QED
    BY <1>1, <1>2, <1>3, Invariance, OfferInvariance, PTL DEF Spec

-----------------------------------------------------------------------------
(* A request's one PUT is made on the way out of its handler. *)
Handed(r) ==
    /\ pc[r] # "await"
    /\ upload[r] # "none" => pc[r] \in {"unlock", "reply", "done", "dead"}

HandedInv == \A r \in Reqs : Handed(r)

(* The one step of a goroutine that the backend notices.                   *)
LEMMA StepHands ==
    ASSUME AsyncPut, Inv, NEW r \in Reqs, Handed(r), Step(r)
    PROVE  /\ Handed(r)'
           /\ \/ UNCHANGED backendVars
              \/ upload[r] = "none" /\ (StartUpload(r) \/ RejectUpload(r))
<1> USE DEF Goto, Handed
<1>1. TypeOK
    BY DEF Inv
<1>2. CASE PutAsync(r)
    BY <1>1, <1>2 DEF PutAsync, Return, TypeOK
<1>3. CASE PutSync(r) \/ PutReturns(r)
    BY <1>3 DEF PutSync, PutReturns
<1>4. CASE Unlock(r) \/ Reply(r)
    BY <1>1, <1>4 DEF Unlock, Reply, TypeOK, backendVars
<1>5. CASE ~PutAsync(r) /\ ~PutSync(r) /\ ~PutReturns(r) /\ ~Unlock(r) /\ ~Reply(r)
    <2>1. pc[r] \notin {"unlock", "reply", "done", "dead"} /\ UNCHANGED backendVars
        BY <1>5
           DEF Step, AcquireLock, LockBusy, LockTimeout, LockError, LockFails, CheckHit,
               CheckMiss, GoOn, ShortBody, FetchMiss, FetchError, FetchAttrs, FetchHit,
               Fetching, FetchUndecodable, Create, CreateFails, Copy, CopyFails, Rename,
               RenameFails, WriteMeta, WriteMetaFails, RenameMeta, RenameMetaFails
    <2>2. pc'[r] # "await"
        BY <1>1, <1>5
           DEF Step, AcquireLock, LockBusy, LockTimeout, LockError, LockFails, CheckHit,
               CheckMiss, GoOn, ShortBody, FetchMiss, FetchError, FetchAttrs, FetchHit,
               FetchUndecodable, Create, CreateFails, Copy, CopyFails, Rename, RenameFails,
               WriteMeta, WriteMetaFails, RenameMeta, RenameMetaFails, AfterWrite, Return,
               TypeOK
    <2>3. QED
        BY <2>1, <2>2 DEF backendVars
<1>6. QED
    BY <1>2, <1>3, <1>4, <1>5

LEMMA NextHanded ==
    ASSUME AsyncPut, Inv, HandedInv, [Next]_vars
    PROVE  HandedInv'
<1> USE DEF HandedInv, Handed
<1>1. ASSUME NEW r \in Reqs, Step(r)
      PROVE  HandedInv'
    BY <1>1, StepLocal, StepHands DEF Inv, Local
<1>2. ASSUME NEW r \in Reqs, ReadRequest(r)
      PROVE  HandedInv'
    BY <1>2 DEF ReadRequest, Goto, backendVars, Inv, TypeOK
<1>3. ASSUME NEW r \in Reqs, Settle(r)
      PROVE  HandedInv'
    BY <1>3 DEF Settle, UploadLands, UploadFails, UploadLate, Inv, TypeOK
<1>4. ASSUME NEW p \in Procs, Crash(p)
      PROVE  HandedInv'
    BY <1>4 DEF Crash, AbandonUploads, InFlight, Inv, TypeOK
<1>5. QED
    BY <1>1, <1>2, <1>3, <1>4
       DEF Next, Clear, DeleteObject, Terminating, vars, backendVars

(* With -async-backend every step of the handlers is, for the backend, a   *)
(* step of the uploads that the writer implements (UploadsImplemented), or *)
(* none: together they say that the handlers may be read with the writer's *)
(* own goroutines in place of Backend's (server.go:481,                    *)
(* async_backend.go:44), whatever fails and dies.                          *)
THEOREM UploadsUsed ==
    ASSUME AsyncPut
    PROVE  Spec => UsesUploads
<1>1. Init => BackendInit /\ HandedInv
    BY DEF Init, BackendInit, HandedInv, Handed
<1>2. Inv /\ HandedInv /\ [Next]_vars => HandedInv'
    BY NextHanded
<1>3. Inv /\ HandedInv /\ [Next]_vars => [UploadsNext]_backendVars
    <2> SUFFICES ASSUME Inv, HandedInv, [Next]_vars
                 PROVE  UploadsNext \/ UNCHANGED backendVars
        OBVIOUS
    <2>1. ASSUME NEW r \in Reqs, Step(r)
          PROVE  UploadsNext \/ UNCHANGED backendVars
        BY <2>1, StepHands DEF HandedInv, UploadsNext
    <2>2. ASSUME NEW r \in Reqs, Settle(r)
          PROVE  UploadsNext
        <3>1. /\ upload[r] \in {"inflight", "failed", "lost"}
              /\ req[r].key \in Keys /\ Object(r) \in Content
            BY <2>2, ObjectType
               DEF Settle, UploadLands, UploadFails, UploadLate, Inv, ReqInv, Requests
        <3>2. QED
            BY <2>2, <3>1 DEF Settle, UploadsNext
    <2>3. ASSUME NEW p \in Procs, Crash(p)
          PROVE  UploadsNext
        BY <2>3 DEF Crash, UploadsNext
    <2>4. ASSUME NEW k \in Keys, Clear(k)
          PROVE  UploadsNext
        BY <2>4 DEF Clear, UploadsNext
    <2>5. QED
        BY <2>1, <2>2, <2>3, <2>4 DEF Next, ReadRequest, Terminating, vars
<1>4. QED
    BY <1>1, <1>2, <1>3, Invariance, PTL DEF Spec, UsesUploads, UploadsSpec

-----------------------------------------------------------------------------
(* A handler that waits for its own call to the backend has made it.       *)
Before == {"idle", "lock", "wait", "check", "fetch", "reader", "store"} \cup Writing

Called(r) ==
    /\ pc[r] \in Before => upload[r] = "none"
    /\ pc[r] = "await" => upload[r] \in {"inflight", "ok", "failed", "late"}

CalledInv == \A r \in Reqs : Called(r)

(* The goroutine of r makes its call where it begins to wait for it.       *)
LEMMA StepCalls ==
    ASSUME TypeOK, NEW r \in Reqs, Called(r), Step(r)
    PROVE  Called(r)'
<1> USE DEF Goto, Called, Before, Writing
<1>1. TypeOK /\ Called(r)
    OBVIOUS
<1>2. CASE PutAsync(r)
    BY <1>1, <1>2 DEF PutAsync, StartUpload, RejectUpload, Return, TypeOK
<1>3. CASE PutSync(r)
    BY <1>1, <1>3 DEF PutSync, StartPut, TypeOK
<1>4. CASE PutReturns(r)
    BY <1>1, <1>4 DEF PutReturns, CountPut, Return, TypeOK
<1>5. CASE ~PutAsync(r) /\ ~PutSync(r) /\ ~PutReturns(r)
    <2>1. UNCHANGED backendVars
        BY <1>5
           DEF Step, AcquireLock, LockBusy, LockTimeout, LockError, LockFails, CheckHit,
               CheckMiss, GoOn, ShortBody, FetchMiss, FetchError, FetchAttrs, FetchHit,
               FetchUndecodable, Create, CreateFails, Copy, CopyFails, Rename, RenameFails,
               WriteMeta, WriteMetaFails, RenameMeta, RenameMetaFails, Unlock, Reply
    <2>2. pc'[r] # "await"
        BY <1>1, <1>5
           DEF Step, AcquireLock, LockBusy, LockTimeout, LockError, LockFails, CheckHit,
               CheckMiss, GoOn, ShortBody, FetchMiss, FetchError, FetchAttrs, FetchHit,
               FetchUndecodable, Create, CreateFails, Copy, CopyFails, Rename, RenameFails,
               WriteMeta, WriteMetaFails, RenameMeta, RenameMetaFails, AfterWrite, Return,
               Unlock, Reply, TypeOK
    <2>3. pc'[r] \in Before => pc[r] \in Before
        BY <1>1, <1>5
           DEF Step, AcquireLock, LockBusy, LockTimeout, LockError, LockFails, CheckHit,
               CheckMiss, GoOn, ShortBody, FetchMiss, FetchError, FetchAttrs, FetchHit,
               Fetching, FetchUndecodable, Create, CreateFails, Copy, CopyFails, Rename,
               RenameFails, WriteMeta, WriteMetaFails, RenameMeta, RenameMetaFails, Return,
               Unlock, Reply, TypeOK
    <2>4. QED
        BY <1>1, <2>1, <2>2, <2>3 DEF backendVars
<1>6. QED
    BY <1>2, <1>3, <1>4, <1>5

(* The goroutines alone move on, and an upload in flight is lost only with *)
(* its handler.                                                            *)
LEMMA CalledInvariance == Spec => []CalledInv
<1>1. Init => CalledInv
    BY DEF Init, BackendInit, CalledInv, Called
<1>2. Inv /\ CalledInv /\ [Next]_vars => CalledInv'
    <2> USE DEF CalledInv, Called, Before, Writing
    <2> SUFFICES ASSUME Inv, CalledInv, [Next]_vars
                 PROVE  CalledInv'
        OBVIOUS
    <2>1. ASSUME NEW r \in Reqs, Step(r)
          PROVE  CalledInv'
        BY <2>1, StepCalls, StepLocal DEF Inv, Local
    <2>2. ASSUME NEW r \in Reqs, ReadRequest(r)
          PROVE  CalledInv'
        BY <2>2 DEF ReadRequest, Goto, backendVars, Inv, TypeOK
    <2>3. ASSUME NEW r \in Reqs, Settle(r)
          PROVE  CalledInv'
        BY <2>3 DEF Settle, UploadLands, UploadFails, UploadLate, Inv, TypeOK
    <2>4. ASSUME NEW p \in Procs, Crash(p)
          PROVE  CalledInv'
        BY <2>4 DEF Crash, AbandonUploads, InFlight, Inv, TypeOK
    <2>5. QED
        BY <2>1, <2>2, <2>3, <2>4
           DEF Next, Clear, DeleteObject, Terminating, vars, backendVars
<1>3. QED
    BY <1>1, <1>2, Invariance, PTL DEF Spec

-----------------------------------------------------------------------------
(* The three places where a handler may have to wait: for a lock that is   *)
(* held, for the end of its own call to the backend, and, if it were to    *)
(* find the semaphore neither free nor full, at the asynchronous writer.   *)
NoVainWait(r) ==
    /\ pc[r] \in {"lock", "wait"} /\ ~LockFree(Slot(r)) =>
          /\ lock[Slot(r)] \in Reqs
          /\ pc[lock[Slot(r)]] \in Holding
          /\ Slot(lock[Slot(r)]) = Slot(r)
    /\ pc[r] = "await" => upload[r] \in {"inflight", "ok", "failed", "late"}
    /\ pc[r] = "store" =>
          \/ Cardinality(InFlight(ProcOf[r])) < SemCap
          \/ Cardinality(MayHoldSlot(ProcOf[r])) >= SemCap

(* Where a handler waits it does not wait in vain: the lock has a request  *)
(* that is past the lock and so waits for no other one (memlock.go:28,     *)
(* fslock.go:63), the call was made and has not been lost with a dead      *)
(* process (server.go:481), and the writer always has an answer at once    *)
(* (async_backend.go:44).                                                  *)
THEOREM NobodyStranded ==
    ASSUME IsFiniteSet(Reqs)
    PROVE  Spec => [](\A r \in Reqs : NoVainWait(r))
<1>1. ASSUME NEW p, NEW r \in Reqs
      PROVE  Cardinality(InFlight(p)) < SemCap \/ Cardinality(MayHoldSlot(p)) >= SemCap
    <2>1. InFlight(p) \subseteq MayHoldSlot(p) /\ MayHoldSlot(p) \subseteq Reqs
        BY DEF InFlight, MayHoldSlot
    <2>2. /\ Cardinality(InFlight(p)) <= Cardinality(MayHoldSlot(p))
          /\ Cardinality(InFlight(p)) \in Nat /\ Cardinality(MayHoldSlot(p)) \in Nat
        BY <2>1, FS_Subset, FS_CardinalityType
    <2>3. QED
        BY <2>2, ConfigAssumption
<1>2. Inv /\ NoLockLeaked /\ CalledInv => \A r \in Reqs : NoVainWait(r)
    <2> SUFFICES ASSUME Inv, NoLockLeaked, CalledInv, NEW r \in Reqs
                 PROVE  NoVainWait(r)
        OBVIOUS
    <2>1. ASSUME pc[r] \in {"lock", "wait"}, ~LockFree(Slot(r))
          PROVE  /\ lock[Slot(r)] \in Reqs
                 /\ pc[lock[Slot(r)]] \in Holding
                 /\ Slot(lock[Slot(r)]) = Slot(r)
        <3>1. Slot(r) \in Slots
            BY <2>1, SlotType DEF Inv, ReqInv
        <3>2. QED
            BY <2>1, <3>1 DEF LockFree, NoLockLeaked, Inv, TypeOK
    <2>2. QED
        BY <1>1, <2>1 DEF NoVainWait, CalledInv, Called
<1>3. QED
    BY <1>2, Invariance, LocksReturned, CalledInvariance, PTL

-----------------------------------------------------------------------------
(* The stations of a handler in the order it passes them. *)
Stage(l) ==
    CASE l = "idle"   -> 0   [] l = "lock"   -> 1   [] l = "wait"   -> 2
      [] l = "check"  -> 3   [] l = "fetch"  -> 4   [] l = "reader" -> 5
      [] l = "create" -> 6   [] l = "copy"   -> 7   [] l = "rename" -> 8
      [] l = "wmeta"  -> 9   [] l = "rmeta"  -> 10  [] l = "store"  -> 11
      [] l = "await"  -> 12  [] l = "unlock" -> 13  [] l = "reply"  -> 14
      [] l = "done"   -> 15  [] l = "dead"   -> 16

(* The goroutine of r gets on by each of its steps; what is not its step   *)
(* moves r only when it is read, or dies.                                  *)
Advances(r) ==
    IF Step(r) THEN Stage(pc[r]) < Stage(pc'[r])
    ELSE pc'[r] \in {pc[r], "dead"} \/ (pc[r] = "idle" /\ pc'[r] = "lock")

LEMMA StepAdvances ==
    ASSUME TypeOK, NEW r \in Reqs, Step(r)
    PROVE  Stage(pc[r]) < Stage(pc'[r])
<1> USE DEF Goto, Stage
<1>1. CASE AcquireLock(r) \/ LockBusy(r) \/ CheckMiss(r) \/ FetchAttrs(r) \/ FetchHit(r)
    BY <1>1
       DEF AcquireLock, LockBusy, CheckMiss, GoOn, FetchAttrs, FetchHit, Fetching, TypeOK
<1>2. CASE LockTimeout(r) \/ LockError(r)
    BY <1>2 DEF LockTimeout, LockError, LockFails, TypeOK
<1>3. CASE CheckHit(r) \/ ShortBody(r) \/ FetchMiss(r) \/ FetchError(r)
           \/ FetchUndecodable(r)
    BY <1>3
       DEF CheckHit, ShortBody, FetchMiss, FetchError, FetchUndecodable, Fetching, Return,
           TypeOK
<1>4. CASE CreateFails(r) \/ CopyFails(r) \/ RenameFails(r) \/ PutAsync(r) \/ PutReturns(r)
    BY <1>4 DEF CreateFails, CopyFails, RenameFails, PutAsync, PutReturns, Return, TypeOK
<1>5. CASE Create(r) \/ Copy(r) \/ Rename(r) \/ WriteMeta(r)
    BY <1>5 DEF Create, Copy, Rename, WriteMeta, TypeOK
<1>6. CASE WriteMetaFails(r) \/ RenameMeta(r) \/ RenameMetaFails(r)
    BY <1>6 DEF WriteMetaFails, RenameMeta, RenameMetaFails, AfterWrite, Return, TypeOK
<1>7. CASE PutSync(r) \/ Unlock(r) \/ Reply(r)
    BY <1>7 DEF PutSync, Unlock, Reply, TypeOK
<1>8. QED
    BY <1>1, <1>2, <1>3, <1>4, <1>5, <1>6, <1>7 DEF Step

(* No handler turns back (server.go:389, 518), however its                 *)
(* calls end: a goroutine takes at most fourteen steps from reading its    *)
(* request to its answer. With LocksReturned, which says that who waits    *)
(* for a lock waits for a request inside DoWithLock, and none inside takes *)
(* a lock, no circle of waiting requests can come about.                   *)
THEOREM HandlersAdvance == Spec => [][\A r \in Reqs : Advances(r)]_vars
<1>1. Inv /\ [Next]_vars => [\A r \in Reqs : Advances(r)]_vars
    <2> SUFFICES ASSUME Inv, [Next]_vars, NEW r \in Reqs
                 PROVE  Advances(r)
        OBVIOUS
    <2>1. CASE Step(r)
        BY <2>1, StepAdvances DEF Inv, Advances
    <2>2. CASE ~Step(r) /\ ReadRequest(r)
        BY <2>2 DEF ReadRequest, Goto, Advances, Inv, TypeOK
    <2>3. CASE ~Step(r) /\ ~ReadRequest(r)
        BY <2>3, OthersAlone DEF Advances
    <2>4. QED
        BY <2>1, <2>2, <2>3
<1>2. QED
    BY <1>1, Invariance, PTL DEF Spec

=============================================================================
