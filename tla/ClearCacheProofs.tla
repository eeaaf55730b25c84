-------------------------- MODULE ClearCacheProofs --------------------------
(***************************************************************************)
(* Proofs about ClearCache, for any number of hosts, processes, keys and   *)
(* requests, whatever fails: what the handlers can still rely on when      *)
(* files vanish, and what a clear command that succeeds has achieved.      *)
(***************************************************************************)
EXTENDS ClearCache, SharingProofs

(* A request's claims survive the command: ReqInv says nothing of a file   *)
(* that is gone.                                                           *)
BaseInv ==
    /\ ClearTypeOK
    /\ \A r \in Reqs : ReqInv(r)
    /\ cur # None => stage \in {"subdir", "failed"}

-----------------------------------------------------------------------------
(* The names of a subdirectory, file by file. *)
LEMMA FilesMember ==
    ASSUME NEW s
    PROVE  /\ "tmp" \in FilesOf(s) <=> tmp[s] # None
           /\ "data" \in FilesOf(s) <=> data[s] # None
           /\ "mtmp" \in FilesOf(s) <=> mtmp[s] # None
           /\ "meta" \in FilesOf(s) <=> meta[s] # None
           /\ FilesOf(s) \subseteq FileNames
           /\ FilesOf(s)' \subseteq FileNames
           /\ "tmp" \in FilesOf(s)' <=> tmp'[s] # None
           /\ "data" \in FilesOf(s)' <=> data'[s] # None
           /\ "mtmp" \in FilesOf(s)' <=> mtmp'[s] # None
           /\ "meta" \in FilesOf(s)' <=> meta'[s] # None
BY DEF FilesOf, FileNames

(* A subdirectory is empty when its four files are not there. *)
LEMMA FilesNone ==
    ASSUME NEW s
    PROVE  /\ FilesOf(s) = {} <=>
                  tmp[s] = None /\ data[s] = None /\ mtmp[s] = None /\ meta[s] = None
           /\ FilesOf(s)' = {} <=>
                  tmp'[s] = None /\ data'[s] = None /\ mtmp'[s] = None /\ meta'[s] = None
BY FilesMember DEF FileNames

-----------------------------------------------------------------------------
(* A call that finds its file or directory gone is local, and leads where  *)
(* nothing is claimed of the file.                                         *)
LEMMA GoneLocal ==
    ASSUME NEW r \in Reqs, TypeOK, ReqInv(r), StepGone(r)
    PROVE  TypeOK' /\ Local(r) /\ ReqInv(r)'
<1> USE DEF StepGone, Goto, fileVars, backendVars
<1>1. UNCHANGED <<lock, fileVars, backendVars, req, job>> /\ Slot(r)' = Slot(r)
    BY DEF Slot
<1>2. pc[r] \in Writing /\ req[r] \in Requests
    BY DEF ReqInv, Writing
<1>3. CASE pc[r] \in {"create", "rename"}
    BY <1>1, <1>2, <1>3, ReturnType DEF Return, TypeOK, Local, ReqInv, Holding, Writing
<1>4. CASE pc[r] = "copy"
    BY <1>1, <1>2, <1>4
       DEF Reachable, TypeOK, Local, ReqInv, Holding, Writing, Labels
<1>5. CASE pc[r] \in {"wmeta", "rmeta"}
    <2>1. job[r].out \in Outputs
        BY <1>2 DEF ReqInv
    <2>2. PICK l \in {"unlock", "store"} :
              /\ pc' = [pc EXCEPT ![r] = l]
              /\ l = "store" => req[r].op = "put"
        BY <1>5 DEF AfterWrite, Return
    <2>3. res' \in [Reqs -> Results] /\ UNCHANGED <<lock, fileVars, backendVars, req, job>>
        BY <1>5, <2>1 DEF AfterWrite, Return, TypeOK, Results
    <2>4. QED
        BY <1>1, <1>2, <1>5, <2>2, <2>3
           DEF TypeOK, Local, ReqInv, Holding, Writing, Labels
<1>6. QED
    BY <1>3, <1>4, <1>5

(* A running server, whether or not its files are being removed.           *)
LEMMA ServerKeeps ==
    ASSUME TypeOK, \A r \in Reqs : ReqInv(r), ServerStep
    PROVE  TypeOK' /\ \A r \in Reqs : ReqInv(r)'
<1>1. ASSUME NEW r \in Reqs, ReadRequest(r) \/ Step(r) \/ StepGone(r) \/ Settle(r)
      PROVE  TypeOK' /\ \A q \in Reqs : ReqInv(q)'
    <2>1. TypeOK' /\ Local(r) /\ ReqInv(r)'
        BY <1>1, ReadRequestLocal, StepLocal, GoneLocal, SettleLocal
    <2>2. QED
        BY <2>1, OthersKeep
<1>2. ASSUME NEW p \in Procs, Crash(p)
      PROVE  TypeOK' /\ \A q \in Reqs : ReqInv(q)'
    BY <1>2, CrashType, CrashKeeps
<1>3. QED
    BY <1>1, <1>2 DEF ServerStep

(* Every other step is of a starting server, of the command or none.       *)
CommandStep ==
    \/ \E p \in Procs, k \in Keys : MakeDir(p, k)
    \/ \E c \in Commands, h \in Hosts : RunClear(c, h)
    \/ ClearStep
    \/ ClearDies
    \/ UNCHANGED allVars

(* Of what the handlers know, it changes two things: objects and files     *)
(* disappear.                                                              *)
LEMMA CommandTakes ==
    ASSUME TypeOK, CommandStep
    PROVE  /\ UNCHANGED <<lock, upload, counted, handlerVars, pc>>
           /\ \/ UNCHANGED <<store, fileVars>>
              \/ /\ UNCHANGED fileVars
                 /\ \E k \in todo : store' = [store EXCEPT ![k] = None]
              \/ /\ UNCHANGED store
                 /\ \E f \in names : Unlink(f)
           /\ \A s \in Slots : tmp'[s] \in {tmp[s], None} /\ data'[s] \in {data[s], None}
           /\ \A s \in Slots : mtmp'[s] \in {mtmp[s], None} /\ meta'[s] \in {meta[s], None}
           /\ \A k \in Keys : store'[k] \in {store[k], None}
<1> USE DEF TypeOK, vars, fileVars, backendVars
<1>1. CASE \E k \in Keys : DeleteListed(k)
    BY <1>1 DEF DeleteListed
<1>2. CASE \E f \in FileNames : Unlink(f)
    BY <1>2 DEF Unlink
<1>3. CASE UNCHANGED vars
    BY <1>3 DEF handlerVars
<1>4. QED
    BY <1>1, <1>2, <1>3
       DEF CommandStep, ClearStep, MakeDir, RunClear, ListObjects, DeleteDropped,
           AllDeleted, ClearFails, ReadRoot, ReadSubdir, RemoveSubdir, RemoveRoot, MakeRoot,
           ClearDies, allVars

LEMMA CommandKeeps ==
    ASSUME TypeOK, \A r \in Reqs : ReqInv(r), CommandStep
    PROVE  TypeOK' /\ \A r \in Reqs : ReqInv(r)'
<1>1. UNCHANGED <<lock, upload, counted, handlerVars, pc>>
    BY CommandTakes
<1>2. /\ tmp' \in [Slots -> Content \cup {None, Torn}] /\ data' \in [Slots -> Content \cup {None}]
      /\ mtmp' \in [Slots -> Outputs \cup {None, Torn}]
      /\ meta' \in [Slots -> Outputs \cup {None}] /\ store' \in [Keys -> Content \cup {None}]
    BY CommandTakes DEF TypeOK, fileVars, Unlink
<1>3. TypeOK'
    BY <1>1, <1>2 DEF TypeOK, handlerVars
<1>4. ASSUME NEW r \in Reqs
      PROVE  ReqInv(r)'
    <2>1. Slot(r)' = Slot(r)
        BY <1>1 DEF Slot, handlerVars
    <2>2. pc[r] \in Writing => Slot(r) \in Slots
        BY SlotType DEF ReqInv, Writing
    <2>3. QED
        BY <1>1, <2>1, <2>2, CommandTakes DEF ReqInv, handlerVars, Writing
<1>5. QED
    BY <1>3, <1>4

(* A step of the system is one of the two. *)
LEMMA ClearNextSplits ==
    ASSUME [ClearNext]_allVars
    PROVE  ServerStep \/ CommandStep
BY DEF ClearNext, CommandStep, AllDone

(* The first file of a subdirectory is made by a call that needs it.       *)
LEMMA FirstFile ==
    ASSUME NEW r \in Reqs, TypeOK, ReqInv(r), Reachable(r), Step(r),
           NEW s \in Slots, FilesOf(s) = {}, FilesOf(s)' # {}
    PROVE  s \in dirs
<1> USE DEF fileVars
<1>1. tmp[s] = None /\ data[s] = None /\ mtmp[s] = None /\ meta[s] = None
    BY FilesNone
<1>2. ~UNCHANGED fileVars
    BY <1>1, FilesNone
<1>3. Create(r) \/ Copy(r) \/ CopyFails(r) \/ Rename(r) \/ RenameFails(r) \/ WriteMeta(r)
        \/ WriteMetaFails(r) \/ RenameMeta(r) \/ RenameMetaFails(r)
    BY <1>2
       DEF Step, AcquireLock, LockBusy, LockTimeout, LockError, LockFails, CheckHit,
           CheckMiss, GoOn, ShortBody, FetchMiss, FetchError, FetchAttrs, FetchHit,
           FetchUndecodable, CreateFails, PutAsync, PutSync, PutReturns, Unlock, Reply
<1>4. CASE Create(r) \/ WriteMeta(r) \/ WriteMetaFails(r)
    <2>1. Slot(r) \in dirs
        BY <1>4 DEF Create, WriteMeta, WriteMetaFails, Reachable
    <2>2. s = Slot(r)
        BY <1>1, <1>4, FilesNone
           DEF Create, CreateTmp, WriteMeta, WriteMetaFails, WriteMetaTmp, TypeOK
    <2>3. QED
        BY <2>1, <2>2
<1>5. CASE Copy(r) \/ Rename(r) \/ RenameMeta(r)
    <2>1. s # Slot(r)
        BY <1>1, <1>5 DEF Copy, Rename, RenameMeta, Reachable
    <2>2. QED
        BY <1>1, <1>5, <2>1, FilesNone
           DEF Copy, FillTmp, Rename, RenameTmp, RenameMeta, RenameMetaTmp, TypeOK
<1>6. CASE CopyFails(r) \/ RenameFails(r) \/ RenameMetaFails(r)
    BY <1>1, <1>6, FilesNone
       DEF CopyFails, RenameFails, RemoveTmp, RenameMetaFails, RemoveMetaTmp, TypeOK
<1>7. QED
    BY <1>3, <1>4, <1>5, <1>6

(* The file system's rule, and the types of the command's variables.       *)
LEMMA ServerBase ==
    ASSUME BaseInv, ServerStep
    PROVE  BaseInv'
<1>1. TypeOK' /\ (\A r \in Reqs : ReqInv(r)')
    BY ServerKeeps DEF BaseInv, ClearTypeOK
<1>2. UNCHANGED <<dirVars, commandVars>>
    BY DEF ServerStep
<1>3. ASSUME NEW s \in Slots, FilesOf(s)' # {}
      PROVE  s \in dirs'
    <2>1. CASE FilesOf(s) # {}
        BY <1>2, <2>1 DEF BaseInv, ClearTypeOK, dirVars
    <2>2. CASE FilesOf(s) = {}
        <3>1. ~UNCHANGED fileVars
            BY <1>3, <2>2, FilesNone DEF fileVars
        <3>2. PICK r \in Reqs : Reachable(r) /\ Step(r)
            BY <3>1 DEF ServerStep, ReadRequest, StepGone, Settle, Crash
        <3>3. QED
            BY <1>2, <1>3, <2>2, <3>2, FirstFile DEF BaseInv, ClearTypeOK, dirVars
    <2>3. QED
        BY <2>1, <2>2
<1>4. QED
    BY <1>1, <1>2, <1>3 DEF BaseInv, ClearTypeOK, dirVars, commandVars

LEMMA EnterType ==
    ASSUME NEW q, EnterPhase(q)
    PROVE  stage' \in {"ok", "list", "readroot"}
BY DEF EnterPhase

LEMMA CommandBase ==
    ASSUME BaseInv, CommandStep
    PROVE  BaseInv'
<1> USE DEF ClearTypeOK, Stages, Idle
<1>1. TypeOK' /\ (\A r \in Reqs : ReqInv(r)')
    BY CommandKeeps DEF BaseInv
<1>2. ASSUME NEW s \in Slots, FilesOf(s)' # {}
      PROVE  FilesOf(s) # {} /\ s \in dirs
    <2>1. FilesOf(s) # {}
        BY <1>2, CommandTakes, FilesNone DEF BaseInv
    <2>2. QED
        BY <2>1 DEF BaseInv
<1>3. ASSUME NEW p \in Procs, NEW k \in Keys, MakeDir(p, k)
      PROVE  BaseInv'
    <2>1. <<HostOf[p], k>> \in Slots
        BY ConfigAssumption DEF Slots
    <2>2. QED
        BY <1>1, <1>2, <1>3, <2>1 DEF MakeDir, BaseInv, commandVars
<1>4. CASE RemoveSubdir
    BY <1>1, <1>2, <1>4 DEF RemoveSubdir, BaseInv, vars, fileVars, FilesOf
<1>5. CASE UNCHANGED dirVars /\ ~(\E p \in Procs, k \in Keys : MakeDir(p, k))
    <2>1. /\ stage' \in Stages /\ todo' \subseteq Keys
          /\ cur' \in Keys \cup {None} /\ names' \subseteq FileNames
          /\ cur' # None => stage' \in {"subdir", "failed"}
        BY <1>5, EnterType, FilesMember
           DEF BaseInv, CommandStep, ClearStep, RunClear, ListObjects, DeleteListed,
               DeleteDropped, AllDeleted, ClearFails, ReadRoot, ReadSubdir, Unlink,
               RemoveSubdir, RemoveRoot, MakeRoot, ClearDies, allVars, clearVars, commandVars
    <2>2. QED
        BY <1>1, <1>2, <1>5, <2>1 DEF BaseInv, dirVars
<1>6. QED
    BY <1>3, <1>4, <1>5
       DEF CommandStep, ClearStep, RunClear, ListObjects, DeleteListed, DeleteDropped,
           AllDeleted, ClearFails, ReadRoot, ReadSubdir, Unlink, RemoveRoot, MakeRoot,
           ClearDies, allVars, clearVars

LEMMA InitBase == ClearInit => BaseInv
<1> SUFFICES ASSUME ClearInit PROVE BaseInv
    OBVIOUS
<1>1. Inv
    BY InitInv DEF ClearInit
<1>2. \A s \in Slots : FilesOf(s) = {}
    BY FilesNone DEF ClearInit, Init, FilesInit
<1>3. QED
    BY <1>1, <1>2 DEF ClearInit, BaseInv, ClearTypeOK, Inv, Stages, Idle

THEOREM BaseInvariance == ClearSpec => []BaseInv
<1>1. BaseInv /\ [ClearNext]_allVars => BaseInv'
    BY ClearNextSplits, ServerBase, CommandBase
<1>2. QED
    BY InitBase, <1>1, PTL DEF ClearSpec

(* While a clear command takes their files away, the handlers keep their   *)
(* types: a file that is being written is never published, and none is     *)
(* made where there is no subdirectory (localcache.go:46).                 *)
THEOREM ClearTypeCorrect == ClearSpec => []ClearTypeOK
BY BaseInvariance, PTL DEF BaseInv

-----------------------------------------------------------------------------
(* A call that finds its file gone does not leave the function either.     *)
LEMMA GoneHolds ==
    ASSUME TypeOK, NEW r \in Reqs, StepGone(r)
    PROVE  lock' = lock /\ req' = req /\ pc'[r] \in Holding
BY DEF StepGone, AfterWrite, Return, Goto, TypeOK, Holding, Writing

LEMMA ServerHolds ==
    ASSUME BaseInv, NoLockLeaked, ServerStep
    PROVE  NoLockLeaked'
<1>1. TypeOK /\ \A r \in Reqs : ReqInv(r)
    BY DEF BaseInv, ClearTypeOK
<1>2. \A s \in Slots : lock[s] # None =>
          lock[s] \in Reqs /\ pc[lock[s]] \in Holding /\ Slot(lock[s]) = s
    BY <1>1 DEF NoLockLeaked, TypeOK
<1>3. ASSUME NEW r \in Reqs, Step(r)
      PROVE  NoLockLeaked'
    BY <1>1, <1>3, StepLocal, StepKeepsQuestions, StepHolds, LeaksNothing
<1>4. ASSUME NEW r \in Reqs, StepGone(r)
      PROVE  NoLockLeaked'
    BY <1>1, <1>4, GoneLocal, GoneHolds, LeaksNothing
<1>5. ASSUME NEW r \in Reqs, ReadRequest(r)
      PROVE  NoLockLeaked'
    BY <1>1, <1>2, <1>5 DEF NoLockLeaked, ReadRequest, Goto, Slot, TypeOK, Holding, Writing
<1>6. ASSUME NEW r \in Reqs, Settle(r)
      PROVE  NoLockLeaked'
    BY <1>2, <1>6 DEF NoLockLeaked, Settle, handlerVars, Slot
<1>7. QED
    BY <1>1, <1>3, <1>4, <1>5, <1>6, CrashHolds DEF ServerStep

(* Whatever a clear command removes in the middle of a handler, two        *)
(* requests for one action ID of one host exclude each other, and no       *)
(* handler that fails for want of a file keeps its lock (locking.Group,    *)
(* localcache.go:46).                                                      *)
THEOREM LocksThroughClear == ClearSpec => [](LockExclusive /\ NoLockLeaked)
<1>1. ClearInit => NoLockLeaked
    BY DEF ClearInit, Init, LockInit, NoLockLeaked
<1>2. ASSUME BaseInv, NoLockLeaked, CommandStep
      PROVE  NoLockLeaked'
    BY <1>2, CommandTakes
       DEF NoLockLeaked, handlerVars, Slot, BaseInv, ClearTypeOK
<1>3. BaseInv /\ NoLockLeaked /\ [ClearNext]_allVars => NoLockLeaked'
    BY <1>2, ServerHolds, ClearNextSplits
<1>4. BaseInv => LockExclusive
    BY DEF BaseInv, ReqInv, LockExclusive
<1>5. QED
    BY <1>1, <1>3, <1>4, BaseInvariance, PTL DEF ClearSpec

-----------------------------------------------------------------------------
(* A temporary file that is there keeps its writer: the one that finds it  *)
(* gone was not.                                                           *)
LEMMA ServerTmp ==
    ASSUME BaseInv, TmpInv, ServerStep, NEW s \in Slots, tmp'[s] # None
    PROVE  \E q \in Reqs : Writer(q, s)'
<1>1. TypeOK /\ \A r \in Reqs : ReqInv(r)
    BY DEF BaseInv, ClearTypeOK
<1>2. CASE \E r \in Reqs : Step(r)
    BY <1>1, <1>2, StepTmp
<1>3. CASE \A r \in Reqs : ~Step(r)
    <2>1. tmp' = tmp
        BY <1>3 DEF ServerStep, ReadRequest, StepGone, Settle, Crash, fileVars
    <2>2. PICK q \in Reqs : Writer(q, s)
        BY <2>1 DEF TmpInv
    <2>3. ~ReadRequest(q) /\ ~StepGone(q)
        BY <2>1, <2>2 DEF Writer, ReadRequest, StepGone, Reachable
    <2>4. req'[q] = req[q] /\ pc'[q] \in {pc[q], "dead"}
        <3>1. CASE \E p \in Procs : Crash(p)
            BY <3>1 DEF Crash, handlerVars
        <3>2. CASE Settle(q)
            BY <3>2 DEF Settle, handlerVars
        <3>3. ASSUME NEW r \in Reqs \ {q}, ReadRequest(r) \/ StepGone(r) \/ Settle(r)
              PROVE  req'[q] = req[q] /\ pc'[q] = pc[q]
            BY <1>1, <3>3, ReadRequestLocal, GoneLocal, SettleLocal DEF Local
        <3>4. QED
            BY <1>3, <2>3, <3>1, <3>2, <3>3 DEF ServerStep
    <2>5. QED
        BY <2>2, <2>4 DEF Writer, Slot
<1>4. QED
    BY <1>2, <1>3

(* Nor does a clear command running meanwhile make a server leave a        *)
(* temporary data file behind (localcache.go:159).                         *)
THEOREM TemporariesThroughClear == ClearSpec => []TempFilesCleaned
<1>1. ClearInit => TmpInv
    BY DEF ClearInit, Init, FilesInit, TmpInv
<1>2. ASSUME BaseInv, TmpInv, CommandStep
      PROVE  TmpInv'
    BY <1>2, CommandTakes
       DEF TmpInv, Writer, handlerVars, Slot, BaseInv, ClearTypeOK
<1>3. BaseInv /\ TmpInv /\ [ClearNext]_allVars => TmpInv'
    BY <1>2, ServerTmp, ClearNextSplits DEF TmpInv
<1>4. BaseInv /\ TmpInv => TempFilesCleaned
    BY DeadWriter DEF BaseInv, ClearTypeOK
<1>5. QED
    BY <1>1, <1>3, <1>4, BaseInvariance, PTL DEF ClearSpec

-----------------------------------------------------------------------------
(* The output was PUT by a request that was not over when the command      *)
(* began.                                                                  *)
WasPending(k, o) == \E r \in pending : req[r] = [op |-> "put", key |-> k, out |-> o]

(* What is not pending when the command has begun will not PUT any more.   *)
Over(r) ==
    /\ pc[r] # "idle"
    /\ req[r].op = "put" => pc[r] \in {"done", "dead"} /\ r \notin MayLand

PendingInv ==
    /\ pending \subseteq Reqs
    /\ \A r \in Reqs : pc[r] = "idle" => req[r] = NoReq
    /\ stage # "none" => \A r \in Reqs \ pending : Over(r)

(* An object that a successful command may leave behind.                   *)
Excused(k) == store[k] = None \/ k \in missed \/ WasPending(k, store[k].out)

RemoteInv ==
    command \in {"remote", "all"} =>
        /\ stage = "delete" => \A k \in Keys \ todo : Excused(k)
        /\ stage \in {"readroot", "subdir", "mkroot", "ok"} => \A k \in Keys : Excused(k)

(* No step makes a request an unread one.                                  *)
LEMMA StepStaysAwake ==
    ASSUME TypeOK, NEW r \in Reqs, Step(r) \/ StepGone(r)
    PROVE  pc'[r] # "idle"
BY DEF TypeOK, Step, StepGone, AfterWrite, Return, Goto, AcquireLock, LockBusy, LockTimeout,
       LockError, LockFails, CheckHit, CheckMiss, GoOn, ShortBody, FetchMiss, FetchError,
       FetchAttrs, FetchHit, FetchUndecodable, Create, CreateFails, Copy, CopyFails, Rename,
       RenameFails, WriteMeta, WriteMetaFails, RenameMeta, RenameMetaFails, PutAsync,
       PutSync, PutReturns, Unlock, Reply

(* A server's step leaves what the command knows, and reads no request     *)
(* twice.                                                                  *)
LEMMA ServerPending ==
    ASSUME BaseInv, PendingInv, ServerStep
    PROVE  /\ UNCHANGED <<dirVars, commandVars, pending, fetched, missed>>
           /\ \A r \in Reqs : req'[r] = req[r] \/ (req[r] = NoReq /\ pc[r] = "idle")
           /\ \A r \in Reqs : pc'[r] = "idle" => pc[r] = "idle" /\ req'[r] = req[r]
           /\ stage # "none" => \A r \in Reqs \ pending : Over(r)'
<1> USE DEF handlerVars
<1>1. UNCHANGED <<dirVars, commandVars, pending, fetched, missed>>
    BY DEF ServerStep
<1>2. ASSUME NEW r \in Reqs, ReadRequest(r)
      PROVE  /\ pc[r] = "idle" /\ pc' = [pc EXCEPT ![r] = "lock"]
             /\ \A q \in Reqs \ {r} : req'[q] = req[q] /\ pc'[q] = pc[q]
             /\ UNCHANGED upload
    BY <1>2 DEF ReadRequest, Goto, BaseInv, ClearTypeOK, TypeOK, backendVars
<1>3. ASSUME NEW r \in Reqs, Step(r) \/ StepGone(r)
      PROVE  /\ req' = req /\ pc[r] \notin {"idle", "done", "dead"} /\ pc'[r] # "idle"
             /\ \A q \in Reqs \ {r} : pc'[q] = pc[q] /\ upload'[q] = upload[q]
    <2>1. pc[r] \notin {"idle", "done", "dead"} /\ req' = req
        BY <1>3, StepKeepsQuestions, StepAwake DEF StepGone
    <2>2. Local(r)
        BY <1>3, StepLocal, GoneLocal DEF BaseInv, ClearTypeOK
    <2>3. pc'[r] # "idle"
        BY <1>3, StepStaysAwake DEF BaseInv, ClearTypeOK
    <2>4. QED
        BY <2>1, <2>2, <2>3 DEF Local
<1>4. ASSUME NEW r \in Reqs, Settle(r)
      PROVE  /\ UNCHANGED <<req, pc>> /\ upload[r] \in {"inflight", "failed", "lost"}
             /\ \A q \in Reqs \ {r} : upload'[q] = upload[q]
             /\ req[r].op = "put"
    BY <1>4 DEF Settle, UploadLands, UploadFails, UploadLate, BaseInv, ClearTypeOK, TypeOK, ReqInv
<1>5. ASSUME NEW p \in Procs, Crash(p), NEW r \in Reqs
      PROVE  /\ req'[r] = req[r] /\ pc'[r] \in {pc[r], "dead"}
             /\ pc[r] = "done" => pc'[r] = "done"
             /\ upload'[r] = upload[r] \/ upload[r] = "inflight"
    BY <1>5 DEF Crash, AbandonUploads, InFlight, BaseInv, ClearTypeOK, TypeOK
<1>6. \A r \in Reqs : req'[r] = req[r] \/ (req[r] = NoReq /\ pc[r] = "idle")
    BY <1>2, <1>3, <1>4, <1>5 DEF ServerStep, PendingInv
<1>7. \A r \in Reqs : pc'[r] = "idle" => pc[r] = "idle" /\ req'[r] = req[r]
    BY <1>2, <1>3, <1>4, <1>5 DEF ServerStep, BaseInv, ClearTypeOK, TypeOK
<1>8. ASSUME stage # "none", NEW r \in Reqs \ pending
      PROVE  Over(r)'
    <2>1. Over(r) /\ (upload[r] # "none" => req[r].op = "put")
        BY <1>8 DEF PendingInv, BaseInv, ReqInv
    <2>2. ASSUME NEW q \in Reqs, ReadRequest(q)
          PROVE  Over(r)'
        BY <1>2, <2>1, <2>2 DEF Over, MayLand
    <2>3. ASSUME NEW q \in Reqs, Step(q) \/ StepGone(q)
          PROVE  Over(r)'
        BY <1>3, <2>1, <2>3 DEF Over, MayLand
    <2>4. ASSUME NEW q \in Reqs, Settle(q)
          PROVE  Over(r)'
        BY <1>4, <2>1, <2>4 DEF Over, MayLand
    <2>5. ASSUME NEW p \in Procs, Crash(p)
          PROVE  Over(r)'
        BY <1>5, <2>1, <2>5 DEF Over, MayLand
    <2>6. QED
        BY <2>2, <2>3, <2>4, <2>5 DEF ServerStep
<1>9. QED
    BY <1>1, <1>6, <1>7, <1>8

(* The command decides once who is pending. *)
LEMMA CommandPending ==
    ASSUME BaseInv, PendingInv, CommandStep
    PROVE  PendingInv'
<1>1. UNCHANGED <<upload, req, pc>>
    BY CommandTakes DEF handlerVars, BaseInv, ClearTypeOK
<1>2. ASSUME NEW c \in Commands, NEW h \in Hosts, RunClear(c, h)
      PROVE  PendingInv'
    BY <1>1, <1>2 DEF RunClear, MayPut, MayLand, PendingInv, Over
<1>3. ASSUME ~(\E c \in Commands, h \in Hosts : RunClear(c, h))
      PROVE  pending' = pending /\ (stage' # "none" => stage # "none")
    BY <1>3
       DEF CommandStep, MakeDir, ClearStep, ListObjects, DeleteListed, DeleteDropped,
           AllDeleted, ClearFails, ReadRoot, ReadSubdir, Unlink, RemoveSubdir, RemoveRoot,
           MakeRoot, ClearDies, Idle, allVars, clearVars, commandVars, memoryVars
<1>4. QED
    BY <1>1, <1>2, <1>3 DEF PendingInv, Over, MayLand

LEMMA NextPending ==
    ASSUME BaseInv, PendingInv, [ClearNext]_allVars
    PROVE  PendingInv'
<1>1. CASE ServerStep
    BY <1>1, ServerPending DEF PendingInv, commandVars
<1>2. QED
    BY <1>1, CommandPending, ClearNextSplits

(* What was pending stays so: it is never asked something else.            *)
LEMMA PendingStays ==
    ASSUME BaseInv, PendingInv, [ClearNext]_allVars, stage # "none",
           NEW k \in Keys, NEW o, WasPending(k, o)
    PROVE  WasPending(k, o)'
<1>1. PICK r \in pending : req[r] = [op |-> "put", key |-> k, out |-> o]
    BY DEF WasPending
<1>2. r \in Reqs /\ req[r] # NoReq
    BY <1>1 DEF PendingInv, NoReq
<1>3. CASE ServerStep
    <2>1. req'[r] = req[r] /\ pending' = pending
        BY <1>2, <1>3, ServerPending
    <2>2. QED
        BY <1>1, <2>1 DEF WasPending
<1>4. CASE CommandStep
    <2>1. req' = req
        BY <1>4, CommandTakes DEF handlerVars, BaseInv, ClearTypeOK
    <2>2. pending' = pending
        BY <1>4
           DEF CommandStep, MakeDir, RunClear, ClearStep, ListObjects, DeleteListed,
               DeleteDropped, AllDeleted, ClearFails, ReadRoot, ReadSubdir, Unlink,
               RemoveSubdir, RemoveRoot, MakeRoot, ClearDies, allVars, clearVars, memoryVars
    <2>3. QED
        BY <1>1, <2>1, <2>2 DEF WasPending
<1>5. QED
    BY <1>3, <1>4, ClearNextSplits

(* An object is stored by the upload of a PUT, which is asked for already. *)
LEMMA ServerStores ==
    ASSUME BaseInv, ServerStep, NEW k \in Keys, store'[k] # store[k]
    PROVE  \E r \in Reqs :
               /\ upload[r] \in {"inflight", "failed", "lost"}
               /\ req[r] = [op |-> "put", key |-> k, out |-> store'[k].out]
               /\ store'[k].out \in Outputs
               /\ req' = req
<1>1. PICK r \in Reqs : Settle(r)
    <2>1. ASSUME NEW r \in Reqs, Step(r)
          PROVE  store' = store
        BY <2>1
           DEF Step, backendVars, AcquireLock, LockBusy, LockTimeout, LockError, LockFails,
               CheckHit, CheckMiss, GoOn, ShortBody, FetchMiss, FetchError, FetchAttrs,
               FetchHit, FetchUndecodable, Create, CreateFails, Copy, CopyFails, Rename,
               RenameFails, WriteMeta, WriteMetaFails, RenameMeta, RenameMetaFails,
               PutAsync, StartUpload, RejectUpload, PutSync, StartPut, PutReturns,
               CountPut, Unlock, Reply
    <2>2. QED
        BY <2>1 DEF ServerStep, ReadRequest, StepGone, Crash, AbandonUploads, backendVars
<1>2. /\ req[r] \in Requests /\ req[r].op = "put"
      /\ upload[r] \in {"inflight", "failed", "lost"}
      /\ req' = req
    BY <1>1
       DEF Settle, UploadLands, UploadFails, UploadLate, BaseInv, ReqInv, ClearTypeOK, TypeOK,
           handlerVars
<1>3. k = req[r].key /\ store'[k] = Object(r)
    BY <1>1 DEF Settle, UploadLands, UploadFails, UploadLate, Store, BaseInv, ClearTypeOK, TypeOK
<1>4. store'[k].out = req[r].out
    BY <1>3 DEF Object, Encode
<1>5. QED
    BY <1>2, <1>3, <1>4 DEF Requests

(* Only a pending upload can still land (async_backend.go:60).             *)
LEMMA ServerExcused ==
    ASSUME BaseInv, PendingInv, ServerStep, stage # "none", NEW k \in Keys, Excused(k)
    PROVE  Excused(k)'
<1>1. missed' = missed
    BY ServerPending
<1>2. \A o : WasPending(k, o) => WasPending(k, o)'
    BY PendingStays DEF ClearNext
<1>3. CASE store'[k] = store[k]
    BY <1>1, <1>2, <1>3 DEF Excused
<1>4. CASE store'[k] # store[k]
    <2>1. PICK r \in Reqs :
              /\ upload[r] \in {"inflight", "failed", "lost"}
              /\ req[r] = [op |-> "put", key |-> k, out |-> store'[k].out]
              /\ req' = req
        BY <1>4, ServerStores
    <2>2. r \in pending
        BY <2>1 DEF PendingInv, Over, MayLand
    <2>3. QED
        BY <2>1, <2>2, ServerPending DEF Excused, WasPending
<1>5. QED
    BY <1>3, <1>4

(* The command's own steps: what is deleted or dropped is excused.         *)
LEMMA CommandRemote ==
    ASSUME BaseInv, PendingInv, RemoteInv, CommandStep
    PROVE  RemoteInv'
<1> USE DEF RemoteInv
<1>1. ASSUME NEW k \in Keys, stage # "none", Excused(k)
      PROVE  Excused(k)'
    <2>1. store'[k] \in {store[k], None}
        BY CommandTakes DEF BaseInv, ClearTypeOK
    <2>2. missed \subseteq missed'
        BY DEF CommandStep, MakeDir, RunClear, ClearStep, ListObjects, DeleteListed,
               DeleteDropped, AllDeleted, ClearFails, ReadRoot, ReadSubdir, Unlink,
               RemoveSubdir, RemoveRoot, MakeRoot, ClearDies, allVars, clearVars, memoryVars
    <2>3. \A o : WasPending(k, o) => WasPending(k, o)'
        BY <1>1, PendingStays DEF ClearNext, CommandStep, AllDone
    <2>4. QED
        BY <1>1, <2>1, <2>2, <2>3 DEF Excused
<1>2. ASSUME NEW c \in Commands, NEW h \in Hosts, RunClear(c, h)
      PROVE  RemoteInv'
    BY <1>2, ClearAssumption DEF RunClear, EnterPhase, Phases
<1>3. ASSUME NEW k \in Keys, DeleteListed(k) \/ DeleteDropped(k)
      PROVE  RemoteInv'
    <2>1. Excused(k)'
        BY <1>3 DEF DeleteListed, DeleteDropped, Excused, BaseInv, ClearTypeOK, TypeOK
    <2>2. stage = "delete" /\ stage' = "delete" /\ todo' = todo \ {k} /\ command' = command
        BY <1>3 DEF DeleteListed, DeleteDropped
    <2>3. QED
        BY <1>1, <2>1, <2>2
<1>4. CASE ListObjects
    BY <1>4 DEF ListObjects, Excused, vars, backendVars
<1>5. CASE AllDeleted
    BY <1>1, <1>5, EnterType DEF AllDeleted
<1>6. CASE ClearFails \/ ClearDies
    BY <1>6 DEF ClearFails, ClearDies
<1>7. CASE ReadRoot \/ RemoveRoot \/ MakeRoot
    BY <1>1, <1>7, EnterType DEF ReadRoot, RemoveRoot, MakeRoot
<1>8. ASSUME command' = command, stage' = stage, stage = "delete" => todo' = todo
      PROVE  RemoteInv'
    BY <1>1, <1>8
<1>9. QED
    BY <1>2, <1>3, <1>4, <1>5, <1>6, <1>7, <1>8
       DEF CommandStep, MakeDir, ClearStep, ReadSubdir, Unlink, RemoveSubdir, allVars,
           clearVars, commandVars

THEOREM RemoteInvariance == ClearSpec => [](PendingInv /\ RemoteInv)
<1>1. ClearInit => PendingInv /\ RemoteInv
    BY DEF ClearInit, Init, PendingInv, RemoteInv
<1>2. BaseInv /\ PendingInv /\ [ClearNext]_allVars => PendingInv'
    BY NextPending
<1>3. BaseInv /\ PendingInv /\ RemoteInv /\ [ClearNext]_allVars => RemoteInv'
    <2> SUFFICES ASSUME BaseInv, PendingInv, RemoteInv, [ClearNext]_allVars
                 PROVE  RemoteInv'
        OBVIOUS
    <2>1. CASE ServerStep
        <3>1. UNCHANGED <<command, stage, todo>>
            BY <2>1, ServerPending DEF commandVars
        <3>2. QED
            BY <2>1, <3>1, ServerExcused DEF RemoteInv
    <2>2. QED
        BY <2>1, CommandRemote, ClearNextSplits
<1>4. QED
    BY <1>1, <1>2, <1>3, BaseInvariance, PTL DEF ClearSpec

(* A successful clear-remote, alone or first of clear (s3.go:181,          *)
(* gcs.go:160), leaves in the store only what a request that had not       *)
(* finished when the command began has PUT, or what failed to be deleted   *)
(* unnoticed.                                                              *)
THEOREM ClearedRemotely == ClearSpec => []RemoteCleared
<1>1. RemoteInv => RemoteCleared
    BY DEF RemoteInv, RemoteCleared, Excused, WasPending
<1>2. QED
    BY <1>1, RemoteInvariance, PTL

-----------------------------------------------------------------------------
(* What the command removes while a request writes it is remembered: the   *)
(* data file of a writer is its body, or it was cut.                       *)
Cut(s) == data[s] = None /\ s \in raced

WholeOrCut(r) ==
    /\ pc[r] \in {"wmeta", "rmeta"} => data[Slot(r)] = job[r].body \/ Cut(Slot(r))
    /\ cur # None /\ pc[r] \in Writing /\ Slot(r) = <<at, cur>> => Slot(r) \in raced

(* An entry nobody writes goes with its metadata: where the data file was  *)
(* removed, the metadata is on the list.                                   *)
CutInv ==
    /\ WriteInv
    /\ PlainInv
    /\ \A r \in Reqs : WholeOrCut(r)
    /\ \A s \in Slots : s = <<at, cur>> /\ meta[s] # None => s \in raced \/ "meta" \in names
    /\ EntriesWholeOrCut

LEMMA ServerRaced ==
    ASSUME ServerStep
    PROVE  /\ raced \subseteq raced' /\ UNCHANGED <<at, cur, names>>
           /\ \A r \in Reqs : cur # None /\ pc'[r] \in Writing /\ Slot(r)' = <<at, cur>>
                                => Slot(r)' \in raced'
<1>1. UNCHANGED <<at, cur, names>>
    BY DEF ServerStep, commandVars
<1>2. cur # None => Written(<<at, cur>>)' \subseteq raced'
    BY DEF ServerStep
<1>3. raced \subseteq raced'
    BY DEF ServerStep
<1>4. \A r \in Reqs : pc'[r] \in Writing /\ Slot(r)' = <<at, cur>>
                           => Slot(r)' \in Written(<<at, cur>>)'
    BY <1>1 DEF Written
<1>5. QED
    BY <1>1, <1>2, <1>3, <1>4

(* The two invariants of the handlers that CutInv builds on. *)
LEMMA ServerQuiet ==
    ASSUME ReadsReliable, SnapshotGets, CompressionAgrees, BaseInv, WriteInv, PlainInv,
           ServerStep
    PROVE  WriteInv' /\ PlainInv'
<1> USE DEF BaseInv, ClearTypeOK
<1>1. ASSUME NEW r \in Reqs, ReadRequest(r) \/ Step(r) \/ StepGone(r) \/ Settle(r)
      PROVE  WriteInv' /\ PlainInv'
    <2>1. Local(r)
        BY <1>1, ReadRequestLocal, StepLocal, GoneLocal, SettleLocal
    <2>2. ASSUME NEW q \in Reqs \ {r}
          PROVE  Quiet(q)' /\ (pc'[q] \in Writing => job'[q].body = Raw(job'[q].out))
        BY <2>1, OthersQuiet DEF WriteInv, PlainInv, Local
    <2>3. CASE Step(r)
        BY <2>2, <2>3, StepQuiet, StepPlain DEF WriteInv, PlainInv
    <2>4. CASE ReadRequest(r)
        <3>1. Quiet(r)' /\ pc'[r] \notin Writing /\ store' = store
            BY <2>4 DEF ReadRequest, Goto, Quiet, Writing, TypeOK, backendVars
        <3>2. QED
            BY <2>2, <3>1 DEF WriteInv, PlainInv
    <2>5. CASE StepGone(r)
        <3>1. UNCHANGED <<store, job, meta>> /\ Slot(r)' = Slot(r)
            BY <2>5 DEF StepGone, backendVars, fileVars, Slot
        <3>2. pc'[r] \in Writing \cup {"fetch", "reader"} => pc[r] \in Writing
            BY <2>5 DEF StepGone, Writing
        <3>3. QED
            BY <2>2, <3>1, <3>2 DEF WriteInv, PlainInv, Quiet
    <2>6. CASE Settle(r)
        <3>1. Quiet(r)'
            BY <2>6 DEF Settle, Quiet, WriteInv, Slot, fileVars, handlerVars
        <3>2. QED
            BY <2>2, <2>6, <3>1, SettlePlain DEF WriteInv
    <2>7. QED
        BY <1>1, <2>3, <2>4, <2>5, <2>6
<1>2. ASSUME NEW p \in Procs, Crash(p)
      PROVE  WriteInv' /\ PlainInv'
    BY <1>2
       DEF Crash, AbandonUploads, WriteInv, Quiet, PlainInv, Slot, Writing, fileVars,
           handlerVars
<1>3. QED
    BY <1>1, <1>2 DEF ServerStep

(* The stages of the write of r, with or without its files. *)
LEMMA StepWhole ==
    ASSUME BaseInv, NEW r \in Reqs, WholeOrCut(r), (Reachable(r) /\ Step(r)) \/ StepGone(r),
           raced \subseteq raced', pc'[r] \in {"wmeta", "rmeta"}
    PROVE  data'[Slot(r)] = job'[r].body \/ Cut(Slot(r))'
<1> USE DEF Goto, fileVars, handlerVars
<1>1. TypeOK /\ ReqInv(r)
    BY DEF BaseInv, ClearTypeOK
<1>2. CASE Rename(r)
    <2>1. ~StepGone(r)
        BY <1>1, <1>2 DEF Rename, StepGone, Return, TypeOK
    <2>2. tmp[Slot(r)] # None
        BY <1>2, <2>1 DEF Rename, Reachable
    <2>3. Slot(r) \in Slots /\ tmp[Slot(r)] = job[r].body
        BY <1>1, <1>2, <2>2, SlotType DEF Rename, ReqInv
    <2>4. QED
        BY <1>1, <1>2, <2>3 DEF Rename, RenameTmp, TypeOK, Slot
<1>3. CASE WriteMeta(r)
    BY <1>1, <1>3
       DEF WriteMeta, WriteMetaTmp, WholeOrCut, Cut, TypeOK, Slot
<1>4. CASE ~Rename(r) /\ ~WriteMeta(r)
    <2>1. pc'[r] \notin {"wmeta", "rmeta"}
        BY <1>1, <1>4
           DEF Step, StepGone, AcquireLock, LockBusy, LockTimeout, LockError, LockFails,
               CheckHit, CheckMiss, GoOn, ShortBody, FetchMiss, FetchError, FetchAttrs,
               FetchHit, FetchUndecodable, Create, CreateFails, Copy, CopyFails,
               RenameFails, WriteMetaFails, RenameMeta, RenameMetaFails, AfterWrite, Return,
               PutAsync, PutSync, PutReturns, Unlock, Reply, TypeOK
    <2>2. QED
        BY <2>1
<1>5. QED
    BY <1>2, <1>3, <1>4

(* A server's step keeps an entry, or publishes one of its own.            *)
LEMMA ServerPublishes ==
    ASSUME BaseInv, WriteInv, ServerStep, NEW s \in Slots
    PROVE  /\ meta[s] # None => meta'[s] = meta[s] /\ data'[s] = data[s]
           /\ meta[s] = None /\ meta'[s] # None =>
                  \E r \in Reqs :
                      /\ pc[r] = "rmeta" /\ Slot(r) = s
                      /\ meta'[s] = job[r].out /\ data'[s] = data[s]
<1> USE DEF BaseInv, ClearTypeOK
<1>1. CASE UNCHANGED fileVars
    BY <1>1 DEF fileVars
<1>2. ASSUME NEW r \in Reqs, Step(r)
      PROVE  /\ meta[s] # None => meta'[s] = meta[s] /\ data'[s] = data[s]
             /\ meta[s] = None /\ meta'[s] # None =>
                    /\ pc[r] = "rmeta" /\ Slot(r) = s
                    /\ meta'[s] = job[r].out /\ data'[s] = data[s]
    <2>1. Local(r)
        BY <1>2, StepLocal
    <2>2. CASE pc[r] \notin Writing
        BY <1>2, <2>2, OnlyWritersWrite
    <2>3. CASE pc[r] \in Writing /\ ~RenameMeta(r)
        <3>1. meta[Slot(r)] = None
            BY <2>3 DEF WriteInv, Quiet
        <3>2. meta' = meta
            BY <1>2, <2>3, OnlyRenamesMeta
        <3>3. QED
            BY <2>1, <3>1, <3>2 DEF Local, fileVars
    <2>4. CASE RenameMeta(r)
        <3>1. pc[r] = "rmeta" /\ meta[Slot(r)] = None /\ mtmp[Slot(r)] \in {job[r].out, None}
            BY <2>4 DEF RenameMeta, WriteInv, Quiet, Writing, ReqInv
        <3>2. QED
            BY <2>4, <3>1 DEF RenameMeta, RenameMetaTmp, TypeOK
    <2>5. QED
        BY <2>2, <2>3, <2>4
<1>3. QED
    BY <1>1, <1>2 DEF ServerStep, ReadRequest, StepGone, Settle, Crash

(* What a server does while its subdirectory is being removed: the entries *)
(* it makes are whole, or it is on record that they were cut.              *)
LEMMA ServerCut ==
    ASSUME ReadsReliable, SnapshotGets, CompressionAgrees, BaseInv, CutInv, ServerStep
    PROVE  CutInv'
<1>1. WriteInv' /\ PlainInv'
    BY ServerQuiet DEF CutInv
<1>2. ASSUME NEW q \in Reqs
      PROVE  WholeOrCut(q)'
    <2>1. WholeOrCut(q) /\ raced \subseteq raced'
        BY ServerRaced DEF CutInv
    <2>2. ASSUME pc'[q] = pc[q], job'[q] = job[q], Slot(q)' = Slot(q),
                 pc[q] \in {"wmeta", "rmeta"} => data'[Slot(q)] = data[Slot(q)]
          PROVE  (pc[q] \in {"wmeta", "rmeta"} =>
                     data[Slot(q)] = job[q].body \/ Cut(Slot(q)))'
        BY <2>1, <2>2 DEF WholeOrCut, Cut
    <2>3. ASSUME NEW r \in Reqs \ {q},
                 ReadRequest(r) \/ Step(r) \/ StepGone(r) \/ Settle(r)
          PROVE  /\ pc'[q] = pc[q] /\ job'[q] = job[q] /\ Slot(q)' = Slot(q)
                 /\ pc[q] \in {"wmeta", "rmeta"} => data'[Slot(q)] = data[Slot(q)]
        <3>1. Local(r) /\ ReqInv(q)
            BY <2>3, ReadRequestLocal, StepLocal, GoneLocal, SettleLocal
               DEF BaseInv, ClearTypeOK
        <3>2. pc'[q] = pc[q] /\ job'[q] = job[q] /\ Slot(q)' = Slot(q)
            BY <3>1 DEF Local, Slot
        <3>3. pc[q] \in {"wmeta", "rmeta"} => data'[Slot(q)] = data[Slot(q)]
            BY <3>1, OthersFiles DEF Holding, Writing
        <3>4. QED
            BY <3>2, <3>3
    <2>4. ASSUME ReadRequest(q) \/ Settle(q) \/ \E p \in Procs : Crash(p),
                 pc'[q] \in {"wmeta", "rmeta"}
          PROVE  /\ pc'[q] = pc[q] /\ job'[q] = job[q] /\ Slot(q)' = Slot(q)
                 /\ data'[Slot(q)] = data[Slot(q)]
        BY <2>4
           DEF ReadRequest, Goto, Settle, Crash, BaseInv, ClearTypeOK, TypeOK, Slot,
               handlerVars, fileVars
    <2>5. ASSUME (Reachable(q) /\ Step(q)) \/ StepGone(q), pc'[q] \in {"wmeta", "rmeta"}
          PROVE  data'[Slot(q)] = job'[q].body \/ Cut(Slot(q))'
        BY <2>1, <2>5, StepWhole
    <2>6. (pc[q] \in {"wmeta", "rmeta"} =>
              data[Slot(q)] = job[q].body \/ Cut(Slot(q)))'
        <3>1. CASE (Reachable(q) /\ Step(q)) \/ StepGone(q)
            <4>1. Slot(q)' = Slot(q)
                BY <3>1, StepKeepsQuestions DEF StepGone, Slot
            <4>2. QED
                BY <2>5, <3>1, <4>1 DEF Cut
        <3>2. CASE ReadRequest(q) \/ Settle(q) \/ \E p \in Procs : Crash(p)
            BY <2>2, <2>4, <3>2 DEF Cut
        <3>3. CASE \E r \in Reqs \ {q} :
                       ReadRequest(r) \/ Step(r) \/ StepGone(r) \/ Settle(r)
            BY <2>2, <2>3, <3>3 DEF Cut
        <3>4. QED
            BY <3>1, <3>2, <3>3 DEF ServerStep
    <2>7. QED
        BY <2>6, ServerRaced DEF WholeOrCut, Cut
<1>3. ASSUME NEW s \in Slots, meta'[s] # None
      PROVE  /\ s = <<at, cur>>' => s \in raced' \/ "meta" \in names'
             /\ \/ data'[s] = Raw(meta'[s])
                \/ /\ data'[s] = None
                   /\ s \in raced' \/ (s = <<at, cur>>' /\ "meta" \in names')
    <2>1. raced \subseteq raced' /\ UNCHANGED <<at, cur, names>>
        BY ServerRaced
    <2>2. CASE meta[s] # None
        BY <2>1, <2>2, ServerPublishes DEF CutInv, EntriesWholeOrCut
    <2>3. CASE meta[s] = None
        <3>1. PICK r \in Reqs : /\ pc[r] = "rmeta" /\ Slot(r) = s
                                /\ meta'[s] = job[r].out /\ data'[s] = data[s]
            BY <1>3, <2>3, ServerPublishes DEF CutInv
        <3>2. WholeOrCut(r) /\ job[r].body = Raw(job[r].out)
            BY <3>1 DEF CutInv, PlainInv, Writing
        <3>3. s = <<at, cur>> => cur # None
            BY DistinctAssumption DEF Slots
        <3>4. QED
            BY <2>1, <3>1, <3>2, <3>3 DEF WholeOrCut, Cut, Writing
    <2>4. QED
        BY <2>2, <2>3
<1>4. QED
    BY <1>1, <1>2, <1>3 DEF CutInv, EntriesWholeOrCut

(* What the command does: it knows the names of what it removes, and who   *)
(* writes there.                                                           *)
LEMMA CommandCut ==
    ASSUME BaseInv, CutInv, CommandStep
    PROVE  CutInv'
<1> USE DEF BaseInv, ClearTypeOK, CutInv, EntriesWholeOrCut, WholeOrCut, Cut
<1>1. /\ UNCHANGED <<req, job, pc>> /\ \A r \in Reqs : Slot(r)' = Slot(r)
      /\ \A s \in Slots : data'[s] \in {data[s], None} /\ meta'[s] \in {meta[s], None}
    BY CommandTakes DEF handlerVars, Slot
<1>2. ASSUME NEW r \in Reqs, pc[r] \in Writing \cup {"fetch", "reader"}
      PROVE  Slot(r) \in Slots
    BY <1>2, SlotType DEF ReqInv, Writing
<1>3. WriteInv'
    BY <1>1, <1>2 DEF WriteInv, Quiet
<1>4. PlainInv'
    BY <1>1, CommandTakes DEF PlainInv
<1>5. ASSUME NEW f \in FileNames, Unlink(f)
      PROVE  CutInv'
    <2>1. UNCHANGED <<at, cur, raced>> /\ f \in names /\ names' = names \ {f}
        BY <1>5 DEF Unlink, memoryVars
    <2>2. \A s \in Slots : s # <<at, cur>> => UNCHANGED <<data[s], meta[s]>>
        BY <1>5 DEF Unlink, TypeOK
    <2>3. \A s \in Slots : s = <<at, cur>> /\ meta'[s] # None =>
                                 f # "meta" /\ meta'[s] = meta[s]
        BY <1>5 DEF Unlink, TypeOK
    <2>4. \A s \in Slots : s = <<at, cur>> => cur # None
        BY DistinctAssumption DEF Slots
    <2>5. ASSUME NEW r \in Reqs
          PROVE  WholeOrCut(r)'
        BY <1>1, <1>2, <2>1, <2>2, <2>4 DEF Writing
    <2>6. ASSUME NEW s \in Slots, meta'[s] # None
          PROVE  /\ s = <<at, cur>>' => s \in raced' \/ "meta" \in names'
                 /\ \/ data'[s] = Raw(meta'[s])
                    \/ /\ data'[s] = None
                       /\ s \in raced' \/ (s = <<at, cur>>' /\ "meta" \in names')
        BY <1>1, <2>1, <2>2, <2>3, <2>6
    <2>7. QED
        BY <1>3, <1>4, <2>5, <2>6
<1>6. ASSUME NEW k \in Keys, ReadSubdir(k)
      PROVE  CutInv'
    <2>1. /\ UNCHANGED <<data, meta, at>> /\ cur = None /\ cur' = k
          /\ raced' = raced \cup Written(<<at, k>>)
          /\ names' = FilesOf(<<at, k>>)
        BY <1>6 DEF ReadSubdir, vars, fileVars
    <2>2. ASSUME NEW r \in Reqs
          PROVE  WholeOrCut(r)'
        <3>1. pc[r] \in Writing /\ Slot(r) = <<at, k>> => Slot(r) \in Written(<<at, k>>)
            BY DEF Written
        <3>2. QED
            BY <1>1, <2>1, <3>1
    <2>3. \A s \in Slots : s # <<at, cur>>
        BY <2>1, DistinctAssumption DEF Slots
    <2>4. ASSUME NEW s \in Slots, s = <<at, k>>, meta[s] # None
          PROVE  "meta" \in names'
        BY <2>1, <2>4, FilesMember
    <2>5. QED
        BY <1>3, <1>4, <2>1, <2>2, <2>3, <2>4
<1>7. CASE RemoveSubdir
    <2>1. UNCHANGED <<data, meta, at, raced>> /\ cur' = None /\ names = {}
        BY <1>7 DEF RemoveSubdir, vars, fileVars, memoryVars
    <2>2. \A s \in Slots : s # <<at, cur'>>
        BY <2>1, DistinctAssumption DEF Slots
    <2>3. QED
        BY <1>1, <1>3, <1>4, <2>1, <2>2
<1>8. ASSUME NEW c \in Commands, NEW h \in Hosts, RunClear(c, h)
      PROVE  CutInv'
    <2>1. UNCHANGED <<data, meta, cur, names, raced>> /\ cur = None
        BY <1>8 DEF RunClear, vars, fileVars
    <2>2. \A s \in Slots : s # <<at, cur>> /\ s # <<at', cur>>
        BY <2>1, DistinctAssumption DEF Slots
    <2>3. QED
        BY <1>1, <1>3, <1>4, <2>1, <2>2
<1>9. ASSUME UNCHANGED <<data, meta, at, cur, names, raced>>
      PROVE  CutInv'
    BY <1>1, <1>3, <1>4, <1>9
<1>10. QED
    BY <1>5, <1>6, <1>7, <1>8, <1>9
       DEF CommandStep, ClearStep, MakeDir, ListObjects, DeleteListed, DeleteDropped,
           AllDeleted, ClearFails, ReadRoot, RemoveRoot, MakeRoot, ClearDies, allVars,
           clearVars, commandVars, memoryVars, vars, fileVars

(* While clear-local runs and after it, in the middle of a write or of a   *)
(* removal, an entry that check finds (localcache.go:213) is whole or has  *)
(* no data file at all, and the latter only where a request wrote it while *)
(* it was being removed, or until its metadata goes too.                   *)
THEOREM EntriesWhole ==
    ASSUME ReadsReliable, SnapshotGets, CompressionAgrees
    PROVE  ClearSpec => []EntriesWholeOrCut
<1>1. ClearInit => CutInv
    BY DEF ClearInit, Init, FilesInit, BackendInit, CutInv, WriteInv, Quiet, PlainInv,
           Writing, WholeOrCut, EntriesWholeOrCut
<1>2. BaseInv /\ CutInv /\ [ClearNext]_allVars => CutInv'
    BY ServerCut, CommandCut, ClearNextSplits
<1>3. CutInv => EntriesWholeOrCut
    BY DEF CutInv
<1>4. QED
    BY <1>1, <1>2, <1>3, BaseInvariance, PTL DEF ClearSpec

-----------------------------------------------------------------------------
(* Where the output comes from that a request is about to write: its body, *)
(* or the object in the store.                                             *)
Carry(r) ==
    /\ pc[r] \in {"fetch", "reader"} => req[r].op = "get"
    /\ pc[r] \in Writing /\ req[r].op = "put" => job[r].out = req[r].out

CarryInv == \A r \in Reqs : Carry(r)

(* An entry that a successful clear may leave behind: it comes from the    *)
(* store as the command left it, or from what was under way.               *)
Known(s, o) ==
    \/ s[2] \in missed
    \/ WasPending(s[2], o)
    \/ \E r \in fetched : Slot(r) = s /\ job[r].out = o

(* clear comes to the directory once, after the store.                     *)
PhaseInv ==
    /\ stage \in {"list", "delete"} => phases \in {<<"remote">>, <<"remote", "local">>}
    /\ stage \in {"list", "delete"} /\ command = "all" => phases = <<"remote", "local">>
    /\ stage \in {"readroot", "subdir", "mkroot"} => phases = <<"local">>

FetchedInv ==
    /\ fetched \subseteq Reqs
    /\ \A r \in fetched : pc[r] \notin {"idle", "lock", "wait", "check", "fetch"}

LocalStages == {"readroot", "subdir", "mkroot", "ok"}

(* In the directory's turn of clear: what requests carry is known, and so  *)
(* are the entries that are not on the list of what is to be removed.      *)
StickInv ==
    command = "all" /\ stage \in LocalStages =>
        /\ \A r \in Reqs : pc[r] \in Writing \cup {"reader"} => Known(Slot(r), job[r].out)
        /\ stage # "readroot" => \A s \in Slots : s[1] = at /\ meta[s] # None =>
               \/ Known(s, meta[s])
               \/ /\ stage = "subdir" /\ s[2] \in todo
                  /\ cur = s[2] => "meta" \in names

(* A request takes up an output at its check or at its fetch, and writes   *)
(* that one.                                                               *)
LEMMA StepCarries ==
    ASSUME BaseInv, NEW r \in Reqs, Carry(r), Step(r) \/ StepGone(r)
    PROVE  /\ Carry(r)'
           /\ pc'[r] \in Writing \cup {"reader"} =>
                  \/ pc[r] \in Writing \cup {"reader"} /\ job'[r].out = job[r].out
                  \/ pc[r] = "check" /\ req[r].op = "put" /\ job'[r].out = req[r].out
                  \/ /\ pc[r] = "fetch" /\ store[req[r].key] # None
                     /\ job'[r].out = store[req[r].key].out
           /\ pc[r] \notin {"lock", "wait", "check", "fetch"} =>
                  /\ pc'[r] \notin {"idle", "lock", "wait", "check", "fetch"}
                  /\ job'[r].out = job[r].out
<1> USE DEF Goto, fileVars, backendVars, handlerVars, Writing, Carry
<1>1. TypeOK /\ ReqInv(r) /\ req' = req
    BY StepKeepsQuestions DEF BaseInv, ClearTypeOK, StepGone
<1>2. CASE CheckMiss(r)
    <2>1. req[r] \in Requests
        BY <1>1, <1>2 DEF CheckMiss, ReqInv
    <2>2. QED
        BY <1>1, <1>2, <2>1 DEF CheckMiss, GoOn, TypeOK, Requests
<1>3. CASE FetchAttrs(r) \/ FetchHit(r)
    <2>1. pc[r] \in {"fetch", "reader"} /\ store[req[r].key] # None
        BY <1>3 DEF FetchAttrs, FetchHit, Fetching
    <2>2. job'[r].out = IF pc[r] = "reader" THEN job[r].out ELSE store[req[r].key].out
        BY <1>1, <1>3 DEF FetchAttrs, FetchHit, FetchedOut, TypeOK
    <2>3. pc'[r] \in {"reader", "create"}
        BY <1>1, <1>3 DEF FetchAttrs, FetchHit, TypeOK
    <2>4. QED
        BY <1>1, <2>1, <2>2, <2>3
<1>4. CASE Create(r) \/ Copy(r) \/ Rename(r) \/ WriteMeta(r)
    BY <1>1, <1>4 DEF Create, Copy, Rename, WriteMeta, TypeOK
<1>5. CASE AcquireLock(r) \/ LockBusy(r) \/ PutSync(r) \/ Unlock(r) \/ Reply(r)
           \/ LockTimeout(r) \/ LockError(r)
    BY <1>1, <1>5
       DEF AcquireLock, LockBusy, PutSync, Unlock, Reply, LockTimeout, LockError,
           LockFails, TypeOK
<1>6. CASE CheckHit(r) \/ ShortBody(r) \/ FetchMiss(r) \/ FetchError(r)
           \/ FetchUndecodable(r) \/ CreateFails(r) \/ CopyFails(r) \/ RenameFails(r)
           \/ PutAsync(r) \/ PutReturns(r)
    BY <1>1, <1>6
       DEF CheckHit, ShortBody, FetchMiss, FetchError, FetchUndecodable, CreateFails,
           CopyFails, RenameFails, PutAsync, PutReturns, Return, TypeOK
<1>7. CASE WriteMetaFails(r) \/ RenameMeta(r) \/ RenameMetaFails(r)
    BY <1>1, <1>7
       DEF WriteMetaFails, RenameMeta, RenameMetaFails, AfterWrite, Return, TypeOK
<1>8. CASE StepGone(r)
    BY <1>1, <1>8 DEF StepGone, AfterWrite, Return, TypeOK
<1>9. QED
    BY <1>2, <1>3, <1>4, <1>5, <1>6, <1>7, <1>8 DEF Step

(* What a server's step does to a request: it takes the step itself, or    *)
(* keeps its question and its job, and at most dies.                       *)
LEMMA ServerRequest ==
    ASSUME BaseInv, ServerStep, NEW r \in Reqs
    PROVE  \/ Step(r) \/ StepGone(r)
           \/ pc[r] = "idle" /\ pc'[r] = "lock"
           \/ UNCHANGED <<req[r], job[r]>> /\ (pc'[r] = pc[r] \/ pc'[r] = "dead")
<1> USE DEF BaseInv, ClearTypeOK
<1>1. ASSUME NEW q \in Reqs \ {r}, ReadRequest(q) \/ Step(q) \/ StepGone(q)
      PROVE  UNCHANGED <<req[r], job[r], pc[r]>>
    BY <1>1, ReadRequestLocal, StepLocal, GoneLocal DEF Local
<1>2. ASSUME ReadRequest(r)
      PROVE  pc[r] = "idle" /\ pc'[r] = "lock"
    BY <1>2 DEF ReadRequest, Goto, TypeOK
<1>3. ASSUME (\E q \in Reqs : Settle(q)) \/ \E p \in Procs : Crash(p)
      PROVE  UNCHANGED <<req[r], job[r]>> /\ (pc'[r] = pc[r] \/ pc'[r] = "dead")
    BY <1>3 DEF Settle, Crash, handlerVars
<1>4. QED
    BY <1>1, <1>2, <1>3 DEF ServerStep

LEMMA NextCarry ==
    ASSUME BaseInv, CarryInv, [ClearNext]_allVars
    PROVE  CarryInv'
<1>1. ASSUME ServerStep, NEW r \in Reqs
      PROVE  Carry(r)'
    BY <1>1, ServerRequest, StepCarries DEF CarryInv, Carry, Writing
<1>2. CASE CommandStep
    BY <1>2, CommandTakes DEF CarryInv, Carry, handlerVars, BaseInv, ClearTypeOK
<1>3. QED
    BY <1>1, <1>2, ClearNextSplits DEF CarryInv

(* The phases of the command, one after the other.                         *)
LEMMA PhaseFacts ==
    /\ Head(<<"remote">>) = "remote" /\ Head(<<"local">>) = "local"
    /\ Head(<<"remote", "local">>) = "remote"
    /\ Tail(<<"remote", "local">>) = <<"local">>
    /\ Tail(<<"remote">>) = <<>> /\ Tail(<<"local">>) = <<>>
    /\ <<"local">> # <<>> /\ <<"remote">> # <<>> /\ <<"remote", "local">> # <<>>
OBVIOUS

LEMMA NextPhase ==
    ASSUME PhaseInv, [ClearNext]_allVars
    PROVE  PhaseInv'
<1> USE DEF PhaseInv
<1>1. CASE ServerStep
    BY <1>1 DEF ServerStep, commandVars
<1>2. ASSUME NEW c \in Commands, NEW h \in Hosts, RunClear(c, h)
      PROVE  PhaseInv'
    <2>1. /\ c \in {"local", "remote", "all"}
          /\ command' = c /\ EnterPhase(Phases(c))
        BY <1>2, ClearAssumption DEF RunClear
    <2>2. CASE c = "local"
        BY <2>1, <2>2, PhaseFacts DEF EnterPhase, Phases
    <2>3. CASE c = "remote"
        BY <2>1, <2>3, PhaseFacts DEF EnterPhase, Phases
    <2>4. CASE c = "all"
        BY <2>1, <2>4, PhaseFacts DEF EnterPhase, Phases
    <2>5. QED
        BY <2>1, <2>2, <2>3, <2>4
<1>3. CASE AllDeleted
    BY <1>3, PhaseFacts DEF AllDeleted, EnterPhase
<1>4. CASE MakeRoot
    BY <1>4, PhaseFacts DEF MakeRoot, EnterPhase
<1>5. CASE CommandStep /\ ~AllDeleted /\ ~MakeRoot
           /\ ~(\E c \in Commands, h \in Hosts : RunClear(c, h))
    BY <1>5
       DEF CommandStep, ClearStep, MakeDir, ListObjects, DeleteListed, DeleteDropped,
           ClearFails, ReadRoot, ReadSubdir, Unlink, RemoveSubdir, RemoveRoot, ClearDies,
           allVars, clearVars, commandVars
<1>6. QED
    BY <1>1, <1>2, <1>3, <1>4, <1>5, ClearNextSplits

(* A GET that had its object goes on with it. *)
LEMMA FetchedKeeps ==
    ASSUME BaseInv, CarryInv, FetchedInv, PendingInv, [ClearNext]_allVars, NEW r \in fetched
    PROVE  /\ r \in Reqs /\ Slot(r)' = Slot(r) /\ job'[r].out = job[r].out
           /\ pc'[r] \notin {"idle", "lock", "wait", "check", "fetch"}
<1>1. r \in Reqs /\ pc[r] \notin {"idle", "lock", "wait", "check", "fetch"}
    BY DEF FetchedInv
<1>2. CASE ServerStep
    <2>1. req'[r] = req[r]
        BY <1>1, <1>2, ServerPending
    <2>2. Slot(r)' = Slot(r)
        BY <2>1 DEF Slot
    <2>3. QED
        BY <1>1, <1>2, <2>2, ServerRequest, StepCarries DEF CarryInv
<1>3. CASE CommandStep
    BY <1>1, <1>3, CommandTakes DEF handlerVars, Slot, BaseInv, ClearTypeOK
<1>4. QED
    BY <1>2, <1>3, ClearNextSplits

LEMMA NextFetched ==
    ASSUME BaseInv, CarryInv, FetchedInv, PendingInv, [ClearNext]_allVars
    PROVE  FetchedInv'
<1>1. CASE fetched' = fetched
    BY <1>1, FetchedKeeps DEF FetchedInv
<1>2. CASE fetched' = Carrying /\ pc' = pc
    BY <1>2 DEF Carrying, Writing, FetchedInv
<1>3. CASE ServerStep
    BY <1>1, <1>3 DEF ServerStep
<1>4. CASE CommandStep
    <2>1. pc' = pc
        BY <1>4, CommandTakes DEF BaseInv, ClearTypeOK
    <2>2. fetched' = fetched \/ fetched' = Carrying
        BY <1>4
           DEF CommandStep, ClearStep, MakeDir, RunClear, EnterPhase, ListObjects,
               DeleteListed, DeleteDropped, AllDeleted, ClearFails, ReadRoot, ReadSubdir,
               Unlink, RemoveSubdir, RemoveRoot, MakeRoot, ClearDies, allVars, clearVars,
               memoryVars
    <2>3. QED
        BY <1>1, <1>2, <2>1, <2>2
<1>5. QED
    BY <1>3, <1>4, ClearNextSplits

(* What is known stays known: a deletion that failed has failed, who was   *)
(* pending was, and who had fetched goes on with it.                       *)
LEMMA KnownStays ==
    ASSUME BaseInv, PendingInv, CarryInv, FetchedInv, [ClearNext]_allVars, stage # "none",
           fetched' = fetched, NEW s \in Slots, NEW o, Known(s, o)
    PROVE  Known(s, o)'
<1>1. s[2] \in Keys
    BY DEF Slots
<1>2. CASE s[2] \in missed
    <2>1. missed \subseteq missed'
        BY DEF ClearNext, ServerStep, AllDone, MakeDir, RunClear, ClearStep, ListObjects,
               DeleteListed, DeleteDropped, AllDeleted, ClearFails, ReadRoot, ReadSubdir,
               Unlink, RemoveSubdir, RemoveRoot, MakeRoot, ClearDies, allVars, clearVars,
               memoryVars
    <2>2. QED
        BY <1>2, <2>1 DEF Known
<1>3. CASE WasPending(s[2], o)
    BY <1>1, <1>3, PendingStays DEF Known
<1>4. CASE \E r \in fetched : Slot(r) = s /\ job[r].out = o
    BY <1>4, FetchedKeeps DEF Known
<1>5. QED
    BY <1>2, <1>3, <1>4 DEF Known

(* In the directory's turn a request takes up only what is known: the body *)
(* of a PUT that was pending, or an object that the store may still hold.  *)
LEMMA CarriesKnown ==
    ASSUME BaseInv, PendingInv, RemoteInv, CarryInv, FetchedInv, StickInv, ServerStep,
           command = "all", stage \in LocalStages,
           NEW r \in Reqs, pc'[r] \in Writing \cup {"reader"}
    PROVE  Known(Slot(r), job[r].out)'
<1>1. /\ UNCHANGED <<dirVars, commandVars, pending, fetched, missed>> /\ stage # "none"
      /\ \A s \in Slots : \A o : Known(s, o) => Known(s, o)'
    BY ServerPending, KnownStays DEF LocalStages, ClearNext
<1>2. CASE UNCHANGED <<req[r], job[r]>> /\ pc'[r] = pc[r]
    <2>1. Known(Slot(r), job[r].out) /\ Slot(r) \in Slots
        BY <1>2, SlotType DEF StickInv, BaseInv, ReqInv, Writing
    <2>2. Slot(r)' = Slot(r) /\ job'[r] = job[r]
        BY <1>2 DEF Slot
    <2>3. QED
        BY <1>1, <2>1, <2>2
<1>3. CASE Step(r) \/ StepGone(r)
    <2>1. req' = req /\ Slot(r)' = Slot(r)
        BY <1>3, StepKeepsQuestions DEF StepGone, Slot
    <2>2. CASE pc[r] \in Writing \cup {"reader"} /\ job'[r].out = job[r].out
        <3>1. Known(Slot(r), job[r].out) /\ Slot(r) \in Slots
            BY <2>2, SlotType DEF StickInv, BaseInv, ReqInv, Writing
        <3>2. QED
            BY <1>1, <2>1, <2>2, <3>1
    <2>3. CASE pc[r] = "check" /\ req[r].op = "put" /\ job'[r].out = req[r].out
        <3>1. req[r] \in Requests /\ Slot(r) \in Slots
            BY <2>3, SlotType DEF BaseInv, ReqInv
        <3>2. r \in pending
            BY <1>1, <2>3 DEF PendingInv, Over, MayLand
        <3>3. Slot(r)[2] = req[r].key
            BY DEF Slot
        <3>4. req[r] = [op |-> "put", key |-> Slot(r)[2], out |-> req[r].out]
            BY <2>3, <3>1, <3>3 DEF Requests
        <3>5. Known(Slot(r), req[r].out)
            BY <3>2, <3>4 DEF Known, WasPending
        <3>6. QED
            BY <1>1, <2>1, <2>3, <3>1, <3>5
    <2>4. CASE /\ pc[r] = "fetch" /\ store[req[r].key] # None
               /\ job'[r].out = store[req[r].key].out
        <3>1. req[r].key \in Keys /\ Slot(r) \in Slots /\ Slot(r)[2] = req[r].key
            BY <2>4, SlotType DEF BaseInv, ReqInv, Requests, Slot
        <3>2. Excused(req[r].key)
            BY <3>1 DEF RemoteInv, LocalStages
        <3>3. Known(Slot(r), store[req[r].key].out)
            BY <2>4, <3>1, <3>2 DEF Known, Excused
        <3>4. QED
            BY <1>1, <2>1, <2>4, <3>1, <3>3
    <2>5. QED
        BY <1>3, <2>2, <2>3, <2>4, StepCarries DEF CarryInv
<1>4. QED
    BY <1>2, <1>3, ServerRequest DEF Writing

(* The metadata that a server's step makes is that of its job.             *)
LEMMA ServerNames ==
    ASSUME BaseInv, ServerStep, NEW s \in Slots, meta'[s] # None
    PROVE  \/ meta'[s] = meta[s]
           \/ \E r \in Reqs : pc[r] = "rmeta" /\ Slot(r) = s /\ meta'[s] = job[r].out
<1>1. CASE meta' = meta
    BY <1>1
<1>2. QED
    BY <1>1, StepNames
       DEF BaseInv, ClearTypeOK, ServerStep, ReadRequest, StepGone, Settle, Crash, fileVars

LEMMA ServerStick ==
    ASSUME BaseInv, PendingInv, RemoteInv, CarryInv, FetchedInv, StickInv, ServerStep
    PROVE  StickInv'
<1> SUFFICES ASSUME command = "all", stage \in LocalStages
             PROVE  StickInv'
    BY ServerPending DEF StickInv, commandVars
<1>1. UNCHANGED <<dirVars, commandVars, pending, fetched, missed>> /\ stage # "none"
    BY ServerPending DEF LocalStages
<1>2. \A s \in Slots : \A o : Known(s, o) => Known(s, o)'
    BY <1>1, KnownStays DEF ClearNext
<1>3. ASSUME stage # "readroot", NEW s \in Slots, s[1] = at, meta'[s] # None
      PROVE  \/ Known(s, meta[s])'
             \/ stage = "subdir" /\ s[2] \in todo /\ (cur = s[2] => "meta" \in names)
    <2>1. CASE meta'[s] = meta[s]
        BY <1>2, <1>3, <2>1 DEF StickInv
    <2>2. ASSUME NEW r \in Reqs, pc[r] = "rmeta", Slot(r) = s, meta'[s] = job[r].out
          PROVE  Known(s, meta[s])'
        BY <1>2, <2>2 DEF StickInv, Writing
    <2>3. QED
        BY <1>3, <2>1, <2>2, ServerNames
<1>4. QED
    BY <1>1, <1>3, CarriesKnown DEF StickInv, commandVars

(* The command turns to the directory: who carries an object is noted.     *)
LEMMA TurnStick ==
    ASSUME BaseInv, PendingInv, CarryInv, PhaseInv, command = "all", AllDeleted
    PROVE  StickInv'
<1>1. /\ stage = "delete" /\ stage' = "readroot" /\ fetched' = Carrying
      /\ UNCHANGED <<command, pending, missed, vars>>
    BY PhaseFacts DEF AllDeleted, EnterPhase, PhaseInv
<1>2. UNCHANGED <<req, job, pc>> /\ \A r \in Reqs : Slot(r)' = Slot(r)
    BY <1>1 DEF vars, handlerVars, Slot
<1>3. ASSUME NEW r \in Reqs, pc[r] \in Writing \cup {"reader"}
      PROVE  Known(Slot(r), job[r].out)'
    <2>1. req[r] \in Requests
        BY <1>3 DEF BaseInv, ReqInv, Writing
    <2>2. CASE req[r].op = "get"
        <3>1. r \in fetched'
            BY <1>1, <1>3, <2>2 DEF Carrying
        <3>2. QED
            BY <1>2, <3>1 DEF Known
    <2>3. CASE req[r].op = "put"
        <3>1. r \in pending /\ job[r].out = req[r].out
            BY <1>1, <1>3, <2>3 DEF PendingInv, Over, CarryInv, Carry, Writing
        <3>2. req[r] = [op |-> "put", key |-> Slot(r)[2], out |-> job[r].out]
            BY <2>1, <2>3, <3>1 DEF Requests, Slot
        <3>3. /\ r \in pending'
              /\ req'[r] = [op |-> "put", key |-> Slot(r)'[2], out |-> job'[r].out]
            BY <1>1, <1>2, <3>1, <3>2
        <3>4. QED
            BY <3>3 DEF Known, WasPending
    <2>4. QED
        BY <2>1, <2>2, <2>3 DEF Requests
<1>4. QED
    BY <1>1, <1>2, <1>3 DEF StickInv

(* The directory is read, emptied and made anew: every entry of it is on   *)
(* the list, or known.                                                     *)
LEMMA CommandStick ==
    ASSUME BaseInv, PendingInv, CarryInv, FetchedInv, PhaseInv, StickInv, CommandStep
    PROVE  StickInv'
<1> USE DEF StickInv, LocalStages
<1>1. /\ UNCHANGED <<req, job, pc>> /\ \A r \in Reqs : Slot(r)' = Slot(r)
      /\ \A s \in Slots : meta'[s] \in {meta[s], None}
    BY CommandTakes DEF handlerVars, Slot, BaseInv, ClearTypeOK
<1>2. ASSUME fetched' = fetched, command' = command, command = "all",
             stage \in LocalStages
      PROVE  /\ \A s \in Slots, o \in Outputs : Known(s, o) => Known(s, o)'
             /\ \A r \in Reqs : pc'[r] \in Writing \cup {"reader"} =>
                    Known(Slot(r), job[r].out)'
    <2>1. \A s \in Slots : \A o : Known(s, o) => Known(s, o)'
        BY <1>2, KnownStays DEF ClearNext, CommandStep, AllDone
    <2>2. \A r \in Reqs : pc[r] \in Writing \cup {"reader"} => Slot(r) \in Slots
        BY SlotType DEF BaseInv, ReqInv, Writing
    <2>3. QED
        BY <1>1, <1>2, <2>1, <2>2
<1>3. meta \in [Slots -> Outputs \cup {None}]
    BY DEF BaseInv, ClearTypeOK, TypeOK
<1>4. ASSUME NEW c \in Commands, NEW h \in Hosts, RunClear(c, h)
      PROVE  StickInv'
    BY <1>4, PhaseFacts DEF RunClear, EnterPhase, Phases
<1>5. CASE command = "all" /\ AllDeleted
    BY <1>5, TurnStick
<1>6. CASE ReadRoot
    <2>1. UNCHANGED <<command, at, cur, fetched, meta>> /\ stage' = "subdir" /\ cur = None
        BY <1>6 DEF ReadRoot, vars, fileVars, memoryVars, BaseInv
    <2>2. ASSUME NEW s \in Slots, s[1] = at, meta[s] # None
          PROVE  s[2] \in todo' /\ cur # s[2]
        <3>1. s = <<at, s[2]>> /\ s[2] \in Keys
            BY <2>2 DEF Slots
        <3>2. s \in dirs
            BY <2>2, FilesMember DEF BaseInv, ClearTypeOK
        <3>3. QED
            BY <1>6, <2>1, <3>1, <3>2, DistinctAssumption DEF ReadRoot
    <2>3. QED
        BY <1>2, <1>6, <2>1, <2>2 DEF ReadRoot
<1>7. ASSUME NEW k \in Keys, ReadSubdir(k)
      PROVE  StickInv'
    <2>1. /\ UNCHANGED <<command, at, stage, todo, fetched, meta>> /\ stage = "subdir"
          /\ cur' = k /\ names' = FilesOf(<<at, k>>)
        BY <1>7 DEF ReadSubdir, vars, fileVars
    <2>2. ASSUME NEW s \in Slots, s[1] = at, s[2] = k, meta[s] # None
          PROVE  "meta" \in names'
        <3>1. s = <<at, k>>
            BY <2>2 DEF Slots
        <3>2. QED
            BY <2>1, <2>2, <3>1, FilesMember
    <2>3. QED
        BY <1>2, <1>3, <2>1, <2>2
<1>8. ASSUME NEW f \in FileNames, Unlink(f)
      PROVE  StickInv'
    <2>1. /\ UNCHANGED <<command, at, stage, todo, cur, fetched>> /\ stage = "subdir"
          /\ names' = names \ {f}
        BY <1>8 DEF Unlink, memoryVars
    <2>2. ASSUME NEW s \in Slots, s[1] = at, cur = s[2], f = "meta"
          PROVE  meta'[s] = None
        <3>1. s = <<at, cur>>
            BY <2>2 DEF Slots
        <3>2. QED
            BY <1>3, <1>8, <2>2, <3>1 DEF Unlink
    <2>3. QED
        BY <1>1, <1>2, <1>3, <2>1, <2>2
<1>9. CASE RemoveSubdir
    <2>1. /\ UNCHANGED <<command, at, stage, fetched, meta>> /\ stage = "subdir"
          /\ todo' = todo \ {cur} /\ cur' = None /\ cur # None /\ names = {}
        BY <1>9 DEF RemoveSubdir, vars, fileVars, memoryVars
    <2>2. \A s \in Slots : s[2] # cur'
        BY <2>1, DistinctAssumption DEF Slots
    <2>3. QED
        BY <1>2, <1>3, <2>1, <2>2
<1>10. CASE RemoveRoot \/ (MakeRoot /\ command = "all")
    <2>1. /\ UNCHANGED <<command, at, fetched, meta>> /\ stage' \in {"ok", "failed", "mkroot"}
          /\ stage = "subdir" => todo = {}
          /\ stage \in {"subdir", "mkroot"}
        BY <1>10, PhaseFacts
           DEF RemoveRoot, MakeRoot, EnterPhase, PhaseInv, vars, fileVars, memoryVars
    <2>2. QED
        BY <1>2, <1>3, <2>1
<1>11. CASE \/ ListObjects \/ ClearFails \/ ClearDies
            \/ \E k \in Keys : DeleteListed(k) \/ DeleteDropped(k)
    BY <1>11 DEF ListObjects, ClearFails, ClearDies, DeleteListed, DeleteDropped
<1>12. CASE (AllDeleted \/ MakeRoot) /\ command # "all"
    BY <1>12 DEF AllDeleted, MakeRoot
<1>13. ASSUME UNCHANGED <<commandVars, memoryVars, meta>>
       PROVE  StickInv'
    BY <1>2, <1>3, <1>13 DEF commandVars, memoryVars
<1>14. QED
    BY <1>4, <1>5, <1>6, <1>7, <1>8, <1>9, <1>10, <1>11, <1>12, <1>13
       DEF CommandStep, ClearStep, MakeDir, allVars, clearVars, vars, fileVars

(* A successful clear lasts (main.go:369): the store before the directory, *)
(* so that a running server brings nothing back that it had not in hand.   *)
THEOREM ClearLasts == ClearSpec => []ClearSticks
<1> DEFINE I == CarryInv /\ PhaseInv /\ FetchedInv /\ StickInv
<1>1. ClearInit => I
    BY DEF ClearInit, Init, CarryInv, Carry, PhaseInv, FetchedInv, StickInv, Writing,
           LocalStages
<1>2. BaseInv /\ PendingInv /\ RemoteInv /\ I /\ [ClearNext]_allVars => I'
    BY NextCarry, NextPhase, NextFetched, ServerStick, CommandStick, ClearNextSplits
<1>3. I => ClearSticks
    BY DEF StickInv, LocalStages, Known, WasPending, ClearSticks
<1>4. QED
    BY <1>1, <1>2, <1>3, BaseInvariance, RemoteInvariance, PTL DEF ClearSpec

-----------------------------------------------------------------------------
(* What was PUT stays PUT, whatever the command takes away.                *)
LEMMA ClearPutsStay ==
    ASSUME BaseInv, PendingInv, [ClearNext]_allVars, NEW k, NEW o, Promise!WasPut(k, o)
    PROVE  Promise!WasPut(k, o)'
<1>1. PICK q \in Reqs : req[q] = [op |-> "put", key |-> k, out |-> o]
    BY DEF Promise!WasPut
<1>2. req[q] # NoReq
    BY <1>1 DEF NoReq
<1>3. req'[q] = req[q]
    BY <1>2, ServerPending, CommandTakes, ClearNextSplits
       DEF BaseInv, ClearTypeOK, handlerVars
<1>4. QED
    BY <1>1, <1>3 DEF Promise!WasPut

(* A request that was asked is not asked again. *)
LEMMA ClearAskedOnce ==
    ASSUME BaseInv, PendingInv, ServerStep, NEW r \in Reqs, req[r] \in Requests
    PROVE  req'[r] = req[r] /\ Slot(r)' = Slot(r)
BY AskedReal, ServerPending DEF Slot

(* What a request carries, and what is in the store, was PUT.              *)
LEMMA ServerSource ==
    ASSUME BaseInv, PendingInv, CarryInv, SourceInv, ServerStep
    PROVE  SourceInv'
<1>1. \A k, o : Promise!WasPut(k, o) => Promise!WasPut(k, o)'
    BY ClearPutsStay DEF ClearNext
<1>2. ASSUME NEW r \in Reqs, pc'[r] \in Writing \cup {"reader"}
      PROVE  Promise!WasPut(req[r].key, job[r].out)'
    <2>1. CASE (Step(r) \/ StepGone(r)) \/ UNCHANGED <<req[r], job[r], pc[r]>>
        <3>1. /\ req[r] \in Requests
              /\ \/ pc[r] \in Writing \cup {"reader"} /\ job'[r].out = job[r].out
                 \/ pc[r] = "check" /\ req[r].op = "put" /\ job'[r].out = req[r].out
                 \/ /\ pc[r] = "fetch" /\ store[req[r].key] # None
                    /\ job'[r].out = store[req[r].key].out
            BY <1>2, <2>1, StepCarries DEF CarryInv, BaseInv, ReqInv, Writing
        <3>2. Promise!WasPut(req[r].key, job'[r].out)
            BY <3>1, OwnPut DEF SourceInv, Sourced, Requests
        <3>3. QED
            BY <1>1, <3>1, <3>2, ClearAskedOnce
    <2>2. QED
        BY <1>2, <2>1, ServerRequest DEF Writing
<1>3. ASSUME NEW r \in Reqs
      PROVE  Sourced(r)'
    <2>1. Carry(r)'
        BY NextCarry DEF ClearNext, CarryInv
    <2>2. QED
        BY <1>2, <2>1 DEF Sourced, Carry
<1>4. ASSUME NEW k \in Keys, store'[k] # None
      PROVE  Promise!WasPut(k, store[k].out)'
    <2>1. CASE store'[k] = store[k]
        BY <1>1, <1>4, <2>1 DEF SourceInv
    <2>2. CASE store'[k] # store[k]
        BY <2>2, ServerStores DEF Promise!WasPut
    <2>3. QED
        BY <2>1, <2>2
<1>5. QED
    BY <1>3, <1>4 DEF SourceInv

(* ... and so was what its host has published. *)
LEMMA ServerEntries ==
    ASSUME BaseInv, PendingInv, SourceInv, EntriesSourced, ServerStep
    PROVE  EntriesSourced'
<1> SUFFICES ASSUME NEW s \in Slots, meta'[s] # None
             PROVE  Promise!WasPut(s[2], meta[s])'
    BY DEF EntriesSourced
<1>1. \A k, o : Promise!WasPut(k, o) => Promise!WasPut(k, o)'
    BY ClearPutsStay DEF ClearNext
<1>2. Promise!WasPut(s[2], meta'[s])
    BY ServerNames DEF EntriesSourced, SourceInv, Sourced, Writing, Slot
<1>3. QED
    BY <1>1, <1>2

(* A request that finds its directory gone answers with the output of its  *)
(* job: only the metadata was lost.                                        *)
LEMMA GoneAnswers ==
    ASSUME TypeOK, NEW r \in Reqs, StepGone(r), res'[r] # res[r], res'[r].kind = "hit"
    PROVE  pc[r] \in Writing /\ res'[r].out = job[r].out
BY DEF StepGone, AfterWrite, Return, Writing, TypeOK

(* The answer of a request is its own step.                                *)
LEMMA ServerAnswers ==
    ASSUME TypeOK, ServerStep, NEW r \in Reqs, res'[r] # res[r]
    PROVE  Step(r) \/ StepGone(r)
<1>1. ASSUME NEW q \in Reqs \ {r}, Step(q) \/ StepGone(q)
      PROVE  res'[r] = res[r]
    BY <1>1
       DEF Step, StepGone, TypeOK, Return, AfterWrite, handlerVars, AcquireLock, LockBusy,
           LockTimeout, LockError, LockFails, CheckHit, CheckMiss, GoOn, ShortBody,
           FetchMiss, FetchError, FetchAttrs, FetchHit, FetchUndecodable, Create,
           CreateFails, Copy, CopyFails, Rename, RenameFails, WriteMeta, WriteMetaFails,
           RenameMeta, RenameMetaFails, PutAsync, PutSync, PutReturns, Unlock, Reply
<1>2. QED
    BY <1>1 DEF ServerStep, ReadRequest, Settle, Crash, handlerVars

LEMMA ServerAnswersSourced ==
    ASSUME BaseInv, PendingInv, SourceInv, EntriesSourced, AnswersSourced, ServerStep
    PROVE  AnswersSourced'
<1> SUFFICES ASSUME NEW r \in Reqs, res'[r].kind = "hit"
             PROVE  /\ req'[r] \in Requests /\ res'[r].out \in Outputs
                    /\ Promise!WasPut(req[r].key, res[r].out)'
    BY DEF AnswersSourced, AnswerSourced
<1>1. ASSUME req[r] \in Requests, res'[r].out \in Outputs,
             Promise!WasPut(req[r].key, res'[r].out)
      PROVE  /\ req'[r] \in Requests /\ res'[r].out \in Outputs
             /\ Promise!WasPut(req[r].key, res[r].out)'
    BY <1>1, ClearAskedOnce, ClearPutsStay DEF ClearNext
<1>2. CASE res'[r] = res[r]
    BY <1>1, <1>2 DEF AnswersSourced, AnswerSourced
<1>3. CASE res'[r] # res[r]
    <2>1. Step(r) \/ StepGone(r)
        BY <1>3, ServerAnswers DEF BaseInv, ClearTypeOK
    <2>2. req[r] \in Requests
        BY <2>1, StepAwake DEF BaseInv, ReqInv, StepGone
    <2>3. \/ Slot(r) \in Slots /\ meta[Slot(r)] # None /\ res'[r].out = meta[Slot(r)]
          \/ pc[r] \in Writing /\ res'[r].out = job[r].out
        BY <1>3, <2>1, StepAnswers, GoneAnswers DEF BaseInv, ClearTypeOK
    <2>4. Slot(r)[2] = req[r].key
        BY DEF Slot
    <2>5. res'[r].out \in Outputs /\ Promise!WasPut(req[r].key, res'[r].out)
        BY <2>3, <2>4
           DEF BaseInv, ClearTypeOK, TypeOK, ReqInv, EntriesSourced, SourceInv, Sourced
    <2>6. QED
        BY <1>1, <2>2, <2>5
<1>4. QED
    BY <1>2, <1>3

(* The command makes nothing up: it only takes away.                       *)
LEMMA CommandSourced ==
    ASSUME BaseInv, SourceInv, EntriesSourced, AnswersSourced, CommandStep
    PROVE  SourceInv' /\ EntriesSourced' /\ AnswersSourced'
<1>1. UNCHANGED <<req, job, res, pc>>
    BY CommandTakes DEF handlerVars, BaseInv, ClearTypeOK
<1>2. /\ \A s \in Slots : meta'[s] \in {meta[s], None}
      /\ \A k \in Keys : store'[k] \in {store[k], None}
    BY CommandTakes DEF BaseInv, ClearTypeOK
<1>3. SourceInv'
    BY <1>1, <1>2 DEF SourceInv, Sourced, Promise!WasPut
<1>4. EntriesSourced' /\ AnswersSourced'
    BY <1>1, <1>2 DEF EntriesSourced, AnswersSourced, AnswerSourced, Promise!WasPut
<1>5. QED
    BY <1>3, <1>4

(* While a clear command empties the store and the directory under running *)
(* servers, a GET still answers only what was PUT for its action ID:       *)
(* whatever the two phases have removed between its steps, and whatever    *)
(* the server then writes anew (server.go:617).                            *)
THEOREM ProvenancedThroughClear == ClearSpec => []Provenance
<1> DEFINE I == SourceInv /\ EntriesSourced /\ AnswersSourced
<1>1. ClearInit => CarryInv /\ I
    BY DEF ClearInit, Init, FilesInit, BackendInit, CarryInv, Carry, SourceInv, Sourced,
           EntriesSourced, AnswersSourced, AnswerSourced, NoRes, Writing
<1>2. BaseInv /\ CarryInv /\ [ClearNext]_allVars => CarryInv'
    BY NextCarry
<1>3. BaseInv /\ PendingInv /\ CarryInv /\ I /\ [ClearNext]_allVars => I'
    BY ServerSource, ServerEntries, ServerAnswersSourced, CommandSourced, ClearNextSplits
<1>4. I => Provenance
    BY DEF AnswersSourced, AnswerSourced, Provenance, Promise!WasPut
<1>5. QED
    BY <1>1, <1>2, <1>3, <1>4, BaseInvariance, RemoteInvariance, PTL DEF ClearSpec

-----------------------------------------------------------------------------
(* clear-remote has one phase, and it is not the directory's.              *)
TurnInv ==
    stage # "none" /\ command = "remote" =>
        phases \in {<<"remote">>, <<>>} /\ stage \notin {"readroot", "subdir", "mkroot"}

(* A file is there for the next call of a request that made it.            *)
InPlace(r) == Placed(r) /\ (pc[r] = "copy" => tmp[Slot(r)] # None)

(* A server that serves has made its subdirectories, and they and the files*)
(* of its requests are there until the directory is touched.               *)
ServedInv ==
    /\ \A r \in Reqs : pc[r] \notin {"idle", "dead"} => Started(ProcOf[r])
    /\ Untouched =>
          /\ \A p \in Procs : \A k \in made[p] : <<HostOf[p], k>> \in dirs
          /\ \A r \in Reqs : InPlace(r)

LEMMA NextTurn ==
    ASSUME PhaseInv, TurnInv, [ClearNext]_allVars
    PROVE  TurnInv'
<1> USE DEF TurnInv
<1>1. CASE ServerStep
    BY <1>1 DEF ServerStep, commandVars
<1>2. ASSUME NEW c \in Commands, NEW h \in Hosts, RunClear(c, h)
      PROVE  TurnInv'
    BY <1>2, PhaseFacts DEF RunClear, EnterPhase, Phases
<1>3. CASE AllDeleted \/ MakeRoot
    BY <1>3, PhaseFacts DEF AllDeleted, MakeRoot, EnterPhase, PhaseInv
<1>4. CASE CommandStep /\ ~AllDeleted /\ ~MakeRoot
           /\ ~(\E c \in Commands, h \in Hosts : RunClear(c, h))
    BY <1>4
       DEF CommandStep, ClearStep, MakeDir, ListObjects, DeleteListed, DeleteDropped,
           ClearFails, ReadRoot, ReadSubdir, Unlink, RemoveSubdir, RemoveRoot, ClearDies,
           allVars, clearVars, commandVars, Idle
<1>5. QED
    BY <1>1, <1>2, <1>3, <1>4, ClearNextSplits

(* What was touched stays so. *)
LEMMA StaysUntouched ==
    ASSUME PhaseInv, TurnInv, [ClearNext]_allVars, Untouched'
    PROVE  Untouched
<1> USE DEF Untouched
<1>1. CASE ServerStep
    BY <1>1 DEF ServerStep, commandVars
<1>2. ASSUME NEW c \in Commands, NEW h \in Hosts, RunClear(c, h)
      PROVE  Untouched
    BY <1>2 DEF RunClear
<1>3. CASE AllDeleted \/ MakeRoot
    BY <1>3, PhaseFacts DEF AllDeleted, MakeRoot, EnterPhase, PhaseInv
<1>4. CASE CommandStep /\ ~AllDeleted /\ ~MakeRoot
           /\ ~(\E c \in Commands, h \in Hosts : RunClear(c, h))
    BY <1>4
       DEF CommandStep, ClearStep, MakeDir, ListObjects, DeleteListed, DeleteDropped,
           ClearFails, ReadRoot, ReadSubdir, Unlink, RemoveSubdir, RemoveRoot, ClearDies,
           allVars, clearVars, commandVars
<1>5. QED
    BY <1>1, <1>2, <1>3, <1>4, ClearNextSplits

(* Before that the command takes away objects and nothing else.            *)
LEMMA UntouchedCommand ==
    ASSUME BaseInv, PhaseInv, TurnInv, Untouched, CommandStep
    PROVE  /\ \/ UNCHANGED vars
              \/ /\ \E k \in Keys : store' = [store EXCEPT ![k] = None]
                 /\ UNCHANGED <<lock, fileVars, upload, counted, handlerVars, pc>>
           /\ UNCHANGED dirVars \/ \E p \in Procs, k \in Keys : MakeDir(p, k)
<1>1. stage # "subdir"
    BY PhaseFacts DEF Untouched, PhaseInv, TurnInv
<1>2. ~RemoveSubdir /\ \A f \in FileNames : ~Unlink(f)
    BY <1>1 DEF RemoveSubdir, Unlink
<1>3. CASE \E k \in Keys : DeleteListed(k)
    BY <1>3 DEF DeleteListed
<1>4. QED
    BY <1>2, <1>3
       DEF CommandStep, ClearStep, MakeDir, RunClear, ListObjects, DeleteDropped,
           AllDeleted, ClearFails, ReadRoot, ReadSubdir, RemoveRoot, MakeRoot, ClearDies,
           allVars, clearVars

(* What the next call of a request needs is there. *)
LEMMA UntouchedReachable ==
    ASSUME BaseInv, ServedInv, Untouched, NEW r \in Reqs
    PROVE  Reachable(r)
<1>1. ReqInv(r) /\ InPlace(r)
    BY DEF BaseInv, ServedInv
<1>2. CASE pc[r] \in {"create", "wmeta"}
    <2>1. req[r].key \in made[ProcOf[r]] /\ ProcOf[r] \in Procs
        BY <1>1, <1>2, ConfigAssumption DEF ReqInv, ServedInv, Started, Requests
    <2>2. QED
        BY <1>2, <2>1 DEF Reachable, ServedInv, Slot
<1>3. CASE pc[r] \in {"copy", "rename", "rmeta"}
    BY <1>1, <1>3, DistinctAssumption DEF Reachable, InPlace, Placed, ReqInv, Writing
<1>4. QED
    BY <1>2, <1>3 DEF Reachable

(* The goroutine of r leaves the files of all requests in place.           *)
LEMMA StepInPlace ==
    ASSUME Inv, \A q \in Reqs : InPlace(q), NEW r \in Reqs,
           ReadRequest(r) \/ Step(r) \/ Settle(r), NEW q \in Reqs
    PROVE  InPlace(q)'
<1>1. Local(r) /\ TypeOK /\ ReqInv(q) /\ InPlace(q)
    BY ReadRequestLocal, StepLocal, SettleLocal DEF Inv
<1>2. CASE q # r
    <2>1. Placed(q)'
        BY <1>1, <1>2, OthersKeep DEF InPlace
    <2>2. pc'[q] = pc[q]
        BY <1>1, <1>2 DEF Local
    <2>3. pc[q] = "copy" => tmp'[Slot(q)] = tmp[Slot(q)] /\ Slot(q)' = Slot(q)
        BY <1>1, <1>2, OthersFiles DEF Holding, Writing
    <2>4. QED
        BY <1>1, <2>1, <2>2, <2>3 DEF InPlace
<1>3. CASE q = r /\ (ReadRequest(r) \/ Settle(r))
    BY <1>1, <1>3
       DEF ReadRequest, Settle, Goto, InPlace, Placed, Slot, TypeOK, fileVars, handlerVars
<1>4. CASE q = r /\ Step(r)
    <2>1. Placed(r)'
        BY <1>4, StepPlaced
    <2>2. ASSUME pc'[r] = "copy"
          PROVE  tmp'[Slot(r)] # None /\ Slot(r)' = Slot(r)
        <3>1. Create(r)
            BY <1>1, <1>4, <2>2
               DEF Step, Goto, AcquireLock, LockBusy, LockTimeout, LockError, LockFails,
                   CheckHit, CheckMiss, GoOn, ShortBody, FetchMiss, FetchError, FetchAttrs,
                   FetchHit, FetchUndecodable, CreateFails, Copy, CopyFails, Rename,
                   RenameFails, WriteMeta, WriteMetaFails, RenameMeta, RenameMetaFails,
                   AfterWrite, Return, PutAsync, PutSync, PutReturns, Unlock, Reply, TypeOK
        <3>2. Slot(r) \in Slots
            BY <1>1, <1>4, <3>1, SlotType DEF ReqInv, Create
        <3>3. QED
            BY <1>1, <3>1, <3>2, DistinctAssumption
               DEF Create, CreateTmp, TypeOK, Slot, handlerVars
    <2>3. QED
        BY <1>4, <2>1, <2>2 DEF InPlace
<1>5. QED
    BY <1>2, <1>3, <1>4

(* A server reads requests when its subdirectories are made, and they are  *)
(* made once.                                                              *)
LEMMA AwakeStarted ==
    ASSUME BaseInv, ServedInv, [ClearNext]_allVars, NEW r \in Reqs,
           pc'[r] \notin {"idle", "dead"}
    PROVE  Started(ProcOf[r])'
<1>1. CASE ServerStep
    <2>1. made' = made
        BY <1>1 DEF ServerStep, dirVars
    <2>2. CASE pc[r] \notin {"idle", "dead"}
        BY <2>1, <2>2 DEF ServedInv, Started
    <2>3. CASE pc[r] \in {"idle", "dead"}
        <3>1. PICK q \in Reqs :
                  \/ Started(ProcOf[q]) /\ ReadRequest(q)
                  \/ Step(q) \/ StepGone(q) \/ Settle(q)
            BY <1>1, <2>3 DEF ServerStep, Crash
        <3>2. Local(q)
            BY <3>1, ReadRequestLocal, StepLocal, GoneLocal, SettleLocal
               DEF BaseInv, ClearTypeOK
        <3>3. pc'[r] # pc[r]
            BY <2>3
        <3>4. q = r
            BY <3>2, <3>3 DEF Local
        <3>5. ~Step(q) /\ ~StepGone(q) /\ ~Settle(q)
            BY <2>3, <3>3, <3>4, StepAwake DEF StepGone, Settle
        <3>6. QED
            BY <2>1, <3>1, <3>4, <3>5 DEF Started
    <2>4. QED
        BY <2>2, <2>3
<1>2. CASE CommandStep
    <2>1. pc' = pc
        BY <1>2, CommandTakes DEF BaseInv, ClearTypeOK
    <2>2. made[ProcOf[r]] = Keys
        BY <2>1 DEF ServedInv, Started
    <2>3. CASE \E p \in Procs, k \in Keys : MakeDir(p, k)
        BY <2>2, <2>3 DEF MakeDir, BaseInv, ClearTypeOK, Started
    <2>4. CASE ~(\E p \in Procs, k \in Keys : MakeDir(p, k))
        BY <1>2, <2>2, <2>4
           DEF CommandStep, ClearStep, RunClear, ListObjects, DeleteListed, DeleteDropped,
               AllDeleted, ClearFails, ReadRoot, ReadSubdir, Unlink, RemoveSubdir,
               RemoveRoot, MakeRoot, ClearDies, allVars, clearVars, dirVars, Started
    <2>5. QED
        BY <2>3, <2>4
<1>3. QED
    BY <1>1, <1>2, ClearNextSplits

(* What the servers did before the directory was touched, they did with    *)
(* their files in place.                                                   *)
LEMMA ServerInPlace ==
    ASSUME BaseInv, ServedInv, Untouched, ServerStep, NEW q \in Reqs
    PROVE  InPlace(q)'
<1>1. Inv /\ (\A r \in Reqs : InPlace(r)) /\ TypeOK
    BY DEF BaseInv, ClearTypeOK, Inv, ServedInv, InPlace
<1>2. \A r \in Reqs : ~StepGone(r)
    BY UntouchedReachable DEF StepGone
<1>3. CASE \E r \in Reqs : ReadRequest(r) \/ Step(r) \/ Settle(r)
    BY <1>1, <1>3, StepInPlace
<1>4. CASE \E p \in Procs : Crash(p)
    <2>1. Placed(q)'
        BY <1>1, <1>4, CrashKeeps DEF Inv
    <2>2. pc'[q] = "copy" => pc[q] = "copy" /\ tmp' = tmp /\ Slot(q)' = Slot(q)
        BY <1>1, <1>4 DEF Crash, fileVars, handlerVars, TypeOK, Slot
    <2>3. QED
        BY <1>1, <2>1, <2>2 DEF InPlace
<1>5. QED
    BY <1>2, <1>3, <1>4 DEF ServerStep

LEMMA NextServed ==
    ASSUME BaseInv, PhaseInv, TurnInv, ServedInv, [ClearNext]_allVars
    PROVE  ServedInv'
<1>1. SUFFICES ASSUME Untouched'
               PROVE  /\ \A p \in Procs : \A k \in made'[p] : <<HostOf[p], k>> \in dirs'
                      /\ \A r \in Reqs : InPlace(r)'
    BY AwakeStarted DEF ServedInv
<1>2. Untouched
    BY <1>1, StaysUntouched
<1>3. /\ \A p \in Procs : \A k \in made[p] : <<HostOf[p], k>> \in dirs
      /\ \A r \in Reqs : InPlace(r)
    BY <1>2 DEF ServedInv
<1>4. CASE ServerStep
    <2>1. made' = made /\ dirs' = dirs
        BY <1>4 DEF ServerStep, dirVars
    <2>2. QED
        BY <1>2, <1>3, <1>4, <2>1, ServerInPlace
<1>5. CASE CommandStep
    <2>1. /\ UNCHANGED vars \/ UNCHANGED <<lock, fileVars, upload, counted, handlerVars, pc>>
          /\ UNCHANGED dirVars \/ \E p \in Procs, k \in Keys : MakeDir(p, k)
        BY <1>2, <1>5, UntouchedCommand
    <2>2. UNCHANGED <<tmp, data, mtmp, req, job, pc>>
        BY <2>1 DEF vars, fileVars, handlerVars
    <2>3. \A r \in Reqs : InPlace(r)'
        BY <1>3, <2>2 DEF InPlace, Placed, Slot
    <2>4. \A p \in Procs : \A k \in made'[p] : <<HostOf[p], k>> \in dirs'
        BY <1>3, <2>1 DEF MakeDir, dirVars, BaseInv, ClearTypeOK
    <2>5. QED
        BY <2>3, <2>4
<1>6. QED
    BY <1>4, <1>5, ClearNextSplits

(* A step with the directory in place is one that CacheProg allows.        *)
LEMMA UntouchedStep ==
    ASSUME "clear" \in Faults,
           BaseInv, PhaseInv, TurnInv, ServedInv, Untouched, [ClearNext]_allVars
    PROVE  [Next]_vars
<1>1. CASE ServerStep
    <2>1. \A r \in Reqs : ~StepGone(r)
        BY UntouchedReachable DEF StepGone
    <2>2. QED
        BY <1>1, <2>1 DEF ServerStep, Next
<1>2. CASE CommandStep
    <2>1. CASE UNCHANGED vars
        BY <2>1
    <2>2. ASSUME NEW k \in Keys, store' = [store EXCEPT ![k] = None],
                 UNCHANGED <<lock, fileVars, upload, counted, handlerVars, pc>>
          PROVE  [Next]_vars
        <3>1. CASE store[k] = None
            <4>1. store' = store
                BY <2>2, <3>1 DEF BaseInv, ClearTypeOK, TypeOK
            <4>2. QED
                BY <2>2, <4>1 DEF vars, fileVars, backendVars, handlerVars
        <3>2. CASE store[k] # None
            BY <2>2, <3>2 DEF Next, Clear, DeleteObject
        <3>3. QED
            BY <3>1, <3>2
    <2>3. QED
        BY <1>2, <2>1, <2>2, UntouchedCommand
<1>3. QED
    BY <1>1, <1>2, ClearNextSplits

(* What the refinement rests on is invariant. *)
LEMMA ServedInvariance == ClearSpec => [](BaseInv /\ PhaseInv /\ TurnInv /\ ServedInv)
<1> DEFINE I == PhaseInv /\ TurnInv /\ ServedInv
<1>1. ClearInit => I
    BY DEF ClearInit, Init, PhaseInv, TurnInv, ServedInv, InPlace, Placed
<1>2. BaseInv /\ I /\ [ClearNext]_allVars => I'
    BY NextPhase, NextTurn, NextServed
<1>3. QED
    BY <1>1, <1>2, BaseInvariance, PTL DEF ClearSpec

(* main.go:291, localcache.go:46: until a clear command takes the first    *)
(* name out of the cache directory, servers that started properly never    *)
(* miss a file, and behave as CacheProg specifies with the deletions of    *)
(* the command as its own.                                                 *)
THEOREM ServersUndisturbed ==
    ASSUME "clear" \in Faults
    PROVE  ClearSpec => ServesAsBefore
<1>1. BaseInv /\ PhaseInv /\ TurnInv /\ ServedInv /\ [ClearNext]_allVars
          => [Untouched => [Next]_vars]_allVars
    BY UntouchedStep
<1>2. QED
    BY <1>1, ServedInvariance, PTL DEF ClearSpec, ServesAsBefore

(* With clear-remote alone that is for ever: every theorem about CacheProg *)
(* holds of the servers and the command together (main.go:300).            *)
THEOREM RemoteClearRefines ==
    ASSUME "clear" \in Faults, Commands \subseteq {"remote"}
    PROVE  ClearSpec => Spec
<1> DEFINE Only == stage = "none" \/ command = "remote"
<1>1. ClearInit => Init /\ Only
    BY DEF ClearInit
<1>2. ASSUME Only, [ClearNext]_allVars
      PROVE  Only'
    BY <1>2
       DEF ClearNext, ServerStep, ClearStep, MakeDir, RunClear, ListObjects, DeleteListed,
           DeleteDropped, AllDeleted, ClearFails, ReadRoot, ReadSubdir, Unlink,
           RemoveSubdir, RemoveRoot, MakeRoot, ClearDies, Idle, AllDone, EnterPhase,
           allVars, clearVars, commandVars
<1>3. Only => Untouched
    BY DEF Untouched
<1>4. BaseInv /\ PhaseInv /\ TurnInv /\ ServedInv /\ Only /\ [ClearNext]_allVars
          => [Next]_vars
    BY <1>3, UntouchedStep
<1>5. QED
    BY <1>1, <1>2, <1>4, ServedInvariance, PTL DEF ClearSpec, Spec

=============================================================================
