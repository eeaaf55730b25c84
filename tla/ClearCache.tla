----------------------------- MODULE ClearCache -----------------------------
(***************************************************************************)
(* main.go's clear commands against running servers. clear-remote lists    *)
(* the objects and deletes them; clear-local removes the cache directory   *)
(* name by name and makes it anew; clear does one after the other. In the  *)
(* directory every slot has a subdirectory, which a server makes when it   *)
(* starts and never again. One command runs, once, on one host.            *)
(***************************************************************************)
EXTENDS CacheProg, Sequences

CONSTANTS
    Commands,       \* the commands that may be run: "local", "remote", "all"
    DeleteErrors    \* the store may fail to list or to delete

ASSUME ClearAssumption ==
    /\ Commands \subseteq {"local", "remote", "all"}
    /\ DeleteErrors \in BOOLEAN

VARIABLES
    dirs,       \* the slots whose subdirectory exists
    made,       \* made[p]: the keys whose subdirectory p has made at its start
    command,    \* the command that runs
    at,         \* its host
    phases,     \* what it has left to clear, the current phase first
    stage,      \* where it is
    todo,       \* the keys whose object or subdirectory is still to be removed
    cur,        \* the key whose subdirectory is being removed, or None
    names       \* the files of that subdirectory still to be removed

\* What the properties remember of the past.
VARIABLES
    pending,    \* when the command began: the requests that may yet PUT
    fetched,    \* when clear-local began: the GETs that had their object
    missed,     \* keys whose deletion failed without the command noticing
    raced       \* slots that a request wrote while they were being removed

dirVars == <<dirs, made>>
commandVars == <<command, at, phases, stage, todo, cur, names>>
memoryVars == <<pending, fetched, missed, raced>>
clearVars == <<dirVars, commandVars, memoryVars>>
allVars == <<vars, clearVars>>

Idle == {"none", "ok", "failed"}
Stages == Idle \cup {"list", "delete", "readroot", "subdir", "mkroot"}
FileNames == {"tmp", "data", "mtmp", "meta"}

ClearInit ==
    /\ Init
    /\ dirs = {}
    /\ made = [p \in Procs |-> {}]
    /\ command = None /\ at = None
    /\ phases = <<>> /\ stage = "none"
    /\ todo = {} /\ cur = None /\ names = {}
    /\ pending = {} /\ fetched = {} /\ missed = {} /\ raced = {}

-----------------------------------------------------------------------------
(* The servers. newLocalCache makes the subdirectories, in parallel, and   *)
(* the directory with them; a start that fails leaves some of them and is  *)
(* no start.                                                               *)
MakeDir(p, k) ==
    /\ k \notin made[p]
    /\ \A r \in Reqs : ProcOf[r] = p => pc[r] = "idle"
    /\ made' = [made EXCEPT ![p] = @ \cup {k}]
    /\ dirs' = dirs \cup {<<HostOf[p], k>>}
    /\ UNCHANGED <<vars, commandVars, memoryVars>>

\* newLocalCache that does not look at the errors of the parallel mkdirs.
Started_ErrorsIgnored(p) == made[p] # {}

Started(p) == made[p] = Keys

(* The file or directory that the next call of request r needs is there. A *)
(* file that is open survives its name, so a copy never notices.           *)
Reachable(r) ==
    CASE pc[r] \in {"create", "wmeta"} -> Slot(r) \in dirs
      [] pc[r] \in {"copy", "rename"}  -> tmp[Slot(r)] # None
      [] pc[r] = "rmeta"               -> mtmp[Slot(r)] # None
      [] OTHER                         -> TRUE

\* The error of os.Rename is not looked at.
StepGone_RenameIgnored(r) ==
    /\ ~Reachable(r)
    /\ \/ pc[r] = "create" /\ Return(r, "err", None)
       \/ pc[r] = "copy" /\ Goto(r, "rename") /\ UNCHANGED res
       \/ pc[r] = "rename" /\ Goto(r, "wmeta") /\ UNCHANGED res
       \/ pc[r] \in {"wmeta", "rmeta"} /\ AfterWrite(r)
    /\ UNCHANGED <<lock, fileVars, backendVars, req, job>>

(* ENOENT: an error for the data file, a warning for the metadata.         *)
StepGone(r) ==
    /\ ~Reachable(r)
    /\ \/ pc[r] \in {"create", "rename"} /\ Return(r, "err", None)
       \/ pc[r] = "copy" /\ Goto(r, "rename") /\ UNCHANGED res
       \/ pc[r] \in {"wmeta", "rmeta"} /\ AfterWrite(r)
    /\ UNCHANGED <<lock, fileVars, backendVars, req, job>>

(* s itself, if a request is writing its files. *)
Written(s) == {q \in {s} : \E r \in Reqs : pc[r] \in Writing /\ Slot(r) = q}

ServerStep ==
    /\ \/ \E r \in Reqs :
             \/ Started(ProcOf[r]) /\ ReadRequest(r)
             \/ Reachable(r) /\ Step(r)
             \/ StepGone(r)
             \/ Settle(r)
       \/ \E p \in Procs : Crash(p)
    /\ UNCHANGED <<dirVars, commandVars, pending, fetched, missed>>
    /\ raced' = IF cur = None THEN raced ELSE raced \cup Written(<<at, cur>>)'

-----------------------------------------------------------------------------
(* The command. *)

\* clear that empties the directory first.
Phases_LocalFirst(c) ==
    CASE c = "local"  -> <<"local">>
      [] c = "remote" -> <<"remote">>
      [] OTHER        -> <<"local", "remote">>

Phases(c) ==
    CASE c = "local"  -> <<"local">>
      [] c = "remote" -> <<"remote">>
      [] OTHER        -> <<"remote", "local">>

(* The requests that may still store something that was PUT. *)
MayPut ==
    {r \in Reqs :
        \/ pc[r] = "idle"
        \/ /\ req[r].op = "put"
           /\ pc[r] \notin {"done", "dead"} \/ r \in MayLand}

(* The GETs that have an object in hand, or its attributes. *)
Carrying == {r \in Reqs : req[r].op = "get" /\ pc[r] \in Writing \cup {"reader"}}

EnterPhase(q) ==
    /\ phases' = q
    /\ stage' = IF q = <<>> THEN "ok" ELSE IF Head(q) = "remote" THEN "list" ELSE "readroot"
    /\ fetched' = IF q # <<>> /\ Head(q) = "local" THEN Carrying ELSE fetched

RunClear(c, h) ==
    /\ stage = "none"
    /\ command' = c
    /\ at' = h
    /\ pending' = MayPut
    /\ EnterPhase(Phases(c))
    /\ UNCHANGED <<vars, dirVars, todo, cur, names, missed, raced>>

(* The backend's Clear. *)
ListObjects ==
    /\ stage = "list"
    /\ todo' = {k \in Keys : store[k] # None}
    /\ stage' = "delete"
    /\ UNCHANGED <<vars, dirVars, command, at, phases, cur, names, memoryVars>>

DeleteListed(k) ==
    /\ stage = "delete" /\ k \in todo
    /\ todo' = todo \ {k}
    /\ store' = [store EXCEPT ![k] = None]
    /\ UNCHANGED <<lock, fileVars, upload, counted, handlerVars, pc>>
    /\ UNCHANGED <<dirVars, command, at, phases, stage, cur, names, memoryVars>>

(* The error of one deletion is dropped by GCS, and not read by S3.        *)
DeleteDropped(k) ==
    /\ DeleteErrors
    /\ stage = "delete" /\ k \in todo
    /\ todo' = todo \ {k}
    /\ missed' = missed \cup {k}
    /\ UNCHANGED <<vars, dirVars, command, at, phases, stage, cur, names>>
    /\ UNCHANGED <<pending, fetched, raced>>

(* A page cannot be listed; S3 turns a whole batch down.                   *)
ClearFails ==
    /\ DeleteErrors
    /\ \/ stage = "list"
       \/ stage = "delete" /\ BackendType = "s3" /\ todo # {}
    /\ stage' = "failed"
    /\ UNCHANGED <<vars, dirVars, command, at, phases, todo, cur, names, memoryVars>>

\* The loop over the batches ends one too early.
AllDeleted_OffByOne ==
    /\ stage = "delete" /\ Cardinality(todo) <= 1
    /\ EnterPhase(Tail(phases))
    /\ todo' = {}
    /\ UNCHANGED <<vars, dirVars, command, at, cur, names, pending, missed, raced>>

AllDeleted ==
    /\ stage = "delete" /\ todo = {}
    /\ EnterPhase(Tail(phases))
    /\ UNCHANGED <<vars, dirVars, command, at, todo, cur, names, pending, missed, raced>>

(* os.RemoveAll: the names of a directory are read once, removed one by    *)
(* one, whatever they name by then, and the directory last.                *)
ReadRoot ==
    /\ stage = "readroot"
    /\ todo' = {k \in Keys : <<at, k>> \in dirs}
    /\ stage' = "subdir"
    /\ UNCHANGED <<vars, dirVars, command, at, phases, cur, names, memoryVars>>

FilesOf(s) ==
    {f \in FileNames :
        CASE f = "tmp"  -> tmp[s] # None
          [] f = "data" -> data[s] # None
          [] f = "mtmp" -> mtmp[s] # None
          [] f = "meta" -> meta[s] # None}

ReadSubdir(k) ==
    /\ stage = "subdir" /\ cur = None /\ k \in todo
    /\ cur' = k
    /\ names' = FilesOf(<<at, k>>)
    /\ raced' = raced \cup Written(<<at, k>>)
    /\ UNCHANGED <<vars, dirVars, command, at, phases, stage, todo, pending, fetched, missed>>

Unlink(f) ==
    LET s == <<at, cur>>
        Without(g, file) == IF f = g THEN [file EXCEPT ![s] = None] ELSE file
    IN
    /\ stage = "subdir" /\ f \in names
    /\ names' = names \ {f}
    /\ tmp'  = Without("tmp", tmp)
    /\ data' = Without("data", data)
    /\ mtmp' = Without("mtmp", mtmp)
    /\ meta' = Without("meta", meta)
    /\ UNCHANGED <<lock, backendVars, handlerVars, pc>>
    /\ UNCHANGED <<dirVars, command, at, phases, stage, todo, cur, memoryVars>>

\* A directory that goes whatever is in it.
RemoveSubdir_Forced ==
    /\ stage = "subdir" /\ cur # None /\ names = {}
    /\ dirs' = dirs \ {<<at, cur>>}
    /\ todo' = todo \ {cur}
    /\ cur' = None
    /\ UNCHANGED <<vars, made, command, at, phases, stage, names, memoryVars>>

(* A file made since then makes the subdirectory stay.                     *)
RemoveSubdir ==
    /\ stage = "subdir" /\ cur # None /\ names = {}
    /\ dirs' = IF FilesOf(<<at, cur>>) = {} THEN dirs \ {<<at, cur>>} ELSE dirs
    /\ todo' = todo \ {cur}
    /\ cur' = None
    /\ UNCHANGED <<vars, made, command, at, phases, stage, names, memoryVars>>

(* ... and the directory with it: RemoveAll fails. *)
RemoveRoot ==
    /\ stage = "subdir" /\ cur = None /\ todo = {}
    /\ stage' = IF \E k \in Keys : <<at, k>> \in dirs THEN "failed" ELSE "mkroot"
    /\ UNCHANGED <<vars, dirVars, command, at, phases, todo, cur, names, memoryVars>>

(* os.MkdirAll makes the directory, not its subdirectories.                *)
MakeRoot ==
    /\ stage = "mkroot"
    /\ EnterPhase(Tail(phases))
    /\ UNCHANGED <<vars, dirVars, command, at, todo, cur, names, pending, missed, raced>>

(* The command is killed. *)
ClearDies ==
    /\ "crash" \in Faults
    /\ stage \notin Idle
    /\ stage' = "failed"
    /\ UNCHANGED <<vars, dirVars, command, at, phases, todo, cur, names, memoryVars>>

ClearStep ==
    \/ ListObjects \/ (\E k \in Keys : DeleteListed(k) \/ DeleteDropped(k)) \/ AllDeleted
    \/ ClearFails
    \/ ReadRoot \/ (\E k \in Keys : ReadSubdir(k)) \/ (\E f \in FileNames : Unlink(f))
    \/ RemoveSubdir \/ RemoveRoot \/ MakeRoot

AllDone ==
    /\ \A r \in Reqs : pc[r] \in {"done", "dead"} /\ upload[r] # "inflight"
    /\ stage \in {"ok", "failed"}
    /\ UNCHANGED allVars

ClearNext ==
    \/ ServerStep
    \/ \E p \in Procs, k \in Keys : MakeDir(p, k)
    \/ \E c \in Commands, h \in Hosts : RunClear(c, h)
    \/ ClearStep
    \/ ClearDies
    \/ AllDone

ClearSpec == ClearInit /\ [][ClearNext]_allVars

-----------------------------------------------------------------------------
(* Types, and the file system's own rule: a file is in a directory.        *)
ClearTypeOK ==
    /\ TypeOK
    /\ dirs \subseteq Slots
    /\ made \in [Procs -> SUBSET Keys]
    /\ stage \in Stages
    /\ todo \subseteq Keys /\ cur \in Keys \cup {None} /\ names \subseteq FileNames
    /\ \A s \in Slots : FilesOf(s) # {} => s \in dirs

(* localcache.go:213: check trusts the metadata for the data. While a clear*)
(* runs, and after it, an entry that is found has its very bytes or none at*)
(* all; none at all only while its subdirectory is being removed (or if the*)
(* command died in it), or for good if a request wrote it at that time.    *)
EntriesWholeOrCut ==
    \A s \in Slots : meta[s] # None =>
        \/ data[s] = Raw(meta[s])
        \/ /\ data[s] = None
           /\ s \in raced \/ (s = <<at, cur>> /\ "meta" \in names)

(* A successful clear-remote (s3.go:181, gcs.go:160): an object that is in *)
(* the store was PUT by a request that the store was not done with when    *)
(* the command began (not sent, under way, or failed or lost and applied   *)
(* late), or its deletion failed unnoticed.                                *)
RemoteCleared ==
    stage = "ok" /\ command \in {"remote", "all"} =>
        \A k \in Keys \ missed : store[k] # None =>
            \E r \in pending : req[r] = [op |-> "put", key |-> k, out |-> store[k].out]

(* A successful clear (main.go:369, first the store and then the directory)*)
(* is not undone by a running server: what its host finds afterwards comes *)
(* from a PUT that the host or the store was not done with when the command*)
(* began, or from a GET that had fetched its object before the directory   *)
(* was cleared.                                                            *)
ClearSticks ==
    stage = "ok" /\ command = "all" =>
        \A s \in Slots : s[1] = at /\ s[2] \notin missed /\ meta[s] # None =>
            \/ \E r \in pending : req[r] = [op |-> "put", key |-> s[2], out |-> meta[s]]
            \/ \E r \in fetched : Slot(r) = s /\ job[r].out = meta[s]

(* No name has been taken out of the directory yet, and none will be by    *)
(* clear-remote.                                                           *)
Untouched ==
    \/ stage \in {"none", "readroot"}
    \/ command = "remote"
    \/ phases = <<"remote", "local">>

(* main.go:291, localcache.go:46. Until then, and under clear-remote for   *)
(* ever, the servers behave as CacheProg says: every file and directory    *)
(* that a handler needs is there, and the deletions of the command, in a   *)
(* batch or one by one, are CacheProg's Clear.                             *)
ServesAsBefore == [][Untouched => [Next]_vars]_allVars

=============================================================================
