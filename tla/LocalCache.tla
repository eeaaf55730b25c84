----------------------------- MODULE LocalCache -----------------------------
(***************************************************************************)
(* localcache.go: the files of one action ID in the cache directory of a   *)
(* host. Every operation below is one system call; writeWithMetadata is a  *)
(* sequence of them, and other processes run, or this one dies, between    *)
(* any two. A file is removed only by the code that wrote it.              *)
(***************************************************************************)
EXTENDS CacheBase

VARIABLES
    tmp,    \* tmp[s]:  <path>.tmp, the data file being written
    data,   \* data[s]: <path>, the data file whose path is given out
    mtmp,   \* mtmp[s]: <path>.meta.tmp
    meta    \* meta[s]: <path>.meta, the output ID it names, or None

fileVars == <<tmp, data, mtmp, meta>>

FilesInit ==
    /\ tmp  = [s \in Slots |-> None]
    /\ data = [s \in Slots |-> None]
    /\ mtmp = [s \in Slots |-> None]
    /\ meta = [s \in Slots |-> None]

(* check looks at the metadata file alone. *)
Found(s) == meta[s] # None

(* write: os.Create truncates, io.Copy fills, os.Rename publishes. *)
CreateTmp(s) ==
    /\ tmp' = [tmp EXCEPT ![s] = Torn]
    /\ UNCHANGED <<data, mtmp, meta>>

FillTmp(s, c) ==
    /\ tmp' = [tmp EXCEPT ![s] = c]
    /\ UNCHANGED <<data, mtmp, meta>>

RenameTmp(s) ==
    /\ data' = [data EXCEPT ![s] = tmp[s]]
    /\ tmp' = [tmp EXCEPT ![s] = None]
    /\ UNCHANGED <<mtmp, meta>>

\* The deferred os.Remove left out.
RemoveTmp_Forgotten(s) == UNCHANGED fileVars

RemoveTmp(s) ==
    /\ tmp' = [tmp EXCEPT ![s] = None]
    /\ UNCHANGED <<data, mtmp, meta>>

(* writeMetadata: os.WriteFile to the temporary file, os.Rename, and       *)
(* os.Remove when the rename fails.                                        *)
WriteMetaTmp(s, o) ==
    /\ mtmp' = [mtmp EXCEPT ![s] = o]
    /\ UNCHANGED <<tmp, data, meta>>

RenameMetaTmp(s) ==
    /\ meta' = [meta EXCEPT ![s] = mtmp[s]]
    /\ mtmp' = [mtmp EXCEPT ![s] = None]
    /\ UNCHANGED <<tmp, data>>

RemoveMetaTmp(s) ==
    /\ mtmp' = [mtmp EXCEPT ![s] = None]
    /\ UNCHANGED <<tmp, data, meta>>

=============================================================================
