------------------------------ MODULE Startup ------------------------------
(***************************************************************************)
(* main.go up to the point where a server serves or a clear command has    *)
(* cleared: how flags and the two forms of each environment variable are   *)
(* resolved, which backend is built and wrapped, when a failure is fatal.  *)
(* A server and then one clear command start from the same environment and *)
(* the same flags; nothing else connects them.                             *)
(***************************************************************************)
EXTENDS Naturals, Sequences

CONSTANTS
    Environments    \* the environments and flags to start from

(* How one setting is given. An environment variable that is "" is unset;  *)
(* a flag may well be "".                                                  *)
Unset == "unset"
Given(flags, texts) ==
    [flag : flags \cup {Unset}, prefixed : texts \cup {""}, plain : texts \cup {""}]

Settings == {"backend", "legacy", "bucket", "prefix", "key", "secret", "cacheDir",
             "lock", "async", "errors", "debug", "fallback"}

ASSUME EnvironmentsAssumption ==
    \A e \in Environments : DOMAIN e = Settings

Clears == {"clear", "clear-local", "clear-remote"}
Commands == {"server"} \cup Clears

VARIABLES
    env,        \* the environment and the flags
    at,         \* at[c]: how far command c is, or how it ended
    conf,       \* conf[c]: the configuration it resolved
    chain       \* chain[c]: its backend, from the store to the outermost wrapper

startVars == <<env, at, conf, chain>>

Ends == {"running", "cleared", "usage", "nobackend", "nolocks", "nodir", "notcleared"}
Places == {"new", "backend", "locks", "files", "store", "dir"} \cup Ends

StartInit ==
    /\ env \in Environments
    /\ at = [c \in Commands |-> "new"]
    /\ conf = [c \in Commands |-> <<>>]
    /\ chain = [c \in Commands |-> <<>>]

-----------------------------------------------------------------------------
(* The values of variables and flags. *)

getEnv(v, default) == IF v.plain = "" THEN default ELSE v.plain

getEnvWithPrefix(v, default) ==
    IF v.prefixed = "" THEN getEnv(v, default) ELSE v.prefixed

(* Any text that is not a yes is a no, but only in the plain form. *)
getEnvBool(v, default) == IF v.plain = "" THEN default ELSE v.plain = "yes"

\* A prefixed value decides whatever it says.
getEnvBoolWithPrefix_NoFallThrough(v, default) ==
    IF v.prefixed = "" THEN getEnvBool(v, default) ELSE v.prefixed = "yes"

getEnvBoolWithPrefix(v, default) ==
    IF v.prefixed \in {"yes", "no"} THEN v.prefixed = "yes" ELSE getEnvBool(v, default)

(* Whether the rate is positive; what is not a number is passed over.      *)
getEnvRateWithPrefix(v) ==
    \/ v.prefixed = "yes"
    \/ v.prefixed # "no" /\ v.plain = "yes"

Flag(v, default) == IF v.flag = Unset THEN default ELSE v.flag
BoolFlag(v, default) == IF v.flag = Unset THEN default ELSE v.flag = "yes"

(* The flag set of each command. *)
Accepts(c) ==
    CASE c = "server"      -> Settings
      [] c = "clear"       -> {"backend", "bucket", "prefix", "cacheDir", "debug"}
      [] c = "clear-local" -> {"cacheDir", "debug"}
      [] OTHER             -> {"backend", "bucket", "prefix", "debug"}

\* A clear command with another default.
DefaultPrefix_Apart(c) == IF c = "server" THEN "gobuildcache/" ELSE "buildcache/"

DefaultPrefix(c) == IF c = "server" THEN "gobuildcache/" ELSE ""

(* What a command does not have a flag for keeps Go's zero value.          *)
Resolve(c) ==
    LET Text(s, default) == Flag(env[s], getEnvWithPrefix(env[s], default))
        Bool(s, default) ==
            s \in Accepts(c) /\ BoolFlag(env[s], getEnvBoolWithPrefix(env[s], default))
    IN  [backend  |-> Text("backend", getEnv(env["legacy"], "disk")),
         bucket   |-> Text("bucket", ""),
         prefix   |-> Text("prefix", DefaultPrefix(c)),
         key      |-> getEnvWithPrefix(env["key"], ""),
         secret   |-> getEnvWithPrefix(env["secret"], ""),
         cacheDir |-> Text("cacheDir", "tmp"),
         lock     |-> Text("lock", "fslock"),
         errors   |-> "errors" \in Accepts(c) /\ BoolFlag(env["errors"], getEnvRateWithPrefix(env["errors"])),
         async    |-> Bool("async", TRUE),
         debug    |-> Bool("debug", FALSE),
         fallback |-> Bool("fallback", FALSE)]

-----------------------------------------------------------------------------
(* The backend. *)

(* strings.ToLower, of the names that main.go:409 and main.go:506 know.     *)
Lowered == [DISK |-> "disk", S3 |-> "s3", GCS |-> "gcs",
            MEMORY |-> "memory", FSLOCK |-> "fslock", FS |-> "fs", NOOP |-> "noop"]

Lower(t) == IF t \in DOMAIN Lowered THEN Lowered[t] ELSE t

\* Only a secret without a key is noticed.
CredentialsOK_KeyAlone(k) == k.secret # "" => k.key # ""

(* resolveS3Config *)
CredentialsOK(k) == (k.key # "") <=> (k.secret # "")

\* A type nobody knows is taken for a disk.
Opens_UnknownIsDisk(k) ==
    CASE Lower(k.backend) = "s3"  -> IF k.bucket # "" /\ CredentialsOK(k) THEN {"s3"} ELSE {}
      [] Lower(k.backend) = "gcs" -> IF k.bucket # "" THEN {"gcs"} ELSE {}
      [] OTHER                    -> {"noop"}

(* The store that a configuration can open, if any. *)
Opens(k) ==
    CASE Lower(k.backend) = "disk" -> {"noop"}
      [] Lower(k.backend) = "s3"   -> IF k.bucket # "" /\ CredentialsOK(k) THEN {"s3"} ELSE {}
      [] Lower(k.backend) = "gcs"  -> IF k.bucket # "" THEN {"gcs"} ELSE {}
      [] OTHER                     -> {}

(* A store is asked for its bucket, and that can fail. *)
CannotOpen(k) == Opens(k) # {"noop"}

\* The error injection around the asynchronous writer.
Wrap_ErrorsOutside(k, store) ==
    <<store>> \o (IF k.async THEN <<"async">> ELSE <<>>)
              \o (IF k.errors THEN <<"errors">> ELSE <<>>)
              \o (IF k.debug THEN <<"debug">> ELSE <<>>)

Wrap(k, store) ==
    <<store>> \o (IF k.errors THEN <<"errors">> ELSE <<>>)
              \o (IF k.async THEN <<"async">> ELSE <<>>)
              \o (IF k.debug THEN <<"debug">> ELSE <<>>)

(* What a layer may answer to a call by itself. Logging answers nothing.   *)
NoopAnswers(op) == {IF op = "get" THEN "miss" ELSE "ok"}

Own(layer, op) ==
    CASE layer = "noop"              -> NoopAnswers(op)
      [] layer \in {"s3", "gcs"}     -> {"ok", "failed"} \cup (IF op = "get" THEN {"miss"} ELSE {})
      [] layer = "errors"            -> {"injected"}
      [] layer = "async" /\ op = "put" -> {"ok", "full"}
      [] OTHER                       -> {}

(* The asynchronous writer answers a PUT for the layers below it.          *)
Hides(layer, op) == layer = "async" /\ op = "put"

(* What a call to the outermost layer may return: what any layer answers   *)
(* that no layer around it hides.                                          *)
Answers(op, layers) ==
    UNION {Own(layers[i], op) :
              i \in {i \in DOMAIN layers :
                        \A j \in DOMAIN layers : j > i => ~Hides(layers[j], op)}}

-----------------------------------------------------------------------------
(* The commands, step by step. *)

MoveTo(c, place) == at' = [at EXCEPT ![c] = place]

(* The server first; of the clear commands, one. *)
MayStart(c) ==
    /\ at[c] = "new"
    /\ c \in Clears => at["server"] \in Ends /\ \A d \in Clears : at[d] = "new"

ParseFlags(c) ==
    /\ MayStart(c)
    /\ \A s \in Settings \ Accepts(c) : env[s].flag = Unset
    /\ conf' = [conf EXCEPT ![c] = Resolve(c)]
    /\ MoveTo(c, IF c = "clear-local" THEN "dir" ELSE "backend")
    /\ UNCHANGED <<env, chain>>

(* flag.ExitOnError: a flag the command does not have. *)
UnknownFlag(c) ==
    /\ MayStart(c)
    /\ \E s \in Settings \ Accepts(c) : env[s].flag # Unset
    /\ MoveTo(c, "usage")
    /\ UNCHANGED <<env, conf, chain>>

Ready(c, layers) ==
    /\ chain' = [chain EXCEPT ![c] = layers]
    /\ MoveTo(c, IF c = "server" THEN "locks" ELSE "store")
    /\ UNCHANGED <<env, conf>>

CreateBackend(c) ==
    /\ at[c] = "backend"
    /\ \E store \in Opens(conf[c]) : Ready(c, Wrap(conf[c], store))

(* createServerBackend: any error will do, a mistyped backend included.    *)
MayFallBack(c) == c = "server" /\ conf[c].fallback

FallBack(c) ==
    /\ at[c] = "backend" /\ CannotOpen(conf[c])
    /\ MayFallBack(c)
    /\ Ready(c, <<"noop">>)

BackendFails(c) ==
    /\ at[c] = "backend" /\ CannotOpen(conf[c])
    /\ ~MayFallBack(c)
    /\ MoveTo(c, "nobackend")
    /\ UNCHANGED <<env, conf, chain>>

(* createLockingGroup; only the file locks' directory can fail.            *)
CreateLocks(c) ==
    /\ at[c] = "locks"
    /\ LET lock == Lower(conf[c].lock)
       IN  \/ lock \in {"", "memory", "fslock", "fs", "noop"} /\ MoveTo(c, "files")
           \/ lock \notin {"", "memory", "noop"} /\ MoveTo(c, "nolocks")
    /\ UNCHANGED <<env, conf, chain>>

(* NewCacheProg makes the cache directory, and the server runs. *)
OpenCache(c) ==
    /\ at[c] = "files"
    /\ MoveTo(c, "running") \/ MoveTo(c, "nodir")
    /\ UNCHANGED <<env, conf, chain>>

ClearStore(c) ==
    /\ at[c] = "store"
    /\ \E answer \in Answers("clear", chain[c]) :
          MoveTo(c, IF answer # "ok" THEN "notcleared"
                    ELSE IF c = "clear" THEN "dir" ELSE "cleared")
    /\ UNCHANGED <<env, conf, chain>>

ClearDir(c) ==
    /\ at[c] = "dir"
    /\ MoveTo(c, "cleared") \/ MoveTo(c, "notcleared")
    /\ UNCHANGED <<env, conf, chain>>

StartNext ==
    \E c \in Commands :
        \/ ParseFlags(c) \/ UnknownFlag(c)
        \/ CreateBackend(c) \/ FallBack(c) \/ BackendFails(c)
        \/ CreateLocks(c) \/ OpenCache(c)
        \/ ClearStore(c) \/ ClearDir(c)

StartSpec == StartInit /\ [][StartNext]_startVars

-----------------------------------------------------------------------------
(* The store a command works on. *)
Remote(c) == chain[c] # <<>> /\ Head(chain[c]) \in {"s3", "gcs"}

(* A setting the user switched on, however the forms are mixed. *)
SwitchedOn(v) ==
    \/ v.flag = "yes"
    \/ v.flag = Unset /\ v.prefixed = "yes"
    \/ v.flag = Unset /\ v.prefixed # "no" /\ v.plain = "yes"

(* The strongest form that says anything names the disk, or none says      *)
(* anything: the flag, the prefixed variable, the plain one, the old name. *)
AskedForDisk ==
    LET b == env["backend"]
        old == env["legacy"].plain
        Names(t) == Lower(t) = "disk"
    IN  \/ b.flag # Unset /\ Names(b.flag)
        \/ /\ b.flag = Unset
           /\ \/ Names(b.prefixed)
              \/ b.prefixed = "" /\ Names(b.plain)
              \/ b.prefixed = "" /\ b.plain = "" /\ (old = "" \/ Names(old))

(* main.go:349. A server runs without a remote store only if it was asked  *)
(* to, by the form of -backend that counts, or was allowed to fall back: a *)
(* mistyped name, a missing bucket or a store that does not answer never   *)
(* leaves it quietly local.                                                *)
NeverSilentlyLocal ==
    at["server"] = "running" /\ ~Remote("server") =>
        SwitchedOn(env["fallback"]) \/ AskedForDisk

(* main.go:108, server_test.go:34. With the fallback, no trouble with the  *)
(* backend, whatever it is and wherever the fallback was set, ends the     *)
(* server: where a store may fail to open, the server can do without.      *)
FallbackServes ==
    SwitchedOn(env["fallback"]) =>
        /\ at["server"] # "nobackend"
        /\ at["server"] = "backend" /\ CannotOpen(conf["server"]) => MayFallBack("server")

(* README.md:270. A clear command given what the server was given clears   *)
(* the server's bucket and, in it, all that the server may have stored;    *)
(* and its directory.                                                      *)
ClearCoversServer ==
    \A c \in Clears : at["server"] = "running" /\ at[c] = "cleared" =>
        /\ c # "clear-local" /\ Remote("server") =>
              /\ Head(chain[c]) = Head(chain["server"])
              /\ conf[c].bucket = conf["server"].bucket
              /\ conf[c].prefix \in {"", conf["server"].prefix}
        /\ c # "clear-remote" => conf[c].cacheDir = conf["server"].cacheDir

(* Injected errors (ERROR_RATE) come from below the asynchronous writer: a *)
(* server that did not ask for them never meets one, one that did may meet *)
(* them in its GETs, which the writer passes on, and in its PUTs only      *)
(* without the writer, in front of which a PUT can only fail for want of a *)
(* slot. No clear command meets one, even with ERROR_RATE in its           *)
(* environment.                                                            *)
InjectionContained ==
    /\ \A op \in {"get", "put"} :
          "injected" \in Answers(op, chain["server"]) => SwitchedOn(env["errors"])
    /\ chain["server"] # <<>> /\ conf["server"].async =>
          Answers("put", chain["server"]) \subseteq {"ok", "full"}
    /\ \A c \in Clears : "injected" \notin Answers("clear", chain[c])

(* main.go:496-501. No command talks to S3 with half of the credentials it *)
(* was given, which would make the SDK use somebody else's.                *)
NoHalfCredentials ==
    \A c \in Commands : chain[c] # <<>> /\ Head(chain[c]) = "s3" =>
        \A s, t \in {"key", "secret"} :
            env[s].prefixed # "" \/ env[s].plain # "" => env[t].prefixed # "" \/ env[t].plain # ""

-----------------------------------------------------------------------------
(* README.md:270 "The clear commands take the same flags / environment     *)
(* variables as the regular `gobuildcache` tool": what a clear command     *)
(* deletes is what the server stores.                                      *)
ClearsOwnObjectsOnly ==
    \A c \in {"clear", "clear-remote"} :
        at["server"] = "running" /\ at[c] = "cleared" /\ Remote(c) =>
            conf[c].prefix = conf["server"].prefix

=============================================================================
