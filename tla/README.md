# gobuildcache in TLA+

gobuildcache is a `GOCACHEPROG` server: the go command starts it, sends GET and
PUT requests over stdin, and reads the answers from stdout. It keeps the build
outputs in a local directory that several processes may share, and in an object
store (S3, GCS) that several machines may share. This directory holds a TLA+
model of it, the TLC runs that check the model on small instances, and proofs,
checked by TLAPS, of what must hold for every number of machines, processes and
requests.

## The system

| Component | State | Operations | Interacts with |
|---|---|---|---|
| Request handlers, `server.go` | one goroutine per request; counters | `handleGet`, `handlePut` | lock, local cache and backend, in this order |
| Local cache, `localcache.go` | `<path>`, `<path>.meta` and their `.tmp` files | `check`, `write`, `writeMetadata`, `writeWithMetadata` | shared by all processes with the same `-cache-dir` |
| Locking, `pkg/locking` | one file lock, or one mutex, per action ID | `DoWithLock` | wraps a whole handler; file locks also work between processes |
| Backends, `pkg/backends` (`s3`, `gcs`, `noop`, `error`, `debug`) | one object per action ID, its output ID in the object's metadata | `Put`, `Get`, `Clear`, `Close` | shared by all hosts |
| Asynchronous writer, `async_backend.go` | semaphore, WaitGroup, three counters | `Put` returns when the upload is started, `Close` waits for the uploads | wraps a backend |
| Server loop, `Run` and `main.go`'s `runServer` | WaitGroup, `errChan` of capacity 1, the pipes | announce, read, dispatch, close, drain, print statistics, exit | starts the handlers, closes the backend |
| Command line, `main.go` | flags and environment | resolves the configuration, builds backend, wrappers and lock | every command starts with it |
| Clear commands, `main.go`, `Clear` of the backends | what is still to be deleted | `clear-local`, `clear-remote`, `clear` | delete under the feet of running servers |
| Metrics, `pkg/metrics` | latency sketches | `Record`, `GetAllStats` | read once, when Run ends |

What makes it hard:

- **Concurrency.** Requests of one process are goroutines; processes of one host
  share files; hosts share a store. Uploads leave the lock before they end.
- **Failure.** Every system call of a local write may fail, and only some of the
  failures are reported; locks time out after one second; uploads may fail, be
  turned down, or be applied although an error came back.
- **Crashes.** A process may die between any two system calls, with uploads under
  way. The next one finds what the files say.
- **Shutdown.** The close command, end of input, a broken pipe and a malformed
  request meet running handlers and uploads.
- **Clearing.** The clear commands take no lock and tell no server: files vanish
  between two system calls of a handler, objects between two calls of a GET.
- **Configuration.** Every command resolves its own settings, from a flag, two
  forms of a variable and a default, and failures may be turned into a server
  that works without its store.

What makes each part correct:

- handlers and local cache: an entry that can be found is complete and final
  (`EntryConsistent`, `EntryNamesData`, `EntriesImmutable`); an answer stays true after the lock is
  released (`AnswersStayValid`, `AnswersHaveFiles`), names something that was
  PUT (`Provenance`) and is not gone back on (`AnswersStand`); nothing is left behind or fetched twice
  (`TempFilesCleaned`, `Deduplicated`);
- locking: mutual exclusion (`LockExclusive`) without loss of requests
  (`EveryRequestAnswered`);
- backend and asynchronous writer: no object without its local entry
  (`RemoteImpliesLocal`), and one offer per host and action ID (`UploadedOnce`);
- server loop: the close answer comes last (`CloseAnswerIsLast`), a closed
  backend is left alone (`ClosedIsQuiet`, `ClosedStatsAddUp`), a clean exit loses
  nothing (`CleanExitLosesNothing`), the statistics are complete
  (`StatsAreFinal`), the writer keeps what the handlers assume of it
  (`ImplementsUploads`), and the process does exit (`Terminates`);
- clear commands: entries are whole or were cut while they were being written
  (`EntriesWholeOrCut`), a reported success means that only what was on its way
  is left (`RemoteCleared`, `ClearSticks`);
- command line: no server is local by accident (`NeverSilentlyLocal`), the
  fallback works (`FallbackServes`), a clear reaches what the server stored
  (`ClearCoversServer`), injected errors meet only who asked for them, and never a
  PUT behind the asynchronous writer or a clear command (`InjectionContained`), and
  half credentials open no store (`NoHalfCredentials`).

`PROJECT.json` lists the components with what is modelled of each, the hazards
at their source lines with the properties that watch them, and the source lines
of every definition.

## The modules

```
CacheBase                 parameters, assumptions, outputs and encodings
 |- Locking               lock per host and action ID
 |- BuildCache            what the go command is promised: registers written once
 |   '- BuildCacheLaws        theorems that every implementation inherits
 |- LocalCache            the four files per host and action ID
 '- Backend               object store and, abstractly, the asynchronous writer
     '- CacheProg         the handlers of all processes: composes Locking,
         |                    LocalCache and Backend, implements BuildCache
         |- MCCacheProg       constants for TLC
         |- CacheProgProofs   theorems
         |   '- BuildCacheProofs  CacheProg implements BuildCache, with BuildCacheLaws
         |       '- SharingProofs     what requests leave behind for each other
         '- ClearCache        clear commands against the running servers
             |- MCClearCache      constants for TLC
             '- ClearCacheProofs  theorems, with SharingProofs
AsyncWriter               the asynchronous writer of one process, step by step
 '- ServerRun             Run and runServer of one process; the uploads
     |                    implement those of Backend
     |- MCServerRun           constants for TLC
     '- ServerRunProofs       theorems
Startup                   flags, environment, backend and wrappers
 |- MCStartup                 environments for TLC
 '- StartupProofs             theorems
```

**CacheBase.** An action ID is a key. An output ID stands for itself and for the
bytes it names, so a file or an object is an output plus an encoding, `raw` or
`lz4`; this is what tells right bytes from wrong ones. `Encode` and `Decode` are
`handlePut`'s and `handleGet`'s treatment of a body, with the empty body, which is
never compressed, and with the LZ4 reader that rejects plain bytes. The constant
`Faults` names what may go wrong in an instance: each run states its own.

**Locking.** `lock[s]` is the request inside `DoWithLock` for the slot `s`, a pair
of host and action ID. `FSLockGroup` polls and gives up (`LockBusy`,
`LockTimeout`, `LockError` in CacheProg), `MemLock` blocks. A memory lock is only
assumed where a host has a single process, as `memlock.go:5` says.

**LocalCache.** `tmp`, `data`, `mtmp` and `meta` are the contents of the four
files of a slot; every operation is one system call. `Torn` is the content of a
file that is being written. `os.WriteFile` of a metadata file is one step that
succeeds or leaves something behind under its temporary name: nobody reads that
name. `os.Remove` does not fail, and a rename is durable when it returns, that is,
crashes are crashes of processes and not of machines.

**Backend.** `store[k]` is the object of a key with its output ID, `upload[r]`
what became of the PUT of request `r`. A PUT replaces object and metadata at once,
as both stores promise. One that was answered with an error (`UploadFails`), or whose
process died, may still be applied, at once or at any later time, or never
(`UploadLate`). A PUT is turned down (`RejectUpload`) when as many as
`SemCap` requests may hold a slot. An upload whose outcome is known is among them for
good: its goroutine gives the slot back in a deferred call, nothing bounds
the time the scheduler takes for that, and Backend does not follow the goroutine
beyond the outcome. AsyncWriter does, and has the exact condition, the counter of
the semaphore. `DeleteObject` is one deletion of `clear-remote`, by anybody at
any time. `UploadsSpec` is the part of Backend that the asynchronous writer has to
implement.

**CacheProg.** `pc[r]` is the next step of the goroutine of `r`:

```
idle -> lock (-> wait) -> check -> fetch (-> reader) -> create -> copy -> rename
     -> wmeta -> rmeta -> store (-> await) -> unlock -> reply -> done
```

A GET leaves the path at `check` with a local hit, at `fetch` with a miss, and
after `rmeta` with a backend hit; a PUT leaves it at `check` when there is an
entry, and after `rmeta` when the process is read-only. Each step is an action
named for the call it makes (`Create`, `RenameMeta`, ...), with an action of its
own for each of its failures (`CreateFails`, `RenameMetaFails`, ...). `GCS.Get`
makes two calls, hence `FetchAttrs` and the label `reader`. `Settle` is the end
of a backend PUT, `Crash` the death of a process, `ReadRequest` the dispatch of a
request of any kind and content. A process whose requests are still unread when
another one dies may start afterwards, so restarts need no action of their own.

**BuildCache** is what all of this is for, in one page: a register per host and
action ID that is written once. `asked`, `entry` and `answer` are CacheProg's
`req`, `meta` and `res`: the register is the metadata file, and what a host shows
of its four files, its lock and its uploads is the one step in which that file
appears. `ImplementsBuildCache` of CacheProg states the refinement. A GET's
answer is tied to the register at the moment the handler returns, so a miss after
a publication, a hit on an output that was not the published one, a PUT answered
without an entry, or a value that nobody PUT are all violations. `AnswersStand`
is what this means to the go command: once a host has answered with a path, no
later request of that host for the same action ID is missed, and its hits name one
output.

**AsyncWriter** has the order that Backend abstracts from: semaphore, WaitGroup,
call, counter, deferred release, deferred `Done`. **ServerRun** puts it under
`Run`: the main goroutine (`main`), the goroutines of the requests (`gor`), Run's
WaitGroup, `errChan`, and `runServer`'s two ways out: a clean one, through the
deferred `backend.Close`, and `os.Exit(1)`, which skips it. A handler matters here
only by the upload it may start. When the go command has closed the pipe
(`StdoutBreaks`, `"closed"`), the next write ends the process by SIGPIPE
(`BrokenPipe`), as in every Go program that does not ask for the signal; when
writing fails for another reason (`"failing"`), the error goes through `errChan`. A
go command that stops reading without closing is not modelled. `Greet` is the
line with the capabilities, `PrintStats` the statistics that Run prints at its
end; `reported` are the requests they include, and `StatsAreFinal` is why
`GetAllStats` may give up its mutex while it ranges over its map. `Uploads`
instantiates Backend with one host, one process and a key for each request (and
one body for all of them, as ServerRun knows no contents), and maps the writer's steps to it: an upload is in flight from the slot of the
semaphore to the counted outcome, lost if the process exits before that
(`UploadState`). `ImplementsUploads` says that every step of ServerRun is a step of
Backend's uploads or hidden from it, so that what CacheProg assumes of the writer is what the
code of the writer does; `UsesUploads` of CacheProg says that the handlers ask no more of it.

**ClearCache** adds `main.go`'s clear commands to CacheProg's servers. `dirs` are the
subdirectories (`00` to `ff`) that exist, one for each slot here; a server makes
them at its start (`MakeDir`) and reads no request before it has made them all. The
command walks through `phases`, for `clear` first the store and then the
directory. In the store it lists (`ListObjects`) and deletes what it listed
(`DeleteListed`); a deletion that fails is dropped (`DeleteDropped`: GCS drops the
error, S3 does not read the per-object errors of a batch), a page that cannot be
listed or a batch that is turned down ends the command (`ClearFails`). In the
directory `os.RemoveAll` reads the names of the root and of each subdirectory once
and removes these names, whatever files they name by then (`ReadSubdir`, `Unlink`); a
file that was made since then makes `rmdir` fail, and the command with it. `MkdirAll`
makes the root, not the subdirectories. A handler whose next call would not find
its file or directory gets ENOENT (`StepGone`): an error for the data file, a
warning for the metadata. A file that is open survives its name, so a copy never
notices. The variables `pending`, `fetched`, `missed` and `raced` only remember:
what might still be PUT when the command began, what had been fetched when the
directory's turn came, whose deletion failed unnoticed, and what was written
while it was being removed.

What the module shows is also what one has to know before running `clear-local`
on a directory in use: a server that is running cannot write to it any more, and
an entry whose data file is unlinked before its metadata is written stays as
metadata without data, which `check` takes for an entry (localcache.go:213 "If
the data file doesn't exist, the metadata file likely won't either"). An answer
that was given out before may lose its file, so `AnswersStayValid` is not stated here.
`Untouched` says that no name has been taken out of the directory yet; `ServesAsBefore`,
that until then servers and command take CacheProg's steps and no others.

**Startup** is `main.go` before the first request: `Resolve` is what each command
makes of a setting's flag, of its two variables and of its default,
`createBackend` is `Opens`, `Wrap` and their failures, `createServerBackend` is `FallBack`.
`Answers` is what a call may return through the layers of a backend; a GET passes
the asynchronous writer, so the handlers of a server with `ERROR_RATE` do see injected
errors, as the fault `"get"` of CacheProg. Names of backends and of lock types are
compared in lower case (`Lower`). A server starts and then one of the clear
commands, from the same environment and the same flags. The texts of a boolean
are `yes`, `no` and anything else (`junk`), a rate is positive or not. An unprefixed variable
with a text that is neither is a no, whatever the default; with a prefix it is
passed over.

Operators with a suffix, such as `CheckMiss_PutOverwrites`, are mistakes that
could be made at that place. No specification uses them: each is put in place of
the operator it is named after to see that a property notices.

## What the runs check

Sizes are TLC's distinct states.

| Run | Instance | Shows |
|---|---|---|
| `one_host` | 1 host, 2 processes (one read-only), 3 requests, file locks, `-backend=disk`; locks, bodies, writes, uploads fail; crashes. 105k | types, `LockExclusive`, `NoLockLeaked`, `UploadedOnce`, `EntriesImmutable` |
| `two_hosts` | 2 hosts, S3; GETs, writes, uploads fail; crashes. 186k | `EntryConsistent`, `TempFilesCleaned`, `AnswersStayValid`, `Deduplicated`, `RemoteImpliesLocal`, `ImplementsBuildCache`, `AnswersStand` |
| `all_faults` | 2 hosts, 2 keys, GCS, different `-compression`, `clear-remote` at any time; everything fails but processes. 2.4M | `AnswersHaveFiles`, `Provenance`, `UsesUploads` |
| `meta_fails` | 2 hosts, S3, different `-compression`, an empty output; metadata writes fail; crashes. 810k | `EntryNamesData`, `EntriesImmutable` |
| `mutex_live` | 2 hosts, memory locks, synchronous PUTs; GETs, writes, uploads fail; crashes; fair. 65k | `EveryRequestAnswered` |
| `server_run` | 3 requests, 2 slots in the semaphore; the pipe closes or writes to it fail; fair. 1.0M | types, `CloseAnswerIsLast`, `ClosedIsQuiet`, `ClosedStatsAddUp`, `CleanExitLosesNothing`, `StatsAreFinal`, `Terminates`, `ImplementsUploads` |
| `clear` | 1 host, 2 processes with a request each, 2 keys, S3; any clear command, uploads and deletions fail, processes and command die. 3.9M | types and files in directories (`ClearTypeOK`), `EntriesWholeOrCut`, `RemoteCleared`, `ClearSticks`, `Provenance`, `ServesAsBefore` |
| `config` | 279936 environments, server and one clear command. 4.3M | `NeverSilentlyLocal`, `FallbackServes`, `ClearCoversServer`, `InjectionContained`, `NoHalfCredentials` |

The properties hold under conditions, and the runs state them by what they leave
out of `Faults`. The conditions are real limits of the code:

- `EntriesImmutable` and what builds on it need metadata that can be read when it
  is there. `check` takes any error for a miss, so after a passing I/O error a PUT
  or a GET writes over a path that was given out. `all_faults` shows what is left then.
- `AnswersStayValid`, `UploadedOnce`, `Deduplicated`, `RemoteImpliesLocal`,
  `ImplementsBuildCache` and `AnswersStand` need metadata writes that succeed:
  without metadata the next PUT replaces the file whose path was answered.
- `EntryConsistent` needs one `-compression` setting and a GET that is a snapshot.

### Where the comments and the README promise more

Each of these runs has one property that quotes the promise, and TLC finds how
the code breaks it:

| Run | Promise | What the code does |
|---|---|---|
| `put_overlap` | backend.go:14, never two PUTs in flight for an action ID | an asynchronous PUT leaves the lock first; when its metadata could not be written, the next PUT uploads again |
| `mixed_compression` | server.go:577, decompress if needed | the reader's flag decides, not the object |
| `clear_prefix` | README.md:270, the clear commands take the same flags and variables | with no prefix set the server uses `gobuildcache/` and clear-remote the empty prefix: it deletes the whole bucket |
| `gcs_torn` | README.md:386, no torn GETs | GCS attributes and body may be of two PUTs |

The model has more, seen in its actions and without a run of their own:

- server.go:490 "Track bytes written to backend on success (actual bytes
  transferred)": an asynchronous PUT is counted when its upload is started
  (`StartUpload` of Backend), and stays counted when the upload fails.
- README.md:270 again: a clear command knows fewer flags than the server and
  exits with a usage message for the others (`UnknownFlag`).
- README.md:285 to 289: the default of the prefixes is not empty for the server
  (main.go:78, 80), and `-stats` is on by default (main.go:70).
- main.go:550 "Accepts: true, false, 1, 0, yes, no": for an unprefixed variable
  everything else is a no, so `COMPRESSION=on` switches compression off.
- fslock.go:52 "blocks until lock is available": `LockTimeout` answers an error
  after one second.
- localcache.go:175 "if we don't write the metadata file, then the data file will
  never be observed": after `WriteMetaFails` the path is answered all the same
  (`AfterWrite`).
- README.md:352 "writes the provided file to its local on-disk cache": not where
  the action ID has an entry, whatever output it is for (`CheckHit`).
- server.go:624 "This is not fatal - we can still serve from backend": a GET that
  cannot write locally answers an error (`CreateFails`).

### Bounds

Two processes are enough for every interleaving of a handler with another one of
the same or of another process, and the third request meets what the two have
left behind: a PUT that publishes, a PUT that loses and a GET that must not care.
`p1` reads two requests so that two goroutines of one process compete for the
semaphore and the lock. Two outputs are what it takes to confuse them; a second
key only matters to `Slot` and `Provenance`, so `all_faults` has two keys and one
output. One semaphore slot makes an upload of `p1` find it full. `gcs_torn` needs
three hosts, as the PUTs of one host for an action ID are one upload. In
`clear`, one writer meets the command and the second one what both have left; two keys give
the deletions an order, and let a failure hit one subdirectory and not the other. The clear command runs
once: `pending` and the other memories are of one run. A subdirectory has fewer than the 1024
names that `os.RemoveAll` reads at a time. In `config` each setting varies in the forms that
matter for it: flag against variable for the backend and `-async-backend`, both
forms of a variable for bucket, key, asynchronous writer and fallback; `-backend` is
given by flag as a remote store, as the disk and mistyped, with and without
variables that say something else. In
ServerRun, a second failing sender finds `errChan` full while the third request is
still being handled, and a third upload finds the semaphore full. Outputs are
interchangeable, and so are keys, hence the symmetry; the liveness runs, and the
one with a distinguished output, use none.

### Fairness

`FairSpec` of CacheProg has weak fairness of each goroutine's steps (the Go
scheduler runs what can run, system calls return) and of the end of an upload
that was started (calls to the store return, with an answer or an error). Nothing
makes the go command send a request, a process die, or a store apply the PUT of a
dead process. A mutex needs no more than this, because an instance has finitely
many requests, none of which takes its lock twice. A waiter for a file lock may
always give up, so file locks need no liveness run of their own. In ServerRun the main goroutine, each request's goroutine and each
upload are weakly fair; reading, which depends on the go command, and the breaking
of the pipe are not.

## What is proved

Every invariant and every action property that a passing run checks is proved, and
every refinement, for any sets of hosts, processes, keys, outputs and requests,
any flags, any capacity of the semaphore and any `Faults`. The
assumptions are those of the modules: in CacheBase, the constants have their
types, `None` and `Torn` are no data, and memory locks are not shared by
processes; in AsyncWriter and ServerRun, the capacity is a natural number and `None`
is none; in ClearCache, the commands are among the three there are; in Startup, an
environment gives every setting. Further
conditions are hypotheses of the theorems; *R* is "metadata can be read", *W*
"metadata writes succeed", *S* "GETs are snapshots" (no GCS), *C* "one
`-compression` setting":

| Module | Theorem | Hypotheses | Conclusion |
|---|---|---|---|
| CacheProgProofs | `TypeCorrect` | - | `Spec => []TypeOK` |
| | `MutualExclusion`, `LocksReturned` | - | `Spec => []LockExclusive`, `[]NoLockLeaked` |
| | `Immutability` | R | `Spec => EntriesImmutable` |
| | `EntryNaming` | R, S | `Spec => []EntryNamesData` |
| | `Consistency` | R, S, C | `Spec => []EntryConsistent` |
| | `AnswersValid` | R, S, C, W | `Spec => []AnswersStayValid` |
| | `AnswersNotTorn` | R, S, W | `Spec => []GetsNotTorn` |
| BuildCacheLaws | `RegistersStand` | - | `Spec => AnswersStand`, of BuildCache |
| BuildCacheProofs | `Implementation` | R, W | `Spec => ImplementsBuildCache` |
| | `AnswersKept` | R, W | `Spec => AnswersStand`, of CacheProg |
| | `Provenanced` | - | `Spec => []Provenance` |
| SharingProofs | `TemporariesCleaned` | - | `Spec => []TempFilesCleaned` |
| | `AnswersBacked` | - | `Spec => []AnswersHaveFiles` |
| | `HitsRaw` | S, C | `Spec => []HitsDecompressed` |
| | `Deduplication` | R, W | `Spec => []Deduplicated` |
| | `OneUpload` | R, W | `Spec => []UploadedOnce` |
| | `LocalFirst` | R, W | `Spec => []RemoteImpliesLocal` |
| | `OnePutInFlight` | synchronous PUTs, or R, W | `Spec => []SinglePutInFlight` |
| | `UploadsUsed` | asynchronous PUTs | `Spec => UsesUploads` |
| | `HandlersAdvance` | - | `Spec => [][\A r \in Reqs : Advances(r)]_vars` |
| | `NobodyStranded` | finitely many requests | `Spec => [](\A r \in Reqs : NoVainWait(r))` |
| ServerRunProofs | `RunTypeCorrect` | - | `Spec => []TypeOK` |
| | `CloseLast`, `QuietAfterClose`, `StatsAddUp` | - | `Spec => []CloseAnswerIsLast`, `[]ClosedIsQuiet`, `[]ClosedStatsAddUp` |
| | `NothingLost`, `StatsFinal` | - | `Spec => []CleanExitLosesNothing`, `[]StatsAreFinal` |
| | `UploadsImplemented` | - | `Spec => ImplementsUploads` |
| | `NobodyForgotten`, `RunAdvances` | - | `Spec => []WaitsForSomebody`, `[][Advance]_vars` |
| ClearCacheProofs | `ClearTypeCorrect` | - | `ClearSpec => []ClearTypeOK` |
| | `ClearedRemotely` | - | `ClearSpec => []RemoteCleared` |
| | `ClearLasts` | - | `ClearSpec => []ClearSticks` |
| | `EntriesWhole` | R, S, C | `ClearSpec => []EntriesWholeOrCut` |
| | `ProvenancedThroughClear` | - | `ClearSpec => []Provenance` |
| | `LocksThroughClear` | - | `ClearSpec => [](LockExclusive /\ NoLockLeaked)` |
| | `TemporariesThroughClear` | - | `ClearSpec => []TempFilesCleaned` |
| | `ServersUndisturbed` | `"clear" \in Faults` | `ClearSpec => ServesAsBefore` |
| | `RemoteClearRefines` | the same, and no command but clear-remote | `ClearSpec => Spec` |
| StartupProofs | `RemoteUnlessAsked`, `ClearsWhatWasServed` | - | `StartSpec => []NeverSilentlyLocal`, `[]ClearCoversServer` |
| | `WholeCredentials` | - | `StartSpec => []NoHalfCredentials` |
| | `FallbackSuffices`, `InjectedBelow` | - | `StartSpec => []FallbackServes`, `[]InjectionContained` |

**The handlers.** `TypeOK` alone is not inductive: the rename in `RenameTmp` publishes
whatever the temporary file holds. `Inv` adds, for each request, what its place in the
code says about its slot: inside `DoWithLock` it holds the lock, and a file it is
about to rename is its own or gone (`ReqInv`); and the files are there (`Placed`): at
`rename` the temporary file has the body of its job, at `wmeta` so has the data
file, at `rmeta` the temporary metadata too. The two are apart because `ReqInv` also
holds while a clear command takes the files away, and `Placed` does not. The lock
makes both stable: a step of one request changes only its own slot and its own
variables (`StepLocal`, `ReadRequestLocal`, `SettleLocal`), and a slot is held by
one request, so no other request's part of the invariant is touched (`OthersKeep`).
A crash releases locks of dead requests, of which `ReqInv` says nothing (`CrashKeeps`).

The rest is layered on `Inv`, one invariant for each theorem. `WriteInv`: a
request between its check and its publication has a slot without metadata, hence
entries do not change (`Immutability`), hence an entry is what its publisher put
there (`Publication`, `EntryNaming`). `PlainInv`: objects decode to their output, and
what is about to be written is plain (`Consistency`). `HitInv`: a hit is answered
on an entry with metadata, which does not change (`AnswersValid`, and
`AnswersNotTorn` without `PlainInv`). For `LocksReturned` a step of a goroutine
changes a lock only by taking it, and then is inside, or by `Unlock` (`StepHolds`).

`Implementation` needs two more. `ReadyInv`: a request that has not left its
handler has no answer yet, only a GET fetches, and a PUT goes to the backend only
after its host has the entry. `SourceInv`: what is in the store, and what a request
is about to publish, was PUT for the action ID. With them each step of a goroutine
is a `Serve` of BuildCache or changes nothing that BuildCache shows (`StepServe`),
reading a request is an `Ask`, and the end of an upload, a crash and a deletion are
hidden. `Provenanced` takes no hypothesis: that the output behind every object, every
job, every metadata file (`EntriesSourced`) and every answer (`AnswersSourced`) was PUT
for the action ID is kept by the steps that copy one of them to the next, also where
a write overwrites an entry or fails. Neither theorem
needs snapshots or one `-compression` setting: BuildCache speaks of output IDs,
Consistency of the bytes behind them.

`AnswersKept` is proved once for the registers and then inherited. In
`BuildCacheLaws`, `RegisterInv` says that an answer with a path is the one that its
register gives; a register that holds something keeps it (`NextKeeps`), and only
the request that is served is answered (`Answering`), hence `RegistersStand`.
BuildCacheProofs instantiates this module under the mapping of
`ImplementsBuildCache` (`Laws`) and cites `Implementation`: the four files, the lock
and the uploads do not come up again.

`SharingProofs` adds what requests leave to each other. `TmpInv`: a temporary file
has a writer at `copy` or `rename`, or a dead one. `FileInv`: metadata and answers have
their data file, as a rename onto it replaces it by another. `OfferInv`: who has
offered its object to the store has published the entry, and no two requests have
for one slot, since the second one would have found the first one's entry. `UploadInv`:
an object in the store was sent by a request that asked for it, which with
`OfferInv` gives the entry of its host.

Three of the theorems say where a promise holds that a run shows the code to break:
`AnswersNotTorn` (`gcs_torn`), `HitsRaw` (`mixed_compression`) and `OnePutInFlight`
(`put_overlap`). A PUT overlaps an earlier one only if it is asynchronous *and* metadata
could not be read or written: a synchronous one keeps its lock (`AwaitInv`), and
otherwise the second one finds the entry (`OfferInv`).

`UploadsUsed` and `UploadsImplemented` are two halves of one argument about the
asynchronous writer. To the handlers it is Backend's uploads, `UploadsSpec`; their
every step is one of these or hidden from them (`StepHands`, a request hands over
one PUT and never again), and so is every step of the writer's goroutines under
`Run`. A change to either side that needs the other one to behave differently breaks
one of the two.

**The server loop.** `RunInv` says what the counters count: Run's WaitGroup the
requests being handled, the semaphore the slots that were taken, the writer's
WaitGroup the uploads that have joined it, `Stats` the uploads that ended, each as
the cardinality of a set of goroutines (`CountInv`, over the library's facts about finite
sets). Where a counter is zero the set is empty (`AllThrough`), so that what the main
goroutine waited for is true, and stays so as it starts nothing any more
(`PhaseInv`). For `UploadsImplemented` each step of a request's goroutine, of an
upload or of the exit is mapped to the action of Backend with its effect, or to
none; `Counts` is needed once more where an upload is turned down, as Backend asks for
`SemCap` requests that may hold a slot.

**The clear commands.** Steps of ClearCache are steps of the servers, which are those
of CacheProg or their failures for want of a file, and steps of the command, which only
takes away (`ClearNextSplits`, `CommandTakes`). `BaseInv` is `ReqInv` with the types
and the rule that files are in directories: a file that is made needs its directory
(`FirstFile`). On it rest four more. `PendingInv`: who was not pending when the command
began will not PUT any more. `RemoteInv`: what the command has passed in the store is
gone, missed, or came from somebody pending (`ClearedRemotely`). `CutInv`: a writer whose data
file was removed is on record (`EntriesWhole`). `StickInv`: once the store is
cleared, every output that a request takes up is known, that is, PUT by somebody
pending or fetched before, and every entry that is not known is still on the list of what
the command will remove (`ClearLasts`); `PhaseInv` is where the order of the two
phases enters.

What does not depend on files being there holds under a clear as it does without:
provenance, mutual exclusion and returned locks, cleaned temporaries
(`ProvenancedThroughClear`, `LocksThroughClear`, `TemporariesThroughClear`). What does
depend on them holds until the directory is touched, by refinement: `ServedInv` says
that a server that serves has its subdirectories and that each request's files are in
place, so no handler takes `StepGone` (`UntouchedReachable`), and each
step of servers and command is one of CacheProg (`ServersUndisturbed`). A
`clear-remote` never comes to the directory, and `RemoteClearRefines` hands over
all of CacheProg's theorems. The hypothesis `"clear" \in Faults` only makes CacheProg
allow deletions, which all of its theorems do.

**The command line.** `StartInv`: what a command has resolved is `Resolve` of the
environment, which nobody changes, and its backend is around a store that this
configuration opens, or around the fallback (`BuiltFrom`, `HeadOfWrap`). The
theorems then compare what `Resolve` makes of one setting, or for two commands;
`InjectedBelow` goes through the layers of a chain, of which there are at most three around a
store (`AnswersOfWrap`): a GET may be answered by any of them, a PUT behind the asynchronous
writer by that one alone. `RemoteUnlessAsked` compares what `Resolve` made of the
five forms of `-backend` with the first of them that says something (`AskedForDisk`).
They hold for every environment, not only for those of `MCStartup`.

**What of liveness is proved.** The liveness properties themselves
(`EveryRequestAnswered`, `Terminates`) rest on fairness and
stay with TLC. The safety half of why they hold is proved, for any number of
requests. Of the handlers: each step of a goroutine takes it to a later station of
at most fourteen, however its calls end, and no step of anybody else moves it
unless its process dies (`HandlersAdvance`). Where it may have to wait, it has
something to wait for (`NobodyStranded`): a lock that is not free is held by a
request inside `DoWithLock`, which takes no other lock, so that no circle of
waiting requests comes about; a call to the backend that was made and
is not lost; a semaphore that is either free or full, hence with an answer at once. Of the
server loop: while the main goroutine waits for a WaitGroup or for `errChan`, some
goroutine can take a step that waits for nobody (`NobodyForgotten`); once a
goroutine is started, or the loop is left, each step brings it to a later station,
nobody goes back to an earlier one, and no request is read after the loop
(`RunAdvances`). What fairness adds is that a step that can be taken
is taken.

## What is not modelled

- The JSON protocol and base64 bodies; a body that is shorter than announced is
  (`ShortBody`).
- The encoding of metadata: objects and files whose metadata cannot be decoded, which
  gobuildcache itself never writes under their final names.
- Sizes and times in metadata: folded into the output. Capacity, and the counters
  other than the backend bytes and the asynchronous writer's own.
- `-lock-type=noop`, which main.go accepts and does not document: it excludes
  nothing, so no property is left to state, and two writers of one temporary file
  would need open files apart from their names.
- A lock directory that is not shared by the servers of a cache directory. The two
  are separate settings; every run assumes that they go together.
- The SDKs: retries, requests, credentials beyond "both or neither". Each part of
  the S3 credentials falls back from the prefixed to the plain variable by itself,
  as the README documents, so a prefixed key may meet a plain session token.
- The debug wrapper's log, the error wrapper's counters, the latency sketches.
  `-stats`, `-quiet`, `-compression`, `-read-only` and `-lock-dir` are passed through by
  `main.go` and are constants of the other modules where they matter.
- Power loss: nothing is synced, and the model's renames are durable.

## Plan

Written so far, in this order: CacheBase, Locking, LocalCache, Backend, CacheProg
with its runs and proofs, AsyncWriter, ServerRun with its runs, BuildCache with the
proof that CacheProg implements it, the refinement of Backend's uploads by
ServerRun, ClearCache, Startup, the proofs of SharingProofs, ServerRunProofs,
ClearCacheProofs and StartupProofs, BuildCacheLaws with what the handlers inherit
from it, and the safety half of the liveness arguments.

Next:

1. Request counters: hits, misses and duplicates add up at the close.
2. `-lock-type=noop`, with open files apart from their names.
