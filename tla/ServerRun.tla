----------------------------- MODULE ServerRun -----------------------------
(***************************************************************************)
(* The life of one server process: CacheProg.Run's read loop, the          *)
(* goroutine it starts for each request, the channel that carries their    *)
(* failures to respond, the close command, and what runServer does when    *)
(* Run returns. The handlers are those of CacheProg; here they only matter *)
(* by the backend PUT they may start.                                      *)
(***************************************************************************)
EXTENDS AsyncWriter

CONSTANT None   \* no exit code yet

SIGPIPE == 141  \* what a shell reports of a process killed by SIGPIPE

ASSUME NoExitCodeAssumption == None \notin Nat

VARIABLES
    main,       \* where the main goroutine is
    gor,        \* gor[r]: where the goroutine of request r is
    wg,         \* the counter of Run's WaitGroup
    errChan,    \* the requests whose send error waits in the channel (capacity 1)
    answered,   \* the requests whose response was written
    closeSent,  \* the response to the close command was written
    stdout,     \* "open", or why a response cannot be written any more
    closed,     \* the wrapped backend was closed
    reported,   \* the requests the printed statistics include, None if not printed
    exitCode    \* the exit code of the process, None while it runs

endVars == <<closeSent, stdout, closed, reported, exitCode>>
runVars == <<main, gor, wg, errChan, answered, endVars>>
vars == <<writerVars, runVars>>

MainLabels ==
    {"greet",                   \* before the loop
     "read", "poll",            \* the loop
     "closeWait", "close", "closeReply",    \* the close command
     "drain", "stats",          \* after the loop
     "fail",                    \* an error: wait for the goroutines and return it
     "deferred", "exited"}      \* Run returned nil: backend.Close, then exit

GoLabels == {"unread", "handle", "store", "send", "end", "gone"}

Init ==
    /\ WriterInit
    /\ main = "greet"
    /\ gor = [r \in Reqs |-> "unread"]
    /\ wg = 0
    /\ errChan = {}
    /\ answered = {}
    /\ closeSent = FALSE
    /\ stdout = "open"
    /\ closed = FALSE
    /\ reported = None
    /\ exitCode = None

Running == exitCode = None

MoveGo(r, l) == gor' = [gor EXCEPT ![r] = l]

-----------------------------------------------------------------------------
(* The main goroutine: the capabilities are announced before all else. *)
Greet ==
    /\ main = "greet"
    /\ stdout # "closed"
    /\ IF stdout = "open"
       THEN main' = "read" /\ UNCHANGED exitCode
       ELSE main' = "exited" /\ exitCode' = 1
    /\ UNCHANGED <<writerVars, gor, wg, errChan, answered, closeSent, stdout, closed, reported>>

Dispatch(r) ==
    /\ main = "read"
    /\ gor[r] = "unread"
    /\ MoveGo(r, "handle")
    /\ wg' = wg + 1
    /\ main' = "poll"
    /\ UNCHANGED <<writerVars, errChan, answered, endVars>>

(* The select with its default branch after each dispatch. *)
Poll ==
    /\ main = "poll"
    /\ main' = IF errChan = {} THEN "read" ELSE "fail"
    /\ errChan' = {}
    /\ UNCHANGED <<writerVars, gor, wg, answered, endVars>>

(* End of file, in the middle of a PUT's body too, leaves the loop; any    *)
(* other error, such as a line that is not JSON, fails.                    *)
ReadEnds ==
    /\ main = "read"
    /\ main' \in {"drain", "fail", "closeWait"}
    /\ UNCHANGED <<writerVars, gor, wg, errChan, answered, endVars>>

\* The close command handled without waiting for the requests before it.
CloseWait_Skipped ==
    /\ main = "closeWait"
    /\ main' = "close"
    /\ UNCHANGED <<writerVars, gor, wg, errChan, answered, endVars>>

CloseWait ==
    /\ main = "closeWait"
    /\ wg = 0
    /\ main' = "close"
    /\ UNCHANGED <<writerVars, gor, wg, errChan, answered, endVars>>

\* AsyncBackendWriter.Close that does not wait for its uploads.
Close_NoWait(next) ==
    /\ closed' = TRUE
    /\ main' = next
    /\ UNCHANGED <<writerVars, gor, wg, errChan, answered, closeSent, stdout, reported>>

(* backend.Close; an error of the wrapped backend is dropped. *)
Close(next) ==
    /\ AllUploaded
    /\ closed' = TRUE
    /\ main' = next
    /\ UNCHANGED <<writerVars, gor, wg, errChan, answered, closeSent, stdout, reported>>

CloseCommand ==
    /\ main = "close"
    /\ Close("closeReply")
    /\ UNCHANGED exitCode

(* A response that cannot be written returns an error at once. *)
CloseReply ==
    /\ main = "closeReply"
    /\ stdout # "closed"
    /\ IF stdout = "open"
       THEN closeSent' = TRUE /\ main' = "drain" /\ UNCHANGED exitCode
       ELSE exitCode' = 1 /\ main' = "exited" /\ UNCHANGED closeSent
    /\ UNCHANGED <<writerVars, gor, wg, errChan, answered, stdout, closed, reported>>

\* A select that does not wait for the goroutines.
Drain_NoWait ==
    /\ main = "drain"
    /\ \/ main' = "stats" /\ UNCHANGED errChan
       \/ errChan # {} /\ main' = "fail" /\ errChan' = {}
    /\ UNCHANGED <<writerVars, gor, wg, answered, endVars>>

(* The select between done, closed once the goroutines are through, and    *)
(* errChan: where both are ready, either is taken.                         *)
Drain ==
    /\ main = "drain"
    /\ \/ wg = 0 /\ main' = "stats" /\ UNCHANGED errChan
       \/ errChan # {} /\ main' = "fail" /\ errChan' = {}
    /\ UNCHANGED <<writerVars, gor, wg, answered, endVars>>

(* A handler that has returned has counted its operation and recorded its  *)
(* latency, both under a mutex or atomically; -stats is the default.       *)
PrintStats ==
    /\ main = "stats"
    /\ main' = "deferred"
    /\ reported' = {r \in Reqs : gor[r] \in {"send", "end", "gone"}}
    /\ UNCHANGED <<writerVars, gor, wg, errChan, answered, closeSent, stdout, closed, exitCode>>

(* Run returns an error: os.Exit(1), which runs no deferred call. *)
Fail ==
    /\ main = "fail"
    /\ wg = 0
    /\ exitCode' = 1
    /\ main' = "exited"
    /\ UNCHANGED <<writerVars, gor, wg, errChan, answered, closeSent, stdout, closed, reported>>

\* runServer without its deferred Close.
ExitCleanly_NoClose ==
    /\ main = "deferred"
    /\ exitCode' = 0
    /\ main' = "exited"
    /\ UNCHANGED <<writerVars, gor, wg, errChan, answered, closeSent, stdout, closed, reported>>

(* Run returns nil: runServer's deferred backend.Close, for the second     *)
(* time after a close command.                                             *)
ExitCleanly ==
    /\ main = "deferred"
    /\ Close("exited")
    /\ exitCode' = 0

MainStep ==
    \/ Greet \/ Poll \/ CloseWait \/ CloseCommand \/ CloseReply
    \/ Drain \/ PrintStats \/ Fail \/ ExitCleanly

-----------------------------------------------------------------------------
(* The goroutine of a request. *)
HandleLocally(r) ==
    /\ gor[r] = "handle"
    /\ MoveGo(r, "send")
    /\ UNCHANGED <<writerVars, main, wg, errChan, answered, endVars>>

HandlePut(r) ==
    /\ gor[r] = "handle"
    /\ \/ Acquire(r) /\ MoveGo(r, "store")
       \/ Reject(r) /\ MoveGo(r, "send")
    /\ UNCHANGED <<main, wg, errChan, answered, endVars>>

StartUpload(r) ==
    /\ gor[r] = "store"
    /\ Start(r)
    /\ MoveGo(r, "send")
    /\ UNCHANGED <<main, wg, errChan, answered, endVars>>

\* A send on errChan without the default branch.
Send_Blocking(r) ==
    /\ gor[r] = "send"
    /\ MoveGo(r, "end")
    /\ stdout # "closed"
    /\ IF stdout = "open"
       THEN answered' = answered \cup {r} /\ UNCHANGED errChan
       ELSE errChan = {} /\ errChan' = {r} /\ UNCHANGED answered
    /\ UNCHANGED <<writerVars, main, wg, endVars>>

(* The response, or its error unless one is waiting already. *)
Send(r) ==
    /\ gor[r] = "send"
    /\ MoveGo(r, "end")
    /\ stdout # "closed"
    /\ IF stdout = "open"
       THEN answered' = answered \cup {r} /\ UNCHANGED errChan
       ELSE /\ errChan' = IF errChan = {} THEN {r} ELSE errChan
            /\ UNCHANGED answered
    /\ UNCHANGED <<writerVars, main, wg, endVars>>

End(r) ==
    /\ gor[r] = "end"
    /\ MoveGo(r, "gone")
    /\ wg' = wg - 1
    /\ UNCHANGED <<writerVars, main, errChan, answered, endVars>>

GoStep(r) == HandleLocally(r) \/ HandlePut(r) \/ StartUpload(r) \/ Send(r) \/ End(r)

Upload(r) == UploadStep(r) /\ UNCHANGED runVars

(* The go command closes its end of the pipe, or writes to it fail for     *)
(* another reason.                                                         *)
StdoutBreaks ==
    /\ stdout = "open"
    /\ stdout' \in {"closed", "failing"}
    /\ UNCHANGED <<writerVars, main, gor, wg, errChan, answered, closeSent, closed, reported, exitCode>>

(* A write to a closed pipe on descriptor 1 kills a Go program that does   *)
(* not ask for SIGPIPE, whatever its goroutines are doing.                 *)
BrokenPipe ==
    /\ stdout = "closed"
    /\ main \in {"greet", "closeReply"} \/ \E r \in Reqs : gor[r] = "send"
    /\ exitCode' = SIGPIPE
    /\ main' = "exited"
    /\ UNCHANGED <<writerVars, gor, wg, errChan, answered, closeSent, stdout, closed, reported>>

Exited == ~Running /\ UNCHANGED vars

Next ==
    \/ Running /\ (MainStep \/ ReadEnds \/ StdoutBreaks \/ BrokenPipe)
    \/ Running /\ \E r \in Reqs : Dispatch(r) \/ GoStep(r) \/ Upload(r)
    \/ Exited

Spec == Init /\ [][Next]_vars

(* The Go scheduler runs every goroutine that can run, handlers, calls to  *)
(* the backend and writes return. Nothing makes the go command send or hang up. *)
Fairness ==
    /\ WF_vars(Running /\ MainStep) /\ WF_vars(Running /\ BrokenPipe)
    /\ \A r \in Reqs : WF_vars(Running /\ GoStep(r)) /\ WF_vars(Running /\ Upload(r))

FairSpec == Spec /\ Fairness

-----------------------------------------------------------------------------
(* Every variable has its type; the WaitGroups never go below zero (which  *)
(* panics) and errChan holds at most one error.                            *)
TypeOK ==
    /\ put \in [Reqs -> PutLabels]
    /\ sem \in 0..SemCap
    /\ uploads \in Nat /\ started \in Nat /\ succeeded \in Nat /\ failed \in Nat
    /\ landed \subseteq Reqs
    /\ main \in MainLabels
    /\ gor \in [Reqs -> GoLabels]
    /\ wg \in Nat
    /\ errChan \subseteq Reqs /\ Cardinality(errChan) <= 1
    /\ answered \subseteq Reqs
    /\ closeSent \in BOOLEAN /\ closed \in BOOLEAN
    /\ stdout \in {"open", "closed", "failing"}
    /\ reported \in (SUBSET Reqs) \cup {None}
    /\ exitCode \in {None, 0, 1, SIGPIPE}

Uploading(r) == put[r] \in {"acquired", "running", "counted", "released"}

(* server.go:188: when the go command gets the answer to its close, every  *)
(* request it sent before has been answered or could not be, and no upload *)
(* is still running.                                                       *)
CloseAnswerIsLast ==
    closeSent => \A r \in Reqs :
        /\ gor[r] \in {"unread", "gone"}
        /\ gor[r] = "gone" /\ stdout # "failing" => r \in answered
        /\ ~Uploading(r)

(* Nothing uses the wrapped backend after its Close: no handler can reach  *)
(* it and no upload is under way.                                          *)
ClosedIsQuiet ==
    closed => \A r \in Reqs : gor[r] \notin {"handle", "store"} /\ ~Uploading(r)

(* What AsyncBackendWriter.Close and Stats report after the last upload:   *)
(* every PUT that was started is counted once, and all slots are free.     *)
ClosedStatsAddUp ==
    closed => started = succeeded + failed /\ sem = 0 /\ succeeded = Cardinality(landed)

(* Exit code 0: no accepted PUT was cut off, and every request was         *)
(* answered unless writing failed. A closed pipe is no excuse: SIGPIPE     *)
(* keeps a process with an unwritten answer from a clean exit.             *)
CleanExitLosesNothing ==
    exitCode = 0 => \A r \in Reqs :
        /\ ~Uploading(r)
        /\ gor[r] = "unread" \/ r \in answered \/ stdout = "failing"

(* The statistics (server.go:252, metrics.go:124, which gives up its mutex *)
(* between two operations) are printed when nothing is recorded any more:  *)
(* they include every request that was read, and no other follows.         *)
StatsAreFinal == reported # None => reported = {r \in Reqs : gor[r] # "unread"}

(* Once there is nothing more to read the process exits: no goroutine      *)
(* blocks on errChan while the main goroutine waits for it.                *)
Terminates == main \notin {"greet", "read", "poll"} ~> exitCode # None

(* What the handlers and Backend see of the writer: an upload from the slot*)
(* of the semaphore to the counted outcome, each under a key of its own.   *)
UploadState(r) ==
    CASE put[r] \in {"none", "rejected"}      -> put[r]
      [] put[r] \in {"acquired", "running"}   -> IF Running THEN "inflight" ELSE "lost"
      [] r \in landed                         -> "ok"
      [] OTHER                                -> "failed"

Uploads == INSTANCE Backend WITH
    Hosts <- {"host"}, Procs <- {"server"}, Keys <- Reqs, Outputs <- {"body"},
    HostOf <- [p \in {"server"} |-> "host"], ProcOf <- [r \in Reqs |-> "server"],
    Compress <- [p \in {"server"} |-> FALSE], ReadOnly <- [p \in {"server"} |-> FALSE],
    EmptyOutputs <- {}, LockType <- "fslock", AsyncPut <- TRUE, BackendType <- "s3",
    Faults <- {"put", "crash"}, Torn <- "torn",
    store <- [r \in Reqs |-> IF r \in landed THEN [out |-> "body", enc |-> "raw"] ELSE None],
    upload <- [r \in Reqs |-> UploadState(r)],
    counted <- {r \in Reqs : put[r] \notin {"none", "rejected"}}

(* The writer keeps what CacheProg's handlers assume of it: never more than*)
(* SemCap uploads, a PUT turned down only while slots may be taken, one    *)
(* outcome for each upload, and none lost but by an exit with an error.    *)
ImplementsUploads == Uploads!UploadsSpec

=============================================================================
