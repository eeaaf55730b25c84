---------------------------- MODULE AsyncWriter ----------------------------
(***************************************************************************)
(* pkg/backends/async_backend.go in one process: a PUT takes a slot of the *)
(* semaphore without waiting for one, or fails; its goroutine makes the    *)
(* call, counts the outcome, gives the slot back and leaves the WaitGroup, *)
(* in the order of its deferred calls. Close waits for the WaitGroup.      *)
(***************************************************************************)
EXTENDS Naturals, FiniteSets

CONSTANTS
    Reqs,       \* the requests of the process
    SemCap      \* slots of the semaphore, 128 * GOMAXPROCS

ASSUME SemCapAssumption == SemCap \in Nat

VARIABLES
    put,        \* put[r]: how far the backend PUT of request r has got
    sem,        \* slots of the semaphore in use
    uploads,    \* the counter of the writer's WaitGroup
    started, succeeded, failed,     \* startedPuts, successPuts, failedPuts
    landed      \* the requests whose call returned success

writerVars == <<put, sem, uploads, started, succeeded, failed, landed>>

PutLabels == {"none", "rejected", "acquired", "running", "counted", "released", "finished"}

WriterInit ==
    /\ put = [r \in Reqs |-> "none"]
    /\ sem = 0 /\ uploads = 0
    /\ started = 0 /\ succeeded = 0 /\ failed = 0
    /\ landed = {}

MovePut(r, l) == put' = [put EXCEPT ![r] = l]

\* One slot more than the channel has.
Acquire_OffByOne(r) ==
    /\ put[r] = "none"
    /\ sem <= SemCap
    /\ sem' = sem + 1
    /\ MovePut(r, "acquired")
    /\ UNCHANGED <<uploads, started, succeeded, failed, landed>>

(* Put, in the handler's goroutine: the select with its default branch.    *)
Acquire(r) ==
    /\ put[r] = "none"
    /\ sem < SemCap
    /\ sem' = sem + 1
    /\ MovePut(r, "acquired")
    /\ UNCHANGED <<uploads, started, succeeded, failed, landed>>

Reject(r) ==
    /\ put[r] = "none"
    /\ sem >= SemCap
    /\ MovePut(r, "rejected")
    /\ UNCHANGED <<sem, uploads, started, succeeded, failed, landed>>

\* An upload that leaves a WaitGroup it never joined.
Start_NotJoined(r) ==
    /\ put[r] = "acquired"
    /\ started' = started + 1
    /\ MovePut(r, "running")
    /\ UNCHANGED <<sem, uploads, succeeded, failed, landed>>

(* The copy of a body that is in memory cannot fail. *)
Start(r) ==
    /\ put[r] = "acquired"
    /\ uploads' = uploads + 1
    /\ started' = started + 1
    /\ MovePut(r, "running")
    /\ UNCHANGED <<sem, succeeded, failed, landed>>

(* The goroutine's call returns. *)
PutSucceeds(r) ==
    /\ put[r] = "running"
    /\ landed' = landed \cup {r}
    /\ succeeded' = succeeded + 1
    /\ MovePut(r, "counted")
    /\ UNCHANGED <<sem, uploads, started, failed>>

\* A failure that is logged but not counted.
PutFails_NotCounted(r) ==
    /\ put[r] = "running"
    /\ MovePut(r, "counted")
    /\ UNCHANGED <<sem, uploads, started, succeeded, failed, landed>>

PutFails(r) ==
    /\ put[r] = "running"
    /\ failed' = failed + 1
    /\ MovePut(r, "counted")
    /\ UNCHANGED <<sem, uploads, started, succeeded, landed>>

(* Its deferred calls, the last one first. *)
Release(r) ==
    /\ put[r] = "counted"
    /\ sem' = sem - 1
    /\ MovePut(r, "released")
    /\ UNCHANGED <<uploads, started, succeeded, failed, landed>>

Finish(r) ==
    /\ put[r] = "released"
    /\ uploads' = uploads - 1
    /\ MovePut(r, "finished")
    /\ UNCHANGED <<sem, started, succeeded, failed, landed>>

UploadStep(r) == PutSucceeds(r) \/ PutFails(r) \/ Release(r) \/ Finish(r)

(* Close goes on to the backend. *)
AllUploaded == uploads = 0

=============================================================================
