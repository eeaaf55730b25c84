-------------------------- MODULE ServerRunProofs --------------------------
(***************************************************************************)
(* Proofs about ServerRun, for any number of requests and any capacity of  *)
(* the semaphore: the counters of the WaitGroups, of the semaphore and of  *)
(* Stats are the cardinalities of the sets of goroutines they stand for.   *)
(***************************************************************************)
EXTENDS ServerRun, FiniteSetTheorems, TLAPS

Counts(n, S) == IsFiniteSet(S) /\ n = Cardinality(S)

Busy == {r \in Reqs : gor[r] \in {"handle", "store", "send", "end"}}
Holders == {r \in Reqs : put[r] \in {"acquired", "running", "counted"}}
Joined == {r \in Reqs : put[r] \in {"running", "counted", "released"}}
Calling == {r \in Reqs : put[r] = "running"}
Taken == {r \in Reqs : put[r] \notin {"none", "rejected"}}

CountInv ==
    /\ Counts(wg, Busy)
    /\ Counts(sem, Holders)
    /\ Counts(uploads, Joined)
    /\ Counts(succeeded, landed)
    /\ IsFiniteSet(Calling) /\ started = Cardinality(Calling) + succeeded + failed
    /\ IsFiniteSet(Taken)

(* Where a request's goroutine stands with its backend PUT and its answer. *)
PutInv(r) ==
    /\ gor[r] \in {"unread", "handle"} => put[r] = "none"
    /\ gor[r] = "store" <=> put[r] = "acquired"
    /\ r \in landed => put[r] \in {"counted", "released", "finished"}
    /\ gor[r] \in {"end", "gone"} /\ stdout # "failing" => r \in answered

(* What the main goroutine has waited for stays so: it starts no request   *)
(* after it left the loop, and only a request starts an upload.            *)
PhaseInv ==
    /\ main \in {"close", "closeReply", "stats", "deferred"} => wg = 0
    /\ main = "closeReply" \/ closeSent => closed
    /\ closed => /\ main \in {"closeReply", "drain", "stats", "deferred", "fail", "exited"}
                 /\ wg = 0 /\ uploads = 0
    /\ exitCode = 0 => closed
    /\ reported # None => /\ main \in {"deferred", "exited"} /\ wg = 0
                          /\ reported = {r \in Reqs : gor[r] # "unread"}

RunInv == TypeOK /\ CountInv /\ PhaseInv /\ \A r \in Reqs : PutInv(r)

-----------------------------------------------------------------------------
(* A counter goes up with a new element and down with one that leaves.     *)
LEMMA CountUp ==
    ASSUME NEW S, NEW n, Counts(n, S), NEW x, x \notin S
    PROVE  Counts(n + 1, S \cup {x})
BY FS_AddElement DEF Counts

LEMMA CountDown ==
    ASSUME NEW S, NEW n, Counts(n, S), NEW x \in S
    PROVE  Counts(n - 1, S \ {x}) /\ n - 1 \in Nat
<1>1. IsFiniteSet(S \ {x}) /\ Cardinality(S \ {x}) = n - 1
    BY FS_RemoveElement DEF Counts
<1>2. QED
    BY <1>1, FS_CardinalityType DEF Counts

LEMMA CountNat ==
    ASSUME NEW S, NEW n, Counts(n, S)
    PROVE  n \in Nat /\ (n = 0 => S = {})
BY FS_CardinalityType, FS_EmptySet DEF Counts

(* At zero the WaitGroup's goroutines are through, and so are the uploads. *)
LEMMA AllThrough ==
    ASSUME RunInv
    PROVE  /\ wg = 0 => \A r \in Reqs : gor[r] \in {"unread", "gone"}
           /\ wg = 0 /\ uploads = 0 => \A r \in Reqs : ~Uploading(r)
<1>1. wg = 0 => Busy = {}
    BY CountNat DEF RunInv, CountInv
<1>2. uploads = 0 => Joined = {}
    BY CountNat DEF RunInv, CountInv
<1>3. wg = 0 => \A r \in Reqs : gor[r] \in {"unread", "gone"}
    BY <1>1 DEF Busy, RunInv, TypeOK, GoLabels
<1>4. wg = 0 /\ uploads = 0 => \A r \in Reqs : ~Uploading(r)
    BY <1>2, <1>3 DEF Joined, Uploading, RunInv, PutInv
<1>5. QED
    BY <1>3, <1>4

(* Nothing is read, running or counted at first.                           *)
LEMMA InitRunInv == Init => RunInv
<1> SUFFICES ASSUME Init PROVE RunInv
    OBVIOUS
<1> USE DEF Init, WriterInit
<1>1. TypeOK
    <2>1. errChan \subseteq Reqs /\ Cardinality(errChan) <= 1
        BY FS_EmptySet
    <2>2. put \in [Reqs -> PutLabels] /\ gor \in [Reqs -> GoLabels]
        BY DEF PutLabels, GoLabels
    <2>3. sem \in 0..SemCap
        BY SemCapAssumption
    <2>4. /\ main \in MainLabels /\ wg \in Nat /\ answered \subseteq Reqs
          /\ closeSent \in BOOLEAN /\ closed \in BOOLEAN /\ stdout \in {"open", "closed", "failing"}
          /\ reported \in (SUBSET Reqs) \cup {None} /\ exitCode \in {None, 0, 1, SIGPIPE}
        BY DEF MainLabels
    <2>5. /\ uploads \in Nat /\ started \in Nat /\ succeeded \in Nat /\ failed \in Nat
          /\ landed \subseteq Reqs
        OBVIOUS
    <2> HIDE DEF Init, WriterInit
    <2>6. QED
        BY <2>1, <2>2, <2>3, <2>4, <2>5 DEF TypeOK
<1>2. Busy = {} /\ Holders = {} /\ Joined = {} /\ Calling = {} /\ Taken = {}
    BY DEF Busy, Holders, Joined, Calling, Taken
<1>3. CountInv
    BY <1>2, FS_EmptySet DEF CountInv, Counts
<1>4. PhaseInv /\ \A r \in Reqs : PutInv(r)
    BY NoExitCodeAssumption DEF PhaseInv, PutInv
<1>5. QED
    BY <1>1, <1>3, <1>4 DEF RunInv

-----------------------------------------------------------------------------
(* The main goroutine moves from one phase to the next.                    *)
LEMMA MainStepRunInv ==
    ASSUME RunInv, Running, MainStep \/ ReadEnds \/ StdoutBreaks \/ BrokenPipe
    PROVE  RunInv'
<1> USE DEF endVars
<1>1. UNCHANGED <<writerVars, gor, wg, answered>> /\ (stdout' # "failing" => stdout # "failing")
    BY DEF MainStep, Greet, Poll, ReadEnds, CloseWait, CloseCommand, Close, CloseReply,
           Drain, PrintStats, Fail, ExitCleanly, StdoutBreaks, BrokenPipe
<1>2. CountInv'
    BY <1>1
       DEF RunInv, CountInv, Busy, Holders, Joined, Calling, Taken, writerVars
<1>3. ASSUME NEW r \in Reqs
      PROVE  PutInv(r)'
    BY <1>1 DEF RunInv, PutInv, writerVars
<1>4. TypeOK'
    <2>1. errChan' \in {errChan, {}} /\ UNCHANGED <<writerVars, gor, wg, answered>>
        BY <1>1
           DEF MainStep, Greet, Poll, ReadEnds, CloseWait, CloseCommand, Close, CloseReply,
               Drain, PrintStats, Fail, ExitCleanly, StdoutBreaks, BrokenPipe
    <2>2. errChan' \subseteq Reqs /\ Cardinality(errChan') <= 1
        <3>1. errChan \subseteq Reqs /\ Cardinality(errChan) <= 1
            BY DEF RunInv, TypeOK
        <3>2. {} \subseteq Reqs /\ Cardinality({}) <= 1
            BY FS_EmptySet
        <3>3. QED
            BY <2>1, <3>1, <3>2
    <2>3. main' \in MainLabels
        BY DEF RunInv, TypeOK, MainLabels, MainStep, Greet, Poll, ReadEnds, CloseWait,
               CloseCommand, Close, CloseReply, Drain, PrintStats, Fail, ExitCleanly,
               StdoutBreaks, BrokenPipe
    <2>4. /\ closeSent' \in {closeSent, TRUE} /\ stdout' \in {stdout, "closed", "failing"}
          /\ closed' \in {closed, TRUE} /\ exitCode' \in {exitCode, 0, 1, SIGPIPE}
        BY DEF MainStep, Greet, Poll, ReadEnds, CloseWait, CloseCommand, Close, CloseReply,
               Drain, PrintStats, Fail, ExitCleanly, StdoutBreaks, BrokenPipe
    <2>5. reported' = reported \/ reported' \in SUBSET Reqs
        BY DEF MainStep, Greet, Poll, ReadEnds, CloseWait, CloseCommand, Close, CloseReply,
               Drain, PrintStats, Fail, ExitCleanly, StdoutBreaks, BrokenPipe
    <2>6. QED
        BY <2>1, <2>2, <2>3, <2>4, <2>5 DEF RunInv, TypeOK, writerVars
<1>5. PhaseInv'
    <2> USE NoExitCodeAssumption DEF RunInv, PhaseInv, TypeOK, MainLabels, Running
    <2>1. CASE Greet \/ Poll \/ ReadEnds \/ CloseWait
        BY <1>1, <2>1 DEF Greet, Poll, ReadEnds, CloseWait
    <2>2. CASE CloseCommand
        BY <1>1, <2>2 DEF CloseCommand, Close, AllUploaded, writerVars
    <2>3. CASE CloseReply
        BY <1>1, <2>3 DEF CloseReply, writerVars
    <2>4. CASE Drain \/ Fail \/ StdoutBreaks \/ BrokenPipe
        BY <1>1, <2>4 DEF Drain, Fail, StdoutBreaks, BrokenPipe, SIGPIPE, writerVars
    <2>5. CASE PrintStats
        <3>1. wg = 0 /\ \A r \in Reqs : gor[r] \in {"unread", "gone"}
            BY <2>5, AllThrough DEF PrintStats
        <3>2. reported' = {r \in Reqs : gor[r] # "unread"}
            BY <2>5, <3>1 DEF PrintStats
        <3>3. QED
            BY <1>1, <2>5, <3>1, <3>2 DEF PrintStats, writerVars
    <2>6. CASE ExitCleanly
        BY <1>1, <2>6 DEF ExitCleanly, Close, AllUploaded, writerVars
    <2>7. QED
        BY <2>1, <2>2, <2>3, <2>4, <2>5, <2>6 DEF MainStep
<1>6. QED
    BY <1>2, <1>3, <1>4, <1>5 DEF RunInv

(* A request is read only inside the loop, before anything is waited for.  *)
LEMMA DispatchRunInv ==
    ASSUME RunInv, Running, NEW r \in Reqs, Dispatch(r)
    PROVE  RunInv'
<1> USE DEF Dispatch, MoveGo, endVars, writerVars
<1>1. TypeOK'
    BY DEF RunInv, TypeOK, GoLabels, MainLabels
<1>2. CountInv'
    <2>1. Busy' = Busy \cup {r} /\ r \notin Busy
        BY DEF Busy, RunInv, TypeOK
    <2>2. Counts(wg', Busy')
        BY <2>1, CountUp DEF RunInv, CountInv
    <2>3. UNCHANGED <<Holders, Joined, Calling, Taken>>
        BY DEF Holders, Joined, Calling, Taken
    <2>4. QED
        BY <2>2, <2>3 DEF RunInv, CountInv, Counts
<1>3. PhaseInv'
    BY DEF RunInv, PhaseInv
<1>4. ASSUME NEW q \in Reqs
      PROVE  PutInv(q)'
    BY DEF RunInv, TypeOK, PutInv
<1>5. QED
    BY <1>1, <1>2, <1>3, <1>4 DEF RunInv

(* A goroutine that is at work keeps the main goroutine waiting.           *)
LEMMA BusyPhase ==
    ASSUME RunInv, NEW r \in Reqs, gor[r] \notin {"unread", "gone"},
           UNCHANGED <<main, endVars>>
    PROVE  PhaseInv'
<1>1. wg # 0
    BY AllThrough
<1>2. QED
    BY <1>1 DEF RunInv, PhaseInv, endVars

(* The goroutine of a request moves on without taking a slot.              *)
LEMMA HandleRunInv ==
    ASSUME RunInv, Running, NEW r \in Reqs,
           HandleLocally(r) \/ (HandlePut(r) /\ Reject(r)) \/ Send(r)
    PROVE  RunInv'
<1> USE DEF HandleLocally, HandlePut, Reject, Send, MoveGo, MovePut, endVars, writerVars
<1>1. gor[r] \in {"handle", "send"} /\ gor'[r] \in {"send", "end"}
    BY DEF RunInv, TypeOK, Acquire
<1>2. TypeOK'
    <2>1. errChan' \in {errChan, {r}}
        OBVIOUS
    <2>2. errChan' \subseteq Reqs /\ Cardinality(errChan') <= 1
        <3>1. errChan \subseteq Reqs /\ Cardinality(errChan) <= 1
            BY DEF RunInv, TypeOK
        <3>2. {r} \subseteq Reqs /\ Cardinality({r}) = 1
            BY FS_Singleton
        <3>3. CASE errChan' = errChan
            BY <3>1, <3>3
        <3>4. CASE errChan' = {r}
            BY <3>2, <3>4
        <3>5. QED
            BY <2>1, <3>3, <3>4
    <2>3. QED
        BY <2>2, <1>1 DEF RunInv, TypeOK, GoLabels, PutLabels, Acquire
<1>3. CountInv'
    <2>1. Busy' = Busy
        BY <1>1 DEF Busy, RunInv, TypeOK
    <2>2. UNCHANGED <<Holders, Joined, Calling, Taken>>
        BY DEF Holders, Joined, Calling, Taken, RunInv, TypeOK, Acquire
    <2>3. UNCHANGED <<wg, sem, uploads, started, succeeded, failed, landed>>
        BY DEF Acquire, RunInv, TypeOK
    <2>4. QED
        BY <2>1, <2>2, <2>3 DEF RunInv, CountInv, Counts
<1>4. PhaseInv'
    BY <1>1, BusyPhase
<1>5. ASSUME NEW q \in Reqs
      PROVE  PutInv(q)'
    BY <1>1 DEF RunInv, TypeOK, PutInv, Acquire
<1>6. QED
    BY <1>2, <1>3, <1>4, <1>5 DEF RunInv

(* A slot is taken while there is one.                                     *)
LEMMA AcquireRunInv ==
    ASSUME RunInv, Running, NEW r \in Reqs, HandlePut(r), Acquire(r)
    PROVE  RunInv'
<1> USE DEF HandlePut, Acquire, MoveGo, MovePut, endVars, writerVars
<1>1. gor[r] = "handle" /\ put[r] = "none" /\ gor' = [gor EXCEPT ![r] = "store"]
    BY DEF Reject, RunInv, TypeOK
<1>2. TypeOK'
    BY <1>1, SemCapAssumption DEF RunInv, TypeOK, GoLabels, PutLabels
<1>3. CountInv'
    <2>1. Holders' = Holders \cup {r} /\ r \notin Holders
        BY DEF Holders, RunInv, TypeOK
    <2>2. Counts(sem', Holders')
        BY <2>1, CountUp DEF RunInv, CountInv
    <2>3. Taken' = Taken \cup {r} /\ r \notin Taken
        BY DEF Taken, RunInv, TypeOK
    <2>4. IsFiniteSet(Taken')
        BY <2>3, FS_AddElement DEF RunInv, CountInv
    <2>5. UNCHANGED <<Busy, Joined, Calling>>
        BY <1>1 DEF Busy, Joined, Calling, RunInv, TypeOK
    <2>6. QED
        BY <2>2, <2>4, <2>5 DEF RunInv, CountInv, Counts
<1>4. PhaseInv'
    BY <1>1, BusyPhase
<1>5. ASSUME NEW q \in Reqs
      PROVE  PutInv(q)'
    BY <1>1 DEF RunInv, TypeOK, PutInv
<1>6. QED
    BY <1>2, <1>3, <1>4, <1>5 DEF RunInv

(* The upload joins the WaitGroup before its handler goes on.              *)
LEMMA StartRunInv ==
    ASSUME RunInv, Running, NEW r \in Reqs, StartUpload(r)
    PROVE  RunInv'
<1> USE DEF StartUpload, Start, MoveGo, MovePut, endVars, writerVars
<1>1. TypeOK'
    BY DEF RunInv, TypeOK, GoLabels, PutLabels
<1>2. CountInv'
    <2>1. Joined' = Joined \cup {r} /\ r \notin Joined
        BY DEF Joined, RunInv, TypeOK
    <2>2. Counts(uploads', Joined')
        BY <2>1, CountUp DEF RunInv, CountInv
    <2>3. Calling' = Calling \cup {r} /\ r \notin Calling
        BY DEF Calling, RunInv, TypeOK
    <2>4. Counts(Cardinality(Calling) + 1, Calling')
        BY <2>3, CountUp DEF RunInv, CountInv, Counts
    <2>5. UNCHANGED <<Busy, Holders, Taken>>
        BY DEF Busy, Holders, Taken, RunInv, TypeOK
    <2>6. Cardinality(Calling) \in Nat
        BY FS_CardinalityType DEF RunInv, CountInv
    <2>7. started' = Cardinality(Calling)' + succeeded' + failed'
        BY <2>4, <2>6 DEF RunInv, CountInv, Counts, TypeOK
    <2>8. QED
        BY <2>2, <2>4, <2>5, <2>7 DEF RunInv, CountInv, Counts
<1>3. PhaseInv'
    BY BusyPhase
<1>4. ASSUME NEW q \in Reqs
      PROVE  PutInv(q)'
    BY DEF RunInv, TypeOK, PutInv
<1>5. QED
    BY <1>1, <1>2, <1>3, <1>4 DEF RunInv

(* The goroutine is through.                                               *)
LEMMA EndRunInv ==
    ASSUME RunInv, Running, NEW r \in Reqs, End(r)
    PROVE  RunInv'
<1> USE DEF End, MoveGo, endVars, writerVars
<1>1. Busy' = Busy \ {r} /\ r \in Busy
    BY DEF Busy, RunInv, TypeOK
<1>2. Counts(wg', Busy') /\ wg' \in Nat
    BY <1>1, CountDown DEF RunInv, CountInv
<1>3. TypeOK'
    BY <1>2 DEF RunInv, TypeOK, GoLabels
<1>4. CountInv'
    <2>1. UNCHANGED <<Holders, Joined, Calling, Taken>>
        BY DEF Holders, Joined, Calling, Taken
    <2>2. QED
        BY <1>2, <2>1 DEF RunInv, CountInv, Counts
<1>5. PhaseInv'
    BY BusyPhase
<1>6. ASSUME NEW q \in Reqs
      PROVE  PutInv(q)'
    BY DEF RunInv, TypeOK, PutInv
<1>7. QED
    BY <1>3, <1>4, <1>5, <1>6 DEF RunInv

(* An upload's goroutine keeps Close waiting from its start to its end.    *)
LEMMA UploadPhase ==
    ASSUME RunInv, NEW r \in Reqs, put[r] \in {"running", "counted", "released"},
           UNCHANGED runVars
    PROVE  PhaseInv'
<1>1. uploads # 0
    <2>1. r \in Joined
        BY DEF Joined
    <2>2. QED
        BY <2>1, CountNat DEF RunInv, CountInv
<1>2. ~closed
    BY <1>1 DEF RunInv, PhaseInv
<1>3. QED
    BY <1>2 DEF RunInv, PhaseInv, runVars, endVars

(* The call returns and is counted, as one or the other.                   *)
LEMMA ReturnRunInv ==
    ASSUME RunInv, Running, NEW r \in Reqs, PutSucceeds(r) \/ PutFails(r), UNCHANGED runVars
    PROVE  RunInv'
<1> USE DEF PutSucceeds, PutFails, MovePut, runVars, endVars, writerVars
<1>1. TypeOK'
    BY DEF RunInv, TypeOK, PutLabels
<1>2. CountInv'
    <2>1. Calling' = Calling \ {r} /\ r \in Calling
        BY DEF Calling, RunInv, TypeOK
    <2>2. Counts(Cardinality(Calling) - 1, Calling') /\ Cardinality(Calling) - 1 \in Nat
        BY <2>1, CountDown DEF RunInv, CountInv, Counts
    <2>3. Cardinality(Calling) \in Nat
        BY FS_CardinalityType DEF RunInv, CountInv
    <2>4. started' = Cardinality(Calling)' + succeeded' + failed'
        BY <2>2, <2>3 DEF RunInv, CountInv, Counts, TypeOK
    <2>5. Counts(succeeded', landed')
        <3>1. r \notin landed
            BY DEF RunInv, PutInv
        <3>2. QED
            BY <3>1, CountUp DEF RunInv, CountInv, Counts
    <2>6. UNCHANGED <<Busy, Holders, Joined, Taken>>
        BY DEF Busy, Holders, Joined, Taken, RunInv, TypeOK
    <2>7. QED
        BY <2>2, <2>4, <2>5, <2>6 DEF RunInv, CountInv, Counts
<1>3. PhaseInv'
    BY UploadPhase
<1>4. ASSUME NEW q \in Reqs
      PROVE  PutInv(q)'
    BY DEF RunInv, TypeOK, PutInv
<1>5. QED
    BY <1>1, <1>2, <1>3, <1>4 DEF RunInv

(* The slot is given back.                                                 *)
LEMMA ReleaseRunInv ==
    ASSUME RunInv, Running, NEW r \in Reqs, Release(r), UNCHANGED runVars
    PROVE  RunInv'
<1> USE DEF Release, MovePut, runVars, endVars, writerVars
<1>1. Holders' = Holders \ {r} /\ r \in Holders
    BY DEF Holders, RunInv, TypeOK
<1>2. Counts(sem', Holders') /\ sem' \in Nat
    BY <1>1, CountDown DEF RunInv, CountInv
<1>3. TypeOK'
    BY <1>2, SemCapAssumption DEF RunInv, TypeOK, PutLabels
<1>4. CountInv'
    <2>1. UNCHANGED <<Busy, Joined, Calling, Taken>>
        BY DEF Busy, Joined, Calling, Taken, RunInv, TypeOK
    <2>2. QED
        BY <1>2, <2>1 DEF RunInv, CountInv, Counts
<1>5. PhaseInv'
    BY UploadPhase
<1>6. ASSUME NEW q \in Reqs
      PROVE  PutInv(q)'
    BY DEF RunInv, TypeOK, PutInv
<1>7. QED
    BY <1>3, <1>4, <1>5, <1>6 DEF RunInv

(* The goroutine leaves the WaitGroup.                                     *)
LEMMA FinishRunInv ==
    ASSUME RunInv, Running, NEW r \in Reqs, Finish(r), UNCHANGED runVars
    PROVE  RunInv'
<1> USE DEF Finish, MovePut, runVars, endVars, writerVars
<1>1. Joined' = Joined \ {r} /\ r \in Joined
    BY DEF Joined, RunInv, TypeOK
<1>2. Counts(uploads', Joined') /\ uploads' \in Nat
    BY <1>1, CountDown DEF RunInv, CountInv
<1>3. TypeOK'
    BY <1>2 DEF RunInv, TypeOK, PutLabels
<1>4. CountInv'
    <2>1. UNCHANGED <<Busy, Holders, Calling, Taken>>
        BY DEF Busy, Holders, Calling, Taken, RunInv, TypeOK
    <2>2. QED
        BY <1>2, <2>1 DEF RunInv, CountInv, Counts
<1>5. PhaseInv'
    BY UploadPhase
<1>6. ASSUME NEW q \in Reqs
      PROVE  PutInv(q)'
    BY DEF RunInv, TypeOK, PutInv
<1>7. QED
    BY <1>3, <1>4, <1>5, <1>6 DEF RunInv

-----------------------------------------------------------------------------
(* RunInv is inductive.                                                    *)
LEMMA NextRunInv ==
    ASSUME RunInv, [Next]_vars
    PROVE  RunInv'
<1>1. CASE UNCHANGED vars
    <2>1. PhaseInv' /\ \A r \in Reqs : PutInv(r)'
        BY <1>1 DEF RunInv, PhaseInv, PutInv, vars, runVars, endVars, writerVars
    <2>2. QED
        BY <1>1, <2>1
           DEF RunInv, TypeOK, CountInv, Counts, Busy, Holders, Joined, Calling, Taken, vars,
               runVars, endVars, writerVars
<1>2. ASSUME NEW r \in Reqs, Running, Upload(r)
      PROVE  RunInv'
    BY <1>2, ReturnRunInv, ReleaseRunInv, FinishRunInv DEF Upload, UploadStep
<1>3. ASSUME NEW r \in Reqs, Running, Dispatch(r) \/ GoStep(r)
      PROVE  RunInv'
    <2>1. HandlePut(r) => Acquire(r) \/ Reject(r)
        BY DEF HandlePut
    <2>2. QED
        BY <1>3, <2>1, DispatchRunInv, HandleRunInv, AcquireRunInv, StartRunInv, EndRunInv
           DEF GoStep
<1>4. QED
    BY <1>1, <1>2, <1>3, MainStepRunInv DEF Next, Exited

(* The counters of the server and of its writer, and what the main         *)
(* goroutine has waited for, in every reachable state.                     *)
THEOREM RunInvariance == Spec => []RunInv
BY InitRunInv, NextRunInv, PTL DEF Spec

(* Every variable of the server has its type: no WaitGroup goes below zero *)
(* and no more slots are in use than the semaphore has.                    *)
THEOREM RunTypeCorrect == Spec => []TypeOK
BY RunInvariance, PTL DEF RunInv

(* When the go command gets the answer to its close, every request it sent *)
(* before has been answered or could not be, and no upload is running: the *)
(* close command waits for both WaitGroups before it answers.              *)
THEOREM CloseLast == Spec => []CloseAnswerIsLast
<1>1. RunInv => CloseAnswerIsLast
    BY AllThrough DEF RunInv, PhaseInv, PutInv, CloseAnswerIsLast
<1>2. QED
    BY <1>1, RunInvariance, PTL

(* Nothing uses the wrapped backend after its Close, neither a handler nor *)
(* an upload, also when it is closed for the second time.                  *)
THEOREM QuietAfterClose == Spec => []ClosedIsQuiet
<1>1. RunInv => ClosedIsQuiet
    BY AllThrough DEF RunInv, PhaseInv, ClosedIsQuiet
<1>2. QED
    BY <1>1, RunInvariance, PTL

(* What Stats reports after Close adds up: every started PUT was counted   *)
(* as a success or a failure, once, and no slot is leaked.                 *)
THEOREM StatsAddUp == Spec => []ClosedStatsAddUp
<1>1. RunInv => ClosedStatsAddUp
    <2> SUFFICES ASSUME RunInv, closed
                 PROVE  started = succeeded + failed /\ sem = 0
                        /\ succeeded = Cardinality(landed)
        BY DEF ClosedStatsAddUp
    <2>1. \A r \in Reqs : ~Uploading(r)
        BY AllThrough DEF RunInv, PhaseInv
    <2>2. Holders = {} /\ Calling = {}
        BY <2>1 DEF Holders, Calling, Uploading
    <2>3. QED
        BY <2>2, FS_EmptySet DEF RunInv, CountInv, Counts, TypeOK
<1>2. QED
    BY <1>1, RunInvariance, PTL

(* Exit code 0: no accepted PUT was cut off by the exit, and no request    *)
(* was left without its answer, not even by a closed pipe, unless writing  *)
(* failed.                                                                 *)
THEOREM NothingLost == Spec => []CleanExitLosesNothing
<1>1. RunInv => CleanExitLosesNothing
    BY AllThrough DEF RunInv, PhaseInv, PutInv, CleanExitLosesNothing
<1>2. QED
    BY <1>1, RunInvariance, PTL

(* The statistics are printed when nothing is recorded any more.           *)
THEOREM StatsFinal == Spec => []StatsAreFinal
<1>1. RunInv => StatsAreFinal
    BY DEF RunInv, PhaseInv, StatsAreFinal
<1>2. QED
    BY <1>1, RunInvariance, PTL

-----------------------------------------------------------------------------
(* The main goroutine waits for one of the WaitGroups or for errChan.      *)
Waiting ==
    \/ main \in {"closeWait", "fail"} /\ wg # 0
    \/ main = "drain" /\ wg # 0 /\ errChan = {}
    \/ main \in {"close", "deferred"} /\ uploads # 0

(* The next step of the goroutine of r, or of its upload, waits for nobody.*)
CanMove(r) ==
    \/ gor[r] \in {"handle", "send", "end"}
    \/ gor[r] = "store" /\ put[r] = "acquired"
    \/ put[r] \in {"running", "counted", "released"}

WaitsForSomebody == Waiting => \E r \in Reqs : CanMove(r)

(* A counter that is not zero counts somebody.                             *)
LEMMA CountSome ==
    ASSUME NEW S, NEW n, Counts(n, S), n # 0
    PROVE  \E x : x \in S
<1>1. S # {}
    BY FS_EmptySet DEF Counts
<1>2. QED
    BY <1>1

(* server.go:189, 233, 246, async_backend.go:105: whatever the main loop   *)
(* waits for, somebody is there who can do it without waiting: a WaitGroup *)
(* is never left above zero by goroutines that are gone, and none of them  *)
(* waits for errChan, for the semaphore or for another one.                *)
THEOREM NobodyForgotten == Spec => []WaitsForSomebody
<1>1. RunInv => WaitsForSomebody
    <2> SUFFICES ASSUME RunInv, Waiting
                 PROVE  \E r \in Reqs : CanMove(r)
        BY DEF WaitsForSomebody
    <2>1. CASE wg # 0
        <3>1. PICK r \in Reqs : r \in Busy
            BY <2>1, CountSome DEF RunInv, CountInv, Busy
        <3>2. QED
            BY <3>1 DEF Busy, CanMove, RunInv, PutInv
    <2>2. CASE uploads # 0
        <3>1. PICK r \in Reqs : r \in Joined
            BY <2>2, CountSome DEF RunInv, CountInv, Joined
        <3>2. QED
            BY <3>1 DEF Joined, CanMove
    <2>3. QED
        BY <2>1, <2>2 DEF Waiting
<1>2. QED
    BY <1>1, RunInvariance, PTL

(* The stations of Run and runServer after the loop, of a request's        *)
(* goroutine and of its upload, each in the order they are passed.         *)
MainStage(l) ==
    CASE l \in {"greet", "read", "poll"} -> 0
      [] l = "closeWait" -> 1   [] l = "close" -> 2      [] l = "closeReply" -> 3
      [] l = "drain" -> 4       [] l = "stats" -> 5      [] l = "fail" -> 5
      [] l = "deferred" -> 6    [] l = "exited" -> 7

GoStage(l) ==
    CASE l = "unread" -> 0   [] l = "handle" -> 1   [] l = "store" -> 2
      [] l = "send" -> 3     [] l = "end" -> 4      [] l = "gone" -> 5

PutStage(l) ==
    CASE l = "none" -> 0     [] l = "acquired" -> 1   [] l = "running" -> 2
      [] l = "counted" -> 3  [] l = "released" -> 4   [] l = "rejected" -> 5
      [] l = "finished" -> 5

(* Nobody turns back, nothing is read after the loop, and each step of one *)
(* of the goroutines that must end gets it on.                             *)
Advance ==
    /\ MainStage(main) <= MainStage(main')
    /\ \A r \in Reqs :
        /\ GoStage(gor[r]) <= GoStage(gor'[r])
        /\ PutStage(put[r]) <= PutStage(put'[r])
        /\ gor[r] = "unread" /\ gor'[r] # "unread" => main = "read"
        /\ Running /\ GoStep(r) => GoStage(gor[r]) < GoStage(gor'[r])
        /\ Running /\ Upload(r) => PutStage(put[r]) < PutStage(put'[r])
    /\ Running /\ MainStep /\ main \notin {"greet", "poll"}
          => MainStage(main) < MainStage(main')

(* The main goroutine's own steps leave the others where they are.         *)
LEMMA MainAdvances ==
    ASSUME RunInv, MainStep \/ ReadEnds \/ StdoutBreaks \/ BrokenPipe
    PROVE  /\ MainStage(main) <= MainStage(main')
           /\ MainStep /\ main \notin {"greet", "poll"}
                 => MainStage(main) < MainStage(main')
           /\ UNCHANGED <<gor, put>>
<1>1. UNCHANGED <<gor, put>>
    BY DEF MainStep, Greet, Poll, ReadEnds, CloseWait, CloseCommand, Close, CloseReply,
           Drain, PrintStats, Fail, ExitCleanly, StdoutBreaks, BrokenPipe, writerVars
<1>2. CASE MainStep
    BY <1>1, <1>2
       DEF MainStep, Greet, Poll, CloseWait, CloseCommand, Close, CloseReply, Drain,
           PrintStats, Fail, ExitCleanly, MainStage
<1>3. CASE ~MainStep /\ ReadEnds
    <2>1. main = "read" /\ main' \in {"drain", "fail", "closeWait"}
        BY <1>3 DEF ReadEnds
    <2>2. MainStage(main) <= MainStage(main')
        BY <2>1 DEF MainStage
    <2>3. QED
        BY <1>1, <1>3, <2>2
<1>4. CASE ~MainStep /\ StdoutBreaks
    <2>1. main' = main /\ MainStage(main) \in Nat
        BY <1>4 DEF StdoutBreaks, MainStage, RunInv, TypeOK, MainLabels
    <2>2. MainStage(main') = MainStage(main)
        BY <2>1
    <2>3. QED
        BY <1>1, <1>4, <2>1, <2>2
<1>5. CASE ~MainStep /\ BrokenPipe
    <2>1. main' = "exited" /\ main \in MainLabels
        BY <1>5 DEF BrokenPipe, RunInv, TypeOK
    <2>2. MainStage(main) <= MainStage(main')
        BY <2>1 DEF MainStage, MainLabels
    <2>3. QED
        BY <1>1, <1>5, <2>2
<1>6. QED
    BY <1>1, <1>2, <1>3, <1>4, <1>5

(* A request's goroutine and its upload move in one direction, each        *)
(* without moving the other ones or the main goroutine.                    *)
LEMMA GoAdvances ==
    ASSUME RunInv, NEW r \in Reqs, GoStep(r) \/ Upload(r) \/ Dispatch(r)
    PROVE  /\ GoStage(gor[r]) <= GoStage(gor'[r])
           /\ PutStage(put[r]) <= PutStage(put'[r])
           /\ GoStep(r) => GoStage(gor[r]) < GoStage(gor'[r])
           /\ Upload(r) => PutStage(put[r]) < PutStage(put'[r])
           /\ \A q \in Reqs \ {r} : UNCHANGED <<gor[q], put[q]>>
           /\ UNCHANGED main \/ Dispatch(r)
<1> USE DEF MoveGo, MovePut, runVars, writerVars
<1>1. /\ gor \in [Reqs -> GoLabels] /\ put \in [Reqs -> PutLabels]
      /\ gor[r] \in {"unread", "handle"} => put[r] = "none"
    BY DEF RunInv, TypeOK, PutInv
<1>2. CASE Dispatch(r)
    BY <1>1, <1>2
       DEF Dispatch, GoStep, HandleLocally, HandlePut, StartUpload, Send, End, Upload,
           GoStage, PutStage
<1>3. CASE Upload(r)
    BY <1>1, <1>3
       DEF Upload, UploadStep, PutSucceeds, PutFails, Release, Finish, GoStep,
           HandleLocally, HandlePut, StartUpload, Send, End, GoStage, PutStage, GoLabels
<1>4. CASE GoStep(r) /\ ~Upload(r)
    BY <1>1, <1>4
       DEF GoStep, HandleLocally, HandlePut, Acquire, Reject, StartUpload, Start, Send,
           End, GoStage, PutStage, PutLabels
<1>5. QED
    BY <1>2, <1>3, <1>4

(* server.go:161: every goroutine that Run starts gets on with each        *)
(* of its steps and never turns back, and no request is read after the     *)
(* loop. With NobodyForgotten: from then on there is always a goroutine    *)
(* that can move, and finitely many moves are left.                        *)
THEOREM RunAdvances == Spec => [][Advance]_vars
<1>1. ASSUME RunInv, Next
      PROVE  Advance \/ UNCHANGED vars
    <2>1. /\ MainStage(main) \in Nat
          /\ \A r \in Reqs : GoStage(gor[r]) \in Nat /\ PutStage(put[r]) \in Nat
        BY <1>1 DEF RunInv, TypeOK, MainLabels, GoLabels, PutLabels, MainStage, GoStage,
                    PutStage
    <2>2. ASSUME Running, MainStep \/ ReadEnds \/ StdoutBreaks \/ BrokenPipe
          PROVE  Advance
        <3>1. ASSUME NEW r \in Reqs
              PROVE  ~GoStep(r) /\ ~Upload(r)
            BY <1>1, <2>1, <2>2, <3>1, GoAdvances, MainAdvances
        <3>2. QED
            BY <1>1, <2>1, <2>2, <3>1, MainAdvances DEF Advance
    <2>3. ASSUME NEW r \in Reqs, Running, Dispatch(r) \/ GoStep(r) \/ Upload(r)
          PROVE  Advance
        <3>1. MainStage(main) <= MainStage(main') /\ ~MainStep
            <4>1. CASE Dispatch(r)
                <5>1. main = "read" /\ main' = "poll"
                    BY <4>1 DEF Dispatch
                <5>2. MainStage(main) = 0 /\ MainStage(main') = 0
                    BY <5>1 DEF MainStage
                <5>3. QED
                    BY <5>1, <5>2
                       DEF MainStep, Greet, Poll, CloseWait, CloseCommand, Close,
                           CloseReply, Drain, PrintStats, Fail, ExitCleanly
            <4>2. CASE ~Dispatch(r)
                <5>1. main' = main
                    BY <1>1, <2>3, <4>2, GoAdvances
                <5>2. MainStage(main') = MainStage(main)
                    BY <5>1
                <5>3. ~MainStep
                    BY <1>1, <2>1, <2>3, <4>2, GoAdvances, MainAdvances
                <5>4. QED
                    BY <2>1, <5>2, <5>3
            <4>3. QED
                BY <4>1, <4>2
        <3>2. ASSUME NEW q \in Reqs \ {r}
              PROVE  /\ UNCHANGED <<gor[q], put[q]>>
                     /\ ~GoStep(q) /\ ~Upload(q)
            <4>1. UNCHANGED <<gor[q], put[q]>>
                BY <1>1, <2>3, GoAdvances
            <4>2. GoStep(q) => GoStage(gor[q]) < GoStage(gor'[q])
                BY <1>1, GoAdvances
            <4>3. Upload(q) => PutStage(put[q]) < PutStage(put'[q])
                BY <1>1, GoAdvances
            <4>4. QED
                BY <2>1, <4>1, <4>2, <4>3
        <3>3. gor[r] = "unread" /\ gor'[r] # "unread" => main = "read"
            BY <2>3
               DEF Dispatch, GoStep, HandleLocally, HandlePut, StartUpload, Send, End,
                   Upload, runVars
        <3>4. QED
            BY <1>1, <2>1, <2>3, <3>1, <3>2, <3>3, GoAdvances DEF Advance
    <2>4. QED
        BY <1>1, <2>2, <2>3 DEF Next, Exited
<1>2. RunInv /\ [Next]_vars => [Advance]_vars
    BY <1>1
<1>3. QED
    BY <1>2, RunInvariance, PTL DEF Spec

-----------------------------------------------------------------------------
(* The mapping: what Backend sees of the writer. *)
UploadMap == [r \in Reqs |-> UploadState(r)]
StoreMap == [r \in Reqs |-> IF r \in landed THEN [out |-> "body", enc |-> "raw"] ELSE None]
CountedMap == {r \in Reqs : put[r] \notin {"none", "rejected"}}

(* Backend counts as we do.                                                *)
LEMMA SameCardinality ==
    ASSUME NEW S
    PROVE  Uploads!Cardinality(S) = Cardinality(S)
BY DEF Uploads!Cardinality, Cardinality

(* A request that does not move in the writer shows nothing.               *)
LEMMA SameUpload ==
    ASSUME NEW r \in Reqs, put'[r] = put[r], r \in landed' <=> r \in landed,
           exitCode' = exitCode
    PROVE  UploadState(r)' = UploadState(r)
BY DEF UploadState, Running

(* The semaphore has room for an upload exactly when Backend says so.      *)
LEMMA AcquireStarts ==
    ASSUME RunInv, Running, NEW r \in Reqs, Acquire(r), exitCode' = exitCode
    PROVE  Uploads!UploadsNext
<1>1. Uploads!InFlight("server") \subseteq Holders
    BY DEF Uploads!InFlight, Holders, UploadState, RunInv, TypeOK, PutLabels
<1>2. Cardinality(Uploads!InFlight("server")) < SemCap
    <2>1. /\ Cardinality(Uploads!InFlight("server")) <= sem
          /\ Cardinality(Uploads!InFlight("server")) \in Nat
        BY <1>1, FS_Subset, FS_CardinalityType DEF RunInv, CountInv, Counts
    <2>2. QED
        BY <2>1, SemCapAssumption DEF Acquire, RunInv, TypeOK
<1>3. UploadMap[r] = "none" /\ UploadMap' = [UploadMap EXCEPT ![r] = "inflight"]
    <2>1. put' = [put EXCEPT ![r] = "acquired"] /\ UNCHANGED landed /\ put[r] = "none"
        BY DEF Acquire, MovePut
    <2>2. UploadState(r) = "none" /\ UploadState(r)' = "inflight"
        <3>1. put'[r] = "acquired" /\ r \notin landed /\ exitCode = None
            BY <2>1 DEF RunInv, TypeOK, PutInv, Running
        <3>2. QED
            BY <2>1, <3>1 DEF UploadState, Running
    <2>3. \A q \in Reqs \ {r} : UploadState(q)' = UploadState(q)
        BY <2>1, SameUpload DEF RunInv, TypeOK
    <2>4. QED
        BY <2>2, <2>3 DEF UploadMap
<1>4. CountedMap' = CountedMap \cup {r} /\ StoreMap' = StoreMap
    BY DEF CountedMap, StoreMap, Acquire, MovePut, RunInv, TypeOK
<1>5. Uploads!StartUpload(r)
    <2>1. [q \in Reqs |-> "server"][r] = "server"
        OBVIOUS
    <2>2. Uploads!Cardinality(Uploads!InFlight([q \in Reqs |-> "server"][r])) < SemCap
        BY <1>2, <2>1, SameCardinality
    <2>3. QED
        BY <1>3, <1>4, <2>2 DEF Uploads!StartUpload, UploadMap, CountedMap, StoreMap
<1>6. QED
    BY <1>3, <1>5 DEF Uploads!UploadsNext, UploadMap

(* A PUT is turned down only while as many slots may be taken.             *)
LEMMA RejectRejects ==
    ASSUME RunInv, Running, NEW r \in Reqs, Reject(r), exitCode' = exitCode
    PROVE  Uploads!UploadsNext
<1>1. Holders \subseteq Uploads!MayHoldSlot("server")
    BY DEF Uploads!MayHoldSlot, Holders, UploadState, Running, RunInv, PutInv
<1>2. Uploads!MayHoldSlot("server") \subseteq Taken
    BY DEF Uploads!MayHoldSlot, Taken, UploadState, RunInv, PutInv
<1>3. Cardinality(Uploads!MayHoldSlot("server")) >= SemCap
    <2>1. IsFiniteSet(Uploads!MayHoldSlot("server"))
        BY <1>2, FS_Subset DEF RunInv, CountInv
    <2>2. /\ sem <= Cardinality(Uploads!MayHoldSlot("server"))
          /\ Cardinality(Uploads!MayHoldSlot("server")) \in Nat
        BY <1>1, <2>1, FS_Subset, FS_CardinalityType DEF RunInv, CountInv, Counts
    <2>3. QED
        BY <2>2, SemCapAssumption DEF Reject, RunInv, TypeOK
<1>4. UploadMap[r] = "none" /\ UploadMap' = [UploadMap EXCEPT ![r] = "rejected"]
    <2>1. put' = [put EXCEPT ![r] = "rejected"] /\ UNCHANGED landed /\ put[r] = "none"
        BY DEF Reject, MovePut
    <2>2. UploadState(r) = "none" /\ UploadState(r)' = "rejected"
        <3>1. put'[r] = "rejected" /\ r \notin landed
            BY <2>1 DEF RunInv, TypeOK, PutInv
        <3>2. QED
            BY <2>1, <3>1 DEF UploadState
    <2>3. \A q \in Reqs \ {r} : UploadState(q)' = UploadState(q)
        BY <2>1, SameUpload DEF RunInv, TypeOK
    <2>4. QED
        BY <2>2, <2>3 DEF UploadMap
<1>5. CountedMap' = CountedMap /\ StoreMap' = StoreMap
    BY DEF CountedMap, StoreMap, Reject, MovePut, RunInv, TypeOK
<1>6. Uploads!RejectUpload(r)
    <2>1. [q \in Reqs |-> "server"][r] = "server"
        OBVIOUS
    <2>2. Uploads!Cardinality(Uploads!MayHoldSlot([q \in Reqs |-> "server"][r])) >= SemCap
        BY <1>3, <2>1, SameCardinality
    <2>3. QED
        BY <1>4, <1>5, <2>2 DEF Uploads!RejectUpload, UploadMap, CountedMap, StoreMap
<1>7. QED
    BY <1>4, <1>6 DEF Uploads!UploadsNext, UploadMap

(* The call's return is the upload's outcome.                              *)
LEMMA ReturnSettles ==
    ASSUME RunInv, Running, NEW r \in Reqs, PutSucceeds(r) \/ PutFails(r), UNCHANGED runVars
    PROVE  Uploads!UploadsNext
<1> DEFINE c == [out |-> "body", enc |-> "raw"]
<1>1. /\ put' = [put EXCEPT ![r] = "counted"] /\ put[r] = "running" /\ r \notin landed
      /\ exitCode' = exitCode /\ exitCode = None /\ put \in [Reqs -> PutLabels]
    BY DEF PutSucceeds, PutFails, MovePut, RunInv, PutInv, TypeOK, runVars, endVars, Running
<1>2. \A q \in Reqs \ {r} : UploadState(q)' = UploadState(q)
    BY <1>1, SameUpload DEF PutSucceeds, PutFails
<1>3. UploadMap[r] = "inflight"
    BY <1>1 DEF UploadMap, UploadState, Running
<1>4. CountedMap' = CountedMap
    BY <1>1 DEF CountedMap
<1>5. c \in Uploads!Content
    BY DEF Uploads!Content
<1>6. CASE PutSucceeds(r)
    <2>1. UploadMap' = [UploadMap EXCEPT ![r] = "ok"]
        BY <1>1, <1>2, <1>6 DEF UploadMap, UploadState, PutSucceeds
    <2>2. StoreMap' = [StoreMap EXCEPT ![r] = c]
        BY <1>6 DEF StoreMap, PutSucceeds
    <2>3. Uploads!UploadLands(r, r, c)
        BY <1>3, <1>4, <2>1, <2>2
           DEF Uploads!UploadLands, Uploads!Store, UploadMap, CountedMap, StoreMap
    <2>4. QED
        BY <1>3, <1>5, <2>3 DEF Uploads!UploadsNext, UploadMap
<1>7. CASE PutFails(r)
    <2>1. UploadMap' = [UploadMap EXCEPT ![r] = "failed"]
        BY <1>1, <1>2, <1>7 DEF UploadMap, UploadState, PutFails
    <2>2. StoreMap' = StoreMap
        BY <1>7 DEF StoreMap, PutFails
    <2>3. Uploads!UploadFails(r)
        BY <1>3, <1>4, <2>1, <2>2 DEF Uploads!UploadFails, UploadMap, CountedMap, StoreMap
    <2>4. QED
        BY <1>3, <1>5, <2>3 DEF Uploads!UploadsNext, UploadMap
<1>8. QED
    BY <1>6, <1>7

(* The exit loses what is in flight: nothing after a clean end of input.   *)
LEMMA ExitAbandons ==
    ASSUME RunInv, Running, ~Running', UNCHANGED writerVars
    PROVE  Uploads!UploadsNext
<1>1. UploadMap' = [r \in Reqs |-> IF r \in Uploads!InFlight("server") THEN "lost"
                                   ELSE UploadMap[r]]
    <2>1. ASSUME NEW r \in Reqs
          PROVE  UploadState(r)' = IF r \in Uploads!InFlight("server") THEN "lost"
                                   ELSE UploadState(r)
        BY DEF UploadState, Running, Uploads!InFlight, writerVars, RunInv, PutInv
    <2>2. QED
        BY <2>1 DEF UploadMap
<1>2. CountedMap' = CountedMap /\ StoreMap' = StoreMap
    BY DEF CountedMap, StoreMap, writerVars
<1>3. Uploads!AbandonUploads("server")
    BY <1>1, <1>2 DEF Uploads!AbandonUploads, UploadMap, CountedMap, StoreMap
<1>4. QED
    BY <1>3 DEF Uploads!UploadsNext

(* Every other step keeps what Backend sees.                               *)
LEMMA StutterMap ==
    ASSUME \A r \in Reqs : UploadState(r)' = UploadState(r), UNCHANGED landed,
           CountedMap' = CountedMap
    PROVE  UNCHANGED <<StoreMap, UploadMap, CountedMap>>
BY DEF StoreMap, UploadMap

(* Every step of the server is a step of the writers Backend describes, or *)
(* shows nothing of them.                                                  *)
LEMMA NextUploads ==
    ASSUME RunInv, [Next]_vars
    PROVE  Uploads!UploadsNext \/ UNCHANGED <<StoreMap, UploadMap, CountedMap>>
<1>1. ASSUME UNCHANGED writerVars, exitCode' = exitCode
      PROVE  UNCHANGED <<StoreMap, UploadMap, CountedMap>>
    BY <1>1, SameUpload, StutterMap DEF writerVars, CountedMap
<1>2. CASE UNCHANGED vars
    BY <1>1, <1>2 DEF vars, runVars, endVars
<1>3. CASE Running /\ (MainStep \/ ReadEnds \/ StdoutBreaks \/ BrokenPipe)
    <2>1. UNCHANGED writerVars
        BY <1>3 DEF MainStep, Greet, Poll, ReadEnds, CloseWait, CloseCommand, Close,
                    CloseReply, Drain, PrintStats, Fail, ExitCleanly, StdoutBreaks, BrokenPipe
    <2>2. CASE Running'
        BY <1>1, <1>3, <2>1, <2>2 DEF Running
    <2>3. CASE ~Running'
        BY <1>3, <2>1, <2>3, ExitAbandons
    <2>4. QED
        BY <2>2, <2>3
<1>4. ASSUME NEW r \in Reqs, Running, Dispatch(r) \/ GoStep(r)
      PROVE  Uploads!UploadsNext \/ UNCHANGED <<StoreMap, UploadMap, CountedMap>>
    <2>1. CASE Dispatch(r) \/ HandleLocally(r) \/ Send(r) \/ End(r)
        BY <1>1, <2>1 DEF Dispatch, HandleLocally, Send, End, endVars
    <2>2. CASE HandlePut(r)
        BY <1>4, <2>2, AcquireStarts, RejectRejects DEF HandlePut, endVars
    <2>3. CASE StartUpload(r)
        <3>1. /\ put' = [put EXCEPT ![r] = "running"] /\ put[r] = "acquired"
              /\ UNCHANGED <<landed, exitCode>> /\ put \in [Reqs -> PutLabels]
              /\ r \notin landed
            BY <2>3 DEF StartUpload, Start, MovePut, endVars, RunInv, TypeOK, PutInv
        <3>2. \A q \in Reqs : UploadState(q)' = UploadState(q)
            BY <3>1 DEF UploadState, Running
        <3>3. CountedMap' = CountedMap
            BY <3>1 DEF CountedMap
        <3>4. QED
            BY <3>1, <3>2, <3>3, StutterMap
    <2>4. QED
        BY <1>4, <2>1, <2>2, <2>3 DEF GoStep
<1>5. ASSUME NEW r \in Reqs, Running, Upload(r)
      PROVE  Uploads!UploadsNext \/ UNCHANGED <<StoreMap, UploadMap, CountedMap>>
    <2>1. CASE PutSucceeds(r) \/ PutFails(r)
        BY <1>5, <2>1, ReturnSettles DEF Upload
    <2>2. CASE Release(r) \/ Finish(r)
        <3>1. /\ put \in [Reqs -> PutLabels] /\ put[r] \in {"counted", "released"}
              /\ put' \in {[put EXCEPT ![r] = "released"], [put EXCEPT ![r] = "finished"]}
              /\ UNCHANGED <<landed, exitCode>>
            BY <1>5, <2>2
               DEF Upload, Release, Finish, MovePut, runVars, endVars, RunInv, TypeOK
        <3>2. \A q \in Reqs : UploadState(q)' = UploadState(q)
            BY <3>1 DEF UploadState, Running
        <3>3. CountedMap' = CountedMap
            BY <3>1 DEF CountedMap
        <3>4. QED
            BY <3>1, <3>2, <3>3, StutterMap
    <2>3. QED
        BY <1>5, <2>1, <2>2 DEF Upload, UploadStep
<1>6. QED
    BY <1>2, <1>3, <1>4, <1>5 DEF Next, Exited

(* async_backend.go implements what the handlers assume of the backend's   *)
(* uploads: a slot, one outcome, none lost but by an exit with an error.   *)
THEOREM UploadsImplemented == Spec => ImplementsUploads
<1>1. Init => Uploads!BackendInit
    BY DEF Init, WriterInit, Uploads!BackendInit, UploadState
<1>2. RunInv /\ [Next]_vars => [Uploads!UploadsNext]_(Uploads!backendVars)
    BY NextUploads DEF Uploads!backendVars, StoreMap, UploadMap, CountedMap
<1>3. QED
    BY <1>1, <1>2, RunInvariance, PTL DEF Spec, ImplementsUploads, Uploads!UploadsSpec

=============================================================================
