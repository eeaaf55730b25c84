----------------------------- MODULE BuildCache -----------------------------
(***************************************************************************)
(* What gobuildcache promises the go command: each host keeps, for each    *)
(* action ID, a register that is written once. A GET answers what the      *)
(* register of its host holds when it is answered, or misses when it holds *)
(* nothing; a PUT is answered when it holds something, the PUT's output or *)
(* an earlier one. What is written was PUT for the action ID, on this host *)
(* or on another one. Any request may fail, or never be answered.          *)
(***************************************************************************)
EXTENDS CacheBase

VARIABLES
    asked,      \* asked[r]: request r, or NoReq
    entry,      \* entry[s]: the output in the register of slot s, or None
    answer      \* answer[r]: the answer to request r, or NoRes

Init ==
    /\ asked = [r \in Reqs |-> NoReq]
    /\ entry = [s \in Slots |-> None]
    /\ answer = [r \in Reqs |-> NoRes]

Register(r) == <<HostOf[ProcOf[r]], asked[r].key>>

WasPut(k, o) == \E q \in Reqs : asked[q] = [op |-> "put", key |-> k, out |-> o]

Ask(r) ==
    /\ asked[r] = NoReq
    /\ \E q \in Requests : asked' = [asked EXCEPT ![r] = q]
    /\ UNCHANGED <<entry, answer>>

(* A PUT writes its own output, a GET one that it found elsewhere. *)
Write(r) ==
    /\ entry[Register(r)] = None
    /\ \E o \in Outputs :
        /\ IF asked[r].op = "put" THEN o = asked[r].out ELSE WasPut(asked[r].key, o)
        /\ entry' = [entry EXCEPT ![Register(r)] = o]

Answer(r, kind, o) ==
    /\ answer[r] = NoRes
    /\ answer' = [answer EXCEPT ![r] = [kind |-> kind, out |-> o]]

(* The answers look at the register after the step. *)
Hit(r) ==
    /\ asked[r].op = "get"
    /\ entry'[Register(r)] # None
    /\ Answer(r, "hit", entry'[Register(r)])

Miss(r) ==
    /\ asked[r].op = "get"
    /\ entry'[Register(r)] = None
    /\ Answer(r, "miss", None)

Stored(r) ==
    /\ asked[r].op = "put"
    /\ entry'[Register(r)] # None
    /\ Answer(r, "put", None)

Fail(r) == Answer(r, "err", None) \/ Answer(r, "nolock", None)

Serve(r) ==
    /\ asked[r] # NoReq
    /\ Write(r) \/ UNCHANGED entry
    /\ Hit(r) \/ Miss(r) \/ Stored(r) \/ Fail(r) \/ UNCHANGED answer
    /\ UNCHANGED asked

Next == \E r \in Reqs : Ask(r) \/ Serve(r)

Spec == Init /\ [][Next]_<<asked, entry, answer>>

-----------------------------------------------------------------------------
(* What the go command may rely on (server.go:412, 540): once a host has   *)
(* answered for an action ID, its later answers stand by it. It does not   *)
(* miss what was hit or PUT, and two hits name the same output.            *)
AnswersStand ==
    [][\A r, q \in Reqs :
        /\ answer[r].kind \in {"hit", "put"}
        /\ Register(q) = Register(r)
        /\ answer'[q] # answer[q]
        => /\ answer'[q].kind # "miss"
           /\ answer[r].kind = "hit" /\ answer'[q].kind = "hit"
                => answer'[q].out = answer[r].out]_<<asked, entry, answer>>

=============================================================================
