--------------------------- MODULE BuildCacheLaws ---------------------------
(***************************************************************************)
(* What follows from the registers of BuildCache alone, and so holds of    *)
(* everything that implements it.                                          *)
(***************************************************************************)
EXTENDS BuildCache, TLAPS

TypeOK ==
    /\ asked \in [Reqs -> Requests \cup {NoReq}]
    /\ entry \in [Slots -> Outputs \cup {None}]
    /\ answer \in [Reqs -> Results]

(* An answer with a path is the one that the register gives. *)
Standing(r) ==
    answer[r].kind \in {"hit", "put"} =>
        /\ asked[r] \in Requests
        /\ entry[Register(r)] # None
        /\ answer[r].kind = "hit" => answer[r].out = entry[Register(r)]

RegisterInv == TypeOK /\ \A r \in Reqs : Standing(r)

-----------------------------------------------------------------------------
(* A request that was asked has a register. *)
LEMMA RegisterType ==
    ASSUME NEW r \in Reqs, asked[r] \in Requests
    PROVE  Register(r) \in Slots /\ asked[r] # NoReq
BY ConfigAssumption DEF Register, Slots, Requests, NoReq

(* A register that holds something keeps it. *)
LEMMA NextKeeps ==
    ASSUME TypeOK, [Next]_<<asked, entry, answer>>, NEW s \in Slots, entry[s] # None
    PROVE  entry'[s] = entry[s]
<1>1. ASSUME NEW r \in Reqs, Write(r)
      PROVE  entry'[s] = entry[s]
    BY <1>1 DEF Write, TypeOK
<1>2. QED
    BY <1>1 DEF Next, Ask, Serve

LEMMA NextType ==
    ASSUME TypeOK, [Next]_<<asked, entry, answer>>
    PROVE  TypeOK'
<1>1. ASSUME NEW r \in Reqs, Ask(r)
      PROVE  TypeOK'
    BY <1>1 DEF Ask, TypeOK
<1>2. ASSUME NEW r \in Reqs, Serve(r)
      PROVE  TypeOK'
    <2>1. asked[r] \in Requests /\ Register(r) \in Slots /\ asked' = asked
        BY <1>2, RegisterType DEF Serve, TypeOK
    <2>2. entry' \in [Slots -> Outputs \cup {None}]
        BY <1>2 DEF Serve, Write, TypeOK
    <2>3. entry'[Register(r)] \in Outputs \cup {None}
        BY <2>1, <2>2
    <2>4. answer' \in [Reqs -> Results]
        BY <1>2, <2>3 DEF Serve, Hit, Miss, Stored, Fail, Answer, Results, TypeOK
    <2>5. QED
        BY <2>1, <2>2, <2>4 DEF TypeOK
<1>3. QED
    BY <1>1, <1>2 DEF Next, TypeOK

(* Only the request that is served is answered. *)
LEMMA Answering ==
    ASSUME TypeOK, [Next]_<<asked, entry, answer>>, NEW r \in Reqs, answer'[r] # answer[r]
    PROVE  /\ asked[r] \in Requests
           /\ Hit(r) \/ Miss(r) \/ Stored(r) \/ Fail(r)
<1>1. PICK q \in Reqs : Serve(q)
    BY DEF Next, Ask
<1>2. Hit(q) \/ Miss(q) \/ Stored(q) \/ Fail(q)
    BY <1>1 DEF Serve
<1>3. q = r
    BY <1>2 DEF Hit, Miss, Stored, Fail, Answer, TypeOK
<1>4. QED
    BY <1>1, <1>2, <1>3 DEF Serve, TypeOK

(* A request answers from its register, which keeps what it answered. *)
LEMMA NextStanding ==
    ASSUME RegisterInv, [Next]_<<asked, entry, answer>>, NEW r \in Reqs
    PROVE  Standing(r)'
<1>1. asked[r] \in Requests => asked'[r] = asked[r] /\ Register(r)' = Register(r)
    <2>1. asked[r] \in Requests => asked'[r] = asked[r]
        BY RegisterType DEF Next, Ask, Serve, RegisterInv, TypeOK
    <2>2. QED
        BY <2>1 DEF Register
<1>2. CASE answer'[r] = answer[r]
    <2> SUFFICES ASSUME answer[r].kind \in {"hit", "put"}
                 PROVE  Standing(r)'
        BY <1>2 DEF Standing
    <2>1. /\ asked[r] \in Requests
          /\ entry[Register(r)] # None
          /\ answer[r].kind = "hit" => answer[r].out = entry[Register(r)]
        BY DEF RegisterInv, Standing
    <2>2. entry'[Register(r)] = entry[Register(r)]
        BY <2>1, RegisterType, NextKeeps DEF RegisterInv
    <2>3. QED
        BY <1>1, <1>2, <2>1, <2>2 DEF Standing
<1>3. CASE answer'[r] # answer[r]
    <2>1. asked[r] \in Requests /\ (Hit(r) \/ Miss(r) \/ Stored(r) \/ Fail(r))
        BY <1>3, Answering DEF RegisterInv
    <2>2. answer'[r].kind \in {"hit", "put"} =>
              /\ entry'[Register(r)] # None
              /\ answer'[r].kind = "hit" => answer'[r].out = entry'[Register(r)]
        BY <2>1 DEF Hit, Miss, Stored, Fail, Answer, RegisterInv, TypeOK
    <2>3. QED
        BY <1>1, <2>1, <2>2 DEF Standing
<1>4. QED
    BY <1>2, <1>3

LEMMA RegisterInvariance == Spec => []RegisterInv
<1>1. Init => RegisterInv
    BY DEF Init, RegisterInv, TypeOK, Standing, NoRes, Results
<1>2. RegisterInv /\ [Next]_<<asked, entry, answer>> => RegisterInv'
    BY NextType, NextStanding DEF RegisterInv
<1>3. QED
    BY <1>1, <1>2, PTL DEF Spec

(* A later answer of the same host agrees with what an earlier one said,   *)
(* as both are the register's (server.go:412, 540).                        *)
THEOREM RegistersStand == Spec => AnswersStand
<1> DEFINE Stands ==
        \A r, q \in Reqs :
            /\ answer[r].kind \in {"hit", "put"}
            /\ Register(q) = Register(r)
            /\ answer'[q] # answer[q]
            => /\ answer'[q].kind # "miss"
               /\ answer[r].kind = "hit" /\ answer'[q].kind = "hit"
                    => answer'[q].out = answer[r].out
<1>1. ASSUME RegisterInv, [Next]_<<asked, entry, answer>>
      PROVE  Stands
    <2> SUFFICES ASSUME NEW r \in Reqs, NEW q \in Reqs,
                        answer[r].kind \in {"hit", "put"}, Register(q) = Register(r),
                        answer'[q] # answer[q]
                 PROVE  /\ answer'[q].kind # "miss"
                        /\ answer[r].kind = "hit" /\ answer'[q].kind = "hit"
                             => answer'[q].out = answer[r].out
        OBVIOUS
    <2>1. /\ asked[r] \in Requests
          /\ entry[Register(r)] # None
          /\ answer[r].kind = "hit" => answer[r].out = entry[Register(r)]
        BY <1>1 DEF RegisterInv, Standing
    <2>2. entry'[Register(q)] = entry[Register(r)]
        BY <1>1, <2>1, RegisterType, NextKeeps DEF RegisterInv
    <2>3. Hit(q) \/ Miss(q) \/ Stored(q) \/ Fail(q)
        BY <1>1, Answering DEF RegisterInv
    <2>4. QED
        BY <1>1, <2>1, <2>2, <2>3
           DEF Hit, Miss, Stored, Fail, Answer, RegisterInv, TypeOK
<1>2. RegisterInv /\ [Next]_<<asked, entry, answer>> => [Stands]_<<asked, entry, answer>>
    BY <1>1
<1>3. QED
    BY <1>2, RegisterInvariance, PTL DEF Spec, AnswersStand

=============================================================================
