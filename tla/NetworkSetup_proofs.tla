------------------------- MODULE NetworkSetup_proofs -------------------------
(***************************************************************************)
(* Proofs about NetworkSetup for every patience, every number of outages   *)
(* and every number of broken exchanges.  StartsWhenJoined is not          *)
(* inductive: what makes it true is that the program's status is           *)
(* CONNECTED only between the poll that saw it and the next attempt.       *)
(***************************************************************************)
EXTENDS NetworkSetup, TLAPS

\* The module says CONNECTED only if it joined in this attempt.
LinkIsHonest == link = "CONNECTED" => joined

\* So does the program, which has left the attempt by then; and while it polls
\* it has seen nothing that ends the attempt.
StatusIsHonest ==
    /\ status = "CONNECTED" => joined /\ pc \notin {"join", "poll"}
    /\ pc = "poll" => polled \in Undecided

IInv == TypeOK /\ LinkIsHonest /\ StatusIsHonest /\ StartsWhenJoined

\* The initial state satisfies the inductive invariant.
LEMMA InitInvariant == Init => IInv
<1> SUFFICES ASSUME Init PROVE IInv
  OBVIOUS
<1>1. 0 \in 0..Patience /\ 0 \in 0..JoinTime /\ 0 \in 0..MaxOutages /\ 0 \in 0..MaxBroken
  BY PatienceAssumption
<1>. QED
  BY <1>1
     DEF Init, IInv, TypeOK, WlStatus, LinkIsHonest, StatusIsHonest, StartsWhenJoined

-----------------------------------------------------------------------------
(* Every step preserves it *)

\* The network and the module: a link that is not CONNECTED becomes so
\* only by joining.
LEMMA ModuleInvariant ==
    ASSUME IInv, Outage \/ Joins \/ Searches
    PROVE  IInv'
<1>1. CASE Outage
  <2>1. TypeOK'
    BY <1>1, PatienceAssumption DEF IInv, TypeOK, Outage, beginVars, WlStatus
  <2>. QED
    BY <2>1, <1>1
       DEF IInv, LinkIsHonest, StatusIsHonest, StartsWhenJoined, Outage, beginVars
<1>2. CASE Joins
  BY <1>2
     DEF IInv, TypeOK, LinkIsHonest, StatusIsHonest, StartsWhenJoined, Joins,
         beginVars, WlStatus
<1>3. CASE Searches
  BY <1>3
     DEF IInv, TypeOK, LinkIsHonest, StatusIsHonest, StartsWhenJoined, Searches,
         beginVars, WlStatus
<1>. QED  BY <1>1, <1>2, <1>3

\* An exchange keeps the count of broken ones within its bound.
LEMMA ExchangeCounted ==
    ASSUME IInv, Answered \/ Breaks
    PROVE  broken' \in 0..MaxBroken
BY PatienceAssumption DEF IInv, TypeOK, Answered, Breaks

\* What GetConnectionStatus says is a status, is CONNECTED only if the link is,
\* and keeps the count of broken exchanges within its bound.
LEMMA StatusReported ==
    ASSUME IInv, NEW s, GetConnectionStatus(s)
    PROVE  /\ s \in WlStatus
           /\ s = "CONNECTED" => joined
           /\ broken' \in 0..MaxBroken
BY PatienceAssumption
   DEF IInv, TypeOK, LinkIsHonest, GetConnectionStatus, Answered, Breaks, WlStatus

\* One turn of the loop in WiFi.begin: it takes the status over if it ends the
\* attempt, and else has time left.
LEMMA PollInvariant == ASSUME IInv, Poll PROVE IInv'
<1>1. PICK s \in WlStatus :
         /\ GetConnectionStatus(s)
         /\ polled' = s /\ polls' = polls + 1
         /\ IF Decided(s) THEN status' = s /\ pc' = "while"
                          ELSE UNCHANGED <<status, pc>>
  BY DEF Poll
<1>2. (s = "CONNECTED" => joined) /\ broken' \in 0..MaxBroken
  BY <1>1, StatusReported
<1>3. /\ pc = "poll" /\ polls < Patience
      /\ lag' \in 0..JoinTime
      /\ UNCHANGED <<network, outages, link, named, joined, sock, listening>>
  BY PatienceAssumption DEF Poll, TimeIsUp, IInv, TypeOK
<1>4. TypeOK'
  <2>1. polls' \in 0..Patience
    BY <1>1, <1>3, PatienceAssumption DEF IInv, TypeOK
  <2>2. /\ status' \in WlStatus /\ polled' \in WlStatus
        /\ pc' \in {"while", "poll"}
    BY <1>1, <1>3 DEF IInv, TypeOK
  <2>. QED  BY <1>2, <1>3, <2>1, <2>2 DEF IInv, TypeOK
<1>5. LinkIsHonest' /\ StartsWhenJoined'
  BY <1>1, <1>3 DEF IInv, LinkIsHonest, StartsWhenJoined
<1>6. StatusIsHonest'
  BY <1>1, <1>2, <1>3 DEF IInv, StatusIsHonest, Decided
<1>. QED  BY <1>4, <1>5, <1>6 DEF IInv

\* The other steps of SetupServer.
LEMMA SetupInvariant == ASSUME IInv, Setup PROVE IInv'
<1>1. CASE CheckModule
  <2>1. PICK s \in WlStatus : /\ GetConnectionStatus(s)
                              /\ pc' = IF s = "NO_MODULE" THEN "halted" ELSE "while"
    BY <1>1 DEF CheckModule
  <2>2. broken' \in 0..MaxBroken
    BY <2>1, StatusReported
  <2>. QED
    BY <1>1, <2>1, <2>2
       DEF IInv, TypeOK, LinkIsHonest, StatusIsHonest, StartsWhenJoined, CheckModule,
           moduleVars, beginVars
<1>2. CASE TryAgain
  BY <1>2
     DEF IInv, TypeOK, LinkIsHonest, StatusIsHonest, StartsWhenJoined, TryAgain,
         Connected, moduleVars, beginVars
<1>3. CASE SetNetwork
  <2>1. broken' \in 0..MaxBroken
    BY <1>3, ExchangeCounted DEF SetNetwork
  <2>2. 0 \in 0..Patience /\ 0 \in 0..JoinTime
    BY PatienceAssumption
  <2>3. TypeOK'
    <3>1. /\ UNCHANGED <<network, outages, sock, listening>>
          /\ status' \in WlStatus /\ pc' \in {"poll", "while"}
          /\ polled' \in WlStatus /\ polls' \in 0..Patience
      BY <1>3, <2>2 DEF IInv, TypeOK, SetNetwork, beginVars, WlStatus
    <3>2. Restart \/ UNCHANGED <<link, named, lag, joined>>
      BY <1>3 DEF SetNetwork
    <3>3. CASE Restart
      BY <2>1, <2>2, <3>1, <3>3 DEF IInv, TypeOK, Restart, WlStatus
    <3>4. CASE UNCHANGED <<link, named, lag, joined>>
      BY <2>1, <3>1, <3>4 DEF IInv, TypeOK
    <3>. QED  BY <3>2, <3>3, <3>4
  <2>. QED
    BY <1>3, <2>3
       DEF IInv, LinkIsHonest, StatusIsHonest, StartsWhenJoined, SetNetwork, Restart,
           beginVars, Undecided
<1>4. CASE Poll
  BY <1>4, PollInvariant
<1>5. CASE Timeout
  BY <1>5
     DEF IInv, TypeOK, LinkIsHonest, StatusIsHonest, StartsWhenJoined, Timeout,
         moduleVars, beginVars, Undecided
<1>6. CASE GetSocket
  <2>1. broken' \in 0..MaxBroken
    BY <1>6, ExchangeCounted DEF GetSocket
  <2>. QED
    BY <1>6, <2>1
       DEF IInv, TypeOK, LinkIsHonest, StatusIsHonest, StartsWhenJoined, GetSocket,
           moduleVars, beginVars
<1>7. CASE StartServer
  <2>1. broken' \in 0..MaxBroken
    BY <1>7, ExchangeCounted DEF StartServer
  <2>. QED
    BY <1>7, <2>1
       DEF IInv, TypeOK, LinkIsHonest, StatusIsHonest, StartsWhenJoined, StartServer,
           moduleVars, beginVars
<1>. QED  BY <1>1, <1>2, <1>3, <1>4, <1>5, <1>6, <1>7 DEF Setup

\* The invariant holds throughout, however the network and the exchanges with
\* the module behave.
THEOREM Invariant == Spec => []IInv
<1>1. IInv /\ [Next]_vars => IInv'
  <2> SUFFICES ASSUME IInv, [Next]_vars PROVE IInv'
    OBVIOUS
  <2>1. CASE Next
    BY <2>1, ModuleInvariant, SetupInvariant DEF Next
  <2>2. CASE UNCHANGED vars
    BY <2>2
       DEF IInv, TypeOK, LinkIsHonest, StatusIsHonest, StartsWhenJoined, vars,
           moduleVars, beginVars
  <2>. QED  BY <2>1, <2>2
<1>. QED  BY InitInvariant, <1>1, PTL DEF Spec

\* The variables of the set-up keep their types: WiFi.begin does not poll beyond
\* its patience.
THEOREM TypeCorrect == Spec => []TypeOK
<1>1. IInv => TypeOK  BY DEF IInv
<1>. QED  BY Invariant, <1>1, PTL

\* SetupServer starts the server only on a network that was joined in its last
\* attempt, however often earlier ones timed out or broke.
THEOREM StartedWhenJoined == Spec => []StartsWhenJoined
<1>1. IInv => StartsWhenJoined  BY DEF IInv
<1>. QED  BY Invariant, <1>1, PTL
=============================================================================
