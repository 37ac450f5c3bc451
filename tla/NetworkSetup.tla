---------------------------- MODULE NetworkSetup ----------------------------
(***************************************************************************)
(* HostServer.SetupServer of src/Main/Main.ino with WiFi.begin and         *)
(* WiFiServer::begin of libraries/WiFiNINA: check the module, try to join  *)
(* the network until that succeeds, start the server.  setup() calls it    *)
(* before the scheduler runs for the first time.                           *)
(*                                                                         *)
(* The WiFi module and the network are external.  An exchange with the     *)
(* module over SPI may break, and its caller then has the value with which *)
(* it initialised the reply.                                               *)
(***************************************************************************)
EXTENDS Integers

CONSTANTS
    Patience,      \* how often WiFi.begin polls: 50000 ms by 100 ms
    JoinTime,      \* polls within which the module joins a network that is up
    MaxOutages,    \* bound: changes of the network
    MaxBroken      \* bound: broken exchanges

ASSUME PatienceAssumption ==
    /\ Patience \in Nat \ {0} /\ JoinTime \in 0 .. Patience - 1
    /\ MaxOutages \in Nat /\ MaxBroken \in Nat

\* wl_status_t, without the states of an access point.
WlStatus == {"NO_MODULE", "IDLE_STATUS", "NO_SSID_AVAIL", "SCAN_COMPLETED",
             "CONNECTED", "CONNECT_FAILED", "CONNECTION_LOST", "DISCONNECTED"}

\* On these WiFi.begin goes on polling.
Undecided == {"IDLE_STATUS", "NO_SSID_AVAIL", "SCAN_COMPLETED"}

VARIABLES
    network,       \* the network is up
    outages,       \* how often that changed
    link,          \* the status the module would report
    broken,        \* how many exchanges broke
    status,        \* global variable of Main.ino
    polled,        \* local status of WiFi.begin
    polls,         \* how often it polled
    pc,
    sock,          \* WiFiServer::_sock
    listening,     \* the module accepts connections
    named,         \* the module knows the name of the network
    lag,           \* polls since it knew it and the network was up
    joined         \* history: the module joined the network in this attempt

moduleVars == <<network, outages, link, named, lag, joined>>
beginVars  == <<polled, polls>>
vars == <<moduleVars, broken, status, beginVars, pc, sock, listening>>

\* "check": about to look for the module; "while": at the test of the loop;
\* "join": in WiFi.begin, about to name the network; "poll": waiting for it;
\* "socket", "start": in server.begin.
TypeOK ==
    /\ network \in BOOLEAN /\ outages \in 0..MaxOutages
    /\ link \in WlStatus \ {"NO_MODULE"}
    /\ broken \in 0..MaxBroken
    /\ status \in WlStatus /\ polled \in WlStatus
    /\ polls \in 0..Patience
    /\ pc \in {"check", "halted", "while", "join", "poll", "socket", "start", "up"}
    /\ sock \in {"none", "given"}
    /\ listening \in BOOLEAN /\ named \in BOOLEAN /\ joined \in BOOLEAN
    /\ lag \in 0..JoinTime

Init ==
    /\ network \in BOOLEAN /\ outages = 0
    /\ link = "IDLE_STATUS" /\ named = FALSE /\ lag = 0 /\ joined = FALSE
    /\ broken = 0
    /\ status = "IDLE_STATUS" /\ polled = "IDLE_STATUS" /\ polls = 0
    /\ pc = "check"
    /\ sock = "none" /\ listening = FALSE

-----------------------------------------------------------------------------
(* The network and the module *)

Outage ==
    /\ outages < MaxOutages
    /\ network' = ~network /\ outages' = outages + 1
    /\ link' \in IF network /\ link = "CONNECTED"
                 THEN {"CONNECTION_LOST", "DISCONNECTED"} ELSE {link}
    /\ lag' = 0
    /\ UNCHANGED <<named, joined, broken, status, beginVars, pc, sock, listening>>

CanJoin == named /\ network /\ link \in Undecided

Joins ==
    /\ CanJoin
    /\ link' = "CONNECTED" /\ joined' = TRUE
    /\ UNCHANGED <<network, outages, named, lag, broken, status, beginVars, pc, sock,
                   listening>>

Searches ==
    /\ named /\ ~network /\ link = "IDLE_STATUS"
    /\ link' \in {"NO_SSID_AVAIL", "SCAN_COMPLETED", "CONNECT_FAILED"}
    /\ UNCHANGED <<network, outages, named, lag, joined, broken, status, beginVars,
                   pc, sock, listening>>

\* The module is told the name of the network, and starts anew.
Restart == link' = "IDLE_STATUS" /\ named' = TRUE /\ lag' = 0 /\ joined' = FALSE

\* The outcome of one exchange.
Answered == UNCHANGED broken
Breaks   == broken < MaxBroken /\ broken' = broken + 1

-----------------------------------------------------------------------------
(* SetupServer *)

\* getConnectionStatus: 255, WL_NO_MODULE, is what a broken exchange leaves.
GetConnectionStatus(s) ==
    \/ Answered /\ s = link
    \/ Breaks /\ s = "NO_MODULE"

\* A module that does not answer at once is never asked again: while (true).
CheckModule ==
    /\ pc = "check"
    /\ \E s \in WlStatus :
          /\ GetConnectionStatus(s)
          /\ pc' = IF s = "NO_MODULE" THEN "halted" ELSE "while"
    /\ UNCHANGED <<moduleVars, status, beginVars, sock, listening>>

\* Mutant: an attempt that is over counts as one that succeeded.
MutConnected(s) == s \notin Undecided

Connected(s) == s = "CONNECTED"

\* while (status != WL_CONNECTED), with the delay of the round before.
TryAgain ==
    /\ pc = "while"
    /\ pc' = IF Connected(status) THEN "socket" ELSE "join"
    /\ UNCHANGED <<moduleVars, broken, status, beginVars, sock, listening>>

\* wifiSetNetwork.  A broken exchange may have reached the module, or not,
\* and ends WiFi.begin.
SetNetwork ==
    /\ pc = "join"
    /\ \/ /\ Answered /\ Restart
          /\ polled' = "IDLE_STATUS" /\ polls' = 0 /\ pc' = "poll"
          /\ UNCHANGED status
       \/ /\ Breaks
          /\ Restart \/ UNCHANGED <<link, named, lag, joined>>
          /\ status' = "CONNECT_FAILED" /\ pc' = "while"
          /\ UNCHANGED beginVars
    /\ UNCHANGED <<network, outages, sock, listening>>

\* Mutant: one poll too many.
MutTimeIsUpLate == polls > Patience

\* Mutant: the time is up before the module can have joined.
MutTimeIsUp == polls >= JoinTime

TimeIsUp == polls >= Patience

\* The status ends the attempt.
Decided(s) == s \notin Undecided

\* One turn of the loop of WiFi.begin.  The module joins a network that is up
\* within JoinTime polls.
Poll ==
    /\ pc = "poll" /\ ~TimeIsUp
    /\ IF CanJoin THEN lag < JoinTime /\ lag' = lag + 1 ELSE UNCHANGED lag
    /\ \E s \in WlStatus :
          /\ GetConnectionStatus(s)
          /\ polled' = s /\ polls' = polls + 1
          /\ IF Decided(s) THEN status' = s /\ pc' = "while"
                           ELSE UNCHANGED <<status, pc>>
    /\ UNCHANGED <<network, outages, link, named, joined, sock, listening>>

Timeout ==
    /\ pc = "poll" /\ TimeIsUp
    /\ status' = polled /\ pc' = "while"
    /\ UNCHANGED <<moduleVars, broken, beginVars, sock, listening>>

\* WiFiServer::begin: a socket, ...
GetSocket ==
    /\ pc = "socket"
    /\ \/ Answered /\ sock' = "given" /\ pc' = "start"
       \/ Breaks /\ sock' = "none" /\ pc' = "up"
    /\ UNCHANGED <<moduleVars, status, beginVars, listening>>

\* ... and the command to listen on it, whose failure is not noticed either.
StartServer ==
    /\ pc = "start"
    /\ \/ Answered /\ listening' = TRUE
       \/ Breaks /\ listening' \in BOOLEAN
    /\ pc' = "up"
    /\ UNCHANGED <<moduleVars, status, beginVars, sock>>

Setup == \/ CheckModule \/ TryAgain \/ SetNetwork \/ Poll \/ Timeout
         \/ GetSocket \/ StartServer

Next == Outage \/ Joins \/ Searches \/ Setup

Spec == Init /\ [][Next]_vars

\* The program goes on, and the module joins a network that is up.
FairSpec == Spec /\ WF_vars(Setup) /\ WF_vars(Joins)

-----------------------------------------------------------------------------
(* Properties *)

\* setup() returns, so that smoke can be detected, if the module answers when
\* it is looked for and the network comes up to stay: whatever was polled,
\* broke or timed out before.
SetupReturns == <>[]network /\ [](pc # "halted") => <>(pc = "up")

\* The server is started only on a network that the module has joined in the
\* last attempt, not on the word of an earlier one or of a broken exchange.
StartsWhenJoined == pc \in {"socket", "start", "up"} => joined

\* "start the web server on port 80", as the comment on server.begin() says:
\* once SetupServer has returned the module listens.
ServerStarted == pc = "up" => listening
=============================================================================
