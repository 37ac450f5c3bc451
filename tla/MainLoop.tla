------------------------------ MODULE MainLoop ------------------------------
(***************************************************************************)
(* setup() and loop() of src/Main/Main.ino: the cooperative scheduler that *)
(* alternates the detector's callback (offlineThread) and the web server's *)
(* (serverThread) on the wrapping clock millis().                          *)
(*                                                                         *)
(* A callback is a stretch of time; what it does is in Controller and      *)
(* HostServer.  millis() is read once for each shouldRun and once at the   *)
(* end of a callback, and time may pass between any two of these.          *)
(***************************************************************************)
EXTENDS Integers, Thread

CONSTANTS
    OfflineInterval,     \* 100 in the code, in the unit of the clock
    ServerInterval,      \* 500
    IdleDelay,           \* 50, the delay when nothing is due
    MaxSetup,            \* bound: longest setup()
    MaxOffline,          \* bound: longest Controller.loop
    MaxServer            \* bound: longest HostServer.loop

ASSUME SchedulerAssumption ==
    /\ OfflineInterval \in Nat /\ ServerInterval \in Nat
    /\ 2 * OfflineInterval <= Modulus /\ 2 * ServerInterval <= Modulus
    /\ IdleDelay \in Nat \ {0}
    /\ MaxSetup \in Nat /\ MaxOffline \in Nat /\ MaxServer \in Nat

VARIABLES
    millis,      \* the wrapping clock
    offline,     \* offlineThread
    server,      \* serverThread
    pc,          \* where the program is
    spent,       \* time since pc last changed
    sinceOffline,  \* history: true time since offlineThread was last stamped
    sinceServer,   \* history: ... since serverThread was
    hasRun         \* history: offlineThread has run

vars == <<millis, offline, server, pc, spent, sinceOffline, sinceServer, hasRun>>

\* "loop": about to ask offlineThread; "else": about to ask serverThread.
Places == {"setup", "loop", "else", "offline", "server", "delay"}

\* How long the program can stay at a place.  The bound of 1 on the two
\* questions says that time can pass there, not how much.
Longest(place) ==
    CASE place = "setup"   -> MaxSetup
      [] place = "offline" -> MaxOffline
      [] place = "server"  -> MaxServer
      [] place = "delay"   -> IdleDelay
      [] OTHER             -> 1

\* The histories stop counting here, beyond every time the bounds allow.
AgeCap == 2 * Modulus

TypeOK ==
    /\ millis \in Time
    /\ offline \in Threads /\ server \in Threads
    /\ pc \in Places
    /\ spent \in 0 .. Longest(pc)
    /\ sinceOffline \in 0 .. AgeCap /\ sinceServer \in 0 .. AgeCap
    /\ hasRun \in BOOLEAN

\* The static objects, and setup() up to its call of SetupServer, which lasts
\* until the network is up: offlineThread has its interval already.
Init ==
    /\ millis = 0
    /\ offline = setInterval(Constructed(0), OfflineInterval)
    /\ server = Constructed(0)
    /\ pc = "setup" /\ spent = 0
    /\ sinceOffline = 0 /\ sinceServer = 0 /\ hasRun = FALSE

Older(age) == IF age < AgeCap THEN age + 1 ELSE age

Tick ==
    /\ spent < Longest(pc)
    /\ millis' = Plus(millis, 1)
    /\ spent' = spent + 1
    /\ sinceOffline' = Older(sinceOffline) /\ sinceServer' = Older(sinceServer)
    /\ UNCHANGED <<offline, server, pc, hasRun>>

Go(place) == pc' = place /\ spent' = 0

\* The rest of setup() once SetupServer returns.
SetupDone ==
    /\ pc = "setup"
    /\ server' = setInterval(server, ServerInterval)
    /\ Go("loop")
    /\ UNCHANGED <<millis, offline, sinceOffline, sinceServer, hasRun>>

AskOffline ==
    /\ pc = "loop"
    /\ IF shouldRun(offline, millis) THEN Go("offline") ELSE Go("else")
    /\ UNCHANGED <<millis, offline, server, sinceOffline, sinceServer, hasRun>>

AskServer ==
    /\ pc = "else"
    /\ IF shouldRun(server, millis) THEN Go("server") ELSE Go("delay")
    /\ UNCHANGED <<millis, offline, server, sinceOffline, sinceServer, hasRun>>

\* Mutant: the run is stamped with the time at which the callback started.
MutOfflineDone ==
    /\ pc = "offline"
    /\ offline' = runned(offline, Minus(millis, spent))
    /\ sinceOffline' = spent /\ hasRun' = TRUE
    /\ Go("loop")
    /\ UNCHANGED <<millis, server, sinceServer>>

\* Thread::run stamps the run when the callback has returned.
OfflineDone ==
    /\ pc = "offline"
    /\ offline' = runned(offline, millis)
    /\ sinceOffline' = 0 /\ hasRun' = TRUE
    /\ Go("loop")
    /\ UNCHANGED <<millis, server, sinceServer>>

ServerDone ==
    /\ pc = "server"
    /\ server' = runned(server, millis)
    /\ sinceServer' = 0
    /\ Go("loop")
    /\ UNCHANGED <<millis, offline, sinceOffline, hasRun>>

DelayDone ==
    /\ pc = "delay" /\ spent = IdleDelay
    /\ Go("loop")
    /\ UNCHANGED <<millis, offline, server, sinceOffline, sinceServer, hasRun>>

Step == SetupDone \/ AskOffline \/ AskServer \/ OfflineDone \/ ServerDone \/ DelayDone

Next == Tick \/ Step

Spec == Init /\ [][Next]_vars

\* Time passes and the program goes on: the network comes up and every
\* callback returns (HostServer says when the web server's does).
FairSpec == Spec /\ WF_vars(Tick) /\ WF_vars(Step)

-----------------------------------------------------------------------------
(* Properties *)

\* The intervals are pauses: no callback starts before its interval has
\* passed since it last returned, across any number of wraps of millis().
NoEarlyRun ==
    [][ /\ pc = "loop" /\ pc' = "offline" => sinceOffline >= OfflineInterval
        /\ pc' = "server" /\ pc # "server" => sinceServer >= ServerInterval ]_vars

\* The detector is late by at most one run of the web server, begun just
\* before its interval was over, or by one idle delay: a pause between two of
\* its runs lasts no longer.  Only its first run may be later, by what setup()
\* took, and follows setup() at once then.
DetectorPunctual ==
    pc \notin {"setup", "offline"} =>
        \/ sinceOffline <= OfflineInterval + MaxServer + 1
        \/ sinceOffline <= OfflineInterval + IdleDelay + 1
        \/ ~hasRun /\ pc = "loop" /\ sinceOffline <= MaxSetup + 1

\* The detector runs again and again.
DetectorRuns == []<>(pc = "offline")

\* The web server is not starved by the detector, although the detector is
\* asked first and may take longer than its own interval.
ServerRuns == []<>(pc = "server")
=============================================================================
