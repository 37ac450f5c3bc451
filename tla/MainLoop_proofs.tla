--------------------------- MODULE MainLoop_proofs ---------------------------
(***************************************************************************)
(* Proofs about the scheduler of MainLoop for every width of the clock,    *)
(* every pair of intervals up to half of it and every length of the        *)
(* callbacks.  The unsigned clock hides how long ago a thread was stamped: *)
(* the invariant Stamped relates it to the true time, and Timetable bounds *)
(* the true time by the place where the program is.                        *)
(***************************************************************************)
EXTENDS MainLoop, TLAPS

-----------------------------------------------------------------------------
(* The clock *)

\* The modulus is at least 2, and half of it is what its name says.
LEMMA HalfModulus ==
    /\ Modulus \in Nat /\ Modulus >= 2
    /\ Modulus \div 2 \in Nat /\ 2 * (Modulus \div 2) = Modulus
BY ModulusAssumption

\* Sums and differences of times are times.
LEMMA TimesAreClosed ==
    \A a, b \in Time : Minus(a, b) \in Time /\ Plus(a, b) \in Time
BY ModulusAssumption DEF Time, Minus, Plus

\* Unsigned sums and differences, without %.
LEMMA MinusIs ==
    \A a, b \in Time : Minus(a, b) = IF a >= b THEN a - b ELSE a - b + Modulus
<1> SUFFICES ASSUME NEW a \in Time, NEW b \in Time
             PROVE  Minus(a, b) = IF a >= b THEN a - b ELSE a - b + Modulus
  OBVIOUS
<1>1. CASE a >= b
  BY <1>1, ModulusAssumption DEF Minus, Time
<1>2. CASE ~(a >= b)
  <2>1. a - b \in -Modulus .. -1
    BY <1>2, ModulusAssumption DEF Time
  <2>. QED  BY <1>2, <2>1, ModulusAssumption DEF Minus
<1>. QED  BY <1>1, <1>2

LEMMA PlusIs ==
    \A a, b \in Time : Plus(a, b) = IF a + b < Modulus THEN a + b ELSE a + b - Modulus
<1> SUFFICES ASSUME NEW a \in Time, NEW b \in Time
             PROVE  Plus(a, b) = IF a + b < Modulus THEN a + b ELSE a + b - Modulus
  OBVIOUS
<1>1. CASE a + b < Modulus
  BY <1>1, ModulusAssumption DEF Plus, Time
<1>2. CASE ~(a + b < Modulus)
  <2> DEFINE c == a + b - Modulus
  <2>1. c \in Time /\ a + b = c + Modulus
    BY <1>2, HalfModulus DEF Time
  <2>2. \A m \in Nat \ {0} : \A r \in 0 .. m - 1 : (r + m) % m = r
    OBVIOUS
  <2>3. (a + b) % Modulus = c
    <3> HIDE DEF c
    <3>. QED  BY <2>1, <2>2, HalfModulus DEF Time
  <2>. QED  BY <1>2, <2>3 DEF Plus
<1>. QED  BY <1>1, <1>2

-----------------------------------------------------------------------------
(* Threads *)

\* Thread t was stamped age units of time ago, and will be due an interval
\* after that.
StampedAgo(t, age) ==
    /\ t.enabled
    /\ t.cachedNextRun = Plus(t.lastRun, t.interval)
    /\ age < Modulus => Minus(millis, t.lastRun) = age

\* shouldRun tells whether the interval has passed, unless that was half of the
\* clock's range ago.
LEMMA ShouldRunTells ==
    ASSUME NEW t \in Threads, NEW age \in Nat, millis \in Time,
           StampedAgo(t, age), 2 * t.interval <= Modulus
    PROVE  /\ shouldRun(t, millis) => age >= t.interval
           /\ t.interval <= age /\ age - t.interval < Modulus \div 2
                => shouldRun(t, millis)
<1>1. t.lastRun \in Time /\ t.interval \in Time /\ t.cachedNextRun \in Time
  BY DEF Threads
<1>2. t.cachedNextRun = IF t.lastRun + t.interval < Modulus
                        THEN t.lastRun + t.interval
                        ELSE t.lastRun + t.interval - Modulus
  BY <1>1, PlusIs DEF StampedAgo
<1>3. Minus(millis, t.cachedNextRun) =
         IF millis >= t.cachedNextRun THEN millis - t.cachedNextRun
         ELSE millis - t.cachedNextRun + Modulus
  BY <1>1, MinusIs
<1>4. ASSUME age < Modulus
      PROVE  Minus(millis, t.cachedNextRun) =
                IF age >= t.interval THEN age - t.interval
                ELSE age - t.interval + Modulus
  <2>1. age = IF millis >= t.lastRun THEN millis - t.lastRun
              ELSE millis - t.lastRun + Modulus
    BY <1>1, <1>4, MinusIs DEF StampedAgo
  <2>. QED  BY <1>1, <1>2, <1>3, <2>1, HalfModulus DEF Time
<1>5. t.enabled
  BY DEF StampedAgo
<1>6. ASSUME shouldRun(t, millis) PROVE age >= t.interval
  <2>1. Minus(millis, t.cachedNextRun) < Modulus \div 2
    <3>1. Minus(millis, t.cachedNextRun) \in Time
      BY <1>1, TimesAreClosed
    <3>. QED  BY <1>6, <3>1, HalfModulus DEF shouldRun, SignBit, Time
  <2>2. CASE age < Modulus
    BY <1>1, <1>4, <2>1, <2>2, HalfModulus DEF Time
  <2>3. CASE ~(age < Modulus)
    BY <1>1, <2>3, HalfModulus DEF Time
  <2>. QED  BY <2>2, <2>3
<1>7. ASSUME t.interval <= age, age - t.interval < Modulus \div 2
      PROVE  shouldRun(t, millis)
  <2>1. age < Modulus
    BY <1>1, <1>7, HalfModulus DEF Time
  <2>2. Minus(millis, t.cachedNextRun) = age - t.interval
    BY <1>4, <1>7, <2>1
  <2>3. ~(Minus(millis, t.cachedNextRun) >= Modulus \div 2)
    BY <1>1, <1>7, <2>2, HalfModulus DEF Time
  <2>. QED  BY <1>5, <2>3 DEF shouldRun, SignBit
<1>. QED  BY <1>6, <1>7

\* A unit of time makes every thread a unit older.
LEMMA StampedEarlier ==
    ASSUME NEW t \in Threads, NEW age \in Nat, millis \in Time,
           StampedAgo(t, age), millis' = Plus(millis, 1)
    PROVE  /\ t.enabled
           /\ t.cachedNextRun = Plus(t.lastRun, t.interval)
           /\ Older(age) < Modulus => Minus(millis', t.lastRun) = Older(age)
<1>1. t.lastRun \in Time /\ 1 \in Time
  BY HalfModulus DEF Threads, Time
<1>2. SUFFICES ASSUME Older(age) < Modulus
               PROVE  Minus(millis', t.lastRun) = Older(age)
  BY DEF StampedAgo
<1>3. Older(age) = age + 1 /\ age + 1 < Modulus
  BY <1>2, HalfModulus DEF Older, AgeCap
<1>4. age = IF millis >= t.lastRun THEN millis - t.lastRun
            ELSE millis - t.lastRun + Modulus
  BY <1>1, <1>3, MinusIs, HalfModulus DEF StampedAgo
<1>5. /\ millis' \in Time
      /\ millis' = IF millis + 1 < Modulus THEN millis + 1 ELSE millis + 1 - Modulus
  BY <1>1, PlusIs, TimesAreClosed
<1>6. Minus(millis', t.lastRun) = IF millis' >= t.lastRun THEN millis' - t.lastRun
                                  ELSE millis' - t.lastRun + Modulus
  BY <1>1, <1>5, MinusIs
<1>. QED  BY <1>1, <1>3, <1>4, <1>5, <1>6, HalfModulus DEF Time

\* A callback that returns stamps its thread with the present.
LEMMA StampedNow ==
    ASSUME NEW t \in Threads, millis \in Time, t.enabled
    PROVE  /\ runned(t, millis) \in Threads
           /\ runned(t, millis).interval = t.interval
           /\ StampedAgo(runned(t, millis), 0)
<1>1. t.interval \in Time
  BY DEF Threads
<1>2. Plus(millis, t.interval) \in Time
  BY <1>1, TimesAreClosed
<1>3. /\ runned(t, millis).interval = t.interval
      /\ runned(t, millis).lastRun = millis
      /\ runned(t, millis).cachedNextRun = Plus(millis, t.interval)
      /\ runned(t, millis).enabled
  BY <1>1 DEF runned, Threads
<1>4. Minus(millis, millis) = 0
  BY MinusIs, HalfModulus DEF Time
<1>5. runned(t, millis) \in Threads
  BY <1>1, <1>2 DEF runned, Threads
<1>. QED  BY <1>3, <1>4, <1>5 DEF StampedAgo

\* setInterval counts from the last stamp.
LEMMA IntervalSet ==
    ASSUME NEW t \in Threads, NEW i \in Time, NEW age, StampedAgo(t, age)
    PROVE  /\ setInterval(t, i) \in Threads
           /\ setInterval(t, i).interval = i
           /\ StampedAgo(setInterval(t, i), age)
<1>1. Plus(t.lastRun, i) \in Time
  BY TimesAreClosed DEF Threads
<1>2. /\ setInterval(t, i).interval = i
      /\ setInterval(t, i).lastRun = t.lastRun
      /\ setInterval(t, i).cachedNextRun = Plus(t.lastRun, i)
      /\ setInterval(t, i).enabled
  BY DEF setInterval, Threads, StampedAgo
<1>3. setInterval(t, i) \in Threads
  BY <1>1 DEF setInterval, Threads
<1>. QED  BY <1>2, <1>3 DEF StampedAgo

-----------------------------------------------------------------------------
(* The invariant *)

Stamped ==
    /\ StampedAgo(offline, sinceOffline) /\ offline.interval = OfflineInterval
    /\ StampedAgo(server, sinceServer)
    /\ pc # "setup" => server.interval = ServerInterval

IInv == TypeOK /\ Stamped

\* Every stay at a place has a bound.
LEMMA LongestIsNatural == \A p \in Places : Longest(p) \in Nat
BY SchedulerAssumption DEF Places, Longest

\* Histories grow by one, up to their cap.
LEMMA OlderByOne ==
    \A age \in 0 .. AgeCap : Older(age) \in 0 .. AgeCap /\ Older(age) <= age + 1
BY HalfModulus DEF Older, AgeCap

\* The threads as setup() leaves them for SetupServer.
LEMMA InitInvariant == Init => IInv
<1> SUFFICES ASSUME Init PROVE IInv
  OBVIOUS
<1>1. 0 \in Time /\ OfflineInterval \in Time /\ 0 \in 0 .. AgeCap
  BY HalfModulus, SchedulerAssumption DEF Time, AgeCap
<1>2. Plus(0, 0) = 0 /\ Minus(0, 0) = 0
  BY <1>1, PlusIs, MinusIs, HalfModulus
<1>3. Constructed(0) \in Threads
  BY <1>1 DEF Constructed, Threads
<1>4. millis = 0
  BY DEF Init
<1>5. StampedAgo(Constructed(0), 0)
  BY <1>2, <1>4 DEF StampedAgo, Constructed
<1>6. /\ setInterval(Constructed(0), OfflineInterval) \in Threads
      /\ setInterval(Constructed(0), OfflineInterval).interval = OfflineInterval
      /\ StampedAgo(setInterval(Constructed(0), OfflineInterval), 0)
  BY <1>1, <1>3, <1>5, IntervalSet
<1>7. 0 \in 0 .. Longest("setup")
  BY LongestIsNatural DEF Places
<1>8. TypeOK
  BY <1>1, <1>3, <1>6, <1>7 DEF Init, TypeOK, Places
<1>9. Stamped
  BY <1>5, <1>6 DEF Init, Stamped
<1>. QED  BY <1>8, <1>9 DEF IInv

\* Time passes.
LEMMA TickInvariant == ASSUME IInv, Tick PROVE IInv'
<1>1. /\ millis \in Time /\ offline \in Threads /\ server \in Threads
      /\ sinceOffline \in 0 .. AgeCap /\ sinceServer \in 0 .. AgeCap
      /\ sinceOffline \in Nat /\ sinceServer \in Nat
  BY HalfModulus DEF IInv, TypeOK, AgeCap
<1>2. /\ millis' = Plus(millis, 1) /\ UNCHANGED <<offline, server, pc, hasRun>>
      /\ sinceOffline' = Older(sinceOffline) /\ sinceServer' = Older(sinceServer)
      /\ spent' = spent + 1 /\ spent < Longest(pc)
  BY DEF Tick
<1>3. millis' \in Time
  BY <1>1, <1>2, TimesAreClosed, HalfModulus DEF Time
<1>4. spent' \in 0 .. Longest(pc)
  BY <1>2, LongestIsNatural DEF IInv, TypeOK
<1>5. TypeOK'
  <2>1. sinceOffline' \in 0 .. AgeCap /\ sinceServer' \in 0 .. AgeCap
    BY <1>1, <1>2, OlderByOne
  <2>. QED  BY <1>1, <1>2, <1>3, <1>4, <2>1 DEF IInv, TypeOK, Longest
<1>6. /\ offline.enabled
      /\ offline.cachedNextRun = Plus(offline.lastRun, offline.interval)
      /\ Older(sinceOffline) < Modulus
           => Minus(millis', offline.lastRun) = Older(sinceOffline)
  BY <1>1, <1>2, StampedEarlier DEF IInv, Stamped
<1>7. /\ server.enabled
      /\ server.cachedNextRun = Plus(server.lastRun, server.interval)
      /\ Older(sinceServer) < Modulus
           => Minus(millis', server.lastRun) = Older(sinceServer)
  BY <1>1, <1>2, StampedEarlier DEF IInv, Stamped
<1>8. Stamped'
  BY <1>2, <1>6, <1>7 DEF IInv, Stamped, StampedAgo
<1>. QED  BY <1>5, <1>8 DEF IInv

\* The steps of the program.
LEMMA StepInvariant == ASSUME IInv, Step PROVE IInv'
<1>1. /\ millis \in Time /\ offline \in Threads /\ server \in Threads
      /\ sinceOffline \in 0 .. AgeCap /\ sinceServer \in 0 .. AgeCap
      /\ pc \in Places
  BY DEF IInv, TypeOK
<1>2. /\ StampedAgo(offline, sinceOffline) /\ offline.interval = OfflineInterval
      /\ StampedAgo(server, sinceServer)
      /\ pc # "setup" => server.interval = ServerInterval
  BY DEF IInv, Stamped
<1>3. millis' = millis /\ \E p \in Places : Go(p)
  BY DEF Step, SetupDone, AskOffline, AskServer, OfflineDone, ServerDone, DelayDone,
         Places
<1>4. /\ pc' \in Places /\ spent' \in 0 .. Longest(pc')
      /\ hasRun' \in BOOLEAN
  <2>1. pc' \in Places /\ spent' \in 0 .. Longest(pc')
    BY <1>3, LongestIsNatural DEF Go
  <2>2. hasRun' \in BOOLEAN
    BY DEF Step, SetupDone, AskOffline, AskServer, OfflineDone, ServerDone, DelayDone,
           IInv, TypeOK
  <2>. QED  BY <2>1, <2>2
<1>5. 0 \in 0 .. AgeCap /\ ServerInterval \in Time
  BY HalfModulus, SchedulerAssumption DEF AgeCap, Time
<1>6. SUFFICES /\ offline' \in Threads /\ server' \in Threads
               /\ sinceOffline' \in 0 .. AgeCap /\ sinceServer' \in 0 .. AgeCap
               /\ Stamped'
  BY <1>1, <1>3, <1>4 DEF IInv, TypeOK
<1>7. CASE SetupDone
  <2>1. /\ setInterval(server, ServerInterval) \in Threads
        /\ setInterval(server, ServerInterval).interval = ServerInterval
        /\ StampedAgo(setInterval(server, ServerInterval), sinceServer)
    BY <1>1, <1>2, <1>5, IntervalSet
  <2>2. /\ server' = setInterval(server, ServerInterval)
        /\ UNCHANGED <<millis, offline, sinceOffline, sinceServer>>
    BY <1>7 DEF SetupDone
  <2>. QED  BY <1>1, <1>2, <2>1, <2>2 DEF Stamped, StampedAgo
<1>8. CASE AskOffline \/ AskServer \/ DelayDone
  <2>1. pc # "setup" /\ UNCHANGED <<millis, offline, server, sinceOffline, sinceServer>>
    BY <1>8 DEF AskOffline, AskServer, DelayDone
  <2>. QED  BY <1>1, <1>2, <2>1 DEF Stamped, StampedAgo
<1>9. CASE OfflineDone
  <2>1. /\ runned(offline, millis) \in Threads
        /\ runned(offline, millis).interval = offline.interval
        /\ StampedAgo(runned(offline, millis), 0)
    BY <1>1, <1>2, StampedNow DEF StampedAgo
  <2>2. /\ offline' = runned(offline, millis) /\ sinceOffline' = 0 /\ pc # "setup"
        /\ UNCHANGED <<millis, server, sinceServer>>
    BY <1>9 DEF OfflineDone
  <2>. QED  BY <1>1, <1>2, <1>5, <2>1, <2>2 DEF Stamped, StampedAgo
<1>10. CASE ServerDone
  <2>1. /\ runned(server, millis) \in Threads
        /\ runned(server, millis).interval = server.interval
        /\ StampedAgo(runned(server, millis), 0)
    BY <1>1, <1>2, StampedNow DEF StampedAgo
  <2>2. /\ server' = runned(server, millis) /\ sinceServer' = 0 /\ pc # "setup"
        /\ UNCHANGED <<millis, offline, sinceOffline>>
    BY <1>10 DEF ServerDone
  <2>. QED  BY <1>1, <1>2, <1>5, <2>1, <2>2 DEF Stamped, StampedAgo
<1>. QED  BY <1>7, <1>8, <1>9, <1>10 DEF Step

\* The clock and the stamps agree throughout, across any number of wraps.
THEOREM Invariant == Spec => []IInv
<1>1. IInv /\ [Next]_vars => IInv'
  <2> SUFFICES ASSUME IInv, [Next]_vars PROVE IInv'
    OBVIOUS
  <2>1. CASE UNCHANGED vars
    BY <2>1 DEF IInv, TypeOK, Stamped, StampedAgo, vars, Longest
  <2>. QED  BY <2>1, TickInvariant, StepInvariant DEF Next
<1>. QED  BY InitInvariant, <1>1, PTL DEF Spec

\* The variables of the scheduler keep their types.
THEOREM TypeCorrect == Spec => []TypeOK
<1>1. IInv => TypeOK  BY DEF IInv
<1>. QED  BY Invariant, <1>1, PTL

\* What IInv says about the threads that are asked.
LEMMA Asked ==
    ASSUME IInv
    PROVE  /\ shouldRun(offline, millis) => sinceOffline >= OfflineInterval
           /\ OfflineInterval <= sinceOffline
                /\ sinceOffline - OfflineInterval < Modulus \div 2
                => shouldRun(offline, millis)
           /\ pc = "else" /\ shouldRun(server, millis) => sinceServer >= ServerInterval
<1>1. /\ millis \in Time /\ offline \in Threads /\ server \in Threads
      /\ sinceOffline \in Nat /\ sinceServer \in Nat
  BY HalfModulus DEF IInv, TypeOK, AgeCap
<1>2. /\ 2 * offline.interval <= Modulus /\ offline.interval = OfflineInterval
      /\ pc # "setup" => 2 * server.interval <= Modulus /\ server.interval = ServerInterval
      /\ StampedAgo(offline, sinceOffline) /\ StampedAgo(server, sinceServer)
  BY SchedulerAssumption DEF IInv, Stamped
<1>3. /\ shouldRun(offline, millis) => sinceOffline >= OfflineInterval
      /\ OfflineInterval <= sinceOffline
           /\ sinceOffline - OfflineInterval < Modulus \div 2
           => shouldRun(offline, millis)
  BY <1>1, <1>2, ShouldRunTells
<1>4. pc = "else" /\ shouldRun(server, millis) => sinceServer >= ServerInterval
  BY <1>1, <1>2, ShouldRunTells
<1>. QED  BY <1>3, <1>4

\* No callback starts before its interval has passed since it last returned,
\* however long the callbacks and the set-up take and wherever the clock wraps.
THEOREM NeverEarly == Spec => NoEarlyRun
<1>1. IInv /\ [Next]_vars
        => [ /\ pc = "loop" /\ pc' = "offline" => sinceOffline >= OfflineInterval
             /\ pc' = "server" /\ pc # "server" => sinceServer >= ServerInterval ]_vars
  <2> SUFFICES ASSUME IInv, Next
               PROVE  /\ pc = "loop" /\ pc' = "offline" => sinceOffline >= OfflineInterval
                      /\ pc' = "server" /\ pc # "server" => sinceServer >= ServerInterval
    OBVIOUS
  <2>1. pc = "loop" /\ pc' = "offline" => shouldRun(offline, millis)
    BY DEF Next, Tick, Step, SetupDone, AskOffline, AskServer, OfflineDone, ServerDone,
           DelayDone, Go
  <2>2. pc' = "server" /\ pc # "server" => pc = "else" /\ shouldRun(server, millis)
    BY DEF Next, Tick, Step, SetupDone, AskOffline, AskServer, OfflineDone, ServerDone,
           DelayDone, Go
  <2>. QED  BY <2>1, <2>2, Asked
<1>. QED  BY Invariant, <1>1, PTL DEF Spec, NoEarlyRun

-----------------------------------------------------------------------------
(* Punctuality *)

\* How long ago the detector ended its last run, where the program is now.
Timetable ==
    /\ pc = "setup" => ~hasRun /\ sinceOffline <= spent
    /\ pc = "loop" => \/ ~hasRun /\ sinceOffline <= spent + MaxSetup
                      \/ sinceOffline <= spent + OfflineInterval + MaxServer
                      \/ sinceOffline <= spent + OfflineInterval + IdleDelay
    /\ pc \in {"else", "server", "delay"} => sinceOffline <= spent + OfflineInterval
    /\ pc = "else" => sinceOffline < spent + OfflineInterval

\* The detector is asked in time if no stretch of the program takes half of the
\* clock's range: beyond that the difference of the two times changes its sign,
\* and the detector would not run until it changes back.
ShortStretches ==
    /\ MaxSetup + 1 < Modulus \div 2
    /\ MaxServer + 1 < Modulus \div 2
    /\ IdleDelay + 1 < Modulus \div 2

\* Between two of its runs the detector pauses no longer than its interval and
\* one run of the web server or one idle delay, however long setup() was; that
\* only delays the first run, which is the next thing that happens then.
THEOREM Punctual == ShortStretches /\ Spec => []DetectorPunctual
<1> SUFFICES ASSUME ShortStretches PROVE Spec => []DetectorPunctual
  OBVIOUS
<1>1. Init => Timetable
  <2>1. 0 <= MaxSetup
    BY SchedulerAssumption
  <2>. QED  BY <2>1 DEF Init, Timetable
<1>2. IInv /\ Timetable /\ [Next]_vars => Timetable'
  <2> SUFFICES ASSUME IInv, Timetable, [Next]_vars PROVE Timetable'
    OBVIOUS
  <2>1. /\ sinceOffline \in 0 .. AgeCap /\ sinceOffline \in Nat
        /\ spent \in 0 .. Longest(pc) /\ spent \in Nat
        /\ pc \in Places
    BY LongestIsNatural, HalfModulus DEF IInv, TypeOK, AgeCap
  <2>2. /\ OfflineInterval \in Nat /\ MaxSetup \in Nat /\ MaxServer \in Nat
        /\ IdleDelay \in Nat /\ MaxOffline \in Nat
    BY SchedulerAssumption
  <2>3. CASE Tick
    <3>1. Older(sinceOffline) \in Nat /\ Older(sinceOffline) <= sinceOffline + 1
      BY <2>1, OlderByOne, HalfModulus DEF AgeCap
    <3>2. /\ pc' = pc /\ spent' = spent + 1 /\ hasRun' = hasRun
          /\ sinceOffline' = Older(sinceOffline)
      BY <2>3 DEF Tick
    <3>. QED  BY <2>1, <2>2, <3>1, <3>2 DEF Timetable
  <2>4. CASE SetupDone
    <3>1. spent <= MaxSetup
      BY <2>1, <2>2, <2>4 DEF SetupDone, Longest
    <3>. QED  BY <2>1, <2>2, <2>4, <3>1 DEF SetupDone, Go, Timetable
  <2>5. CASE AskOffline
    <3>1. spent <= 1
      BY <2>1, <2>5 DEF AskOffline, Longest
    <3>2. sinceOffline - OfflineInterval < Modulus \div 2
      BY <2>1, <2>2, <2>5, <3>1, HalfModulus DEF AskOffline, Timetable, ShortStretches
    <3>3. ~shouldRun(offline, millis) => sinceOffline < OfflineInterval
      BY <2>1, <2>2, <3>2, Asked
    <3>. QED  BY <2>1, <2>2, <2>5, <3>3 DEF AskOffline, Go, Timetable
  <2>6. CASE AskServer
    <3>1. spent <= 1
      BY <2>1, <2>6 DEF AskServer, Longest
    <3>. QED  BY <2>1, <2>2, <2>6, <3>1 DEF AskServer, Go, Timetable
  <2>7. CASE OfflineDone
    BY <2>1, <2>2, <2>7 DEF OfflineDone, Go, Timetable
  <2>8. CASE ServerDone
    <3>1. spent <= MaxServer
      BY <2>1, <2>2, <2>8 DEF ServerDone, Longest
    <3>. QED  BY <2>1, <2>2, <2>8, <3>1 DEF ServerDone, Go, Timetable
  <2>9. CASE DelayDone
    BY <2>1, <2>2, <2>9 DEF DelayDone, Go, Timetable
  <2>10. CASE UNCHANGED vars
    BY <2>10 DEF vars, Timetable
  <2>. QED  BY <2>3, <2>4, <2>5, <2>6, <2>7, <2>8, <2>9, <2>10 DEF Next, Step
<1>3. IInv /\ Timetable => DetectorPunctual
  <2> SUFFICES ASSUME IInv, Timetable, pc \notin {"setup", "offline"}
               PROVE  \/ sinceOffline <= OfflineInterval + MaxServer + 1
                      \/ sinceOffline <= OfflineInterval + IdleDelay + 1
                      \/ ~hasRun /\ pc = "loop" /\ sinceOffline <= MaxSetup + 1
    BY DEF DetectorPunctual
  <2>1. /\ sinceOffline \in Nat /\ spent \in 0 .. Longest(pc) /\ pc \in Places
        /\ OfflineInterval \in Nat /\ MaxSetup \in Nat /\ MaxServer \in Nat
        /\ IdleDelay \in Nat
    BY SchedulerAssumption, HalfModulus DEF IInv, TypeOK, AgeCap
  <2>2. CASE pc = "loop"
    BY <2>1, <2>2 DEF Timetable, Longest
  <2>3. CASE pc = "else"
    BY <2>1, <2>3 DEF Timetable, Longest
  <2>4. CASE pc = "server"
    BY <2>1, <2>4 DEF Timetable, Longest
  <2>5. CASE pc = "delay"
    BY <2>1, <2>5 DEF Timetable, Longest
  <2>. QED  BY <2>1, <2>2, <2>3, <2>4, <2>5 DEF Places
<1>. QED  BY Invariant, <1>1, <1>2, <1>3, PTL DEF Spec
=============================================================================
