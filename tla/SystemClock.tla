---------------------------- MODULE SystemClock -----------------------------
(***************************************************************************)
(* now() of libraries/Time-master: seconds counted off the wrapping clock  *)
(* millis(), as often as somebody asks.  The detector asks once a run and  *)
(* when a hush begins; setTime is never called and no sync provider is     *)
(* set, so counting is all that now() does.  A gap between two calls must  *)
(* leave room for the rest of a second below the wrap.                     *)
(***************************************************************************)
EXTENDS Millis

CONSTANTS
    Second,        \* clock units in a second, 1000 on the board
    MaxGap,        \* bound: clock units between two calls of now()
    MaxElapsed     \* bound: length of a behaviour

ASSUME ClockAssumption ==
    /\ Second \in 1 .. Modulus - 1
    /\ MaxGap \in 0 .. Modulus - Second /\ MaxElapsed \in Nat

VARIABLES
    elapsed,       \* true time since boot
    sysTime,       \* seconds counted
    prevMillis,    \* the value of millis up to which they are counted
    inNow,         \* the program is inside now()
    gap            \* time since now() was last left

clockLocals == <<elapsed, sysTime, prevMillis, inNow, gap>>
clockVars == <<millis, clockLocals>>

ClockTypeOK ==
    /\ elapsed \in 0..MaxElapsed
    /\ millis \in Instants /\ prevMillis \in Instants
    /\ sysTime \in Nat
    /\ inNow \in BOOLEAN
    /\ gap \in 0..MaxGap

ClockInit ==
    /\ elapsed = 0 /\ millis = 0
    /\ sysTime = 0 /\ prevMillis = 0
    /\ inNow = FALSE /\ gap = 0

\* Time passes, also between two turns of the loop in now().
ClockPass ==
    /\ gap < MaxGap /\ elapsed < MaxElapsed
    /\ elapsed' = elapsed + 1
    /\ Advance
    /\ gap' = gap + 1
    /\ UNCHANGED <<sysTime, prevMillis, inNow>>

CallNow ==
    /\ ~inNow
    /\ inNow' = TRUE
    /\ UNCHANGED <<elapsed, millis, sysTime, prevMillis, gap>>

Uncounted == Since(prevMillis)

\* Mutant: the remainder of the last second is thrown away.
MutCountSecond ==
    /\ inNow /\ Uncounted >= Second
    /\ sysTime' = sysTime + 1
    /\ prevMillis' = millis
    /\ UNCHANGED <<elapsed, millis, inNow, gap>>

\* Mutant: prevMillis does not wrap.
MutCountSecondWide ==
    /\ inNow /\ Uncounted >= Second
    /\ sysTime' = sysTime + 1
    /\ prevMillis' = prevMillis + Second
    /\ UNCHANGED <<elapsed, millis, inNow, gap>>

\* One turn of the while loop.
CountSecond ==
    /\ inNow /\ Uncounted >= Second
    /\ sysTime' = sysTime + 1
    /\ prevMillis' = (prevMillis + Second) % Modulus
    /\ UNCHANGED <<elapsed, millis, inNow, gap>>

\* The loop is left and now() returns sysTime.
ReturnNow ==
    /\ inNow /\ Uncounted < Second
    /\ inNow' = FALSE /\ gap' = 0
    /\ UNCHANGED <<elapsed, millis, sysTime, prevMillis>>

ClockNext == ClockPass \/ CallNow \/ CountSecond \/ ReturnNow

ClockSpec == ClockInit /\ [][ClockNext]_clockVars

-----------------------------------------------------------------------------
(* Properties *)

\* now() tells the time: what it returns is the number of whole seconds since
\* boot, across wraps of millis(), however irregularly it is called and though
\* the wrap is no whole number of seconds.
TellsTheTime == [][ReturnNow => sysTime = elapsed \div Second]_clockVars
=============================================================================
