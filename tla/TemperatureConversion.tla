----------------------- MODULE TemperatureConversion ------------------------
(***************************************************************************)
(* How long TempSensor.getReading waits for the thermometer:               *)
(* requestTemperatures and blockTillConversionComplete of                  *)
(* libraries/Arduino-Temperature-Control-Library-master, with the flags    *)
(* as the detector leaves them (wait, and listen to the device).  The      *)
(* detector takes a temperature on every run, so every run waits.          *)
(* The thermometer is external: its conversion is over at some time, or    *)
(* never.                                                                  *)
(***************************************************************************)
EXTENDS Millis

CONSTANT
    Delms          \* millisToWaitForConversion of the resolution

ASSUME ConversionAssumption == Delms \in 1 .. Modulus - 1

VARIABLES
    pc,            \* "idle", "bit": about to read the bus, "time": the clock
    now,           \* local of blockTillConversionComplete
    ready,         \* the thermometer is done
    passed,        \* a unit of time has passed since the clock was compared
    waited         \* history: time since the conversion was started

conversionLocals == <<pc, now, ready, passed, waited>>
conversionVars == <<millis, conversionLocals>>

ConversionTypeOK ==
    /\ millis \in Instants /\ now \in Instants
    /\ pc \in {"idle", "bit", "time"}
    /\ ready \in BOOLEAN /\ passed \in BOOLEAN
    /\ waited \in 0 .. Delms + 1

ConversionInit ==
    /\ millis = 0
    /\ pc = "idle"
    /\ now = 0
    /\ ready = FALSE /\ passed = FALSE
    /\ waited = 0

\* The loop polls many times in a millisecond, so that at most one passes
\* between two comparisons.
ConversionPass ==
    /\ pc # "idle" => ~passed
    /\ Advance
    /\ passed' = (pc # "idle")
    /\ waited' = IF pc = "idle" THEN 0 ELSE waited + 1
    /\ UNCHANGED <<pc, now, ready>>

\* The thermometer pulls the bus high when it is done.
Finish ==
    /\ pc # "idle" /\ ~ready
    /\ ready' = TRUE
    /\ UNCHANGED <<millis, pc, now, passed, waited>>

\* The conversion is started and the wait begins.
requestTemperatures ==
    /\ pc = "idle"
    /\ pc' = "bit" /\ now' = millis
    /\ ready' = FALSE /\ passed' = FALSE /\ waited' = 0
    /\ UNCHANGED millis

Leave == pc' = "idle" /\ passed' = FALSE

\* !isConversionComplete()
isConversionComplete ==
    /\ pc = "bit"
    /\ IF ready THEN Leave ELSE pc' = "time" /\ UNCHANGED passed
    /\ UNCHANGED <<millis, now, ready, waited>>

\* Mutant: the last unit of time is waited for twice.
MutStillWaiting == (millis - Delms) % Modulus <= now

\* Mutant: only the thermometer ends the wait.
MutStillWaitingForever == TRUE

\* Mutant: the deadline is computed first, and may lie beyond the wrap.
MutDeadline == millis < (now + Delms) % Modulus

\* millis() - delms < now, in unsigned arithmetic
StillWaiting == (millis - Delms) % Modulus < now

blockTillConversionComplete ==
    /\ pc = "time"
    /\ IF StillWaiting THEN pc' = "bit" /\ passed' = FALSE ELSE Leave
    /\ UNCHANGED <<millis, now, ready, waited>>

ConversionNext ==
    \/ ConversionPass \/ Finish
    \/ requestTemperatures \/ isConversionComplete \/ blockTillConversionComplete

ConversionSpec == ConversionInit /\ [][ConversionNext]_conversionVars

-----------------------------------------------------------------------------
(* Properties *)

\* A thermometer that never finishes holds the detector up for the worst-case
\* conversion time and no longer, wherever the clock wraps in between.
WaitIsBounded == pc # "idle" => waited <= Delms

\* The wait ends without a finished conversion only after the worst-case time,
\* unless it began within that time of a wrap of the clock, or of the boot.
WaitIsLongEnough ==
    [][pc # "idle" /\ pc' = "idle" => ready \/ waited >= Delms \/ now < Delms]_conversionVars

\* The comment on setWaitForConversion: with the flag set, requestTemperatures
\* "returns when conversion is ready", that is, done or given its full time.
ReturnsWhenReady ==
    [][pc # "idle" /\ pc' = "idle" => ready \/ waited >= Delms]_conversionVars
=============================================================================
