----------------------------- MODULE Controller -----------------------------
(***************************************************************************)
(* The detector proper: class Controller of src/Main/Main.ino with the     *)
(* sensors it polls and the actuators it drives.                           *)
(*                                                                         *)
(* Controller.loop runs once per scheduler slot.  It samples the sensors   *)
(* on a schedule kept by the counter readingsSaved, updates running        *)
(* averages, interprets the readings on some of its runs and ends a hush   *)
(* that has expired.  Between runs the web server may call toggleLights,   *)
(* toggleAlarm and hushAlarm.  Both sides run on one thread, so each call  *)
(* is one action.  The only value of the clock that a call uses is the one *)
(* it reads last, so a second that passes inside a call is a Tick before   *)
(* it.                                                                     *)
(***************************************************************************)
EXTENDS Integers

CONSTANTS
    MAXSMOKE,          \* smoke above this is a fire
    MAXCARBON,         \* carbon monoxide at or above this is dangerous
    HUSHTIME,          \* seconds for which a hush silences the detector
    SmokeReadings,     \* what analogRead can return for the smoke sensor
    CarbonReadings     \* ... and for the carbon monoxide sensor

ASSUME ThresholdAssumption == MAXSMOKE \in Nat /\ MAXCARBON \in Nat
ASSUME HushTimeAssumption  == HUSHTIME \in Nat
ASSUME ReadingAssumption   ==
    /\ SmokeReadings \subseteq Int
    /\ CarbonReadings \subseteq Int
    /\ 0 \in SmokeReadings /\ 0 \in CarbonReadings  \* the initial readings

VARIABLES
    readingsSaved,     \* position in the sampling schedule
    warmedOne,         \* CarbonDetector: heater was driven fully on
    warmedTwo,         \* CarbonDetector: heater was driven at the low level
    smoke,             \* currentReadings[0]
    carbon,            \* currentReadings[1]
    carbonFrom,        \* where carbon came from (see Origin)
    averageReadings,   \* per channel: does the average still hold a number?
    sirenActivated,
    lightsActivated,
    hushing,
    hushLeft,          \* hushEnd - now(); Past once hushEnd is in the past
    dangerRun          \* history: successive runs that could have alarmed

sensorVars  == <<readingsSaved, warmedOne, warmedTwo, smoke, carbon,
                 carbonFrom, averageReadings>>
hushVars    == <<hushing, hushLeft>>
vars        == <<sensorVars, sirenActivated, lightsActivated, hushVars,
                 dangerRun>>

\* Mutant: a round one shorter, so that the CO read shadows the second warm-up.
MutMaxReadings == 60

MAXREADINGS == 61

\* The runs between two consecutive interpretations never exceed this many.
Period == 60

Past == -1

Channel == 0..2        \* smoke, carbon monoxide, temperature

\* "initial": stored by the constructor; "warm": sampled after both warm-up
\* steps; "undefined": getReading ran off its end without a return statement,
\* so the caller stored whatever the return register held.
Origin == {"initial", "warm", "undefined"}

TypeOK ==
    /\ readingsSaved \in 0..MAXREADINGS
    /\ warmedOne \in BOOLEAN /\ warmedTwo \in BOOLEAN
    /\ smoke \in SmokeReadings
    /\ carbon \in CarbonReadings /\ carbonFrom \in Origin
    /\ averageReadings \in [Channel -> {"number", "not a number"}]
    /\ sirenActivated \in BOOLEAN /\ lightsActivated \in BOOLEAN
    /\ hushing \in BOOLEAN
    /\ hushLeft \in Past..HUSHTIME
    /\ dangerRun \in 0..Period

\* The global object c after setup(): zeroed storage, the constructor's
\* hushEnd = now(), and setup's deactivateLights and deactivateAlarm.
Init ==
    /\ readingsSaved = 0
    /\ warmedOne = FALSE /\ warmedTwo = FALSE
    /\ smoke = 0
    /\ carbon = 0 /\ carbonFrom = "initial"
    /\ averageReadings = [i \in Channel |-> "number"]
    /\ sirenActivated = FALSE /\ lightsActivated = FALSE
    /\ hushing = FALSE
    /\ hushLeft = 0
    /\ dangerRun = 0

-----------------------------------------------------------------------------
(* CarbonDetector *)

warmUpOne == warmedOne' = TRUE /\ UNCHANGED <<warmedTwo, carbon, carbonFrom>>

\* Mutant: the second warm-up step takes the first one back.
MutWarmUpTwo ==
    warmedTwo' = TRUE /\ warmedOne' = FALSE /\ UNCHANGED <<carbon, carbonFrom>>

warmUpTwo == warmedTwo' = TRUE /\ UNCHANGED <<warmedOne, carbon, carbonFrom>>

\* A sample after both warm-up steps; it uses the warm-up up.
SampleWarm ==
    /\ warmedOne /\ warmedTwo
    /\ carbon' \in CarbonReadings /\ carbonFrom' = "warm"
    /\ warmedOne' = FALSE /\ warmedTwo' = FALSE

\* Otherwise the function has no return statement to reach: any value.
FallOffEnd ==
    /\ ~(warmedOne /\ warmedTwo)
    /\ carbon' \in CarbonReadings /\ carbonFrom' = "undefined"
    /\ UNCHANGED <<warmedOne, warmedTwo>>

getReading == SampleWarm \/ FallOffEnd

-----------------------------------------------------------------------------
(* Controller.loop, in the order of its calls *)

Due(n) == readingsSaved % n = 0

getSensorData ==
    /\ smoke' \in SmokeReadings
    /\ \/ /\ Due(MAXREADINGS - 20)
          /\ getReading
       \/ /\ ~Due(MAXREADINGS - 20) /\ Due((2 * MAXREADINGS) \div 3)
          /\ warmUpTwo
       \/ /\ ~Due(MAXREADINGS - 20) /\ ~Due((2 * MAXREADINGS) \div 3)
          /\ Due(MAXREADINGS \div 3)
          /\ warmUpOne
       \/ /\ ~Due(MAXREADINGS - 20) /\ ~Due((2 * MAXREADINGS) \div 3)
          /\ ~Due(MAXREADINGS \div 3)
          /\ UNCHANGED <<warmedOne, warmedTwo, carbon, carbonFrom>>

\* Mutant: the wrap is tested before the increment.
MutNextReading == IF readingsSaved > MAXREADINGS THEN 0 ELSE readingsSaved + 1

NextReading == IF readingsSaved + 1 > MAXREADINGS THEN 0 ELSE readingsSaved + 1

\* A float quotient: a number unless the dividend is none or the divisor is 0.
Quotient(x, d) == IF x = "number" /\ d # 0 THEN "number" ELSE "not a number"

\* The carbon monoxide channel is first divided by readingsSaved / 1500, an
\* integer division, and then like the others by readingsSaved.
NextAverage(i) ==
    LET start   == IF NextReading = 0 THEN "number" ELSE averageReadings[i]
        special == IF i = 1 THEN Quotient(start, NextReading \div 1500)
                            ELSE start
    IN  Quotient(special, NextReading)

logData ==
    /\ readingsSaved' = NextReading
    /\ averageReadings' = [i \in Channel |-> NextAverage(i)]

\* Mutant: interpret once per MAXREADINGS runs.
MutInterpreting == NextReading % MAXREADINGS = 0

\* interpretData is called on the runs whose counter, once incremented, is 0
\* or 60.
Interpreting == NextReading % 60 = 0

\* Mutant: the carbon monoxide threshold is exclusive, like that of smoke.
MutDangerous(s, co) == s > MAXSMOKE \/ co > MAXCARBON

Dangerous(s, co) == s > MAXSMOKE \/ co >= MAXCARBON

interpretData ==
    IF Interpreting /\ ~hushing /\ Dangerous(smoke', carbon')
    THEN sirenActivated' = TRUE /\ lightsActivated' = TRUE
    ELSE UNCHANGED <<sirenActivated, lightsActivated>>

\* Mutant: the hush is over as soon as its end is reached.
MutUpdateHushEarly ==
    /\ hushing' = (hushing /\ hushLeft > 0)
    /\ UNCHANGED hushLeft

\* Mutant: loop forgets to end the hush.
MutUpdateHushNever == UNCHANGED <<hushing, hushLeft>>

\* The last statement of loop: a hush whose end is in the past is over.
updateHush ==
    /\ hushing' = (hushing /\ hushLeft # Past)
    /\ UNCHANGED hushLeft

CountDanger ==
    dangerRun' = IF ~hushing /\ smoke' > MAXSMOKE
                 THEN IF dangerRun < Period THEN dangerRun + 1 ELSE Period
                 ELSE 0

loop ==
    /\ getSensorData
    /\ logData
    /\ interpretData
    /\ updateHush
    /\ CountDanger

-----------------------------------------------------------------------------
(* The calls of the web server, and time *)

toggleLights ==
    /\ lightsActivated' = ~lightsActivated
    /\ UNCHANGED <<sensorVars, sirenActivated, hushVars, dangerRun>>

\* Mutant: the override of the hush is commented out, as in toggleLights.
MutToggleAlarm ==
    /\ sirenActivated' = ~sirenActivated
    /\ dangerRun' = 0
    /\ UNCHANGED <<sensorVars, lightsActivated, hushing, hushLeft>>

toggleAlarm ==
    /\ hushing' = FALSE
    /\ sirenActivated' = ~sirenActivated
    /\ dangerRun' = 0
    /\ UNCHANGED <<sensorVars, lightsActivated, hushLeft>>

hushAlarm ==
    /\ hushing' = TRUE
    /\ hushLeft' = HUSHTIME
    /\ sirenActivated' = FALSE /\ lightsActivated' = FALSE
    /\ dangerRun' = 0
    /\ UNCHANGED sensorVars

\* One second passes.
Tick ==
    /\ hushLeft # Past
    /\ hushLeft' = hushLeft - 1
    /\ UNCHANGED <<sensorVars, sirenActivated, lightsActivated, hushing,
                   dangerRun>>

Next == loop \/ toggleLights \/ toggleAlarm \/ hushAlarm \/ Tick

Spec == Init /\ [][Next]_vars

\* The scheduler calls loop again and again as long as no client blocks the
\* web server (see MainLoop), and seconds pass.
FairSpec == Spec /\ WF_vars(loop) /\ WF_vars(Tick)

-----------------------------------------------------------------------------
(* Properties *)

\* No decision rests on an undefined value: whenever interpretData runs, the
\* carbon monoxide reading it looks at is a sample taken after both warm-up
\* steps, although getReading does store an undefined value once per round.
InterpretsWarmSample ==
    [][loop /\ Interpreting => carbonFrom' = "warm"]_vars

\* A hush is silent: as long as the flag is set the siren is off, whatever
\* sequence of loops, toggles and ticks came after hushAlarm.
HushIsSilent == hushing => ~sirenActivated

\* Bounded response: 60 successive runs with smoke above the threshold, none
\* of them hushed or followed by a toggleAlarm or hushAlarm, leave the siren
\* on, at whatever position of the schedule the smoke began.
SmokeDetectedInTime == dangerRun = Period => sirenActivated

\* A hush ends: unless hushAlarm is called again and again, the flag does not
\* stay set.
HushEnds == <>[][~hushAlarm]_vars => []<>~hushing

\* Lasting carbon monoxide is reported: when from some time on every proper
\* sample is at the threshold or above and the user leaves the alarm alone,
\* the siren is eventually on for good, undefined readings notwithstanding.
CarbonDetected ==
    /\ <>[](carbonFrom = "warm" => carbon >= MAXCARBON)
    /\ <>[][~hushAlarm /\ ~toggleAlarm]_vars
    => <>[]sirenActivated

-----------------------------------------------------------------------------
(* Refinement *)

\* Sound evidence: smoke over its threshold in the last sample, or a properly
\* taken carbon monoxide sample at its threshold.
Evidence == smoke > MAXSMOKE \/ (carbonFrom = "warm" /\ carbon >= MAXCARBON)

Alarm == INSTANCE AlarmSpec
             WITH danger <- Evidence, siren <- sirenActivated,
                  light <- lightsActivated, quiet <- hushing,
                  remaining <- hushLeft

\* The controller keeps the promises of AlarmSpec: it raises the alarm on
\* sound evidence only, never during a hush, never takes it back by itself,
\* and never ends a hush early.
ImplementsAlarm == Alarm!Spec

-----------------------------------------------------------------------------
(* The inductive invariant the proofs of Controller_proofs rest on *)

\* Where the round stands decides what the heater has done: the first warm-up
\* step precedes the second, both precede the sample, and from the sample to
\* the end of the round the stored reading is that sample.
HeaterSchedule ==
    /\ readingsSaved \in 21..41 => warmedOne
    /\ readingsSaved = 41 => warmedTwo
    /\ readingsSaved \in 42..MAXREADINGS => carbonFrom = "warm"

\* A danger that has not raised the siren began after the last interpretation.
DangerIsRecent == ~sirenActivated => dangerRun <= readingsSaved % 60

IInv == TypeOK /\ HeaterSchedule /\ HushIsSilent /\ DangerIsRecent

-----------------------------------------------------------------------------
(* What a comment promises and the code does not do *)

\* The comment on logData says the averages incorporate the new readings.
\* They stop being numbers when the divisor is 0: for carbon monoxide on the
\* first run, for the others when the counter wraps.
AveragesAreNumbers == \A i \in Channel : averageReadings[i] = "number"
=============================================================================
