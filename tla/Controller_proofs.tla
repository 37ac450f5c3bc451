-------------------------- MODULE Controller_proofs -------------------------
(***************************************************************************)
(* Proofs about Controller for every threshold, every hush time and every  *)
(* set of readings.  The inductive invariant IInv says what the position   *)
(* in the sampling round implies about the heater of the carbon monoxide   *)
(* sensor and about a danger not yet reported.                             *)
(***************************************************************************)
EXTENDS Controller, TLAPS

\* The initial state satisfies the inductive invariant.
LEMMA InitInvariant == Init => IInv
<1> SUFFICES ASSUME Init PROVE IInv
  OBVIOUS
<1>1. TypeOK
  <2>1. /\ readingsSaved \in 0..MAXREADINGS
        /\ smoke \in SmokeReadings
        /\ carbon \in CarbonReadings /\ carbonFrom \in Origin
        /\ hushLeft \in Past..HUSHTIME
        /\ dangerRun \in 0..Period
    BY HushTimeAssumption, ReadingAssumption
       DEF Init, MAXREADINGS, Period, Past, Origin
  <2>2. averageReadings \in [Channel -> {"number", "not a number"}]
    BY DEF Init
  <2>3. /\ warmedOne \in BOOLEAN /\ warmedTwo \in BOOLEAN
        /\ sirenActivated \in BOOLEAN /\ lightsActivated \in BOOLEAN
        /\ hushing \in BOOLEAN
    BY DEF Init
  <2>. QED  BY <2>1, <2>2, <2>3 DEF TypeOK
<1>2. HeaterSchedule
  BY DEF Init, HeaterSchedule, MAXREADINGS
<1>3. HushIsSilent
  BY DEF Init, HushIsSilent
<1>4. DangerIsRecent
  BY DEF Init, DangerIsRecent
<1>. QED  BY <1>1, <1>2, <1>3, <1>4 DEF IInv

\* The counter stays within the round: it advances by one, or wraps.
LEMMA NextReadingRange ==
    ASSUME readingsSaved \in 0..MAXREADINGS
    PROVE  /\ NextReading \in 0..MAXREADINGS
           /\ readingsSaved < MAXREADINGS => NextReading = readingsSaved + 1
           /\ readingsSaved = MAXREADINGS => NextReading = 0
BY DEF NextReading, MAXREADINGS

\* What each branch of getSensorData presupposes: the CO sensor is read at 0
\* and 41, and warmed up at 40 and before that at 20 (and again at 60).
LEMMA Schedule ==
    ASSUME readingsSaved \in 0..MAXREADINGS
    PROVE  /\ Due(MAXREADINGS - 20) <=> readingsSaved \in {0, 41}
           /\ Due((2 * MAXREADINGS) \div 3) <=> readingsSaved \in {0, 40}
           /\ Due(MAXREADINGS \div 3) <=> readingsSaved \in {0, 20, 40, 60}
BY DEF Due, MAXREADINGS

\* A position in the round has a non-negative distance to an interpretation.
LEMMA RoundNonNegative == \A n \in 0..MAXREADINGS : n % 60 >= 0
BY DEF MAXREADINGS

\* Data is interpreted on the runs that leave the counter at 60 and at 0.
LEMMA InterpretingAt ==
    ASSUME readingsSaved \in 0..MAXREADINGS
    PROVE  Interpreting <=> readingsSaved \in {59, 61}
BY DEF Interpreting, NextReading, MAXREADINGS

-----------------------------------------------------------------------------
(* loop preserves the invariant, one lemma for each part *)

\* Every run leaves the sensor state well typed, whichever branch it takes.
LEMMA LoopSensorTypes ==
    ASSUME TypeOK, loop
    PROVE  /\ warmedOne' \in BOOLEAN /\ warmedTwo' \in BOOLEAN
           /\ carbon' \in CarbonReadings /\ carbonFrom' \in Origin
<1>1. \/ SampleWarm \/ FallOffEnd \/ warmUpTwo \/ warmUpOne
      \/ UNCHANGED <<warmedOne, warmedTwo, carbon, carbonFrom>>
  BY DEF loop, getSensorData, getReading
<1>2. CASE SampleWarm
  BY <1>2 DEF SampleWarm, Origin
<1>3. CASE FallOffEnd
  BY <1>3 DEF FallOffEnd, Origin, TypeOK
<1>4. CASE warmUpTwo
  BY <1>4 DEF warmUpTwo, TypeOK
<1>5. CASE warmUpOne
  BY <1>5 DEF warmUpOne, TypeOK
<1>6. CASE UNCHANGED <<warmedOne, warmedTwo, carbon, carbonFrom>>
  BY <1>6 DEF TypeOK
<1>. QED  BY <1>1, <1>2, <1>3, <1>4, <1>5, <1>6

\* The heater stays in step with the round: the branch of getSensorData that
\* runs is the one the position in the round selects.
LEMMA LoopHeater ==
    ASSUME TypeOK, HeaterSchedule, loop
    PROVE  /\ HeaterSchedule'
           /\ Interpreting => carbonFrom' = "warm"
<1>1. readingsSaved \in 0..MAXREADINGS /\ readingsSaved' = NextReading
  BY DEF TypeOK, loop, logData
<1>2. /\ readingsSaved < MAXREADINGS => readingsSaved' = readingsSaved + 1
      /\ readingsSaved = MAXREADINGS => readingsSaved' = 0
  BY <1>1, NextReadingRange
<1>3. Interpreting <=> readingsSaved \in {59, 61}
  BY <1>1, InterpretingAt
<1>4. CASE readingsSaved \in {0, 41}
  <2>1. getReading
    BY <1>1, <1>4, Schedule DEF loop, getSensorData
  <2>2. CASE SampleWarm
    <3>1. carbonFrom' = "warm"
      BY <2>2 DEF SampleWarm
    <3>2. readingsSaved' \in {1, 42}
      BY <1>2, <1>4 DEF MAXREADINGS
    <3>. QED  BY <3>1, <3>2 DEF HeaterSchedule, MAXREADINGS
  <2>3. CASE FallOffEnd
    <3>1. readingsSaved = 0
      BY <1>4, <2>3 DEF FallOffEnd, HeaterSchedule
    <3>2. readingsSaved' = 1 /\ ~Interpreting
      BY <1>2, <1>3, <3>1 DEF MAXREADINGS
    <3>. QED  BY <3>2 DEF HeaterSchedule, MAXREADINGS
  <2>. QED  BY <2>1, <2>2, <2>3 DEF getReading
<1>5. CASE readingsSaved = 40
  <2>1. warmUpTwo
    BY <1>1, <1>5, Schedule DEF loop, getSensorData
  <2>2. warmedOne' /\ warmedTwo'
    BY <1>5, <2>1 DEF warmUpTwo, HeaterSchedule
  <2>3. readingsSaved' = 41 /\ ~Interpreting
    BY <1>2, <1>3, <1>5 DEF MAXREADINGS
  <2>. QED  BY <2>2, <2>3 DEF HeaterSchedule, MAXREADINGS
<1>6. CASE readingsSaved \in {20, 60}
  <2>1. warmUpOne
    BY <1>1, <1>6, Schedule DEF loop, getSensorData
  <2>2. warmedOne' /\ carbonFrom' = carbonFrom
    BY <2>1 DEF warmUpOne
  <2>3. /\ readingsSaved' = readingsSaved + 1
        /\ ~Interpreting
    BY <1>2, <1>3, <1>6 DEF MAXREADINGS
  <2>. QED  BY <1>6, <2>2, <2>3 DEF HeaterSchedule, MAXREADINGS
<1>7. CASE readingsSaved \notin {0, 20, 40, 41, 60}
  <2>1. UNCHANGED <<warmedOne, warmedTwo, carbon, carbonFrom>>
    BY <1>1, <1>7, Schedule DEF loop, getSensorData
  <2>2. readingsSaved \in {59, 61} => carbonFrom = "warm"
    BY DEF HeaterSchedule, MAXREADINGS
  <2>3. readingsSaved' \in 21..41 => readingsSaved \in 21..41
    BY <1>1, <1>2, <1>7 DEF MAXREADINGS
  <2>4. readingsSaved' # 41
    BY <1>1, <1>2, <1>7 DEF MAXREADINGS
  <2>5. readingsSaved' \in 42..MAXREADINGS => readingsSaved \in 42..MAXREADINGS
    BY <1>1, <1>2, <1>7 DEF MAXREADINGS
  <2>. QED  BY <1>3, <2>1, <2>2, <2>3, <2>4, <2>5 DEF HeaterSchedule
<1>. QED  BY <1>4, <1>5, <1>6, <1>7

\* A run that interprets smoke raises the siren, and every run between two
\* interpretations adds at most one to the danger run.
LEMMA LoopDanger ==
    ASSUME TypeOK, HushIsSilent, DangerIsRecent, loop
    PROVE  /\ DangerIsRecent'
           /\ dangerRun' \in 0..Period
<1>1. readingsSaved \in 0..MAXREADINGS /\ readingsSaved' = NextReading
  BY DEF TypeOK, loop, logData
<1>2. /\ readingsSaved < MAXREADINGS => readingsSaved' = readingsSaved + 1
      /\ readingsSaved = MAXREADINGS => readingsSaved' = 0
  BY <1>1, NextReadingRange
<1>3. Interpreting <=> readingsSaved \in {59, 61}
  BY <1>1, InterpretingAt
<1>4. dangerRun \in 0..Period /\ dangerRun' \in 0..Period
  <2>1. dangerRun \in 0..Period
    BY DEF TypeOK
  <2>2. \/ dangerRun' = 0 \/ dangerRun' = Period
        \/ dangerRun < Period /\ dangerRun' = dangerRun + 1
    BY DEF loop, CountDanger
  <2>. QED  BY <2>1, <2>2 DEF Period
<1>5. CASE ~hushing /\ smoke' > MAXSMOKE
  <2>1. dangerRun' <= dangerRun + 1
    BY <1>4, <1>5 DEF loop, CountDanger, Period
  <2>2. CASE Interpreting
    <3>1. sirenActivated'
      BY <1>5, <2>2 DEF loop, interpretData, Dangerous
    <3>. QED  BY <1>4, <3>1 DEF DangerIsRecent
  <2>3. CASE ~Interpreting
    <3>1. sirenActivated' = sirenActivated
      BY <2>3 DEF loop, interpretData
    <3>2. (readingsSaved % 60) + 1 = readingsSaved' % 60
      BY <1>1, <1>2, <1>3, <2>3 DEF MAXREADINGS
    <3>3. readingsSaved % 60 \in Int /\ readingsSaved' % 60 \in Int
      BY <1>1, <1>2 DEF MAXREADINGS
    <3>. QED  BY <1>4, <2>1, <3>1, <3>2, <3>3 DEF DangerIsRecent, Period
  <2>. QED  BY <2>2, <2>3
<1>6. CASE ~(~hushing /\ smoke' > MAXSMOKE)
  <2>1. dangerRun' = 0
    BY <1>6 DEF loop, CountDanger
  <2>2. readingsSaved' \in 0..MAXREADINGS
    BY <1>1, <1>2 DEF MAXREADINGS
  <2>3. readingsSaved' % 60 >= 0
    BY <2>2, RoundNonNegative
  <2>. QED  BY <1>4, <2>1, <2>3 DEF DangerIsRecent
<1>. QED  BY <1>5, <1>6

-----------------------------------------------------------------------------
(* Every step preserves the invariant *)

\* One run of Controller.loop preserves the invariant.
LEMMA LoopInvariant ==
    ASSUME IInv, loop
    PROVE  IInv'
<1>1. TypeOK /\ HeaterSchedule /\ HushIsSilent /\ DangerIsRecent
  BY DEF IInv
<1>2. TypeOK'
  <2>1. readingsSaved' \in 0..MAXREADINGS
    BY <1>1, NextReadingRange DEF TypeOK, loop, logData
  <2>2. smoke' \in SmokeReadings
    BY DEF loop, getSensorData
  <2>3. averageReadings' \in [Channel -> {"number", "not a number"}]
    <3>1. \A i \in Channel : NextAverage(i) \in {"number", "not a number"}
      BY DEF NextAverage, Quotient
    <3>. QED  BY <3>1 DEF loop, logData
  <2>4. sirenActivated' \in BOOLEAN /\ lightsActivated' \in BOOLEAN
    BY <1>1 DEF TypeOK, loop, interpretData
  <2>5. hushing' \in BOOLEAN /\ hushLeft' \in Past..HUSHTIME
    BY <1>1 DEF TypeOK, loop, updateHush
  <2>. QED  BY <1>1, <2>1, <2>2, <2>3, <2>4, <2>5, LoopSensorTypes, LoopDanger
            DEF TypeOK
<1>3. HushIsSilent'
  <2>1. hushing' => hushing
    BY DEF loop, updateHush
  <2>2. hushing => UNCHANGED sirenActivated
    BY DEF loop, interpretData
  <2>. QED  BY <1>1, <2>1, <2>2 DEF HushIsSilent
<1>. QED  BY <1>1, <1>2, <1>3, LoopHeater, LoopDanger DEF IInv

\* Every step of the specification preserves the invariant.
LEMMA NextInvariant == IInv /\ [Next]_vars => IInv'
<1> SUFFICES ASSUME IInv, [Next]_vars PROVE IInv'
  OBVIOUS
<1> USE DEF IInv
<1>1. CASE loop
  BY <1>1, LoopInvariant
<1>2. CASE toggleLights
  <2>1. TypeOK'
    BY <1>2 DEF toggleLights, TypeOK, sensorVars, hushVars
  <2>2. HeaterSchedule' /\ HushIsSilent' /\ DangerIsRecent'
    BY <1>2 DEF toggleLights, sensorVars, hushVars, HeaterSchedule,
                HushIsSilent, DangerIsRecent
  <2>. QED  BY <2>1, <2>2
<1>3. CASE toggleAlarm
  <2>1. TypeOK'
    <3>1. dangerRun' \in 0..Period
      BY <1>3 DEF toggleAlarm, Period
    <3>. QED  BY <1>3, <3>1 DEF toggleAlarm, TypeOK, sensorVars
  <2>2. HeaterSchedule' /\ HushIsSilent'
    BY <1>3 DEF toggleAlarm, sensorVars, HeaterSchedule, HushIsSilent
  <2>3. DangerIsRecent'
    <3>1. dangerRun' = 0
      BY <1>3 DEF toggleAlarm
    <3>2. readingsSaved' \in 0..MAXREADINGS
      BY <2>1 DEF TypeOK
    <3>3. readingsSaved' % 60 >= 0
      BY <3>2, RoundNonNegative
    <3>. QED  BY <3>1, <3>3 DEF DangerIsRecent
  <2>. QED  BY <2>1, <2>2, <2>3
<1>4. CASE hushAlarm
  <2>1. TypeOK'
    <3>1. dangerRun' \in 0..Period /\ hushLeft' \in Past..HUSHTIME
      BY <1>4, HushTimeAssumption DEF hushAlarm, Period, Past
    <3>. QED  BY <1>4, <3>1 DEF hushAlarm, TypeOK, sensorVars
  <2>2. HeaterSchedule' /\ HushIsSilent'
    BY <1>4 DEF hushAlarm, sensorVars, HeaterSchedule, HushIsSilent
  <2>3. DangerIsRecent'
    <3>1. dangerRun' = 0
      BY <1>4 DEF hushAlarm
    <3>2. readingsSaved' \in 0..MAXREADINGS
      BY <2>1 DEF TypeOK
    <3>3. readingsSaved' % 60 >= 0
      BY <3>2, RoundNonNegative
    <3>. QED  BY <3>1, <3>3 DEF DangerIsRecent
  <2>. QED  BY <2>1, <2>2, <2>3
<1>5. CASE Tick
  <2>1. TypeOK'
    <3>1. hushLeft \in Past..HUSHTIME
      BY DEF TypeOK
    <3>2. hushLeft # Past /\ hushLeft' = hushLeft - 1
      BY <1>5 DEF Tick
    <3>3. hushLeft' \in Past..HUSHTIME
      BY <3>1, <3>2, HushTimeAssumption DEF Past
    <3>. QED  BY <1>5, <3>3 DEF Tick, TypeOK, sensorVars
  <2>2. HeaterSchedule' /\ HushIsSilent' /\ DangerIsRecent'
    BY <1>5 DEF Tick, sensorVars, HeaterSchedule, HushIsSilent, DangerIsRecent
  <2>. QED  BY <2>1, <2>2
<1>6. CASE UNCHANGED vars
  BY <1>6 DEF vars, sensorVars, hushVars, TypeOK, HeaterSchedule, HushIsSilent,
              DangerIsRecent
<1>. QED  BY <1>1, <1>2, <1>3, <1>4, <1>5, <1>6 DEF Next

-----------------------------------------------------------------------------
(* The theorems *)

\* Every reachable state satisfies the inductive invariant, whatever the
\* thresholds, the hush time and the sensors' readings.
THEOREM Invariant == Spec => []IInv
<1>. QED  BY InitInvariant, NextInvariant, PTL DEF Spec

\* Type correctness.
THEOREM TypeCorrect == Spec => []TypeOK
<1>1. IInv => TypeOK
  BY DEF IInv
<1>. QED  BY Invariant, <1>1, PTL

\* The siren is off whenever a hush is in force.
THEOREM HushSilence == Spec => []HushIsSilent
<1>1. IInv => HushIsSilent
  BY DEF IInv
<1>. QED  BY Invariant, <1>1, PTL

\* Smoke that lasts 60 runs, not hushed and not commanded away, is reported:
\* an interpretation falls into every window of 60 runs of the round.
THEOREM SmokeDetection == Spec => []SmokeDetectedInTime
<1>1. IInv => SmokeDetectedInTime
  <2> SUFFICES ASSUME IInv, dangerRun = Period, ~sirenActivated PROVE FALSE
    BY DEF SmokeDetectedInTime
  <2>1. readingsSaved \in 0..MAXREADINGS /\ Period <= readingsSaved % 60
    BY DEF IInv, TypeOK, DangerIsRecent
  <2>. QED  BY <2>1 DEF MAXREADINGS, Period
<1>. QED  BY Invariant, <1>1, PTL

\* interpretData never looks at an undefined carbon monoxide reading.
THEOREM WarmInterpretation == Spec => InterpretsWarmSample
<1>1. IInv /\ [Next]_vars => [loop /\ Interpreting => carbonFrom' = "warm"]_vars
  BY LoopHeater DEF IInv
<1>. QED  BY Invariant, <1>1, PTL DEF Spec, InterpretsWarmSample

\* The controller implements the promise of AlarmSpec.
THEOREM Refinement == Spec => ImplementsAlarm
<1>1. Init => Alarm!Init
  BY ThresholdAssumption DEF Init, Alarm!Init, Evidence
<1>2. IInv /\ [Next]_vars => [Alarm!Next]_(Alarm!alarmVars)
  <2> SUFFICES ASSUME IInv, [Next]_vars
               PROVE  Alarm!Next \/ UNCHANGED Alarm!alarmVars
    OBVIOUS
  <2>1. CASE loop
    <3>1. Evidence' \in BOOLEAN
      BY DEF Evidence
    <3>2. \/ UNCHANGED <<sirenActivated, lightsActivated>>
          \/ /\ Evidence' /\ ~hushing
             /\ sirenActivated' = TRUE /\ lightsActivated' = TRUE
      <4>1. Interpreting => carbonFrom' = "warm"
        BY <2>1, LoopHeater DEF IInv
      <4>. QED  BY <2>1, <4>1 DEF loop, interpretData, Dangerous, Evidence
    <3>3. hushing' = (hushing /\ hushLeft # Past) /\ UNCHANGED hushLeft
      BY <2>1 DEF loop, updateHush
    <3>. QED  BY <3>1, <3>2, <3>3 DEF Alarm!Next, Alarm!Watch, Past, Alarm!Past
  <2>2. CASE toggleLights
    BY <2>2 DEF toggleLights, sensorVars, hushVars, Alarm!Next,
                Alarm!ToggleLight, Evidence
  <2>3. CASE toggleAlarm
    BY <2>3 DEF toggleAlarm, sensorVars, Alarm!Next, Alarm!ToggleSiren, Evidence
  <2>4. CASE hushAlarm
    BY <2>4 DEF hushAlarm, sensorVars, Alarm!Next, Alarm!Hush, Evidence
  <2>5. CASE Tick
    BY <2>5 DEF Tick, sensorVars, Alarm!Next, Alarm!Second, Evidence, Past,
                Alarm!Past
  <2>6. CASE UNCHANGED vars
    BY <2>6 DEF vars, sensorVars, hushVars, Alarm!alarmVars, Evidence
  <2>. QED  BY <2>1, <2>2, <2>3, <2>4, <2>5, <2>6 DEF Next
<1>. QED  BY Invariant, <1>1, <1>2, PTL DEF Spec, ImplementsAlarm, Alarm!Spec
=============================================================================
