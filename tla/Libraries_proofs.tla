--------------------------- MODULE Libraries_proofs ---------------------------
(***************************************************************************)
(* Proofs about the libraries that the run of MCLibraries exercises, for   *)
(* every value of their constants.                                         *)
(*                                                                         *)
(* SystemClock and TemperatureConversion count on the wrapping clock: both *)
(* invariants say where the unsigned clock stands relative to a time that  *)
(* the program remembers, which the wrap hides, in terms of a true time.   *)
(*                                                                         *)
(* OneWireSearch walks down a tree: the invariant Searching says, bit by   *)
(* bit, which devices it has passed on its left, which it will pass on its *)
(* right, and which are below it.                                          *)
(*                                                                         *)
(* ThreadController goes through an array that changes under it: what run  *)
(* owes is ahead of it, and it does not stop before it has got there.      *)
(***************************************************************************)
EXTENDS SystemClock, TemperatureConversion, OneWireSearch, ThreadController,
        FiniteSetTheorems, TLAPS

-----------------------------------------------------------------------------
(***************************************************************************)
(* SystemClock and TemperatureConversion                                   *)
(***************************************************************************)

-----------------------------------------------------------------------------
(* Unsigned arithmetic *)

\* A remainder is an instant.
LEMMA RemainderInRange == \A a \in Int : a % Modulus \in Instants
BY MillisAssumption DEF Instants

\* What % does within one modulus of its range: on it, above it, below it.
LEMMA WrapNone == \A a \in Instants : a % Modulus = a
BY MillisAssumption DEF Instants

LEMMA WrapAbove == \A a \in Modulus .. 2 * Modulus - 1 : a % Modulus = a - Modulus
BY MillisAssumption

LEMMA WrapBelow == \A a \in -Modulus .. -1 : a % Modulus = a + Modulus
BY MillisAssumption

\* A unit of time moves the clock by one, or wraps it.
LEMMA AdvanceByOne ==
    ASSUME millis \in Instants, Advance
    PROVE  /\ millis' \in Instants
           /\ millis' = IF millis = Modulus - 1 THEN 0 ELSE millis + 1
<1>1. CASE millis = Modulus - 1
  BY <1>1, WrapAbove, MillisAssumption DEF Advance, Instants
<1>2. CASE millis # Modulus - 1
  BY <1>2, WrapNone, MillisAssumption DEF Advance, Instants
<1>. QED  BY <1>1, <1>2, MillisAssumption DEF Instants

\* An unsigned difference of two instants.
LEMMA UnsignedDifference ==
    \A a, b \in Instants : (a - b) % Modulus = IF a >= b THEN a - b ELSE a - b + Modulus
<1> SUFFICES ASSUME NEW a \in Instants, NEW b \in Instants
             PROVE  (a - b) % Modulus = IF a >= b THEN a - b ELSE a - b + Modulus
  OBVIOUS
<1>1. CASE a >= b
  BY <1>1, WrapNone, MillisAssumption DEF Instants
<1>2. CASE ~(a >= b)
  BY <1>2, WrapBelow, MillisAssumption DEF Instants
<1>. QED  BY <1>1, <1>2

-----------------------------------------------------------------------------
(* SystemClock *)

\* The seconds counted and what is left since prevMillis make up the true
\* time, and what is left fits below the wrap.
Accounted ==
    /\ elapsed = sysTime * Second + Uncounted
    /\ Uncounted <= Second - 1 + gap

ClockInvariant == ClockTypeOK /\ Accounted

LEMMA ClockInitInvariant == ClockInit => ClockInvariant
<1> SUFFICES ASSUME ClockInit PROVE ClockInvariant
  OBVIOUS
<1>1. Uncounted = 0
  BY UnsignedDifference, MillisAssumption DEF ClockInit, Uncounted, Since, Instants
<1>2. 0 \in 0..MaxElapsed /\ 0 \in Instants /\ 0 \in 0..MaxGap
  BY MillisAssumption, ClockAssumption DEF Instants
<1>3. 0 * Second = 0 /\ 0 <= Second - 1
  BY MillisAssumption, ClockAssumption
<1>4. ClockTypeOK
  BY <1>2 DEF ClockInit, ClockTypeOK
<1>5. Accounted
  BY <1>1, <1>3, ClockAssumption DEF ClockInit, Accounted
<1>. QED  BY <1>4, <1>5 DEF ClockInvariant

\* A unit of time is left to count, and does not reach the wrap.
LEMMA ClockPassInvariant == ASSUME ClockInvariant, ClockPass PROVE ClockInvariant'
<1>1. ClockTypeOK'
  <2>1. millis' \in Instants
    BY AdvanceByOne DEF ClockInvariant, ClockTypeOK, ClockPass
  <2>2. gap' \in 0..MaxGap /\ elapsed' \in 0..MaxElapsed
    BY ClockAssumption, MillisAssumption DEF ClockInvariant, ClockTypeOK, ClockPass
  <2>. QED  BY <2>1, <2>2 DEF ClockInvariant, ClockTypeOK, ClockPass
<1>2. Uncounted \in Nat
  BY RemainderInRange, MillisAssumption
     DEF Uncounted, Since, ClockInvariant, ClockTypeOK, Instants
<1>3. Uncounted' = Uncounted + 1
  <2>1. millis \in Instants /\ prevMillis \in Instants /\ prevMillis' = prevMillis
    BY DEF ClockInvariant, ClockTypeOK, ClockPass
  <2>2. Uncounted < Modulus - 1
    <3>1. Uncounted <= Second - 1 + gap /\ gap < MaxGap /\ gap \in Nat
      BY ClockAssumption, MillisAssumption
         DEF ClockInvariant, ClockTypeOK, Accounted, ClockPass
    <3>. QED  BY <1>2, <3>1, MillisAssumption, ClockAssumption
  <2>3. millis' \in Instants /\ millis' = IF millis = Modulus - 1 THEN 0 ELSE millis + 1
    BY <2>1, AdvanceByOne DEF ClockPass
  <2>4. Uncounted = IF millis >= prevMillis THEN millis - prevMillis
                    ELSE millis - prevMillis + Modulus
    BY <2>1, UnsignedDifference DEF Uncounted, Since
  <2>5. Uncounted' = IF millis' >= prevMillis THEN millis' - prevMillis
                     ELSE millis' - prevMillis + Modulus
    BY <2>1, <2>3, UnsignedDifference DEF Uncounted, Since
  <2>. QED  BY <2>1, <2>2, <2>3, <2>4, <2>5, MillisAssumption DEF Instants
<1>4. Accounted'
  BY <1>2, <1>3, ClockAssumption DEF ClockInvariant, ClockTypeOK, Accounted, ClockPass
<1>. QED  BY <1>1, <1>4 DEF ClockInvariant

\* A second counted moves from what is left to what is counted.
LEMMA CountSecondInvariant == ASSUME ClockInvariant, CountSecond PROVE ClockInvariant'
<1>1. millis \in Instants /\ prevMillis \in Instants /\ millis' = millis
  BY DEF ClockInvariant, ClockTypeOK, CountSecond
<1>2. prevMillis' \in Instants
      /\ prevMillis' = IF prevMillis + Second < Modulus THEN prevMillis + Second
                       ELSE prevMillis + Second - Modulus
  <2>1. CASE prevMillis + Second < Modulus
    BY <1>1, <2>1, WrapNone, ClockAssumption, MillisAssumption DEF CountSecond, Instants
  <2>2. CASE ~(prevMillis + Second < Modulus)
    BY <1>1, <2>2, WrapAbove, ClockAssumption, MillisAssumption DEF CountSecond, Instants
  <2>. QED  BY <2>1, <2>2
<1>3. Uncounted' = Uncounted - Second
  <2>1. Uncounted = IF millis >= prevMillis THEN millis - prevMillis
                    ELSE millis - prevMillis + Modulus
    BY <1>1, UnsignedDifference DEF Uncounted, Since
  <2>2. Uncounted' = IF millis >= prevMillis' THEN millis - prevMillis'
                     ELSE millis - prevMillis' + Modulus
    BY <1>1, <1>2, UnsignedDifference DEF Uncounted, Since
  <2>3. Uncounted >= Second
    BY DEF CountSecond
  <2>. QED
    BY <1>1, <1>2, <2>1, <2>2, <2>3, ClockAssumption, MillisAssumption DEF Instants
<1>4. Uncounted \in Nat
  BY <1>1, RemainderInRange, MillisAssumption DEF Uncounted, Since, Instants
<1>5. Accounted'
  <2>1. (sysTime + 1) * Second = sysTime * Second + Second
    BY ClockAssumption DEF ClockInvariant, ClockTypeOK
  <2>. QED
    BY <1>3, <1>4, <2>1, ClockAssumption
       DEF ClockInvariant, ClockTypeOK, Accounted, CountSecond
<1>. QED  BY <1>1, <1>2, <1>5 DEF ClockInvariant, ClockTypeOK, CountSecond

\* The invariant of the system clock.
THEOREM ClockInvariantHolds == ClockSpec => []ClockInvariant
<1>1. ClockInvariant /\ [ClockNext]_clockVars => ClockInvariant'
  <2> SUFFICES ASSUME ClockInvariant, [ClockNext]_clockVars PROVE ClockInvariant'
    OBVIOUS
  <2>1. CASE ClockPass
    BY <2>1, ClockPassInvariant
  <2>2. CASE CallNow
    BY <2>2 DEF ClockInvariant, ClockTypeOK, Accounted, CallNow, Uncounted, Since
  <2>3. CASE CountSecond
    BY <2>3, CountSecondInvariant
  <2>4. CASE ReturnNow
    <3>1. Uncounted' = Uncounted
      BY <2>4 DEF ReturnNow, Uncounted, Since
    <3>2. Accounted'
      <4>1. Uncounted < Second /\ gap' = 0 /\ UNCHANGED <<elapsed, sysTime>>
        BY <2>4 DEF ReturnNow
      <4>2. Uncounted \in Nat
        BY RemainderInRange, MillisAssumption
           DEF Uncounted, Since, ClockInvariant, ClockTypeOK, Instants
      <4>3. elapsed' = sysTime' * Second + Uncounted'
        BY <3>1, <4>1 DEF ClockInvariant, Accounted
      <4>4. Uncounted' <= Second - 1 + gap'
        BY <3>1, <4>1, <4>2, ClockAssumption, MillisAssumption
      <4>. QED  BY <4>3, <4>4 DEF Accounted
    <3>3. ClockTypeOK'
      <4>1. 0 \in 0..MaxGap
        BY ClockAssumption, MillisAssumption
      <4>. QED  BY <2>4, <4>1 DEF ClockInvariant, ClockTypeOK, ReturnNow
    <3>. QED  BY <3>2, <3>3 DEF ClockInvariant
  <2>5. CASE UNCHANGED clockVars
    BY <2>5
       DEF ClockInvariant, ClockTypeOK, Accounted, clockVars, clockLocals, Uncounted,
           Since
  <2>. QED  BY <2>1, <2>2, <2>3, <2>4, <2>5 DEF ClockNext
<1>. QED  BY ClockInitInvariant, <1>1, PTL DEF ClockSpec

\* The variables of the clock keep their types: prevMillis stays an unsigned
\* number of the clock's width.
THEOREM ClockTypeCorrect == ClockSpec => []ClockTypeOK
<1>1. ClockInvariant => ClockTypeOK  BY DEF ClockInvariant
<1>. QED  BY ClockInvariantHolds, <1>1, PTL

\* now() returns the whole seconds since boot, whatever the modulus and the
\* length of a second, if calls are close enough for the rest of a second.
THEOREM ClockTellsTheTime == ClockSpec => TellsTheTime
<1>1. ClockInvariant /\ [ClockNext]_clockVars
        => [ReturnNow => sysTime = elapsed \div Second]_clockVars
  <2> SUFFICES ASSUME ClockInvariant, ReturnNow
               PROVE  sysTime = elapsed \div Second
    OBVIOUS
  <2>1. /\ elapsed = sysTime * Second + Uncounted
        /\ sysTime \in Nat /\ elapsed \in Int /\ Second \in Nat \ {0}
    BY ClockAssumption DEF ClockInvariant, ClockTypeOK, Accounted
  <2>2. Uncounted \in 0 .. Second - 1
    <3>1. Uncounted \in Nat
      BY RemainderInRange, MillisAssumption
         DEF Uncounted, Since, ClockInvariant, ClockTypeOK, Instants
    <3>. QED  BY <2>1, <3>1 DEF ReturnNow
  <2>3. \A q \in Nat, r \in 0 .. Second - 1, e \in Int :
           e = q * Second + r => e \div Second = q
    BY <2>1
  <2>. QED  BY <2>1, <2>2, <2>3
<1>. QED  BY ClockInvariantHolds, <1>1, PTL DEF ClockSpec, TellsTheTime

-----------------------------------------------------------------------------
(* TemperatureConversion *)

\* The time millis() will show d units after t.
After(t, d) == IF t + d < Modulus THEN t + d ELSE t + d - Modulus

\* While the driver waits, the clock shows how long it has; and the last
\* comparison with the clock left time for one more unit.
Waiting ==
    pc # "idle" =>
        /\ millis = After(now, waited)
        /\ waited <= Delms
        /\ ~passed => waited < Delms

ConversionInvariant == ConversionTypeOK /\ Waiting

\* What the comparison tells: it is left at the latest when the full time has
\* passed, and at the earliest then, unless that reaches back beyond 0.
LEMMA StillWaitingMeans ==
    ASSUME ConversionInvariant, pc # "idle"
    PROVE  /\ StillWaiting => waited < Delms
           /\ ~StillWaiting => waited = Delms \/ now < Delms
<1>1. /\ millis \in Instants /\ now \in Instants /\ Delms \in Instants
      /\ waited \in 0 .. Delms /\ millis = After(now, waited)
  BY MillisAssumption, ConversionAssumption
     DEF ConversionInvariant, ConversionTypeOK, Waiting, Instants
<1>2. (millis - Delms) % Modulus = IF millis >= Delms THEN millis - Delms
                                   ELSE millis - Delms + Modulus
  BY <1>1, UnsignedDifference
<1>. QED
  BY <1>1, <1>2, MillisAssumption, ConversionAssumption
     DEF StillWaiting, After, Instants

LEMMA ConversionPassInvariant ==
    ASSUME ConversionInvariant, ConversionPass
    PROVE  ConversionInvariant'
<1>1. millis' \in Instants /\ millis' = IF millis = Modulus - 1 THEN 0 ELSE millis + 1
  BY AdvanceByOne DEF ConversionInvariant, ConversionTypeOK, ConversionPass
<1>2. CASE pc = "idle"
  <2>1. waited' = 0 /\ passed' \in BOOLEAN
    BY <1>2 DEF ConversionPass
  <2>2. 0 \in 0 .. Delms + 1
    BY ConversionAssumption, MillisAssumption
  <2>. QED
    BY <1>1, <1>2, <2>1, <2>2
       DEF ConversionInvariant, ConversionTypeOK, Waiting, ConversionPass
<1>3. CASE pc # "idle"
  <2>1. ~passed /\ passed' /\ UNCHANGED <<pc, now, ready>> /\ waited' = waited + 1
    BY <1>3 DEF ConversionPass
  <2>2. /\ waited \in Nat /\ waited < Delms /\ Delms \in 1 .. Modulus - 1
        /\ now \in Instants /\ millis = After(now, waited)
    BY <1>3, <2>1, ConversionAssumption, MillisAssumption
       DEF ConversionInvariant, ConversionTypeOK, Waiting
  <2>3. millis' = After(now, waited')
    BY <1>1, <2>1, <2>2, MillisAssumption DEF After, Instants
  <2>4. waited' <= Delms /\ waited' \in 0 .. Delms + 1
    BY <2>1, <2>2, MillisAssumption
  <2>5. Waiting'
    BY <2>1, <2>3, <2>4 DEF Waiting, After
  <2>6. passed' \in BOOLEAN
    BY <1>3 DEF ConversionPass
  <2>7. ConversionTypeOK'
    BY <1>1, <2>1, <2>4, <2>6 DEF ConversionInvariant, ConversionTypeOK
  <2>. QED  BY <2>5, <2>7 DEF ConversionInvariant
<1>. QED  BY <1>2, <1>3

\* The other steps leave the clock alone.
LEMMA DriverInvariant ==
    ASSUME ConversionInvariant,
           Finish \/ requestTemperatures \/ isConversionComplete
               \/ blockTillConversionComplete
    PROVE  ConversionInvariant'
<1>1. CASE Finish
  BY <1>1 DEF ConversionInvariant, ConversionTypeOK, Waiting, Finish, After
<1>2. CASE requestTemperatures
  <2>1. /\ millis \in Instants /\ millis' = millis /\ now' = millis
        /\ waited' = 0 /\ pc' = "bit" /\ ready' = FALSE /\ passed' = FALSE
    BY <1>2 DEF ConversionInvariant, ConversionTypeOK, requestTemperatures
  <2>2. 0 < Delms /\ 0 \in 0 .. Delms + 1 /\ millis = After(millis, 0)
    BY <2>1, ConversionAssumption, MillisAssumption DEF After, Instants
  <2>3. millis' = After(now', waited') /\ waited' <= Delms /\ waited' < Delms
    BY <2>1, <2>2, ConversionAssumption, MillisAssumption DEF After
  <2>. QED  BY <2>1, <2>2, <2>3 DEF ConversionInvariant, ConversionTypeOK, Waiting, After
<1>3. CASE isConversionComplete
  BY <1>3
     DEF ConversionInvariant, ConversionTypeOK, Waiting, isConversionComplete, Leave,
         After
<1>4. CASE blockTillConversionComplete
  <2>1. pc # "idle" /\ UNCHANGED <<millis, now, ready, waited>>
    BY <1>4 DEF blockTillConversionComplete
  <2>2. CASE StillWaiting
    <3>1. pc' = "bit" /\ passed' = FALSE /\ waited < Delms
      BY <1>4, <2>1, <2>2, StillWaitingMeans DEF blockTillConversionComplete
    <3>. QED
      BY <2>1, <3>1 DEF ConversionInvariant, ConversionTypeOK, Waiting, After
  <2>3. CASE ~StillWaiting
    BY <1>4, <2>1, <2>3
       DEF ConversionInvariant, ConversionTypeOK, Waiting, Leave,
           blockTillConversionComplete
  <2>. QED  BY <2>2, <2>3
<1>. QED  BY <1>1, <1>2, <1>3, <1>4

\* The invariant of the wait for the thermometer.
THEOREM ConversionInvariantHolds == ConversionSpec => []ConversionInvariant
<1>1. ConversionInit => ConversionInvariant
  <2>1. 0 \in Instants /\ 0 \in 0 .. Delms + 1
    BY MillisAssumption, ConversionAssumption DEF Instants
  <2>. QED
    BY <2>1 DEF ConversionInit, ConversionInvariant, ConversionTypeOK, Waiting
<1>2. ConversionInvariant /\ [ConversionNext]_conversionVars => ConversionInvariant'
  <2> SUFFICES ASSUME ConversionInvariant, [ConversionNext]_conversionVars
               PROVE  ConversionInvariant'
    OBVIOUS
  <2>1. CASE UNCHANGED conversionVars
    BY <2>1
       DEF ConversionInvariant, ConversionTypeOK, Waiting, conversionVars,
           conversionLocals, After
  <2>. QED  BY <2>1, ConversionPassInvariant, DriverInvariant DEF ConversionNext
<1>. QED  BY <1>1, <1>2, PTL DEF ConversionSpec

\* The variables of the wait keep their types.
THEOREM ConversionTypeCorrect == ConversionSpec => []ConversionTypeOK
<1>1. ConversionInvariant => ConversionTypeOK  BY DEF ConversionInvariant
<1>. QED  BY ConversionInvariantHolds, <1>1, PTL

\* The detector waits for the thermometer no longer than the conversion time,
\* wherever the clock wraps, and though the thermometer may never finish.
THEOREM WaitBounded == ConversionSpec => []WaitIsBounded
<1>1. ConversionInvariant => WaitIsBounded
  BY DEF ConversionInvariant, Waiting, WaitIsBounded
<1>. QED  BY ConversionInvariantHolds, <1>1, PTL

\* The wait is given up early only within a conversion time of the boot or of a
\* wrap.
THEOREM WaitLongEnough == ConversionSpec => WaitIsLongEnough
<1>1. ConversionInvariant /\ [ConversionNext]_conversionVars
        => [pc # "idle" /\ pc' = "idle" => ready \/ waited >= Delms \/ now < Delms]_conversionVars
  <2> SUFFICES ASSUME ConversionInvariant, ConversionNext, pc # "idle", pc' = "idle"
               PROVE  ready \/ waited >= Delms \/ now < Delms
    OBVIOUS
  <2>1. isConversionComplete \/ blockTillConversionComplete
    BY DEF ConversionNext, ConversionPass, Finish, requestTemperatures
  <2>2. CASE isConversionComplete
    BY <2>2 DEF isConversionComplete
  <2>3. CASE blockTillConversionComplete
    <3>1. ~StillWaiting
      BY <2>3 DEF blockTillConversionComplete
    <3>. QED
      BY <3>1, StillWaitingMeans, ConversionAssumption, MillisAssumption
  <2>. QED  BY <2>1, <2>2, <2>3
<1>. QED  BY ConversionInvariantHolds, <1>1, PTL DEF ConversionSpec, WaitIsLongEnough

-----------------------------------------------------------------------------
(***************************************************************************)
(* OneWireSearch                                                           *)
(***************************************************************************)

\* The first k bits of an address.
Agree(d, rom, k) == \A j \in 1 .. k : d[j] = rom[j]

\* Every device that leaves the path rom to the left in its first k bits has been
\* found, and none that leaves it to the right.
LeftFound(rom, k) ==
    \A i \in 1 .. k : \A d \in present :
        Agree(d, rom, i - 1) /\ d[i] = 0 /\ rom[i] = 1 => d \in found

RightNotFound(rom, k) ==
    \A i \in 1 .. k : \A d \in found :
        ~(Agree(d, rom, i - 1) /\ d[i] = 1 /\ rom[i] = 0)

\* At bit i the path rom goes to the left, and there are devices to its right.
TurnsLeft(rom, i) ==
    rom[i] = 0 /\ \E d \in present : Agree(d, rom, i - 1) /\ d[i] = 1

\* Between two searches that found a device: its address is rom, and the next one
\* will turn right at LastDiscrepancy.
Resumable(rom) ==
    /\ rom \in present
    /\ LeftFound(rom, Bits) /\ RightNotFound(rom, Bits)
    /\ \A d \in present : Agree(d, rom, LastDiscrepancy) => d \in found
    /\ TurnsLeft(rom, LastDiscrepancy)

\* In a search, m bits of it done: as long as it follows the path of the last
\* search to LastDiscrepancy, what holds of that path, and beyond that, what holds
\* of the part that was walked.
Searching(m, rom, lst, zero) ==
    /\ lst = {d \in present : Agree(d, rom, m)} /\ lst # {}
    /\ zero \in 0 .. m
    /\ zero > 0 => TurnsLeft(rom, zero)
    /\ \A d \in present : Agree(d, rom, zero) => d \in lst \/ d \in found
    /\ m < LastDiscrepancy => Resumable(rom)
    /\ m >= LastDiscrepancy => /\ LeftFound(rom, m) /\ RightNotFound(rom, m)
                               /\ \A d \in lst : d \notin found

\* Whatever happens on the bus.
Honest ==
    /\ id_bit_number # 0 => /\ result = "none" /\ ~LastDeviceFlag
                            /\ \A d \in listening : Agree(d, ROM_NO, id_bit_number - 1)
    /\ LastDeviceFlag => LastDiscrepancy = 0

\* On a bus that has not changed.
Enumerating ==
    steady =>
        /\ ~shorted
        /\ found \subseteq present
        /\ result = "not found" \/ LastDeviceFlag => found = present
        /\ id_bit_number = 0 /\ LastDiscrepancy # 0 => Resumable(ROM_NO)
        /\ id_bit_number # 0 =>
               Searching(id_bit_number - 1, ROM_NO, listening, last_zero)

SearchInvariant == SearchTypeOK /\ Honest /\ Enumerating

-----------------------------------------------------------------------------
(* One bit *)

\* Some listening device sends bit b.
Sent(n, b) == \E d \in listening : d[n] = b

\* Which way the search goes: with the devices if they agree, else as it went
\* before, to the right at the last discrepancy, and to the left after it.
LEMMA WayTaken ==
    ASSUME SearchTypeOK, ~shorted, listening # {}, NEW n \in 1 .. Bits
    PROVE  /\ Answered(n) /\ Direction(n) \in 0 .. 1
           /\ Sent(n, Direction(n))
           /\ ~(Sent(n, 0) /\ Sent(n, 1)) =>
                 LastZero(n) = last_zero /\ \A d \in listening : d[n] = Direction(n)
           /\ Sent(n, 0) /\ Sent(n, 1) =>
                 /\ n < LastDiscrepancy => Direction(n) = ROM_NO[n]
                 /\ n = LastDiscrepancy => Direction(n) = 1
                 /\ n > LastDiscrepancy => Direction(n) = 0
                 /\ LastZero(n) = IF Direction(n) = 0 THEN n ELSE last_zero
<1>1. \A d \in listening : d[n] \in 0 .. 1
  BY SearchAssumption DEF SearchTypeOK, Rom
<1>2. ROM_NO[n] \in 0 .. 1 /\ LastDiscrepancy \in Nat /\ n \in Nat
  <2>1. ROM_NO[n] \in 0 .. 1
    BY DEF SearchTypeOK, Rom
  <2>2. LastDiscrepancy \in Nat /\ n \in Nat
    <3>1. Bits \in Nat
      BY SearchAssumption
    <3>2. LastDiscrepancy \in 0 .. Bits
      BY DEF SearchTypeOK
    <3>. QED  BY <3>1, <3>2
  <2>. QED  BY <2>1, <2>2
<1>3. IdBit(n) = (IF Sent(n, 0) THEN 0 ELSE 1) /\ CmpIdBit(n) = (IF Sent(n, 1) THEN 0 ELSE 1)
  BY DEF IdBit, CmpIdBit, Sent
<1>4. Sent(n, 0) \/ Sent(n, 1)
  BY <1>1 DEF Sent
<1>5. CASE Sent(n, 0) /\ Sent(n, 1)
  <2>1. IdBit(n) = 0 /\ CmpIdBit(n) = 0
    BY <1>3, <1>5
  <2>2. Direction(n) = IF n < LastDiscrepancy THEN ROM_NO[n]
                       ELSE IF n = LastDiscrepancy THEN 1 ELSE 0
    BY <2>1 DEF Direction
  <2>3. Answered(n) /\ LastZero(n) = IF Direction(n) = 0 THEN n ELSE last_zero
    BY <2>1 DEF Answered, LastZero
  <2>4. Direction(n) \in 0 .. 1 /\ (Direction(n) = 0 \/ Direction(n) = 1)
    BY <1>2, <2>2
  <2>. QED  BY <1>2, <1>5, <2>2, <2>3, <2>4
<1>6. CASE ~(Sent(n, 0) /\ Sent(n, 1))
  <2>1. Direction(n) = IF Sent(n, 0) THEN 0 ELSE 1
    BY <1>3, <1>4, <1>6 DEF Direction
  <2>2. Answered(n) /\ LastZero(n) = last_zero /\ Sent(n, Direction(n))
    BY <1>3, <1>4, <1>6, <2>1 DEF Answered, LastZero
  <2>3. \A d \in listening : d[n] = Direction(n)
    BY <1>1, <1>6, <2>1 DEF Sent
  <2>. QED  BY <1>6, <2>1, <2>2, <2>3
<1>. QED  BY <1>5, <1>6

\* A device that agrees on more bits agrees on fewer.
LEMMA AgreeFewer ==
    \A d, rom : \A k, m \in Nat : k <= m /\ Agree(d, rom, m) => Agree(d, rom, k)
BY DEF Agree

\* One bit of a search, before, at and after the last discrepancy.
LEMMA BitSearched ==
    ASSUME SearchTypeOK, ~shorted, found \subseteq present, NEW n \in 1 .. Bits,
           Searching(n - 1, ROM_NO, listening, last_zero),
           NEW rom, rom = [ROM_NO EXCEPT ![n] = Direction(n)],
           NEW lst, lst = {d \in listening : d[n] = rom[n]}
    PROVE  Searching(n, rom, lst, LastZero(n))
<1> DEFINE b == Direction(n)
           z == LastZero(n)
           split == Sent(n, 0) /\ Sent(n, 1)
<1>1. /\ lst = {d \in present : Agree(d, rom, n)} /\ lst # {}
      /\ \A d \in listening : d \in lst <=> d[n] = b
      /\ rom \in Rom
      /\ \A j \in 1 .. Bits : rom[j] = IF j = n THEN b ELSE ROM_NO[j]
      /\ \A d \in present : \A k \in 0 .. n - 1 : Agree(d, rom, k) <=> Agree(d, ROM_NO, k)
  <2>1. /\ listening = {d \in present : Agree(d, ROM_NO, n - 1)} /\ listening # {}
        /\ b \in 0 .. 1 /\ Sent(n, b)
    BY WayTaken DEF Searching
  <2>2. rom \in Rom /\ \A j \in 1 .. Bits : rom[j] = IF j = n THEN b ELSE ROM_NO[j]
    BY <2>1 DEF SearchTypeOK, Rom
  <2> HIDE DEF b, z, split
  <2>3. ASSUME NEW d \in present
        PROVE  /\ Agree(d, rom, n) <=> Agree(d, ROM_NO, n - 1) /\ d[n] = b
               /\ \A k \in 0 .. n - 1 : Agree(d, rom, k) <=> Agree(d, ROM_NO, k)
    <3>1. Bits \in Nat
      BY SearchAssumption
    <3>2. \A k \in 0 .. n - 1 : Agree(d, rom, k) <=> Agree(d, ROM_NO, k)
      BY <2>2, <3>1 DEF Agree
    <3>3. Agree(d, rom, n) <=> Agree(d, ROM_NO, n - 1) /\ d[n] = b
      BY <2>2, <3>1 DEF Agree
    <3>. QED  BY <3>2, <3>3
  <2>4. \A d \in listening : d \in lst <=> d[n] = b
    BY <2>2
  <2>5. lst = {d \in present : Agree(d, rom, n)}
    BY <2>1, <2>3, <2>4
  <2>6. lst # {}
    BY <2>1, <2>4 DEF Sent
  <2>. QED  BY <2>2, <2>3, <2>4, <2>5, <2>6
<1>2. /\ listening = {d \in present : Agree(d, ROM_NO, n - 1)} /\ listening # {}
      /\ last_zero \in 0 .. n - 1
      /\ last_zero > 0 => TurnsLeft(ROM_NO, last_zero)
      /\ \A d \in present : Agree(d, ROM_NO, last_zero) => d \in listening \/ d \in found
  BY DEF Searching
<1>3. /\ b \in 0 .. 1 /\ Sent(n, b)
      /\ ~split => z = last_zero /\ \A d \in listening : d[n] = b
      /\ split => /\ n < LastDiscrepancy => b = ROM_NO[n]
                  /\ n = LastDiscrepancy => b = 1
                  /\ n > LastDiscrepancy => b = 0
                  /\ z = IF b = 0 THEN n ELSE last_zero
  BY <1>2, WayTaken
<1>4. /\ n \in Nat /\ Bits \in Nat /\ LastDiscrepancy \in Nat /\ 1 <= n /\ n <= Bits
      /\ LastDiscrepancy <= Bits
  <2>1. Bits \in Nat
    BY SearchAssumption
  <2>2. LastDiscrepancy \in 0 .. Bits
    BY DEF SearchTypeOK
  <2>. QED  BY <2>1, <2>2
<1>5. \A d \in listening : d[n] \in 0 .. 1
  BY SearchAssumption DEF SearchTypeOK, Rom
<1> SUFFICES Searching(n, rom, lst, z)
  OBVIOUS
<1> HIDE DEF b, z, split
<1>6. z = n \/ z = last_zero
  BY <1>3
<1>7. z \in 0 .. n
  BY <1>2, <1>4, <1>6
<1>8. z > 0 => TurnsLeft(rom, z)
  <2> SUFFICES ASSUME z > 0 PROVE TurnsLeft(rom, z)
    OBVIOUS
  <2>1. CASE z = last_zero
    <3>1. z - 1 \in 0 .. n - 1 /\ z \in 1 .. Bits /\ z # n
      BY <1>2, <1>4, <2>1
    <3>2. rom[z] = ROM_NO[z]
      BY <1>1, <3>1
    <3>3. TurnsLeft(ROM_NO, z)
      BY <1>2, <2>1
    <3>. QED  BY <1>1, <3>1, <3>2, <3>3 DEF TurnsLeft
  <2>2. CASE z # last_zero
    <3>1. z = n /\ split /\ b = 0
      BY <1>3, <1>6, <2>2
    <3>2. PICK d \in listening : d[n] = 1
      BY <3>1 DEF split, Sent
    <3>3. d \in present /\ Agree(d, ROM_NO, n - 1)
      BY <1>2
    <3>4. n - 1 \in 0 .. n - 1 /\ n \in 1 .. Bits
      BY <1>4
    <3>5. Agree(d, rom, n - 1) /\ rom[n] = 0
      BY <1>1, <3>1, <3>3, <3>4
    <3>. QED  BY <3>1, <3>2, <3>3, <3>5 DEF TurnsLeft
  <2>. QED  BY <2>1, <2>2
\* Before the last discrepancy the search follows the path of the last one.
<1>9. CASE n < LastDiscrepancy
  <2>1. Resumable(ROM_NO)
    BY <1>4, <1>9 DEF Searching
  <2>2. ROM_NO \in listening
    <3>1. Agree(ROM_NO, ROM_NO, n - 1)
      BY DEF Agree
    <3>. QED  BY <1>2, <2>1, <3>1 DEF Resumable
  <2>3. b = ROM_NO[n]
    BY <1>3, <1>9, <2>2
  <2>4. rom = ROM_NO
    BY <1>1, <2>3 DEF SearchTypeOK, Rom
  <2>5. \A d \in present : Agree(d, rom, z) => d \in lst \/ d \in found
    <3> SUFFICES ASSUME NEW d \in present, Agree(d, rom, z), d \notin found
                 PROVE  d \in lst
      OBVIOUS
    <3>1. CASE z = n
      BY <1>1, <3>1
    <3>2. CASE z # n
      <4>1. d \in listening
        BY <1>2, <1>6, <2>4, <3>2
      <4>2. d[n] = b
        <5> SUFFICES ASSUME d[n] # b PROVE FALSE
          OBVIOUS
        <5>1. split /\ b = 1
          BY <1>3, <1>6, <3>2, <4>1
        <5>2. d[n] = 0 /\ ROM_NO[n] = 1
          BY <1>5, <2>3, <4>1, <5>1
        <5>3. Agree(d, ROM_NO, n - 1)
          BY <1>2, <4>1
        <5>. QED  BY <2>1, <5>2, <5>3 DEF Resumable, LeftFound
      <4>. QED  BY <1>1, <4>1, <4>2
    <3>. QED  BY <3>1, <3>2
  <2>6. ~(n >= LastDiscrepancy)
    BY <1>4, <1>9
  <2>. QED  BY <1>1, <1>7, <1>8, <2>1, <2>4, <2>5, <2>6 DEF Searching
\* At the last discrepancy it turns right.
<1>10. CASE n = LastDiscrepancy
  <2>1. Resumable(ROM_NO)
    BY <1>4, <1>10 DEF Searching
  <2>2. ROM_NO \in listening /\ ROM_NO[n] = 0
    <3>1. Agree(ROM_NO, ROM_NO, n - 1)
      BY DEF Agree
    <3>. QED  BY <1>2, <1>10, <2>1, <3>1 DEF Resumable, TurnsLeft
  <2>3. split /\ b = 1 /\ z = last_zero
    <3>1. Sent(n, 0) /\ Sent(n, 1)
      BY <1>2, <1>10, <2>1, <2>2 DEF Sent, Resumable, TurnsLeft
    <3>. QED  BY <1>3, <1>10, <3>1 DEF split
  <2>4. rom[n] = 1
    BY <1>1, <2>3
  <2>5. \A d \in listening : d[n] = 0 => d \in found
    <3> SUFFICES ASSUME NEW d \in listening, d[n] = 0 PROVE d \in found
      OBVIOUS
    <3>1. d \in present /\ Agree(d, ROM_NO, n)
      BY <1>2, <1>4, <2>2 DEF Agree
    <3>. QED  BY <1>10, <2>1, <3>1 DEF Resumable
  <2>6. \A d \in present : Agree(d, rom, z) => d \in lst \/ d \in found
    <3> SUFFICES ASSUME NEW d \in present, Agree(d, rom, z), d \notin found
                 PROVE  d \in lst
      OBVIOUS
    <3>1. d \in listening
      BY <1>1, <1>2, <2>3
    <3>. QED  BY <1>1, <1>5, <2>3, <2>5, <3>1
  <2>7. LeftFound(rom, n)
    <3> SUFFICES ASSUME NEW i \in 1 .. n, NEW d \in present,
                        Agree(d, rom, i - 1), d[i] = 0, rom[i] = 1
                 PROVE  d \in found
      BY DEF LeftFound
    <3>1. Agree(d, ROM_NO, i - 1)
      <4>1. i - 1 \in 0 .. n - 1 /\ d \in present
        BY <1>4
      <4>. QED  BY <1>1, <4>1
    <3>2. CASE i = n
      BY <1>2, <2>5, <3>1, <3>2
    <3>3. CASE i # n
      <4>1. i \in 1 .. Bits
        BY <1>4
      <4>2. ROM_NO[i] = 1
        BY <1>1, <3>3, <4>1
      <4>. QED  BY <2>1, <3>1, <4>1, <4>2 DEF Resumable, LeftFound
    <3>. QED  BY <3>2, <3>3
  <2>8. RightNotFound(rom, n)
    <3> SUFFICES ASSUME NEW i \in 1 .. n, NEW d \in found,
                        Agree(d, rom, i - 1), d[i] = 1, rom[i] = 0
                 PROVE  FALSE
      BY DEF RightNotFound
    <3>1. i - 1 \in 0 .. n - 1 /\ i \in 1 .. Bits /\ i # n /\ d \in present
      BY <1>4, <2>4
    <3>2. Agree(d, ROM_NO, i - 1) /\ ROM_NO[i] = 0
      BY <1>1, <3>1
    <3>. QED  BY <2>1, <3>1, <3>2 DEF Resumable, RightNotFound
  <2>9. \A d \in lst : d \notin found
    <3> SUFFICES ASSUME NEW d \in lst, d \in found PROVE FALSE
      OBVIOUS
    <3>1. d[n] = 1 /\ Agree(d, ROM_NO, n - 1)
      BY <1>1, <1>2, <1>4, <2>3
    <3>. QED  BY <2>1, <2>2, <3>1 DEF Resumable, RightNotFound
  <2>10. ~(n < LastDiscrepancy)
    BY <1>4, <1>10
  <2>. QED
    BY <1>1, <1>7, <1>8, <2>6, <2>7, <2>8, <2>9, <2>10 DEF Searching
\* After it, it turns left wherever there is a choice.
<1>11. CASE n > LastDiscrepancy
  <2>1. /\ LeftFound(ROM_NO, n - 1) /\ RightNotFound(ROM_NO, n - 1)
        /\ \A d \in listening : d \notin found
    BY <1>4, <1>11 DEF Searching
  <2>2. split => b = 0 /\ z = n
    BY <1>3, <1>11
  <2>3. \A d \in present : Agree(d, rom, z) => d \in lst \/ d \in found
    <3> SUFFICES ASSUME NEW d \in present, Agree(d, rom, z), d \notin found
                 PROVE  d \in lst
      OBVIOUS
    <3>1. CASE z = n
      BY <1>1, <3>1
    <3>2. CASE z # n
      BY <1>1, <1>2, <1>3, <1>6, <2>2, <3>2
    <3>. QED  BY <3>1, <3>2
  <2>4. LeftFound(rom, n)
    <3> SUFFICES ASSUME NEW i \in 1 .. n, NEW d \in present,
                        Agree(d, rom, i - 1), d[i] = 0, rom[i] = 1
                 PROVE  d \in found
      BY DEF LeftFound
    <3>1. Agree(d, ROM_NO, i - 1)
      <4>1. i - 1 \in 0 .. n - 1 /\ d \in present
        BY <1>4
      <4>. QED  BY <1>1, <4>1
    <3>2. CASE i = n
      <4>1. b = 1 /\ d \in listening
        BY <1>1, <1>2, <3>1, <3>2
      <4>. QED  BY <1>3, <2>2, <3>2, <4>1
    <3>3. CASE i # n
      <4>1. i \in 1 .. n - 1 /\ i \in 1 .. Bits
        BY <1>4, <3>3
      <4>2. ROM_NO[i] = 1
        BY <1>1, <3>3, <4>1
      <4>. QED  BY <2>1, <3>1, <4>1, <4>2 DEF LeftFound
    <3>. QED  BY <3>2, <3>3
  <2>5. RightNotFound(rom, n)
    <3> SUFFICES ASSUME NEW i \in 1 .. n, NEW d \in found,
                        Agree(d, rom, i - 1), d[i] = 1, rom[i] = 0
                 PROVE  FALSE
      BY DEF RightNotFound
    <3>1. Agree(d, ROM_NO, i - 1)
      <4>1. i - 1 \in 0 .. n - 1 /\ d \in present
        BY <1>4
      <4>. QED  BY <1>1, <4>1
    <3>2. CASE i = n
      BY <1>2, <2>1, <3>1, <3>2
    <3>3. CASE i # n
      <4>1. i \in 1 .. n - 1 /\ i \in 1 .. Bits
        BY <1>4, <3>3
      <4>2. ROM_NO[i] = 0
        BY <1>1, <3>3, <4>1
      <4>. QED  BY <2>1, <3>1, <4>1, <4>2 DEF RightNotFound
    <3>. QED  BY <3>2, <3>3
  <2>6. \A d \in lst : d \notin found
    BY <2>1
  <2>7. ~(n < LastDiscrepancy)
    BY <1>4, <1>11
  <2>. QED
    BY <1>1, <1>7, <1>8, <2>3, <2>4, <2>5, <2>6, <2>7 DEF Searching
<1>. QED  BY <1>4, <1>9, <1>10, <1>11

-----------------------------------------------------------------------------
(* What holds whatever happens on the bus *)

\* One bit of a search, with any devices, or none, listening.
LEMMA BitTyped ==
    ASSUME SearchTypeOK, Honest, id_bit_number # 0,
           NEW rom, rom = [ROM_NO EXCEPT ![id_bit_number] = Direction(id_bit_number)]
    PROVE  /\ id_bit_number \in 1 .. Bits /\ Bits \in Nat
           /\ rom \in Rom /\ LastZero(id_bit_number) \in 0 .. Bits
           /\ \A d \in listening : d[id_bit_number] = rom[id_bit_number]
                                       => Agree(d, rom, id_bit_number)
<1> DEFINE n == id_bit_number
<1>1. Bits \in Nat
  BY SearchAssumption
<1>2. n \in 1 .. Bits
  <2>1. n \in 0 .. Bits
    BY DEF SearchTypeOK
  <2>. QED  BY <1>1, <2>1
<1>3. ROM_NO[n] \in 0 .. 1
  BY <1>2 DEF SearchTypeOK, Rom
<1>4. Direction(n) \in 0 .. 1
  <2>1. IdBit(n) \in 0 .. 1
    BY DEF IdBit
  <2>. QED  BY <1>3, <2>1 DEF Direction
<1>5. rom \in Rom /\ \A j \in 1 .. Bits : j # n => rom[j] = ROM_NO[j]
  BY <1>2, <1>4 DEF SearchTypeOK, Rom
<1>6. LastZero(n) = n \/ LastZero(n) = last_zero
  BY DEF LastZero
<1>7. LastZero(n) \in 0 .. Bits
  <2>1. last_zero \in 0 .. Bits /\ n \in 0 .. Bits
    BY DEF SearchTypeOK
  <2>. QED  BY <1>6, <2>1
<1>8. ASSUME NEW d \in listening, d[n] = rom[n] PROVE Agree(d, rom, n)
  <2>1. \A j \in 1 .. n - 1 : d[j] = ROM_NO[j]
    BY DEF Honest, Agree
  <2>. QED  BY <1>1, <1>2, <1>5, <1>8, <2>1 DEF Agree
<1>. QED  BY <1>1, <1>2, <1>5, <1>7, <1>8

\* A device that agrees on all bits has that address.
LEMMA SameAddress ==
    ASSUME NEW d \in Rom, NEW rom \in Rom, Agree(d, rom, Bits)
    PROVE  d = rom
<1>1. \A j \in 1 .. Bits : d[j] = rom[j]
  BY DEF Agree
<1>2. /\ d = [j \in 1 .. Bits |-> d[j]]
      /\ rom = [j \in 1 .. Bits |-> rom[j]]
  BY DEF Rom
<1>. QED  BY <1>1, <1>2, Zenon

LEMMA TypeKept ==
    SearchTypeOK /\ Honest /\ [SearchNext]_oneWireVars => SearchTypeOK' /\ Honest'
<1> SUFFICES ASSUME SearchTypeOK, Honest, [SearchNext]_oneWireVars
             PROVE  SearchTypeOK' /\ Honest'
  OBVIOUS
<1>a. Bits \in Nat /\ MaxChanges \in Nat
  BY SearchAssumption
<1>b. /\ changes \in Int /\ changes + 1 \in Int
      /\ changes < MaxChanges => changes + 1 \in 0 .. MaxChanges
  <2>1. changes \in 0 .. MaxChanges
    BY DEF SearchTypeOK
  <2>. QED  BY <1>a, <2>1
<1>1. CASE \E d \in Addresses : Leaves(d)
  <2>1. PICK d \in Addresses : Leaves(d)
    BY <1>1
  <2>2. changes' \in 0 .. MaxChanges
    BY <1>b, <2>1 DEF Leaves
  <2>3. SearchTypeOK'
    BY <2>1, <2>2 DEF Leaves, searchVars, SearchTypeOK
  <2>4. Honest'
    BY <2>1 DEF Leaves, searchVars, Honest, Agree
  <2>. QED  BY <2>3, <2>4
<1>2. CASE \E d \in Addresses : Joins(d)
  <2>1. PICK d \in Addresses : Joins(d)
    BY <1>2
  <2>2. changes' \in 0 .. MaxChanges
    BY <1>b, <2>1 DEF Joins
  <2>3. SearchTypeOK'
    BY <2>1, <2>2 DEF Joins, searchVars, SearchTypeOK
  <2>4. Honest'
    BY <2>1 DEF Joins, searchVars, Honest, Agree
  <2>. QED  BY <2>3, <2>4
<1>3. CASE ShortCircuit
  <2>1. changes' \in 0 .. MaxChanges
    BY <1>b, <1>3 DEF ShortCircuit
  <2>2. SearchTypeOK'
    BY <1>3, <2>1 DEF ShortCircuit, searchVars, SearchTypeOK
  <2>3. Honest'
    BY <1>3 DEF ShortCircuit, searchVars, Honest, Agree
  <2>. QED  BY <2>2, <2>3
<1>4. CASE reset_search
  <2>1. Zeros \in Rom /\ 0 \in 0 .. Bits
    BY <1>a DEF Zeros, Rom
  <2>2. SearchTypeOK'
    BY <1>4, <2>1 DEF reset_search, busVars, SearchTypeOK
  <2>3. Honest'
    BY <1>4 DEF reset_search, busVars, Honest
  <2>. QED  BY <2>2, <2>3
<1>5. CASE SearchFails
  <2>1. 0 \in 0 .. Bits
    BY <1>a
  <2>2. SearchTypeOK'
    BY <1>5, <2>1 DEF SearchFails, NotFound, busVars, SearchTypeOK
  <2>3. Honest'
    BY <1>5 DEF SearchFails, NotFound, busVars, Honest
  <2>. QED  BY <2>2, <2>3
<1>6. CASE SearchBegins
  <2>1. 0 \in 0 .. Bits /\ 1 \in 0 .. Bits
    BY SearchAssumption
  <2>2. SearchTypeOK'
    BY <1>6, <2>1 DEF SearchBegins, busVars, searchVars, SearchTypeOK
  <2>3. Honest'
    BY <1>6 DEF SearchBegins, busVars, searchVars, Honest, Agree
  <2>. QED  BY <2>2, <2>3
<1>7. CASE NobodyAnswers
  <2>1. 0 \in 0 .. Bits
    BY <1>a
  <2>2. SearchTypeOK'
    BY <1>7, <2>1 DEF NobodyAnswers, NotFound, busVars, SearchTypeOK
  <2>3. Honest'
    BY <1>7 DEF NobodyAnswers, NotFound, busVars, Honest
  <2>. QED  BY <2>2, <2>3
<1>8. CASE SearchBit
  <2> DEFINE n   == id_bit_number
             rom == [ROM_NO EXCEPT ![n] = Direction(n)]
  <2>1. n # 0
    BY <1>8 DEF SearchBit
  <2>2. /\ n \in 1 .. Bits /\ Bits \in Nat
        /\ rom \in Rom /\ LastZero(n) \in 0 .. Bits
        /\ \A d \in listening : d[n] = rom[n] => Agree(d, rom, n)
    BY <2>1, BitTyped
  <2>3. /\ ROM_NO' = rom /\ listening' = {d \in listening : d[n] = rom[n]}
        /\ last_zero' = LastZero(n)
        /\ UNCHANGED <<busVars, steady>>
        /\ \/ n = Bits /\ id_bit_number' = 0 /\ Complete(rom, LastZero(n))
           \/ /\ n # Bits /\ id_bit_number' = n + 1
              /\ UNCHANGED <<LastDiscrepancy, LastDeviceFlag, result, found>>
    BY <1>8 DEF SearchBit
  <2> HIDE DEF n, rom
  <2>4. /\ LastDiscrepancy' \in 0 .. Bits /\ LastDeviceFlag' \in BOOLEAN
        /\ result' \in {"none", "found", "not found"} /\ found' \subseteq Rom
        /\ LastDeviceFlag' => LastDiscrepancy' = 0 \/ id_bit_number' # 0
    <3>1. CASE Complete(rom, LastZero(n))
      <4>1. 0 \in 0 .. Bits
        BY <1>a
      <4>. QED  BY <2>2, <3>1, <4>1 DEF Complete, NotFound, SearchTypeOK
    <3>2. CASE /\ UNCHANGED <<LastDiscrepancy, LastDeviceFlag, result, found>>
      BY <2>3, <3>2 DEF SearchTypeOK, Honest
    <3>. QED  BY <2>3, <3>1, <3>2
  <2>5. id_bit_number' \in 0 .. Bits
    BY <2>2, <2>3
  <2>6. SearchTypeOK'
    BY <2>2, <2>3, <2>4, <2>5 DEF busVars, SearchTypeOK
  <2>7. Honest'
    <3>1. CASE n = Bits
      BY <2>3, <2>4, <3>1 DEF Honest
    <3>2. CASE n # Bits
      <4>1. id_bit_number' - 1 = n /\ UNCHANGED <<LastDiscrepancy, LastDeviceFlag, result, found>>
        BY <2>2, <2>3, <3>2
      <4>. QED  BY <2>1, <2>2, <2>3, <4>1 DEF Honest, n
    <3>. QED  BY <3>1, <3>2
  <2>. QED  BY <2>6, <2>7
<1>9. CASE UNCHANGED oneWireVars
  BY <1>9 DEF oneWireVars, busVars, searchVars, SearchTypeOK, Honest, Agree
<1>. QED
  BY <1>1, <1>2, <1>3, <1>4, <1>5, <1>6, <1>7, <1>8, <1>9 DEF SearchNext

-----------------------------------------------------------------------------
(* What holds on a bus that does not change *)

\* The last bit of a search: the devices below the path are one, which has not
\* been returned before.
LEMMA DeviceFound ==
    ASSUME SearchTypeOK, steady, ~shorted, found \subseteq present,
           NEW rom \in Rom, NEW lst, NEW zero,
           LastDiscrepancy \in 0 .. Bits, Searching(Bits, rom, lst, zero)
    PROVE  rom \in present /\ lst = {rom} /\ rom \notin found
<1>1. \A d \in lst : d \in Rom /\ d \in present /\ Agree(d, rom, Bits)
  BY SearchAssumption DEF Searching, SearchTypeOK
<1>2. \A d \in lst : d = rom
  BY <1>1, SameAddress
<1>3. lst # {}
  BY DEF Searching
<1>4. Bits >= LastDiscrepancy
  BY SearchAssumption
<1>5. rom \in present /\ lst = {rom}
  BY <1>1, <1>2, <1>3
<1>. QED  BY <1>4, <1>5 DEF Searching

\* The two bits of a search's step, under the invariant.
LEMMA StepSearched ==
    ASSUME SearchInvariant, steady, SearchBit
    PROVE  /\ id_bit_number \in 1 .. Bits
           /\ ROM_NO' \in Rom
           /\ Searching(id_bit_number, ROM_NO', listening', last_zero')
<1> DEFINE n   == id_bit_number
           rom == [ROM_NO EXCEPT ![n] = Direction(n)]
           lst == {d \in listening : d[n] = rom[n]}
<1>1. n # 0 /\ ROM_NO' = rom /\ listening' = lst /\ last_zero' = LastZero(n)
  BY DEF SearchBit
<1>2. SearchTypeOK /\ ~shorted /\ found \subseteq present
      /\ Searching(n - 1, ROM_NO, listening, last_zero)
  BY <1>1 DEF SearchInvariant, Enumerating
<1>3. n \in 1 .. Bits /\ rom \in Rom
  BY <1>1, BitTyped DEF SearchInvariant
<1>4. Searching(n, rom, lst, LastZero(n))
  BY <1>2, <1>3, BitSearched
<1>. QED  BY <1>1, <1>3, <1>4

\* What Resumable says depends on these variables only.
LEMMA UnchangedPath ==
    UNCHANGED <<present, found, LastDiscrepancy, ROM_NO>> /\ Resumable(ROM_NO)
        => Resumable(ROM_NO)'
BY DEF Resumable, LeftFound, RightNotFound, TurnsLeft, Agree

LEMMA EnumerationKept ==
    SearchInvariant /\ [SearchNext]_oneWireVars => Enumerating'
<1> SUFFICES ASSUME SearchInvariant, [SearchNext]_oneWireVars PROVE Enumerating'
  OBVIOUS
<1>a. SearchTypeOK /\ Honest
  BY DEF SearchInvariant
<1>b. steady => /\ ~shorted /\ found \subseteq present
                /\ result = "not found" \/ LastDeviceFlag => found = present
                /\ id_bit_number = 0 /\ LastDiscrepancy # 0 => Resumable(ROM_NO)
                /\ id_bit_number # 0 =>
                       Searching(id_bit_number - 1, ROM_NO, listening, last_zero)
  BY DEF SearchInvariant, Enumerating
<1>1. CASE steady' = FALSE
  BY <1>1 DEF Enumerating
<1>2. CASE reset_search
  BY <1>b, <1>2 DEF reset_search, busVars, Enumerating
<1>3. CASE SearchFails
  <2>1. steady => found = present
    BY <1>b, <1>3 DEF SearchFails, Presence
  <2>. QED  BY <1>b, <1>3, <2>1 DEF SearchFails, NotFound, busVars, Enumerating
<1>4. CASE SearchBegins
  <2>1. /\ id_bit_number' = 1 /\ last_zero' = 0 /\ listening' = present
        /\ present # {} /\ ~shorted /\ ~LastDeviceFlag /\ id_bit_number = 0
        /\ result' = "none" /\ UNCHANGED <<busVars, searchVars>>
    BY <1>4 DEF SearchBegins, Presence
  <2>2. 1 - 1 = 0 /\ 0 \in 0 .. 0 /\ ~(0 > 0)
    OBVIOUS
  <2>3. present = {d \in present : Agree(d, ROM_NO, 0)}
    BY DEF Agree
  <2>4. LastDiscrepancy \in Nat
    <3>1. LastDiscrepancy \in 0 .. Bits
      BY <1>a DEF SearchTypeOK
    <3>. QED  BY <3>1, SearchAssumption
  <2>5. CASE LastDiscrepancy = 0
    <3>1. found' = {}
      BY <1>4, <2>5 DEF SearchBegins
    <3>2. LeftFound(ROM_NO, 0)' /\ RightNotFound(ROM_NO, 0)'
      BY DEF LeftFound, RightNotFound
    <3>3. Searching(0, ROM_NO, present, 0)'
      BY <2>1, <2>2, <2>3, <2>5, <3>1, <3>2 DEF Searching, busVars, searchVars, Agree
    <3>. QED  BY <2>1, <2>2, <3>1, <3>3 DEF Enumerating, busVars, searchVars
  <2>6. CASE LastDiscrepancy # 0
    <3>1. UNCHANGED <<found, steady>>
      BY <1>4, <2>6 DEF SearchBegins
    <3>2. 0 < LastDiscrepancy /\ ~(0 >= LastDiscrepancy)
      BY <2>4, <2>6
    <3>3. steady => Resumable(ROM_NO)
      BY <1>b, <2>1, <2>6
    <3>4. Resumable(ROM_NO) => Resumable(ROM_NO)'
      BY <2>1, <3>1, UnchangedPath DEF busVars, searchVars
    <3>5. steady' => Searching(0, ROM_NO, present, 0)'
      BY <2>1, <2>2, <2>3, <3>1, <3>2, <3>3, <3>4 DEF Searching, Agree, busVars, searchVars
    <3>6. steady' => Searching(id_bit_number - 1, ROM_NO, listening, last_zero)'
      <4>1. id_bit_number' - 1 = 0 /\ last_zero' = 0 /\ listening' = present'
        BY <2>1 DEF busVars
      <4>. QED  BY <3>5, <4>1 DEF Searching
    <3>7. id_bit_number' # 0
      BY <2>1
    <3>. QED  BY <1>b, <2>1, <3>1, <3>6, <3>7 DEF Enumerating, busVars, searchVars
  <2>. QED  BY <2>5, <2>6
<1>5. CASE NobodyAnswers
  <2>1. ~steady
    <3> SUFFICES ASSUME steady PROVE FALSE
      OBVIOUS
    <3>1. id_bit_number # 0 /\ ~Answered(id_bit_number)
      BY <1>5 DEF NobodyAnswers
    <3>2. ~shorted /\ listening # {}
      BY <1>b, <3>1 DEF Searching
    <3>3. id_bit_number \in 1 .. Bits
      BY <1>a, <3>1, BitTyped
    <3>. QED  BY <1>a, <3>1, <3>2, <3>3, WayTaken
  <2>. QED  BY <1>5, <2>1 DEF NobodyAnswers, Enumerating
<1>6. CASE SearchBit /\ steady
  <2> DEFINE n == id_bit_number
  <2>1. /\ n \in 1 .. Bits /\ ROM_NO' \in Rom
        /\ Searching(n, ROM_NO', listening', last_zero')
    BY <1>6, StepSearched
  <2>2. /\ UNCHANGED <<present, shorted, steady>>
        /\ \/ n = Bits /\ id_bit_number' = 0 /\ Complete(ROM_NO', last_zero')
           \/ /\ n # Bits /\ id_bit_number' = n + 1
              /\ UNCHANGED <<LastDiscrepancy, LastDeviceFlag, result, found>>
    BY <1>6 DEF SearchBit, busVars
  <2>3. n # 0 /\ result = "none" /\ ~LastDeviceFlag /\ ~shorted /\ found \subseteq present
    BY <1>a, <1>b, <1>6 DEF Honest, SearchBit
  <2>4. Bits \in Nat /\ LastDiscrepancy \in 0 .. Bits
    BY <1>a, SearchAssumption DEF SearchTypeOK
  <2> HIDE DEF n
  <2>5. CASE n # Bits
    <3>1. id_bit_number' - 1 = n /\ id_bit_number' # 0
      BY <2>1, <2>2, <2>4, <2>5
    <3>2. UNCHANGED <<LastDiscrepancy, LastDeviceFlag, result, found>>
      BY <2>2, <2>5
    <3>3. Searching(n, ROM_NO', listening', last_zero')
             => Searching(id_bit_number - 1, ROM_NO, listening, last_zero)'
      BY <2>2, <3>1, <3>2 DEF Searching, Resumable, LeftFound, RightNotFound, TurnsLeft, Agree
    <3>. QED  BY <2>1, <2>2, <2>3, <3>1, <3>2, <3>3 DEF Enumerating
  <2>6. CASE n = Bits
    <3> DEFINE rom == ROM_NO'
               zero == last_zero'
    <3>1. rom \in present /\ listening' = {rom} /\ rom \notin found
      BY <1>6, <1>a, <2>1, <2>3, <2>4, <2>6, DeviceFound
    <3>2. HasFamily(rom)
      BY <1>a, <3>1, SearchAssumption DEF SearchTypeOK
    <3>3. /\ LastDiscrepancy' = zero /\ LastDeviceFlag' = (zero = 0)
          /\ result' = "found" /\ found' = found \cup {rom} /\ id_bit_number' = 0
      BY <2>2, <2>6, <3>2 DEF Complete
    <3>4. \A d \in present : Agree(d, rom, zero) => d \in found'
      BY <2>1, <3>1, <3>3 DEF Searching
    <3>5. zero = 0 => found' = present
      BY <2>3, <3>1, <3>3, <3>4 DEF Agree
    <3>6. Bits >= LastDiscrepancy
      BY <2>4
    <3>7. LeftFound(rom, Bits) /\ RightNotFound(rom, Bits)
      BY <2>1, <2>6, <3>6 DEF Searching
    <3>8. LeftFound(ROM_NO, Bits)'
      BY <2>2, <3>3, <3>7 DEF LeftFound, Agree
    <3>9. RightNotFound(ROM_NO, Bits)'
      BY <3>1, <3>3, <3>7 DEF RightNotFound, Agree
    <3>10. zero # 0 => TurnsLeft(rom, zero)
      <4>1. zero \in 0 .. Bits
        BY <2>1, <2>6 DEF Searching
      <4>2. zero # 0 => zero > 0
        BY <2>4, <4>1
      <4>. QED  BY <2>1, <4>2 DEF Searching
    <3>11. zero # 0 => Resumable(ROM_NO)'
      <4> SUFFICES ASSUME zero # 0 PROVE Resumable(ROM_NO)'
        OBVIOUS
      <4>1. /\ (ROM_NO \in present)'
            /\ (\A d \in present : Agree(d, ROM_NO, LastDiscrepancy) => d \in found)'
        BY <2>2, <3>1, <3>3, <3>4 DEF Agree
      <4>2. TurnsLeft(ROM_NO, LastDiscrepancy)'
        BY <2>2, <3>3, <3>10 DEF TurnsLeft, Agree
      <4>. QED  BY <3>8, <3>9, <4>1, <4>2 DEF Resumable
    <3>. QED  BY <2>2, <2>3, <3>1, <3>3, <3>5, <3>11 DEF Enumerating
  <2>. QED  BY <2>5, <2>6
<1>7. CASE SearchBit /\ ~steady
  BY <1>7 DEF SearchBit, Enumerating
<1>8. CASE UNCHANGED oneWireVars
  <2>1. UNCHANGED <<present, shorted, ROM_NO, LastDiscrepancy, LastDeviceFlag, id_bit_number,
                    last_zero, listening, result, found, steady>>
    BY <1>8 DEF oneWireVars, busVars, searchVars
  <2>2. Resumable(ROM_NO) => Resumable(ROM_NO)'
    BY <2>1, UnchangedPath
  <2>3. Searching(id_bit_number - 1, ROM_NO, listening, last_zero)
          => Searching(id_bit_number - 1, ROM_NO, listening, last_zero)'
    BY <2>1, <2>2 DEF Searching, LeftFound, RightNotFound, TurnsLeft, Agree
  <2>. QED  BY <1>b, <2>1, <2>2, <2>3 DEF Enumerating
<1>9. (\E d \in Addresses : Leaves(d) \/ Joins(d)) \/ ShortCircuit => steady' = FALSE
  BY DEF Leaves, Joins, ShortCircuit
<1>. QED
  BY <1>1, <1>2, <1>3, <1>4, <1>5, <1>6, <1>7, <1>8, <1>9 DEF SearchNext

LEMMA InvariantInit == SearchInit => SearchInvariant
<1> SUFFICES ASSUME SearchInit PROVE SearchInvariant
  OBVIOUS
<1>1. 0 \in 0 .. Bits /\ 0 \in 0 .. MaxChanges
  BY SearchAssumption
<1>2. Zeros \in Rom
  BY DEF Zeros, Rom
<1>3. present \subseteq Addresses
  BY DEF SearchInit
<1>4. SearchTypeOK
  BY <1>1, <1>2, <1>3 DEF SearchInit, SearchTypeOK
<1>. QED  BY <1>4 DEF SearchInit, SearchInvariant, Honest, Enumerating

\* The inductive invariant: the path of the current search divides the devices
\* into those found and those still to come.
THEOREM SearchInvariantHolds == SearchSpec => []SearchInvariant
<1>1. SearchInvariant /\ [SearchNext]_oneWireVars => SearchInvariant'
  BY TypeKept, EnumerationKept DEF SearchInvariant
<1>. QED  BY <1>1, InvariantInit, PTL DEF SearchSpec

\* Every variable of the search keeps its type: the positions stay within an address.
THEOREM SearchTypeCorrect == SearchSpec => []SearchTypeOK
<1>1. SearchInvariant => SearchTypeOK
  BY DEF SearchInvariant
<1>. QED  BY <1>1, SearchInvariantHolds, PTL

\* A bus that does not change is enumerated completely, and nothing else is returned.
THEOREM Enumerates == SearchSpec => []EnumeratesAll
<1>1. SearchInvariant => EnumeratesAll
  BY DEF SearchInvariant, Enumerating, EnumeratesAll
<1>. QED  BY <1>1, SearchInvariantHolds, PTL

\* Only the last bit of a search completes an address.
LEMMA FoundByLastBit ==
    ASSUME [SearchNext]_oneWireVars, result' = "found", result # "found"
    PROVE  SearchBit /\ id_bit_number = Bits
<1>1. CASE \E d \in Addresses : Leaves(d) \/ Joins(d)
  BY <1>1 DEF Leaves, Joins
<1>2. CASE ShortCircuit \/ reset_search \/ SearchFails \/ SearchBegins \/ NobodyAnswers
  BY <1>2 DEF ShortCircuit, reset_search, SearchFails, SearchBegins, NobodyAnswers, NotFound
<1>3. CASE SearchBit
  BY <1>3 DEF SearchBit
<1>4. CASE UNCHANGED oneWireVars
  BY <1>4 DEF oneWireVars
<1>. QED  BY <1>1, <1>2, <1>3, <1>4 DEF SearchNext

\* On a bus that does not change no address is returned twice.
THEOREM NeverTwice == SearchSpec => NoneTwice
<1>1. ASSUME SearchInvariant, [SearchNext]_oneWireVars,
             steady, result' = "found", result # "found"
      PROVE  ROM_NO' \notin found
  <2>1. SearchBit /\ id_bit_number = Bits
    BY <1>1, FoundByLastBit
  <2>2. id_bit_number # 0
    BY <2>1 DEF SearchBit
  <2>3. ROM_NO' \in Rom /\ Searching(Bits, ROM_NO', listening', last_zero')
    BY <1>1, <2>1, StepSearched
  <2>4. SearchTypeOK /\ ~shorted /\ found \subseteq present /\ LastDiscrepancy \in 0 .. Bits
    BY <1>1 DEF SearchInvariant, Enumerating, SearchTypeOK
  <2>. QED  BY <1>1, <2>3, <2>4, DeviceFound
<1>2. SearchInvariant /\ [SearchNext]_oneWireVars
        => [steady /\ result' = "found" /\ result # "found" => ROM_NO' \notin found]_oneWireVars
  BY <1>1
<1>. QED  BY <1>2, SearchInvariantHolds, PTL DEF SearchSpec, NoneTwice

\* Whatever joins or leaves during a search, the address it returns is that of a
\* device which listened to the end, unless the bus is shorted.
THEOREM NeverMixed == SearchSpec => NoMixedAddress
<1>1. ASSUME SearchInvariant, [SearchNext]_oneWireVars,
             result' = "found", id_bit_number # 0, ~shorted
      PROVE  ROM_NO' \in listening
  <2> DEFINE rom == [ROM_NO EXCEPT ![Bits] = Direction(Bits)]
  <2>1. SearchTypeOK /\ Honest /\ result # "found"
    BY <1>1 DEF SearchInvariant, Honest
  <2>2. SearchBit /\ id_bit_number = Bits
    BY <1>1, <2>1, FoundByLastBit
  <2>3. Answered(Bits) /\ ROM_NO' = rom
    BY <2>2 DEF SearchBit
  <2>4. Bits \in 1 .. Bits /\ rom \in Rom /\ \A d \in listening : d[Bits] = rom[Bits] => Agree(d, rom, Bits)
    BY <1>1, <2>1, <2>2, BitTyped
  <2>5. listening # {}
    BY <1>1, <2>3 DEF Answered, IdBit, CmpIdBit
  <2>6. rom[Bits] = Direction(Bits)
    BY <2>1, <2>4 DEF SearchTypeOK, Rom
  <2> HIDE DEF rom
  <2>7. PICK d \in listening : d[Bits] = rom[Bits]
    BY <1>1, <2>1, <2>4, <2>5, <2>6, WayTaken DEF Sent
  <2>8. d \in Rom
    BY <2>1, SearchAssumption DEF SearchTypeOK
  <2>. QED  BY <2>3, <2>4, <2>7, <2>8, SameAddress
<1>2. SearchInvariant /\ [SearchNext]_oneWireVars
        => [result' = "found" /\ id_bit_number # 0 /\ ~shorted => ROM_NO' \in listening]_oneWireVars
  BY <1>1
<1>. QED  BY <1>2, SearchInvariantHolds, PTL DEF SearchSpec, NoMixedAddress

-----------------------------------------------------------------------------
(***************************************************************************)
(* ThreadController                                                        *)
(***************************************************************************)

ListTypeOK ==
    /\ thread \in [Slots -> ThreadIds \cup {NoThread}]
    /\ cached_size \in Int
    /\ uncounted \in {-1, 0, 1}
    /\ index \in Int /\ -1 <= index /\ index <= MaxThreads
    /\ checks \in Nat /\ removed \in Nat
    /\ due \subseteq ThreadIds /\ owed \subseteq due
    /\ running \in ThreadIds \cup {NoThread}
    /\ running # NoThread => index \in Slots

\* The occupied slots below k.
Below(k) == {i \in Occupied : i < k}

\* The slots that run has looked at.
Passed == IF running # NoThread THEN index + 1 ELSE index

\* run has counted an occupied slot at most once; only a removal hides one that
\* was counted.
ChecksBounded == index # -1 => checks <= Cardinality(Below(Passed)) + removed

\* What is owed is still ahead, except for the thread that is running.
OwedAhead ==
    index # -1 =>
        /\ \A t \in owed : \E i \in Slots : index <= i /\ thread[i] = t
        /\ running # NoThread /\ thread[index] \in owed => thread[index] = running

\* A run that interrupted a change of the list sees no other.
InterruptedChange == index # -1 /\ uncounted # 0 => removed = 0

ControllerInvariant ==
    /\ ListTypeOK /\ ListIsConsistent
    /\ ChecksBounded /\ OwedAhead /\ InterruptedChange

-----------------------------------------------------------------------------
(* Counting slots *)

LEMMA SlotsFinite ==
    /\ IsFiniteSet(Occupied) /\ Cardinality(Occupied) \in Nat
    /\ \A k : IsFiniteSet(Below(k)) /\ Cardinality(Below(k)) \in Nat
<1>1. IsFiniteSet(Slots)
  BY ThreadControllerAssumption, FS_Interval DEF Slots
<1>2. IsFiniteSet(Occupied)
  BY <1>1, FS_Subset DEF Occupied
<1>3. ASSUME NEW k PROVE IsFiniteSet(Below(k))
  <2>1. Below(k) \subseteq Occupied
    BY DEF Below
  <2>. QED  BY <1>2, <2>1, FS_Subset
<1>. QED  BY <1>2, <1>3, FS_CardinalityType

\* Passing one more slot counts it if it is occupied.
LEMMA OneMorePassed ==
    ASSUME NEW k \in Slots
    PROVE  Cardinality(Below(k + 1))
             = IF k \in Occupied THEN Cardinality(Below(k)) + 1 ELSE Cardinality(Below(k))
<1>1. k \in Int /\ \A i \in Occupied : i \in Int
  BY DEF Slots, Occupied
<1>2. CASE k \in Occupied
  <2>1. \A i \in Occupied : i < k + 1 <=> i < k \/ i = k
    BY <1>1
  <2>2. Below(k + 1) = Below(k) \cup {k}
    BY <1>2, <2>1, Zenon DEF Below
  <2>3. k \notin Below(k)
    BY <1>1 DEF Below
  <2>. QED  BY <1>2, <2>2, <2>3, SlotsFinite, FS_AddElement
<1>3. CASE k \notin Occupied
  <2>1. Below(k + 1) = Below(k)
    BY <1>1, <1>3 DEF Below
  <2>. QED  BY <1>3, <2>1
<1>. QED  BY <1>2, <1>3

\* Slots that are passed leave room for one that is not.
LEMMA OneAhead ==
    ASSUME NEW k \in Int, NEW i \in Occupied, k <= i
    PROVE  Cardinality(Below(k)) + 1 <= Cardinality(Occupied)
<1>1. i \in Int /\ \A j \in Occupied : j \in Int
  BY DEF Slots, Occupied
<1>2. i \notin Below(k) /\ Below(k) \cup {i} \subseteq Occupied
  BY <1>1 DEF Below
<1>3. Cardinality(Below(k) \cup {i}) = Cardinality(Below(k)) + 1
  BY <1>2, SlotsFinite, FS_AddElement
<1>4. Cardinality(Below(k) \cup {i}) <= Cardinality(Occupied)
  BY <1>2, SlotsFinite, FS_Subset
<1>. QED  BY <1>3, <1>4

-----------------------------------------------------------------------------
(* Steps that change the list *)

\* A thread is put into a hole.
LEMMA SlotFilled ==
    ASSUME ListTypeOK, NEW t \in ThreadIds, NEW i \in Slots, i \notin Occupied,
           thread' = [thread EXCEPT ![i] = t]
    PROVE  /\ Cardinality(Occupied') = Cardinality(Occupied) + 1
           /\ Occupied' = Occupied \cup {i}
           /\ \A k : /\ Cardinality(Below(k)') \in Nat
                     /\ Cardinality(Below(k)) <= Cardinality(Below(k)')
           /\ thread' \in [Slots -> ThreadIds \cup {NoThread}]
           /\ \A j \in Slots : thread'[j] = IF j = i THEN t ELSE thread[j]
<1>1. /\ thread' \in [Slots -> ThreadIds \cup {NoThread}]
      /\ \A j \in Slots : thread'[j] = IF j = i THEN t ELSE thread[j]
  BY DEF ListTypeOK
<1>2. Occupied' = Occupied \cup {i}
  BY <1>1, ThreadControllerAssumption DEF Occupied
<1>3. Cardinality(Occupied') = Cardinality(Occupied) + 1
  BY <1>2, SlotsFinite, FS_AddElement
<1>4. ASSUME NEW k
      PROVE  Cardinality(Below(k)') \in Nat /\ Cardinality(Below(k)) <= Cardinality(Below(k)')
  <2>1. Below(k) \subseteq Below(k)' /\ Below(k)' \subseteq Occupied'
    BY <1>2 DEF Below
  <2>2. IsFiniteSet(Occupied')
    BY <1>2, SlotsFinite, FS_AddElement
  <2>3. IsFiniteSet(Below(k)')
    BY <2>1, <2>2, FS_Subset
  <2>. QED  BY <2>1, <2>3, FS_Subset, FS_CardinalityType
<1>. QED  BY <1>1, <1>2, <1>3, <1>4

\* A thread is taken out of its slot.
LEMMA SlotEmptied ==
    ASSUME ListTypeOK, NEW i \in Occupied, thread' = [thread EXCEPT ![i] = NoThread]
    PROVE  /\ Cardinality(Occupied') = Cardinality(Occupied) - 1
           /\ Occupied' = Occupied \ {i}
           /\ \A k : /\ Cardinality(Below(k)') \in Nat
                     /\ Cardinality(Below(k)) <= Cardinality(Below(k)') + 1
           /\ thread' \in [Slots -> ThreadIds \cup {NoThread}]
           /\ \A j \in Slots : thread'[j] = IF j = i THEN NoThread ELSE thread[j]
<1>1. /\ thread' \in [Slots -> ThreadIds \cup {NoThread}]
      /\ \A j \in Slots : thread'[j] = IF j = i THEN NoThread ELSE thread[j]
  BY DEF ListTypeOK, Occupied
<1>2. Occupied' = Occupied \ {i}
  BY <1>1 DEF Occupied
<1>3. Cardinality(Occupied') = Cardinality(Occupied) - 1
  BY <1>2, SlotsFinite, FS_RemoveElement
<1>4. ASSUME NEW k
      PROVE  Cardinality(Below(k)') \in Nat /\ Cardinality(Below(k)) <= Cardinality(Below(k)') + 1
  <2>1. Below(k)' = Below(k) \ {i}
    BY <1>2 DEF Below
  <2>2. IsFiniteSet(Below(k)) /\ Cardinality(Below(k)) \in Nat
    BY SlotsFinite
  <2>3. CASE i \in Below(k)
    <3>1. Cardinality(Below(k)') = Cardinality(Below(k)) - 1 /\ IsFiniteSet(Below(k)')
      BY <2>1, <2>2, <2>3, FS_RemoveElement
    <3>2. Cardinality(Below(k)') \in Nat
      BY <3>1, FS_CardinalityType
    <3>. QED  BY <2>2, <3>1, <3>2
  <2>4. CASE i \notin Below(k)
    <3>1. Below(k)' = Below(k)
      BY <2>1, <2>4
    <3>. QED  BY <2>2, <3>1
  <2>. QED  BY <2>3, <2>4
<1>. QED  BY <1>1, <1>2, <1>3, <1>4

LEMMA AddKept ==
    ASSUME ControllerInvariant, NEW t \in ThreadIds, add(t)
    PROVE  ControllerInvariant'
<1>1. ListTypeOK /\ ListIsConsistent /\ ChecksBounded /\ OwedAhead
  BY DEF ControllerInvariant
<1>2. PICK i \in Slots : Fits(t, i) /\ thread' = [thread EXCEPT ![i] = t] /\ Resize(1)
  BY DEF add
<1>3. /\ MayChange /\ UNCHANGED <<index, checks, due, running, owed, removed>>
      /\ uncounted = 0
  BY DEF add, runVars, MayChange
<1>4. /\ Cardinality(Occupied') = Cardinality(Occupied) + 1
      /\ Occupied' = Occupied \cup {i}
      /\ \A k : /\ Cardinality(Below(k)') \in Nat
                /\ Cardinality(Below(k)) <= Cardinality(Below(k)')
      /\ thread' \in [Slots -> ThreadIds \cup {NoThread}]
      /\ \A j \in Slots : thread'[j] = IF j = i THEN t ELSE thread[j]
  BY <1>1, <1>2, SlotFilled DEF Fits
<1>5. /\ cached_size' \in Int /\ uncounted' \in {-1, 0, 1}
      /\ cached_size' + uncounted' = Cardinality(Occupied')
      /\ index # -1 => uncounted' = 0
  BY <1>1, <1>2, <1>3, <1>4 DEF Resize, ListTypeOK, ListIsConsistent
<1>6. ListTypeOK'
  BY <1>1, <1>3, <1>4, <1>5 DEF ListTypeOK
<1>7. ListIsConsistent'
  <2>1. \A j \in Slots : thread[j] # t
    BY <1>2 DEF Fits, Listed
  <2>2. \A j, k \in Occupied' : thread'[j] = thread'[k] => j = k
    BY <1>1, <1>4, <2>1 DEF ListIsConsistent, Occupied
  <2>. QED  BY <1>5, <2>2 DEF ListIsConsistent
<1>8. ChecksBounded'
  <2> SUFFICES ASSUME index # -1 PROVE (checks <= Cardinality(Below(Passed)) + removed)'
    BY <1>3 DEF ChecksBounded
  <2>1. checks <= Cardinality(Below(Passed)) + removed
    BY <1>1 DEF ChecksBounded
  <2>2. Passed' = Passed /\ Cardinality(Below(Passed)) <= Cardinality(Below(Passed)')
    BY <1>3, <1>4 DEF Passed
  <2>3. Cardinality(Below(Passed)) \in Nat /\ checks \in Nat /\ removed \in Nat
    BY <1>1, SlotsFinite DEF ListTypeOK
  <2>4. Cardinality(Below(Passed)') \in Nat
    BY <1>4, <2>2
  <2>. QED  BY <1>3, <2>1, <2>2, <2>3, <2>4
<1>9. OwedAhead'
  <2> SUFFICES ASSUME index # -1 PROVE OwedAhead'
    BY <1>3 DEF OwedAhead
  <2>1. t \notin owed
    BY <1>1, <1>2 DEF Fits, Listed, OwedAhead
  <2>2. \A u \in owed : \E j \in Slots : index <= j /\ thread'[j] = u
    <3>1. ASSUME NEW u \in owed PROVE \E j \in Slots : index <= j /\ thread'[j] = u
      <4>1. PICK j \in Slots : index <= j /\ thread[j] = u
        BY <1>1 DEF OwedAhead
      <4>2. u # NoThread
        BY <1>1, ThreadControllerAssumption DEF ListTypeOK
      <4>3. j # i
        BY <1>2, <4>1, <4>2 DEF Fits, Occupied
      <4>. QED  BY <1>4, <4>1, <4>3
    <3>. QED  BY <3>1
  <2>3. running # NoThread /\ thread'[index] \in owed => thread'[index] = running
    BY <1>1, <1>4, <2>1 DEF OwedAhead, ListTypeOK
  <2>. QED  BY <1>3, <2>2, <2>3 DEF OwedAhead
<1>10. InterruptedChange'
  BY <1>3, <1>5 DEF InterruptedChange
<1>. QED  BY <1>6, <1>7, <1>8, <1>9, <1>10 DEF ControllerInvariant

LEMMA RemoveKept ==
    ASSUME ControllerInvariant, NEW t \in ThreadIds, remove(t)
    PROVE  ControllerInvariant'
<1>1. ListTypeOK /\ ListIsConsistent /\ ChecksBounded /\ OwedAhead
  BY DEF ControllerInvariant
<1>2. PICK i \in Slots : thread[i] = t /\ thread' = [thread EXCEPT ![i] = NoThread]
  BY DEF remove
<1>3. /\ Resize(-1) /\ uncounted = 0
      /\ UNCHANGED <<index, checks, due, running>>
      /\ owed' = owed \ {t}
      /\ removed' = IF index = -1 THEN 0 ELSE removed + 1
  BY DEF remove, runVars, MayChange
<1>4. i \in Occupied
  BY <1>2, ThreadControllerAssumption DEF Occupied
<1>5. /\ Cardinality(Occupied') = Cardinality(Occupied) - 1
      /\ Occupied' = Occupied \ {i}
      /\ \A k : /\ Cardinality(Below(k)') \in Nat
                /\ Cardinality(Below(k)) <= Cardinality(Below(k)') + 1
      /\ thread' \in [Slots -> ThreadIds \cup {NoThread}]
      /\ \A j \in Slots : thread'[j] = IF j = i THEN NoThread ELSE thread[j]
  BY <1>1, <1>2, <1>4, SlotEmptied
<1>6. /\ cached_size' \in Int /\ uncounted' \in {-1, 0, 1}
      /\ cached_size' + uncounted' = Cardinality(Occupied')
      /\ index # -1 => uncounted' = 0
  <2>1. Cardinality(Occupied) \in Nat
    BY SlotsFinite
  <2>. QED  BY <1>1, <1>3, <1>5, <2>1 DEF Resize, ListTypeOK, ListIsConsistent
<1>7. ListTypeOK'
  <2>1. removed' \in Nat
    BY <1>1, <1>3 DEF ListTypeOK
  <2>. QED  BY <1>1, <1>3, <1>5, <1>6, <2>1 DEF ListTypeOK
<1>8. ListIsConsistent'
  BY <1>1, <1>5, <1>6 DEF ListIsConsistent, Occupied
<1>9. ChecksBounded'
  <2> SUFFICES ASSUME index # -1 PROVE (checks <= Cardinality(Below(Passed)) + removed)'
    BY <1>3 DEF ChecksBounded
  <2>1. checks <= Cardinality(Below(Passed)) + removed
    BY <1>1 DEF ChecksBounded
  <2>2. Passed' = Passed /\ Cardinality(Below(Passed)) <= Cardinality(Below(Passed)') + 1
    BY <1>3, <1>5 DEF Passed
  <2>3. Cardinality(Below(Passed)) \in Nat /\ checks \in Nat /\ removed \in Nat
    BY <1>1, SlotsFinite DEF ListTypeOK
  <2>4. Cardinality(Below(Passed)') \in Nat
    BY <1>5, <2>2
  <2>. QED  BY <1>3, <2>1, <2>2, <2>3, <2>4
<1>10. OwedAhead'
  <2> SUFFICES ASSUME index # -1 PROVE OwedAhead'
    BY <1>3 DEF OwedAhead
  <2>1. ASSUME NEW u \in owed, u # t PROVE \E j \in Slots : index <= j /\ thread'[j] = u
    <3>1. PICK j \in Slots : index <= j /\ thread[j] = u
      BY <1>1 DEF OwedAhead
    <3>. QED  BY <1>2, <1>5, <2>1, <3>1
  <2>2. NoThread \notin owed
    BY <1>1, ThreadControllerAssumption DEF ListTypeOK
  <2>3. running # NoThread /\ thread'[index] \in owed => thread'[index] = running
    BY <1>1, <1>5, <2>2 DEF OwedAhead, ListTypeOK
  <2>. QED  BY <1>3, <2>1, <2>3 DEF OwedAhead
<1>11. InterruptedChange'
  BY <1>3, <1>6 DEF InterruptedChange
<1>. QED  BY <1>7, <1>8, <1>9, <1>10, <1>11 DEF ControllerInvariant

-----------------------------------------------------------------------------
(* Steps of run and of the main program that leave the array alone *)

LEMMA SameSlots ==
    ASSUME UNCHANGED thread
    PROVE  Occupied' = Occupied /\ Listed' = Listed /\ \A k : Below(k)' = Below(k)
BY DEF Occupied, Listed, Below

\* One more slot is passed, and counted if it is occupied.
LEMMA CheckKept ==
    ASSUME ControllerInvariant, Check
    PROVE  ControllerInvariant'
<1>1. /\ ListTypeOK /\ ListIsConsistent /\ ChecksBounded /\ OwedAhead /\ InterruptedChange
  BY DEF ControllerInvariant
<1>2. /\ index # -1 /\ running = NoThread /\ index < MaxThreads
      /\ checks' = IF index \in Occupied THEN checks + 1 ELSE checks
      /\ UNCHANGED <<thread, cached_size, uncounted, due, owed, removed>>
      /\ \/ /\ index \in Occupied /\ thread[index] \in due
            /\ running' = thread[index] /\ UNCHANGED index
         \/ /\ ~(index \in Occupied /\ thread[index] \in due)
            /\ index' = index + 1 /\ UNCHANGED running
  BY DEF Check, MoreToCheck, listVars
<1>3. index \in Slots
  <2>1. MaxThreads \in Nat /\ index \in Int /\ -1 <= index
    BY <1>1, ThreadControllerAssumption DEF ListTypeOK
  <2>. QED  BY <1>2, <2>1 DEF Slots
<1>4. index \in Int /\ index + 1 \in Int /\ -1 <= index + 1 /\ index + 1 <= MaxThreads
      /\ index + 1 # -1 /\ 0 <= index
  <2>1. MaxThreads \in Nat
    BY ThreadControllerAssumption
  <2>. QED  BY <1>3, <2>1 DEF Slots
<1>5. thread[index] # NoThread <=> index \in Occupied
  BY <1>3 DEF Occupied
<1>6. ListTypeOK'
  <2>1. checks' \in Nat
    BY <1>1, <1>2 DEF ListTypeOK
  <2>2. running' \in ThreadIds \cup {NoThread} /\ (running' # NoThread => index' \in Slots)
    BY <1>1, <1>2, <1>3 DEF ListTypeOK
  <2>3. index' \in Int /\ -1 <= index' /\ index' <= MaxThreads
    BY <1>1, <1>2, <1>4 DEF ListTypeOK
  <2>4. Slots' = Slots
    BY DEF Slots
  <2>. QED  BY <1>1, <1>2, <2>1, <2>2, <2>3, <2>4 DEF ListTypeOK
<1>7. ListIsConsistent'
  BY <1>1, <1>2, SameSlots DEF ListIsConsistent
<1>8. ChecksBounded'
  <2>1. checks <= Cardinality(Below(index)) + removed
    BY <1>1, <1>2 DEF ChecksBounded, Passed
  <2>2. Cardinality(Below(index + 1))
          = IF index \in Occupied THEN Cardinality(Below(index)) + 1
            ELSE Cardinality(Below(index))
    BY <1>3, OneMorePassed
  <2>3. Passed' = index + 1
    BY <1>2, <1>5 DEF Passed
  <2>4. (Below(Passed))' = Below(index + 1)
    BY <1>2, <2>3, SameSlots DEF Below
  <2>5. Cardinality(Below(index)) \in Nat /\ checks \in Nat /\ removed \in Nat
    BY <1>1, SlotsFinite DEF ListTypeOK
  <2>6. checks' <= Cardinality(Below(index + 1)) + removed
    BY <1>2, <2>1, <2>2, <2>5
  <2>. QED  BY <1>2, <2>4, <2>6 DEF ChecksBounded
<1>9. OwedAhead'
  <2>1. NoThread \notin owed /\ owed \subseteq due
    BY <1>1, ThreadControllerAssumption DEF ListTypeOK
  <2>2. CASE index' = index /\ running' = thread[index]
    BY <1>1, <1>2, <2>2 DEF OwedAhead
  <2>3. CASE /\ ~(index \in Occupied /\ thread[index] \in due)
             /\ index' = index + 1 /\ UNCHANGED running
    <3>1. thread[index] \notin owed
      BY <1>3, <2>1, <2>3 DEF Occupied
    <3>2. ASSUME NEW t \in owed PROVE \E i \in Slots : index + 1 <= i /\ thread[i] = t
      <4>1. PICK i \in Slots : index <= i /\ thread[i] = t
        BY <1>1, <1>2 DEF OwedAhead
      <4>2. i # index
        BY <3>1, <4>1
      <4>3. i \in Int
        BY DEF Slots
      <4>. QED  BY <1>4, <4>1, <4>2, <4>3
    <3>. QED  BY <1>2, <2>3, <3>2 DEF OwedAhead
  <2>. QED  BY <1>2, <2>2, <2>3
<1>10. InterruptedChange'
  BY <1>1, <1>2 DEF InterruptedChange
<1>. QED  BY <1>6, <1>7, <1>8, <1>9, <1>10 DEF ControllerInvariant

LEMMA CallbackKept ==
    ASSUME ControllerInvariant, CallbackDone
    PROVE  ControllerInvariant'
<1>1. /\ ListTypeOK /\ ListIsConsistent /\ ChecksBounded /\ OwedAhead /\ InterruptedChange
  BY DEF ControllerInvariant
<1>2. /\ running # NoThread /\ running' = NoThread /\ index' = index + 1
      /\ due' = due \ {running} /\ owed' = owed \ {running}
      /\ UNCHANGED <<thread, cached_size, uncounted, checks, removed>>
  BY DEF CallbackDone, listVars
<1>3. index \in Slots
  BY <1>1, <1>2 DEF ListTypeOK
<1>4. index \in Int /\ index + 1 \in Int /\ -1 <= index + 1 /\ index + 1 <= MaxThreads
      /\ index # -1 /\ 0 <= index
  <2>1. MaxThreads \in Nat
    BY ThreadControllerAssumption
  <2>. QED  BY <1>3, <2>1 DEF Slots
<1>5. ListTypeOK'
  BY <1>1, <1>2, <1>4 DEF ListTypeOK, Slots
<1>6. ListIsConsistent'
  BY <1>1, <1>2, SameSlots DEF ListIsConsistent
<1>7. ChecksBounded'
  <2>1. Passed' = Passed
    BY <1>2 DEF Passed
  <2>2. (Below(Passed))' = Below(Passed)
    BY <1>2, <2>1, SameSlots DEF Below
  <2>. QED  BY <1>1, <1>2, <1>4, <2>2 DEF ChecksBounded
<1>8. OwedAhead'
  <2>1. ASSUME NEW t \in owed, t # running
        PROVE  \E i \in Slots : index + 1 <= i /\ thread[i] = t
    <3>1. PICK i \in Slots : index <= i /\ thread[i] = t
      BY <1>1, <1>4 DEF OwedAhead
    <3>2. i # index
      BY <1>1, <1>2, <1>4, <2>1, <3>1 DEF OwedAhead
    <3>3. i \in Int
      BY DEF Slots
    <3>. QED  BY <1>4, <3>1, <3>2, <3>3
  <2>. QED  BY <1>2, <2>1 DEF OwedAhead
<1>9. InterruptedChange'
  BY <1>1, <1>2, <1>4 DEF InterruptedChange
<1>. QED  BY <1>5, <1>6, <1>7, <1>8, <1>9 DEF ControllerInvariant

LEMMA RunBeginsKept ==
    ASSUME ControllerInvariant, RunBegins
    PROVE  ControllerInvariant'
<1>1. ListTypeOK /\ ListIsConsistent
  BY DEF ControllerInvariant
<1>2. /\ index = -1 /\ index' = 0 /\ checks' = 0 /\ removed' = 0
      /\ due' \subseteq ThreadIds /\ owed' = due' \cap Listed
      /\ UNCHANGED <<thread, cached_size, uncounted, running>>
  BY DEF RunBegins, listVars
<1>3. running = NoThread
  BY <1>1, <1>2 DEF ListTypeOK, Slots
<1>4. MaxThreads \in Nat
  BY ThreadControllerAssumption
<1>5. ListTypeOK'
  BY <1>1, <1>2, <1>3, <1>4 DEF ListTypeOK, Slots
<1>6. ListIsConsistent'
  BY <1>1, <1>2, SameSlots DEF ListIsConsistent
<1>7. ChecksBounded'
  <2>1. Cardinality(Below(Passed)') \in Nat
    BY <1>2, SlotsFinite, SameSlots
  <2>. QED  BY <1>2, <2>1 DEF ChecksBounded
<1>8. OwedAhead'
  BY <1>2, <1>3 DEF OwedAhead, Listed, Slots
<1>9. InterruptedChange'
  BY <1>2 DEF InterruptedChange
<1>. QED  BY <1>5, <1>6, <1>7, <1>8, <1>9 DEF ControllerInvariant

\* The rest happens outside of run, or ends it.
LEMMA OutsideKept ==
    ASSUME ControllerInvariant, Count \/ clear \/ RunEnds \/ UNCHANGED threadControllerVars
    PROVE  ControllerInvariant'
<1>1. /\ ListTypeOK /\ ListIsConsistent /\ ChecksBounded /\ OwedAhead /\ InterruptedChange
  BY DEF ControllerInvariant
<1>2. CASE Count
  <2>1. /\ index = -1 /\ cached_size' = cached_size + uncounted /\ uncounted' = 0
        /\ UNCHANGED <<thread, index, checks, due, running, owed, removed>>
    BY <1>2 DEF Count, runVars
  <2>2. cached_size' \in Int /\ cached_size' + uncounted' = cached_size + uncounted
    BY <1>1, <2>1 DEF ListTypeOK
  <2>3. ListTypeOK'
    BY <1>1, <2>1, <2>2 DEF ListTypeOK, Slots
  <2>4. ListIsConsistent'
    BY <1>1, <2>1, <2>2, SameSlots DEF ListIsConsistent
  <2>. QED  BY <2>1, <2>3, <2>4 DEF ControllerInvariant, ChecksBounded, OwedAhead,
                                    InterruptedChange
<1>3. CASE clear
  <2>1. /\ index = -1 /\ cached_size' = 0 /\ uncounted = 0
        /\ thread' = [i \in Slots |-> NoThread]
        /\ UNCHANGED <<uncounted, index, checks, due, running, owed, removed>>
    BY <1>3 DEF clear, runVars, MayChange
  <2>2. Occupied' = {}
    BY <2>1 DEF Occupied
  <2>3. ListTypeOK'
    BY <1>1, <2>1 DEF ListTypeOK, Slots
  <2>4. ListIsConsistent'
    BY <2>1, <2>2, FS_EmptySet DEF ListIsConsistent
  <2>. QED  BY <2>1, <2>3, <2>4 DEF ControllerInvariant, ChecksBounded, OwedAhead,
                                    InterruptedChange
<1>4. CASE RunEnds
  <2>1. /\ index' = -1 /\ checks' = 0 /\ due' = {} /\ owed' = {} /\ removed' = 0
        /\ running = NoThread
        /\ UNCHANGED <<thread, cached_size, uncounted, running>>
    BY <1>4 DEF RunEnds, listVars
  <2>2. MaxThreads \in Nat
    BY ThreadControllerAssumption
  <2>3. ListTypeOK'
    BY <1>1, <2>1, <2>2 DEF ListTypeOK, Slots
  <2>4. ListIsConsistent'
    BY <1>1, <2>1, SameSlots DEF ListIsConsistent
  <2>. QED  BY <2>1, <2>3, <2>4 DEF ControllerInvariant, ChecksBounded, OwedAhead,
                                    InterruptedChange
<1>5. CASE UNCHANGED threadControllerVars
  <2>1. UNCHANGED <<thread, cached_size, uncounted, index, checks, due, running, owed, removed>>
    BY <1>5 DEF threadControllerVars, listVars, runVars
  <2>2. ListTypeOK' /\ ListIsConsistent'
    BY <1>1, <2>1, SameSlots DEF ListTypeOK, ListIsConsistent, Slots
  <2>3. Passed' = Passed
    BY <2>1 DEF Passed
  <2>4. ChecksBounded'
    BY <1>1, <2>1, <2>3, SameSlots DEF ChecksBounded, Below
  <2>5. OwedAhead' /\ InterruptedChange'
    BY <1>1, <2>1 DEF OwedAhead, InterruptedChange
  <2>. QED  BY <2>2, <2>4, <2>5 DEF ControllerInvariant
<1>. QED  BY <1>2, <1>3, <1>4, <1>5

LEMMA ControllerInvariantInit == ThreadControllerInit => ControllerInvariant
<1> SUFFICES ASSUME ThreadControllerInit PROVE ControllerInvariant
  OBVIOUS
<1>1. MaxThreads \in Nat
  BY ThreadControllerAssumption
<1>2. ListTypeOK
  BY <1>1 DEF ThreadControllerInit, ListTypeOK
<1>3. Occupied = {}
  BY DEF ThreadControllerInit, Occupied
<1>4. ListIsConsistent
  BY <1>3, FS_EmptySet DEF ThreadControllerInit, ListIsConsistent
<1>. QED
  BY <1>2, <1>4 DEF ThreadControllerInit, ControllerInvariant, ChecksBounded, OwedAhead,
                    InterruptedChange

-----------------------------------------------------------------------------
(* Theorems *)

\* The inductive invariant: run counts at most the occupied slots it has passed
\* and the threads that were removed meanwhile, and what it owes is ahead of it.
THEOREM ControllerInvariantHolds == ThreadControllerSpec => []ControllerInvariant
<1>1. ControllerInvariant /\ [ThreadControllerNext]_threadControllerVars
        => ControllerInvariant'
  BY AddKept, RemoveKept, CheckKept, CallbackKept, RunBeginsKept, OutsideKept
     DEF ThreadControllerNext
<1>. QED  BY <1>1, ControllerInvariantInit, PTL DEF ThreadControllerSpec

\* The size kept beside the array is that of the array, and no thread is listed twice.
THEOREM ListConsistent == ThreadControllerSpec => []ListIsConsistent
<1>1. ControllerInvariant => ListIsConsistent
  BY DEF ControllerInvariant
<1>. QED  BY <1>1, ControllerInvariantHolds, PTL

\* run skips no thread that was due and listed all the while, unless two threads
\* are removed during it.
THEOREM NoThreadSkipped == ThreadControllerSpec => NoneSkipped
<1>1. ASSUME ControllerInvariant, RunEnds, removed <= 1
      PROVE  owed = {}
  <2>1. /\ ListTypeOK /\ ListIsConsistent /\ ChecksBounded /\ OwedAhead /\ InterruptedChange
    BY <1>1 DEF ControllerInvariant
  <2>2. index # -1 /\ running = NoThread /\ ~(index < MaxThreads /\ checks <= cached_size)
    BY <1>1 DEF RunEnds, MoreToCheck
  <2> SUFFICES ASSUME NEW t \in owed PROVE FALSE
    OBVIOUS
  <2>3. PICK i \in Slots : index <= i /\ thread[i] = t
    BY <2>1, <2>2 DEF OwedAhead
  <2>4. i \in Occupied
    BY <2>1, <2>3, ThreadControllerAssumption DEF ListTypeOK, Occupied
  <2>5. index \in Int /\ checks \in Nat /\ removed \in Nat /\ cached_size \in Int
        /\ uncounted \in {-1, 0, 1}
    BY <2>1 DEF ListTypeOK
  <2>6. index < MaxThreads
    <3>1. MaxThreads \in Nat
      BY ThreadControllerAssumption
    <3>. QED  BY <2>3, <2>5, <3>1 DEF Slots
  <2>7. Cardinality(Below(index)) + 1 <= Cardinality(Occupied)
    BY <2>3, <2>4, <2>5, OneAhead
  <2>8. checks <= Cardinality(Below(index)) + removed
    BY <2>1, <2>2 DEF ChecksBounded, Passed
  <2>9. Cardinality(Below(index)) \in Nat /\ Cardinality(Occupied) \in Nat
    BY SlotsFinite
  <2>10. cached_size + uncounted = Cardinality(Occupied)
    BY <2>1 DEF ListIsConsistent
  <2>11. uncounted # 0 => removed = 0
    BY <2>1, <2>2 DEF InterruptedChange
  <2>12. checks <= cached_size
    BY <1>1, <2>5, <2>7, <2>8, <2>9, <2>10, <2>11
  <2>. QED  BY <2>2, <2>6, <2>12
<1>2. ControllerInvariant /\ [ThreadControllerNext]_threadControllerVars
        => [RunEnds /\ removed <= 1 => owed = {}]_threadControllerVars
  BY <1>1
<1>. QED  BY <1>2, ControllerInvariantHolds, PTL DEF ThreadControllerSpec, NoneSkipped
=============================================================================
