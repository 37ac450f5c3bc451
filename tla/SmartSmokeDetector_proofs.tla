---------------------- MODULE SmartSmokeDetector_proofs ----------------------
(***************************************************************************)
(* Proofs about the server and the detector together: the page that        *)
(* answers a command shows its effect.  Between a command and its page the *)
(* server stays with the client (StaysWithClient), so that nobody else's   *)
(* command comes in between, and a callback is in progress, so that the    *)
(* detector does not run.                                                  *)
(***************************************************************************)
EXTENDS SmartSmokeDetector, HostServerRequests_proofs

Triple == BOOLEAN \X BOOLEAN \X BOOLEAN

\* The alarm is as the last command of a client left it while its page is still owed.
EffectInvariant ==
    /\ ServesInvariant
    /\ siren \in BOOLEAN /\ light \in BOOLEAN /\ quiet \in BOOLEAN
    /\ effect \in [Clients -> Triple]
    /\ broken = 0 => \A c \in Clients : Owed(c) => effect[c] = Shown

-----------------------------------------------------------------------------
(* The parts of the system take their own steps *)

\* The server runs as it does alone.
LEMMA ServerRuns == [SystemNext]_systemVars => [Next]_vars
BY DEF SystemNext, ServerStep, DetectorStep, SecondPasses, systemVars

\* The alarm changes as AlarmSpec allows.
LEMMA AlarmMoves == [SystemNext]_systemVars => [Alarm!Next]_alarmVars
<1>1. ServerStep => [Alarm!Next]_alarmVars
  BY DEF ServerStep, ControllerCall, Alarm!Next
<1>2. DetectorStep \/ SecondPasses => [Alarm!Next]_alarmVars
  BY DEF DetectorStep, SecondPasses, Alarm!Next
<1>. QED  BY <1>1, <1>2 DEF SystemNext, systemVars

LEMMA AlarmTyped ==
    ASSUME siren \in BOOLEAN, light \in BOOLEAN, quiet \in BOOLEAN, [Alarm!Next]_alarmVars
    PROVE  siren' \in BOOLEAN /\ light' \in BOOLEAN /\ quiet' \in BOOLEAN
BY DEF Alarm!Next, Alarm!Watch, Alarm!ToggleSiren, Alarm!Hush, Alarm!ToggleLight, Alarm!Second,
       alarmVars

-----------------------------------------------------------------------------
(* From a command to its page *)

LEMMA EffectKept ==
    ASSUME EffectInvariant, [SystemNext]_systemVars,
           \A r \in Requests : OneCommand(r) /\ InFirstLine(r) /\ VersionFollows(r)
    PROVE  EffectInvariant'
<1>1. /\ ServesInvariant /\ ServesInvariant' /\ [Next]_vars
      /\ siren' \in BOOLEAN /\ light' \in BOOLEAN /\ quiet' \in BOOLEAN
      /\ effect \in [Clients -> Triple] /\ Shown' \in Triple
  <2>1. ServesInvariant /\ siren \in BOOLEAN /\ light \in BOOLEAN /\ quiet \in BOOLEAN
        /\ effect \in [Clients -> Triple]
    BY DEF EffectInvariant
  <2>2. [Next]_vars
    BY ServerRuns
  <2>3. ServesInvariant'
    BY <2>1, <2>2, ServesKept
  <2>4. siren' \in BOOLEAN /\ light' \in BOOLEAN /\ quiet' \in BOOLEAN
    BY <2>1, AlarmMoves, AlarmTyped
  <2>. QED  BY <2>1, <2>2, <2>3, <2>4 DEF Shown, Triple
<1>2. /\ ServerInvariant /\ ServerInvariant' /\ broken \in Nat
      /\ broken = 0 => \A c \in Clients : Owed(c) => Serves(c) /\ effect[c] = Shown
  <2>1. ServerInvariant /\ ServerInvariant'
    BY <1>1 DEF ServesInvariant, CountInvariant
  <2>2. broken \in Nat
    BY <2>1, ServerAssumption DEF ServerInvariant, LinesInvariant, TypeOK
  <2>. QED  BY <1>1, <2>1, <2>2 DEF ServesInvariant, EffectInvariant
<1>3. ASSUME UNCHANGED <<effect, siren, light, quiet, executed>>, broken' = 0 => broken = 0
      PROVE  EffectInvariant'
  <2>1. Shown' = Shown
    BY <1>3 DEF Shown
  <2>2. \A c \in Clients : Owed(c)' => Owed(c)
    BY <1>1, <1>2, <1>3, NoneOwedAgain DEF Owed
  <2>3. broken' = 0 => \A c \in Clients : Owed(c)' => effect'[c] = Shown'
    BY <1>2, <1>3, <2>1, <2>2
  <2>. QED  BY <1>1, <1>3, <2>3 DEF EffectInvariant
<1>4. CASE UNCHANGED systemVars
  BY <1>3, <1>4 DEF systemVars, vars, alarmVars
<1>5. CASE SecondPasses
  BY <1>3, <1>5 DEF SecondPasses, Alarm!Second, vars
<1>6. CASE DetectorStep
\* No callback is in progress, so no client is owed a page.
  <2>1. stack = <<>> /\ UNCHANGED <<stack, executed, answers, peer, broken, effect>>
    BY <1>6 DEF DetectorStep, vars
  <2>2. \A c \in Clients : ~Serves(c)
    BY <2>1 DEF Serves
  <2>3. broken' = 0 => \A c \in Clients : ~Owed(c)'
    BY <1>2, <2>1, <2>2 DEF Owed
  <2>. QED  BY <1>1, <2>1, <2>3 DEF EffectInvariant
<1>7. CASE ServerStep
  <2>1. CASE executed' = executed
    <3>1. UNCHANGED <<effect, siren, light, quiet>>
      BY <1>7, <2>1 DEF ServerStep, ControllerCall, alarmVars
    <3>2. broken' = 0 => broken = 0
      BY <1>1, BrokenGrows DEF ServesInvariant
    <3>. QED  BY <1>3, <2>1, <3>1, <3>2
  <2>2. CASE executed' # executed
    <3>1. effect' = [effect EXCEPT ![CallLine.from] = Shown']
      BY <1>7, <2>2 DEF ServerStep, ControllerCall
    <3>2. effect' \in [Clients -> Triple]
      BY <1>1, <3>1
    <3>3. ASSUME broken' = 0, NEW d \in Clients, Owed(d)' PROVE effect'[d] = Shown'
      <4>1. PICK c \in Clients :
               /\ UNCHANGED peer /\ peer[c] # "done" /\ answers[c] = 0
               /\ executed'[c] # 0 /\ UNCHANGED answers /\ top'.line.from = c
        BY <1>1, <2>2, <3>3, CommandOrPage
      <4>2. Owed(c)'
        BY <4>1 DEF Owed
      <4>3. Serves(c)' /\ Serves(d)'
        BY <1>1, <3>3, <4>2 DEF ServesInvariant
      <4>4. c = d
        BY <4>3 DEF Serves
      <4>5. CallLine.from = c
        BY <4>1 DEF CallLine
      <4>. QED  BY <1>1, <3>1, <4>4, <4>5
    <3>. QED  BY <1>1, <3>2, <3>3 DEF EffectInvariant
  <2>. QED  BY <2>1, <2>2
<1>. QED  BY <1>4, <1>5, <1>6, <1>7 DEF SystemNext

\* While a client is owed the page of a command the alarm stays as the command left it.
THEOREM EffectStays ==
    ASSUME \A r \in Requests : OneCommand(r) /\ InFirstLine(r) /\ VersionFollows(r)
    PROVE  SystemSpec => []EffectInvariant
<1>1. SystemInit => EffectInvariant
  <2> SUFFICES ASSUME SystemInit PROVE EffectInvariant
    OBVIOUS
  <2>1. ServesInvariant
    BY ServesInit DEF SystemInit
  <2>2. siren = FALSE /\ light = FALSE /\ quiet = FALSE
    BY DEF SystemInit, Alarm!Init
  <2>3. effect \in [Clients -> Triple] /\ \A c \in Clients : effect[c] = Shown
    BY <2>2 DEF SystemInit, Shown, Triple
  <2>. QED  BY <2>1, <2>2, <2>3 DEF EffectInvariant
<1>2. EffectInvariant /\ [SystemNext]_systemVars => EffectInvariant'
  BY EffectKept
<1>. QED  BY <1>1, <1>2, PTL DEF SystemSpec

\* The page that answers a command shows its effect, with any number of clients and
\* slots, however the requests arrive, and whenever the scheduler calls the detector.
THEOREM PageTellsEffect ==
    ASSUME \A r \in Requests : OneCommand(r) /\ InFirstLine(r) /\ VersionFollows(r)
    PROVE  SystemSpec => PageShowsEffect
<1>1. EffectInvariant /\ [SystemNext]_systemVars
         => [\A c \in Clients :
                broken' = 0 /\ answers'[c] # answers[c] /\ Commanded(request[c]) = 1
                    => Shown = effect[c]]_systemVars
  <2> SUFFICES ASSUME EffectInvariant, [SystemNext]_systemVars, NEW c \in Clients,
                      broken' = 0, answers'[c] # answers[c], Commanded(request[c]) = 1
               PROVE  Shown = effect[c]
    OBVIOUS
  <2>1. broken = 0 /\ Owed(c)
    BY ServerRuns, OwedPage DEF EffectInvariant
  <2>. QED  BY <2>1 DEF EffectInvariant
<1>. QED  BY <1>1, EffectStays, PTL DEF SystemSpec, PageShowsEffect
=============================================================================
