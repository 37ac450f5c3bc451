------------------------- MODULE SmartSmokeDetector -------------------------
(***************************************************************************)
(* The web server and the detector together.  The server calls the         *)
(* controller's methods in the middle of serving requests; the detector    *)
(* runs only while no server callback is in progress, because both share   *)
(* one thread.  The detector takes part as AlarmSpec, which Controller     *)
(* implements; seconds pass at any time.                                   *)
(***************************************************************************)
EXTENDS HostServer

CONSTANT HUSHTIME

VARIABLES danger, siren, light, quiet, remaining,
          effect      \* history: the alarm after a client's last command

Alarm == INSTANCE AlarmSpec

alarmVars == <<danger, siren, light, quiet, remaining>>

Shown == <<siren, light, quiet>>

systemVars == <<vars, alarmVars, effect>>

SystemInit ==
    /\ Init
    /\ Alarm!Init
    /\ effect = [c \in Clients |-> Shown]

\* The end of the line that made the innermost activation call the controller,
\* and the client it is due to.
CallLine == top'.line

\* The branches of HostServer.loop that call a method of the controller.
ControllerCall ==
    IF executed' = executed
    THEN UNCHANGED <<alarmVars, effect>>
    ELSE /\ \/ CallLine.end = "toggleSpotlight" /\ Alarm!ToggleLight
            \/ CallLine.end = "toggleAlarm" /\ Alarm!ToggleSiren
            \/ CallLine.end = "hush" /\ Alarm!Hush
         /\ effect' = [effect EXCEPT ![CallLine.from] = Shown']

ServerStep == Next /\ ControllerCall

\* Mutant: the detector is run by a timer interrupt.
MutDetectorStep == Alarm!Watch /\ UNCHANGED <<vars, effect>>

\* offlineThread's callback, when the main loop gets round to it.
DetectorStep ==
    /\ stack = <<>>
    /\ Alarm!Watch
    /\ UNCHANGED <<vars, effect>>

SecondPasses == Alarm!Second /\ UNCHANGED <<vars, effect>>

SystemNext == ServerStep \/ DetectorStep \/ SecondPasses

SystemSpec == SystemInit /\ [][SystemNext]_systemVars

-----------------------------------------------------------------------------
(* Properties *)

\* The page that answers a command shows its effect: between the call and the
\* page nothing else changes what the page says of siren, lights and hush,
\* neither the detector nor another client, however long the rest of the
\* request takes to arrive.  (A broken reply may have lost the command.)
PageShowsEffect ==
    [][\A c \in Clients :
          broken' = 0 /\ answers'[c] # answers[c] /\ Commanded(request[c]) = 1
              => Shown = effect[c]]_systemVars
=============================================================================
