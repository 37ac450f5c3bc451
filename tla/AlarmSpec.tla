----------------------------- MODULE AlarmSpec ------------------------------
(***************************************************************************)
(* What the detector promises to a person in the room, without sensors,    *)
(* schedules or averages: when the siren and the lights may go on and off, *)
(* and what a hush does.  Controller implements it.                        *)
(***************************************************************************)
EXTENDS Integers

CONSTANT HUSHTIME

VARIABLES
    danger,      \* the detector holds sound evidence of smoke or of CO
    siren,
    light,
    quiet,       \* a hush is in force
    remaining    \* seconds left of the last hush, Past when it is over

alarmVars == <<danger, siren, light, quiet, remaining>>

Past == -1

Init ==
    /\ danger = FALSE
    /\ siren = FALSE /\ light = FALSE
    /\ quiet = FALSE /\ remaining = 0

\* The detector looks at the room.  It may raise the alarm, siren and lights
\* together, on evidence only and never during a hush, and it never takes an
\* alarm back.  It ends a hush whose time is over, and no other.
Watch ==
    /\ danger' \in BOOLEAN
    /\ \/ UNCHANGED <<siren, light>>
       \/ danger' /\ ~quiet /\ siren' = TRUE /\ light' = TRUE
    /\ quiet' = (quiet /\ remaining # Past)
    /\ UNCHANGED remaining

\* Only people silence the siren: by toggling it, which also ends a hush ...
ToggleSiren ==
    /\ siren' = ~siren
    /\ quiet' = FALSE
    /\ UNCHANGED <<danger, light, remaining>>

\* ... or by a hush, which starts its whole period anew.
Hush ==
    /\ quiet' = TRUE
    /\ remaining' = HUSHTIME
    /\ siren' = FALSE /\ light' = FALSE
    /\ UNCHANGED danger

ToggleLight ==
    /\ light' = ~light
    /\ UNCHANGED <<danger, siren, quiet, remaining>>

Second ==
    /\ remaining # Past
    /\ remaining' = remaining - 1
    /\ UNCHANGED <<danger, siren, light, quiet>>

Next == Watch \/ ToggleSiren \/ Hush \/ ToggleLight \/ Second

Spec == Init /\ [][Next]_alarmVars
=============================================================================
