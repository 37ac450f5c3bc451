----------------------------- MODULE RemoteCall -----------------------------
(***************************************************************************)
(* What ServerDrv and WiFiDrv promise to their callers: a call makes the   *)
(* WiFi module perform its command, once each time it is sent, and returns *)
(* only after that, with the answer to this very command or with what it   *)
(* returns when it has none.  Calls whose answers have several parameters  *)
(* promise less: a damaged reply may leave the caller with a part of the   *)
(* answer among what it had before, or be written past what it gave.       *)
(***************************************************************************)
VARIABLES
    pending,       \* a call is in progress
    performed,     \* how often the module has performed what was sent last
    allowed,       \* the outcomes that the last call promises
    outcome        \* what the last call returned, "none" while one is pending

callVars == <<pending, performed, allowed, outcome>>

Whole == {"answer", "no answer"}

InParts == Whole \cup {"mixed", "overrun"}

Promises == {Whole, InParts}

Idle ==
    /\ pending = FALSE /\ performed = 0 /\ allowed = Whole /\ outcome = "none"

Invoke ==
    /\ ~pending
    /\ allowed' \in Promises
    /\ pending' = TRUE /\ performed' = 0 /\ outcome' = "none"

\* A call that the module is known to have nothing for.
Skip ==
    /\ ~pending
    /\ allowed' \in Promises
    /\ outcome' = "no answer"
    /\ UNCHANGED <<pending, performed>>

Perform ==
    /\ pending /\ performed = 0
    /\ performed' = 1
    /\ UNCHANGED <<pending, allowed, outcome>>

\* The command is sent again.
Repeat ==
    /\ pending /\ performed = 1
    /\ performed' = 0
    /\ UNCHANGED <<pending, allowed, outcome>>

Return ==
    /\ pending /\ performed = 1
    /\ pending' = FALSE /\ outcome' \in allowed
    /\ UNCHANGED <<performed, allowed>>

RemoteCallNext == Invoke \/ Skip \/ Perform \/ Repeat \/ Return

RemoteCallSpec == Idle /\ [][RemoteCallNext]_callVars
=============================================================================
