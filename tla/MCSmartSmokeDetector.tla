------------------------ MODULE MCSmartSmokeDetector ------------------------
(* An instance of SmartSmokeDetector for TLC. *)
EXTENDS SmartSmokeDetector

CONSTANTS a, b

MCSlots == {0, 1}

MCRequests == { <<"toggleAlarm", "text", "LF", "LF">>,
                <<"toggleSpotlight", "text", "LF", "LF">>,
                <<"hush", "text", "LF", "LF">>,
                <<"refresh", "text", "LF", "LF">> }

MCJunk == {}

\* The requests are as the theorems need them.
ASSUME RequestsAssumption ==
    /\ \A r \in Requests : OneCommand(r) /\ InFirstLine(r) /\ VersionFollows(r)
    /\ \A j \in Junk : OneRefresh(j)

MCSymmetry == Permutations(Clients)
=============================================================================
