---------------------------- MODULE MCHostServer ----------------------------
(* Instances of HostServer for TLC. *)
EXTENDS HostServer

CONSTANTS a, b

\* A command and a refresh, with and without carriage returns.
MCRequests == { <<"hush", "text", "LF", "CR", "LF">>,
                <<"refresh", "text", "LF", "LF">> }

MCSlots == {0, 1}

\* ... the shortest ones, and a body that the server does not read.
MCShortRequests == { <<"hush", "text", "LF", "LF", "text">>,
                     <<"refresh", "text", "LF", "LF">> }

\* Memory that once held a request, or part of one.
MCJunk == { <<"refresh", "LF">> }

\* The requests are as the theorems need them.
ASSUME RequestsAssumption ==
    /\ \A r \in Requests : OneCommand(r) /\ InFirstLine(r) /\ VersionFollows(r)
    /\ \A j \in Junk : OneRefresh(j)

MCSymmetry == Permutations(Clients)
=============================================================================
