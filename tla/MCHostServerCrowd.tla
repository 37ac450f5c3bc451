-------------------------- MODULE MCHostServerCrowd -------------------------
(* An instance of HostServer for TLC with more clients than slots. *)
EXTENDS MCHostServer

CONSTANT c
=============================================================================
