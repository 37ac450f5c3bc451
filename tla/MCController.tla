---------------------------- MODULE MCController ----------------------------
(* Instances of Controller for TLC: readings on both sides of thresholds. *)
EXTENDS Controller

MCSmokeReadings  == {0, 1}     \* MAXSMOKE is 0: at the threshold, above it
MCCarbonReadings == {0, 1}     \* MAXCARBON is 1: below it, at the threshold
=============================================================================
