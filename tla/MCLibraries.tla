----------------------------- MODULE MCLibraries -----------------------------
(***************************************************************************)
(* The libraries the detector is built on, checked in one run.  They share *)
(* no state but the clock, so a behaviour exercises one of them and leaves *)
(* the others in a start state.                                            *)
(***************************************************************************)
EXTENDS SystemClock, TemperatureConversion, OneWireSearch, ThreadController

VARIABLE exercised

\* All addresses of four bits with a nonzero first half.
MCAddresses == {d \in [1..4 -> 0..1] : d[1] = 1 \/ d[2] = 1}

MCInit ==
    /\ exercised \in {"clock", "conversion", "search", "threads"}
    /\ ClockInit /\ ConversionInit /\ ThreadControllerInit
    /\ SearchInit /\ (exercised # "search" => present = {})

MCNext ==
    /\ UNCHANGED exercised
    /\ \/ /\ exercised = "clock" /\ ClockNext
          /\ UNCHANGED <<conversionLocals, oneWireVars, threadControllerVars>>
       \/ /\ exercised = "conversion" /\ ConversionNext
          /\ UNCHANGED <<clockLocals, oneWireVars, threadControllerVars>>
       \/ /\ exercised = "search" /\ SearchNext
          /\ UNCHANGED <<clockVars, conversionLocals, threadControllerVars>>
       \/ /\ exercised = "threads" /\ ThreadControllerNext
          /\ UNCHANGED <<clockVars, conversionLocals, oneWireVars>>
=============================================================================
