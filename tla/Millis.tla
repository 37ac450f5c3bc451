------------------------------- MODULE Millis -------------------------------
(***************************************************************************)
(* The clock of the board as the libraries read it: millis(), an unsigned  *)
(* counter that wraps.                                                     *)
(***************************************************************************)
EXTENDS Integers

CONSTANT Modulus       \* 2^32 on the board

ASSUME MillisAssumption == Modulus \in Nat \ {0}

VARIABLE millis

Instants == 0 .. Modulus - 1

\* A unit of time passes.
Advance == millis' = (millis + 1) % Modulus

\* The unsigned difference millis() - t.
Since(t) == (millis - t) % Modulus
=============================================================================
