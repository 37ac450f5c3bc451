------------------------------- MODULE Thread -------------------------------
(***************************************************************************)
(* class Thread of libraries/ArduinoThread: an object that says whether    *)
(* its callback is due.  It holds no thread of control; the main loop asks *)
(* shouldRun and calls run.  Times are values of millis(), an unsigned     *)
(* counter that wraps at Modulus (2^32 on the board).                      *)
(***************************************************************************)
EXTENDS Integers

CONSTANT Modulus

ASSUME ModulusAssumption == Modulus \in Nat \ {0} /\ Modulus % 2 = 0

Time == 0 .. Modulus - 1

Threads == [interval : Time, lastRun : Time, cachedNextRun : Time,
            enabled : BOOLEAN]

\* The top bit of an unsigned difference, 0x80000000 on the board.
SignBit(d) == d >= Modulus \div 2

Minus(a, b) == (a - b) % Modulus

\* Mutant: the sum is kept at full width.
MutPlus(a, b) == a + b

Plus(a, b) == (a + b) % Modulus

\* Mutant: the two times are compared as they are, wrapped or not.
MutShouldRun(t, time) == t.enabled /\ time >= t.cachedNextRun

\* Due unless the next run lies in the future, as a signed difference.
shouldRun(t, time) == t.enabled /\ ~SignBit(Minus(time, t.cachedNextRun))

\* Thread(): constructed without an interval.
Constructed(time) ==
    [interval |-> 0, lastRun |-> time, cachedNextRun |-> time, enabled |-> TRUE]

setInterval(t, i) ==
    [t EXCEPT !.interval = i, !.cachedNextRun = Plus(t.lastRun, i)]

\* Mutant: the next run is counted from the previous deadline, not from now.
MutRunned(t, time) ==
    [t EXCEPT !.lastRun = time, !.cachedNextRun = Plus(t.cachedNextRun, t.interval)]

\* Called at the end of run: the interval counts from the end of a callback.
runned(t, time) ==
    [t EXCEPT !.lastRun = time, !.cachedNextRun = Plus(time, t.interval)]
=============================================================================
