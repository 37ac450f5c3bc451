-------------------------- MODULE ThreadController --------------------------
(***************************************************************************)
(* class ThreadController of libraries/ArduinoThread: a list of threads    *)
(* kept in a fixed array with holes, and its size kept beside it.  run     *)
(* goes through the array and stops once it has checked more threads than  *)
(* that size, while the callbacks it calls may change the list.            *)
(*                                                                         *)
(* The README of the library suggests to call run from a timer interrupt:  *)
(* it may come between the two assignments with which add or remove of the *)
(* main program change the array and its size.  In such a run callbacks    *)
(* are taken to leave the list alone.                                      *)
(***************************************************************************)
EXTENDS Integers, FiniteSets

CONSTANTS
    MaxThreads,    \* MAX_THREADS, 15 in the code
    ThreadIds,     \* the threads of the program
    NoThread,      \* a hole, NULL
    MaxRemovals    \* bound: threads that the callbacks of one run remove

ASSUME ThreadControllerAssumption ==
    /\ MaxThreads \in Nat /\ MaxRemovals \in Nat
    /\ IsFiniteSet(ThreadIds) /\ NoThread \notin ThreadIds

VARIABLES
    thread,        \* the array
    cached_size,
    uncounted,     \* change of the array that cached_size does not show yet
    index,         \* local i of run, or -1 outside of it
    checks,        \* local of run
    due,           \* threads whose time had come when run read the clock
    running,       \* the thread whose callback is running, or NoThread
    owed,          \* history: due and listed since run began, not run yet
    removed        \* history: threads removed since run began

runVars  == <<index, checks, due, running>>
listVars == <<thread, cached_size, uncounted>>
threadControllerVars == <<listVars, runVars, owed, removed>>

Slots == 0 .. MaxThreads - 1

Listed == {t \in ThreadIds : \E i \in Slots : thread[i] = t}

Occupied == {i \in Slots : thread[i] # NoThread}

\* ThreadController(): clear().
ThreadControllerInit ==
    /\ thread = [i \in Slots |-> NoThread]
    /\ cached_size = 0 /\ uncounted = 0
    /\ index = -1 /\ checks = 0 /\ due = {} /\ running = NoThread
    /\ owed = {} /\ removed = 0

-----------------------------------------------------------------------------
(* The list *)

\* The main program, between two statements, or a callback of run.
MayChange == /\ uncounted = 0
             /\ index = -1 \/ (running # NoThread /\ removed < MaxRemovals)

\* cached_size changes with the array in a callback, but in the main program a
\* timer interrupt may come first.
Resize(n) ==
    IF index = -1 THEN uncounted' = n /\ UNCHANGED cached_size
                  ELSE cached_size' = cached_size + n /\ UNCHANGED uncounted

Count ==
    /\ index = -1 /\ uncounted # 0
    /\ cached_size' = cached_size + uncounted /\ uncounted' = 0
    /\ UNCHANGED <<thread, runVars, owed, removed>>

\* Mutant: a hole is taken without looking for the thread first.
MutFits(t, i) == i \notin Occupied /\ \A j \in Slots : j < i => j \in Occupied

\* The first hole, for a thread that is not in the list.
Fits(t, i) ==
    /\ t \notin Listed
    /\ i \notin Occupied /\ \A j \in Slots : j < i => j \in Occupied

\* add(t); it changes nothing if t is listed or no slot is free.
add(t) ==
    /\ MayChange
    /\ \E i \in Slots :
          /\ Fits(t, i)
          /\ thread' = [thread EXCEPT ![i] = t]
          /\ Resize(1)
    /\ UNCHANGED <<runVars, owed, removed>>

\* remove(t).  The code reads ThreadID through the NULL of every hole before t;
\* the boards can read that address, and no thread has what they find as its id.
remove(t) ==
    /\ MayChange
    /\ \E i \in Slots :
          /\ thread[i] = t
          /\ \A j \in Slots : j < i => thread[j] # t
          /\ thread' = [thread EXCEPT ![i] = NoThread]
    /\ Resize(-1)
    /\ owed' = owed \ {t}
    /\ removed' = IF index = -1 THEN 0 ELSE removed + 1
    /\ UNCHANGED runVars

\* clear() by the main program.
clear ==
    /\ MayChange /\ index = -1
    /\ thread' = [i \in Slots |-> NoThread] /\ cached_size' = 0
    /\ UNCHANGED <<uncounted, runVars, owed, removed>>

-----------------------------------------------------------------------------
(* run *)

\* The clock is read once; any threads may be due.
RunBegins ==
    /\ index = -1
    /\ index' = 0 /\ checks' = 0
    /\ due' \in SUBSET ThreadIds
    /\ owed' = due' \cap Listed /\ removed' = 0
    /\ UNCHANGED <<listVars, running>>

\* Mutant: as many checks as there are threads.
MutMoreToCheck == index < MaxThreads /\ checks < cached_size

MoreToCheck == index < MaxThreads /\ checks <= cached_size

\* A slot is looked at, and the callback of a thread that is due is called.
Check ==
    /\ index # -1 /\ running = NoThread /\ MoreToCheck
    /\ checks' = IF index \in Occupied THEN checks + 1 ELSE checks
    /\ IF index \in Occupied /\ thread[index] \in due
       THEN running' = thread[index] /\ UNCHANGED index
       ELSE index' = index + 1 /\ UNCHANGED running
    /\ UNCHANGED <<listVars, due, owed, removed>>

\* The callback returns, and Thread::run stamps the thread.
CallbackDone ==
    /\ running # NoThread
    /\ due' = due \ {running} /\ owed' = owed \ {running}
    /\ running' = NoThread /\ index' = index + 1
    /\ UNCHANGED <<listVars, checks, removed>>

RunEnds ==
    /\ index # -1 /\ running = NoThread /\ ~MoreToCheck
    /\ index' = -1 /\ checks' = 0 /\ due' = {}
    /\ owed' = {} /\ removed' = 0
    /\ UNCHANGED <<listVars, running>>

ThreadControllerNext ==
    \/ \E t \in ThreadIds : add(t) \/ remove(t)
    \/ Count \/ clear
    \/ RunBegins \/ Check \/ CallbackDone \/ RunEnds

ThreadControllerSpec ==
    ThreadControllerInit /\ [][ThreadControllerNext]_threadControllerVars

-----------------------------------------------------------------------------
(* Properties *)

\* The size kept beside the array is that of the array, but for the change in
\* progress, and no thread is in it twice, although threads are added to and
\* removed from anywhere in it, by the program and by the callbacks.
ListIsConsistent ==
    /\ cached_size + uncounted = Cardinality(Occupied)
    /\ \A i, j \in Occupied : thread[i] = thread[j] => i = j

\* run skips no thread that was due and listed all the while: neither when it
\* interrupts an add that is not counted yet, nor when a callback removes one
\* thread, itself or another one.  (After two removals it may.)
NoneSkipped == [][RunEnds /\ removed <= 1 => owed = {}]_threadControllerVars
=============================================================================
