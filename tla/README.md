# A verification project for SmartSmokeDetector

SmartSmokeDetector is an Arduino program (`src/Main/Main.ino`) for a board with a
WiFi module. It samples a smoke sensor, a carbon monoxide sensor and a
thermometer, sounds a siren and lights an LED on danger, and serves a web page
from which a person can toggle the siren and the lights, hush the alarm and see
the readings. This directory holds TLA+ modules translated from that source,
the configurations that check them with TLC, and proofs checked with TLAPS.

## The system

Everything runs on one thread. `setup` waits for the network; then `loop`
alternates two callbacks. The libraries in `src/libraries` that `Main.ino`
includes are part of the system, as far as it uses them.

| Part | Source | State | Operations |
|---|---|---|---|
| Detector | `Main.ino` `Controller`, `CarbonDetector` | `readingsSaved`, current and average readings, warm-up flags, siren, lights, `hushing`, `hushEnd` | `loop` = `getSensorData`, `logData`, `interpretData`, hush expiry; `toggleLights`, `toggleAlarm`, `hushAlarm` |
| Web server | `Main.ino` `HostServer.loop` | one activation per nested call: client and `currentLine` | accept, read a character, execute a command, send the page, hang up |
| Network set-up | `Main.ino` `SetupServer`, `WiFi.cpp` | `status`, attempts | check the module, retry until connected |
| Scheduler | `Main.ino` `setup`/`loop`, `Thread.cpp` | two `Thread` objects | `shouldRun`, `run`, `delay(50)` |
| System clock | `Time.cpp` `now` | `sysTime`, `prevMillis` | count the seconds since the last call |
| Thermometer | `DallasTemperature.cpp` | flags, device count | start a conversion, wait for it, read it |
| 1-Wire bus | `OneWire.cpp` | `ROM_NO`, `LastDiscrepancy`, `LastDeviceFlag` | `reset_search`, `search` |
| Sockets | `WiFiServer.cpp`, `WiFiClient.cpp`, `WiFiSocketBuffer.cpp` | `_lastSock`, `_sock`, one buffer per socket | `available`, `connected`, `read`, `stop` |
| SPI protocol | `spi_drv.cpp`, `server_drv.cpp`, `wifi_drv.cpp` | `initialized`, the pins SLAVESELECT and SLAVEREADY | one transfer with the command, one with the reply; `begin`, `end` |
| Thread lists | `ThreadController.cpp` | array with holes, `cached_size` | `add`, `remove`, `clear`, `run`; not used by `Main.ino` |

How they interact: the scheduler calls the detector's `loop` and the server's
`loop`; the server calls the detector's toggles and `hushAlarm` in the middle of
a request and reads its fields for the page; both read `now()`; the detector
waits on the thermometer in every run; the server calls the sockets, which call
the module over SPI.

What is hard about it:

* one thread: a client, a thermometer or a network that does not answer stops
  detection; and only the details of the scheduler keep the server from starving;
* three separate comparisons of times on a millisecond clock that wraps;
* a sampling schedule spread over `readingsSaved % 41`, `% 40`, `% 20` and `% 60`,
  with a carbon monoxide reading that is undefined at one of its positions;
* a request parser that looks for commands after every character, and a command
  (`/refresh`) that calls the server from inside itself, on socket numbers that
  are freed and handed out again;
* a thermometer bus whose devices may come and go in the middle of a search;
* a WiFi module on the other side of two pins, whose replies may be late, damaged
  or missing, and a driver that then returns what its callers cannot tell from an
  answer;
* a list of threads that changes while it is run.

`PROJECT.json` lists these as hazards, each with its line and the properties aimed at it.

What makes each part correct: the detector raises the alarm on sound evidence
only, within a bounded number of runs, never during a hush, and ends hushes; the
scheduler starves nobody and keeps the pauses; the server executes each command
once, mixes up no clients, answers everyone and returns; the clock tells the
time; a conversion's wait ends; a search enumerates the devices; a call to the
module performs its command once and never returns the answer to another; a
list of threads keeps its size right and skips nobody.

## The modules

| Module | Models | Composes |
|---|---|---|
| `Controller` | the detector | implements `AlarmSpec` |
| `AlarmSpec` | what the detector promises: abstract, no sensors, schedule or averages | |
| `Thread` | class `Thread` on wrapping times (operators, no state) | |
| `MainLoop` | `setup` and `loop`; a callback is a stretch of time | `Thread` |
| `HostServer` | the server on top of the sockets; browsers and WiFi module are external | |
| `SmartSmokeDetector` | server and detector on one thread | `HostServer`, `AlarmSpec` |
| `NetworkSetup` | `SetupServer`, `WiFi.begin`, `WiFiServer::begin`; network and WiFi module are external | |
| `RemoteCall` | what `ServerDrv` and `WiFiDrv` promise their callers, per kind of call: abstract, no bytes or pins | |
| `DriverCommands` | the command of every function of `ServerDrv` and `WiFiDrv`: bytes, padding, reader, default (no state) | |
| `SpiDriver` | both transfers of such a command, and the pins; the WiFi module is external | `DriverCommands`, implements `RemoteCall` |
| `Millis` | the wrapping millisecond clock (shared variable) | |
| `SystemClock` | `now()` | `Millis` |
| `TemperatureConversion` | the wait for the thermometer | `Millis` |
| `OneWireSearch` | the search on the 1-Wire bus | |
| `ThreadController` | a list of threads, run by the program or from a timer interrupt | |
| `MCLibraries` | the last four in one run; each behaviour exercises one | the four |

A module named `..._proofs` holds the theorems about the module it is named after.
`HostServerRequests_proofs` is the second part of those about `HostServer`: what it makes of
a request. `Libraries_proofs` is about `SystemClock`, `TemperatureConversion`,
`OneWireSearch` and `ThreadController`. Modules named
`MC...` give constants their values. A definition named `Mut...` is
a plausible bug: each property of a passing run is violated when one definition
of the code is replaced by one of these, which shows that it depends on the code.

### Controller

One action per call: `loop`, `toggleLights`, `toggleAlarm`, `hushAlarm`, and `Tick`
for a second that passes. `loop` is atomic, because nothing else runs during it
and the only time it uses is the one it reads last; a second that passes inside
it is a `Tick` before it. `hushEnd - now()` is kept instead of the two clocks.
`averageReadings` is abstracted to whether an average is still a finite number, and
the temperature is left out: no decision reads either. The smoke sensor is read
in every run and can return anything.

`getReading` of the carbon monoxide sensor has no `return` for a sensor that is not
warm, which is undefined behaviour; so has `interpretData`, whose result nobody
uses. The model lets the call return an arbitrary value, as the boards' compiler
(GCC 7) does; a compiler that treats the missing `return` as unreachable code
would need a different model of both functions.

### MainLoop, Thread

`millis` wraps at `Modulus`. Time passes at every place of the program: `Longest`
bounds how much, per place. `sinceOffline` and `sinceServer` are true times since
a thread was stamped; the properties compare them with what the code concludes
from the wrapped clock. `hasRun` is history too: only the first run of the detector may be
as late as `setup` was long.

### HostServer, SmartSmokeDetector

A request is a sequence of tokens. A command token stands for the characters up
to the end of `GET /<command>`, `text` for any others, and `CR` and `LF` for
themselves. Requests follow HTTP/1.x: text (the version) follows the
command on its line. The state of the program is the stack of activations of
`HostServer.loop`; its socket calls are split wherever the module is asked
twice, so that bytes, a new connection or a close can come in between
(`enter`, `state`, `again`, `avail` in `WiFiServer::available`; `while`, `status` in
`WiFiClient::connected`). The host's bytes carry the client they came from, which
only the properties look at.

External and assumed: the module gives a slot to a connection when the host asks,
and frees it when the host stops it or learns that it is over; what a client
sent is delivered even if it closes.

A reply of the module may be broken, `MaxBroken` times in a behaviour. The module
has done what it was asked to by then, as `SpiDriver` shows; what the program
gets is the default that the driver returns:

| Command | Broken reply reads as | Consequence |
|---|---|---|
| `getDataBuf` | 1500 bytes | old memory (`Junk`) is parsed as a request, and what had arrived is lost |
| `availServer` | slot 0 | the server waits on a connection that nobody made, or takes one from an outer activation |
| `getClientState` | `CLOSED` | the host forgets a connection that lives on in the module |

Junk is a member of a set of token sequences, marked as coming from no client, so that
`NoStaleBytes` still tells whether bytes of *another* client get in.

`SmartSmokeDetector` adds the detector as `AlarmSpec`, which `Controller` implements,
so that its 62 positions need not be multiplied with the server's states.

### NetworkSetup

An exchange with the module over SPI may break at any call; its caller then goes on
with the value it had initialised the reply with (`WL_NO_MODULE` for a status,
`WL_CONNECT_FAILED` for the name of the network, no socket). The network goes down
and up; the module joins one that is up within `JoinTime` polls, fewer than the
`Patience` of `WiFi.begin` (500 polls of 100 ms). The program's halt when it finds no
module is a state of the model with no way out.

### RemoteCall, DriverCommands, SpiDriver

A call is a record: the bytes of the command, its padding, the function that
reads the reply, what the call returns without one. `ServerCommands` and
`NetworkCommands` list all functions of `ServerDrv` and those functions of `WiFiDrv` that send a
command, with the lengths of names and texts as a parameter.

The host and the module are two processes. The host waits for SLAVEREADY to be LOW,
selects the module, waits for SLAVEREADY to be HIGH, clocks its bytes, and
deselects; then the same for the reply. SLAVEREADY is still LOW from before when the
host selects, which is what makes the second wait necessary. That wait gives up
after 5 ms, which by the comment in `spiSlaveSelect` is for a module that is not
there; a module that is there is assumed to notice in time.

A reply is a sequence of classes of bytes: other bytes first (fewer or more than
the reader's patience, `TIMEOUT_CHAR`), then a good reply, one damaged in its start
byte, its command or its number of parameters, or none. `waitSpiChar` returns -1 for
an error byte, which its callers take for success, as the model does.

What a wrong number of parameters does depends on the reader (`AfterCount`), and a call
promises accordingly (`Outcomes`):

| Reader | A wrong number other than 0 | What the caller may be left with |
|---|---|---|
| `waitResponseCmd` | is compared before anything is read | the answer or none |
| `waitResponseData8`, `waitResponseData16` | is not compared; the one parameter is read | the answer or none |
| `waitResponseParams` (`getNetworkData`, `getRemoteData`) | so many parameters are stored, then it is compared and 0 returned, which the callers ignore | also a part of the answer beside old values (`mixed`), or one written past the array of parameters (`overrun`) |
| `waitResponse` (`getScanNetworks`) | is cut down to the length of the list, not compared | also a part of the list (`mixed`); if it is too high, `END_CMD` is read as the length of a name, and old bytes as the name (`mixed`, `overrun`) |

An overrun writes through whatever lies behind the array. The model records that it
happened; what it overwrites is beyond it.

### ThreadController

The array with its holes and `cached_size` beside it. The main program changes the
array and the size in two steps (`add` and `Count`), with a `run` from a timer interrupt
possibly in between; a callback changes both at once, while `run` is in the middle
of the array. `owed` and `removed` are history. `remove` reads an id through a null
pointer at every hole before the thread; the boards can read that address, and
the model takes no thread to have the id found there.

### Millis, SystemClock, TemperatureConversion, OneWireSearch

Each of the last three is the loop of its source with time (or the bus) moving between the steps.
`SystemClock` requires that a gap between two calls leaves room for a second below
the wrap: 49 days. `TemperatureConversion` polls often enough that at most one unit
of time passes between two comparisons. In `OneWireSearch` a device joins or leaves
between any two bits, and the bus may be shorted for good.

## What is checked

| Run | Properties | Bounds |
|---|---|---|
| `detector` | `TypeOK`, `HushIsSilent`, `SmokeDetectedInTime`, `IInv`, `InterpretsWarmSample`, `ImplementsAlarm`, `HushEnds`, `CarbonDetected` | readings on both sides of each threshold, hush of 2 s; the real 62-position schedule |
| `averages` | `AveragesAreNumbers` is violated | the same |
| `scheduler` | `TypeOK`, `DetectorPunctual`, `NoEarlyRun`, `DetectorRuns`, `ServerRuns` | clock of 64 units of 50 ms, intervals 2 and 10 as in the code, callbacks up to 3 and 7, a set-up of up to 14, later than any pass of the loop may be |
| `server` | `TypeOK`, `ExactlyOnce`, `NestingBounded`, `EveryClientAnswered`, `CallbackReturns` | 2 clients, 2 slots, 2 kinds of request with and without carriage returns, 1 broken reply |
| `server_crowd` | `NoStaleBytes`, `NoPrematureHangup` | 3 clients, 2 slots, short requests, one with a body, no broken reply |
| `system` | `PageShowsEffect` | 2 clients, the requests of `server`, hush of 1 s, no broken reply |
| `network_setup` | `TypeOK`, `StartsWhenJoined`, `SetupReturns` | 4 polls, joining takes up to 2, 4 outages, 3 broken exchanges |
| `server_start` | `ServerStarted` is violated | the same |
| `libraries` | `ClockTypeOK`, `TellsTheTime`; `ConversionTypeOK`, `WaitIsBounded`, `WaitIsLongEnough`; `SearchTypeOK`, `EnumeratesAll`, `NoneTwice`, `NoMixedAddress`; `ListIsConsistent`, `NoneSkipped` | clock of 32 units, second of 5, worst case of a conversion 9, 3 wraps; addresses of 4 bits, family of 2, at most 3 devices at first, 2 changes; 4 places for 5 threads, 2 removals in a run |
| `conversion_ready` | `ReturnsWhenReady` is violated | the same clock |
| `spi` | `SpiTypeOK`, `InStep`, `PaddedToFour`, `ImplementsRemoteCall`, `CallReturns` | all commands but those of pins, names of every remainder by 4, `TIMEOUT_CHAR` 2 with up to 3 late bytes, `TIMEOUT_DATA_SENT` 3 |
| `spi_pins` | `PaddedToFour` is violated | the commands of pins |

Why the bounds are enough. The schedule of the detector is not scaled. A reading
matters only through its comparison with a threshold, so two values do. The
scheduler's and the clocks' arithmetic is the same for every modulus that leaves
room for the intervals, and every run wraps the clock several times in every
phase. Two clients show all pairs of requests; the third is there so that a slot
freed by a nested activation is given away while an outer one still holds it.
Three addresses of four bits give every shape of branching: none, nested and
side by side. One broken reply shows the server recovering from each kind at each
place; that `NoStaleBytes` and `NoPrematureHangup` survive any number of them, and that
`NestingBounded` counts them, is proved. The
driver's timeouts enter only as more or fewer than the bytes that come, so each is
cut down to a number that can be exceeded. Four places in a list of threads
leave room for a hole before, at and behind the thread being run, and the fifth
thread finds the list full. Symmetry is used over clients, in runs without
liveness only.

Fairness. `Controller`: `loop` is called again and again (`MainLoop`'s `DetectorRuns`)
and seconds pass. `MainLoop`: time passes and every callback returns.
`NetworkSetup`: the program goes on and the module joins a network that is up.
`HostServer`: the callback is called again, the program goes on, and a client that
is connected eventually sends all of its request or closes, and after a broken
reply, which may have cost a client its page, clients do not wait for ever. These
assumptions on clients are about the browsers, not the code: `HostServer.loop` has no timeout, and one
client that stays connected and silent blocks server and detector for as long as
it likes. `CallbackReturns` and `DetectorRuns` are therefore conditional on it.
`SpiDriver`: neither the host nor the module stops in a call; `waitForSlaveReady` has
no timeout, so a module that hangs stops the program, detection included.

What the four violations show:

* `AveragesAreNumbers`: `readingsSaved / 1500` is an integer division that yields 0,
  and `readingsSaved` is 0 after a wrap. The averages are useless, and unused.
* `ServerStarted`: a broken exchange in `WiFiServer::begin` leaves no server and no trace of it.
* `ReturnsWhenReady`: `millis() - delms < now` is false at once just after the boot
  or a wrap, and the reading that follows is that of the previous conversion.
* `PaddedToFour` (run `spi_pins`): the commands of `pinMode`, `digitalWrite` and `analogWrite`
  are 8 bytes and are padded to 9, under a comment that says a multiple of 4.

Seen while reading, without a run: `Main.ino:309` says milliseconds for what is
seconds, `Main.ino:294` requires a rise in temperature that the condition below
has commented out, `Thread.cpp:38` says that a thread
runs once its limit is exceeded, which is not so from half the period of `millis()`
(24.8 days) on, `waitResponseParams` notices a wrong number of parameters only after it has
stored them (`spi_drv.cpp:354`), `Main.ino:139` takes `HIGH` for 255 where it is 1,
`Main.ino:423` labels degrees Fahrenheit with C, and the cached calendar fields of
`Time.cpp` are wrong for a time of 0, which the cache starts with, and after
`setTime` with fields, which overwrites them without noting the time they belong to
(the program uses neither).

## What is proved

Every theorem is about the specification that TLC runs, without fairness, for all
values of the constants that satisfy the module's named assumptions
(`ThresholdAssumption`, `HushTimeAssumption`, `ReadingAssumption` for the detector;
`SchedulerAssumption` and `ModulusAssumption`, `ServerAssumption`, `PatienceAssumption`,
`SpiAssumption`, `MillisAssumption` with `ClockAssumption` or `ConversionAssumption`,
`SearchAssumption`, `ThreadControllerAssumption` for the others). Each module of
proofs has an inductive invariant, one step per action, and derives the
properties from it. Type correctness is a theorem everywhere but in
`ThreadController`, whose typing is part of its invariant.

| Module of proofs | Also proves | Of |
|---|---|---|
| `Controller_proofs` | `HushIsSilent`, `SmokeDetectedInTime`, `IInv`, `InterpretsWarmSample`, `ImplementsAlarm` | all thresholds, hush times, readings |
| `MainLoop_proofs` | `NoEarlyRun`, `DetectorPunctual` | all even periods of the clock, intervals up to half of it, lengths of callbacks |
| `HostServer_proofs` | `NoStaleBytes`, `NoPrematureHangup` | any clients, slots, requests, nesting, broken replies |
| `HostServerRequests_proofs` | `ExactlyOnce`, `NestingBounded`, and that the server stays with a client from a command to its page | any clients (finitely many, for `NestingBounded`), slots, splitting and nesting, requests as below |
| `SmartSmokeDetector_proofs` | `PageShowsEffect` | the same, hush times, and any moments at which the detector runs |
| `NetworkSetup_proofs` | `StartsWhenJoined` | any patience, outages, broken exchanges |
| `SpiDriver_proofs` | `InStep`, `ImplementsRemoteCall`, `PaddedToFour` | any commands, timeouts, late bytes |
| `Libraries_proofs` | `TellsTheTime`, `WaitIsBounded`, `WaitIsLongEnough` | all periods, seconds, worst cases |
| | `EnumeratesAll`, `NoneTwice`, `NoMixedAddress` | all lengths of addresses, devices, changes |
| | `ListIsConsistent`, `NoneSkipped` | all lengths of the array, threads |

Why the properties are not inductive by themselves, and what is:

*Detector, the reading.* Whether an interpretation looks at a proper sample depends on what
the heater did up to 41 runs earlier. `HeaterSchedule` says it position by position:
past 20 the first warm-up is done, at 41 the second is done too, and past 41 the
stored reading is the sample. Position 0 stores an undefined value, and the
interpretation of that run cannot happen because its counter becomes 1; the
one at counter 0 happens on the run that starts at 61, when the sample is
still the last value stored. `Refinement` needs this as well: `AlarmSpec` may
raise the alarm on sound evidence only.

*Detector, the response to smoke.* `dangerRun` counts undisturbed runs with smoke. `DangerIsRecent`
bounds it by the distance to the last interpretation, `readingsSaved % 60`, as
long as the siren is off; an interpretation turns the siren on or finds
`dangerRun` at 0. As the distance is below 60, `SmokeDetectedInTime` follows.

*Scheduler.* The wrapped stamps and the true ages of the threads are related: the
age modulo the period is what the code computes. `NoEarlyRun` follows for callbacks of any
length, because a difference of wrapped times can only be too small. `DetectorPunctual`
cannot hold for any length: from half the period (24.8 days) on the sign of the
difference flips, and the detector waits. It is therefore proved under `ShortStretches`,
that set-up, a run of the server and the idle delay each are shorter than
that, from a timetable that says how late the detector can be at every place of the loop.
Until the detector has run once (`hasRun`) the first question of `loop` may come as late as
`setup` was long; the timetable says that it is answered with yes then, and from there on
set-up plays no part.

*Server.* A line of characters belongs to the client that has the activation's
slot, although slots are freed and handed out while outer activations keep the
number. What makes it true is `OuterWaits`: an activation is left behind only by `/refresh`,
which clears the line first, so all but the innermost have none. With it
go `TopHolds` (the innermost activation's slot is still its client's unless
it forgot it), `BuffersOwned`, `SlotsHeld` (a slot is held for one client, not done)
and `AnsweredLeave`. A broken reply puts only junk into a buffer, so the
invariant needs no bound on them. `NoPrematureHangup` follows with `StopsAnswered`: whoever
has the slot of an activation at its stop was answered, because only the page leads there with
a slot, and only a connection that is over is released anywhere else.

*Server, a request.* `ExactlyOnce` and `NestingBounded` are about what has been read of a
request, which no variable says. The proofs define it: of a request, `Sent` bytes have left the client, `Fetched`
have left the module, `Held` are in the buffer of the client's slot, and `Passed`
have been read by `loop` or never will be. `InOrder` says that these parts lie one
after the other in the request, and how each step moves the borders is one lemma per kind of step
(bytes fetched, one byte taken, a slot given up, a slot given away). Then

* `Counts`: while no reply was broken, the calls executed for a client are the toggles among
  the first `Passed` tokens of its request, and a command at the end of the line is the byte that
  was read last. The second part is what keeps a carriage return from repeating a command.
* `NestingInvariant`: the activations beyond the first, the requests whose refresh is still to be
  read and the buffers that hold a refresh as junk are together at most as many as the requests for a refresh and
  the broken replies. A step that enters `loop` moves one from the second or third to
  the first; a broken reply pays for the junk it brings.
* `ServesInvariant`: who has had a command executed and has no page yet is the client of
  the innermost activation, which is in its `while`. As a request has one command, no
  refresh follows it, and as long as the client is there `loop` has no way out but the page.

What a request is enters as hypotheses, which are facts of HTTP: it holds one command
(`OneCommand`), in its first line (`InFirstLine`), with the version after it (`VersionFollows`). The code
needs them. It looks for commands after every character, carriage returns included,
so `GET /hush` followed at once by one would be carried out twice, a line of a body that ends in a command would be
executed after the headers, and a refresh after a toggle would serve
somebody else before the page. `NestingBounded` needs that a request, or junk, holds one refresh
(`OneRefresh`); old memory of a buffer could hold more, and each would nest. The instances `MCHostServer` and
`MCSmartSmokeDetector` assume the hypotheses (`RequestsAssumption`), so that TLC confirms them of the requests it tries.

*Server and detector.* `EffectInvariant` adds to `ServesInvariant` that the alarm is as a client's
command left it while its page is owed. A step of the detector finds no callback in progress and hence nobody
owed a page; a second that passes changes nothing that the page shows; a step that executes a
command does so for the client that is owed its page now, and there is no other. A
broken reply may take the command away before it is read, hence `broken' = 0`
in `PageShowsEffect`.

*Network.* The module says connected only if it joined in the current attempt, and the
program's status says so only between the poll that saw it and the next attempt;
the default of a broken exchange is never that status.

*Driver.* The pins and the two positions determine each other step by step of the
handshake: a select that has not been noticed is the only time when SLAVEREADY is
LOW in a transfer. `InStep` is what the refinement needs: the command is performed
once between the two transfers, so that a byte read is of its own reply. `Resulting`
adds that only the readers that store one parameter after the other ever come to
`mixed` or `overrun`, and `WellFormed` that the parameters read are those of the reply.
`PaddedToFour` is proved for names of every length, for calls from
`ServerCommands(Nat)` and `NetworkCommands(Nat)`.

*Clock and conversion.* `sysTime` and `prevMillis` split the time that has passed: the
seconds counted, times the length of a second, plus what is left is the true time. The wait that goes on
has lasted less than the worst case, measured on a clock that may have wrapped.

*Search.* The path of the current search divides the devices into those on its
left, which are the ones found, and those at and to the right of it; the last
place where a 0 was taken is the last place where something is left on the right.
This holds until the bus changes; what a changed bus can still not do
(`NoMixedAddress`) needs only that some device listened to the end.

*List of threads.* The checks counted are at most the occupied slots passed plus
the threads removed meanwhile, and what `run` owes is ahead of it. When it stops early, all
counted threads but at most one removed one are behind it. That the bound is `<=`
rather than `<` is what absorbs one removal or one thread not counted yet.

Every safety property of a passing run is a theorem. Model-checked only is what is about liveness and
fairness (`HushEnds`, `CarbonDetected`, `DetectorRuns`, `ServerRuns`, `SetupReturns`, `EveryClientAnswered`,
`CallbackReturns`, `CallReturns`), which the prover does not handle.

## Not modelled

* A WiFi module that hangs, that takes more than 5 ms to notice a select (the two sides get
  out of step, and the code has no way back but a reset), or whose reply breaks inside its
  parameters; the parameters themselves, by content.
* The branch of `blockTillConversionComplete` for thermometers on parasite power, which waits for the worst
  case by `delay` and asks nothing; and what happens to the bus between reading a bit of an address and
  its complement, which `OneWireSearch` takes in one step.
* Outgoing connections, UDP and TLS as used by a program: their driver calls are among the
  commands of `SpiDriver`, but `Main.ino` makes none.
* `setTime`, `adjustTime`, the sync provider and the calendar of `Time.cpp`; scratchpads, resolutions and
  user data of the thermometer; CRCs and bit timing of 1-Wire. `Main.ino` calls
  none of the first, and no decision reads the temperature.
* The HTML of the page, tones and pin levels: output without feedback.
* Memory: how much stack an activation of the server takes on the board. `NestingBounded` bounds the
  depth by the requests that come, which bounds no memory.
* `StaticThreadController`, a template over an array that never changes.
* `Servo` and `Adafruit_Circuit_Playground` are not included by the program, and `Old` is not
  built. They are most of the repository's lines: modelling them would say nothing about
  the smoke detector.

## Plan

Done: the detector with its abstract specification, scheduler, server with broken replies, their
composition, network set-up, driver with its abstract specification, clock, conversion,
search, list of threads, and proofs of the safety properties of each of them. Left, in this order:

1. Detector end to end: `MainLoop` with `Controller` and `HostServer` as callbacks, so
   that smoke sounds the siren if every client finishes. At present this is the
   conjunction of `CallbackReturns`, `DetectorRuns` and `SmokeDetectedInTime`.
2. A model of a module that is slow to notice a select, to show how far the two sides get out of step.
