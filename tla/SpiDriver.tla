------------------------------ MODULE SpiDriver ------------------------------
(***************************************************************************)
(* A call of ServerDrv or WiFiDrv of libraries/WiFiNINA: SpiDrv sends the  *)
(* command to the WiFi module in one transfer and reads the reply in       *)
(* another.  Two processes keep in step by two pins.  The host selects the *)
(* module for a transfer (SLAVESELECT) and waits before it until the       *)
(* module is ready (SLAVEREADY is LOW) and after it until the module has   *)
(* noticed (SLAVEREADY is HIGH).                                           *)
(*                                                                         *)
(* The module is external.  It takes a command in one transfer, performs   *)
(* it and gives its reply in the next one.  A reply may come late, be      *)
(* damaged up to the number of its parameters, or be missing.  A module    *)
(* that is present notices a select within the 5 ms that spiSlaveSelect    *)
(* waits for it, as a comment there says.                                  *)
(***************************************************************************)
EXTENDS DriverCommands, Sequences

CONSTANTS
    Calls,             \* the commands of this instance
    NoCall,
    TIMEOUT_CHAR,      \* 1000 in the code
    TIMEOUT_DATA_SENT, \* 25 in the code
    MaxLate            \* bound: bytes that the module sends before its reply

ASSUME SpiAssumption ==
    /\ NoCall \notin Calls
    /\ \A c \in Calls : /\ c.bytes \in Nat /\ c.pad \in Nat
                       /\ c.broken \notin {"none", "answer", "no", "stale", "mixed", "overrun"}
    /\ TIMEOUT_CHAR \in Nat /\ TIMEOUT_DATA_SENT \in Nat \ {0} /\ MaxLate \in Nat

VARIABLES
    initialized,   \* SpiDrv::initialized
    at,            \* where the host is in a call
    call,
    selected,      \* SLAVESELECT is LOW
    sent,          \* bytes of the command transfer
    tried,         \* bytes that waitSpiChar has read in vain
    timeout,       \* local of checkDataSent
    result,        \* what the call leaves with its caller: "answer", what broken
                   \* says, "mixed" or "overrun"
    ready,         \* SLAVEREADY is LOW
    phase,         \* what the module does
    reply,         \* what it has yet to send
    performed      \* history: commands performed since one was last sent

hostVars   == <<initialized, at, call, selected, sent, tried, timeout, result>>
moduleVars == <<ready, phase, reply, performed>>
spiVars    == <<hostVars, moduleVars>>

\* "first", "second": about to wait for the module; "command", "reply": it is
\* selected; "start", "header", "count": reading; "data": about to read the
\* parameters; "mixed", "overrun": about to store fewer or more than were expected;
\* "over": about to deselect.
Places == {"idle", "first", "command", "send", "second", "reply", "start", "header",
           "count", "data", "mixed", "overrun", "over"}

\* "off": in reset; "boot": starting; "work": performing a command; "rest": its
\* reply was read.
Phases == {"off", "boot", "receive", "work", "respond", "rest"}

\* Bytes of a reply: "reply" is the code of the command with REPLY_FLAG.  In the
\* place of the number of parameters "count" is the right one, "fewer" and "more"
\* are others and "zero" is a 0.  "answer" stands for parameters with a nonzero
\* first value and "no" for those with a zero one, with their lengths.
Numbers == {"count", "fewer", "more"}

Values == {"answer", "no"}

Damaged == {<<>>, <<"ERR", "zero">>, <<"START", "other">>,
            <<"START", "reply", "zero">>}

\* The readers of several parameters, which store each as they read it.  The
\* others expect one.
Storing == {"waitResponseParams", "waitResponse"}

NumbersTo(c) == IF c.reader \in Storing THEN Numbers ELSE Numbers \ {"fewer"}

RepliesTo(c) ==
    {[i \in 1 .. late |-> "other"] \o r :
        late \in 0 .. MaxLate,
        r \in Damaged \cup {<<start, "reply", number, value>> :
                 start \in {"START", "ERR"}, number \in NumbersTo(c), value \in Values}}

\* What availData and availServer return without asking.
Unasked(c) == IF c = availServer THEN "255" ELSE "0"

Results == {"none", "answer", "no", "stale", "mixed", "overrun"}
              \cup {c.broken : c \in Calls} \cup {Unasked(c) : c \in Calls}

SpiTypeOK ==
    /\ initialized \in BOOLEAN /\ selected \in BOOLEAN /\ ready \in BOOLEAN
    /\ at \in Places /\ phase \in Phases
    /\ call \in Calls \cup {NoCall}
    /\ at # "idle" => call \in Calls
    /\ sent \in Nat /\ tried \in 0 .. TIMEOUT_CHAR /\ timeout \in 0 .. TIMEOUT_DATA_SENT
    /\ result \in Results
    /\ reply \in Seq({"START", "ERR", "reply", "zero", "other"} \cup Numbers \cup Values)
    /\ performed \in Nat

SpiInit ==
    /\ initialized = FALSE
    /\ at = "idle" /\ call = NoCall /\ selected = FALSE
    /\ sent = 0 /\ tried = 0 /\ timeout = 0 /\ result = "none"
    /\ ready = FALSE /\ phase = "off" /\ reply = <<>> /\ performed = 0

-----------------------------------------------------------------------------
(* The module *)

Boot ==
    /\ phase = "boot"
    /\ phase' = "receive" /\ ready' = TRUE
    /\ UNCHANGED <<hostVars, reply, performed>>

Notice ==
    /\ selected /\ ready
    /\ ready' = FALSE
    /\ UNCHANGED <<hostVars, phase, reply, performed>>

Perform ==
    /\ phase = "work"
    /\ phase' = "respond" /\ ready' = TRUE
    /\ reply' \in RepliesTo(call)
    /\ performed' = performed + 1
    /\ UNCHANGED hostVars

NextCommand ==
    /\ phase = "rest"
    /\ phase' = "receive" /\ ready' = TRUE
    /\ UNCHANGED <<hostVars, reply, performed>>

\* What a transfer that ends leaves the module with.
PhaseAfterTransfer ==
    CASE phase = "receive" -> "work"
      [] phase = "respond" -> "rest"
      [] OTHER             -> phase

\* The byte the host gets when it clocks the module.
Byte == IF phase = "respond" /\ reply # <<>> THEN Head(reply) ELSE "other"

Clock == /\ reply' = IF phase = "respond" /\ reply # <<>> THEN Tail(reply) ELSE reply
         /\ UNCHANGED <<ready, phase, performed>>

-----------------------------------------------------------------------------
(* The host *)

Invoke(c) ==
    /\ at = "idle"
    /\ at' = "first" /\ call' = c /\ timeout' = 0 /\ result' = "none"
    /\ performed' = 0
    /\ UNCHANGED <<initialized, selected, sent, tried, ready, phase, reply>>

\* availData and availServer return at once if !SpiDrv::available().
Skip(c) ==
    /\ at = "idle" /\ c.gated
    /\ call' = c /\ result' = Unasked(c)
    /\ UNCHANGED <<initialized, at, selected, sent, tried, timeout, moduleVars>>

\* begin() resets the module.
begin ==
    /\ at = "first" /\ ~initialized
    /\ initialized' = TRUE /\ selected' = FALSE
    /\ phase' = "boot" /\ ready' = FALSE /\ reply' = <<>>
    /\ UNCHANGED <<at, call, sent, tried, timeout, result, performed>>

\* end(), called by WiFi.end() between two calls.
end ==
    /\ at = "idle"
    /\ initialized' = FALSE /\ selected' = FALSE
    /\ phase' = "off" /\ ready' = FALSE /\ reply' = <<>>
    /\ UNCHANGED <<at, call, sent, tried, timeout, result, performed>>

\* Mutant: the host does not wait.
MutReady == TRUE

\* waitForSlaveReady(): it is left when ...
Ready == ready

\* spiSlaveSelect(): its loop is left when ...
Noticed == ~ready

\* WAIT_FOR_SLAVE_SELECT()
SelectForCommand ==
    /\ at = "first" /\ initialized /\ Ready
    /\ at' = "command" /\ selected' = TRUE
    /\ UNCHANGED <<initialized, call, sent, tried, timeout, result, moduleVars>>

SelectForReply ==
    /\ at = "second" /\ Ready
    /\ at' = "reply" /\ selected' = TRUE
    /\ UNCHANGED <<initialized, call, sent, tried, timeout, result, moduleVars>>

Selected ==
    /\ at \in {"command", "reply"} /\ Noticed
    /\ at' = IF at = "command" THEN "send" ELSE "start"
    /\ tried' = 0
    /\ UNCHANGED <<initialized, call, selected, sent, timeout, result, moduleVars>>

\* The command and its padding are sent and the module is deselected.
SendCommand ==
    /\ at = "send"
    /\ at' = "second" /\ selected' = FALSE
    /\ sent' = call.bytes + call.pad
    /\ phase' = PhaseAfterTransfer
    /\ UNCHANGED <<initialized, call, tried, timeout, result, ready, reply, performed>>

GoOn(place) == at' = place /\ UNCHANGED result

Broken == at' = "over" /\ result' = call.broken

\* Mutant: one more byte is read.
MutMoreBytes == tried <= TIMEOUT_CHAR

\* timeout-- > 0
MoreBytes == tried < TIMEOUT_CHAR

\* waitSpiChar(START_CMD).  Its -1 for an ERR_CMD counts as success.
ReadStart ==
    /\ at = "start"
    /\ IF Byte \in {"START", "ERR"} THEN GoOn("header") /\ UNCHANGED tried
       ELSE IF MoreBytes THEN GoOn("start") /\ tried' = tried + 1
       ELSE Broken /\ UNCHANGED tried
    /\ Clock
    /\ UNCHANGED <<initialized, call, selected, sent, timeout>>

\* CHECK_DATA(cmd | REPLY_FLAG, _data)
ReadHeader ==
    /\ at = "header"
    /\ IF Byte = "reply" THEN GoOn("count") ELSE Broken
    /\ Clock
    /\ UNCHANGED <<initialized, call, selected, sent, tried, timeout>>

\* Mutant: every reader compares the number only after it has stored so many.
MutAfterCount(number) ==
    {CASE number = "count" -> "data"
       [] number = "fewer" -> "mixed"
       [] number = "more"  -> "overrun"
       [] OTHER            -> "over"}

\* What a reader may do with the number of parameters.  All leave nothing to
\* return for a 0.  waitResponseCmd compares the number with the expected one before
\* it reads on; the readers of data take any.  waitResponseParams stores as many as
\* the number says, past its array if need be, and compares then.  waitResponse
\* takes up to the length of its list, so that a wrong number can come to the right
\* one; if it is too high, END_CMD is read as the length of a name.
AfterCount(number) ==
    IF number = "count" THEN {"data"}
    ELSE IF number \notin Numbers \/ call.reader = "waitResponseCmd" THEN {"over"}
    ELSE IF call.reader \notin Storing THEN {"data"}
    ELSE {IF number = "more" THEN "overrun" ELSE "mixed"}
            \cup (IF call.reader = "waitResponse" THEN {"data", "mixed"} ELSE {})

ReadCount ==
    /\ at = "count"
    /\ \E place \in AfterCount(Byte) : IF place = "over" THEN Broken ELSE GoOn(place)
    /\ Clock
    /\ UNCHANGED <<initialized, call, selected, sent, tried, timeout>>

\* The parameters and END_CMD, which is not insisted on.  The 0 that
\* waitResponseParams returns for a wrong number is ignored: its callers go on with
\* what is in their variables then, new values beside old ones, and with whatever
\* was overwritten behind them.
ReadData ==
    /\ at \in {"data", "mixed", "overrun"}
    /\ at' = "over"
    /\ result' = IF performed # 1 THEN "stale" ELSE IF at = "data" THEN Byte ELSE at
    /\ Clock
    /\ UNCHANGED <<initialized, call, selected, sent, tried, timeout>>

\* Mutant: an attempt without an answer is not counted.
MutCounted == 0

\* checkDataSent: ++timeout
Counted == timeout + 1

Unsent == call.again /\ result # "answer"

\* spiSlaveDeselect(); checkDataSent starts again while the answer is 0 ...
Repeat ==
    /\ at = "over" /\ Unsent /\ Counted < TIMEOUT_DATA_SENT
    /\ timeout' = Counted
    /\ at' = "first" /\ selected' = FALSE /\ result' = "none"
    /\ phase' = PhaseAfterTransfer
    /\ performed' = 0
    /\ UNCHANGED <<initialized, call, sent, tried, ready, reply>>

\* ... and all the others return.
Return ==
    /\ at = "over" /\ ~(Unsent /\ Counted < TIMEOUT_DATA_SENT)
    /\ at' = "idle" /\ selected' = FALSE
    /\ phase' = PhaseAfterTransfer
    /\ UNCHANGED <<initialized, call, sent, tried, timeout, result, ready, reply,
                   performed>>

Host == \/ begin \/ SelectForCommand \/ SelectForReply \/ Selected \/ SendCommand
        \/ ReadStart \/ ReadHeader \/ ReadCount \/ ReadData \/ Repeat \/ Return

WiFiModule == Boot \/ Notice \/ Perform \/ NextCommand

SpiNext ==
    \/ \E c \in Calls : Invoke(c) \/ Skip(c)
    \/ end
    \/ Host \/ WiFiModule

SpiSpec == SpiInit /\ [][SpiNext]_spiVars

\* Neither side stops in a call.
SpiFairSpec == SpiSpec /\ WF_spiVars(Host) /\ WF_spiVars(WiFiModule)

-----------------------------------------------------------------------------
(* Properties *)

\* The two sides are in step: when the host clocks out a command the module is
\* taking one, and when the host clocks in a reply the module is giving that of
\* the command just sent, although the pin that says so is still LOW from the
\* last transfer when the host selects the module, and whatever broke before.
InStep ==
    /\ at = "send" => phase = "receive" /\ performed = 0
    /\ at \in {"start", "header", "count", "data", "mixed", "overrun"}
          => phase = "respond" /\ performed = 1

\* "pad to multiple of 4": so many bytes are clocked out for a command.
PaddedToFour == at = "second" => sent % 4 = 0

\* What a call may leave with its caller: its answer or none, and if the answer
\* has several parameters, a mix of it and what was there before, or even more than
\* the caller's variables can hold.
Outcomes(c) ==
    {"answer", "no answer"}
        \cup (IF c.reader \in Storing THEN {"mixed", "overrun"} ELSE {})

\* A call makes the module perform its command once, and leaves with its caller
\* the answer to this command or none; only getNetworkData, getRemoteData and
\* getScanNetworks may leave a part of an answer, or overwrite something else.
Remote == INSTANCE RemoteCall WITH
    pending <- at # "idle",
    allowed <- IF call = NoCall THEN {"answer", "no answer"} ELSE Outcomes(call),
    outcome <- IF at # "idle" \/ result = "none" THEN "none"
               ELSE IF result \in Values THEN "answer"
               ELSE IF result \in {"stale", "mixed", "overrun"} THEN result
               ELSE "no answer"

ImplementsRemoteCall == Remote!RemoteCallSpec

\* A call returns, whatever the replies are and however often checkDataSent
\* repeats it, as long as the module does not stop.
CallReturns == at # "idle" ~> at = "idle"
=============================================================================
