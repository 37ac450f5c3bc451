-------------------------- MODULE SpiDriver_proofs --------------------------
(***************************************************************************)
(* Proofs about SpiDriver for every set of calls, every timeout and every  *)
(* number of late bytes.  The inductive invariant Protocol says for every  *)
(* place of the host in a call what the module does and how the two pins   *)
(* stand.  The padding is proved for names and data of every length.       *)
(***************************************************************************)
EXTENDS SpiDriver, SequenceTheorems, TLAPS

Bytes == {"START", "ERR", "reply", "zero", "other"} \cup Numbers \cup Values

\* The pins and the phase of the module while the host is at each place.
Protocol ==
    /\ phase \in {"off", "boot", "work", "rest"} => ~ready
    /\ selected <=> at \notin {"idle", "first", "second"}
    /\ at = "idle" => IF initialized THEN phase \in {"receive", "rest"}
                                     ELSE phase = "off"
    /\ at = "first" => /\ performed = 0
                       /\ IF initialized THEN phase \in {"boot", "receive", "rest"}
                                         ELSE phase = "off"
    /\ at \in {"command", "send"} => phase = "receive" /\ performed = 0
    /\ at = "second" => \/ phase = "work" /\ performed = 0
                        \/ phase = "respond" /\ performed = 1
    /\ at \in {"reply", "start", "header", "count", "data", "mixed", "overrun", "over"}
          => phase = "respond" /\ performed = 1
    /\ at \in {"send", "start", "header", "count", "data", "mixed", "overrun", "over"}
          => ~ready
    /\ at \notin {"idle", "first"} => initialized

\* In a reply a number of parameters is followed by a parameter, and that is what
\* comes next when the host is about to read it.
CountsAreFollowed(r) ==
    \A i \in 1 .. Len(r) : r[i] \in Numbers => i < Len(r) /\ r[i + 1] \in Values

WellFormed ==
    /\ CountsAreFollowed(reply)
    /\ at = "data" => reply # <<>> /\ reply[1] \in Values

\* What a call that has read its reply returns: a part of an answer only from the
\* readers that store one parameter after the other.
Resulting ==
    /\ at \in {"mixed", "overrun"} => call.reader \in Storing
    /\ at = "over" => /\ result \notin {"none", "stale"}
                      /\ result \in {"mixed", "overrun"} => call.reader \in Storing

IInv == SpiTypeOK /\ Protocol /\ WellFormed /\ Resulting

-----------------------------------------------------------------------------
(* Replies *)

\* Reading a byte leaves the rest of the reply well formed.
LEMMA TailFollowed ==
    ASSUME NEW r \in Seq(Bytes), r # <<>>, CountsAreFollowed(r)
    PROVE  /\ Tail(r) \in Seq(Bytes)
           /\ CountsAreFollowed(Tail(r))
           /\ Head(r) \in Bytes /\ Head(r) = r[1]
           /\ Head(r) \in Numbers => Tail(r) # <<>> /\ Tail(r)[1] \in Values
<1>1. /\ Len(r) \in Nat /\ Len(r) >= 1 /\ Len(Tail(r)) = Len(r) - 1
      /\ Head(r) = r[1] /\ Tail(r) \in Seq(Bytes)
      /\ r \in [1 .. Len(r) -> Bytes]
  OBVIOUS
<1>2. \A i \in 1 .. Len(Tail(r)) : Tail(r)[i] = r[i + 1]
  BY <1>1
<1>3. CountsAreFollowed(Tail(r))
  <2> SUFFICES ASSUME NEW i \in 1 .. Len(Tail(r)), Tail(r)[i] \in Numbers
               PROVE  i < Len(Tail(r)) /\ Tail(r)[i + 1] \in Values
    BY DEF CountsAreFollowed
  <2>1. i + 1 \in 1 .. Len(r) /\ r[i + 1] \in Numbers
    BY <1>1, <1>2
  <2>2. i + 1 < Len(r) /\ r[(i + 1) + 1] \in Values
    BY <2>1 DEF CountsAreFollowed
  <2>3. i + 1 \in 1 .. Len(Tail(r))
    BY <1>1, <2>2
  <2>. QED  BY <1>1, <1>2, <2>2, <2>3
<1>4. Head(r) \in Numbers => Tail(r) # <<>> /\ Tail(r)[1] \in Values
  <2> SUFFICES ASSUME Head(r) \in Numbers PROVE Tail(r) # <<>> /\ Tail(r)[1] \in Values
    OBVIOUS
  <2>1. 1 < Len(r) /\ r[1 + 1] \in Values
    BY <1>1 DEF CountsAreFollowed
  <2>2. Len(Tail(r)) >= 1
    BY <1>1, <2>1
  <2>3. 1 \in 1 .. Len(Tail(r))
    BY <1>1, <2>2
  <2>4. Tail(r) # <<>>
    <3>1. \A t \in Seq(Bytes) : Len(t) >= 1 => t # <<>>
      BY EmptySeq
    <3>. QED  BY <1>1, <2>2, <3>1
  <2>. QED  BY <1>2, <2>1, <2>3, <2>4
<1>5. Head(r) \in Bytes
  BY <1>1
<1>. QED  BY <1>1, <1>3, <1>4, <1>5

\* A reply, with the bytes before it.
LEMMA RepliesAreWellFormed ==
    ASSUME NEW c, NEW r \in RepliesTo(c)
    PROVE  r \in Seq(Bytes) /\ CountsAreFollowed(r)
<1> DEFINE Counting == {<<start, "reply", number, value>> :
                        start \in {"START", "ERR"}, number \in NumbersTo(c),
                        value \in Values}
<1>1. PICK late \in 0 .. MaxLate, q \in Damaged \cup Counting :
         r = [i \in 1 .. late |-> "other"] \o q
  BY DEF RepliesTo
<1>2. q \in Seq(Bytes) /\ CountsAreFollowed(q)
  <2>1. CASE q \in Counting
    <3>1. PICK start \in {"START", "ERR"}, number \in Numbers, value \in Values :
             q = <<start, "reply", number, value>>
      BY <2>1 DEF NumbersTo
    <3>2. /\ Len(q) = 4 /\ q[1] = start /\ q[2] = "reply" /\ q[3] = number
          /\ q[4] = value
      BY <3>1
    <3>3. q \in Seq(Bytes)
      <4>1. start \in Bytes /\ value \in Bytes /\ "reply" \in Bytes /\ number \in Bytes
        BY <3>1 DEF Bytes
      <4>. QED  BY <3>1, <4>1
    <3>4. start \notin Numbers /\ "reply" \notin Numbers /\ value \notin Numbers
      BY <3>1 DEF Numbers, Values
    <3>. QED  BY <3>1, <3>2, <3>3, <3>4 DEF CountsAreFollowed
  <2>2. CASE q \in Damaged
    <3>1. \/ q = <<>> \/ q = <<"ERR", "zero">> \/ q = <<"START", "other">>
          \/ q = <<"START", "reply", "zero">>
      BY <2>2 DEF Damaged
    <3>2. q \in Seq(Bytes)
      <4>1. /\ "START" \in Bytes /\ "ERR" \in Bytes /\ "reply" \in Bytes
            /\ "zero" \in Bytes /\ "other" \in Bytes
        BY DEF Bytes
      <4>2. CASE q = <<>>
        BY <4>2, EmptySeq
      <4>3. \A a, b, d \in Bytes : <<a, b>> \in Seq(Bytes) /\ <<a, b, d>> \in Seq(Bytes)
        OBVIOUS
      <4> HIDE DEF Counting
      <4>. QED  BY <3>1, <4>1, <4>2, <4>3
    <3>3. \A i \in 1 .. Len(q) : q[i] \notin Numbers
      BY <3>1 DEF Numbers
    <3>. QED  BY <3>2, <3>3 DEF CountsAreFollowed
  <2>. QED  BY <1>1, <2>1, <2>2
<1>3. late \in Nat
  BY <1>1, SpiAssumption
<1>4. /\ [i \in 1 .. late |-> "other"] \in Seq(Bytes)
      /\ Len([i \in 1 .. late |-> "other"]) = late
  BY <1>3 DEF Bytes
<1>5. /\ r \in Seq(Bytes) /\ Len(r) = late + Len(q) /\ Len(q) \in Nat
      /\ \A i \in 1 .. late : r[i] = "other"
      /\ \A i \in late + 1 .. late + Len(q) : r[i] = q[i - late]
  BY <1>1, <1>2, <1>3, <1>4
<1>6. CountsAreFollowed(r)
  <2> SUFFICES ASSUME NEW i \in 1 .. Len(r), r[i] \in Numbers
               PROVE  i < Len(r) /\ r[i + 1] \in Values
    BY DEF CountsAreFollowed
  <2>1. i \in late + 1 .. late + Len(q) /\ q[i - late] \in Numbers
    BY <1>3, <1>5 DEF Numbers
  <2>2. i - late \in 1 .. Len(q)
    BY <1>3, <1>5, <2>1
  <2>3. i - late < Len(q) /\ q[(i - late) + 1] \in Values
    BY <1>2, <2>1, <2>2 DEF CountsAreFollowed
  <2>4. i + 1 \in late + 1 .. late + Len(q) /\ (i + 1) - late = (i - late) + 1
    BY <1>3, <1>5, <2>2, <2>3
  <2>. QED  BY <1>3, <1>5, <2>3, <2>4
<1>. QED  BY <1>5, <1>6

\* What the host gets by clocking the module while it gives a reply.
LEMMA ByteRead ==
    ASSUME IInv, Clock, phase = "respond"
    PROVE  /\ reply' \in Seq(Bytes) /\ CountsAreFollowed(reply')
           /\ Byte \in Numbers => reply' # <<>> /\ reply'[1] \in Values
           /\ at = "data" => Byte \in Values
           /\ UNCHANGED <<ready, phase, performed>>
<1>1. reply \in Seq(Bytes) /\ CountsAreFollowed(reply)
  BY DEF IInv, SpiTypeOK, WellFormed, Bytes
<1>2. CASE reply = <<>>
  <2>1. Byte = "other" /\ UNCHANGED <<reply, ready, phase, performed>> /\ at # "data"
    BY <1>2 DEF Byte, Clock, IInv, WellFormed
  <2>. QED  BY <1>1, <2>1 DEF Numbers
<1>3. CASE reply # <<>>
  <2>1. Byte = Head(reply) /\ reply' = Tail(reply) /\ UNCHANGED <<ready, phase, performed>>
    BY <1>3 DEF Byte, Clock
  <2>2. /\ Tail(reply) \in Seq(Bytes) /\ CountsAreFollowed(Tail(reply))
        /\ Head(reply) = reply[1]
        /\ Head(reply) \in Numbers => Tail(reply) # <<>> /\ Tail(reply)[1] \in Values
    BY <1>1, <1>3, TailFollowed
  <2>3. at = "data" => reply[1] \in Values
    BY DEF IInv, WellFormed
  <2>. QED  BY <2>1, <2>2, <2>3
<1>. QED  BY <1>2, <1>3

-----------------------------------------------------------------------------
(* The invariant *)

LEMMA InitInvariant == SpiInit => IInv
<1> SUFFICES ASSUME SpiInit PROVE IInv
  OBVIOUS
<1>1. /\ 0 \in 0 .. TIMEOUT_CHAR /\ 0 \in 0 .. TIMEOUT_DATA_SENT
      /\ reply \in Seq(Bytes) /\ Len(reply) = 0
  BY SpiAssumption, EmptySeq DEF SpiInit
<1>2. SpiTypeOK
  BY <1>1 DEF SpiInit, SpiTypeOK, Places, Phases, Results, Bytes
<1>3. WellFormed
  BY <1>1 DEF SpiInit, WellFormed, CountsAreFollowed
<1>. QED  BY <1>2, <1>3 DEF SpiInit, IInv, Protocol, Resulting

\* The module: it moves only where the host waits for it or has not begun.
LEMMA ModuleInvariant == ASSUME IInv, WiFiModule PROVE IInv'
<1>1. at # "data" \/ reply' = reply
  BY DEF WiFiModule, Boot, Notice, Perform, NextCommand, IInv, Protocol
<1>2. UNCHANGED hostVars /\ ready' \in BOOLEAN /\ phase' \in Phases /\ performed' \in Nat
  <2>1. performed' \in Nat
    BY DEF WiFiModule, Boot, Notice, Perform, NextCommand, IInv, SpiTypeOK
  <2>2. UNCHANGED hostVars /\ ready' \in BOOLEAN /\ phase' \in Phases
    BY DEF WiFiModule, Boot, Notice, Perform, NextCommand, IInv, SpiTypeOK, Phases
  <2>. QED  BY <2>1, <2>2
<1>3. reply' \in Seq(Bytes) /\ CountsAreFollowed(reply')
  <2>1. CASE Perform
    BY <2>1, RepliesAreWellFormed DEF Perform
  <2>2. CASE Boot \/ Notice \/ NextCommand
    BY <2>2 DEF Boot, Notice, NextCommand, IInv, SpiTypeOK, WellFormed, Bytes
  <2>. QED  BY <2>1, <2>2 DEF WiFiModule
<1>4. SpiTypeOK'
  BY <1>2, <1>3 DEF IInv, SpiTypeOK, hostVars, Bytes
<1>5. Protocol'
  <2>1. CASE Boot
    BY <2>1 DEF Boot, IInv, Protocol, SpiTypeOK, Places, hostVars
  <2>2. CASE Notice
    BY <2>2 DEF Notice, IInv, Protocol, SpiTypeOK, Places, hostVars
  <2>3. CASE Perform
    BY <2>3 DEF Perform, IInv, Protocol, SpiTypeOK, Places, hostVars
  <2>4. CASE NextCommand
    BY <2>4 DEF NextCommand, IInv, Protocol, SpiTypeOK, Places, hostVars
  <2>. QED  BY <2>1, <2>2, <2>3, <2>4 DEF WiFiModule
<1>6. WellFormed' /\ Resulting'
  BY <1>1, <1>2, <1>3 DEF IInv, WellFormed, Resulting, hostVars
<1>. QED  BY <1>4, <1>5, <1>6 DEF IInv

\* Between two calls, and up to the start of a transfer.
LEMMA CallInvariant ==
    ASSUME IInv, (\E c \in Calls : Invoke(c) \/ Skip(c)) \/ end \/ begin
    PROVE  IInv'
<1>1. <<>> \in Seq(Bytes) /\ CountsAreFollowed(<<>>)
  BY EmptySeq DEF CountsAreFollowed
<1>2. 0 \in 0 .. TIMEOUT_DATA_SENT
  BY SpiAssumption
<1>3. CASE \E c \in Calls : Invoke(c)
  <2>1. PICK c \in Calls : Invoke(c)
    BY <1>3
  <2>2. SpiTypeOK'
    BY <1>2, <2>1 DEF Invoke, IInv, SpiTypeOK, Places, Results
  <2>. QED
    BY <2>1, <2>2 DEF Invoke, IInv, Protocol, WellFormed, Resulting
<1>4. CASE \E c \in Calls : Skip(c)
  <2>1. PICK c \in Calls : Skip(c)
    BY <1>4
  <2>2. result' \in Results
    BY <2>1 DEF Skip, Results
  <2>. QED
    BY <2>1, <2>2
       DEF Skip, IInv, SpiTypeOK, Protocol, WellFormed, Resulting, moduleVars
<1>5. CASE end
  <2>1. SpiTypeOK'
    BY <1>1, <1>5 DEF end, IInv, SpiTypeOK, Phases, Bytes
  <2>. QED  BY <1>1, <1>5, <2>1 DEF end, IInv, Protocol, WellFormed, Resulting
<1>6. CASE begin
  <2>1. SpiTypeOK'
    BY <1>1, <1>6 DEF begin, IInv, SpiTypeOK, Phases, Bytes
  <2>. QED  BY <1>1, <1>6, <2>1 DEF begin, IInv, Protocol, WellFormed, Resulting
<1>. QED  BY <1>3, <1>4, <1>5, <1>6

\* The command transfer.
LEMMA CommandInvariant ==
    ASSUME IInv, SelectForCommand \/ SelectForReply \/ Selected \/ SendCommand
    PROVE  IInv'
<1>1. CASE SelectForCommand \/ SelectForReply
  BY <1>1
     DEF SelectForCommand, SelectForReply, Ready, IInv, SpiTypeOK, Protocol, WellFormed,
         Resulting, moduleVars, Places
<1>2. CASE Selected
  <2>1. 0 \in 0 .. TIMEOUT_CHAR
    BY SpiAssumption
  <2>. QED
    BY <1>2, <2>1
       DEF Selected, Noticed, IInv, SpiTypeOK, Protocol, WellFormed, Resulting,
           moduleVars, Places
<1>3. CASE SendCommand
  <2>1. sent' \in Nat
    BY <1>3, SpiAssumption DEF SendCommand, IInv, SpiTypeOK
  <2>2. phase' = "work" /\ performed = 0 /\ ~ready
    BY <1>3 DEF SendCommand, PhaseAfterTransfer, IInv, Protocol
  <2>. QED
    BY <1>3, <2>1, <2>2
       DEF SendCommand, IInv, SpiTypeOK, Protocol, WellFormed, Resulting, Places, Phases
<1>. QED  BY <1>1, <1>2, <1>3

\* The reply transfer, byte by byte.
LEMMA ReadInvariant ==
    ASSUME IInv, ReadStart \/ ReadHeader \/ ReadCount \/ ReadData
    PROVE  IInv'
<1>1. /\ Clock /\ phase = "respond" /\ performed = 1 /\ ~ready /\ call \in Calls
      /\ initialized /\ selected
      /\ UNCHANGED <<initialized, call, selected, sent, timeout>>
  BY DEF ReadStart, ReadHeader, ReadCount, ReadData, IInv, Protocol, SpiTypeOK
<1>2. /\ reply' \in Seq(Bytes) /\ CountsAreFollowed(reply')
      /\ Byte \in Numbers => reply' # <<>> /\ reply'[1] \in Values
      /\ at = "data" => Byte \in Values
      /\ UNCHANGED <<ready, phase, performed>>
  BY <1>1, ByteRead
<1>3. call.broken \in Results /\ call.broken \notin {"none", "stale", "mixed", "overrun"}
  BY <1>1, SpiAssumption DEF Results
<1>4. tried' \in 0 .. TIMEOUT_CHAR
  BY SpiAssumption DEF ReadStart, ReadHeader, ReadCount, ReadData, MoreBytes, IInv, SpiTypeOK
<1>5. /\ at' \in {"start", "header", "count", "data", "mixed", "overrun", "over"}
      /\ result' \in Results
      /\ at' = "over" => /\ result' \notin {"none", "stale"}
                         /\ result' \in {"mixed", "overrun"} => call.reader \in Storing
      /\ at' = "data" => Byte \in Numbers
      /\ at' \in {"mixed", "overrun"} => call.reader \in Storing
  <2>1. result \in Results
    BY DEF IInv, SpiTypeOK
  <2>2. CASE ReadStart
    BY <1>3, <2>1, <2>2 DEF ReadStart, GoOn, Broken
  <2>3. CASE ReadHeader
    BY <1>3, <2>1, <2>3 DEF ReadHeader, GoOn, Broken
  <2>4. CASE ReadCount
    <3>1. PICK place \in AfterCount(Byte) :
             IF place = "over" THEN Broken ELSE GoOn(place)
      BY <2>4 DEF ReadCount
    <3>2. /\ place \in {"data", "mixed", "overrun", "over"}
          /\ place = "data" => Byte \in Numbers
          /\ place \in {"mixed", "overrun"} => call.reader \in Storing
      BY <3>1 DEF AfterCount, Numbers
    <3>. QED  BY <1>3, <2>1, <3>1, <3>2 DEF GoOn, Broken
  <2>5. CASE ReadData
    <3>1. at' = "over" /\ result' = IF at = "data" THEN Byte ELSE at
      BY <1>1, <2>5 DEF ReadData
    <3>2. at \in {"mixed", "overrun"} => call.reader \in Storing
      BY DEF IInv, Resulting
    <3>. QED  BY <1>2, <2>5, <3>1, <3>2 DEF ReadData, Results, Values
  <2>. QED  BY <2>2, <2>3, <2>4, <2>5
<1>6. SpiTypeOK'
  BY <1>1, <1>2, <1>4, <1>5 DEF IInv, SpiTypeOK, Places, Bytes
<1>7. Protocol'
  BY <1>1, <1>2, <1>5 DEF Protocol
<1>8. WellFormed' /\ Resulting'
  BY <1>1, <1>2, <1>5 DEF WellFormed, Resulting
<1>. QED  BY <1>6, <1>7, <1>8 DEF IInv

\* The end of a call, or of one attempt of checkDataSent.
LEMMA OverInvariant == ASSUME IInv, Repeat \/ Return PROVE IInv'
<1>1. /\ phase = "respond" /\ phase' = "rest" /\ ~ready /\ initialized /\ call \in Calls
      /\ selected' = FALSE
      /\ UNCHANGED <<initialized, call, sent, tried, ready, reply>>
  BY DEF Repeat, Return, PhaseAfterTransfer, IInv, Protocol, SpiTypeOK
<1>2. CASE Repeat
  <2>1. timeout' \in 0 .. TIMEOUT_DATA_SENT
    BY <1>2, SpiAssumption DEF Repeat, Counted, IInv, SpiTypeOK
  <2>2. /\ at' = "first" /\ performed' = 0 /\ result' = "none"
    BY <1>2 DEF Repeat
  <2>3. SpiTypeOK'
    BY <1>1, <2>1, <2>2 DEF IInv, SpiTypeOK, Places, Phases, Results
  <2>. QED  BY <1>1, <2>2, <2>3 DEF IInv, Protocol, WellFormed, Resulting
<1>3. CASE Return
  <2>1. at' = "idle" /\ UNCHANGED <<timeout, result, performed>>
    BY <1>3 DEF Return
  <2>2. SpiTypeOK'
    BY <1>1, <2>1 DEF IInv, SpiTypeOK, Places, Phases
  <2>. QED  BY <1>1, <2>1, <2>2 DEF IInv, Protocol, WellFormed, Resulting
<1>. QED  BY <1>2, <1>3

\* Host and module agree throughout, whatever the replies are and whichever
\* transfers broke before.
THEOREM Invariant == SpiSpec => []IInv
<1>1. IInv /\ [SpiNext]_spiVars => IInv'
  <2> SUFFICES ASSUME IInv, [SpiNext]_spiVars PROVE IInv'
    OBVIOUS
  <2>1. CASE UNCHANGED spiVars
    BY <2>1
       DEF IInv, SpiTypeOK, Protocol, WellFormed, Resulting, spiVars, hostVars,
           moduleVars
  <2>2. CASE Host
    BY <2>2, CallInvariant, CommandInvariant, ReadInvariant, OverInvariant DEF Host
  <2>. QED  BY <2>1, <2>2, CallInvariant, ModuleInvariant DEF SpiNext
<1>. QED  BY InitInvariant, <1>1, PTL DEF SpiSpec

\* The variables of the driver and the module keep their types: what a call
\* returns is an answer or what its function returns without one.
THEOREM TypeCorrect == SpiSpec => []SpiTypeOK
<1>1. IInv => SpiTypeOK  BY DEF IInv
<1>. QED  BY Invariant, <1>1, PTL

\* The host never clocks out a command that the module does not take, and never
\* clocks in a reply to another command.
THEOREM StaysInStep == SpiSpec => []InStep
<1>1. IInv => InStep
  BY DEF IInv, Protocol, InStep
<1>. QED  BY Invariant, <1>1, PTL

\* Every call makes one of the two promises.
LEMMA OutcomesArePromised ==
    /\ \A c : Outcomes(c) \in Remote!Promises
    /\ \A c \in Calls : c # NoCall
BY SpiAssumption DEF Outcomes, Remote!Promises, Remote!Whole, Remote!InParts

\* The driver implements RemoteCall: every call that returns had its command
\* performed, once each time it was sent, and leaves with its caller the answer to it
\* or none.  Only where an answer has several parameters, which are stored one after
\* the other, can a reply with a wrong number of them leave anything else.
THEOREM Refinement == SpiSpec => ImplementsRemoteCall
<1>1. SpiInit => Remote!Idle
  BY DEF SpiInit, Remote!Idle, Remote!Whole
<1>2. IInv /\ [SpiNext]_spiVars => [Remote!RemoteCallNext]_(Remote!callVars)
  <2> SUFFICES ASSUME IInv, [SpiNext]_spiVars
               PROVE  Remote!RemoteCallNext \/ UNCHANGED Remote!callVars
    OBVIOUS
  <2>1. CASE \E c \in Calls : Invoke(c)
    BY <2>1, OutcomesArePromised DEF Invoke, Remote!RemoteCallNext, Remote!Invoke
  <2>2. CASE \E c \in Calls : Skip(c)
    BY <2>2, OutcomesArePromised
       DEF Skip, Unasked, Values, moduleVars, Remote!RemoteCallNext, Remote!Skip
  <2>3. CASE Perform
    BY <2>3
       DEF Perform, hostVars, IInv, Protocol, SpiTypeOK, Places, Remote!RemoteCallNext,
           Remote!Perform
  <2>4. CASE Repeat
    BY <2>4 DEF Repeat, IInv, Protocol, Remote!RemoteCallNext, Remote!Repeat
  <2>5. CASE Return
    <3>1. /\ at = "over" /\ at' = "idle" /\ UNCHANGED <<call, result, performed>>
          /\ performed = 1 /\ call \in Calls /\ call # NoCall
      BY <2>5, OutcomesArePromised DEF Return, IInv, Protocol, SpiTypeOK
    <3>2. /\ result \notin {"none", "stale"}
          /\ result \in {"mixed", "overrun"} => call.reader \in Storing
      BY <3>1 DEF IInv, Resulting
    <3>. QED
      BY <3>1, <3>2 DEF Outcomes, Values, Remote!RemoteCallNext, Remote!Return
  <2>6. CASE end \/ UNCHANGED spiVars \/ Boot \/ Notice \/ NextCommand
    BY <2>6
       DEF end, spiVars, hostVars, moduleVars, Boot, Notice, NextCommand,
           Remote!callVars
  <2>7. CASE begin \/ SelectForCommand \/ SelectForReply \/ Selected \/ SendCommand
    BY <2>7
       DEF begin, SelectForCommand, SelectForReply, Selected, SendCommand, moduleVars,
           Remote!callVars
  <2>8. CASE ReadStart \/ ReadHeader \/ ReadCount \/ ReadData
    <3>1. at # "idle" /\ at' # "idle" /\ UNCHANGED <<call, performed>>
      BY <2>8
         DEF ReadStart, ReadHeader, ReadCount, AfterCount, ReadData, GoOn, Broken, Clock
    <3>. QED  BY <3>1 DEF Remote!callVars
  <2>. QED
    BY <2>1, <2>2, <2>3, <2>4, <2>5, <2>6, <2>7, <2>8 DEF SpiNext, Host, WiFiModule
<1>. QED
  BY Invariant, <1>1, <1>2, PTL
     DEF SpiSpec, ImplementsRemoteCall, Remote!RemoteCallSpec

-----------------------------------------------------------------------------
(* Padding *)

Padded(c) == c.bytes \in Nat /\ c.pad \in Nat /\ (c.bytes + c.pad) % 4 = 0

\* PadTo fills up to a multiple of four whatever is as far from one.
LEMMA PadToFills ==
    \A n, k \in Nat : n % 4 = k % 4 => PadTo(k) \in Nat /\ (n + PadTo(k)) % 4 = 0
BY DEF PadTo

\* The commands of server_drv.cpp, with names and data of any length.
LEMMA ServerCommandsPadded == \A c \in ServerCommands(Nat) : Padded(c)
<1>1. /\ Padded(startServer) /\ Padded(startServerAt) /\ Padded(startClient)
      /\ Padded(stopClient) /\ Padded(getServerState) /\ Padded(getClientState)
      /\ Padded(sendUdpData) /\ Padded(getSocket)
  BY DEF Padded, Command, SendCmd, SendParam, EndCmd, startServer, startServerAt,
         startClient, stopClient, getServerState, getClientState, sendUdpData, getSocket
<1>2. Padded(availData) /\ Padded(availServer) /\ Padded(checkDataSent)
  BY DEF Padded, Command, SendCmd, SendParam, EndCmd, availData, availServer,
         checkDataSent
<1>3. Padded(getData) /\ Padded(getDataBuf)
  BY DEF Padded, Command, SendCmd, SendParam, SendBuffer, EndCmd, getData, getDataBuf
<1>4. ASSUME NEW l \in Nat
      PROVE  Padded(startClientNamed(l)) /\ Padded(insertDataBuf(l)) /\ Padded(sendData(l))
  <2>1. /\ startClientNamed(l).bytes = 17 + l /\ startClientNamed(l).pad = PadTo(17 + l)
        /\ insertDataBuf(l).bytes = 9 + l /\ insertDataBuf(l).pad = PadTo(9 + l)
        /\ sendData(l).bytes = 9 + l /\ sendData(l).pad = PadTo(9 + l)
    BY DEF Command, SendCmd, SendParam, SendBuffer, EndCmd, startClientNamed,
           insertDataBuf, sendData
  <2>. QED  BY <2>1, PadToFills DEF Padded
<1>. QED  BY <1>1, <1>2, <1>3, <1>4 DEF ServerCommands

\* The commands of wifi_drv.cpp that leave the pins of the module alone.
LEMMA NetworkCommandsPadded == \A c \in NetworkCommands(Nat) : Padded(c)
<1>1. /\ Padded(config) /\ Padded(setDNS) /\ Padded(disconnect)
      /\ Padded(getConnectionStatus) /\ Padded(setPowerMode) /\ Padded(debug)
      /\ Padded(getNetworkData) /\ Padded(getRemoteData) /\ Padded(getMacAddress)
      /\ Padded(getCurrentSSID) /\ Padded(getCurrentBSSID) /\ Padded(getCurrentRSSI)
  BY DEF Padded, Command, SendCmd, SendParam, EndCmd, config, setDNS, disconnect,
         getConnectionStatus, setPowerMode, debug, getNetworkData, getRemoteData,
         getMacAddress, getCurrentSSID, getCurrentBSSID, getCurrentRSSI
<1>2. /\ Padded(getCurrentEncryptionType) /\ Padded(startScanNetworks)
      /\ Padded(getScanNetworks) /\ Padded(getEncTypeNetowrks)
      /\ Padded(getBSSIDNetowrks) /\ Padded(getChannelNetowrks)
      /\ Padded(getRSSINetoworks) /\ Padded(getHostByName) /\ Padded(getFwVersion)
      /\ Padded(getTime) /\ Padded(ping) /\ Padded(getTemperature)
  BY DEF Padded, Command, SendCmd, SendParam, EndCmd, getCurrentEncryptionType,
         startScanNetworks, getScanNetworks, getEncTypeNetowrks, getBSSIDNetowrks,
         getChannelNetowrks, getRSSINetoworks, getHostByName, getFwVersion, getTime,
         ping, getTemperature
<1>3. ASSUME NEW l \in Nat
      PROVE  /\ Padded(wifiSetNetwork(l)) /\ Padded(wifiSetApNetwork(l))
             /\ Padded(setHostname(l)) /\ Padded(reqHostByName(l))
  <2>1. /\ wifiSetNetwork(l).bytes = 5 + l /\ wifiSetNetwork(l).pad = PadTo(5 + l)
        /\ wifiSetApNetwork(l).bytes = 7 + l /\ wifiSetApNetwork(l).pad = PadTo(3 + l)
        /\ setHostname(l).bytes = 5 + l /\ setHostname(l).pad = PadTo(5 + l)
        /\ reqHostByName(l).bytes = 5 + l /\ reqHostByName(l).pad = PadTo(5 + l)
    BY DEF Command, SendCmd, SendParam, EndCmd, wifiSetNetwork, wifiSetApNetwork,
           setHostname, reqHostByName
  <2>2. (7 + l) % 4 = (3 + l) % 4
    OBVIOUS
  <2>. QED  BY <2>1, <2>2, PadToFills DEF Padded
<1>4. ASSUME NEW l \in Nat, NEW k \in Nat
      PROVE  /\ Padded(wifiSetPassphrase(l, k)) /\ Padded(wifiSetKey(l, k))
             /\ Padded(wifiSetApPassphrase(l, k))
  <2>1. /\ wifiSetPassphrase(l, k).bytes = 6 + l + k
        /\ wifiSetPassphrase(l, k).pad = PadTo(6 + l + k)
        /\ wifiSetKey(l, k).bytes = 8 + l + k /\ wifiSetKey(l, k).pad = PadTo(8 + l + k)
        /\ wifiSetApPassphrase(l, k).bytes = 8 + l + k
        /\ wifiSetApPassphrase(l, k).pad = PadTo(4 + l + k)
    BY DEF Command, SendCmd, SendParam, EndCmd, wifiSetPassphrase, wifiSetKey,
           wifiSetApPassphrase
  <2>2. /\ 6 + l + k \in Nat /\ 8 + l + k \in Nat /\ 4 + l + k \in Nat
        /\ (8 + l + k) % 4 = (4 + l + k) % 4
    OBVIOUS
  <2>3. Padded(wifiSetPassphrase(l, k)) /\ Padded(wifiSetKey(l, k))
    BY <2>1, <2>2, PadToFills DEF Padded
  <2>4. Padded(wifiSetApPassphrase(l, k))
    BY <2>1, <2>2, PadToFills DEF Padded
  <2>. QED  BY <2>3, <2>4
<1> SUFFICES ASSUME NEW c \in NetworkCommands(Nat) PROVE Padded(c)
  OBVIOUS
<1>5. CASE c \in {config, setDNS, disconnect, getConnectionStatus, setPowerMode, debug,
                 getNetworkData, getRemoteData, getMacAddress, getCurrentSSID,
                 getCurrentBSSID, getCurrentRSSI, getCurrentEncryptionType,
                 startScanNetworks, getScanNetworks, getEncTypeNetowrks,
                 getBSSIDNetowrks, getChannelNetowrks, getRSSINetoworks, getHostByName,
                 getFwVersion, getTime, ping, getTemperature}
  BY <1>1, <1>2, <1>5
<1>6. CASE c \in UNION {{wifiSetNetwork(l), wifiSetApNetwork(l), setHostname(l),
                        reqHostByName(l)} : l \in Nat}
  BY <1>3, <1>6
<1>7. CASE c \in UNION {{wifiSetPassphrase(l, k), wifiSetKey(l, k),
                        wifiSetApPassphrase(l, k)} : l, k \in Nat}
  <2>1. PICK S \in {{wifiSetPassphrase(l, k), wifiSetKey(l, k),
                    wifiSetApPassphrase(l, k)} : l, k \in Nat} : c \in S
    BY <1>7
  <2>2. PICK l \in Nat, k \in Nat : S = {wifiSetPassphrase(l, k), wifiSetKey(l, k),
                                       wifiSetApPassphrase(l, k)}
    BY <2>1
  <2>. QED  BY <1>4, <2>1, <2>2
<1>. QED  BY <1>5, <1>6, <1>7 DEF NetworkCommands

\* Every command that leaves the module's pins alone is clocked out padded to a
\* multiple of four, whatever the lengths of the names and the data in it.
THEOREM CommandsPadded ==
    Calls \subseteq ServerCommands(Nat) \cup NetworkCommands(Nat) /\ SpiSpec
        => []PaddedToFour
<1> SUFFICES ASSUME Calls \subseteq ServerCommands(Nat) \cup NetworkCommands(Nat)
             PROVE  SpiSpec => []PaddedToFour
  OBVIOUS
<1>1. SpiInit => PaddedToFour
  BY DEF SpiInit, PaddedToFour
<1>2. IInv /\ PaddedToFour /\ [SpiNext]_spiVars => PaddedToFour'
  <2> SUFFICES ASSUME IInv, PaddedToFour, [SpiNext]_spiVars PROVE PaddedToFour'
    OBVIOUS
  <2>1. CASE SendCommand
    <3>1. call \in Calls /\ sent' = call.bytes + call.pad
      BY <2>1 DEF SendCommand, IInv, SpiTypeOK
    <3>2. Padded(call)
      BY <3>1, ServerCommandsPadded, NetworkCommandsPadded
    <3>. QED  BY <3>1, <3>2 DEF Padded, PaddedToFour
  <2>2. CASE ~SendCommand
    <3>1. at' = "second" => at = "second" /\ sent' = sent
      BY <2>2
         DEF SpiNext, Host, WiFiModule, spiVars, hostVars, moduleVars, Invoke, Skip, end,
             begin, SelectForCommand, SelectForReply, Selected, ReadStart, ReadHeader,
             ReadCount, AfterCount, ReadData, GoOn, Broken, Repeat, Return, Boot, Notice, Perform,
             NextCommand
    <3>. QED  BY <3>1 DEF PaddedToFour
  <2>. QED  BY <2>1, <2>2
<1>. QED  BY Invariant, <1>1, <1>2, PTL DEF SpiSpec
=============================================================================
