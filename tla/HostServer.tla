----------------------------- MODULE HostServer -----------------------------
(***************************************************************************)
(* The web server: HostServer.loop of src/Main/Main.ino on top of          *)
(* WiFiServer, WiFiClient and WiFiSocketBuffer of libraries/WiFiNINA.  One *)
(* run of the server's callback is a stack of activations of loop, because *)
(* a request for /refresh calls loop from inside loop.                     *)
(*                                                                         *)
(* A request is a sequence of tokens: a command stands for the characters  *)
(* of a request line up to the end of "GET /<command>", "text" for other   *)
(* characters, "CR" and "LF" for themselves.  The model marks the bytes    *)
(* with the client that sent them, which the code does not see.            *)
(*                                                                         *)
(* The WiFi module and the clients are external.  The module hands out a   *)
(* slot number for a connection when the host asks for one, and takes it   *)
(* back when the host stops it or is told that it is no longer connected:  *)
(* WiFiClient::connected forgets the number then without stopping it.      *)
(* A reply of the module may be broken.  The module has done what it was   *)
(* asked to then (see SpiDriver), and the driver returns what its callers  *)
(* cannot tell from an answer.                                             *)
(***************************************************************************)
EXTENDS Integers, FiniteSets, Sequences, SequencesExt

CONSTANTS
    Clients,     \* each makes one connection and sends one request
    Slots,       \* socket numbers of the WiFi module
    Requests,    \* what a client may send
    NoSlot,      \* 255
    NoClient,
    Junk,        \* what may be left in the memory of a buffer
    MaxBroken    \* bound: broken replies

Toggles  == {"toggleSpotlight", "toggleAlarm", "hush"}
Commands == Toggles \cup {"refresh"}
Tokens   == Commands \cup {"text", "CR", "LF"}

ASSUME ServerAssumption ==
    /\ NoSlot \notin Slots /\ NoClient \notin Clients
    /\ Requests \subseteq Seq(Tokens) /\ Junk \subseteq Seq(Tokens) \ {<<>>}
    /\ MaxBroken \in Nat /\ (MaxBroken > 0 => 0 \in Slots)

VARIABLES
    request,     \* what a client sends in all
    unsent,      \* ... and has not sent yet
    peer,        \* its connection, seen from its side
    answers,     \* responses it received
    inbox,       \* received from it by the module, not fetched by the host
    conn,        \* the client of a slot, or NoClient
    buffer,      \* WiFiSocketBuffer: fetched, not yet read
    lastSock,    \* WiFiServer::_lastSock
    stack,       \* activations of HostServer.loop, innermost last
    executed,    \* history: controller calls made on a client's behalf
    broken       \* how many replies were broken

vars == <<request, unsent, peer, answers, inbox, conn, buffer, lastSock, stack,
          executed, broken>>

\* A byte fetched, from NoClient if it is junk.
Item == [from : Clients \cup {NoClient}, token : Tokens]

\* currentLine: its end, which is all that endsWith and length() tell apart,
\* and whose characters it holds.
Line == [end : Commands \cup {"text", ""}, from : Clients \cup {NoClient}]

EmptyLine == [end |-> "", from |-> NoClient]

\* Where an activation is: "enter": about to call server.available(); "state",
\* "again", "avail": in it, about to ask for the state of the last socket, for
\* its bytes again, and for another socket; "while": about to call
\* client.connected(); "status": in it, having found no bytes; "if": about to
\* call client.available(); "stop": about to call client.stop().
Places == {"enter", "state", "again", "avail", "while", "status", "if", "stop"}

Activation == [at : Places, sock : Slots \cup {NoSlot}, line : Line]

Started == [at |-> "enter", sock |-> NoSlot, line |-> EmptyLine]

TypeOK ==
    /\ request \in [Clients -> Requests]
    /\ unsent \in [Clients -> Seq(Tokens)]
    /\ peer \in [Clients -> {"idle", "open", "closed", "done"}]
    /\ answers \in [Clients -> 0..1]
    /\ inbox \in [Clients -> Seq(Tokens)]
    /\ conn \in [Slots -> Clients \cup {NoClient}]
    /\ buffer \in [Slots -> Seq(Item)]
    /\ lastSock \in Slots \cup {NoSlot}
    /\ stack \in Seq(Activation)
    /\ executed \in [Clients -> Nat]
    /\ broken \in 0..MaxBroken

\* After SetupServer and its server.begin().
Init ==
    /\ request \in [Clients -> Requests]
    /\ unsent = request
    /\ peer = [c \in Clients |-> "idle"]
    /\ answers = [c \in Clients |-> 0]
    /\ inbox = [c \in Clients |-> <<>>]
    /\ conn = [s \in Slots |-> NoClient]
    /\ buffer = [s \in Slots |-> <<>>]
    /\ lastSock = NoSlot
    /\ stack = <<>>
    /\ executed = [c \in Clients |-> 0]
    /\ broken = 0

-----------------------------------------------------------------------------
(* Clients *)

Connect(c) ==
    /\ peer[c] = "idle"
    /\ peer' = [peer EXCEPT ![c] = "open"]
    /\ UNCHANGED <<request, unsent, answers, inbox, conn, buffer, lastSock,
                   stack, executed, broken>>

\* Part of the request arrives, split anywhere.
Send(c) ==
    /\ peer[c] = "open"
    /\ \E n \in 1 .. Len(unsent[c]) :
          /\ inbox' = [inbox EXCEPT ![c] = @ \o SubSeq(unsent[c], 1, n)]
          /\ unsent' = [unsent EXCEPT ![c] = SubSeq(@, n + 1, Len(@))]
    /\ UNCHANGED <<request, peer, answers, conn, buffer, lastSock, stack, executed,
                   broken>>

\* The client closes its side, at any time; what it sent still arrives.
Close(c) ==
    /\ peer[c] = "open"
    /\ peer' = [peer EXCEPT ![c] = "closed"]
    /\ UNCHANGED <<request, unsent, answers, inbox, conn, buffer, lastSock,
                   stack, executed, broken>>

-----------------------------------------------------------------------------
(* The WiFi module, as WiFiServer and WiFiClient use it *)

\* Mutant: a connection without bytes to fetch is taken for closed.
MutEstablished(s) == conn[s] # NoClient /\ inbox[conn[s]] # <<>>

\* ServerDrv::getClientState answers ESTABLISHED; for any other state of an
\* accepted connection WiFiClient::connected answers 0.
Established(s) == conn[s] # NoClient /\ peer[conn[s]] = "open"

\* The connection of slot s is over and its slot is free.
Release(s) ==
    /\ conn' = [conn EXCEPT ![s] = NoClient]
    /\ peer' = [c \in Clients |-> IF c = conn[s] THEN "done" ELSE peer[c]]
    /\ inbox' = [c \in Clients |-> IF c = conn[s] THEN <<>> ELSE inbox[c]]

\* A connection that the module has not given to the host yet.
Unplaced(c) == peer[c] \in {"open", "closed"} /\ \A s \in Slots : conn[s] # c

-----------------------------------------------------------------------------
(* WiFiSocketBuffer and WiFiClient *)

\* WiFiSocketBuffer::available fetches what the module has when nothing is
\* left of the last fetch.
Arrived(s) ==
    IF conn[s] = NoClient THEN <<>>
    ELSE [i \in DOMAIN inbox[conn[s]] |->
            [from |-> conn[s], token |-> inbox[conn[s]][i]]]

\* The bytes that available finds, and the number of broken replies then.  After
\* a broken reply to getDataBuf the memory of the buffer is taken for its data.
Fetches(s) ==
    IF buffer[s] # <<>> THEN {[bytes |-> buffer[s], broken |-> broken]}
    ELSE {[bytes |-> Arrived(s), broken |-> broken]} \cup
         {[bytes  |-> [i \in DOMAIN j |-> [from |-> NoClient, token |-> j[i]]],
           broken |-> broken + 1] : j \in IF broken < MaxBroken THEN Junk ELSE {}}

\* The module gives away what it had when a fetch happens.
Fetch(s, f) ==
    /\ inbox' = [c \in Clients |-> IF c = conn[s] /\ buffer[s] = <<>> THEN <<>>
                                   ELSE inbox[c]]
    /\ broken' = f.broken

-----------------------------------------------------------------------------
(* HostServer.loop: the innermost activation runs *)

top == stack[Len(stack)]

At(place) == stack # <<>> /\ top.at = place

GoTo(place) == stack' = [stack EXCEPT ![Len(stack)].at = place]

\* loop returns to its caller, the callback or the activation below.
Return == stack' = Front(stack)

\* serverThread's callback.
Callback ==
    /\ stack = <<>>
    /\ stack' = <<Started>>
    /\ UNCHANGED <<request, unsent, peer, answers, inbox, conn, buffer, lastSock,
                   executed, broken>>

TakeClient(s) ==
    stack' = [stack EXCEPT ![Len(stack)].at = "while", ![Len(stack)].sock = s]

\* The answer to availServer is s, but a broken reply to it reads as slot 0.
Told(s) ==
    \/ /\ IF s = NoSlot THEN Return /\ UNCHANGED lastSock
                        ELSE TakeClient(s) /\ lastSock' = s
       /\ UNCHANGED broken
    \/ /\ broken < MaxBroken /\ broken' = broken + 1
       /\ TakeClient(0) /\ lastSock' = 0

\* A broken reply to getClientState reads as CLOSED: connected() forgets the
\* connection, and the module does not.
MistakenForClosed(s) ==
    /\ broken < MaxBroken /\ broken' = broken + 1
    /\ buffer' = [buffer EXCEPT ![s] = <<>>]
    /\ UNCHANGED <<conn, peer, inbox>>

\* WiFiServer::available prefers the socket it returned last, as long as it
\* has bytes.
ServerAvailable ==
    /\ At("enter")
    /\ IF lastSock = NoSlot THEN GoTo("avail") /\ UNCHANGED <<inbox, buffer, broken>>
       ELSE \E f \in Fetches(lastSock) :
            /\ IF f.bytes # <<>> THEN TakeClient(lastSock) ELSE GoTo("state")
            /\ Fetch(lastSock, f)
            /\ buffer' = [buffer EXCEPT ![lastSock] = f.bytes]
    /\ UNCHANGED <<request, unsent, peer, answers, conn, lastSock, executed>>

\* Without bytes its connected() asks for the state of the connection, which
\* releases one that is over, ...
LastSockStatus ==
    /\ At("state")
    /\ \/ /\ Established(lastSock)
          /\ GoTo("again")
          /\ UNCHANGED <<conn, peer, inbox, buffer, broken>>
       \/ /\ ~Established(lastSock)
          /\ GoTo("avail")
          /\ Release(lastSock)
          /\ buffer' = [buffer EXCEPT ![lastSock] = <<>>]
          /\ UNCHANGED broken
       \/ GoTo("avail") /\ MistakenForClosed(lastSock)
    /\ UNCHANGED <<request, unsent, answers, lastSock, executed>>

\* ... and if it is alive it is asked for bytes once more.
LastSockAgain ==
    /\ At("again")
    /\ \E f \in Fetches(lastSock) :
          /\ IF f.bytes # <<>> THEN TakeClient(lastSock) ELSE GoTo("avail")
          /\ Fetch(lastSock, f)
          /\ buffer' = [buffer EXCEPT ![lastSock] = f.bytes]
    /\ UNCHANGED <<request, unsent, peer, answers, conn, lastSock, executed>>

\* Otherwise the module is asked: it returns a slot that has bytes, or the
\* slot it gives to a new connection, or none.
AvailServer ==
    /\ At("avail")
    /\ \/ \E s \in Slots : /\ conn[s] # NoClient /\ inbox[conn[s]] # <<>>
                            /\ Told(s) /\ UNCHANGED conn
       \/ \E s \in Slots, c \in Clients : /\ conn[s] = NoClient /\ Unplaced(c)
                                          /\ conn' = [conn EXCEPT ![s] = c]
                                          /\ Told(s)
       \/ /\ \A s \in Slots : conn[s] # NoClient => inbox[conn[s]] = <<>>
          /\ (\E s \in Slots : conn[s] = NoClient) => \A c \in Clients : ~Unplaced(c)
          /\ Told(NoSlot) /\ UNCHANGED conn
    /\ UNCHANGED <<request, unsent, peer, answers, inbox, buffer, executed>>

\* while (client.connected()): bytes at hand count as connected.
Connected ==
    /\ At("while")
    /\ IF top.sock = NoSlot THEN GoTo("stop") /\ UNCHANGED <<inbox, buffer, broken>>
       ELSE \E f \in Fetches(top.sock) :
            /\ GoTo(IF f.bytes # <<>> THEN "if" ELSE "status")
            /\ Fetch(top.sock, f)
            /\ buffer' = [buffer EXCEPT ![top.sock] = f.bytes]
    /\ UNCHANGED <<request, unsent, peer, answers, conn, lastSock, executed>>

LoseClient ==
    stack' = [stack EXCEPT ![Len(stack)].at = "stop", ![Len(stack)].sock = NoSlot]

\* ... without bytes the module is asked for the state, and bytes that come in
\* between are not seen any more if the connection is over by then.
ConnectedStatus ==
    /\ At("status")
    /\ \/ /\ Established(top.sock)
          /\ GoTo("if")
          /\ UNCHANGED <<conn, peer, inbox, buffer, broken>>
       \/ /\ ~Established(top.sock)
          /\ LoseClient
          /\ Release(top.sock)
          /\ buffer' = [buffer EXCEPT ![top.sock] = <<>>]
          /\ UNCHANGED broken
       \/ LoseClient /\ MistakenForClosed(top.sock)
    /\ UNCHANGED <<request, unsent, answers, lastSock, executed>>

\* Mutant: the line is searched for a command, not only its end.
MutLineAfterSearch(i) ==
    CASE i.token = "LF" -> EmptyLine
      [] i.token = "CR" -> top.line
      [] i.token = "text" /\ top.line.end \in Commands -> top.line
      [] OTHER          -> [end |-> i.token, from |-> i.from]

\* Mutant: the carriage return becomes part of the line.
MutLineAfterCR(i) ==
    IF i.token = "LF" THEN EmptyLine ELSE [end |-> i.token, from |-> i.from]

\* Mutant: a newline does not clear the line.
MutLineAfterLF(i) ==
    IF i.token \in {"LF", "CR"} THEN top.line ELSE [end |-> i.token, from |-> i.from]

\* currentLine once character i has been dealt with.
LineAfter(i) ==
    CASE i.token = "LF" -> EmptyLine
      [] i.token = "CR" -> top.line
      [] OTHER          -> [end |-> i.token, from |-> i.from]

\* Mutant: the break after the page is missing.
MutRespond ==
    /\ answers' = [c \in Clients |-> IF c = conn[top.sock] THEN answers[c] + 1
                                     ELSE answers[c]]
    /\ GoTo("while")
    /\ UNCHANGED executed

\* A blank line ends the request: the page is sent and the loop is left.
Respond ==
    /\ answers' = [c \in Clients |-> IF c = conn[top.sock] THEN answers[c] + 1
                                     ELSE answers[c]]
    /\ GoTo("stop")
    /\ UNCHANGED executed

\* Mutant: loop is called after every command.
MutServesAgain(line) == line.end \in Commands

\* /refresh clears the line and calls loop.
ServesAgain(line) == line.end = "refresh"

\* The commands are looked for at the end of the line after every character,
\* a carriage return included.
Execute(i) ==
    LET line  == LineAfter(i)
        moved == [stack EXCEPT ![Len(stack)].at = "while",
                               ![Len(stack)].line = IF ServesAgain(line) THEN EmptyLine
                                                    ELSE line]
    IN  /\ executed' = [c \in Clients |->
                          IF line.end \in Toggles /\ c = line.from
                          THEN executed[c] + 1 ELSE executed[c]]
        /\ stack' = IF ServesAgain(line) THEN Append(moved, Started) ELSE moved
        /\ UNCHANGED answers

\* if (client.available()) read one character and deal with it.
Read ==
    /\ At("if")
    /\ \E f \in Fetches(top.sock) :
          /\ Fetch(top.sock, f)
          /\ IF f.bytes = <<>>
             THEN GoTo("while") /\ UNCHANGED <<answers, executed, buffer>>
             ELSE LET i == Head(f.bytes) IN
                  /\ IF i.token = "LF" /\ top.line.end = "" THEN Respond ELSE Execute(i)
                  /\ buffer' = [buffer EXCEPT ![top.sock] = Tail(f.bytes)]
    /\ UNCHANGED <<request, unsent, peer, conn, lastSock>>

\* Mutant: stop leaves the bytes already fetched in the buffer.
MutStop ==
    /\ At("stop")
    /\ IF top.sock = NoSlot THEN UNCHANGED <<conn, peer, inbox>> ELSE Release(top.sock)
    /\ Return
    /\ UNCHANGED <<request, unsent, answers, buffer, lastSock, executed, broken>>

\* client.stop(), then loop returns.
Stop ==
    /\ At("stop")
    /\ IF top.sock = NoSlot THEN UNCHANGED <<conn, peer, inbox, buffer>>
       ELSE /\ Release(top.sock)
            /\ buffer' = [buffer EXCEPT ![top.sock] = <<>>]
    /\ Return
    /\ UNCHANGED <<request, unsent, answers, lastSock, executed, broken>>

Serve == \/ ServerAvailable \/ LastSockStatus \/ LastSockAgain \/ AvailServer
         \/ Connected \/ ConnectedStatus \/ Read \/ Stop

Next == \/ \E c \in Clients : Connect(c) \/ Send(c) \/ Close(c)
        \/ Callback
        \/ Serve

Spec == Init /\ [][Next]_vars

\* The scheduler calls the server again, the program goes on, a client that is
\* connected sends all of its request or closes, and clients do not wait for
\* ever for a page that a broken reply may have cost them.
FairSpec ==
    /\ Spec
    /\ WF_vars(Callback) /\ WF_vars(Serve)
    /\ \A c \in Clients : WF_vars(Send(c)) /\ WF_vars(broken > 0 /\ Close(c))

-----------------------------------------------------------------------------
(* What a browser sends, by HTTP.  A command is in the first line, the request line,  *)
(* and as it ends a path there, and a path has no space, there is no second one.      *)

OneCommand(r) ==
    \A i, j \in 1 .. Len(r) : r[i] \in Commands /\ r[j] \in Commands => i = j

OneRefresh(r) ==
    \A i, j \in 1 .. Len(r) : r[i] = "refresh" /\ r[j] = "refresh" => i = j

\* No command that calls the controller follows a newline.
InFirstLine(r) ==
    \A i, j \in 1 .. Len(r) : r[i] = "LF" /\ r[j] \in Toggles => j < i

\* The version follows the path, so that no carriage return follows the command,
\* which would carry it out again.
VersionFollows(r) ==
    \A i \in 1 .. Len(r) - 1 : r[i] \in Toggles => r[i + 1] # "CR"

-----------------------------------------------------------------------------
(* Properties *)

\* What a request asks the controller to do.
Commanded(r) == Cardinality({i \in DOMAIN r : r[i] \in Toggles})

\* A command is carried out once: when the page is sent the command of its
\* request has been executed exactly once, however the request was split, and
\* whatever other requests were served in between or in nested activations.
\* (A broken reply may lose a command, or repeat one that is left in the buffer.)
ExactlyOnce ==
    broken = 0 => \A c \in Clients :
        /\ executed[c] <= Commanded(request[c])
        /\ answers[c] = 1 => executed[c] = Commanded(request[c])

\* Requests are not mixed: the bytes the host holds for a slot, and the line
\* an activation has put together from it, are of the client that has the
\* slot now, although slots are reused while outer activations hold them; after
\* a broken reply they may also be junk, but no other client's.
NoStaleBytes ==
    /\ \A s \in Slots : \A i \in DOMAIN buffer[s] :
          buffer[s][i].from \in {conn[s], NoClient}
    /\ \A n \in DOMAIN stack :
          stack[n].sock # NoSlot /\ stack[n].line # EmptyLine
              => stack[n].line.from \in {conn[stack[n].sock], NoClient}

\* Activations nest only as deep as there are requests for /refresh: each enters
\* loop once, the broken replies that invent one included.
NestingBounded ==
    Len(stack) <= 1 + broken + Cardinality({c \in Clients : Contains(request[c], "refresh")})

\* The server hangs up on no client that has not had its page: not even the
\* outer activations do, which stop a client that an inner one has served.
NoPrematureHangup ==
    [][\A c \in Clients : peer[c] = "open" /\ peer'[c] = "done" => answers[c] = 1]_vars

\* Every client that does not close gets its page, if all the others send
\* their requests in full or close.
EveryClientAnswered ==
    \A c \in Clients : peer[c] = "open" ~> answers[c] = 1 \/ peer[c] = "closed"

\* The callback returns, so that the scheduler can run the detector.
CallbackReturns == []<>(stack = <<>>)
=============================================================================
