-------------------------- MODULE HostServer_proofs --------------------------
(***************************************************************************)
(* Proofs about HostServer for every number of clients and slots, every    *)
(* set of requests, and any number of broken replies: requests are never   *)
(* mixed, although slots are reused while outer activations hold them, and *)
(* the server hangs up on no client that was not answered.                 *)
(***************************************************************************)
EXTENDS HostServer, SequenceTheorems, TLAPS

\* The places before loop has a client.
Fresh == {"enter", "state", "again", "avail"}

\* Activations that have called loop again wait at their while with an empty line:
\* /refresh cleared it.
OuterWaits ==
    \A n \in 1 .. Len(stack) - 1 :
        stack[n].at = "while" /\ stack[n].line = EmptyLine /\ stack[n].sock \in Slots

\* The innermost activation: its line is of the client that has its slot.
TopHolds ==
    stack # <<>> =>
        /\ top.at \in Fresh => top.line = EmptyLine
        /\ top.at \in {"state", "again"} => lastSock \in Slots
        /\ top.at \in {"status", "if"} => top.sock \in Slots
        /\ top.sock # NoSlot => top.line.from \in {conn[top.sock], NoClient}

Owned(s, bytes) == \A i \in DOMAIN bytes : bytes[i].from \in {conn[s], NoClient}

BuffersOwned == \A s \in Slots : Owned(s, buffer[s])

LinesInvariant == TypeOK /\ OuterWaits /\ TopHolds /\ BuffersOwned

\* A slot is held for one client, which is not done.
SlotsHeld ==
    \A s \in Slots : conn[s] # NoClient =>
        /\ peer[conn[s]] \in {"open", "closed"}
        /\ \A t \in Slots : conn[t] = conn[s] => t = s

\* A client that was answered is done, or is about to be hung up on.
AnsweredLeave ==
    \A c \in Clients : answers[c] = 1 =>
        \/ peer[c] = "done"
        \/ /\ stack # <<>> /\ top.at = "stop"
           /\ top.sock \in Slots /\ conn[top.sock] = c

ServerInvariant == LinesInvariant /\ SlotsHeld /\ AnsweredLeave

-----------------------------------------------------------------------------
(* The stack *)

\* The innermost activation changes.
LEMMA TopChanged ==
    ASSUME TypeOK, OuterWaits, stack # <<>>, NEW a \in Activation,
           stack' = [stack EXCEPT ![Len(stack)] = a]
    PROVE  /\ stack' \in Seq(Activation) /\ stack' # <<>>
           /\ Len(stack') = Len(stack) /\ top' = a /\ OuterWaits'
<1>1. stack \in Seq(Activation) /\ Len(stack) \in Nat /\ Len(stack) \in 1 .. Len(stack)
  <2>1. stack \in Seq(Activation)
    BY DEF TypeOK
  <2>2. Len(stack) \in Nat /\ Len(stack) # 0
    BY <2>1, EmptySeq, LenProperties
  <2>. QED  BY <2>1, <2>2
<1>2. /\ stack' \in Seq(Activation) /\ Len(stack') = Len(stack)
      /\ \A j \in 1 .. Len(stack) : stack'[j] = IF j = Len(stack) THEN a ELSE stack[j]
  BY <1>1, ExceptSeq
<1>3. stack' # <<>>
  BY <1>1, <1>2, EmptySeq
<1>4. top' = a
  BY <1>1, <1>2 DEF top
<1>5. OuterWaits'
  <2>1. \A n \in 1 .. Len(stack') - 1 : stack'[n] = stack[n] /\ n \in 1 .. Len(stack) - 1
    <3>1. \A n \in 1 .. Len(stack) - 1 : n \in 1 .. Len(stack) /\ n # Len(stack)
      BY <1>1
    <3>. QED  BY <1>2, <3>1
  <2>. QED  BY <2>1 DEF OuterWaits
<1>. QED  BY <1>2, <1>3, <1>4, <1>5

LEMMA TopTyped ==
    ASSUME TypeOK, stack # <<>>
    PROVE  /\ stack \in Seq(Activation) /\ Len(stack) \in Nat /\ Len(stack) \in 1 .. Len(stack)
           /\ top \in Activation /\ top.at \in Places /\ top.sock \in Slots \cup {NoSlot}
           /\ top.line \in Line
<1>1. stack \in Seq(Activation)
  BY DEF TypeOK
<1>2. Len(stack) \in Nat /\ Len(stack) # 0
  BY <1>1, EmptySeq, LenProperties
<1>3. Len(stack) \in 1 .. Len(stack)
  BY <1>2
<1>4. top \in Activation
  BY <1>1, <1>3, ElementOfSeq DEF top
<1>. QED  BY <1>1, <1>2, <1>3, <1>4 DEF Activation

\* It goes to another place ...
LEMMA GoesTo ==
    ASSUME TypeOK, OuterWaits, stack # <<>>, NEW p \in Places, GoTo(p)
    PROVE  /\ stack' \in Seq(Activation) /\ stack' # <<>> /\ OuterWaits'
           /\ Len(stack') = Len(stack)
           /\ top'.at = p /\ top'.sock = top.sock /\ top'.line = top.line
<1> DEFINE a == [top EXCEPT !.at = p]
<1>1. a \in Activation /\ a.at = p /\ a.sock = top.sock /\ a.line = top.line
  BY TopTyped DEF Activation
<1>2. stack' = [stack EXCEPT ![Len(stack)] = a]
  BY DEF GoTo, top
<1>. QED  BY <1>1, <1>2, TopChanged

\* ... or to its while with a client, ...
LEMMA TakesClient ==
    ASSUME TypeOK, OuterWaits, stack # <<>>, NEW s \in Slots, TakeClient(s)
    PROVE  /\ stack' \in Seq(Activation) /\ stack' # <<>> /\ OuterWaits'
           /\ Len(stack') = Len(stack)
           /\ top'.at = "while" /\ top'.sock = s /\ top'.line = top.line
<1> DEFINE a == [top EXCEPT !.at = "while", !.sock = s]
<1>1. a \in Activation /\ a.at = "while" /\ a.sock = s /\ a.line = top.line
  BY TopTyped DEF Activation, Places
<1>2. stack' = [stack EXCEPT ![Len(stack)] = a]
  BY TopTyped DEF TakeClient, top
<1>. QED  BY <1>1, <1>2, TopChanged

\* ... or to its stop without one.
LEMMA LosesClient ==
    ASSUME TypeOK, OuterWaits, stack # <<>>, LoseClient
    PROVE  /\ stack' \in Seq(Activation) /\ stack' # <<>> /\ OuterWaits'
           /\ Len(stack') = Len(stack)
           /\ top'.at = "stop" /\ top'.sock = NoSlot /\ top'.line = top.line
<1> DEFINE a == [top EXCEPT !.at = "stop", !.sock = NoSlot]
<1>1. a \in Activation /\ a.at = "stop" /\ a.sock = NoSlot /\ a.line = top.line
  BY TopTyped DEF Activation, Places
<1>2. stack' = [stack EXCEPT ![Len(stack)] = a]
  BY TopTyped DEF LoseClient, top
<1>. QED  BY <1>1, <1>2, TopChanged

\* It returns to one that waits.
LEMMA Returns ==
    ASSUME TypeOK, OuterWaits, stack # <<>>, Return
    PROVE  /\ stack' \in Seq(Activation) /\ OuterWaits'
           /\ Len(stack') = Len(stack) - 1
           /\ stack' # <<>> => /\ top'.at = "while" /\ top'.line = EmptyLine
<1> DEFINE n == Len(stack) - 1
<1>1. stack \in Seq(Activation) /\ Len(stack) \in Nat /\ 1 <= Len(stack)
  BY TopTyped
<1>2. \A i \in 1 .. n : stack[i] \in Activation
  BY <1>1, ElementOfSeq
<1>3. stack' = SubSeq(stack, 1, n)
  BY DEF Return, Front
<1>4. /\ stack' \in Seq(Activation)
      /\ Len(stack') = IF 1 <= n THEN n - 1 + 1 ELSE 0
      /\ \A i \in 1 .. n - 1 + 1 : stack'[i] = stack[1 + i - 1]
  BY <1>1, <1>2, <1>3, SubSeqProperties
<1>5. Len(stack') = n /\ \A i \in 1 .. n : stack'[i] = stack[i]
  <2>1. n \in Nat
    BY <1>1
  <2> HIDE DEF n
  <2>2. n - 1 + 1 = n /\ (~(1 <= n) => n = 0)
    BY <2>1
  <2>3. \A i \in 1 .. n : 1 + i - 1 = i
    BY <2>1
  <2>. QED  BY <1>4, <2>2, <2>3
<1>6. OuterWaits'
  BY <1>1, <1>5 DEF OuterWaits
<1>7. ASSUME stack' # <<>> PROVE top'.at = "while" /\ top'.line = EmptyLine
  <2>1. Len(stack') # 0
    BY <1>4, <1>7, EmptySeq
  <2>2. n \in 1 .. n
    BY <1>1, <1>5, <2>1
  <2>3. top' = stack[n]
    BY <1>5, <2>2 DEF top
  <2>. QED  BY <2>2, <2>3 DEF OuterWaits
<1>. QED  BY <1>4, <1>5, <1>6, <1>7

\* With an empty line little has to hold of it.
LEMMA EmptyTop ==
    ASSUME stack' # <<>> => /\ top'.line = EmptyLine /\ top'.at \notin {"status", "if"}
                            /\ top'.at \in {"state", "again"} => lastSock' \in Slots
    PROVE  TopHolds'
<1>1. EmptyLine.from = NoClient /\ EmptyLine' = EmptyLine
  BY DEF EmptyLine
<1>. QED  BY <1>1 DEF TopHolds

-----------------------------------------------------------------------------
(* Buffers and slots *)

\* Tokens of one sender, as a buffer holds them.
LEMMA TokensOwned ==
    ASSUME NEW c \in Clients \cup {NoClient}, NEW q \in Seq(Tokens)
    PROVE  [i \in DOMAIN q |-> [from |-> c, token |-> q[i]]] \in Seq(Item)
<1>1. Len(q) \in Nat /\ DOMAIN q = 1 .. Len(q) /\ q \in [1 .. Len(q) -> Tokens]
  BY LenProperties
<1>2. \A i \in DOMAIN q : [from |-> c, token |-> q[i]] \in Item
  BY <1>1 DEF Item
<1>3. [i \in DOMAIN q |-> [from |-> c, token |-> q[i]]] \in [1 .. Len(q) -> Item]
  BY <1>1, <1>2
<1>. QED  BY <1>1, <1>3, SeqDef

\* What available finds in a slot is its client's, or junk.
LEMMA FetchOwned ==
    ASSUME TypeOK, BuffersOwned, NEW s \in Slots, NEW f \in Fetches(s)
    PROVE  /\ f.bytes \in Seq(Item) /\ Owned(s, f.bytes) /\ f.broken \in 0 .. MaxBroken
<1>1. /\ buffer[s] \in Seq(Item) /\ conn[s] \in Clients \cup {NoClient}
      /\ \A c \in Clients : inbox[c] \in Seq(Tokens)
  BY DEF TypeOK
<1>2. broken \in 0 .. MaxBroken /\ MaxBroken \in Nat
  BY ServerAssumption DEF TypeOK
<1>3. Arrived(s) \in Seq(Item) /\ Owned(s, Arrived(s))
  <2>1. CASE conn[s] = NoClient
    BY <2>1, EmptySeq DEF Arrived, Owned
  <2>2. CASE conn[s] # NoClient
    <3>1. conn[s] \in Clients /\ inbox[conn[s]] \in Seq(Tokens)
      BY <1>1, <2>2
    <3>2. Arrived(s) = [i \in DOMAIN inbox[conn[s]] |->
                          [from |-> conn[s], token |-> inbox[conn[s]][i]]]
      BY <2>2 DEF Arrived
    <3>3. Arrived(s) \in Seq(Item)
      BY <1>1, <3>1, <3>2, TokensOwned
    <3>. QED  BY <3>2, <3>3 DEF Owned
  <2>. QED  BY <2>1, <2>2
<1>4. CASE buffer[s] # <<>>
  BY <1>1, <1>2, <1>4 DEF Fetches, BuffersOwned
<1>5. CASE f = [bytes |-> Arrived(s), broken |-> broken]
  BY <1>2, <1>3, <1>5
<1>6. ASSUME broken < MaxBroken, NEW j \in Junk,
             f = [bytes  |-> [i \in DOMAIN j |-> [from |-> NoClient, token |-> j[i]]],
                  broken |-> broken + 1]
      PROVE  f.bytes \in Seq(Item) /\ Owned(s, f.bytes) /\ f.broken \in 0 .. MaxBroken
  <2>1. j \in Seq(Tokens)
    BY ServerAssumption
  <2>2. f.bytes \in Seq(Item)
    BY <1>6, <2>1, TokensOwned
  <2>3. f.broken \in 0 .. MaxBroken
    BY <1>2, <1>6
  <2>. QED  BY <1>6, <2>2, <2>3 DEF Owned
<1>. QED  BY <1>4, <1>5, <1>6 DEF Fetches

LEMMA FetchTyped ==
    ASSUME TypeOK, BuffersOwned, NEW s \in Slots, NEW f \in Fetches(s), Fetch(s, f)
    PROVE  inbox' \in [Clients -> Seq(Tokens)] /\ broken' \in 0 .. MaxBroken
<1>1. <<>> \in Seq(Tokens)
  BY EmptySeq
<1>. QED  BY <1>1, FetchOwned DEF Fetch, TypeOK

\* A slot's buffer is filled.
LEMMA BufferFilled ==
    ASSUME TypeOK, BuffersOwned, NEW s \in Slots, NEW bytes \in Seq(Item), Owned(s, bytes),
           buffer' = [buffer EXCEPT ![s] = bytes], conn' = conn
    PROVE  buffer' \in [Slots -> Seq(Item)] /\ BuffersOwned'
BY DEF TypeOK, BuffersOwned, Owned

\* A slot is given up.
LEMMA Released ==
    ASSUME TypeOK, BuffersOwned, NEW s \in Slots, Release(s),
           buffer' = [buffer EXCEPT ![s] = <<>>]
    PROVE  /\ conn' \in [Slots -> Clients \cup {NoClient}]
           /\ peer' \in [Clients -> {"idle", "open", "closed", "done"}]
           /\ inbox' \in [Clients -> Seq(Tokens)]
           /\ buffer' \in [Slots -> Seq(Item)] /\ BuffersOwned'
<1>1. <<>> \in Seq(Tokens) /\ <<>> \in Seq(Item) /\ DOMAIN <<>> = {}
  BY EmptySeq
<1>2. /\ conn' \in [Slots -> Clients \cup {NoClient}]
      /\ peer' \in [Clients -> {"idle", "open", "closed", "done"}]
      /\ inbox' \in [Clients -> Seq(Tokens)]
  BY <1>1 DEF Release, TypeOK
<1>3. buffer' \in [Slots -> Seq(Item)]
  BY <1>1 DEF TypeOK
<1>4. BuffersOwned'
  BY <1>1 DEF Release, TypeOK, BuffersOwned, Owned
<1>. QED  BY <1>2, <1>3, <1>4

LEMMA Mistaken ==
    ASSUME TypeOK, BuffersOwned, NEW s \in Slots, MistakenForClosed(s)
    PROVE  /\ UNCHANGED <<conn, peer, inbox>> /\ broken' \in 0 .. MaxBroken
           /\ buffer' \in [Slots -> Seq(Item)] /\ BuffersOwned'
<1>1. <<>> \in Seq(Item) /\ DOMAIN <<>> = {}
  BY EmptySeq
<1>2. UNCHANGED <<conn, peer, inbox>> /\ buffer' = [buffer EXCEPT ![s] = <<>>]
  BY DEF MistakenForClosed
<1>3. broken \in 0 .. MaxBroken /\ MaxBroken \in Nat
  BY ServerAssumption DEF TypeOK
<1>4. broken' \in 0 .. MaxBroken
  BY <1>3 DEF MistakenForClosed
<1>5. buffer' \in [Slots -> Seq(Item)] /\ BuffersOwned'
  BY <1>1, <1>2, BufferFilled DEF Owned
<1>. QED  BY <1>2, <1>4, <1>5

-----------------------------------------------------------------------------
(* Clients *)

LEMMA ClientKept ==
    ASSUME LinesInvariant, NEW c \in Clients, Connect(c) \/ Send(c) \/ Close(c)
    PROVE  LinesInvariant'
<1>1. TypeOK /\ OuterWaits /\ TopHolds /\ BuffersOwned
  BY DEF LinesInvariant
<1>2. UNCHANGED <<request, answers, conn, buffer, lastSock, stack, executed, broken>>
  BY DEF Connect, Send, Close
<1>3. OuterWaits' /\ TopHolds' /\ BuffersOwned'
  BY <1>1, <1>2 DEF OuterWaits, TopHolds, BuffersOwned, Owned, top
<1>4. CASE Connect(c) \/ Close(c)
  <2>1. peer' \in [Clients -> {"idle", "open", "closed", "done"}] /\ UNCHANGED <<unsent, inbox>>
    BY <1>1, <1>4 DEF Connect, Close, TypeOK
  <2>. QED  BY <1>1, <1>2, <1>3, <2>1 DEF TypeOK, LinesInvariant
<1>5. CASE Send(c)
  <2>1. PICK n \in 1 .. Len(unsent[c]) :
           /\ inbox' = [inbox EXCEPT ![c] = @ \o SubSeq(unsent[c], 1, n)]
           /\ unsent' = [unsent EXCEPT ![c] = SubSeq(@, n + 1, Len(@))]
           /\ UNCHANGED peer
    BY <1>5 DEF Send
  <2>2. unsent[c] \in Seq(Tokens) /\ inbox[c] \in Seq(Tokens)
    BY <1>1 DEF TypeOK
  <2>3. Len(unsent[c]) \in Nat /\ \A i \in 1 .. Len(unsent[c]) : unsent[c][i] \in Tokens
    BY <2>2, LenProperties, ElementOfSeq
  <2>4. SubSeq(unsent[c], 1, n) \in Seq(Tokens)
    <3>1. 1 \in Int /\ n \in Int /\ \A i \in 1 .. n : unsent[c][i] \in Tokens
      BY <2>3
    <3>. QED  BY <3>1, SubSeqProperties
  <2>5. SubSeq(unsent[c], n + 1, Len(unsent[c])) \in Seq(Tokens)
    <3>1. n + 1 \in Int /\ Len(unsent[c]) \in Int
          /\ \A i \in n + 1 .. Len(unsent[c]) : unsent[c][i] \in Tokens
      BY <2>3
    <3>. QED  BY <3>1, SubSeqProperties
  <2>6. inbox[c] \o SubSeq(unsent[c], 1, n) \in Seq(Tokens)
    BY <2>2, <2>4, ConcatProperties
  <2>7. inbox' \in [Clients -> Seq(Tokens)] /\ unsent' \in [Clients -> Seq(Tokens)]
    BY <1>1, <2>1, <2>5, <2>6 DEF TypeOK
  <2>. QED  BY <1>1, <1>2, <1>3, <2>1, <2>7 DEF TypeOK, LinesInvariant
<1>. QED  BY <1>4, <1>5

-----------------------------------------------------------------------------
(* The server *)

LEMMA CallbackKept ==
    ASSUME LinesInvariant, Callback
    PROVE  LinesInvariant'
<1>1. TypeOK /\ BuffersOwned
  BY DEF LinesInvariant
<1>2. /\ stack' = <<Started>>
      /\ UNCHANGED <<request, unsent, peer, answers, inbox, conn, buffer, lastSock,
                     executed, broken>>
  BY DEF Callback
<1>3. Started \in Activation /\ Started.at = "enter" /\ Started.line = EmptyLine
      /\ Started.sock = NoSlot
  BY DEF Started, Activation, Places, EmptyLine, Line
<1>4. stack' \in Seq(Activation) /\ Len(stack') = 1 /\ stack'[1] = Started
  BY <1>2, <1>3
<1>5. OuterWaits' /\ TopHolds'
  BY <1>3, <1>4 DEF OuterWaits, TopHolds, top, Fresh
<1>6. TypeOK' /\ BuffersOwned'
  BY <1>1, <1>2, <1>4 DEF TypeOK, BuffersOwned, Owned
<1>. QED  BY <1>5, <1>6 DEF LinesInvariant

LEMMA ServerAvailableKept ==
    ASSUME LinesInvariant, ServerAvailable
    PROVE  LinesInvariant'
<1>1. TypeOK /\ OuterWaits /\ TopHolds /\ BuffersOwned
  BY DEF LinesInvariant
<1>2. /\ stack # <<>> /\ top.at = "enter"
      /\ UNCHANGED <<request, unsent, peer, answers, conn, lastSock, executed>>
  BY DEF ServerAvailable, At
<1>3. top.line = EmptyLine
  BY <1>1, <1>2 DEF TopHolds, Fresh
<1>4. CASE lastSock = NoSlot
  <2>1. GoTo("avail") /\ UNCHANGED <<inbox, buffer, broken>>
    BY <1>4 DEF ServerAvailable
  <2>2. /\ stack' \in Seq(Activation) /\ stack' # <<>> /\ OuterWaits'
        /\ top'.at = "avail" /\ top'.line = EmptyLine
    BY <1>1, <1>2, <1>3, <2>1, GoesTo DEF Places
  <2>3. TopHolds'
    BY <2>2, EmptyTop
  <2>4. TypeOK' /\ BuffersOwned'
    BY <1>1, <1>2, <2>1, <2>2 DEF TypeOK, BuffersOwned, Owned
  <2>. QED  BY <2>2, <2>3, <2>4 DEF LinesInvariant
<1>5. CASE lastSock # NoSlot
  <2>1. lastSock \in Slots
    BY <1>1, <1>5 DEF TypeOK
  <2>2. PICK f \in Fetches(lastSock) :
           /\ IF f.bytes # <<>> THEN TakeClient(lastSock) ELSE GoTo("state")
           /\ Fetch(lastSock, f)
           /\ buffer' = [buffer EXCEPT ![lastSock] = f.bytes]
    BY <1>5 DEF ServerAvailable
  <2>3. /\ inbox' \in [Clients -> Seq(Tokens)] /\ broken' \in 0 .. MaxBroken
        /\ buffer' \in [Slots -> Seq(Item)] /\ BuffersOwned'
    BY <1>1, <1>2, <2>1, <2>2, FetchOwned, FetchTyped, BufferFilled
  <2>4. /\ stack' \in Seq(Activation) /\ stack' # <<>> /\ OuterWaits'
        /\ top'.at \in {"while", "state"} /\ top'.line = EmptyLine
    BY <1>1, <1>2, <1>3, <2>1, <2>2, GoesTo, TakesClient DEF Places
  <2>5. TopHolds'
    BY <1>2, <2>1, <2>4, EmptyTop
  <2>6. TypeOK'
    BY <1>1, <1>2, <2>3, <2>4 DEF TypeOK
  <2>. QED  BY <2>3, <2>4, <2>5, <2>6 DEF LinesInvariant
<1>. QED  BY <1>4, <1>5

LEMMA LastSockStatusKept ==
    ASSUME LinesInvariant, LastSockStatus
    PROVE  LinesInvariant'
<1>1. TypeOK /\ OuterWaits /\ TopHolds /\ BuffersOwned
  BY DEF LinesInvariant
<1>2. /\ stack # <<>> /\ top.at = "state"
      /\ UNCHANGED <<request, unsent, answers, lastSock, executed>>
  BY DEF LastSockStatus, At
<1>3. top.line = EmptyLine /\ lastSock \in Slots
  BY <1>1, <1>2 DEF TopHolds, Fresh
<1>4. GoTo("again") \/ GoTo("avail")
  BY DEF LastSockStatus
<1>5. /\ stack' \in Seq(Activation) /\ stack' # <<>> /\ OuterWaits'
      /\ top'.at \in {"again", "avail"} /\ top'.line = EmptyLine
  BY <1>1, <1>2, <1>3, <1>4, GoesTo DEF Places
<1>6. TopHolds'
  BY <1>2, <1>3, <1>5, EmptyTop
<1>7. /\ conn' \in [Slots -> Clients \cup {NoClient}]
      /\ peer' \in [Clients -> {"idle", "open", "closed", "done"}]
      /\ inbox' \in [Clients -> Seq(Tokens)] /\ broken' \in 0 .. MaxBroken
      /\ buffer' \in [Slots -> Seq(Item)] /\ BuffersOwned'
  <2>1. CASE UNCHANGED <<conn, peer, inbox, buffer, broken>>
    BY <1>1, <2>1 DEF TypeOK, BuffersOwned, Owned
  <2>2. CASE Release(lastSock) /\ buffer' = [buffer EXCEPT ![lastSock] = <<>>] /\ UNCHANGED broken
    BY <1>1, <1>3, <2>2, Released DEF TypeOK
  <2>3. CASE MistakenForClosed(lastSock)
    BY <1>1, <1>3, <2>3, Mistaken DEF TypeOK
  <2>. QED  BY <2>1, <2>2, <2>3 DEF LastSockStatus
<1>8. TypeOK'
  BY <1>1, <1>2, <1>5, <1>7 DEF TypeOK
<1>. QED  BY <1>5, <1>6, <1>7, <1>8 DEF LinesInvariant

LEMMA LastSockAgainKept ==
    ASSUME LinesInvariant, LastSockAgain
    PROVE  LinesInvariant'
<1>1. TypeOK /\ OuterWaits /\ TopHolds /\ BuffersOwned
  BY DEF LinesInvariant
<1>2. /\ stack # <<>> /\ top.at = "again"
      /\ UNCHANGED <<request, unsent, peer, answers, conn, lastSock, executed>>
  BY DEF LastSockAgain, At
<1>3. top.line = EmptyLine /\ lastSock \in Slots
  BY <1>1, <1>2 DEF TopHolds, Fresh
<1>4. PICK f \in Fetches(lastSock) :
         /\ IF f.bytes # <<>> THEN TakeClient(lastSock) ELSE GoTo("avail")
         /\ Fetch(lastSock, f)
         /\ buffer' = [buffer EXCEPT ![lastSock] = f.bytes]
  BY DEF LastSockAgain
<1>5. /\ inbox' \in [Clients -> Seq(Tokens)] /\ broken' \in 0 .. MaxBroken
      /\ buffer' \in [Slots -> Seq(Item)] /\ BuffersOwned'
  BY <1>1, <1>2, <1>3, <1>4, FetchOwned, FetchTyped, BufferFilled
<1>6. /\ stack' \in Seq(Activation) /\ stack' # <<>> /\ OuterWaits'
      /\ top'.at \in {"while", "avail"} /\ top'.line = EmptyLine
  BY <1>1, <1>2, <1>3, <1>4, GoesTo, TakesClient DEF Places
<1>7. TopHolds'
  BY <1>6, EmptyTop
<1>8. TypeOK'
  BY <1>1, <1>2, <1>5, <1>6 DEF TypeOK
<1>. QED  BY <1>5, <1>6, <1>7, <1>8 DEF LinesInvariant

\* Told decides about the innermost activation.
LEMMA ToldTop ==
    ASSUME LinesInvariant, stack # <<>>, top.line = EmptyLine,
           NEW s \in Slots \cup {NoSlot}, Told(s)
    PROVE  /\ stack' \in Seq(Activation) /\ OuterWaits' /\ TopHolds'
           /\ lastSock' \in Slots \cup {NoSlot} /\ broken' \in 0 .. MaxBroken
<1>1. TypeOK /\ OuterWaits
  BY DEF LinesInvariant
<1>2. broken \in 0 .. MaxBroken /\ MaxBroken \in Nat
  BY <1>1, ServerAssumption DEF TypeOK
<1>3. CASE s = NoSlot /\ Return /\ UNCHANGED <<lastSock, broken>>
  BY <1>1, <1>3, Returns, EmptyTop DEF TypeOK
<1>4. ASSUME NEW r \in Slots, TakeClient(r), lastSock' = r
      PROVE  stack' \in Seq(Activation) /\ OuterWaits' /\ TopHolds' /\ lastSock' \in Slots
  <2>1. /\ stack' \in Seq(Activation) /\ stack' # <<>> /\ OuterWaits'
        /\ top'.at = "while" /\ top'.line = EmptyLine
    BY <1>1, <1>4, TakesClient
  <2>2. TopHolds'
    BY <2>1, EmptyTop
  <2>. QED  BY <1>4, <2>1, <2>2
<1>5. CASE s # NoSlot /\ TakeClient(s) /\ lastSock' = s /\ UNCHANGED broken
  BY <1>2, <1>4, <1>5
<1>6. CASE broken < MaxBroken /\ broken' = broken + 1 /\ TakeClient(0) /\ lastSock' = 0
  <2>1. 0 \in Slots
    BY <1>2, <1>6, ServerAssumption
  <2>2. broken' \in 0 .. MaxBroken
    BY <1>2, <1>6
  <2>. QED  BY <1>4, <1>6, <2>1, <2>2
<1>. QED  BY <1>3, <1>5, <1>6 DEF Told

LEMMA AvailServerKept ==
    ASSUME LinesInvariant, AvailServer
    PROVE  LinesInvariant'
<1>1. TypeOK /\ OuterWaits /\ TopHolds /\ BuffersOwned
  BY DEF LinesInvariant
<1>2. /\ stack # <<>> /\ top.at = "avail"
      /\ UNCHANGED <<request, unsent, peer, answers, inbox, buffer, executed>>
  BY DEF AvailServer, At
<1>3. top.line = EmptyLine
  BY <1>1, <1>2 DEF TopHolds, Fresh
<1>4. \E s \in Slots \cup {NoSlot} : Told(s)
  BY DEF AvailServer
<1>5. /\ stack' \in Seq(Activation) /\ OuterWaits' /\ TopHolds'
      /\ lastSock' \in Slots \cup {NoSlot} /\ broken' \in 0 .. MaxBroken
  BY <1>2, <1>3, <1>4, ToldTop
<1>6. conn' \in [Slots -> Clients \cup {NoClient}] /\ BuffersOwned'
  <2>1. CASE UNCHANGED conn
    BY <1>1, <1>2, <2>1 DEF TypeOK, BuffersOwned, Owned
  <2>2. ASSUME NEW s \in Slots, NEW c \in Clients, conn[s] = NoClient,
               conn' = [conn EXCEPT ![s] = c]
        PROVE  conn' \in [Slots -> Clients \cup {NoClient}] /\ BuffersOwned'
    BY <1>1, <1>2, <2>2 DEF TypeOK, BuffersOwned, Owned
  <2>. QED  BY <2>1, <2>2 DEF AvailServer
<1>7. TypeOK'
  BY <1>1, <1>2, <1>5, <1>6 DEF TypeOK
<1>. QED  BY <1>5, <1>6, <1>7 DEF LinesInvariant

LEMMA ConnectedKept ==
    ASSUME LinesInvariant, Connected
    PROVE  LinesInvariant'
<1>1. TypeOK /\ OuterWaits /\ TopHolds /\ BuffersOwned
  BY DEF LinesInvariant
<1>2. /\ stack # <<>>
      /\ UNCHANGED <<request, unsent, peer, answers, conn, lastSock, executed>>
  BY DEF Connected, At
<1>3. CASE top.sock = NoSlot
  <2>1. GoTo("stop") /\ UNCHANGED <<inbox, buffer, broken>>
    BY <1>3 DEF Connected
  <2>2. /\ stack' \in Seq(Activation) /\ stack' # <<>> /\ OuterWaits'
        /\ top'.at = "stop" /\ top'.sock = NoSlot
    BY <1>1, <1>2, <1>3, <2>1, GoesTo DEF Places
  <2>3. TopHolds'
    BY <2>2 DEF TopHolds, Fresh
  <2>4. TypeOK' /\ BuffersOwned'
    BY <1>1, <1>2, <2>1, <2>2 DEF TypeOK, BuffersOwned, Owned
  <2>. QED  BY <2>2, <2>3, <2>4 DEF LinesInvariant
<1>4. CASE top.sock # NoSlot
  <2>1. top.sock \in Slots
    BY <1>1, <1>2, <1>4, TopTyped
  <2>2. PICK f \in Fetches(top.sock) :
           /\ GoTo(IF f.bytes # <<>> THEN "if" ELSE "status")
           /\ Fetch(top.sock, f)
           /\ buffer' = [buffer EXCEPT ![top.sock] = f.bytes]
    BY <1>4 DEF Connected
  <2>3. /\ inbox' \in [Clients -> Seq(Tokens)] /\ broken' \in 0 .. MaxBroken
        /\ buffer' \in [Slots -> Seq(Item)] /\ BuffersOwned'
    BY <1>1, <1>2, <2>1, <2>2, FetchOwned, FetchTyped, BufferFilled
  <2>4. GoTo("if") \/ GoTo("status")
    BY <2>2
  <2>5. /\ stack' \in Seq(Activation) /\ stack' # <<>> /\ OuterWaits'
        /\ top'.at \in {"if", "status"} /\ top'.sock = top.sock /\ top'.line = top.line
    BY <1>1, <1>2, <2>4, GoesTo DEF Places
  <2>6. top.line.from \in {conn[top.sock], NoClient}
    BY <1>1, <1>2, <1>4 DEF TopHolds
  <2>7. TopHolds'
    BY <1>2, <2>1, <2>5, <2>6 DEF TopHolds, Fresh
  <2>8. TypeOK'
    BY <1>1, <1>2, <2>3, <2>5 DEF TypeOK
  <2>. QED  BY <2>3, <2>5, <2>7, <2>8 DEF LinesInvariant
<1>. QED  BY <1>3, <1>4

LEMMA ConnectedStatusKept ==
    ASSUME LinesInvariant, ConnectedStatus
    PROVE  LinesInvariant'
<1>1. TypeOK /\ OuterWaits /\ TopHolds /\ BuffersOwned
  BY DEF LinesInvariant
<1>2. /\ stack # <<>> /\ top.at = "status"
      /\ UNCHANGED <<request, unsent, answers, lastSock, executed>>
  BY DEF ConnectedStatus, At
<1>3. top.sock \in Slots /\ top.sock # NoSlot
  BY <1>1, <1>2, ServerAssumption DEF TopHolds
<1>4. CASE GoTo("if") /\ UNCHANGED <<conn, peer, inbox, buffer, broken>>
  <2>1. /\ stack' \in Seq(Activation) /\ stack' # <<>> /\ OuterWaits'
        /\ top'.at = "if" /\ top'.sock = top.sock /\ top'.line = top.line
    BY <1>1, <1>2, <1>4, GoesTo DEF Places
  <2>2. TopHolds'
    BY <1>1, <1>2, <1>3, <1>4, <2>1 DEF TopHolds, Fresh
  <2>3. TypeOK' /\ BuffersOwned'
    BY <1>1, <1>2, <1>4, <2>1 DEF TypeOK, BuffersOwned, Owned
  <2>. QED  BY <2>1, <2>2, <2>3 DEF LinesInvariant
<1>5. CASE /\ LoseClient
           /\ \/ /\ Release(top.sock) /\ buffer' = [buffer EXCEPT ![top.sock] = <<>>]
                 /\ UNCHANGED broken
              \/ MistakenForClosed(top.sock)
  <2>1. /\ stack' \in Seq(Activation) /\ stack' # <<>> /\ OuterWaits'
        /\ top'.at = "stop" /\ top'.sock = NoSlot
    BY <1>1, <1>2, <1>5, LosesClient
  <2>2. TopHolds'
    BY <2>1 DEF TopHolds, Fresh
  <2>3. /\ conn' \in [Slots -> Clients \cup {NoClient}]
        /\ peer' \in [Clients -> {"idle", "open", "closed", "done"}]
        /\ inbox' \in [Clients -> Seq(Tokens)] /\ broken' \in 0 .. MaxBroken
        /\ buffer' \in [Slots -> Seq(Item)] /\ BuffersOwned'
    BY <1>1, <1>3, <1>5, Released, Mistaken DEF TypeOK
  <2>4. TypeOK'
    BY <1>1, <1>2, <2>1, <2>3 DEF TypeOK
  <2>. QED  BY <2>1, <2>2, <2>3, <2>4 DEF LinesInvariant
<1>. QED  BY <1>4, <1>5 DEF ConnectedStatus

\* The line after a character is of the client it came from, or as it was, or empty.
LEMMA LineOwned ==
    ASSUME NEW i \in Item, top.line \in Line
    PROVE  /\ LineAfter(i) \in Line
           /\ LineAfter(i).from \in {i.from, top.line.from, NoClient}
<1>1. CASE i.token = "LF"
  BY <1>1 DEF LineAfter, EmptyLine, Line
<1>2. CASE i.token = "CR"
  BY <1>2 DEF LineAfter
<1>3. CASE i.token \notin {"LF", "CR"}
  <2>1. i.token \in Commands \cup {"text"} /\ i.from \in Clients \cup {NoClient}
    BY <1>3 DEF Item, Tokens
  <2>2. LineAfter(i) = [end |-> i.token, from |-> i.from]
    BY <1>3 DEF LineAfter
  <2>3. LineAfter(i).end = i.token /\ LineAfter(i).from = i.from
    BY <2>2
  <2>4. LineAfter(i) \in Line
    <3>1. i.token \in Commands \cup {"text", ""}
      BY <2>1
    <3>2. [end |-> i.token, from |-> i.from] \in Line
      BY <2>1, <3>1 DEF Line
    <3>. QED  BY <2>2, <3>2
  <2>. QED  BY <2>3, <2>4
<1>. QED  BY <1>1, <1>2, <1>3

\* A command is executed, and loop called again with an empty line below.
LEMMA Executed ==
    ASSUME TypeOK, OuterWaits, stack # <<>>, top.sock \in Slots, NEW i \in Item,
           i.from \in {conn[top.sock], NoClient},
           top.line.from \in {conn[top.sock], NoClient},
           Execute(i), UNCHANGED conn
    PROVE  /\ stack' \in Seq(Activation) /\ OuterWaits' /\ TopHolds'
           /\ executed' \in [Clients -> Nat]
           /\ stack' # <<>> /\ top'.at # "stop"
           /\ IF ServesAgain(LineAfter(i))
              THEN /\ Len(stack') = Len(stack) + 1 /\ top' = Started
              ELSE /\ Len(stack') = Len(stack) /\ top'.at = "while"
                   /\ top'.sock = top.sock /\ top'.line = LineAfter(i)
<1> DEFINE line  == LineAfter(i)
           again == ServesAgain(line)
           a     == [top EXCEPT !.at = "while", !.line = IF again THEN EmptyLine ELSE line]
           moved == [stack EXCEPT ![Len(stack)] = a]
<1>1. line \in Line /\ line.from \in {conn[top.sock], NoClient}
  BY TopTyped, LineOwned
<1>2. EmptyLine \in Line /\ EmptyLine.from = NoClient
  BY DEF EmptyLine, Line
<1>3. /\ a \in Activation /\ a.at = "while" /\ a.sock = top.sock
      /\ a.line = IF again THEN EmptyLine ELSE line
  BY <1>1, <1>2, TopTyped DEF Activation, Places
<1>4. /\ stack' = IF again THEN Append(moved, Started) ELSE moved
      /\ executed' = [c \in Clients |->
                        IF line.end \in Toggles /\ c = line.from
                        THEN executed[c] + 1 ELSE executed[c]]
  <2> DEFINE m == [stack EXCEPT ![Len(stack)].at = "while",
                                ![Len(stack)].line = IF again THEN EmptyLine ELSE line]
  <2>1. /\ stack' = IF again THEN Append(m, Started) ELSE m
        /\ executed' = [c \in Clients |->
                          IF line.end \in Toggles /\ c = line.from
                          THEN executed[c] + 1 ELSE executed[c]]
    BY Zenon DEF Execute
  <2> HIDE DEF line, again
  <2>2. m = moved
    BY TopTyped DEF top
  <2> HIDE DEF m, moved
  <2>. QED  BY <2>1, <2>2
<1>5. executed' \in [Clients -> Nat]
  BY <1>4 DEF TypeOK
<1>6. CASE ~again
  <2>1. stack' = moved
    BY <1>4, <1>6
  <2>2. /\ stack' \in Seq(Activation) /\ OuterWaits' /\ top' = a
        /\ stack' # <<>> /\ Len(stack') = Len(stack)
    BY <1>3, <2>1, TopChanged
  <2>3. TopHolds'
    BY <1>1, <1>3, <1>6, <2>2 DEF TopHolds, Fresh
  <2>. QED  BY <1>3, <1>5, <1>6, <2>2, <2>3
<1>7. CASE again
  <2>1. stack \in Seq(Activation) /\ Len(stack) \in Nat /\ Len(stack) \in 1 .. Len(stack)
    BY TopTyped
  <2>2. /\ moved \in Seq(Activation) /\ Len(moved) = Len(stack)
        /\ \A j \in 1 .. Len(stack) : moved[j] = IF j = Len(stack) THEN a ELSE stack[j]
    BY <1>3, <2>1, ExceptSeq
  <2>3. Started \in Activation /\ Started.at = "enter" /\ Started.line = EmptyLine
    BY <1>2 DEF Started, Activation, Places
  <2> HIDE DEF moved, a, again, line
  <2>4. stack' = Append(moved, Started)
    BY <1>4, <1>7
  <2>5. /\ stack' \in Seq(Activation) /\ stack' # <<>> /\ Len(stack') = Len(stack) + 1
        /\ \A j \in 1 .. Len(stack) : stack'[j] = moved[j]
        /\ stack'[Len(stack) + 1] = Started
    BY <2>2, <2>3, <2>4, AppendProperties
  <2>6. OuterWaits'
    <3>1. Len(stack') - 1 = Len(stack)
      BY <2>1, <2>5
    <3>2. \A n \in 1 .. Len(stack) : n # Len(stack) => n \in 1 .. Len(stack) - 1
      BY <2>1
    <3>3. ASSUME NEW n \in 1 .. Len(stack)
          PROVE  /\ stack'[n].at = "while" /\ stack'[n].line = EmptyLine
                 /\ stack'[n].sock \in Slots
      <4>1. CASE n = Len(stack)
        BY <1>3, <1>7, <2>2, <2>5, <4>1
      <4>2. CASE n # Len(stack)
        BY <2>2, <2>5, <3>2, <4>2 DEF OuterWaits
      <4>. QED  BY <4>1, <4>2
    <3>4. EmptyLine' = EmptyLine
      BY DEF EmptyLine
    <3>. QED  BY <3>1, <3>3, <3>4 DEF OuterWaits
  <2>7. top' = Started
    BY <2>5 DEF top
  <2>8. TopHolds'
    BY <2>3, <2>7, EmptyTop
  <2>9. ServesAgain(LineAfter(i))
    BY <1>7 DEF again, line
  <2>. QED  BY <1>5, <2>3, <2>5, <2>6, <2>7, <2>8, <2>9
<1>. QED  BY <1>6, <1>7

\* Only the page leads from there to the stop.
LEMMA ReadKept ==
    ASSUME LinesInvariant, SlotsHeld, AnsweredLeave, Read
    PROVE  LinesInvariant' /\ (top'.at = "stop" => Respond)
<1>1. TypeOK /\ OuterWaits /\ TopHolds /\ BuffersOwned
  BY DEF LinesInvariant
<1>2. /\ stack # <<>> /\ top.at = "if"
      /\ UNCHANGED <<request, unsent, peer, conn, lastSock>>
  BY DEF Read, At
<1>3. top.sock \in Slots /\ top.sock # NoSlot
  BY <1>1, <1>2, ServerAssumption DEF TopHolds
<1>4. top.line.from \in {conn[top.sock], NoClient}
  BY <1>1, <1>2, <1>3 DEF TopHolds
<1>5. PICK f \in Fetches(top.sock) :
         /\ Fetch(top.sock, f)
         /\ IF f.bytes = <<>>
            THEN GoTo("while") /\ UNCHANGED <<answers, executed, buffer>>
            ELSE /\ IF Head(f.bytes).token = "LF" /\ top.line.end = ""
                    THEN Respond ELSE Execute(Head(f.bytes))
                 /\ buffer' = [buffer EXCEPT ![top.sock] = Tail(f.bytes)]
  BY DEF Read
<1>6. /\ inbox' \in [Clients -> Seq(Tokens)] /\ broken' \in 0 .. MaxBroken
      /\ f.bytes \in Seq(Item) /\ Owned(top.sock, f.bytes)
  BY <1>1, <1>3, <1>5, FetchOwned, FetchTyped
<1>7. CASE f.bytes = <<>>
  <2>1. GoTo("while") /\ UNCHANGED <<answers, executed, buffer>>
    BY <1>5, <1>7
  <2>2. /\ stack' \in Seq(Activation) /\ stack' # <<>> /\ OuterWaits'
        /\ top'.at = "while" /\ top'.sock = top.sock /\ top'.line = top.line
    BY <1>1, <1>2, <2>1, GoesTo DEF Places
  <2>3. TopHolds'
    BY <1>2, <1>4, <2>2 DEF TopHolds, Fresh
  <2>4. TypeOK' /\ BuffersOwned'
    BY <1>1, <1>2, <1>6, <2>1, <2>2 DEF TypeOK, BuffersOwned, Owned
  <2>. QED  BY <2>2, <2>3, <2>4 DEF LinesInvariant
<1>8. CASE f.bytes # <<>>
  <2> DEFINE i == Head(f.bytes)
  <2>1. /\ i \in Item /\ Tail(f.bytes) \in Seq(Item)
        /\ Len(Tail(f.bytes)) = Len(f.bytes) - 1
        /\ \A j \in 1 .. Len(Tail(f.bytes)) : Tail(f.bytes)[j] = f.bytes[j + 1]
    BY <1>6, <1>8, HeadTailProperties
  <2>2. Len(f.bytes) \in Nat /\ Len(f.bytes) # 0 /\ DOMAIN f.bytes = 1 .. Len(f.bytes)
        /\ DOMAIN Tail(f.bytes) = 1 .. Len(Tail(f.bytes))
    BY <1>6, <1>8, <2>1, EmptySeq, LenProperties
  <2>3. Owned(top.sock, Tail(f.bytes))
    <3>1. \A j \in 1 .. Len(Tail(f.bytes)) : j + 1 \in 1 .. Len(f.bytes)
      BY <2>1, <2>2
    <3>. QED  BY <1>6, <2>1, <2>2, <3>1 DEF Owned
  <2>4. i.from \in {conn[top.sock], NoClient}
    <3>1. i = f.bytes[1] /\ 1 \in DOMAIN f.bytes
      BY <1>6, <1>8, <2>2
    <3>. QED  BY <1>6, <3>1 DEF Owned
  <2>5. buffer' \in [Slots -> Seq(Item)] /\ BuffersOwned'
    <3>1. buffer' = [buffer EXCEPT ![top.sock] = Tail(f.bytes)]
      BY <1>5, <1>8
    <3>. QED  BY <1>1, <1>2, <1>3, <2>1, <2>3, <3>1, BufferFilled
  <2>6. CASE i.token = "LF" /\ top.line.end = "" /\ Respond
    <3>1. GoTo("stop") /\ UNCHANGED executed
          /\ answers' = [c \in Clients |-> IF c = conn[top.sock] THEN answers[c] + 1
                                           ELSE answers[c]]
      BY <2>6 DEF Respond
    <3>2. /\ stack' \in Seq(Activation) /\ stack' # <<>> /\ OuterWaits'
          /\ top'.at = "stop" /\ top'.sock = top.sock /\ top'.line = top.line
      BY <1>1, <1>2, <3>1, GoesTo DEF Places
    <3>3. TopHolds'
      BY <1>2, <1>4, <3>2 DEF TopHolds, Fresh
    <3>4. answers' \in [Clients -> 0 .. 1]
      <4>1. ASSUME NEW c \in Clients, c = conn[top.sock] PROVE answers[c] = 0
        <5>1. peer[c] # "done"
          BY <1>3, <4>1, ServerAssumption DEF SlotsHeld
        <5>2. answers[c] # 1
          BY <1>2, <5>1 DEF AnsweredLeave
        <5>. QED  BY <1>1, <5>2 DEF TypeOK
      <4>2. \A c \in Clients : answers[c] \in 0 .. 1
        BY <1>1 DEF TypeOK
      <4>3. \A c \in Clients : (IF c = conn[top.sock] THEN answers[c] + 1 ELSE answers[c]) \in 0 .. 1
        BY <4>1, <4>2
      <4>. QED  BY <3>1, <4>3
    <3>5. TypeOK'
      BY <1>1, <1>2, <1>6, <2>5, <3>1, <3>2, <3>4 DEF TypeOK
    <3>. QED  BY <2>5, <2>6, <3>2, <3>3, <3>5 DEF LinesInvariant
  <2>7. CASE Execute(i)
    <3>1. /\ stack' \in Seq(Activation) /\ OuterWaits' /\ TopHolds'
          /\ executed' \in [Clients -> Nat] /\ top'.at # "stop"
      BY <1>1, <1>2, <1>3, <1>4, <2>1, <2>4, <2>7, Executed
    <3>2. UNCHANGED answers
      BY <2>7 DEF Execute
    <3>3. TypeOK'
      BY <1>1, <1>2, <1>6, <2>5, <3>1, <3>2 DEF TypeOK
    <3>. QED  BY <2>5, <3>1, <3>3 DEF LinesInvariant
  <2>. QED  BY <1>5, <1>8, <2>6, <2>7
<1>. QED  BY <1>7, <1>8

LEMMA StopKept ==
    ASSUME LinesInvariant, Stop
    PROVE  LinesInvariant'
<1>1. TypeOK /\ OuterWaits /\ BuffersOwned
  BY DEF LinesInvariant
<1>2. /\ stack # <<>> /\ Return
      /\ UNCHANGED <<request, unsent, answers, lastSock, executed, broken>>
  BY DEF Stop, At
<1>3. /\ stack' \in Seq(Activation) /\ OuterWaits'
      /\ stack' # <<>> => top'.at = "while" /\ top'.line = EmptyLine
  BY <1>1, <1>2, Returns
<1>4. TopHolds'
  BY <1>3, EmptyTop
<1>5. /\ conn' \in [Slots -> Clients \cup {NoClient}]
      /\ peer' \in [Clients -> {"idle", "open", "closed", "done"}]
      /\ inbox' \in [Clients -> Seq(Tokens)]
      /\ buffer' \in [Slots -> Seq(Item)] /\ BuffersOwned'
  <2>1. CASE UNCHANGED <<conn, peer, inbox, buffer>>
    BY <1>1, <2>1 DEF TypeOK, BuffersOwned, Owned
  <2>2. CASE top.sock \in Slots /\ Release(top.sock)
             /\ buffer' = [buffer EXCEPT ![top.sock] = <<>>]
    BY <1>1, <2>2, Released
  <2>. QED  BY <1>1, <1>2, <2>1, <2>2, TopTyped DEF Stop
<1>6. TypeOK'
  BY <1>1, <1>2, <1>3, <1>5 DEF TypeOK
<1>. QED  BY <1>3, <1>4, <1>5, <1>6 DEF LinesInvariant

-----------------------------------------------------------------------------
(* Who holds a slot, and who was answered *)

\* Nobody is answered, and those that are done stay so, before the stop.
LEMMA NobodyAnswered ==
    ASSUME AnsweredLeave, stack = <<>> \/ top.at # "stop", answers' = answers,
           \A c \in Clients : peer[c] = "done" => peer'[c] = "done"
    PROVE  AnsweredLeave'
BY DEF AnsweredLeave

LEMMA ReleaseKept ==
    ASSUME TypeOK, SlotsHeld, NEW s \in Slots, Release(s)
    PROVE  /\ SlotsHeld'
           /\ \A c \in Clients : peer[c] = "done" \/ c = conn[s] => peer'[c] = "done"
<1>1. /\ conn \in [Slots -> Clients \cup {NoClient}] /\ NoClient \notin Clients
  BY ServerAssumption DEF TypeOK
<1>2. /\ \A t \in Slots : conn'[t] = IF t = s THEN NoClient ELSE conn[t]
      /\ \A c \in Clients : peer'[c] = IF c = conn[s] THEN "done" ELSE peer[c]
  BY <1>1 DEF Release
<1>3. ASSUME NEW t \in Slots, conn'[t] # NoClient
      PROVE  /\ peer'[conn'[t]] \in {"open", "closed"}
             /\ \A u \in Slots : conn'[u] = conn'[t] => u = t
  <2>1. t # s /\ conn'[t] = conn[t] /\ conn[t] # NoClient /\ conn[t] \in Clients
    BY <1>1, <1>2, <1>3
  <2>2. conn[t] # conn[s]
    BY <2>1 DEF SlotsHeld
  <2>3. peer'[conn[t]] = peer[conn[t]]
    BY <1>2, <2>1, <2>2
  <2>4. \A u \in Slots : conn'[u] = conn[t] => u = t
    BY <1>2, <2>1 DEF SlotsHeld
  <2>. QED  BY <2>1, <2>3, <2>4 DEF SlotsHeld
<1>. QED  BY <1>2, <1>3 DEF SlotsHeld

LEMMA HoldersKept ==
    ASSUME ServerInvariant, Next
    PROVE  SlotsHeld' /\ AnsweredLeave'
<1>1. TypeOK /\ TopHolds /\ SlotsHeld /\ AnsweredLeave /\ NoClient \notin Clients
  BY ServerAssumption DEF ServerInvariant, LinesInvariant
<1>2. peer \in [Clients -> {"idle", "open", "closed", "done"}]
      /\ conn \in [Slots -> Clients \cup {NoClient}]
  BY <1>1 DEF TypeOK
<1>3. ASSUME NEW c \in Clients, Connect(c) \/ Send(c) \/ Close(c)
      PROVE  SlotsHeld' /\ AnsweredLeave'
  <2>1. UNCHANGED <<conn, answers, stack>>
    BY <1>3 DEF Connect, Send, Close
  <2>2. \A d \in Clients : /\ peer[d] \in {"open", "closed"} => peer'[d] \in {"open", "closed"}
                           /\ peer[d] = "done" => peer'[d] = "done"
    BY <1>2, <1>3 DEF Connect, Send, Close
  <2>3. SlotsHeld'
    BY <1>1, <1>2, <2>1, <2>2 DEF SlotsHeld
  <2>4. AnsweredLeave'
    BY <1>1, <2>1, <2>2 DEF AnsweredLeave, top
  <2>. QED  BY <2>3, <2>4
<1>4. CASE Callback
  <2>1. stack = <<>> /\ UNCHANGED <<peer, conn, answers>>
    BY <1>4 DEF Callback
  <2>2. AnsweredLeave'
    BY <1>1, <2>1, NobodyAnswered
  <2>. QED  BY <1>1, <2>1, <2>2 DEF SlotsHeld
<1>5. CASE ServerAvailable \/ LastSockAgain \/ Connected
  <2>1. top.at # "stop" /\ UNCHANGED <<peer, conn, answers>>
    BY <1>5 DEF ServerAvailable, LastSockAgain, Connected, At
  <2>2. AnsweredLeave'
    BY <1>1, <2>1, NobodyAnswered
  <2>. QED  BY <1>1, <2>1, <2>2 DEF SlotsHeld
<1>6. CASE LastSockStatus \/ ConnectedStatus
  <2>1. top.at # "stop" /\ UNCHANGED answers /\ stack # <<>>
    BY <1>6 DEF LastSockStatus, ConnectedStatus, At
  <2>2. UNCHANGED <<conn, peer>> \/ \E s \in Slots : Release(s)
    BY <1>1, <1>6 DEF LastSockStatus, ConnectedStatus, MistakenForClosed, TopHolds, At
  <2>3. SlotsHeld' /\ \A c \in Clients : peer[c] = "done" => peer'[c] = "done"
    <3>1. CASE UNCHANGED <<conn, peer>>
      BY <1>1, <3>1 DEF SlotsHeld
    <3>2. CASE \E s \in Slots : Release(s)
      BY <1>1, <3>2, ReleaseKept
    <3>. QED  BY <2>2, <3>1, <3>2
  <2>. QED  BY <1>1, <2>1, <2>3, NobodyAnswered
<1>7. CASE AvailServer
  <2>1. top.at # "stop" /\ UNCHANGED <<peer, answers>>
    BY <1>7 DEF AvailServer, At
  <2>2. CASE UNCHANGED conn
    BY <1>1, <2>1, <2>2, NobodyAnswered DEF SlotsHeld
  <2>3. ASSUME NEW s \in Slots, NEW c \in Clients, Unplaced(c),
               conn' = [conn EXCEPT ![s] = c]
        PROVE  SlotsHeld'
    BY <1>1, <1>2, <2>1, <2>3 DEF SlotsHeld, Unplaced
  <2>4. SlotsHeld'
    BY <1>1, <1>7, <2>1, <2>2, <2>3 DEF AvailServer, SlotsHeld
  <2>. QED  BY <1>1, <2>1, <2>4, NobodyAnswered
<1>8. CASE Read
  <2>1. top.at = "if" /\ stack # <<>> /\ top.sock \in Slots /\ UNCHANGED <<peer, conn>>
    BY <1>1, <1>8 DEF Read, At, TopHolds
  <2>2. SlotsHeld'
    BY <1>1, <2>1 DEF SlotsHeld
  <2>3. \/ UNCHANGED answers
        \/ /\ GoTo("stop")
           /\ answers' = [c \in Clients |-> IF c = conn[top.sock] THEN answers[c] + 1
                                            ELSE answers[c]]
    BY <1>8 DEF Read, Execute, Respond
  <2>4. CASE UNCHANGED answers
    BY <1>1, <2>1, <2>2, <2>4, NobodyAnswered
  <2>5. CASE /\ GoTo("stop")
             /\ answers' = [c \in Clients |-> IF c = conn[top.sock] THEN answers[c] + 1
                                              ELSE answers[c]]
    <3>1. stack' # <<>> /\ top'.at = "stop" /\ top'.sock = top.sock
      BY <1>1, <2>1, <2>5, GoesTo DEF Places, ServerInvariant, LinesInvariant
    <3>2. ASSUME NEW c \in Clients, answers'[c] = 1, c # conn[top.sock]
          PROVE  peer[c] = "done"
      BY <1>1, <2>1, <2>5, <3>2 DEF AnsweredLeave
    <3>3. AnsweredLeave'
      BY <2>1, <3>1, <3>2 DEF AnsweredLeave
    <3>. QED  BY <2>2, <3>3
  <2>. QED  BY <2>3, <2>4, <2>5
<1>9. CASE Stop
  <2>1. stack # <<>> /\ top.at = "stop" /\ UNCHANGED answers
    BY <1>9 DEF Stop, At
  <2>2. CASE top.sock = NoSlot
    <3>1. UNCHANGED <<peer, conn>> /\ NoSlot \notin Slots
      BY <1>9, <2>2, ServerAssumption DEF Stop
    <3>2. \A c \in Clients : answers[c] = 1 => peer[c] = "done"
      BY <1>1, <2>2, <3>1 DEF AnsweredLeave
    <3>. QED  BY <1>1, <2>1, <3>1, <3>2 DEF SlotsHeld, AnsweredLeave
  <2>3. CASE top.sock # NoSlot
    <3>1. top.sock \in Slots /\ Release(top.sock)
      BY <1>1, <1>9, <2>1, <2>3, TopTyped DEF Stop
    <3>2. /\ SlotsHeld'
          /\ \A c \in Clients : peer[c] = "done" \/ c = conn[top.sock] => peer'[c] = "done"
      BY <1>1, <3>1, ReleaseKept
    <3>3. AnsweredLeave'
      BY <1>1, <2>1, <3>2 DEF AnsweredLeave
    <3>. QED  BY <3>2, <3>3
  <2>. QED  BY <2>2, <2>3
<1>. QED
  BY <1>3, <1>4, <1>5, <1>6, <1>7, <1>8, <1>9 DEF Next, Serve

-----------------------------------------------------------------------------
(* Theorems *)

LEMMA ServerInvariantInit == Init => ServerInvariant
<1> SUFFICES ASSUME Init PROVE ServerInvariant
  OBVIOUS
<1>1. \A S : <<>> \in Seq(S) /\ DOMAIN <<>> = {} /\ Len(<<>>) = 0
  BY EmptySeq
<1>2. MaxBroken \in Nat /\ Requests \subseteq Seq(Tokens)
  BY ServerAssumption
<1>3. request \in [Clients -> Seq(Tokens)]
  BY <1>2 DEF Init
<1>4. TypeOK
  BY <1>1, <1>2, <1>3 DEF Init, TypeOK
<1>5. OuterWaits /\ TopHolds /\ BuffersOwned
  BY <1>1 DEF Init, OuterWaits, TopHolds, BuffersOwned, Owned
<1>6. SlotsHeld /\ AnsweredLeave
  BY DEF Init, SlotsHeld, AnsweredLeave
<1>. QED  BY <1>4, <1>5, <1>6 DEF ServerInvariant, LinesInvariant

LEMMA ServerInvariantKept == ServerInvariant /\ [Next]_vars => ServerInvariant'
<1> SUFFICES ASSUME ServerInvariant, [Next]_vars PROVE ServerInvariant'
  OBVIOUS
<1>1. LinesInvariant /\ SlotsHeld /\ AnsweredLeave
  BY DEF ServerInvariant
<1>2. CASE Next
  <2>1. LinesInvariant'
    BY <1>1, <1>2, ClientKept, CallbackKept, ServerAvailableKept, LastSockStatusKept,
       LastSockAgainKept, AvailServerKept, ConnectedKept, ConnectedStatusKept, ReadKept,
       StopKept DEF Next, Serve
  <2>. QED  BY <1>2, <2>1, HoldersKept DEF ServerInvariant
<1>3. CASE UNCHANGED vars
  BY <1>3 DEF vars, ServerInvariant, LinesInvariant, TypeOK, OuterWaits, TopHolds,
              BuffersOwned, Owned, SlotsHeld, AnsweredLeave, top
<1>. QED  BY <1>2, <1>3

\* The inductive invariant: only the innermost activation has a line, and a slot
\* is held for one client until it was answered.
THEOREM Invariant == Spec => []ServerInvariant
BY ServerInvariantInit, ServerInvariantKept, PTL DEF Spec

\* Every variable keeps its type: no client is answered twice.
THEOREM TypeCorrect == Spec => []TypeOK
<1>1. ServerInvariant => TypeOK
  BY DEF ServerInvariant, LinesInvariant
<1>. QED  BY <1>1, Invariant, PTL

\* Requests are not mixed, with any number of clients on any number of slots, however
\* the activations nest and whatever replies are broken.
THEOREM NeverStale == Spec => []NoStaleBytes
<1>1. ASSUME ServerInvariant PROVE NoStaleBytes
  <2>1. TypeOK /\ OuterWaits /\ TopHolds /\ BuffersOwned
    BY <1>1 DEF ServerInvariant, LinesInvariant
  <2>2. ASSUME NEW n \in DOMAIN stack, stack[n].sock # NoSlot, stack[n].line # EmptyLine
        PROVE  stack[n].line.from \in {conn[stack[n].sock], NoClient}
    <3>1. stack \in Seq(Activation)
      BY <2>1 DEF TypeOK
    <3>2. n \in 1 .. Len(stack) /\ Len(stack) \in Nat
      BY <3>1, LenProperties
    <3>3. ~(n \in 1 .. Len(stack) - 1)
      BY <2>1, <2>2 DEF OuterWaits
    <3>4. n = Len(stack)
      BY <3>2, <3>3
    <3>5. stack # <<>>
      BY <3>2, EmptySeq
    <3>. QED  BY <2>1, <2>2, <3>4, <3>5 DEF TopHolds, top
  <2>. QED  BY <2>1, <2>2 DEF NoStaleBytes, BuffersOwned, Owned
<1>2. ServerInvariant => NoStaleBytes
  BY <1>1
<1>. QED  BY <1>2, Invariant, PTL

-----------------------------------------------------------------------------
(* Nobody is hung up on *)

\* A client that the server is about to hang up on was answered.
StopsAnswered ==
    stack # <<>> /\ top.at = "stop" /\ top.sock \in Slots /\ conn[top.sock] \in Clients
        => answers[conn[top.sock]] = 1

HangUpInvariant == ServerInvariant /\ StopsAnswered

LEMMA StopsAnsweredKept ==
    ASSUME HangUpInvariant, Next
    PROVE  StopsAnswered'
<1>1. /\ TypeOK /\ OuterWaits /\ TopHolds /\ SlotsHeld /\ AnsweredLeave
      /\ LinesInvariant /\ StopsAnswered /\ NoClient \notin Clients /\ NoSlot \notin Slots
  BY ServerAssumption DEF HangUpInvariant, ServerInvariant, LinesInvariant
<1>2. ASSUME NEW c \in Clients, Connect(c) \/ Send(c) \/ Close(c)
      PROVE  StopsAnswered'
  BY <1>1, <1>2 DEF Connect, Send, Close, StopsAnswered, top
<1>3. CASE Callback
  <2>1. stack' = <<Started>>
    BY <1>3 DEF Callback
  <2>. QED  BY <2>1 DEF StopsAnswered, top, Started
<1>4. ASSUME NEW p \in Places \ {"stop"}, stack # <<>>, GoTo(p)
      PROVE  StopsAnswered'
  BY <1>1, <1>4, GoesTo DEF StopsAnswered
<1>5. ASSUME NEW s \in Slots, stack # <<>>, TakeClient(s)
      PROVE  StopsAnswered'
  BY <1>1, <1>5, TakesClient DEF StopsAnswered
<1>6. CASE stack # <<>> /\ Return
  BY <1>1, <1>6, Returns DEF StopsAnswered
<1>7. CASE ServerAvailable \/ LastSockAgain
  <2>1. /\ stack # <<>>
        /\ \/ GoTo("state") \/ GoTo("avail")
           \/ lastSock \in Slots /\ TakeClient(lastSock)
    <3>1. lastSock \in Slots \/ lastSock = NoSlot
      BY <1>1 DEF TypeOK
    <3>2. CASE ServerAvailable
      <4>1. stack # <<>>
        BY <3>2 DEF ServerAvailable, At
      <4>2. CASE lastSock = NoSlot
        <5>1. GoTo("avail")
          BY <3>2, <4>2 DEF ServerAvailable
        <5>. QED  BY <4>1, <5>1
      <4>3. CASE lastSock # NoSlot
        <5>1. TakeClient(lastSock) \/ GoTo("state")
          BY <3>2, <4>3 DEF ServerAvailable
        <5>. QED  BY <3>1, <4>1, <4>3, <5>1
      <4>. QED  BY <4>2, <4>3
    <3>3. CASE LastSockAgain
      <4>1. stack # <<>> /\ top.at = "again"
        BY <3>3 DEF LastSockAgain, At
      <4>2. lastSock \in Slots
        BY <1>1, <4>1 DEF TopHolds
      <4>3. TakeClient(lastSock) \/ GoTo("avail")
        BY <3>3 DEF LastSockAgain
      <4>. QED  BY <4>1, <4>2, <4>3
    <3>. QED  BY <1>7, <3>2, <3>3
  <2>. QED  BY <1>4, <1>5, <2>1 DEF Places
<1>8. CASE LastSockStatus
  BY <1>4, <1>8 DEF LastSockStatus, At, Places
<1>9. CASE AvailServer
  <2>1. stack # <<>> /\ \E s \in Slots \cup {NoSlot} : Told(s)
    BY <1>9 DEF AvailServer, At
  <2>2. Return \/ \E s \in Slots : TakeClient(s)
    <3>1. MaxBroken > 0 => 0 \in Slots
      BY ServerAssumption
    <3>2. broken < MaxBroken => MaxBroken > 0
      BY <1>1, ServerAssumption DEF TypeOK
    <3>. QED  BY <2>1, <3>1, <3>2 DEF Told
  <2>. QED  BY <1>5, <1>6, <2>1, <2>2
<1>10. CASE Connected
  <2>1. stack # <<>> /\ (GoTo("if") \/ GoTo("status") \/ (top.sock = NoSlot /\ GoTo("stop")))
    BY <1>10 DEF Connected, At
  <2>2. CASE top.sock = NoSlot /\ GoTo("stop")
    BY <1>1, <2>1, <2>2, GoesTo DEF StopsAnswered, Places
  <2>. QED  BY <1>4, <2>1, <2>2 DEF Places
<1>11. CASE ConnectedStatus
  <2>1. stack # <<>> /\ (GoTo("if") \/ LoseClient)
    BY <1>11 DEF ConnectedStatus, At
  <2>2. CASE LoseClient
    BY <1>1, <2>1, <2>2, LosesClient DEF StopsAnswered
  <2>. QED  BY <1>4, <2>1, <2>2 DEF Places
<1>12. CASE Read
  <2>1. top.at = "if" /\ stack # <<>> /\ top.sock \in Slots /\ UNCHANGED conn
    BY <1>1, <1>12 DEF Read, At, TopHolds
  <2>2. CASE Respond
    <3>1. top'.sock = top.sock
      BY <1>1, <2>1, <2>2, GoesTo DEF Respond, Places
    <3>2. ASSUME conn[top.sock] \in Clients PROVE answers'[conn[top.sock]] = 1
      <4>1. answers[conn[top.sock]] # 1
        BY <1>1, <2>1, <3>2 DEF AnsweredLeave, SlotsHeld
      <4>2. answers[conn[top.sock]] = 0
        BY <1>1, <3>2, <4>1 DEF TypeOK
      <4>. QED  BY <2>2, <3>2, <4>2 DEF Respond
    <3>. QED  BY <2>1, <3>1, <3>2 DEF StopsAnswered
  <2>3. CASE top'.at # "stop"
    BY <2>3 DEF StopsAnswered
  <2>. QED  BY <1>1, <1>12, <2>2, <2>3, ReadKept
<1>13. CASE Stop
  BY <1>6, <1>13 DEF Stop, At
<1>. QED
  BY <1>2, <1>3, <1>7, <1>8, <1>9, <1>10, <1>11, <1>12, <1>13 DEF Next, Serve

\* Only a connection that is over, or the one of an activation at its stop, is released.
LEMMA HangsUpOnTheAnswered ==
    ASSUME HangUpInvariant, Next,
           NEW c \in Clients, peer[c] = "open", peer'[c] = "done"
    PROVE  answers[c] = 1
<1>1. TypeOK /\ TopHolds /\ StopsAnswered
      /\ NoClient \notin Clients /\ NoSlot \notin Slots
  BY ServerAssumption DEF HangUpInvariant, ServerInvariant, LinesInvariant
<1>2. peer \in [Clients -> {"idle", "open", "closed", "done"}]
  BY <1>1 DEF TypeOK
<1>3. LastSockStatus \/ ConnectedStatus \/ Stop
  <2>1. \A d \in Clients : ~Connect(d) /\ ~Send(d) /\ ~Close(d)
    BY <1>2 DEF Connect, Send, Close
  <2>. QED
    BY <2>1 DEF Next, Serve, Callback, ServerAvailable, LastSockAgain, AvailServer,
                Connected, Read
<1>4. ~(\E s \in Slots : ~Established(s) /\ Release(s))
  BY <1>1, <1>2 DEF Established, Release
<1>5. ~UNCHANGED peer
  OBVIOUS
<1>6. CASE Stop
  <2>1. stack # <<>> /\ top.at = "stop" /\ top.sock # NoSlot /\ Release(top.sock)
    BY <1>5, <1>6 DEF Stop, At
  <2>2. top.sock \in Slots
    BY <1>1, <2>1, TopTyped
  <2>3. c = conn[top.sock]
    BY <1>2, <2>1 DEF Release
  <2>. QED  BY <1>1, <2>1, <2>2, <2>3 DEF StopsAnswered
<1>7. CASE LastSockStatus \/ ConnectedStatus
  BY <1>1, <1>4, <1>5, <1>7
     DEF LastSockStatus, ConnectedStatus, MistakenForClosed, TopHolds, At
<1>. QED  BY <1>3, <1>6, <1>7

\* The server hangs up on nobody without an answer, with any number of clients on any
\* number of slots, however the activations nest and whatever replies are broken.
THEOREM NeverHangsUp == Spec => NoPrematureHangup
<1>1. Init => HangUpInvariant
  BY ServerInvariantInit DEF Init, HangUpInvariant, StopsAnswered
<1>2. HangUpInvariant /\ [Next]_vars => HangUpInvariant'
  <2>1. HangUpInvariant /\ Next => HangUpInvariant'
    BY StopsAnsweredKept, ServerInvariantKept DEF HangUpInvariant
  <2>2. HangUpInvariant /\ UNCHANGED vars => HangUpInvariant'
    BY ServerInvariantKept DEF HangUpInvariant, StopsAnswered, vars, top
  <2>. QED  BY <2>1, <2>2
<1>3. HangUpInvariant /\ [Next]_vars =>
        [\A c \in Clients : peer[c] = "open" /\ peer'[c] = "done" => answers[c] = 1]_vars
  BY HangsUpOnTheAnswered
<1>. QED  BY <1>1, <1>2, <1>3, PTL DEF Spec, NoPrematureHangup
=============================================================================
