---------------------- MODULE HostServerRequests_proofs ----------------------
(***************************************************************************)
(* Proofs about what HostServer makes of a request, for every number of    *)
(* clients and slots, however the requests are split and interleaved: a    *)
(* command is carried out exactly once, and loop enters itself only as     *)
(* often as there are requests for /refresh and broken replies.  Both rest *)
(* on where the bytes of a request are: what was passed to loop, what is   *)
(* in a buffer, what the module has and what was not sent are one after    *)
(* the other in the request.                                               *)
(***************************************************************************)
EXTENDS HostServer_proofs, FiniteSetTheorems

-----------------------------------------------------------------------------
(* Where the bytes of a request are *)

OnlyJunk(s) == \A i \in 1 .. Len(buffer[s]) : buffer[s][i].from = NoClient

\* How many of a client's bytes are in the buffer of its slot.
Held(c) ==
    IF \E s \in Slots : conn[s] = c /\ ~OnlyJunk(s)
    THEN Len(buffer[CHOOSE s \in Slots : conn[s] = c]) ELSE 0

\* How many bytes of its request a client sent, ...
Sent(c) == Len(request[c]) - Len(unsent[c])

\* ... the host fetched, ...
Fetched(c) == Sent(c) - Len(inbox[c])

\* ... and loop read or will never read.
Passed(c) == Fetched(c) - Held(c)

RequestInOrder(c) ==
    /\ 0 <= Passed(c)
    /\ \A i \in 1 .. Len(inbox[c]) : inbox[c][i] = request[c][Fetched(c) + i]
    /\ \A i \in 1 .. Len(unsent[c]) : unsent[c][i] = request[c][Sent(c) + i]

BufferInOrder(s) ==
    \/ OnlyJunk(s)
    \/ /\ conn[s] \in Clients
       /\ \A i \in 1 .. Len(buffer[s]) :
             /\ buffer[s][i].from = conn[s]
             /\ buffer[s][i].token = request[conn[s]][Passed(conn[s]) + i]

InOrder ==
    /\ \A c \in Clients : RequestInOrder(c)
    /\ \A s \in Slots : BufferInOrder(s)

-----------------------------------------------------------------------------
(* Nesting *)

Depth == IF stack = <<>> THEN 0 ELSE Len(stack) - 1

Refreshers == {c \in Clients : Contains(request[c], "refresh")}

\* Those whose refresh loop has not read yet.
Waiting == {c \in Clients : \E p \in 1 .. Len(request[c]) :
                                request[c][p] = "refresh" /\ Passed(c) < p}

JunkRefresh(i) == i.from = NoClient /\ i.token = "refresh"

JunkSlots == {s \in Slots : \E i \in 1 .. Len(buffer[s]) : JunkRefresh(buffer[s][i])}

\* A buffer holds at most one refresh that is junk.
OneJunkRefresh ==
    \A s \in Slots : \A i, j \in 1 .. Len(buffer[s]) :
        JunkRefresh(buffer[s][i]) /\ JunkRefresh(buffer[s][j]) => i = j

\* A refresh clears the line.
LineCleared == stack # <<>> => top.line.end # "refresh"

\* An activation of loop that was entered by a refresh accounts for a request whose
\* refresh was read, or for a broken reply.
NestingInvariant ==
    /\ ServerInvariant /\ InOrder
    /\ IsFiniteSet(JunkSlots) /\ OneJunkRefresh /\ LineCleared
    /\ Depth + Cardinality(Waiting) + Cardinality(JunkSlots) <= broken + Cardinality(Refreshers)

-----------------------------------------------------------------------------
(* Counting *)

Toggled(r, k) == Cardinality({i \in 1 .. k : r[i] \in Toggles})

NoJunk == \A s \in Slots : \A i \in 1 .. Len(buffer[s]) : buffer[s][i].from # NoClient

\* A command at the end of the line is the byte that was read last.
LineCounted ==
    stack # <<>> /\ top.sock \in Slots /\ top.line.end \in Toggles =>
        \E c \in Clients :
            conn[top.sock] = c /\ 1 <= Passed(c) /\ request[c][Passed(c)] \in Toggles

\* The controller was called for the toggles that loop has read.
Counts ==
    /\ NoJunk /\ LineCounted
    /\ \A c \in Clients : peer[c] # "done" => executed[c] = Toggled(request[c], Passed(c))
    /\ \A c \in Clients : executed[c] <= Commanded(request[c])
    /\ \A c \in Clients : answers[c] = 1 => executed[c] = Commanded(request[c])

CountInvariant == ServerInvariant /\ InOrder /\ (broken = 0 => Counts)

-----------------------------------------------------------------------------
(* Staying with a client *)

\* The innermost activation is reading the request of client c.
Serves(c) ==
    /\ stack # <<>> /\ top.at \in {"while", "status", "if"}
    /\ top.sock \in Slots /\ conn[top.sock] = c

\* A command of the client was carried out, and its page is still to come.
Owed(c) == executed[c] # 0 /\ answers[c] = 0 /\ peer[c] # "done"

\* From a command to its page loop serves nobody else.
ServesInvariant ==
    /\ CountInvariant
    /\ broken = 0 => LineCleared /\ \A c \in Clients : Owed(c) => Serves(c)

-----------------------------------------------------------------------------
(* Positions *)

LEMMA HeldBy ==
    SlotsHeld => \A s \in Slots : conn[s] # NoClient =>
                    Held(conn[s]) = IF OnlyJunk(s) THEN 0 ELSE Len(buffer[s])
<1> SUFFICES ASSUME SlotsHeld, NEW s \in Slots, conn[s] # NoClient
             PROVE  Held(conn[s]) = IF OnlyJunk(s) THEN 0 ELSE Len(buffer[s])
  OBVIOUS
<1>1. \A t \in Slots : conn[t] = conn[s] => t = s
  BY DEF SlotsHeld
<1>2. (CHOOSE t \in Slots : conn[t] = conn[s]) = s
  BY <1>1
<1>3. (\E t \in Slots : conn[t] = conn[s] /\ ~OnlyJunk(t)) <=> ~OnlyJunk(s)
  BY <1>1
<1>. QED  BY <1>2, <1>3 DEF Held

LEMMA HeldByNext ==
    (SlotsHeld => \A s \in Slots : conn[s] # NoClient =>
                     Held(conn[s]) = IF OnlyJunk(s) THEN 0 ELSE Len(buffer[s]))'
BY HeldBy, PTL

LEMMA HeldNone == \A c : (\A s \in Slots : conn[s] = c => OnlyJunk(s)) => Held(c) = 0
BY DEF Held

LEMMA HeldNoneNext ==
    (\A c : (\A s \in Slots : conn[s] = c => OnlyJunk(s)) => Held(c) = 0)'
BY HeldNone, PTL

\* An empty buffer counts as one with only junk.
LEMMA EmptyJunk == \A s : buffer[s] = <<>> => OnlyJunk(s)
BY EmptySeq DEF OnlyJunk

LEMMA EmptyJunkNext == (\A s : buffer[s] = <<>> => OnlyJunk(s))'
BY EmptyJunk, PTL

\* The parts of a request are numbers that add up.
LEMMA Positions ==
    ServerInvariant =>
        \A c \in Clients :
            /\ request[c] \in Seq(Tokens)
            /\ Len(request[c]) \in Nat /\ Len(unsent[c]) \in Nat /\ Len(inbox[c]) \in Nat
            /\ Held(c) \in Nat /\ Sent(c) \in Int /\ Fetched(c) \in Int /\ Passed(c) \in Int
            /\ Sent(c) = Len(request[c]) - Len(unsent[c])
            /\ Fetched(c) = Sent(c) - Len(inbox[c])
            /\ Passed(c) = Fetched(c) - Held(c) /\ Fetched(c) <= Sent(c)
                    /\ Sent(c) <= Len(request[c])
<1> SUFFICES ASSUME ServerInvariant, NEW c \in Clients
             PROVE  /\ request[c] \in Seq(Tokens)
                    /\ Len(request[c]) \in Nat /\ Len(unsent[c]) \in Nat
                    /\ Len(inbox[c]) \in Nat /\ Held(c) \in Nat
                    /\ Sent(c) \in Int /\ Fetched(c) \in Int /\ Passed(c) \in Int
                    /\ Sent(c) = Len(request[c]) - Len(unsent[c])
                    /\ Fetched(c) = Sent(c) - Len(inbox[c])
                    /\ Passed(c) = Fetched(c) - Held(c) /\ Fetched(c) <= Sent(c)
                    /\ Sent(c) <= Len(request[c])
  OBVIOUS
<1>1. TypeOK /\ SlotsHeld /\ NoClient \notin Clients
  BY ServerAssumption DEF ServerInvariant, LinesInvariant
<1>2. /\ request \in [Clients -> Seq(Tokens)] /\ unsent \in [Clients -> Seq(Tokens)]
      /\ inbox \in [Clients -> Seq(Tokens)]
  BY <1>1, ServerAssumption DEF TypeOK
<1>3. Len(request[c]) \in Nat /\ Len(unsent[c]) \in Nat /\ Len(inbox[c]) \in Nat
  BY <1>2, LenProperties
<1>4. Held(c) \in Nat
  <2>1. CASE \A s \in Slots : conn[s] = c => OnlyJunk(s)
    BY <2>1, HeldNone
  <2>2. ASSUME NEW s \in Slots, conn[s] = c PROVE Held(c) \in Nat
    <3>1. buffer[s] \in Seq(Item)
      BY <1>1 DEF TypeOK
    <3>2. Len(buffer[s]) \in Nat
      BY <3>1, LenProperties
    <3>. QED  BY <1>1, <2>2, <3>2, HeldBy
  <2>. QED  BY <2>1, <2>2
<1>5. /\ Sent(c) = Len(request[c]) - Len(unsent[c])
      /\ Fetched(c) = Sent(c) - Len(inbox[c])
      /\ Passed(c) = Fetched(c) - Held(c)
  BY DEF Sent, Fetched, Passed
<1>6. Sent(c) \in Int /\ Sent(c) <= Len(request[c])
  BY <1>2, <1>3, <1>5
<1>7. Fetched(c) \in Int /\ Fetched(c) <= Sent(c)
  BY <1>2, <1>3, <1>5, <1>6
<1>8. Passed(c) \in Int
  <2>1. Passed(c) = Fetched(c) - Held(c)
    BY <1>5
  <2>. QED  BY <1>4, <1>7, <2>1
<1>. QED  BY <1>2, <1>3, <1>4, <1>5, <1>6, <1>7, <1>8

LEMMA PositionsNext ==
    (ServerInvariant =>
        \A c \in Clients :
            /\ request[c] \in Seq(Tokens)
            /\ Len(request[c]) \in Nat /\ Len(unsent[c]) \in Nat /\ Len(inbox[c]) \in Nat
            /\ Held(c) \in Nat /\ Sent(c) \in Int /\ Fetched(c) \in Int /\ Passed(c) \in Int
            /\ Sent(c) = Len(request[c]) - Len(unsent[c])
            /\ Fetched(c) = Sent(c) - Len(inbox[c])
            /\ Passed(c) = Fetched(c) - Held(c) /\ Fetched(c) <= Sent(c)
                    /\ Sent(c) <= Len(request[c]))'
BY Positions, PTL

-----------------------------------------------------------------------------
(* Moving bytes *)

\* What happens to one slot moves nobody else's bytes.
LEMMA OthersInOrder ==
    ASSUME ServerInvariant, ServerInvariant', InOrder, NEW s \in Slots,
           UNCHANGED <<request, unsent>>,
           \A t \in Slots \ {s} : conn'[t] = conn[t] /\ buffer'[t] = buffer[t],
           \A d \in Clients \ {conn[s]} : inbox'[d] = inbox[d]
    PROVE  /\ \A d \in Clients \ {conn[s], conn'[s]} :
                 Passed(d)' = Passed(d) /\ RequestInOrder(d)'
           /\ \A t \in Slots \ {s} : BufferInOrder(t)'
<1>1. SlotsHeld /\ SlotsHeld' /\ NoClient \notin Clients
  BY ServerAssumption DEF ServerInvariant
<1>2. \A t \in Slots \ {s} : OnlyJunk(t)' <=> OnlyJunk(t)
  BY DEF OnlyJunk
<1>3. ASSUME NEW d \in Clients \ {conn[s], conn'[s]}
      PROVE  Held(d)' = Held(d) /\ Passed(d)' = Passed(d) /\ RequestInOrder(d)'
  <2>1. Held(d)' = Held(d)
    <3>1. CASE \E t \in Slots : conn[t] = d /\ ~OnlyJunk(t)
      <4>1. PICK t \in Slots : conn[t] = d /\ ~OnlyJunk(t)
        BY <3>1
      <4>2. t # s /\ conn'[t] = d /\ buffer'[t] = buffer[t] /\ ~OnlyJunk(t)' /\ d # NoClient
        BY <1>1, <1>2, <1>3, <4>1
      <4>3. Held(d) = Len(buffer[t])
        BY <1>1, <4>1, <4>2, HeldBy
      <4>4. Held(d)' = Len(buffer'[t])
        BY <1>1, <4>2, HeldByNext
      <4>. QED  BY <4>2, <4>3, <4>4
    <3>2. CASE \A t \in Slots : conn[t] = d => OnlyJunk(t)
      <4>1. \A t \in Slots : conn'[t] = d => OnlyJunk(t)'
        BY <1>2, <1>3, <3>2
      <4>2. Held(d)' = 0
        BY <4>1, HeldNoneNext
      <4>. QED  BY <3>2, <4>2, HeldNone
    <3>. QED  BY <3>1, <3>2
  <2>2. Sent(d)' = Sent(d) /\ Fetched(d)' = Fetched(d)
    BY <1>3 DEF Sent, Fetched
  <2>3. Passed(d)' = Passed(d)
    BY <2>1, <2>2 DEF Passed
  <2>. QED  BY <1>3, <2>1, <2>2, <2>3 DEF InOrder, RequestInOrder
<1>4. ASSUME NEW t \in Slots \ {s} PROVE BufferInOrder(t)'
  <2>1. CASE OnlyJunk(t)
    BY <1>2, <2>1 DEF BufferInOrder
  <2>2. CASE ~OnlyJunk(t)
    <3>1. /\ conn[t] \in Clients
          /\ \A i \in 1 .. Len(buffer[t]) :
                /\ buffer[t][i].from = conn[t]
                /\ buffer[t][i].token = request[conn[t]][Passed(conn[t]) + i]
      BY <1>4, <2>2 DEF InOrder, BufferInOrder
    <3>2. conn'[t] = conn[t] /\ conn[t] # conn[s] /\ conn[t] # conn'[s]
      BY <1>1, <1>4, <3>1 DEF SlotsHeld
    <3>3. Passed(conn[t])' = Passed(conn[t])
      BY <1>3, <3>1, <3>2
    <3>. QED  BY <3>1, <3>2, <3>3 DEF BufferInOrder
  <2>. QED  BY <2>1, <2>2
<1>. QED  BY <1>3, <1>4

\* Without a change to slots and buffers no position changes but by the module's bytes.
LEMMA SlotsUnchanged ==
    ASSUME UNCHANGED <<conn, buffer>>
    PROVE  /\ \A d : Held(d)' = Held(d)
           /\ \A s : OnlyJunk(s)' <=> OnlyJunk(s)
BY DEF Held, OnlyJunk

\* The bytes that a client sends go from the end of one part to the start of the next.
LEMMA SendMoves ==
    ASSUME ServerInvariant, ServerInvariant', InOrder, NEW c \in Clients, Send(c)
    PROVE  InOrder' /\ \A d \in Clients : Passed(d)' = Passed(d)
<1> DEFINE in == inbox[c]
           un == unsent[c]
           r  == request[c]
<1>1. TypeOK /\ TypeOK'
  BY DEF ServerInvariant, LinesInvariant
<1>2. PICK n \in 1 .. Len(un) :
         /\ inbox' = [inbox EXCEPT ![c] = in \o SubSeq(un, 1, n)]
         /\ unsent' = [unsent EXCEPT ![c] = SubSeq(un, n + 1, Len(un))]
         /\ UNCHANGED <<request, conn, buffer>>
  BY DEF Send
<1>3. in \in Seq(Tokens) /\ un \in Seq(Tokens)
  BY <1>1 DEF TypeOK
<1>4. /\ inbox'[c] = in \o SubSeq(un, 1, n)
      /\ unsent'[c] = SubSeq(un, n + 1, Len(un))
      /\ \A d \in Clients \ {c} : inbox'[d] = inbox[d] /\ unsent'[d] = unsent[d]
  BY <1>1, <1>2 DEF TypeOK
<1>5. /\ \A i \in 1 .. Len(in) : in[i] = r[Fetched(c) + i]
      /\ \A i \in 1 .. Len(un) : un[i] = r[Sent(c) + i]
      /\ 0 <= Passed(c)
  BY DEF InOrder, RequestInOrder
<1>6. Fetched(c) = Sent(c) - Len(in) /\ Sent(c) = Len(r) - Len(un)
      /\ Passed(c) = Fetched(c) - Held(c)
  BY DEF Sent, Fetched, Passed
<1>7. Sent(c) \in Int /\ Fetched(c) \in Int
  BY Positions
<1>8. /\ Fetched(c)' = Sent(c)' - Len(inbox'[c]) /\ Sent(c)' = Len(r) - Len(unsent'[c])
      /\ Passed(c)' = Fetched(c)' - Held(c)
  BY <1>2, SlotsUnchanged DEF Sent, Fetched, Passed
<1>9. Len(r) \in Nat
  BY Positions
<1>10. RequestInOrder(c)' /\ Passed(c)' = Passed(c)
  <2> HIDE DEF in, un, r
  <2>1. /\ Len(in) \in Nat /\ Len(un) \in Nat /\ n \in Nat
        /\ \A i \in 1 .. Len(un) : un[i] \in Tokens
    BY <1>3, LenProperties, ElementOfSeq
  <2>2. /\ SubSeq(un, 1, n) \in Seq(Tokens) /\ Len(SubSeq(un, 1, n)) = n
        /\ \A i \in 1 .. n : SubSeq(un, 1, n)[i] = un[i]
    <3>1. 1 \in Int /\ n \in Int /\ \A i \in 1 .. n : un[i] \in Tokens
      BY <2>1
    <3>2. /\ SubSeq(un, 1, n) \in Seq(Tokens)
          /\ Len(SubSeq(un, 1, n)) = IF 1 <= n THEN n - 1 + 1 ELSE 0
          /\ \A i \in 1 .. n - 1 + 1 : SubSeq(un, 1, n)[i] = un[1 + i - 1]
      BY <3>1, SubSeqProperties
    <3>3. n - 1 + 1 = n /\ 1 <= n /\ \A i \in 1 .. n : 1 + i - 1 = i
      BY <2>1
    <3>. QED  BY <3>2, <3>3
  <2>3. /\ Len(SubSeq(un, n + 1, Len(un))) = Len(un) - n
        /\ \A i \in 1 .. Len(un) - n : SubSeq(un, n + 1, Len(un))[i] = un[n + i]
    <3>1. n + 1 \in Int /\ Len(un) \in Int /\ \A i \in n + 1 .. Len(un) : un[i] \in Tokens
      BY <2>1
    <3>2. /\ Len(SubSeq(un, n + 1, Len(un)))
                = IF n + 1 <= Len(un) THEN Len(un) - (n + 1) + 1 ELSE 0
          /\ \A i \in 1 .. Len(un) - (n + 1) + 1 :
                SubSeq(un, n + 1, Len(un))[i] = un[n + 1 + i - 1]
      BY <3>1, SubSeqProperties
    <3>3. /\ Len(un) - (n + 1) + 1 = Len(un) - n
          /\ (IF n + 1 <= Len(un) THEN Len(un) - (n + 1) + 1 ELSE 0) = Len(un) - n
          /\ \A i \in 1 .. Len(un) - n : n + 1 + i - 1 = n + i
      BY <2>1
    <3>. QED  BY <3>2, <3>3
  <2>4. /\ Len(inbox'[c]) = Len(in) + n
        /\ \A i \in 1 .. Len(in) + n :
              inbox'[c][i] = IF i <= Len(in) THEN in[i] ELSE un[i - Len(in)]
    <3>1. /\ Len(in \o SubSeq(un, 1, n)) = Len(in) + n
          /\ \A i \in 1 .. Len(in) + n : (in \o SubSeq(un, 1, n))[i]
                = IF i <= Len(in) THEN in[i] ELSE SubSeq(un, 1, n)[i - Len(in)]
      BY <1>3, <2>2, ConcatProperties
    <3>2. \A i \in 1 .. Len(in) + n : ~(i <= Len(in)) => i - Len(in) \in 1 .. n
      BY <2>1
    <3>. QED  BY <1>4, <2>2, <3>1, <3>2
  <2>5. Sent(c)' = Sent(c) + n /\ Fetched(c)' = Fetched(c)
    <3>1. Len(unsent'[c]) = Len(un) - n
      BY <1>4, <2>3
    <3> DEFINE li == Len(inbox'[c])
               lu == Len(unsent'[c])
    <3> HIDE DEF li, lu
    <3>2. li = Len(in) + n /\ lu = Len(un) - n
          /\ Fetched(c)' = Sent(c)' - li /\ Sent(c)' = Len(r) - lu
      BY <1>8, <2>4, <3>1 DEF li, lu
    <3>. QED  BY <1>6, <1>9, <2>1, <3>2
  <2>6. Passed(c)' = Passed(c)
    BY <1>6, <1>8, <2>5
  <2>7. \A i \in 1 .. Len(inbox'[c]) : inbox'[c][i] = r[Fetched(c)' + i]
    <3>1. ASSUME NEW i \in 1 .. Len(in) + n, ~(i <= Len(in))
          PROVE  i - Len(in) \in 1 .. Len(un) /\ Sent(c) + (i - Len(in)) = Fetched(c) + i
      BY <1>6, <1>7, <2>1, <3>1
    <3>2. ASSUME NEW i \in 1 .. Len(in) + n
          PROVE  (IF i <= Len(in) THEN in[i] ELSE un[i - Len(in)]) = r[Fetched(c) + i]
      <4>1. CASE i <= Len(in)
        <5>1. i \in 1 .. Len(in)
          BY <2>1, <4>1
        <5>. QED  BY <1>5, <4>1, <5>1
      <4>2. CASE ~(i <= Len(in))
        BY <1>5, <3>1, <4>2
      <4>. QED  BY <4>1, <4>2
    <3>. QED  BY <2>4, <2>5, <3>2
  <2>8. \A i \in 1 .. Len(unsent'[c]) : unsent'[c][i] = r[Sent(c)' + i]
    <3>1. \A i \in 1 .. Len(un) - n : n + i \in 1 .. Len(un) /\ Sent(c) + (n + i) = Sent(c) + n + i
      BY <1>7, <2>1
    <3>. QED  BY <1>4, <1>5, <2>3, <2>5, <3>1
  <2>. QED  BY <1>2, <1>5, <2>6, <2>7, <2>8 DEF RequestInOrder, r
<1>11. ASSUME NEW d \in Clients \ {c}
       PROVE  RequestInOrder(d)' /\ Passed(d)' = Passed(d)
  <2>1. Sent(d)' = Sent(d) /\ Fetched(d)' = Fetched(d) /\ Passed(d)' = Passed(d)
    BY <1>2, <1>4, SlotsUnchanged DEF Sent, Fetched, Passed
  <2>. QED  BY <1>2, <1>4, <2>1 DEF InOrder, RequestInOrder
<1>12. ASSUME NEW s \in Slots PROVE BufferInOrder(s)'
  BY <1>2, <1>10, <1>11, SlotsUnchanged DEF InOrder, BufferInOrder
<1>. QED  BY <1>10, <1>11, <1>12 DEF InOrder

\* What available finds: the next bytes of the client's request, ...
FoundOwn(s, f) ==
    /\ f.broken = broken /\ conn[s] \in Clients
    /\ buffer[s] = <<>> \/ ~OnlyJunk(s)
    /\ Passed(conn[s]) + Len(f.bytes)
          = IF buffer[s] = <<>> THEN Sent(conn[s]) ELSE Fetched(conn[s])
    /\ \A i \in 1 .. Len(f.bytes) :
          /\ f.bytes[i].from = conn[s]
          /\ f.bytes[i].token = request[conn[s]][Passed(conn[s]) + i]

\* ... junk of an earlier fetch, or nothing without a client, ...
FoundOld(s, f) ==
    /\ f.broken = broken /\ f.bytes = buffer[s] /\ OnlyJunk(s)
    /\ buffer[s] # <<>> \/ conn[s] = NoClient

\* ... or junk.
FoundJunk(s, f) ==
    /\ f.broken = broken + 1 /\ buffer[s] = <<>>
    /\ \E j \in Junk : /\ j \in Seq(Tokens) /\ Len(f.bytes) = Len(j)
                       /\ \A i \in 1 .. Len(j) :
                             f.bytes[i].from = NoClient /\ f.bytes[i].token = j[i]

LEMMA FetchFinds ==
    ASSUME ServerInvariant, InOrder, NEW s \in Slots, NEW f \in Fetches(s)
    PROVE  /\ FoundOwn(s, f) \/ FoundOld(s, f) \/ FoundJunk(s, f)
           /\ f.bytes \in Seq(Item)
<1>1. TypeOK /\ SlotsHeld /\ BuffersOwned /\ NoClient \notin Clients
  BY ServerAssumption DEF ServerInvariant, LinesInvariant
<1>2. /\ conn[s] \in Clients \cup {NoClient} /\ buffer[s] \in Seq(Item)
      /\ inbox \in [Clients -> Seq(Tokens)]
  BY <1>1 DEF TypeOK
<1>3. f.bytes \in Seq(Item)
  BY <1>1, FetchOwned
<1>4. CASE buffer[s] # <<>>
  <2>1. f.bytes = buffer[s] /\ f.broken = broken
    BY <1>4 DEF Fetches
  <2>2. CASE OnlyJunk(s)
    BY <1>3, <1>4, <2>1, <2>2 DEF FoundOld
  <2>3. CASE ~OnlyJunk(s)
    <3>1. /\ conn[s] \in Clients
          /\ \A i \in 1 .. Len(buffer[s]) :
                /\ buffer[s][i].from = conn[s]
                /\ buffer[s][i].token = request[conn[s]][Passed(conn[s]) + i]
      BY <2>3 DEF InOrder, BufferInOrder
    <3>2. Held(conn[s]) = Len(f.bytes)
      BY <1>1, <2>1, <2>3, <3>1, HeldBy
    <3>3. Passed(conn[s]) + Len(f.bytes) = Fetched(conn[s])
      <4>1. /\ Passed(conn[s]) = Fetched(conn[s]) - Held(conn[s])
            /\ Fetched(conn[s]) \in Int /\ Held(conn[s]) \in Nat
        BY <3>1, Positions
      <4>. QED  BY <3>2, <4>1
    <3>. QED  BY <1>3, <2>1, <2>3, <1>4, <3>1, <3>3 DEF FoundOwn
  <2>. QED  BY <1>3, <2>2, <2>3
<1>5. CASE buffer[s] = <<>> /\ f = [bytes |-> Arrived(s), broken |-> broken]
  <2>1. f.bytes = Arrived(s) /\ f.broken = broken
    BY <1>5
  <2>2. OnlyJunk(s)
    BY <1>5, EmptyJunk
  <2>3. CASE conn[s] = NoClient
    BY <1>5, <2>1, <2>2, <2>3 DEF FoundOld, Arrived
  <2>4. CASE conn[s] \in Clients
    <3> DEFINE c  == conn[s]
               in == inbox[c]
    <3>1. f.bytes = [i \in DOMAIN in |-> [from |-> c, token |-> in[i]]]
      BY <1>1, <2>1, <2>4 DEF Arrived
    <3>2. in \in Seq(Tokens) /\ Len(in) \in Nat /\ DOMAIN in = 1 .. Len(in)
      BY <1>2, <2>4, LenProperties
    <3>3. Len(f.bytes) \in Nat /\ DOMAIN f.bytes = 1 .. Len(f.bytes)
      BY <1>3, LenProperties
    <3>4. Len(f.bytes) = Len(in)
      <4> HIDE DEF in
      <4>1. 1 .. Len(in) = 1 .. Len(f.bytes)
        BY <3>1, <3>2, <3>3
      <4>. QED  BY <3>2, <3>3, <4>1
    <3>5. Held(c) = 0
      BY <1>1, <2>2, <2>4, HeldBy
    <3>6. Passed(c) = Fetched(c) /\ Fetched(c) = Sent(c) - Len(in) /\ Sent(c) \in Int
          /\ Fetched(c) \in Int
      <4>1. /\ Passed(c) = Fetched(c) - Held(c) /\ Fetched(c) \in Int /\ Sent(c) \in Int
            /\ Fetched(c) = Sent(c) - Len(in)
        BY <2>4, Positions
      <4>. QED  BY <3>5, <4>1
    <3>7. Passed(c) + Len(f.bytes) = Sent(c)
      <4> HIDE DEF in
      <4>. QED  BY <3>2, <3>4, <3>6
    <3>8. \A i \in 1 .. Len(in) : in[i] = request[c][Fetched(c) + i]
      BY <2>4 DEF InOrder, RequestInOrder
    <3>9. \A i \in 1 .. Len(f.bytes) :
             f.bytes[i].from = c /\ f.bytes[i].token = request[c][Passed(c) + i]
      BY <3>1, <3>2, <3>4, <3>6, <3>8
    <3>. QED  BY <1>3, <1>5, <2>1, <2>4, <3>7, <3>9 DEF FoundOwn
  <2>. QED  BY <1>2, <1>3, <2>3, <2>4
<1>6. ASSUME buffer[s] = <<>>, NEW j \in Junk,
             f = [bytes  |-> [i \in DOMAIN j |-> [from |-> NoClient, token |-> j[i]]],
                  broken |-> broken + 1]
      PROVE  FoundJunk(s, f)
  <2>1. j \in Seq(Tokens) /\ DOMAIN j = 1 .. Len(j) /\ Len(j) \in Nat
    BY ServerAssumption, LenProperties
  <2>2. f.bytes = [i \in 1 .. Len(j) |-> [from |-> NoClient, token |-> j[i]]]
        /\ f.broken = broken + 1
    BY <1>6, <2>1
  <2>3. Len(f.bytes) \in Nat /\ DOMAIN f.bytes = 1 .. Len(f.bytes)
    BY <1>3, LenProperties
  <2>4. Len(f.bytes) = Len(j)
    <3>1. 1 .. Len(j) = 1 .. Len(f.bytes)
      BY <2>2, <2>3
    <3>. QED  BY <2>1, <2>3, <3>1
  <2>. QED  BY <1>6, <2>1, <2>2, <2>4 DEF FoundJunk
<1>. QED  BY <1>3, <1>4, <1>5, <1>6 DEF Fetches

\* The bytes found are fetched, and client c's position moves by k if they are its own.
Advances(s, f, c, k) ==
    /\ InOrder'
    /\ \A d \in Clients : Passed(d) <= Passed(d)'
    /\ \A d \in Clients : d # c => Passed(d)' = Passed(d)
    /\ FoundOwn(s, f) => Passed(c)' = Passed(c) + k
    /\ FoundOld(s, f) => \A d \in Clients : Passed(d)' = Passed(d)

\* A fetch, after which k of the bytes found are read, moves the client's position by k;
\* a broken reply may lose bytes.
LEMMA FetchMoves ==
    ASSUME ServerInvariant, ServerInvariant', InOrder, NEW s \in Slots, NEW f \in Fetches(s),
           Fetch(s, f), UNCHANGED <<request, unsent, conn>>,
           NEW k \in {0, 1}, NEW b \in Seq(Item), Len(b) = Len(f.bytes) - k,
           \A i \in 1 .. Len(b) : b[i] = f.bytes[i + k],
           buffer' = [buffer EXCEPT ![s] = b],
           NEW c, c = conn[s]
    PROVE  Advances(s, f, c, k)
<1>0. \A d \in Clients : Passed(d) \in Int
  BY Positions
<1>1. /\ TypeOK /\ TypeOK' /\ SlotsHeld /\ SlotsHeld' /\ NoClient \notin Clients
      /\ c \in Clients \cup {NoClient}
  BY ServerAssumption DEF ServerInvariant, LinesInvariant, TypeOK
<1>2. /\ buffer'[s] = b /\ \A t \in Slots \ {s} : buffer'[t] = buffer[t] /\ conn'[t] = conn[t]
      /\ \A d \in Clients \ {c} : inbox'[d] = inbox[d]
      /\ c \in Clients => inbox'[c] = IF buffer[s] = <<>> THEN <<>> ELSE inbox[c]
  BY <1>1 DEF TypeOK, Fetch
<1>3. /\ \A d \in Clients : d # c => Passed(d)' = Passed(d) /\ RequestInOrder(d)'
      /\ \A t \in Slots \ {s} : BufferInOrder(t)'
  <2>1. conn'[s] = c
    OBVIOUS
  <2>. QED  BY <1>2, <2>1, OthersInOrder
<1>4. f.bytes \in Seq(Item) /\ (FoundOwn(s, f) \/ FoundOld(s, f) \/ FoundJunk(s, f))
  BY FetchFinds
<1>5. Len(f.bytes) \in Nat /\ Len(b) \in Nat /\ \A i \in 1 .. Len(b) : i + k \in 1 .. Len(f.bytes)
  <2>1. Len(f.bytes) \in Nat /\ Len(b) \in Nat
    BY <1>4, LenProperties
  <2>. QED  BY <2>1
\* The module's part and the rest of the client's request.
<1>6. ASSUME c \in Clients
      PROVE  /\ Sent(c)' = Sent(c)
             /\ Fetched(c)' = IF buffer[s] = <<>> THEN Sent(c) ELSE Fetched(c)
             /\ \A i \in 1 .. Len(inbox'[c]) : inbox'[c][i] = request'[c][Fetched(c)' + i]
             /\ \A i \in 1 .. Len(unsent'[c]) : unsent'[c][i] = request'[c][Sent(c)' + i]
  <2>1. Sent(c)' = Sent(c) /\ Sent(c) \in Int
    BY <1>6, Positions DEF Sent
  <2>2. CASE buffer[s] = <<>>
    <3>1. Len(inbox'[c]) = 0
      BY <1>2, <1>6, <2>2, EmptySeq
    <3>2. Fetched(c)' = Sent(c)
      <4>1. Fetched(c)' = Sent(c)' - Len(inbox'[c])
        BY DEF Fetched
      <4>. QED  BY <2>1, <3>1, <4>1
    <3>. QED  BY <1>6, <2>1, <2>2, <3>1, <3>2 DEF InOrder, RequestInOrder
  <2>3. CASE buffer[s] # <<>>
    <3>1. inbox'[c] = inbox[c]
      BY <1>2, <1>6, <2>3
    <3>2. Fetched(c)' = Fetched(c)
      BY <2>1, <3>1 DEF Fetched
    <3>. QED  BY <1>6, <2>1, <2>3, <3>1, <3>2 DEF InOrder, RequestInOrder
  <2>. QED  BY <2>2, <2>3
<1>7. ASSUME c \in Clients
      PROVE  /\ 0 <= Passed(c) /\ Passed(c) \in Int /\ Passed(c) = Fetched(c) - Held(c)
             /\ Held(c) \in Nat /\ Held(c)' \in Nat /\ Fetched(c) \in Int /\ Sent(c) \in Int
             /\ Fetched(c) <= Sent(c)
             /\ Passed(c)' = Fetched(c)' - Held(c)'
             /\ Held(c)' = IF OnlyJunk(s)' THEN 0 ELSE Len(b)
  <2>1. Held(c)' = IF OnlyJunk(s)' THEN 0 ELSE Len(b)
    BY <1>1, <1>2, <1>7, HeldByNext
  <2>. QED  BY <1>7, <2>1, Positions, PositionsNext DEF InOrder, RequestInOrder
<1>8. CASE FoundOwn(s, f)
  <2>1. /\ c \in Clients
        /\ Passed(c) + Len(f.bytes) = Fetched(c)'
        /\ \A i \in 1 .. Len(f.bytes) :
              f.bytes[i].from = c /\ f.bytes[i].token = request[c][Passed(c) + i]
    BY <1>6, <1>8 DEF FoundOwn
  <2>2. Held(c)' = Len(b)
    <3>1. ASSUME OnlyJunk(s)' PROVE Len(b) = 0
      <4>1. ASSUME Len(b) # 0 PROVE FALSE
        <5>1. 1 \in 1 .. Len(b) /\ 1 + k \in 1 .. Len(f.bytes)
          BY <1>5, <4>1
        <5>2. b[1] = f.bytes[1 + k]
          BY <5>1
        <5>3. f.bytes[1 + k].from = c
          BY <2>1, <5>1
        <5>4. b[1].from = NoClient
          BY <1>2, <3>1, <5>1 DEF OnlyJunk
        <5>. QED  BY <1>1, <2>1, <5>2, <5>3, <5>4
      <4>. QED  BY <4>1
    <3>. QED  BY <1>7, <2>1, <3>1
  <2>3. Passed(c)' = Passed(c) + k
    BY <1>5, <1>7, <2>1, <2>2
  <2>4. \A i \in 1 .. Len(b) : b[i].from = c /\ b[i].token = request[c][Passed(c)' + i]
    <3>1. \A i \in 1 .. Len(b) : Passed(c) + (i + k) = Passed(c)' + i
      BY <1>5, <1>7, <2>1, <2>3
    <3>. QED  BY <1>5, <2>1, <3>1
  <2>5. BufferInOrder(s)'
    BY <1>2, <2>1, <2>4 DEF BufferInOrder
  <2>6. RequestInOrder(c)' /\ Passed(c) <= Passed(c)'
    <3>1. Passed(c) \in Int /\ 0 <= Passed(c)
      BY <1>7, <2>1
    <3>2. Passed(c) <= Passed(c)' /\ 0 <= Passed(c)'
      BY <2>3, <3>1
    <3>. QED  BY <1>6, <2>1, <3>2 DEF RequestInOrder
  <2>7. \A d \in Clients : Passed(d) <= Passed(d)'
    BY <1>0, <1>3, <2>6
  <2>. QED
    <3>1. InOrder'
      BY <1>3, <2>5, <2>6 DEF InOrder
    <3>2. ~FoundOld(s, f)
      BY <1>1, <1>8, <2>1 DEF FoundOwn, FoundOld
    <3>. QED  BY <1>3, <2>3, <2>7, <3>1, <3>2 DEF Advances
<1>9. ASSUME OnlyJunk(s), \A i \in 1 .. Len(f.bytes) : f.bytes[i].from = NoClient
      PROVE  /\ InOrder' /\ \A d \in Clients : Passed(d) <= Passed(d)'
             /\ buffer[s] # <<>> \/ conn[s] = NoClient => \A d \in Clients : Passed(d)' = Passed(d)
  <2>1. OnlyJunk(s)'
    BY <1>2, <1>5, <1>9 DEF OnlyJunk
  <2>2. BufferInOrder(s)'
    BY <2>1 DEF BufferInOrder
  <2>3. ASSUME c \in Clients
        PROVE  /\ RequestInOrder(c)' /\ Passed(c) <= Passed(c)'
               /\ buffer[s] # <<>> => Passed(c)' = Passed(c)
    <3>1. Held(c) = 0 /\ Held(c)' = 0
      BY <1>1, <1>7, <1>9, <2>1, <2>3, HeldBy
    <3>2. /\ Passed(c)' = IF buffer[s] = <<>> THEN Sent(c) ELSE Fetched(c)
          /\ Passed(c) = Fetched(c)
      BY <1>6, <1>7, <2>3, <3>1
    <3>3. Passed(c) <= Passed(c)' /\ 0 <= Passed(c)'
      BY <1>7, <2>3, <3>2
    <3>. QED  BY <1>6, <2>3, <3>2, <3>3 DEF RequestInOrder
  <2>4. \A d \in Clients : Passed(d) <= Passed(d)'
    BY <1>0, <1>3, <2>3
  <2>. QED  BY <1>1, <1>3, <2>2, <2>3, <2>4 DEF InOrder
<1>10. CASE FoundOld(s, f)
  <2>1. OnlyJunk(s) /\ \A i \in 1 .. Len(f.bytes) : f.bytes[i].from = NoClient
    BY <1>10 DEF FoundOld, OnlyJunk
  <2>2. buffer[s] # <<>> \/ conn[s] = NoClient
    BY <1>10 DEF FoundOld
  <2>3. ~FoundOwn(s, f) \/ Passed(c)' = Passed(c) + k
    BY <1>8 DEF Advances
  <2>. QED  BY <1>3, <1>9, <2>1, <2>2, <2>3 DEF Advances
<1>11. CASE FoundJunk(s, f)
  <2>1. OnlyJunk(s) /\ \A i \in 1 .. Len(f.bytes) : f.bytes[i].from = NoClient
    <3>1. OnlyJunk(s)
      BY <1>11, EmptyJunk DEF FoundJunk
    <3>2. PICK j \in Junk : /\ Len(f.bytes) = Len(j)
                            /\ \A i \in 1 .. Len(j) :
                                  f.bytes[i].from = NoClient /\ f.bytes[i].token = j[i]
      BY <1>11 DEF FoundJunk
    <3>. QED  BY <3>1, <3>2
  <2>2. ~FoundOwn(s, f) \/ Passed(c)' = Passed(c) + k
    BY <1>8 DEF Advances
  <2>3. FoundOld(s, f) => \A d \in Clients : Passed(d)' = Passed(d)
    BY <1>10 DEF Advances
  <2>. QED  BY <1>3, <1>9, <2>1, <2>2, <2>3 DEF Advances
<1>. QED  BY <1>4, <1>8, <1>10, <1>11

\* The host gives up a buffer, and the slot too or not: its client's bytes are passed over.
LEMMA EmptyingMoves ==
    ASSUME ServerInvariant, ServerInvariant', InOrder, NEW s \in Slots, NEW c, c = conn[s],
           UNCHANGED <<request, unsent>>, buffer' = [buffer EXCEPT ![s] = <<>>],
           Release(s) \/ UNCHANGED <<conn, inbox>>
    PROVE  /\ InOrder'
           /\ \A d \in Clients : Passed(d) <= Passed(d)'
           /\ \A d \in Clients \ {c} : Passed(d)' = Passed(d)
<1>0. \A d \in Clients : Passed(d) \in Int
  BY Positions
<1>1. /\ TypeOK /\ SlotsHeld /\ NoClient \notin Clients /\ c \in Clients \cup {NoClient}
  BY ServerAssumption DEF ServerInvariant, LinesInvariant, TypeOK
<1>2. /\ buffer'[s] = <<>> /\ \A t \in Slots \ {s} : buffer'[t] = buffer[t] /\ conn'[t] = conn[t]
      /\ \A d \in Clients \ {c} : inbox'[d] = inbox[d]
      /\ conn'[s] \in {c, NoClient}
      /\ c \in Clients => inbox'[c] \in {<<>>, inbox[c]}
  BY <1>1 DEF TypeOK, Release
<1>3. OnlyJunk(s)'
  BY <1>2, EmptyJunkNext
<1>4. /\ \A d \in Clients \ {c} : Passed(d)' = Passed(d) /\ RequestInOrder(d)'
      /\ \A t \in Slots \ {s} : BufferInOrder(t)'
  <2>1. \A d \in Clients \ {c} : d \in Clients \ {c, conn'[s]}
    BY <1>1, <1>2
  <2>. QED  BY <1>2, <2>1, OthersInOrder
<1>5. BufferInOrder(s)'
  BY <1>3 DEF BufferInOrder
<1>6. ASSUME c \in Clients PROVE RequestInOrder(c)' /\ Passed(c) <= Passed(c)'
  <2>1. Held(c)' = 0
    <3>1. \A t \in Slots : conn'[t] = c => t = s
      BY <1>1, <1>2, <1>6 DEF SlotsHeld
    <3>. QED  BY <1>3, <3>1, HeldNoneNext
  <2>2. /\ 0 <= Passed(c) /\ Passed(c) = Fetched(c) - Held(c) /\ Held(c) \in Nat
        /\ Fetched(c) \in Int /\ Sent(c) \in Int /\ Fetched(c) <= Sent(c)
        /\ Passed(c)' = Fetched(c)' - Held(c)' /\ Fetched(c)' \in Int
    BY <1>6, Positions, PositionsNext DEF InOrder, RequestInOrder
  <2>3. Sent(c)' = Sent(c)
    BY DEF Sent
  <2>4. /\ Fetched(c) <= Fetched(c)'
        /\ \A i \in 1 .. Len(inbox'[c]) : inbox'[c][i] = request[c][Fetched(c)' + i]
    <3>1. CASE inbox'[c] = inbox[c]
      <4>1. Fetched(c)' = Fetched(c)
        BY <2>3, <3>1 DEF Fetched
      <4>. QED  BY <1>6, <2>2, <3>1, <4>1 DEF InOrder, RequestInOrder
    <3>2. CASE inbox'[c] = <<>>
      <4>1. Len(inbox'[c]) = 0 /\ 1 .. 0 = {}
        BY <3>2, EmptySeq
      <4>2. Fetched(c)' = Sent(c)
        <5>1. Fetched(c)' = Sent(c)' - Len(inbox'[c])
          BY DEF Fetched
        <5>. QED  BY <2>2, <2>3, <4>1, <5>1
      <4>. QED  BY <2>2, <4>1, <4>2
    <3>. QED  BY <1>2, <1>6, <3>1, <3>2
  <2>5. Passed(c) <= Passed(c)' /\ 0 <= Passed(c)'
    BY <2>1, <2>2, <2>4
  <2>. QED  BY <1>6, <2>3, <2>4, <2>5 DEF InOrder, RequestInOrder
<1>7. \A d \in Clients : Passed(d) <= Passed(d)'
  BY <1>0, <1>4, <1>6
<1>. QED  BY <1>4, <1>5, <1>6, <1>7 DEF InOrder

\* A connection is given a slot: nothing of it was fetched.
LEMMA GivingMoves ==
    ASSUME ServerInvariant, ServerInvariant', InOrder, NEW s \in Slots, NEW c \in Clients,
           conn[s] = NoClient, Unplaced(c), conn' = [conn EXCEPT ![s] = c],
           UNCHANGED <<request, unsent, inbox, buffer>>
    PROVE  InOrder' /\ \A d \in Clients : Passed(d)' = Passed(d)
<1>1. /\ TypeOK /\ NoClient \notin Clients
  BY ServerAssumption DEF ServerInvariant, LinesInvariant
<1>2. conn'[s] = c /\ \A t \in Slots \ {s} : conn'[t] = conn[t] /\ buffer'[t] = buffer[t]
  BY <1>1 DEF TypeOK
<1>3. OnlyJunk(s) /\ OnlyJunk(s)'
  <2>1. OnlyJunk(s)
    BY <1>1 DEF InOrder, BufferInOrder
  <2>. QED  BY <2>1 DEF OnlyJunk
<1>4. /\ \A d \in Clients \ {c} : Passed(d)' = Passed(d) /\ RequestInOrder(d)'
      /\ \A t \in Slots \ {s} : BufferInOrder(t)'
  <2>1. \A d \in Clients \ {c} : d \in Clients \ {conn[s], conn'[s]}
    BY <1>1, <1>2
  <2>. QED  BY <1>2, <2>1, OthersInOrder
<1>5. RequestInOrder(c)' /\ Passed(c)' = Passed(c)
  <2>1. Held(c) = 0
    BY HeldNone DEF Unplaced
  <2>2. Held(c)' = 0
    <3>1. \A t \in Slots : conn'[t] = c => t = s
      BY <1>2 DEF Unplaced
    <3>. QED  BY <1>3, <3>1, HeldNoneNext
  <2>3. Sent(c)' = Sent(c) /\ Fetched(c)' = Fetched(c)
    BY DEF Sent, Fetched
  <2>4. Passed(c)' = Passed(c)
    BY <2>1, <2>2, <2>3 DEF Passed
  <2>. QED  BY <2>3, <2>4 DEF InOrder, RequestInOrder
<1>6. BufferInOrder(s)'
  BY <1>3 DEF BufferInOrder
<1>. QED  BY <1>4, <1>5, <1>6 DEF InOrder

\* Nothing moves.
LEMMA NothingMoves ==
    ASSUME InOrder, UNCHANGED <<request, unsent, inbox, conn, buffer>>
    PROVE  InOrder' /\ \A d : Passed(d)' = Passed(d)
<1>1. \A d : Sent(d)' = Sent(d) /\ Fetched(d)' = Fetched(d) /\ Passed(d)' = Passed(d)
  BY SlotsUnchanged DEF Sent, Fetched, Passed
<1>2. \A d \in Clients : RequestInOrder(d)'
  BY <1>1 DEF InOrder, RequestInOrder
<1>3. \A s \in Slots : BufferInOrder(s)'
  BY <1>1, SlotsUnchanged DEF InOrder, BufferInOrder
<1>. QED  BY <1>1, <1>2, <1>3 DEF InOrder

-----------------------------------------------------------------------------
(* Nesting is bounded *)

\* If no slot gains a refresh that is junk there are no more of them; ...
LEMMA JunkNoMore ==
    ASSUME IsFiniteSet(JunkSlots), JunkSlots' \subseteq JunkSlots
    PROVE  /\ IsFiniteSet(JunkSlots') /\ Cardinality(JunkSlots') <= Cardinality(JunkSlots)
           /\ Cardinality(JunkSlots) \in Nat /\ Cardinality(JunkSlots') \in Nat
BY FS_Subset, FS_CardinalityType

\* ... a fetch adds one with a broken reply only, and reading one removes it.
LEMMA JunkAfterFetch ==
    ASSUME ServerInvariant, ServerInvariant', InOrder, IsFiniteSet(JunkSlots), OneJunkRefresh,
           \A j \in Junk : OneRefresh(j),
           NEW s \in Slots, NEW f \in Fetches(s), Fetch(s, f), UNCHANGED conn,
           NEW k \in {0, 1}, NEW b \in Seq(Item), Len(b) = Len(f.bytes) - k,
           \A i \in 1 .. Len(b) : b[i] = f.bytes[i + k],
           buffer' = [buffer EXCEPT ![s] = b]
    PROVE  /\ IsFiniteSet(JunkSlots') /\ OneJunkRefresh'
           /\ Cardinality(JunkSlots) \in Nat /\ Cardinality(JunkSlots') \in Nat
           /\ Cardinality(JunkSlots') + broken <= Cardinality(JunkSlots) + broken'
           /\ k = 1 /\ JunkRefresh(f.bytes[1])
                 => Cardinality(JunkSlots') + broken + 1 <= Cardinality(JunkSlots) + broken'
<1>1. TypeOK /\ TypeOK' /\ NoClient \notin Clients
  BY ServerAssumption DEF ServerInvariant, LinesInvariant
<1>2. broken \in Nat /\ broken' \in Nat /\ broken' = f.broken
  BY <1>1, ServerAssumption DEF TypeOK, Fetch
<1>3. f.bytes \in Seq(Item) /\ (FoundOwn(s, f) \/ FoundOld(s, f) \/ FoundJunk(s, f))
  BY FetchFinds
<1>4. /\ Len(f.bytes) \in Nat /\ Len(b) \in Nat
      /\ \A i \in 1 .. Len(b) : i + k \in 1 .. Len(f.bytes) /\ b[i] = f.bytes[i + k]
  <2>1. Len(f.bytes) \in Nat /\ Len(b) \in Nat
    BY <1>3, LenProperties
  <2>. QED  BY <2>1
<1>5. buffer'[s] = b /\ \A t \in Slots \ {s} : buffer'[t] = buffer[t]
  BY <1>1 DEF TypeOK
<1>6. JunkSlots' = {t \in Slots : \E i \in 1 .. Len(buffer'[t]) : JunkRefresh(buffer'[t][i])}
  BY DEF JunkSlots, JunkRefresh
<1>7. \A t \in Slots \ {s} : t \in JunkSlots' <=> t \in JunkSlots
  BY <1>5, <1>6 DEF JunkSlots
\* The bytes found have one such refresh.
<1>8. \A i, j \in 1 .. Len(f.bytes) :
         JunkRefresh(f.bytes[i]) /\ JunkRefresh(f.bytes[j]) => i = j
  <2>1. CASE FoundOwn(s, f)
    BY <1>1, <2>1 DEF FoundOwn, JunkRefresh
  <2>2. CASE FoundOld(s, f)
    BY <2>2 DEF FoundOld, OneJunkRefresh
  <2>3. CASE FoundJunk(s, f)
    <3>1. PICK j \in Junk : /\ Len(f.bytes) = Len(j)
                            /\ \A i \in 1 .. Len(j) :
                                  f.bytes[i].from = NoClient /\ f.bytes[i].token = j[i]
      BY <2>3 DEF FoundJunk
    <3>. QED  BY <3>1 DEF JunkRefresh, OneRefresh
  <2>. QED  BY <1>3, <2>1, <2>2, <2>3
<1>9. OneJunkRefresh'
  <2>1. \A i, j \in 1 .. Len(b) : JunkRefresh(b[i]) /\ JunkRefresh(b[j]) => i = j
    <3> SUFFICES ASSUME NEW i \in 1 .. Len(b), NEW j \in 1 .. Len(b),
                        JunkRefresh(b[i]), JunkRefresh(b[j])
                 PROVE  i = j
      OBVIOUS
    <3>1. i + k = j + k
      BY <1>4, <1>8
    <3>. QED  BY <1>4, <3>1
  <2>2. \A t \in Slots : \A i, j \in 1 .. Len(buffer'[t]) :
           JunkRefresh(buffer'[t][i]) /\ JunkRefresh(buffer'[t][j]) => i = j
    BY <1>5, <2>1 DEF OneJunkRefresh
  <2>. QED  BY <2>2 DEF OneJunkRefresh, JunkRefresh
\* One was read: no other is left in the buffer.
<1>10. k = 1 /\ JunkRefresh(f.bytes[1]) => s \notin JunkSlots'
  <2> SUFFICES ASSUME k = 1, JunkRefresh(f.bytes[1]), NEW i \in 1 .. Len(b), JunkRefresh(b[i])
               PROVE  FALSE
    BY <1>5, <1>6
  <2>1. i + 1 \in 1 .. Len(f.bytes) /\ 1 \in 1 .. Len(f.bytes) /\ JunkRefresh(f.bytes[i + 1])
    BY <1>4
  <2>2. i + 1 = 1
    BY <1>8, <2>1
  <2>. QED  BY <2>2
<1>11. Cardinality(JunkSlots) \in Nat
  BY FS_CardinalityType
<1>12. CASE FoundOwn(s, f) \/ FoundOld(s, f)
  <2>1. broken' = broken
    BY <1>2, <1>12 DEF FoundOwn, FoundOld
  <2>2. s \in JunkSlots' => s \in JunkSlots
    <3> SUFFICES ASSUME NEW i \in 1 .. Len(b), JunkRefresh(b[i]) PROVE s \in JunkSlots
      BY <1>5, <1>6
    <3>1. i + k \in 1 .. Len(f.bytes) /\ JunkRefresh(f.bytes[i + k])
      BY <1>4
    <3>. QED  BY <1>1, <1>12, <3>1 DEF FoundOwn, FoundOld, JunkSlots, JunkRefresh
  <2>3. JunkSlots' \subseteq JunkSlots
    BY <1>6, <1>7, <2>2
  <2>4. ASSUME k = 1, JunkRefresh(f.bytes[1]), f.bytes # <<>>
        PROVE  s \in JunkSlots
    <3>1. 1 \in 1 .. Len(f.bytes)
      BY <1>3, <1>4, <2>4, EmptySeq
    <3>. QED  BY <1>1, <1>12, <2>4, <3>1 DEF FoundOwn, FoundOld, JunkSlots, JunkRefresh
  <2>5. ASSUME k = 1, JunkRefresh(f.bytes[1])
        PROVE  Cardinality(JunkSlots') + 1 <= Cardinality(JunkSlots)
    <3>1. f.bytes # <<>>
      BY <1>4, <2>5, EmptySeq
    <3>2. JunkSlots' \subseteq JunkSlots \ {s}
      BY <1>10, <2>3, <2>5
    <3>3. /\ IsFiniteSet(JunkSlots \ {s})
          /\ Cardinality(JunkSlots \ {s}) = Cardinality(JunkSlots) - 1
      BY <2>4, <2>5, <3>1, FS_RemoveElement
    <3>4. Cardinality(JunkSlots') <= Cardinality(JunkSlots \ {s})
      BY <3>2, <3>3, FS_Subset
    <3>5. Cardinality(JunkSlots') \in Nat
      BY <2>3, JunkNoMore
    <3>. QED  BY <1>11, <3>3, <3>4, <3>5
  <2>. QED  BY <1>2, <1>9, <2>1, <2>3, <2>5, JunkNoMore
<1>13. CASE FoundJunk(s, f)
  <2>1. broken' = broken + 1 /\ buffer[s] = <<>>
    BY <1>2, <1>13 DEF FoundJunk
  <2>2. JunkSlots' \subseteq JunkSlots \cup {s}
    BY <1>6, <1>7
  <2>3. /\ IsFiniteSet(JunkSlots \cup {s})
        /\ Cardinality(JunkSlots \cup {s}) <= Cardinality(JunkSlots) + 1
        /\ Cardinality(JunkSlots \cup {s}) \in Nat
    <3>1. /\ IsFiniteSet(JunkSlots \cup {s})
          /\ Cardinality(JunkSlots \cup {s})
                = IF s \in JunkSlots THEN Cardinality(JunkSlots) ELSE Cardinality(JunkSlots) + 1
      BY FS_AddElement
    <3>. QED  BY <1>11, <3>1
  <2>4. IsFiniteSet(JunkSlots') /\ Cardinality(JunkSlots') \in Nat
        /\ Cardinality(JunkSlots') <= Cardinality(JunkSlots \cup {s})
    BY <2>2, <2>3, FS_Subset, FS_CardinalityType
  <2>5. Cardinality(JunkSlots') + broken <= Cardinality(JunkSlots) + broken'
    BY <1>2, <1>11, <2>1, <2>3, <2>4
  <2>6. ASSUME k = 1, JunkRefresh(f.bytes[1])
        PROVE  Cardinality(JunkSlots') + broken + 1 <= Cardinality(JunkSlots) + broken'
    <3>1. JunkSlots' \subseteq JunkSlots
      BY <1>6, <1>7, <1>10, <2>6
    <3>2. Cardinality(JunkSlots') <= Cardinality(JunkSlots)
      BY <3>1, JunkNoMore
    <3>. QED  BY <1>2, <1>11, <2>1, <2>4, <3>2
  <2>. QED  BY <1>9, <1>11, <2>4, <2>5, <2>6
<1>. QED  BY <1>3, <1>12, <1>13

\* No step adds to those whose refresh was not read, ...
LEMMA WaitingNoMore ==
    ASSUME ServerInvariant, ServerInvariant', IsFiniteSet(Clients), UNCHANGED request,
           \A d \in Clients : Passed(d) <= Passed(d)'
    PROVE  /\ Waiting' \subseteq Waiting
           /\ Cardinality(Waiting) \in Nat /\ Cardinality(Waiting') \in Nat
           /\ Cardinality(Waiting') <= Cardinality(Waiting)
<1>1. \A d \in Clients : Passed(d) \in Int /\ Passed(d)' \in Int
  BY Positions, PositionsNext
<1>2. ASSUME NEW d \in Waiting' PROVE d \in Waiting
  <2>1. PICK p \in 1 .. Len(request[d]) : request[d][p] = "refresh" /\ Passed(d)' < p
    BY <1>2 DEF Waiting
  <2>2. d \in Clients /\ Len(request[d]) \in Nat
    BY <1>2, Positions DEF Waiting
  <2>3. Passed(d) < p
    BY <1>1, <2>1, <2>2
  <2>. QED  BY <2>1, <2>2, <2>3 DEF Waiting
<1>3. IsFiniteSet(Waiting)
  BY FS_Subset DEF Waiting
<1>. QED  BY <1>2, <1>3, FS_Subset, FS_CardinalityType

\* ... and reading a refresh removes one.
LEMMA WaitingLess ==
    ASSUME ServerInvariant, ServerInvariant', InOrder, IsFiniteSet(Clients), UNCHANGED request,
           \A d \in Clients : Passed(d) <= Passed(d)',
           NEW c \in Clients, Passed(c)' = Passed(c) + 1, Passed(c) < Len(request[c]),
           request[c][Passed(c) + 1] = "refresh", OneRefresh(request[c])
    PROVE  Cardinality(Waiting') + 1 <= Cardinality(Waiting)
<1>1. 0 <= Passed(c) /\ Passed(c) \in Int /\ Len(request[c]) \in Nat
  BY Positions DEF InOrder, RequestInOrder
<1>2. Passed(c) + 1 \in 1 .. Len(request[c]) /\ Passed(c) < Passed(c) + 1
  BY <1>1
<1>3. c \in Waiting
  BY <1>2 DEF Waiting
<1>4. c \notin Waiting'
  <2> SUFFICES ASSUME NEW p \in 1 .. Len(request[c]), request[c][p] = "refresh",
                      Passed(c)' < p
               PROVE  FALSE
    BY DEF Waiting
  <2>1. p = Passed(c) + 1
    BY <1>2 DEF OneRefresh
  <2>. QED  BY <1>1, <2>1
<1>5. Waiting' \subseteq Waiting /\ Cardinality(Waiting) \in Nat /\ Cardinality(Waiting') \in Nat
  BY WaitingNoMore
<1>6. IsFiniteSet(Waiting)
  BY FS_Subset DEF Waiting
<1>7. /\ IsFiniteSet(Waiting \ {c})
      /\ Cardinality(Waiting \ {c}) = Cardinality(Waiting) - 1
  BY <1>3, <1>6, FS_RemoveElement
<1>8. Cardinality(Waiting') <= Cardinality(Waiting \ {c})
  BY <1>4, <1>5, <1>7, FS_Subset
<1>. QED  BY <1>5, <1>7, <1>8

\* loop is entered by the callback, or left, or neither.
LEMMA DepthTyped == TypeOK => Depth \in Nat /\ (stack # <<>> => Len(stack) \in Nat /\ Depth = Len(stack) - 1)
<1> SUFFICES ASSUME TypeOK PROVE Depth \in Nat /\ (stack # <<>> => Len(stack) \in Nat /\ Depth = Len(stack) - 1)
  OBVIOUS
<1>1. CASE stack = <<>>
  BY <1>1 DEF Depth
<1>2. CASE stack # <<>>
  BY <1>2, TopTyped DEF Depth
<1>. QED  BY <1>1, <1>2

LEMMA DepthTypedNext ==
    (TypeOK => Depth \in Nat /\ (stack # <<>> => Len(stack) \in Nat /\ Depth = Len(stack) - 1))'
BY DepthTyped, PTL

\* What Serve does to the stack, but for Read.
Moved == \/ \E p \in Places : GoTo(p)
         \/ \E s \in Slots : TakeClient(s)
         \/ LoseClient
         \/ Return

LEMMA ServeMoves ==
    ASSUME ServerInvariant,
           \/ ServerAvailable \/ LastSockStatus \/ LastSockAgain \/ AvailServer
           \/ Connected \/ ConnectedStatus \/ Stop
    PROVE  stack # <<>> /\ Moved
<1>1. /\ TypeOK /\ TopHolds /\ lastSock \in Slots \cup {NoSlot}
  BY DEF ServerInvariant, LinesInvariant, TypeOK
<1>2. CASE ServerAvailable
  <2>1. stack # <<>>
    BY <1>2 DEF ServerAvailable, At
  <2>2. CASE lastSock = NoSlot
    <3>1. GoTo("avail") /\ "avail" \in Places
      BY <1>2, <2>2 DEF ServerAvailable, Places
    <3>. QED  BY <2>1, <3>1 DEF Moved
  <2>3. CASE lastSock # NoSlot
    <3>1. (TakeClient(lastSock) \/ GoTo("state")) /\ "state" \in Places /\ lastSock \in Slots
      BY <1>1, <1>2, <2>3 DEF ServerAvailable, Places
    <3>. QED  BY <2>1, <3>1 DEF Moved
  <2>. QED  BY <2>2, <2>3
<1>3. CASE LastSockStatus
  <2>1. stack # <<>> /\ (GoTo("again") \/ GoTo("avail")) /\ {"again", "avail"} \subseteq Places
    BY <1>3 DEF LastSockStatus, At, Places
  <2>. QED  BY <2>1 DEF Moved
<1>4. CASE LastSockAgain
  <2>1. stack # <<>> /\ top.at = "again" /\ (TakeClient(lastSock) \/ GoTo("avail"))
        /\ "avail" \in Places
    BY <1>4 DEF LastSockAgain, At, Places
  <2>2. lastSock \in Slots
    BY <1>1, <2>1 DEF TopHolds
  <2>. QED  BY <2>1, <2>2 DEF Moved
<1>5. CASE AvailServer
  <2>1. stack # <<>> /\ \E s \in Slots \cup {NoSlot} : Told(s)
    BY <1>5 DEF AvailServer, At
  <2>2. broken < MaxBroken => 0 \in Slots
    BY <1>1, ServerAssumption DEF TypeOK
  <2>. QED  BY <2>1, <2>2 DEF Told, Moved
<1>6. CASE Connected
  <2>1. stack # <<>> /\ (GoTo("if") \/ GoTo("status") \/ GoTo("stop"))
        /\ {"if", "status", "stop"} \subseteq Places
    BY <1>6 DEF Connected, At, Places
  <2>. QED  BY <2>1 DEF Moved
<1>7. CASE ConnectedStatus
  <2>1. stack # <<>> /\ (GoTo("if") \/ LoseClient) /\ "if" \in Places
    BY <1>7 DEF ConnectedStatus, At, Places
  <2>. QED  BY <2>1 DEF Moved
<1>8. CASE Stop
  BY <1>8 DEF Stop, At, Moved
<1>. QED  BY <1>2, <1>3, <1>4, <1>5, <1>6, <1>7, <1>8

\* Then loop is not entered, and the line of the activation that runs now is the one of
\* the activation that ran, or empty.
LEMMA MovedTop ==
    ASSUME ServerInvariant, ServerInvariant', stack # <<>>, Moved
    PROVE  /\ Depth' <= Depth
           /\ stack' # <<>> => top'.line = EmptyLine \/ (top'.line = top.line /\ ~Return)
<1>1. TypeOK /\ TypeOK' /\ OuterWaits
  BY DEF ServerInvariant, LinesInvariant
<1>2. Depth \in Nat /\ Depth' \in Nat /\ Depth = Len(stack) - 1 /\ Len(stack) \in Nat
      /\ (stack' # <<>> => Depth' = Len(stack') - 1) /\ (stack' = <<>> => Depth' = 0)
  BY <1>1, DepthTyped, DepthTypedNext DEF Depth
<1>3. CASE Return
  <2>1. /\ Len(stack') = Len(stack) - 1
        /\ stack' # <<>> => top'.line = EmptyLine
    BY <1>1, <1>3, Returns
  <2>2. Depth' <= Depth
    BY <1>2, <2>1
  <2>. QED  BY <2>1, <2>2
<1>4. CASE ~Return
  <2>1. /\ stack' # <<>> /\ Len(stack') = Len(stack) /\ top'.line = top.line
    BY <1>1, <1>4, GoesTo, TakesClient, LosesClient DEF Moved
  <2>2. Depth' <= Depth
    BY <1>2, <2>1
  <2>. QED  BY <1>4, <2>1, <2>2
<1>. QED  BY <1>3, <1>4

-----------------------------------------------------------------------------
(* What the steps do to the bytes *)

\* Bytes of a slot are fetched, ...
Fills ==
    /\ UNCHANGED <<request, unsent, peer, conn>>
    /\ \E s \in Slots : \E f \in Fetches(s) :
          Fetch(s, f) /\ buffer' = [buffer EXCEPT ![s] = f.bytes]

\* ... a slot is given up, or its buffer only, ...
Empties ==
    /\ UNCHANGED <<request, unsent>>
    /\ \E s \in Slots : /\ buffer' = [buffer EXCEPT ![s] = <<>>]
                        /\ \/ Release(s) /\ UNCHANGED broken
                           \/ UNCHANGED <<conn, peer, inbox>> /\ broken' = broken + 1

\* ... or given to a connection, ...
Gives ==
    /\ UNCHANGED <<request, unsent, peer, inbox, buffer>> /\ broken' \in {broken, broken + 1}
    /\ \E s \in Slots, c \in Clients : /\ conn[s] = NoClient /\ Unplaced(c)
                                       /\ conn' = [conn EXCEPT ![s] = c]

\* ... or nothing of that happens.
Rests ==
    /\ UNCHANGED <<request, unsent, inbox, conn, buffer>> /\ broken' \in {broken, broken + 1}
    /\ \A d \in Clients : peer[d] = "done" => peer'[d] = "done"

LEMMA ServeBytes ==
    ASSUME ServerInvariant,
           \/ ServerAvailable \/ LastSockStatus \/ LastSockAgain \/ AvailServer
           \/ Connected \/ ConnectedStatus \/ Stop
    PROVE  /\ Fills \/ Empties \/ Gives \/ Rests
           /\ UNCHANGED <<executed, answers>>
<1>1. TypeOK /\ TopHolds /\ lastSock \in Slots \cup {NoSlot}
  BY DEF ServerInvariant, LinesInvariant, TypeOK
<1>2. CASE ServerAvailable
  <2>1. CASE lastSock = NoSlot
    BY <1>2, <2>1 DEF ServerAvailable, Rests
  <2>2. CASE lastSock # NoSlot
    <3>1. lastSock \in Slots
      BY <1>1, <2>2
    <3>. QED  BY <1>2, <2>2, <3>1 DEF ServerAvailable, Fills
  <2>. QED  BY <2>1, <2>2
<1>3. CASE LastSockAgain
  <2>1. lastSock \in Slots
    BY <1>1, <1>3 DEF LastSockAgain, At, TopHolds
  <2>. QED  BY <1>3, <2>1 DEF LastSockAgain, Fills
<1>4. CASE Connected
  <2>1. CASE top.sock = NoSlot
    BY <1>4, <2>1 DEF Connected, Rests
  <2>2. CASE top.sock # NoSlot
    <3>1. top.sock \in Slots
      BY <1>1, <1>4, <2>2, TopTyped DEF Connected, At
    <3>. QED  BY <1>4, <2>2, <3>1 DEF Connected, Fills
  <2>. QED  BY <2>1, <2>2
<1>5. CASE LastSockStatus
  <2>1. lastSock \in Slots
    BY <1>1, <1>5 DEF LastSockStatus, At, TopHolds
  <2>. QED  BY <1>5, <2>1 DEF LastSockStatus, MistakenForClosed, Empties, Rests
<1>6. CASE ConnectedStatus
  <2>1. top.sock \in Slots
    BY <1>1, <1>6 DEF ConnectedStatus, At, TopHolds
  <2>. QED  BY <1>6, <2>1 DEF ConnectedStatus, MistakenForClosed, Empties, Rests
<1>7. CASE Stop
  <2>1. CASE top.sock = NoSlot
    BY <1>7, <2>1 DEF Stop, Rests
  <2>2. CASE top.sock # NoSlot
    <3>1. top.sock \in Slots
      BY <1>1, <1>7, <2>2, TopTyped DEF Stop, At
    <3>. QED  BY <1>7, <2>2, <3>1 DEF Stop, Empties
  <2>. QED  BY <2>1, <2>2
<1>8. CASE AvailServer
  <2>1. UNCHANGED <<request, unsent, peer, answers, inbox, buffer, executed>>
    BY <1>8 DEF AvailServer
  <2>2. broken' \in {broken, broken + 1}
    BY <1>8 DEF AvailServer, Told
  <2>3. \/ UNCHANGED conn
        \/ \E s \in Slots, c \in Clients : /\ conn[s] = NoClient /\ Unplaced(c)
                                           /\ conn' = [conn EXCEPT ![s] = c]
    BY <1>8 DEF AvailServer
  <2>. QED  BY <2>1, <2>2, <2>3 DEF Gives, Rests
<1>. QED  BY <1>2, <1>3, <1>4, <1>5, <1>6, <1>7, <1>8

\* None of them goes back in a request; without a broken reply none goes on, but with
\* a client that is hung up on, and no junk appears.
LEMMA BytesMove ==
    ASSUME ServerInvariant, ServerInvariant', InOrder, Fills \/ Empties \/ Gives \/ Rests
    PROVE  /\ InOrder' /\ UNCHANGED request
           /\ \A d \in Clients : Passed(d) <= Passed(d)'
           /\ \A d \in Clients : peer[d] = "done" => peer'[d] = "done"
           /\ broken' \in {broken, broken + 1}
           /\ broken' = broken =>
                 /\ \A d \in Clients : Passed(d)' = Passed(d) \/ peer'[d] = "done"
                 /\ Fills \/ Gives \/ Rests => \A d \in Clients : Passed(d)' = Passed(d)
                 /\ NoJunk => NoJunk'
<1>0. \A d \in Clients : Passed(d) \in Int
  BY Positions
<1>1. TypeOK /\ TypeOK' /\ NoClient \notin Clients
  BY ServerAssumption DEF ServerInvariant, LinesInvariant
<1>2. broken \in Nat
  BY <1>1, ServerAssumption DEF TypeOK
<1>3. ASSUME UNCHANGED buffer PROVE NoJunk => NoJunk'
  BY <1>3 DEF NoJunk
<1>4. CASE Rests
  BY <1>0, <1>3, <1>4, NothingMoves DEF Rests
<1>5. CASE Gives
  <2>1. PICK s \in Slots, c \in Clients :
           conn[s] = NoClient /\ Unplaced(c) /\ conn' = [conn EXCEPT ![s] = c]
    BY <1>5 DEF Gives
  <2>2. UNCHANGED <<request, unsent, peer, inbox, buffer>> /\ broken' \in {broken, broken + 1}
    BY <1>5 DEF Gives
  <2>3. InOrder' /\ \A d \in Clients : Passed(d)' = Passed(d)
    BY <2>1, <2>2, GivingMoves
  <2>. QED  BY <1>0, <1>3, <2>2, <2>3
<1>6. CASE Empties /\ ~(Fills \/ Gives \/ Rests)
  <2>1. UNCHANGED <<request, unsent>>
    BY <1>6 DEF Empties
  <2>2. PICK s \in Slots : /\ buffer' = [buffer EXCEPT ![s] = <<>>]
                           /\ \/ Release(s) /\ UNCHANGED broken
                              \/ UNCHANGED <<conn, peer, inbox>> /\ broken' = broken + 1
    BY <1>6 DEF Empties
  <2>3. PICK c : c = conn[s]
    OBVIOUS
  <2>4. /\ InOrder'
        /\ \A d \in Clients : Passed(d) <= Passed(d)'
        /\ \A d \in Clients \ {c} : Passed(d)' = Passed(d)
    BY <2>1, <2>2, <2>3, EmptyingMoves
  <2>5. /\ \A d \in Clients : peer[d] = "done" => peer'[d] = "done"
        /\ broken' = broken => \A d \in Clients : d = c => peer'[d] = "done"
    BY <1>2, <2>2, <2>3 DEF Release
  <2>6. NoJunk => NoJunk'
    <3>1. buffer'[s] = <<>> /\ \A t \in Slots \ {s} : buffer'[t] = buffer[t]
      BY <1>1, <2>2 DEF TypeOK
    <3>2. Len(buffer'[s]) = 0
      BY <3>1, EmptySeq
    <3>. QED  BY <3>1, <3>2 DEF NoJunk
  <2>. QED  BY <1>6, <2>1, <2>2, <2>4, <2>5, <2>6
<1>7. CASE Fills
  <2>1. UNCHANGED <<request, unsent, peer, conn>>
    BY <1>7 DEF Fills
  <2>0. PICK s \in Slots : \E f \in Fetches(s) :
           Fetch(s, f) /\ buffer' = [buffer EXCEPT ![s] = f.bytes]
    BY <1>7 DEF Fills
  <2>2. PICK f \in Fetches(s) : Fetch(s, f) /\ buffer' = [buffer EXCEPT ![s] = f.bytes]
    BY <2>0
  <2>3. PICK c : c = conn[s]
    OBVIOUS
  <2>4. f.bytes \in Seq(Item) /\ (FoundOwn(s, f) \/ FoundOld(s, f) \/ FoundJunk(s, f))
    BY FetchFinds
  <2>5. PICK k \in {0, 1} : k = 0
    OBVIOUS
  <2>10. /\ Len(f.bytes) = Len(f.bytes) - k
         /\ \A i \in 1 .. Len(f.bytes) : f.bytes[i] = f.bytes[i + k]
    BY <2>4, <2>5, LenProperties
  <2>6. Advances(s, f, c, k)
    <3>1. f.bytes \in Seq(Item)
      BY <2>4
    <3>2. UNCHANGED <<request, unsent, conn>>
      BY <2>1
    <3>. QED  BY <2>2, <2>3, <2>10, <3>1, <3>2, FetchMoves
  <2>7. broken' \in {broken, broken + 1} /\ (broken' = broken => ~FoundJunk(s, f))
    BY <1>2, <2>2, <2>4 DEF Fetch, FoundOwn, FoundOld, FoundJunk
  <2>8. broken' = broken => \A d \in Clients : Passed(d)' = Passed(d)
    BY <1>0, <2>4, <2>5, <2>6, <2>7 DEF Advances
  <2>9. ASSUME broken' = broken, NoJunk PROVE NoJunk'
    <3>1. buffer'[s] = f.bytes /\ \A t \in Slots \ {s} : buffer'[t] = buffer[t]
      BY <1>1, <2>2 DEF TypeOK
    <3>2. \A i \in 1 .. Len(f.bytes) : f.bytes[i].from # NoClient
      BY <1>1, <2>4, <2>7, <2>9 DEF FoundOwn, FoundOld, NoJunk
    <3>. QED  BY <2>9, <3>1, <3>2 DEF NoJunk
  <2>. QED  BY <2>1, <2>6, <2>7, <2>8, <2>9 DEF Advances
<1>. QED  BY <1>4, <1>5, <1>6, <1>7

\* Junk that would call loop comes with a broken reply.
LEMMA JunkMoves ==
    ASSUME ServerInvariant, ServerInvariant', InOrder, IsFiniteSet(JunkSlots), OneJunkRefresh,
           \A j \in Junk : OneRefresh(j), Fills \/ Empties \/ Gives \/ Rests
    PROVE  /\ IsFiniteSet(JunkSlots') /\ OneJunkRefresh'
           /\ Cardinality(JunkSlots) \in Nat /\ Cardinality(JunkSlots') \in Nat
           /\ Cardinality(JunkSlots') + broken <= Cardinality(JunkSlots) + broken'
<1>1. TypeOK /\ TypeOK' /\ broken \in Nat /\ broken' \in Nat
  BY ServerAssumption DEF ServerInvariant, LinesInvariant, TypeOK
<1>2. CASE Fills
  <2>0. PICK s \in Slots : \E f \in Fetches(s) :
           Fetch(s, f) /\ buffer' = [buffer EXCEPT ![s] = f.bytes]
    BY <1>2 DEF Fills
  <2>1. PICK f \in Fetches(s) : Fetch(s, f) /\ buffer' = [buffer EXCEPT ![s] = f.bytes]
    BY <2>0
  <2>2. f.bytes \in Seq(Item) /\ Len(f.bytes) = Len(f.bytes) - 0
        /\ \A i \in 1 .. Len(f.bytes) : f.bytes[i] = f.bytes[i + 0]
    BY FetchFinds, LenProperties
  <2>. QED  BY <1>2, <2>1, <2>2, JunkAfterFetch DEF Fills
<1>3. CASE Empties \/ Gives \/ Rests
  <2>1. /\ broken' \in {broken, broken + 1}
        /\ UNCHANGED buffer \/ \E s \in Slots : buffer' = [buffer EXCEPT ![s] = <<>>]
    BY <1>3 DEF Empties, Gives, Rests
  <2>2. \A t \in Slots : buffer'[t] = buffer[t] \/ Len(buffer'[t]) = 0
    <3>1. \A t \in Slots : buffer'[t] = buffer[t] \/ buffer'[t] = <<>>
      BY <1>1, <2>1 DEF TypeOK
    <3>. QED  BY <3>1, EmptySeq
  <2>3. JunkSlots' = {t \in Slots : \E i \in 1 .. Len(buffer'[t]) : JunkRefresh(buffer'[t][i])}
    BY DEF JunkSlots, JunkRefresh
  <2>4. JunkSlots' \subseteq JunkSlots
    BY <2>2, <2>3 DEF JunkSlots
  <2>5. \A t \in Slots : \A i, j \in 1 .. Len(buffer'[t]) :
           JunkRefresh(buffer'[t][i]) /\ JunkRefresh(buffer'[t][j]) => i = j
    BY <2>2 DEF OneJunkRefresh
  <2>6. OneJunkRefresh'
    BY <2>5 DEF OneJunkRefresh, JunkRefresh
  <2>. QED  BY <1>1, <2>1, <2>4, <2>6, JunkNoMore
<1>. QED  BY <1>2, <1>3

\* The first of the bytes found is read, the others are kept.
Takes(s, f) ==
    /\ 1 \in 1 .. Len(f.bytes) /\ f.bytes[1] \in Item
    /\ Fetch(s, f) /\ UNCHANGED <<request, unsent, peer, conn>>
    /\ \E b \in Seq(Item) : /\ Len(b) = Len(f.bytes) - 1
                            /\ \A i \in 1 .. Len(b) : b[i] = f.bytes[i + 1]
                            /\ buffer' = [buffer EXCEPT ![s] = b]

\* What loop does with a byte.
Does(i) == IF i.token = "LF" /\ top.line.end = "" THEN Respond ELSE Execute(i)

\* Without a byte loop only looks again, with one it does what the byte says.
LEMMA ReadTakes ==
    ASSUME ServerInvariant, InOrder, Read
    PROVE  /\ stack # <<>> /\ top.at = "if" /\ top.sock \in Slots
           /\ \/ Fills /\ GoTo("while") /\ UNCHANGED <<answers, executed>>
              \/ \E f \in Fetches(top.sock) :
                    /\ Takes(top.sock, f)
                    /\ f.bytes[1].from \in {conn[top.sock], NoClient}
                    /\ Does(f.bytes[1])
<1>1. TypeOK /\ TopHolds /\ BuffersOwned
  BY DEF ServerInvariant, LinesInvariant
<1>2. /\ stack # <<>> /\ top.at = "if" /\ top.sock \in Slots
      /\ UNCHANGED <<request, unsent, peer, conn>>
  BY <1>1 DEF Read, At, TopHolds
<1>3. PICK f \in Fetches(top.sock) :
         /\ Fetch(top.sock, f)
         /\ IF f.bytes = <<>>
            THEN GoTo("while") /\ UNCHANGED <<answers, executed, buffer>>
            ELSE /\ IF Head(f.bytes).token = "LF" /\ top.line.end = ""
                    THEN Respond ELSE Execute(Head(f.bytes))
                 /\ buffer' = [buffer EXCEPT ![top.sock] = Tail(f.bytes)]
  BY DEF Read
<1>4. f.bytes \in Seq(Item) /\ Owned(top.sock, f.bytes)
  BY <1>1, <1>2, FetchOwned
<1>5. CASE f.bytes = <<>>
  <2>1. GoTo("while") /\ UNCHANGED <<answers, executed, buffer>>
    BY <1>3, <1>5
  <2>2. buffer[top.sock] = f.bytes
    BY <1>5 DEF Fetches
  <2>3. buffer' = [buffer EXCEPT ![top.sock] = f.bytes]
    BY <1>1, <2>1, <2>2 DEF TypeOK
  <2>. QED  BY <1>2, <1>3, <2>1, <2>3 DEF Fills
<1>6. CASE f.bytes # <<>>
  <2>1. /\ Head(f.bytes) = f.bytes[1] /\ Tail(f.bytes) \in Seq(Item)
        /\ Len(Tail(f.bytes)) = Len(f.bytes) - 1
        /\ \A i \in 1 .. Len(Tail(f.bytes)) : Tail(f.bytes)[i] = f.bytes[i + 1]
    BY <1>4, <1>6, HeadTailProperties
  <2>2. Len(f.bytes) \in Nat \ {0} /\ DOMAIN f.bytes = 1 .. Len(f.bytes)
    BY <1>4, <1>6, EmptySeq, LenProperties
  <2>3. 1 \in 1 .. Len(f.bytes)
    BY <2>2
  <2>4. f.bytes[1] \in Item /\ f.bytes[1].from \in {conn[top.sock], NoClient}
    BY <1>4, <2>2, <2>3, ElementOfSeq DEF Owned
  <2>5. /\ buffer' = [buffer EXCEPT ![top.sock] = Tail(f.bytes)]
        /\ Does(f.bytes[1])
    BY <1>3, <1>6, <2>1 DEF Does
  <2>6. Takes(top.sock, f)
    BY <1>2, <1>3, <2>1, <2>3, <2>4, <2>5 DEF Takes
  <2>. QED  BY <1>2, <2>4, <2>5, <2>6
<1>. QED  BY <1>5, <1>6

LEMMA TakeMoves ==
    ASSUME ServerInvariant, ServerInvariant', InOrder, NEW s \in Slots, NEW f \in Fetches(s),
           Takes(s, f), NEW c, c = conn[s]
    PROVE  /\ Advances(s, f, c, 1)
           /\ FoundOwn(s, f) \/ FoundOld(s, f) \/ FoundJunk(s, f)
<1>1. PICK b \in Seq(Item) : /\ Len(b) = Len(f.bytes) - 1
                             /\ \A i \in 1 .. Len(b) : b[i] = f.bytes[i + 1]
                             /\ buffer' = [buffer EXCEPT ![s] = b]
  BY DEF Takes
<1>2. Fetch(s, f) /\ UNCHANGED <<request, unsent, conn>> /\ 1 \in {0, 1}
  BY DEF Takes
<1>3. Advances(s, f, c, 1)
  BY <1>1, <1>2, FetchMoves
<1>. QED  BY <1>3, FetchFinds

LEMMA TakeJunk ==
    ASSUME ServerInvariant, ServerInvariant', InOrder, IsFiniteSet(JunkSlots), OneJunkRefresh,
           \A j \in Junk : OneRefresh(j), NEW s \in Slots, NEW f \in Fetches(s), Takes(s, f)
    PROVE  /\ IsFiniteSet(JunkSlots') /\ OneJunkRefresh'
           /\ Cardinality(JunkSlots) \in Nat /\ Cardinality(JunkSlots') \in Nat
           /\ Cardinality(JunkSlots') + broken <= Cardinality(JunkSlots) + broken'
           /\ JunkRefresh(f.bytes[1])
                 => Cardinality(JunkSlots') + broken + 1 <= Cardinality(JunkSlots) + broken'
<1>1. PICK b \in Seq(Item) : /\ Len(b) = Len(f.bytes) - 1
                             /\ \A i \in 1 .. Len(b) : b[i] = f.bytes[i + 1]
                             /\ buffer' = [buffer EXCEPT ![s] = b]
  BY DEF Takes
<1>2. Fetch(s, f) /\ UNCHANGED conn /\ 1 \in {0, 1}
  BY DEF Takes
<1>. QED  BY <1>1, <1>2, JunkAfterFetch

-----------------------------------------------------------------------------
(* The nesting invariant *)

\* A step keeps it if what it adds to the nesting is taken from what is waiting.
LEMMA NestingStep ==
    ASSUME NestingInvariant, ServerInvariant', InOrder', IsFiniteSet(Clients),
           UNCHANGED request, \A d \in Clients : Passed(d) <= Passed(d)',
           IsFiniteSet(JunkSlots'), OneJunkRefresh', LineCleared',
           Depth' + Cardinality(Waiting') + Cardinality(JunkSlots') + broken
              <= Depth + Cardinality(Waiting) + Cardinality(JunkSlots) + broken'
    PROVE  NestingInvariant'
<1>1. /\ ServerInvariant /\ TypeOK /\ TypeOK' /\ IsFiniteSet(JunkSlots)
      /\ Depth + Cardinality(Waiting) + Cardinality(JunkSlots) <= broken + Cardinality(Refreshers)
  BY DEF NestingInvariant, ServerInvariant, LinesInvariant
<1>2. broken \in Nat /\ broken' \in Nat
  BY <1>1, ServerAssumption DEF TypeOK
<1>3. Depth \in Nat /\ Depth' \in Nat
  BY <1>1, DepthTyped, DepthTypedNext
<1>4. Cardinality(Waiting) \in Nat /\ Cardinality(Waiting') \in Nat
  BY <1>1, WaitingNoMore
<1>5. Cardinality(JunkSlots) \in Nat /\ Cardinality(JunkSlots') \in Nat
  BY <1>1, FS_CardinalityType
<1>6. Refreshers' = Refreshers
  BY DEF Refreshers
<1>7. Cardinality(Refreshers) \in Nat
  BY FS_Subset, FS_CardinalityType DEF Refreshers
<1>8. Depth' + Cardinality(Waiting') + Cardinality(JunkSlots')
        <= broken' + Cardinality(Refreshers)
  BY <1>1, <1>2, <1>3, <1>4, <1>5, <1>7
<1>9. Depth' + Cardinality(Waiting') + Cardinality(JunkSlots')
        <= broken' + Cardinality(Refreshers')
  BY <1>6, <1>8
<1>. QED  BY <1>9 DEF NestingInvariant

LEMMA NestingServe ==
    ASSUME NestingInvariant, ServerInvariant', IsFiniteSet(Clients),
           \A j \in Junk : OneRefresh(j), Fills \/ Empties \/ Gives \/ Rests,
           LineCleared', Depth' <= Depth
    PROVE  NestingInvariant'
<1>1. ServerInvariant /\ InOrder /\ IsFiniteSet(JunkSlots) /\ OneJunkRefresh
      /\ TypeOK /\ TypeOK'
  BY DEF NestingInvariant, ServerInvariant, LinesInvariant
<1>2. /\ InOrder' /\ UNCHANGED request /\ \A d \in Clients : Passed(d) <= Passed(d)'
  BY <1>1, BytesMove
<1>3. /\ IsFiniteSet(JunkSlots') /\ OneJunkRefresh'
      /\ Cardinality(JunkSlots) \in Nat /\ Cardinality(JunkSlots') \in Nat
      /\ Cardinality(JunkSlots') + broken <= Cardinality(JunkSlots) + broken'
  BY <1>1, JunkMoves
<1>4. /\ Cardinality(Waiting) \in Nat /\ Cardinality(Waiting') \in Nat
      /\ Cardinality(Waiting') <= Cardinality(Waiting)
  BY <1>1, <1>2, WaitingNoMore
<1>5. broken \in Nat /\ broken' \in Nat /\ Depth \in Nat /\ Depth' \in Nat
  BY <1>1, ServerAssumption, DepthTyped, DepthTypedNext DEF TypeOK
<1>6. Depth' + Cardinality(Waiting') + Cardinality(JunkSlots') + broken
        <= Depth + Cardinality(Waiting) + Cardinality(JunkSlots) + broken'
  BY <1>3, <1>4, <1>5
<1>. QED  BY <1>1, <1>2, <1>3, <1>6, NestingStep

\* A byte that is read.  It is a refresh that enters loop once more: of a request whose
\* refresh was waiting, or junk.
LEMMA NestingTake ==
    ASSUME NestingInvariant, ServerInvariant', IsFiniteSet(Clients),
           \A j \in Junk : OneRefresh(j), \A r \in Requests : OneRefresh(r),
           stack # <<>>, top.sock \in Slots, NEW f \in Fetches(top.sock), Takes(top.sock, f),
           f.bytes[1].from \in {conn[top.sock], NoClient},
           Respond \/ Execute(f.bytes[1])
    PROVE  NestingInvariant'
<1> DEFINE s == top.sock
           i == f.bytes[1]
<1>1. /\ ServerInvariant /\ InOrder /\ IsFiniteSet(JunkSlots) /\ OneJunkRefresh /\ LineCleared
      /\ TypeOK /\ TypeOK' /\ OuterWaits /\ TopHolds /\ NoClient \notin Clients /\ NoSlot \notin Slots
  BY ServerAssumption DEF NestingInvariant, ServerInvariant, LinesInvariant
<1>2. PICK c : c = conn[s]
  OBVIOUS
<1>3. /\ Advances(s, f, c, 1)
      /\ FoundOwn(s, f) \/ FoundOld(s, f) \/ FoundJunk(s, f)
  BY <1>1, <1>2, TakeMoves
<1>4. /\ InOrder' /\ \A d \in Clients : Passed(d) <= Passed(d)'
      /\ FoundOwn(s, f) => Passed(c)' = Passed(c) + 1
  BY <1>3 DEF Advances
<1>5. /\ IsFiniteSet(JunkSlots') /\ OneJunkRefresh'
      /\ Cardinality(JunkSlots) \in Nat /\ Cardinality(JunkSlots') \in Nat
      /\ Cardinality(JunkSlots') + broken <= Cardinality(JunkSlots) + broken'
      /\ JunkRefresh(i) => Cardinality(JunkSlots') + broken + 1 <= Cardinality(JunkSlots) + broken'
  BY <1>1, TakeJunk
<1>6. UNCHANGED <<request, conn>> /\ i \in Item /\ 1 \in 1 .. Len(f.bytes)
  BY DEF Takes
<1>7. /\ Cardinality(Waiting) \in Nat /\ Cardinality(Waiting') \in Nat
      /\ Cardinality(Waiting') <= Cardinality(Waiting)
  BY <1>1, <1>4, <1>6, WaitingNoMore
<1>8. /\ broken \in Nat /\ broken' \in Nat /\ Depth \in Nat /\ Depth' \in Nat
      /\ Len(stack) \in Nat /\ Depth = Len(stack) - 1
      /\ stack' # <<>> => Len(stack') \in Nat /\ Depth' = Len(stack') - 1
  BY <1>1, ServerAssumption, DepthTyped, DepthTypedNext DEF TypeOK
<1>9. EmptyLine.end = "" /\ EmptyLine' = EmptyLine /\ Started.line = EmptyLine
  BY DEF EmptyLine, Started
<1>0. ASSUME LineCleared',
             Depth' + Cardinality(Waiting') + Cardinality(JunkSlots') + broken
                <= Depth + Cardinality(Waiting) + Cardinality(JunkSlots) + broken'
      PROVE  NestingInvariant'
  <2>1. UNCHANGED request
    BY <1>6
  <2>. QED  BY <1>0, <1>4, <1>5, <2>1, NestingStep
<1>10. CASE Respond
  <2>1. GoTo("stop")
    BY <1>10 DEF Respond
  <2>2. stack' # <<>> /\ Len(stack') = Len(stack) /\ top'.line = top.line
    BY <1>1, <2>1, GoesTo DEF Places
  <2>3. LineCleared'
    BY <1>1, <2>2 DEF LineCleared
  <2>4. Depth' = Depth
    BY <1>8, <2>2
  <2>5. Depth' + Cardinality(Waiting') + Cardinality(JunkSlots') + broken
          <= Depth + Cardinality(Waiting) + Cardinality(JunkSlots) + broken'
    <3>1. /\ Cardinality(JunkSlots) \in Nat /\ Cardinality(JunkSlots') \in Nat
          /\ Cardinality(JunkSlots') + broken <= Cardinality(JunkSlots) + broken'
      BY <1>5
    <3>2. broken \in Nat /\ broken' \in Nat /\ Depth \in Nat
      BY <1>8
    <3>. QED  BY <1>7, <2>4, <3>1, <3>2, SMTT(60)
  <2>. QED  BY <1>0, <2>3, <2>5
<1>11. CASE Execute(i)
  <2>1. top.line.from \in {c, NoClient}
    BY <1>1, <1>2 DEF TopHolds
  <2>2. /\ stack' # <<>>
        /\ IF ServesAgain(LineAfter(i))
           THEN Len(stack') = Len(stack) + 1 /\ top' = Started
           ELSE Len(stack') = Len(stack) /\ top'.line = LineAfter(i)
    BY <1>1, <1>2, <1>6, <1>11, <2>1, Executed
  <2>3. CASE ~ServesAgain(LineAfter(i))
    <3>1. LineCleared'
      BY <2>2, <2>3 DEF LineCleared, ServesAgain
    <3>2. Depth' = Depth
      BY <1>8, <2>2, <2>3
    <3>3. Depth' + Cardinality(Waiting') + Cardinality(JunkSlots') + broken
            <= Depth + Cardinality(Waiting) + Cardinality(JunkSlots) + broken'
      <4>1. /\ Cardinality(JunkSlots) \in Nat /\ Cardinality(JunkSlots') \in Nat
            /\ Cardinality(JunkSlots') + broken <= Cardinality(JunkSlots) + broken'
        BY <1>5
      <4>2. broken \in Nat /\ broken' \in Nat /\ Depth \in Nat
        BY <1>8
      <4>. QED  BY <1>7, <3>2, <4>1, <4>2, SMTT(60)
    <3>. QED  BY <1>0, <3>1, <3>3
  <2>4. CASE ServesAgain(LineAfter(i))
    <3>1. LineCleared'
      BY <1>9, <2>2, <2>4 DEF LineCleared
    <3>2. Depth' = Depth + 1
      BY <1>8, <2>2, <2>4
    <3>3. i.token = "refresh"
      BY <1>1, <1>9, <2>4 DEF ServesAgain, LineAfter, LineCleared
    <3>4. \/ Cardinality(Waiting') + 1 <= Cardinality(Waiting)
          \/ Cardinality(JunkSlots') + broken + 1 <= Cardinality(JunkSlots) + broken'
      <4>1. CASE FoundOwn(s, f)
        <5>1. /\ c \in Clients
              /\ Passed(c) + Len(f.bytes) \in {Sent(c), Fetched(c)}
              /\ request[c][Passed(c) + 1] = "refresh"
          BY <1>2, <1>6, <3>3, <4>1 DEF FoundOwn
        <5>2. /\ Passed(c) \in Int /\ Sent(c) \in Int /\ Fetched(c) \in Int
              /\ Fetched(c) <= Sent(c) /\ Sent(c) <= Len(request[c]) /\ Len(request[c]) \in Nat
          BY <1>1, <5>1, Positions
        <5>3. Len(f.bytes) \in Nat /\ 1 <= Len(f.bytes)
          <6>1. f.bytes \in Seq(Item)
            BY <1>1, FetchFinds
          <6>. QED  BY <1>6, <6>1, LenProperties
        <5>4. Passed(c) < Len(request[c])
          BY <5>1, <5>2, <5>3
        <5>5. OneRefresh(request[c])
          BY <1>1, <5>1 DEF TypeOK
        <5>. QED  BY <1>1, <1>4, <1>6, <4>1, <5>1, <5>4, <5>5, WaitingLess
      <4>2. CASE FoundOld(s, f)
        <5>1. i.from = NoClient
          BY <1>6, <4>2 DEF FoundOld, OnlyJunk
        <5>. QED  BY <1>5, <3>3, <5>1 DEF JunkRefresh
      <4>3. CASE FoundJunk(s, f)
        <5>1. i.from = NoClient
          BY <1>6, <4>3 DEF FoundJunk
        <5>. QED  BY <1>5, <3>3, <5>1 DEF JunkRefresh
      <4>. QED  BY <1>3, <4>1, <4>2, <4>3
    <3>5. Depth' + Cardinality(Waiting') + Cardinality(JunkSlots') + broken
            <= Depth + Cardinality(Waiting) + Cardinality(JunkSlots) + broken'
      <4>1. /\ Cardinality(JunkSlots) \in Nat /\ Cardinality(JunkSlots') \in Nat
            /\ Cardinality(JunkSlots') + broken <= Cardinality(JunkSlots) + broken'
        BY <1>5
      <4>2. broken \in Nat /\ broken' \in Nat /\ Depth \in Nat
        BY <1>8
      <4>3. CASE Cardinality(Waiting') + 1 <= Cardinality(Waiting)
        BY <1>7, <3>2, <4>1, <4>2, <4>3
      <4>4. CASE Cardinality(JunkSlots') + broken + 1 <= Cardinality(JunkSlots) + broken'
        BY <1>7, <3>2, <4>1, <4>2, <4>4
      <4>. QED  BY <3>4, <4>3, <4>4
    <3>. QED  BY <1>0, <3>1, <3>5
  <2>. QED  BY <2>3, <2>4
<1>. QED  BY <1>10, <1>11

LEMMA NestingKept ==
    ASSUME NestingInvariant, [Next]_vars, IsFiniteSet(Clients),
           \A j \in Junk : OneRefresh(j), \A r \in Requests : OneRefresh(r)
    PROVE  NestingInvariant'
<1>1. /\ ServerInvariant /\ InOrder /\ IsFiniteSet(JunkSlots) /\ OneJunkRefresh /\ LineCleared
      /\ TypeOK /\ ServerInvariant'
  BY ServerInvariantKept DEF NestingInvariant, ServerInvariant, LinesInvariant
<1>2. EmptyLine.end = "" /\ EmptyLine' = EmptyLine
  BY DEF EmptyLine
<1>3. ASSUME stack # <<>>, Moved PROVE LineCleared' /\ Depth' <= Depth
  BY <1>1, <1>2, <1>3, MovedTop DEF LineCleared
<1>4. ASSUME UNCHANGED stack PROVE LineCleared' /\ Depth' <= Depth
  <2>1. Depth' = Depth /\ top' = top /\ Depth \in Nat
    BY <1>1, <1>4, DepthTyped DEF Depth, top
  <2>. QED  BY <1>1, <1>4, <2>1 DEF LineCleared
<1>5. CASE UNCHANGED vars
  <2>1. Rests /\ UNCHANGED stack
    BY <1>5 DEF vars, Rests
  <2>. QED  BY <1>1, <1>4, <2>1, NestingServe
<1>6. ASSUME NEW c \in Clients, Connect(c) \/ Close(c) PROVE NestingInvariant'
  <2>1. Rests /\ UNCHANGED stack
    BY <1>1, <1>6 DEF Connect, Close, Rests, TypeOK
  <2>. QED  BY <1>1, <1>4, <2>1, NestingServe
<1>7. ASSUME NEW c \in Clients, Send(c) PROVE NestingInvariant'
  <2>1. InOrder' /\ \A d \in Clients : Passed(d)' = Passed(d)
    BY <1>1, <1>7, SendMoves
  <2>2. UNCHANGED <<request, conn, buffer, stack, broken>>
    BY <1>7 DEF Send
  <2>3. JunkSlots' = JunkSlots /\ OneJunkRefresh'
    BY <1>1, <2>2 DEF JunkSlots, JunkRefresh, OneJunkRefresh
  <2>4. Waiting' = Waiting
    BY <2>1, <2>2 DEF Waiting
  <2>5. LineCleared' /\ Depth' = Depth
    BY <1>4, <2>2 DEF Depth
  <2>6. \A d \in Clients : Passed(d) <= Passed(d)'
    <3>1. \A d \in Clients : Passed(d) \in Int
      BY <1>1, Positions
    <3>. QED  BY <2>1, <3>1
  <2>7. Refreshers' = Refreshers
    BY <2>2 DEF Refreshers
  <2>. QED
    BY <1>1, <2>1, <2>2, <2>3, <2>4, <2>5, <2>7 DEF NestingInvariant
<1>8. CASE Callback
  <2>1. Rests /\ stack' = <<Started>>
    BY <1>8 DEF Callback, Rests
  <2>2. stack' # <<>> /\ Len(stack') = 1 /\ stack'[1] = Started
    BY <2>1, EmptySeq
  <2>3. LineCleared'
    <3>1. top' = Started
      BY <2>2 DEF top
    <3>2. Started.line = EmptyLine
      BY DEF Started
    <3>3. top'.line.end = ""
      BY <1>2, <3>1, <3>2
    <3>. QED  BY <3>3 DEF LineCleared
  <2>4. Depth' = 0 /\ Depth \in Nat
    BY <1>1, <2>2, DepthTyped DEF Depth
  <2>5. Depth' <= Depth
    BY <2>4
  <2>. QED  BY <1>1, <2>1, <2>3, <2>5, NestingServe
<1>9. CASE \/ ServerAvailable \/ LastSockStatus \/ LastSockAgain \/ AvailServer
           \/ Connected \/ ConnectedStatus \/ Stop
  BY <1>1, <1>3, <1>9, ServeBytes, ServeMoves, NestingServe
<1>10. CASE Read
  <2>1. /\ stack # <<>> /\ top.at = "if" /\ top.sock \in Slots
        /\ \/ Fills /\ GoTo("while") /\ UNCHANGED <<answers, executed>>
           \/ \E f \in Fetches(top.sock) :
                 /\ Takes(top.sock, f)
                 /\ f.bytes[1].from \in {conn[top.sock], NoClient}
                 /\ Does(f.bytes[1])
    BY <1>1, <1>10, ReadTakes
  <2>2. CASE Fills /\ GoTo("while")
    <3>1. Moved
      BY <2>2 DEF Moved, Places
    <3>. QED  BY <1>1, <1>3, <2>1, <2>2, <3>1, NestingServe
  <2>3. ASSUME NEW f \in Fetches(top.sock), Takes(top.sock, f),
               f.bytes[1].from \in {conn[top.sock], NoClient},
               Does(f.bytes[1])
        PROVE  NestingInvariant'
    BY <1>1, <2>1, <2>3, NestingTake DEF Does
  <2>. QED  BY <2>1, <2>2, <2>3
<1>. QED  BY <1>5, <1>6, <1>7, <1>8, <1>9, <1>10 DEF Next, Serve

\* Nothing was sent at first.
LEMMA NothingPassed ==
    ASSUME Init
    PROVE  /\ ServerInvariant /\ InOrder
           /\ \A c \in Clients : Passed(c) = 0
           /\ \A s \in Slots : Len(buffer[s]) = 0
<1>1. ServerInvariant
  BY ServerInvariantInit
<1>2. \A s \in Slots : buffer[s] = <<>> /\ Len(buffer[s]) = 0 /\ OnlyJunk(s)
  BY EmptySeq, EmptyJunk DEF Init
<1>3. ASSUME NEW c \in Clients PROVE RequestInOrder(c) /\ Passed(c) = 0
  <2> DEFINE r == request[c]
  <2>1. unsent[c] = r /\ inbox[c] = <<>> /\ Len(inbox[c]) = 0
    BY EmptySeq DEF Init
  <2>2. Held(c) = 0
    BY <1>2, HeldNone
  <2>3. Len(r) \in Nat
    BY <1>1, Positions
  <2> HIDE DEF r
  <2>4. Sent(c) = 0
    <3>1. Sent(c) = Len(r) - Len(r)
      BY <2>1 DEF Sent, r
    <3>. QED  BY <2>3, <3>1
  <2>5. Fetched(c) = 0 /\ Passed(c) = 0
    <3>1. Fetched(c) = Sent(c) - Len(inbox[c]) /\ Passed(c) = Fetched(c) - Held(c)
      BY DEF Fetched, Passed
    <3>2. Fetched(c) = 0
      BY <2>1, <2>4, <3>1
    <3>. QED  BY <2>2, <3>1, <3>2
  <2>6. \A i \in 1 .. Len(r) : 0 + i = i
    BY <2>3
  <2>. QED  BY <2>1, <2>4, <2>5, <2>6 DEF RequestInOrder, r
<1>. QED  BY <1>1, <1>2, <1>3 DEF InOrder, BufferInOrder

LEMMA NestingInit == Init /\ IsFiniteSet(Clients) => NestingInvariant
<1> SUFFICES ASSUME Init, IsFiniteSet(Clients) PROVE NestingInvariant
  OBVIOUS
<1>1. /\ ServerInvariant /\ InOrder
      /\ \A c \in Clients : Passed(c) = 0
      /\ \A s \in Slots : Len(buffer[s]) = 0
  BY NothingPassed
<1>2. JunkSlots = {} /\ OneJunkRefresh
  BY <1>1 DEF JunkSlots, OneJunkRefresh
<1>3. LineCleared /\ Depth = 0 /\ broken = 0
  BY DEF Init, LineCleared, Depth
<1>4. Waiting \subseteq Refreshers
  <2>1. ASSUME NEW c \in Clients, NEW p \in 1 .. Len(request[c]), request[c][p] = "refresh"
        PROVE  Contains(request[c], "refresh")
    <3>1. request[c] \in Seq(Tokens)
      BY <1>1, Positions
    <3>2. DOMAIN request[c] = 1 .. Len(request[c])
      BY <3>1, LenProperties
    <3>. QED  BY <2>1, <3>2 DEF Contains
  <2>. QED  BY <2>1 DEF Waiting, Refreshers
<1>5. /\ IsFiniteSet(Refreshers) /\ IsFiniteSet(Waiting)
      /\ Cardinality(Waiting) <= Cardinality(Refreshers)
  <2>1. IsFiniteSet(Refreshers)
    BY FS_Subset DEF Refreshers
  <2>. QED  BY <1>4, <2>1, FS_Subset
<1>6. Cardinality(Refreshers) \in Nat /\ Cardinality(Waiting) \in Nat
  BY <1>5, FS_CardinalityType
<1>7. IsFiniteSet(JunkSlots) /\ Cardinality(JunkSlots) = 0
  BY <1>2, FS_EmptySet
<1>8. Depth + Cardinality(Waiting) + Cardinality(JunkSlots) <= broken + Cardinality(Refreshers)
  BY <1>3, <1>5, <1>6, <1>7
<1>. QED  BY <1>1, <1>2, <1>3, <1>7, <1>8 DEF NestingInvariant

\* loop enters itself for requests and broken replies only: the activations that a
\* refresh entered, the requests whose refresh was not read, and the slots with a refresh
\* that is junk are at most as many as there are requests for /refresh and broken replies.
THEOREM Nesting ==
    ASSUME IsFiniteSet(Clients),
           \A r \in Requests : OneRefresh(r), \A j \in Junk : OneRefresh(j)
    PROVE  Spec => []NestingInvariant
<1>1. Init => NestingInvariant
  BY NestingInit
<1>2. NestingInvariant /\ [Next]_vars => NestingInvariant'
  BY NestingKept
<1>. QED  BY <1>1, <1>2, PTL DEF Spec

\* The stack of the microcontroller holds: the activations of loop nest only as deep as
\* there are requests for /refresh and broken replies, with any number of clients on any
\* number of slots and however their bytes arrive.
THEOREM NestsBoundedly ==
    ASSUME IsFiniteSet(Clients),
           \A r \in Requests : OneRefresh(r), \A j \in Junk : OneRefresh(j)
    PROVE  Spec => []NestingBounded
<1>1. ASSUME NestingInvariant PROVE NestingBounded
  <2>1. /\ TypeOK /\ ServerInvariant /\ IsFiniteSet(JunkSlots)
        /\ Depth + Cardinality(Waiting) + Cardinality(JunkSlots)
             <= broken + Cardinality(Refreshers)
    BY <1>1 DEF NestingInvariant, ServerInvariant, LinesInvariant
  <2>2. /\ Cardinality(JunkSlots) \in Nat /\ Depth \in Nat
        /\ broken \in Nat /\ IsFiniteSet(Waiting) /\ IsFiniteSet(Refreshers)
    <3>1. IsFiniteSet(Waiting) /\ IsFiniteSet(Refreshers)
      BY FS_Subset DEF Waiting, Refreshers
    <3>. QED  BY <2>1, <3>1, ServerAssumption, DepthTyped, FS_CardinalityType DEF TypeOK
  <2>3. Cardinality(Waiting) \in Nat /\ Cardinality(Refreshers) \in Nat
    BY <2>2, FS_CardinalityType
  <2>4. Depth <= broken + Cardinality(Refreshers)
    BY <2>1, <2>2, <2>3
  <2>5. Len(stack) <= 1 + broken + Cardinality(Refreshers)
    <3>1. CASE stack = <<>>
      <4>1. Len(stack) = 0
        BY <3>1, EmptySeq
      <4>. QED  BY <2>2, <2>3, <4>1
    <3>2. CASE stack # <<>>
      <4>1. Len(stack) \in Nat /\ Depth = Len(stack) - 1
        BY <2>1, <3>2, DepthTyped
      <4>. QED  BY <2>2, <2>3, <2>4, <4>1
    <3>. QED  BY <3>1, <3>2
  <2>. QED  BY <2>5 DEF NestingBounded, Refreshers
<1>2. NestingInvariant => NestingBounded
  BY <1>1
<1>. QED  BY <1>2, Nesting, PTL

-----------------------------------------------------------------------------
(* Commands are carried out once *)

LEMMA ToggledTyped ==
    ASSUME NEW r, NEW k \in Nat
    PROVE  IsFiniteSet({i \in 1 .. k : r[i] \in Toggles}) /\ Toggled(r, k) \in Nat
<1>1. IsFiniteSet(1 .. k)
  BY FS_Interval
<1>2. IsFiniteSet({i \in 1 .. k : r[i] \in Toggles})
  BY <1>1, FS_Subset
<1>. QED  BY <1>2, FS_CardinalityType DEF Toggled

LEMMA ToggledMore ==
    ASSUME NEW r, NEW k \in Nat
    PROVE  Toggled(r, k + 1) = IF r[k + 1] \in Toggles THEN Toggled(r, k) + 1 ELSE Toggled(r, k)
<1> DEFINE T(n) == {i \in 1 .. n : r[i] \in Toggles}
<1>1. IsFiniteSet(T(k)) /\ k + 1 \notin T(k)
  BY ToggledTyped
<1>2. T(k + 1) = IF r[k + 1] \in Toggles THEN T(k) \cup {k + 1} ELSE T(k)
  <2>1. 1 .. k + 1 = (1 .. k) \cup {k + 1}
    OBVIOUS
  <2>. QED  BY <2>1
<1>3. Cardinality(T(k) \cup {k + 1}) = Cardinality(T(k)) + 1
  BY <1>1, FS_AddElement
<1>. QED  BY <1>2, <1>3 DEF Toggled

LEMMA ToggledAll ==
    ASSUME NEW r \in Seq(Tokens), NEW k \in Nat, k <= Len(r)
    PROVE  /\ Toggled(r, k) <= Commanded(r)
           /\ (\A j \in 1 .. Len(r) : r[j] \in Toggles => j <= k) => Toggled(r, k) = Commanded(r)
<1> DEFINE T == {i \in 1 .. k : r[i] \in Toggles}
           U == {i \in DOMAIN r : r[i] \in Toggles}
<1>1. Len(r) \in Nat /\ DOMAIN r = 1 .. Len(r)
  BY LenProperties
<1>2. T \subseteq U
  BY <1>1
<1>3. IsFiniteSet(U)
  <2>1. IsFiniteSet(DOMAIN r)
    BY <1>1, FS_Interval
  <2>. QED  BY <2>1, FS_Subset
<1>4. Cardinality(T) <= Cardinality(U)
  BY <1>2, <1>3, FS_Subset
<1>5. (\A j \in 1 .. Len(r) : r[j] \in Toggles => j <= k) => T = U
  BY <1>1, <1>2
<1>. QED  BY <1>4, <1>5 DEF Toggled, Commanded

\* A step other than Read keeps the line with the client's position, or has no line.
LEMMA ServeLine ==
    ASSUME ServerInvariant, ServerInvariant',
           \/ ServerAvailable \/ LastSockStatus \/ LastSockAgain \/ AvailServer
           \/ Connected \/ ConnectedStatus \/ Stop
    PROVE  stack' # <<>> =>
              \/ top'.line = EmptyLine \/ top'.sock = NoSlot
              \/ /\ stack # <<>> /\ top'.line = top.line /\ top'.sock = top.sock
                 /\ UNCHANGED conn /\ (Fills \/ Rests)
<1>1. /\ TypeOK /\ TopHolds /\ OuterWaits
  BY DEF ServerInvariant, LinesInvariant
<1>2. stack # <<>> /\ (stack' # <<>> => top'.line = EmptyLine \/ (top'.line = top.line /\ ~Return))
  BY ServeMoves, MovedTop
<1>3. CASE ServerAvailable \/ LastSockStatus \/ LastSockAgain \/ AvailServer
  <2>1. top.at \in Fresh
    BY <1>3 DEF ServerAvailable, LastSockStatus, LastSockAgain, AvailServer, At, Fresh
  <2>. QED  BY <1>1, <1>2, <2>1 DEF TopHolds
<1>4. CASE Connected
  <2>1. \E p \in Places : GoTo(p)
    BY <1>4 DEF Connected, Places
  <2>2. top'.sock = top.sock /\ top'.line = top.line
    BY <1>1, <1>2, <2>1, GoesTo
  <2>3. UNCHANGED conn
    BY <1>4 DEF Connected
  <2>4. CASE top.sock = NoSlot
    BY <2>2, <2>4
  <2>5. CASE top.sock # NoSlot
    <3>1. top.sock \in Slots
      BY <1>1, <1>2, <2>5, TopTyped
    <3>2. Fills
      BY <1>4, <2>5, <3>1 DEF Connected, Fills
    <3>. QED  BY <1>2, <2>2, <2>3, <3>2
  <2>. QED  BY <2>4, <2>5
<1>5. CASE ConnectedStatus
  <2>1. \/ GoTo("if") /\ Rests /\ UNCHANGED conn
        \/ LoseClient
    BY <1>5 DEF ConnectedStatus, Rests
  <2>2. CASE LoseClient
    BY <1>1, <1>2, <2>2, LosesClient
  <2>3. CASE GoTo("if") /\ Rests /\ UNCHANGED conn
    <3>1. top'.sock = top.sock /\ top'.line = top.line
      BY <1>1, <1>2, <2>3, GoesTo DEF Places
    <3>. QED  BY <1>2, <2>3, <3>1
  <2>. QED  BY <2>1, <2>2, <2>3
<1>6. CASE Stop
  BY <1>2, <1>6 DEF Stop
<1>. QED  BY <1>3, <1>4, <1>5, <1>6

\* Where no command is read the counts stay.
LEMMA CountStep ==
    ASSUME CountInvariant, ServerInvariant', Fills \/ Empties \/ Gives \/ Rests,
           UNCHANGED <<executed, answers>>,
           stack' # <<>> =>
              \/ top'.line = EmptyLine \/ top'.sock = NoSlot
              \/ /\ stack # <<>> /\ top'.line = top.line /\ top'.sock = top.sock
                 /\ UNCHANGED conn /\ (Fills \/ Rests)
    PROVE  CountInvariant'
<1>1. ServerInvariant /\ InOrder /\ TypeOK /\ (broken = 0 => Counts)
  BY DEF CountInvariant, ServerInvariant, LinesInvariant
<1>2. /\ InOrder' /\ UNCHANGED request
      /\ \A d \in Clients : peer[d] = "done" => peer'[d] = "done"
      /\ broken' \in {broken, broken + 1}
      /\ broken' = broken =>
            /\ \A d \in Clients : Passed(d)' = Passed(d) \/ peer'[d] = "done"
            /\ Fills \/ Gives \/ Rests => \A d \in Clients : Passed(d)' = Passed(d)
            /\ NoJunk => NoJunk'
  BY <1>1, BytesMove
<1>3. ASSUME broken' = 0 PROVE Counts'
  <2>1. broken = 0 /\ broken' = broken
    <3>1. broken \in Nat
      BY <1>1, ServerAssumption DEF TypeOK
    <3>. QED  BY <1>2, <1>3, <3>1
  <2>2. NoJunk'
    BY <1>1, <1>2, <2>1 DEF Counts
  <2>3. \A d \in Clients : peer'[d] # "done" => executed'[d] = Toggled(request'[d], Passed(d)')
    BY <1>1, <1>2, <2>1 DEF Counts
  <2>4. \A d \in Clients : /\ executed'[d] <= Commanded(request'[d])
                           /\ answers'[d] = 1 => executed'[d] = Commanded(request'[d])
    BY <1>1, <1>2, <2>1 DEF Counts
  <2>5. LineCounted'
    <3> SUFFICES ASSUME stack' # <<>>, top'.sock \in Slots, top'.line.end \in Toggles
                 PROVE  \E c \in Clients : /\ conn'[top'.sock] = c /\ 1 <= Passed(c)'
                                           /\ request'[c][Passed(c)'] \in Toggles
      BY DEF LineCounted
    <3>1. top'.line # EmptyLine /\ top'.sock # NoSlot
      <4>1. EmptyLine.end \notin Toggles
        BY DEF EmptyLine, Toggles
      <4>. QED  BY <4>1, ServerAssumption
    <3>2. /\ stack # <<>> /\ top'.line = top.line /\ top'.sock = top.sock
          /\ UNCHANGED conn /\ (Fills \/ Rests)
      BY <3>1
    <3>3. PICK c \in Clients :
             conn[top.sock] = c /\ 1 <= Passed(c) /\ request[c][Passed(c)] \in Toggles
      BY <1>1, <2>1, <3>2 DEF Counts, LineCounted
    <3>4. Passed(c)' = Passed(c)
      BY <1>2, <2>1, <3>2
    <3>. QED  BY <1>2, <3>2, <3>3, <3>4
  <2>. QED  BY <2>2, <2>3, <2>4, <2>5 DEF Counts
<1>. QED  BY <1>2, <1>3 DEF CountInvariant

\* Without broken replies a byte that is read is the next of its client's request, and the
\* client is not done and was not answered.
LEMMA TakesNext ==
    ASSUME CountInvariant, ServerInvariant', stack # <<>>, top.at = "if", top.sock \in Slots,
           NEW f \in Fetches(top.sock), Takes(top.sock, f), broken' = 0,
           NEW c, c = conn[top.sock]
    PROVE  /\ broken = 0 /\ Counts /\ NoJunk' /\ c \in Clients
           /\ f.bytes[1].from = c /\ f.bytes[1].token = request[c][Passed(c) + 1]
           /\ Passed(c) \in Nat /\ Passed(c) + 1 <= Len(request[c])
           /\ request[c] \in Seq(Tokens) /\ Len(request[c]) \in Nat
           /\ Passed(c)' = Passed(c) + 1
           /\ \A d \in Clients : d # c => Passed(d)' = Passed(d)
           /\ peer[c] # "done" /\ answers[c] # 1
           /\ executed[c] = Toggled(request[c], Passed(c))
<1> DEFINE s == top.sock
           i == f.bytes[1]
           r == request[c]
           k == Passed(c)
<1>1. /\ ServerInvariant /\ InOrder /\ (broken = 0 => Counts)
      /\ TypeOK /\ TypeOK' /\ OuterWaits /\ TopHolds /\ SlotsHeld /\ AnsweredLeave
      /\ NoClient \notin Clients /\ NoSlot \notin Slots
  BY ServerAssumption DEF CountInvariant, ServerInvariant, LinesInvariant
<1>2. /\ Advances(s, f, c, 1)
      /\ FoundOwn(s, f) \/ FoundOld(s, f) \/ FoundJunk(s, f)
  BY <1>1, TakeMoves
<1>3. /\ UNCHANGED <<request, unsent, peer, conn>> /\ i \in Item /\ 1 \in 1 .. Len(f.bytes)
      /\ broken' = f.broken
  BY DEF Takes, Fetch
<1>4. Len(f.bytes) \in Nat /\ 1 <= Len(f.bytes)
  <2>1. f.bytes \in Seq(Item) /\ 1 \in 1 .. Len(f.bytes)
    BY <1>1, FetchFinds DEF Takes
  <2>. QED  BY <2>1, LenProperties
<1>5. broken = 0 /\ Counts /\ FoundOwn(s, f)
  <2>1. broken \in Nat
    BY <1>1, ServerAssumption DEF TypeOK
  <2>2. broken = 0 /\ ~FoundJunk(s, f)
    <3>1. f.broken = 0
      BY <1>3
    <3>. QED  BY <1>2, <2>1, <3>1 DEF FoundOwn, FoundOld, FoundJunk
  <2>3. ~FoundOld(s, f)
    <3>1. ASSUME FoundOld(s, f) PROVE FALSE
      <4>1. f.bytes = buffer[s] /\ f.bytes[1].from = NoClient
        BY <1>3, <3>1 DEF FoundOld, OnlyJunk
      <4>. QED  BY <1>1, <1>3, <2>2, <4>1 DEF Counts, NoJunk
    <3>. QED  BY <3>1
  <2>. QED  BY <1>1, <1>2, <2>2, <2>3
<1>6. /\ c \in Clients /\ i.from = c /\ i.token = request[c][Passed(c) + 1]
      /\ Passed(c) + Len(f.bytes) \in {Sent(c), Fetched(c)}
      /\ \A j \in 1 .. Len(f.bytes) : f.bytes[j].from = c
  BY <1>3, <1>5 DEF FoundOwn
<1>7. /\ k \in Nat /\ k + 1 <= Len(r) /\ r \in Seq(Tokens) /\ Len(r) \in Nat
  <2>1. /\ Passed(c) \in Int /\ Sent(c) \in Int /\ Fetched(c) \in Int
        /\ Fetched(c) <= Sent(c) /\ Sent(c) <= Len(request[c]) /\ Len(request[c]) \in Nat
        /\ request[c] \in Seq(Tokens)
    BY <1>1, <1>6, Positions
  <2>2. 0 <= Passed(c)
    BY <1>1, <1>6 DEF InOrder, RequestInOrder
  <2> DEFINE m == Len(f.bytes)
  <2>3. m \in Nat /\ 1 <= m /\ k + m \in {Sent(c), Fetched(c)}
    BY <1>4, <1>6
  <2>4. /\ k \in Int /\ 0 <= k /\ Sent(c) \in Int /\ Fetched(c) \in Int
        /\ Fetched(c) <= Sent(c) /\ Sent(c) <= Len(r) /\ Len(r) \in Nat
    BY <2>1, <2>2
  <2> HIDE DEF m, k, r
  <2>5. k \in Nat /\ k + 1 <= Len(r)
    BY <2>3, <2>4
  <2>. QED  BY <2>1, <2>5 DEF r
<1>8. /\ Passed(c)' = k + 1
      /\ \A d \in Clients : d # c => Passed(d)' = Passed(d)
  BY <1>2, <1>5 DEF Advances
<1>9. NoJunk'
  <2>1. PICK b \in Seq(Item) : /\ Len(b) = Len(f.bytes) - 1
                               /\ \A j \in 1 .. Len(b) : b[j] = f.bytes[j + 1]
                               /\ buffer' = [buffer EXCEPT ![s] = b]
    BY DEF Takes
  <2>2. \A j \in 1 .. Len(b) : j + 1 \in 1 .. Len(f.bytes)
    <3>1. Len(b) \in Nat /\ Len(b) = Len(f.bytes) - 1
      BY <2>1, LenProperties
    <3>. QED  BY <1>4, <3>1
  <2>3. \A j \in 1 .. Len(b) : b[j].from # NoClient
    BY <1>1, <1>6, <2>1, <2>2
  <2>4. buffer'[s] = b /\ \A t \in Slots \ {s} : buffer'[t] = buffer[t]
    BY <1>1, <2>1 DEF TypeOK
  <2>. QED  BY <1>5, <2>3, <2>4 DEF Counts, NoJunk
<1>10. peer[c] # "done" /\ answers[c] # 1
  <2>1. peer[c] # "done"
    BY <1>1, <1>6 DEF SlotsHeld
  <2>. QED  BY <1>1, <1>6, <2>1 DEF AnsweredLeave
<1>11. executed[c] = Toggled(r, k)
  BY <1>5, <1>6, <1>10 DEF Counts
<1>. QED  BY <1>5, <1>6, <1>7, <1>8, <1>9, <1>10, <1>11

\* A byte that is read keeps the counts.
LEMMA CountTake ==
    ASSUME CountInvariant, ServerInvariant',
           \A r \in Requests : InFirstLine(r) /\ VersionFollows(r),
           stack # <<>>, top.at = "if", top.sock \in Slots,
           NEW f \in Fetches(top.sock), Takes(top.sock, f),
           f.bytes[1].from \in {conn[top.sock], NoClient},
           Does(f.bytes[1])
    PROVE  CountInvariant'
<1> DEFINE s == top.sock
           i == f.bytes[1]
<1>1. /\ ServerInvariant /\ InOrder /\ (broken = 0 => Counts)
      /\ TypeOK /\ TypeOK' /\ OuterWaits /\ TopHolds /\ SlotsHeld /\ AnsweredLeave
      /\ NoClient \notin Clients /\ NoSlot \notin Slots
  BY ServerAssumption DEF CountInvariant, ServerInvariant, LinesInvariant
<1>2. PICK c : c = conn[s]
  OBVIOUS
<1>3. /\ Advances(s, f, c, 1)
      /\ FoundOwn(s, f) \/ FoundOld(s, f) \/ FoundJunk(s, f)
  BY <1>1, <1>2, TakeMoves
<1>4. /\ UNCHANGED <<request, unsent, peer, conn>> /\ i \in Item /\ 1 \in 1 .. Len(f.bytes)
      /\ broken' = f.broken
  BY DEF Takes, Fetch
<1>5. ASSUME broken' = 0 PROVE Counts'
  <2> DEFINE r == request[c]
             k == Passed(c)
  <2>1. broken = 0 /\ Counts /\ NoJunk'
    BY <1>1, <1>5, TakesNext
  <2>2. c \in Clients /\ i.from = c /\ i.token = r[k + 1]
    BY <1>1, <1>2, <1>5, TakesNext
  <2>3. k \in Nat /\ k + 1 <= Len(r) /\ r \in Seq(Tokens) /\ Len(r) \in Nat
    BY <1>1, <1>2, <1>5, TakesNext
  <2>4. Passed(c)' = k + 1 /\ \A d \in Clients : d # c => Passed(d)' = Passed(d)
    BY <1>1, <1>2, <1>5, TakesNext
  <2>5. InFirstLine(r) /\ VersionFollows(r)
    BY <1>1, <2>2 DEF TypeOK
  <2>6. NoJunk'
    BY <2>1
  <2>7. peer[c] # "done" /\ answers[c] # 1 /\ executed[c] = Toggled(r, k)
    BY <1>1, <1>2, <1>5, TakesNext
  <2> HIDE DEF r, k
  <2>8. /\ Toggled(r, k + 1) = IF r[k + 1] \in Toggles THEN executed[c] + 1 ELSE executed[c]
        /\ Toggled(r, k + 1) <= Commanded(r)
        /\ (\A j \in 1 .. Len(r) : r[j] \in Toggles => j <= k + 1)
              => Toggled(r, k + 1) = Commanded(r)
    <3>1. k + 1 \in Nat
      BY <2>3
    <3>. QED  BY <2>3, <2>7, <3>1, ToggledMore, ToggledAll
  <2>9. ASSUME /\ executed'[c] = Toggled(r, k + 1)
               /\ \A d \in Clients : d # c => executed'[d] = executed[d]
        PROVE  /\ \A d \in Clients : peer'[d] # "done" =>
                     executed'[d] = Toggled(request'[d], Passed(d)')
               /\ \A d \in Clients : executed'[d] <= Commanded(request'[d])
    BY <1>4, <2>1, <2>4, <2>8, <2>9 DEF Counts, r
  <2>10. CASE i.token = "LF" /\ top.line.end = "" /\ Respond
    <3>1. /\ GoTo("stop") /\ UNCHANGED executed
          /\ answers' = [d \in Clients |-> IF d = c THEN answers[d] + 1 ELSE answers[d]]
      BY <1>2, <2>10 DEF Respond
    <3>2. top'.line = top.line
      BY <1>1, <3>1, GoesTo DEF Places
    <3>3. LineCounted'
      <4>1. top'.line.end \notin Toggles
        BY <2>10, <3>2 DEF Toggles
      <4>. QED  BY <4>1 DEF LineCounted
    <3>4. r[k + 1] = "LF" /\ "LF" \notin Toggles
      BY <2>2, <2>10 DEF Toggles, r, k
    <3>5. executed'[c] = Toggled(r, k + 1) /\ \A d \in Clients : d # c => executed'[d] = executed[d]
      BY <2>8, <3>1, <3>4
    <3>6. Toggled(r, k + 1) = Commanded(r)
      <4>1. k + 1 \in 1 .. Len(r)
        BY <2>3
      <4>2. \A j \in 1 .. Len(r) : r[j] \in Toggles => j < k + 1
        BY <2>5, <3>4, <4>1 DEF InFirstLine
      <4>3. \A j \in 1 .. Len(r) : r[j] \in Toggles => j <= k + 1
        BY <2>3, <4>2
      <4>. QED  BY <2>8, <4>3
    <3>7. \A d \in Clients : answers'[d] = 1 => executed'[d] = Commanded(request'[d])
      <4>1. \A d \in Clients : d # c => answers'[d] = answers[d]
        BY <3>1
      <4>. QED  BY <1>4, <2>1, <3>5, <3>6, <4>1 DEF Counts, r
    <3>. QED  BY <2>6, <2>9, <3>3, <3>5, <3>7 DEF Counts
  <2>11. CASE ~(i.token = "LF" /\ top.line.end = "") /\ Execute(i)
    <3> DEFINE line == LineAfter(i)
    <3>1. /\ UNCHANGED answers
          /\ executed' = [d \in Clients |-> IF line.end \in Toggles /\ d = line.from
                                            THEN executed[d] + 1 ELSE executed[d]]
      BY <2>11, Zenon DEF Execute
    <3>2. top.line.from \in {c, NoClient}
      BY <1>1, <1>2 DEF TopHolds
    <3>3. /\ stack' # <<>>
          /\ IF ServesAgain(line)
             THEN top' = Started
             ELSE top'.sock = s /\ top'.line = line
      BY <1>1, <1>2, <1>4, <2>11, <3>2, Executed
\* The end of the line is a command only if the byte that was read is.
    <3>4. ~(top.line.end \in Toggles /\ i.token = "CR")
      <4> SUFFICES ASSUME top.line.end \in Toggles, i.token = "CR" PROVE FALSE
        OBVIOUS
      <4>1. 1 <= k /\ r[k] \in Toggles
        BY <1>2, <2>1 DEF Counts, LineCounted, r, k
      <4>2. k \in 1 .. Len(r) - 1
        BY <2>3, <4>1
      <4>3. r[k + 1] = "CR"
        BY <2>2 DEF r, k
      <4>. QED  BY <2>5, <4>1, <4>2, <4>3 DEF VersionFollows
    <3>9. i.token = r[k + 1] /\ i.from = c
      BY <2>2 DEF r, k
    <3>5. /\ line.end \in Toggles <=> r[k + 1] \in Toggles
          /\ line.end \in Toggles => line.from = c
      <4>1. CASE i.token = "LF"
        BY <3>9, <4>1 DEF LineAfter, EmptyLine, Toggles
      <4>2. CASE i.token = "CR"
        <5>1. line = top.line
          BY <4>2 DEF LineAfter
        <5>. QED  BY <3>4, <3>9, <4>2, <5>1 DEF Toggles
      <4>3. CASE i.token \notin {"LF", "CR"}
        <5>1. line.end = i.token /\ line.from = i.from
          BY <4>3 DEF LineAfter
        <5>. QED  BY <3>9, <5>1
      <4>. QED  BY <4>1, <4>2, <4>3
    <3> HIDE DEF line
    <3>6. executed'[c] = Toggled(r, k + 1) /\ \A d \in Clients : d # c => executed'[d] = executed[d]
      BY <2>2, <2>8, <3>1, <3>5
    <3>7. \A d \in Clients : answers'[d] = 1 => executed'[d] = Commanded(request'[d])
      BY <1>4, <2>1, <2>7, <3>1, <3>6 DEF Counts
    <3>8. LineCounted'
      <4>1. CASE ServesAgain(line)
        <5>1. top'.sock = NoSlot
          <6>1. top' = Started
            BY <3>3, <4>1
          <6>. QED  BY <6>1 DEF Started
        <5>. QED  BY <1>1, <5>1 DEF LineCounted
      <4>2. CASE ~ServesAgain(line)
        <5>1. top'.sock = s /\ top'.line = line
          BY <3>3, <4>2
        <5>2. conn'[s] = c /\ request'[c] = r
          BY <1>2, <1>4 DEF r
        <5>3. 1 <= k + 1
          BY <2>3
        <5>4. line.end \in Toggles => r[k + 1] \in Toggles
          BY <3>5
        <5>. QED  BY <2>2, <2>4, <5>1, <5>2, <5>3, <5>4 DEF LineCounted
      <4>. QED  BY <4>1, <4>2
    <3>. QED  BY <2>6, <2>9, <3>6, <3>7, <3>8 DEF Counts
  <2>. QED  BY <2>10, <2>11 DEF Does
<1>. QED  BY <1>1, <1>3, <1>5 DEF CountInvariant, Advances

LEMMA CountInit == Init => CountInvariant
<1> SUFFICES ASSUME Init PROVE CountInvariant
  OBVIOUS
<1>1. /\ ServerInvariant /\ InOrder
      /\ \A c \in Clients : Passed(c) = 0
      /\ \A s \in Slots : Len(buffer[s]) = 0
  BY NothingPassed
<1>2. NoJunk /\ LineCounted
  BY <1>1 DEF Init, NoJunk, LineCounted
<1>3. \A c \in Clients : executed[c] = 0 /\ answers[c] = 0
  BY DEF Init
<1>4. \A r : Toggled(r, 0) = 0
  <2> SUFFICES ASSUME NEW r PROVE Toggled(r, 0) = 0
    OBVIOUS
  <2>1. {i \in 1 .. 0 : r[i] \in Toggles} = {}
    OBVIOUS
  <2>. QED  BY <2>1, FS_EmptySet DEF Toggled
<1>5. \A c \in Clients : 0 <= Commanded(request[c])
  <2> SUFFICES ASSUME NEW c \in Clients PROVE 0 <= Commanded(request[c])
    OBVIOUS
  <2>1. request[c] \in Seq(Tokens) /\ Len(request[c]) \in Nat
    BY <1>1, Positions
  <2>2. 0 \in Nat /\ 0 <= Len(request[c])
    BY <2>1
  <2>3. Toggled(request[c], 0) <= Commanded(request[c])
    BY <2>1, <2>2, ToggledAll
  <2>. QED  BY <1>4, <2>3
<1>. QED  BY <1>1, <1>2, <1>3, <1>4, <1>5 DEF CountInvariant, Counts

LEMMA CountKept ==
    ASSUME CountInvariant, [Next]_vars, \A r \in Requests : InFirstLine(r) /\ VersionFollows(r)
    PROVE  CountInvariant'
<1>1. /\ ServerInvariant /\ InOrder /\ (broken = 0 => Counts) /\ TypeOK /\ ServerInvariant'
  BY ServerInvariantKept DEF CountInvariant, ServerInvariant, LinesInvariant
<1>2. ASSUME Rests, UNCHANGED <<stack, executed, answers>> PROVE CountInvariant'
  <2>1. UNCHANGED conn /\ top' = top
    BY <1>2 DEF Rests, top
  <2>. QED  BY <1>1, <1>2, <2>1, CountStep
<1>3. CASE UNCHANGED vars
  BY <1>2, <1>3 DEF vars, Rests
<1>4. ASSUME NEW c \in Clients, Connect(c) \/ Close(c) PROVE CountInvariant'
  <2>1. Rests /\ UNCHANGED <<stack, executed, answers>>
    BY <1>1, <1>4 DEF Connect, Close, Rests, TypeOK
  <2>. QED  BY <1>2, <2>1
<1>5. ASSUME NEW c \in Clients, Send(c) PROVE CountInvariant'
  <2>1. InOrder' /\ \A d \in Clients : Passed(d)' = Passed(d)
    BY <1>1, <1>5, SendMoves
  <2>2. UNCHANGED <<request, peer, answers, conn, buffer, stack, executed, broken>> /\ top' = top
    BY <1>5 DEF Send, top
  <2>3. NoJunk' <=> NoJunk
    BY <2>2 DEF NoJunk
  <2>4. LineCounted => LineCounted'
    BY <2>1, <2>2 DEF LineCounted
  <2>5. Counts => Counts'
    BY <2>1, <2>2, <2>3, <2>4 DEF Counts
  <2>. QED  BY <1>1, <2>1, <2>2, <2>5 DEF CountInvariant
<1>6. CASE Callback
  <2>1. Rests /\ UNCHANGED <<executed, answers>> /\ stack' = <<Started>>
    BY <1>6 DEF Callback, Rests
  <2>2. top' = Started
    BY <2>1 DEF top
  <2>3. top'.sock = NoSlot
    BY <2>2 DEF Started
  <2>. QED  BY <1>1, <2>1, <2>3, CountStep
<1>7. CASE \/ ServerAvailable \/ LastSockStatus \/ LastSockAgain \/ AvailServer
           \/ Connected \/ ConnectedStatus \/ Stop
  BY <1>1, <1>7, ServeBytes, ServeLine, CountStep
<1>8. CASE Read
  <2>1. /\ stack # <<>> /\ top.at = "if" /\ top.sock \in Slots
        /\ \/ Fills /\ GoTo("while") /\ UNCHANGED <<answers, executed>>
           \/ \E f \in Fetches(top.sock) :
                 /\ Takes(top.sock, f)
                 /\ f.bytes[1].from \in {conn[top.sock], NoClient}
                 /\ Does(f.bytes[1])
    BY <1>1, <1>8, ReadTakes
  <2>2. CASE Fills /\ GoTo("while") /\ UNCHANGED <<answers, executed>>
    <3>1. top'.sock = top.sock /\ top'.line = top.line
      BY <1>1, <2>1, <2>2, GoesTo DEF Places, ServerInvariant, LinesInvariant
    <3>2. UNCHANGED conn
      BY <2>2 DEF Fills
    <3>. QED  BY <1>1, <2>1, <2>2, <3>1, <3>2, CountStep
  <2>3. ASSUME NEW f \in Fetches(top.sock), Takes(top.sock, f),
               f.bytes[1].from \in {conn[top.sock], NoClient}, Does(f.bytes[1])
        PROVE  CountInvariant'
    BY <1>1, <2>1, <2>3, CountTake
  <2>. QED  BY <2>1, <2>2, <2>3
<1>. QED  BY <1>3, <1>4, <1>5, <1>6, <1>7, <1>8 DEF Next, Serve

\* Without broken replies the commands executed for a client are those in the part of
\* its request that loop has read, and all of them once it is answered.
THEOREM Counting ==
    ASSUME \A r \in Requests : InFirstLine(r) /\ VersionFollows(r)
    PROVE  Spec => []CountInvariant
<1>1. Init => CountInvariant
  BY CountInit
<1>2. CountInvariant /\ [Next]_vars => CountInvariant'
  BY CountKept
<1>. QED  BY <1>1, <1>2, PTL DEF Spec

\* A command is carried out exactly once before the page is sent, with any number of
\* clients on any number of slots, however the requests are split and interleaved, and
\* however the activations nest.
THEOREM ExecutesOnce ==
    ASSUME \A r \in Requests : InFirstLine(r) /\ VersionFollows(r)
    PROVE  Spec => []ExactlyOnce
<1>1. CountInvariant => ExactlyOnce
  BY DEF CountInvariant, Counts, ExactlyOnce
<1>. QED  BY <1>1, Counting, PTL

-----------------------------------------------------------------------------
(* From a command to its page *)

\* A client that is done stays so, and one that was answered stays so.
LEMMA NoneOwedAgain ==
    ASSUME ServerInvariant, ServerInvariant', [Next]_vars, NEW c \in Clients
    PROVE  /\ peer[c] = "done" => peer'[c] = "done"
           /\ answers'[c] = 0 => answers[c] = 0
<1>1. /\ TypeOK /\ peer \in [Clients -> {"idle", "open", "closed", "done"}]
      /\ answers \in [Clients -> 0 .. 1]
  BY DEF ServerInvariant, LinesInvariant, TypeOK
<1>2. peer[c] = "done" => peer'[c] = "done"
  BY <1>1 DEF Next, vars, Serve, Connect, Send, Close, Callback, ServerAvailable, LastSockStatus,
              LastSockAgain, AvailServer, Connected, ConnectedStatus, Read, Stop, Release,
              MistakenForClosed
<1>3. answers'[c] = 0 => answers[c] = 0
  <2>1. UNCHANGED answers \/ \E d : answers' = [e \in Clients |-> IF e = d THEN answers[e] + 1
                                                                  ELSE answers[e]]
    BY DEF Next, vars, Serve, Connect, Send, Close, Callback, ServerAvailable, LastSockStatus,
           LastSockAgain, AvailServer, Connected, ConnectedStatus, Read, Stop, Respond, Execute
  <2>. QED  BY <1>1, <2>1
<1>. QED  BY <1>2, <1>3

\* Where no command is read loop stays with the client that is owed a page.
LEMMA ServesStep ==
    ASSUME ServesInvariant, CountInvariant', [Next]_vars, UNCHANGED executed,
           broken' = 0 => /\ broken = 0 /\ LineCleared'
                          /\ \A c \in Clients : Serves(c) /\ peer'[c] # "done" => Serves(c)'
    PROVE  ServesInvariant'
<1>1. /\ ServerInvariant /\ ServerInvariant'
      /\ broken = 0 => \A c \in Clients : Owed(c) => Serves(c)
  BY DEF ServesInvariant, CountInvariant
<1>2. \A c \in Clients : Owed(c)' => Owed(c) /\ peer'[c] # "done"
  BY <1>1, NoneOwedAgain DEF Owed
<1>3. broken' = 0 => \A c \in Clients : Owed(c)' => Serves(c)'
  BY <1>1, <1>2
<1>. QED  BY <1>3 DEF ServesInvariant

\* Until the client is done it stays, unless a reply is broken.
LEMMA ServesOn ==
    ASSUME ServerInvariant, ServerInvariant', broken' = broken,
           \/ ServerAvailable \/ LastSockStatus \/ LastSockAgain \/ AvailServer
           \/ Connected \/ ConnectedStatus \/ Stop,
           NEW c \in Clients, Serves(c), peer'[c] # "done"
    PROVE  Serves(c)'
<1>1. /\ TypeOK /\ OuterWaits /\ NoSlot \notin Slots /\ broken \in Nat
  BY ServerAssumption DEF ServerInvariant, LinesInvariant, TypeOK
<1>2. /\ stack # <<>> /\ top.at \in {"while", "status", "if"}
      /\ top.sock \in Slots /\ conn[top.sock] = c
  BY DEF Serves
<1>3. ASSUME NEW p \in {"if", "status"}, GoTo(p), UNCHANGED conn PROVE Serves(c)'
  <2>1. stack' # <<>> /\ top'.at = p /\ top'.sock = top.sock
    BY <1>1, <1>2, <1>3, GoesTo DEF Places
  <2>. QED  BY <1>2, <1>3, <2>1 DEF Serves
<1>4. CASE Connected
  <2>1. (GoTo("if") \/ GoTo("status")) /\ UNCHANGED conn
    BY <1>1, <1>2, <1>4 DEF Connected
  <2>. QED  BY <1>3, <2>1
<1>5. CASE ConnectedStatus
  <2>1. ~MistakenForClosed(top.sock)
    BY <1>1 DEF MistakenForClosed
  <2>2. ~Release(top.sock)
    BY <1>2 DEF Release
  <2>3. GoTo("if") /\ UNCHANGED conn
    BY <1>5, <2>1, <2>2 DEF ConnectedStatus
  <2>. QED  BY <1>3, <2>3
<1>6. CASE \/ ServerAvailable \/ LastSockStatus \/ LastSockAgain \/ AvailServer \/ Stop
  BY <1>2, <1>6 DEF ServerAvailable, LastSockStatus, LastSockAgain, AvailServer, Stop, At
<1>. QED  BY <1>4, <1>5, <1>6

LEMMA ServesInit == Init => ServesInvariant
<1> SUFFICES ASSUME Init PROVE ServesInvariant
  OBVIOUS
<1>1. CountInvariant
  BY CountInit
<1>2. \A c \in Clients : ~Owed(c)
  BY DEF Init, Owed
<1>. QED  BY <1>1, <1>2 DEF ServesInvariant, LineCleared, Init

\* What a byte does without broken replies, ...
LEMMA TakesByte ==
    ASSUME CountInvariant, ServerInvariant', LineCleared, stack # <<>>, top.at = "if",
           top.sock \in Slots, NEW f \in Fetches(top.sock), Takes(top.sock, f), broken' = 0,
           f.bytes[1].from \in {conn[top.sock], NoClient},
           Does(f.bytes[1]), \A r \in Requests : OneCommand(r),
           NEW c, c = conn[top.sock]
    PROVE  /\ c \in Clients /\ UNCHANGED <<conn, peer>> /\ peer[c] # "done" /\ answers[c] = 0
           /\ \A d \in Clients : d # c => executed'[d] = executed[d] /\ answers'[d] = answers[d]
           /\ answers'[c] = 0 => UNCHANGED answers /\ (executed'[c] # 0 => Serves(c)')
           /\ \/ UNCHANGED executed
              \/ executed'[c] # 0 /\ UNCHANGED answers /\ top'.line.from = c
           /\ LineCleared'
<1> DEFINE i == f.bytes[1]
           k == Passed(c)
           r == request[c]
           line == LineAfter(i)
<1>1. /\ ServerInvariant /\ TypeOK /\ OuterWaits /\ TopHolds
      /\ NoClient \notin Clients /\ NoSlot \notin Slots
      /\ executed \in [Clients -> Nat] /\ answers \in [Clients -> 0 .. 1]
  BY ServerAssumption DEF CountInvariant, ServerInvariant, LinesInvariant, TypeOK
<1>2. UNCHANGED <<conn, peer>> /\ i \in Item
  BY DEF Takes
<1>3. c \in Clients /\ i.from = c /\ i.token = r[k + 1]
  BY TakesNext
<1>4. k \in Nat /\ k + 1 <= Len(r) /\ Len(r) \in Nat
  BY TakesNext
<1>5. peer[c] # "done" /\ answers[c] = 0 /\ executed[c] = Toggled(r, k)
  <2>1. peer[c] # "done" /\ answers[c] # 1 /\ executed[c] = Toggled(r, k)
    BY TakesNext
  <2>. QED  BY <1>1, <1>3, <2>1
<1> HIDE DEF k, r, line
<1>6. CASE Respond
  <2>1. /\ GoTo("stop") /\ UNCHANGED executed
        /\ answers' = [d \in Clients |-> IF d = c THEN answers[d] + 1 ELSE answers[d]]
    BY <1>6 DEF Respond
  <2>2. stack' # <<>> /\ top'.line = top.line
    BY <1>1, <2>1, GoesTo DEF Places
  <2>3. LineCleared'
    BY <2>2 DEF LineCleared
  <2>4. answers'[c] = 1 /\ \A d \in Clients : d # c => answers'[d] = answers[d]
    BY <1>3, <1>5, <2>1
  <2>. QED  BY <1>2, <1>3, <1>5, <2>1, <2>3, <2>4
<1>7. CASE Execute(i)
  <2>1. /\ UNCHANGED answers
        /\ executed' = [d \in Clients |-> IF line.end \in Toggles /\ d = line.from
                                          THEN executed[d] + 1 ELSE executed[d]]
    BY <1>7, Zenon DEF Execute, line
  <2>2. top.line.from \in {c, NoClient}
    BY <1>1 DEF TopHolds
  <2>3. /\ stack' # <<>>
        /\ IF ServesAgain(line)
           THEN top' = Started
           ELSE top'.at = "while" /\ top'.sock = top.sock /\ top'.line = line
    BY <1>1, <1>2, <1>7, <2>2, Executed DEF line
  <2>4. line.from \in {c, NoClient}
    BY <1>1, <1>2, <1>3, <2>2, TopTyped, LineOwned DEF line
  <2>5. \A d \in Clients : d # c => executed'[d] = executed[d]
    BY <1>1, <2>1, <2>4
  <2>6. LineCleared'
    <3>1. Started.line.end = ""
      BY DEF Started, EmptyLine
    <3>. QED  BY <2>3, <3>1 DEF LineCleared, ServesAgain
\* No refresh comes after a command.
  <2>7. ASSUME ServesAgain(line) PROVE UNCHANGED executed /\ executed[c] = 0
    <3>1. line.end = "refresh" /\ i.token = "refresh"
      BY <2>7 DEF line, ServesAgain, LineAfter, LineCleared, EmptyLine
    <3>2. executed' = executed
      BY <1>1, <2>1, <3>1 DEF Toggles
    <3>3. OneCommand(r)
      BY <1>1, <1>3 DEF TypeOK, r
    <3>4. {j \in 1 .. k : r[j] \in Toggles} = {}
      <4> SUFFICES ASSUME NEW j \in 1 .. k, r[j] \in Toggles PROVE FALSE
        OBVIOUS
      <4>1. j \in 1 .. Len(r) /\ k + 1 \in 1 .. Len(r) /\ j # k + 1
        BY <1>4
      <4>. QED  BY <1>3, <3>1, <3>3, <4>1 DEF OneCommand, Commands, Toggles
    <3>5. executed[c] = 0
      BY <1>5, <3>4, FS_EmptySet DEF Toggled
    <3>. QED  BY <3>2, <3>5
  <2>8. executed'[c] # 0 => Serves(c)'
    <3> SUFFICES ASSUME executed'[c] # 0 PROVE Serves(c)'
      OBVIOUS
    <3>1. ~ServesAgain(line)
      BY <2>7
    <3>. QED  BY <1>2, <2>3, <3>1 DEF Serves
  <2>9. executed' = executed \/ (executed'[c] # 0 /\ top'.line.from = c)
    <3>1. CASE line.end \in Toggles /\ line.from = c
      <4>1. executed'[c] # 0
        BY <1>1, <1>3, <2>1, <3>1
      <4>2. top'.line = line
        BY <2>3, <3>1 DEF ServesAgain, Toggles
      <4>. QED  BY <3>1, <4>1, <4>2
    <3>2. CASE ~(line.end \in Toggles /\ line.from = c)
      <4>1. \A d \in Clients : ~(line.end \in Toggles /\ d = line.from)
        BY <1>1, <2>4, <3>2
      <4>. QED  BY <1>1, <2>1, <4>1
    <3>. QED  BY <3>1, <3>2
  <2>. QED  BY <1>2, <1>3, <1>5, <2>1, <2>5, <2>6, <2>8, <2>9
<1>. QED  BY <1>6, <1>7 DEF Does

LEMMA ServesKept ==
    ASSUME ServesInvariant, [Next]_vars,
           \A r \in Requests : OneCommand(r) /\ InFirstLine(r) /\ VersionFollows(r)
    PROVE  ServesInvariant'
<1>1. /\ CountInvariant /\ CountInvariant' /\ ServerInvariant /\ ServerInvariant' /\ InOrder
      /\ TypeOK /\ OuterWaits /\ NoClient \notin Clients /\ broken \in Nat
      /\ broken = 0 => LineCleared /\ \A c \in Clients : Owed(c) => Serves(c)
  <2>1. CountInvariant /\ (broken = 0 => LineCleared /\ \A c \in Clients : Owed(c) => Serves(c))
    BY DEF ServesInvariant
  <2>2. CountInvariant'
    BY <2>1, CountKept
  <2>3. TypeOK /\ OuterWaits /\ ServerInvariant /\ InOrder
    BY <2>1 DEF CountInvariant, ServerInvariant, LinesInvariant
  <2>4. ServerInvariant'
    BY <2>2 DEF CountInvariant
  <2>5. broken \in Nat /\ NoClient \notin Clients
    BY <2>3, ServerAssumption DEF TypeOK
  <2>. QED  BY <2>1, <2>2, <2>3, <2>4, <2>5
<1>2. ASSUME UNCHANGED <<stack, conn, executed, broken>> PROVE ServesInvariant'
  <2>1. UNCHANGED top
    BY <1>2 DEF top
  <2>2. (LineCleared => LineCleared') /\ \A c \in Clients : Serves(c) => Serves(c)'
    BY <1>2, <2>1 DEF LineCleared, Serves
  <2>. QED  BY <1>1, <1>2, <2>2, ServesStep
<1>3. CASE UNCHANGED vars
  BY <1>2, <1>3 DEF vars
<1>4. ASSUME NEW c \in Clients, Connect(c) \/ Send(c) \/ Close(c) PROVE ServesInvariant'
  BY <1>2, <1>4 DEF Connect, Send, Close
<1>5. CASE Callback
  <2>1. stack = <<>> /\ stack' = <<Started>> /\ UNCHANGED <<executed, broken>>
    BY <1>5 DEF Callback
  <2>2. top' = Started
    BY <2>1 DEF top
  <2>3. LineCleared'
    BY <2>2 DEF LineCleared, Started, EmptyLine
  <2>4. \A c \in Clients : ~Serves(c)
    BY <2>1 DEF Serves
  <2>. QED  BY <1>1, <2>1, <2>3, <2>4, ServesStep
<1>6. CASE \/ ServerAvailable \/ LastSockStatus \/ LastSockAgain \/ AvailServer
           \/ Connected \/ ConnectedStatus \/ Stop
  <2>1. /\ UNCHANGED <<executed, answers>> /\ broken' \in {broken, broken + 1}
    BY <1>1, <1>6, ServeBytes, BytesMove
  <2>2. LineCleared => LineCleared'
    <3>1. stack # <<>> /\ Moved
      BY <1>1, <1>6, ServeMoves
    <3>2. stack' # <<>> => top'.line = EmptyLine \/ top'.line = top.line
      BY <1>1, <3>1, MovedTop
    <3>3. EmptyLine.end = "" /\ EmptyLine' = EmptyLine
      BY DEF EmptyLine
    <3>. QED  BY <3>1, <3>2, <3>3 DEF LineCleared
  <2>3. broken' = 0 => broken = 0 /\ broken' = broken
    BY <1>1, <2>1
  <2>4. broken' = 0 => \A c \in Clients : Serves(c) /\ peer'[c] # "done" => Serves(c)'
    BY <1>1, <1>6, <2>3, ServesOn
  <2>. QED  BY <1>1, <2>1, <2>2, <2>3, <2>4, ServesStep
<1>7. CASE Read
  <2>1. /\ stack # <<>> /\ top.at = "if" /\ top.sock \in Slots
        /\ \/ Fills /\ GoTo("while") /\ UNCHANGED <<answers, executed>>
           \/ \E f \in Fetches(top.sock) :
                 /\ Takes(top.sock, f)
                 /\ f.bytes[1].from \in {conn[top.sock], NoClient}
                 /\ Does(f.bytes[1])
    BY <1>1, <1>7, ReadTakes
  <2>2. CASE Fills /\ GoTo("while") /\ UNCHANGED <<answers, executed>>
    <3>1. stack' # <<>> /\ top'.at = "while" /\ top'.sock = top.sock /\ top'.line = top.line
      BY <1>1, <2>1, <2>2, GoesTo DEF Places
    <3>2. UNCHANGED conn /\ broken' \in {broken, broken + 1}
      BY <1>1, <2>2, BytesMove DEF Fills
    <3>3. (LineCleared => LineCleared') /\ \A c \in Clients : Serves(c) => Serves(c)'
      BY <2>1, <3>1, <3>2 DEF LineCleared, Serves
    <3>4. broken' = 0 => broken = 0
      BY <1>1, <3>2
    <3>. QED  BY <1>1, <2>2, <3>3, <3>4, ServesStep
  <2>3. ASSUME NEW f \in Fetches(top.sock), Takes(top.sock, f),
               f.bytes[1].from \in {conn[top.sock], NoClient}, Does(f.bytes[1])
        PROVE  ServesInvariant'
    <3> SUFFICES ASSUME broken' = 0
                 PROVE  LineCleared' /\ \A c \in Clients : Owed(c)' => Serves(c)'
      BY <1>1 DEF ServesInvariant
    <3>1. PICK c : c = conn[top.sock]
      OBVIOUS
    <3>2. broken = 0
      BY <1>1, <2>1, <2>3, <3>1, TakesNext
    <3>3. /\ c \in Clients /\ UNCHANGED <<conn, peer>>
          /\ \A d \in Clients : d # c => executed'[d] = executed[d] /\ answers'[d] = answers[d]
          /\ answers'[c] = 0 /\ executed'[c] # 0 => Serves(c)'
          /\ LineCleared'
      BY <1>1, <2>1, <2>3, <3>1, <3>2, TakesByte
\* Had another client been owed a page, the byte would have been of that client.
    <3>4. ASSUME NEW d \in Clients, Owed(d)' PROVE Serves(d)'
      <4>1. CASE d = c
        BY <3>3, <3>4, <4>1 DEF Owed
      <4>2. CASE d # c
        <5>1. Owed(d)
          BY <3>3, <3>4, <4>2 DEF Owed
        <5>. QED  BY <1>1, <3>1, <3>2, <4>2, <5>1 DEF Serves
      <4>. QED  BY <4>1, <4>2
    <3>. QED  BY <3>3, <3>4
  <2>. QED  BY <2>1, <2>2, <2>3
<1>. QED  BY <1>3, <1>4, <1>5, <1>6, <1>7 DEF Next, Serve

\* From a command to the page that answers it the server reads no request but that
\* client's: it neither turns to another client nor enters loop again, however the rest of
\* the request arrives.
THEOREM StaysWithClient ==
    ASSUME \A r \in Requests : OneCommand(r) /\ InFirstLine(r) /\ VersionFollows(r)
    PROVE  Spec => []ServesInvariant
<1>1. Init => ServesInvariant
  BY ServesInit
<1>2. ServesInvariant /\ [Next]_vars => ServesInvariant'
  BY ServesKept
<1>. QED  BY <1>1, <1>2, PTL DEF Spec

\* A step that carries out a command or answers is a byte of one client that is read, ...
LEMMA CommandOrPage ==
    ASSUME ServesInvariant, [Next]_vars, broken' = 0,
           \A r \in Requests : OneCommand(r) /\ InFirstLine(r) /\ VersionFollows(r),
           ~UNCHANGED <<executed, answers>>
    PROVE  \E c \in Clients :
              /\ broken = 0 /\ UNCHANGED <<request, peer>>
              /\ peer[c] # "done" /\ answers[c] = 0
              /\ \A d \in Clients : d # c => executed'[d] = executed[d] /\ answers'[d] = answers[d]
              /\ \/ UNCHANGED executed
                 \/ executed'[c] # 0 /\ UNCHANGED answers /\ top'.line.from = c
<1>1. /\ CountInvariant /\ CountInvariant' /\ (broken = 0 => LineCleared)
  BY CountKept DEF ServesInvariant
<1>2. ServerInvariant /\ ServerInvariant' /\ InOrder
  BY <1>1 DEF CountInvariant
<1>3. Read
  <2>1. ~(\/ ServerAvailable \/ LastSockStatus \/ LastSockAgain \/ AvailServer
          \/ Connected \/ ConnectedStatus \/ Stop)
    BY <1>2, ServeBytes
  <2>2. \A c : ~(Connect(c) \/ Send(c) \/ Close(c))
    BY DEF Connect, Send, Close
  <2>. QED  BY <2>1, <2>2 DEF Next, Serve, Callback, vars
<1>4. /\ stack # <<>> /\ top.at = "if" /\ top.sock \in Slots
      /\ \E f \in Fetches(top.sock) : /\ Takes(top.sock, f)
                                      /\ f.bytes[1].from \in {conn[top.sock], NoClient}
                                      /\ Does(f.bytes[1])
  BY <1>2, <1>3, ReadTakes
<1>5. PICK f \in Fetches(top.sock) : /\ Takes(top.sock, f)
                                     /\ f.bytes[1].from \in {conn[top.sock], NoClient}
                                     /\ Does(f.bytes[1])
  BY <1>4
<1>6. PICK c : c = conn[top.sock]
  OBVIOUS
<1>7. broken = 0
  BY <1>1, <1>2, <1>4, <1>5, <1>6, TakesNext
<1>8. /\ c \in Clients /\ UNCHANGED peer /\ peer[c] # "done" /\ answers[c] = 0
      /\ \A d \in Clients : d # c => executed'[d] = executed[d] /\ answers'[d] = answers[d]
      /\ \/ UNCHANGED executed
         \/ executed'[c] # 0 /\ UNCHANGED answers /\ top'.line.from = c
  BY <1>1, <1>2, <1>4, <1>5, <1>6, <1>7, TakesByte
<1>9. UNCHANGED request
  BY <1>3 DEF Read
<1>. QED  BY <1>7, <1>8, <1>9

\* ... and a client that is answered, if it asked for a command, was owed its page.
LEMMA OwedPage ==
    ASSUME ServesInvariant, [Next]_vars, broken' = 0,
           \A r \in Requests : OneCommand(r) /\ InFirstLine(r) /\ VersionFollows(r),
           NEW c \in Clients, answers'[c] # answers[c], Commanded(request[c]) = 1
    PROVE  broken = 0 /\ Owed(c)
<1>1. PICK e \in Clients :
         /\ broken = 0 /\ UNCHANGED <<request, peer>>
         /\ peer[e] # "done" /\ answers[e] = 0
         /\ \A d \in Clients : d # e => executed'[d] = executed[d] /\ answers'[d] = answers[d]
         /\ \/ UNCHANGED executed
            \/ executed'[e] # 0 /\ UNCHANGED answers /\ top'.line.from = e
  BY CommandOrPage
<1>2. e = c /\ UNCHANGED executed
  BY <1>1
<1>3. CountInvariant' /\ ServerInvariant'
  BY CountKept DEF ServesInvariant, CountInvariant
<1>4. answers'[c] = 1
  <2>1. answers'[c] \in 0 .. 1
    BY <1>3 DEF ServerInvariant, LinesInvariant, TypeOK
  <2>. QED  BY <1>1, <1>2, <2>1
<1>5. executed'[c] = Commanded(request'[c])
  BY <1>3, <1>4 DEF CountInvariant, Counts
<1>6. executed[c] = 1
  BY <1>1, <1>2, <1>5
<1>. QED  BY <1>1, <1>2, <1>6 DEF Owed

\* Broken replies are counted, and none is forgotten.
LEMMA BrokenGrows ==
    ASSUME CountInvariant, CountInvariant', [Next]_vars, broken' = 0
    PROVE  broken = 0
<1>1. ServerInvariant /\ ServerInvariant' /\ InOrder /\ broken \in Nat
  BY ServerAssumption DEF CountInvariant, ServerInvariant, LinesInvariant, TypeOK
<1>2. ASSUME Fills \/ Empties \/ Gives \/ Rests PROVE broken = 0
  <2>1. broken' \in {broken, broken + 1}
    BY <1>1, <1>2, BytesMove
  <2>. QED  BY <1>1, <2>1
<1>3. CASE \/ ServerAvailable \/ LastSockStatus \/ LastSockAgain \/ AvailServer
           \/ Connected \/ ConnectedStatus \/ Stop
  BY <1>1, <1>2, <1>3, ServeBytes
<1>4. CASE Read
  <2>1. /\ stack # <<>> /\ top.at = "if" /\ top.sock \in Slots
        /\ \/ Fills
           \/ \E f \in Fetches(top.sock) : Takes(top.sock, f)
    BY <1>1, <1>4, ReadTakes
  <2>2. CASE Fills
    BY <1>2, <2>2
  <2>3. ASSUME NEW f \in Fetches(top.sock), Takes(top.sock, f) PROVE broken = 0
    <3>1. PICK c : c = conn[top.sock]
      OBVIOUS
    <3>. QED  BY <1>1, <2>1, <2>3, <3>1, TakesNext
  <2>. QED  BY <2>1, <2>2, <2>3
<1>5. CASE UNCHANGED vars \/ Callback \/ \E c \in Clients : Connect(c) \/ Send(c) \/ Close(c)
  BY <1>5 DEF vars, Callback, Connect, Send, Close
<1>. QED  BY <1>3, <1>4, <1>5 DEF Next, Serve
=============================================================================
