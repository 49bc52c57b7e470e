---------------------------- MODULE UdpRelayProofs ----------------------------
(***************************************************************************)
(* Proofs about RelayServer, for buffers and datagrams of any size and any *)
(* number of them: the bytes of the datagrams that a side delivers are     *)
(* those that the other side sent, in order and without a gap.             *)
(*                                                                         *)
(* A direction of the relay is a pipe: datagrams at the UDP socket, the    *)
(* buffer of one loop, the connection, the buffer of the other loop, what  *)
(* has been delivered.  The argument is that each stage ends where the one *)
(* behind it begins, as long as the loop between the two still runs; a     *)
(* loop that stops with bytes in its buffer never hands on another byte.   *)
(***************************************************************************)
EXTENDS UdpRelay, TLAPS

Bytes == Nat \X Nat

(* Bytes of datagrams that have been sent, lens being their lengths, and   *)
(* the byte that follows one.                                              *)
SentBytes(lens) == {b \in Bytes : b[1] \in 1..Len(lens)}
After(lens, b) ==
    IF b[2] < lens[b[1]] THEN <<b[1], b[2] + 1>> ELSE <<b[1] + 1, 1>>

(* The bytes x run from the byte from up to, but not including, to. *)
At(x, to, k) == IF k <= Len(x) THEN x[k] ELSE to
Run(lens, from, x, to) ==
    /\ At(x, to, 1) = from
    /\ \A k \in 1..Len(x) : At(x, to, k + 1) = After(lens, x[k])

LEMMA SeqElement ==
    ASSUME NEW S, NEW x \in Seq(S), NEW k \in 1..Len(x)
    PROVE  x[k] \in S
OBVIOUS

LEMMA RunEmpty ==
    ASSUME NEW lens, NEW a
    PROVE  Run(lens, a, <<>>, a)
BY DEF Run, At

LEMMA RunJoin ==
    ASSUME NEW lens, NEW a, NEW b, NEW c, NEW x \in Seq(Bytes), NEW y \in Seq(Bytes),
           Run(lens, a, x, b), Run(lens, b, y, c)
    PROVE  Run(lens, a, x \o y, c)
<1> DEFINE z == x \o y
<1>1. /\ z \in Seq(Bytes) /\ Len(z) = Len(x) + Len(y) /\ Len(x) \in Nat /\ Len(y) \in Nat
      /\ \A k \in 1..Len(x) : z[k] = x[k]
      /\ \A k \in 1..Len(y) : z[Len(x) + k] = y[k]
  OBVIOUS
<1> HIDE DEF z
<1>2. \A k \in 1..Len(x) : At(z, c, k) = x[k]
  BY <1>1 DEF At
<1>3. \A k \in 1..(Len(y) + 1) : At(z, c, Len(x) + k) = At(y, c, k)
  BY <1>1 DEF At
<1>4. At(z, c, 1) = a
  <2>1. CASE Len(x) = 0
    BY <1>1, <1>3, <2>1 DEF Run, At
  <2>2. CASE Len(x) > 0
    BY <1>1, <1>2, <2>2 DEF Run, At
  <2> QED BY <1>1, <2>1, <2>2
<1>5. ASSUME NEW k \in 1..Len(z)
      PROVE  At(z, c, k + 1) = After(lens, z[k])
  <2>1. CASE k < Len(x)
    <3>1. k \in 1..Len(x) /\ k + 1 \in 1..Len(x)
      BY <1>1, <2>1
    <3>2. At(z, c, k + 1) = x[k + 1] /\ z[k] = x[k]
      BY <1>1, <1>2, <3>1
    <3>3. At(x, b, k + 1) = x[k + 1]
      BY <1>1, <3>1 DEF At
    <3> QED BY <3>1, <3>2, <3>3 DEF Run
  <2>2. CASE k = Len(x)
    <3>1. At(z, c, k + 1) = b
      BY <1>1, <1>3, <2>2 DEF Run
    <3>2. At(x, b, k + 1) = b /\ At(x, b, k + 1) = After(lens, x[k])
      BY <1>1, <2>2 DEF Run, At
    <3> QED BY <1>1, <2>2, <3>1, <3>2
  <2>3. CASE k > Len(x)
    <3>1. PICK j \in 1..Len(y) : k = Len(x) + j
      <4>1. k - Len(x) \in 1..Len(y) /\ k = Len(x) + (k - Len(x))
        BY <1>1, <2>3
      <4> QED BY <4>1
    <3>2. At(z, c, k + 1) = At(y, c, j + 1)
      <4>1. j + 1 \in 1..(Len(y) + 1) /\ k + 1 = Len(x) + (j + 1)
        BY <1>1, <3>1
      <4> HIDE DEF z
      <4> QED BY <1>3, <4>1
    <3> QED BY <1>1, <3>1, <3>2 DEF Run
  <2> QED BY <1>1, <2>1, <2>2, <2>3
<1> QED BY <1>4, <1>5 DEF Run, z

(* TCP may hand out any part of what was written. *)
LEMMA RunSplit ==
    ASSUME NEW lens, NEW a, NEW c, NEW x \in Seq(Bytes), NEW n \in 0..Len(x),
           Run(lens, a, x, c)
    PROVE  LET b == At(x, c, n + 1)
           IN  /\ Run(lens, a, SubSeq(x, 1, n), b)
               /\ Run(lens, b, SubSeq(x, n + 1, Len(x)), c)
<1> DEFINE b == At(x, c, n + 1)
           y == SubSeq(x, 1, n)
           z == SubSeq(x, n + 1, Len(x))
<1>1. /\ Len(x) \in Nat /\ n \in Nat /\ n <= Len(x)
      /\ y \in Seq(Bytes) /\ Len(y) = n
      /\ \A k \in 1..n : y[k] = x[k]
  OBVIOUS
<1>2. /\ z \in Seq(Bytes) /\ Len(z) = Len(x) - n
      /\ \A k \in 1..(Len(x) - n) : z[k] = x[n + k]
  BY <1>1
<1> HIDE DEF y, z
<1>3. \A k \in 1..(n + 1) : At(y, b, k) = At(x, c, k)
  BY <1>1 DEF At
<1>4. \A k \in 1..(Len(z) + 1) : At(z, c, k) = At(x, c, n + k)
  BY <1>1, <1>2 DEF At
<1>5. Run(lens, a, y, b)
  BY <1>1, <1>3 DEF Run
<1>6. Run(lens, b, z, c)
  <2>1. At(z, c, 1) = b
    BY <1>1, <1>2, <1>4
  <2>2. ASSUME NEW k \in 1..Len(z) PROVE At(z, c, k + 1) = After(lens, z[k])
    <3>1. At(z, c, k + 1) = At(x, c, (n + k) + 1) /\ z[k] = x[n + k] /\ n + k \in 1..Len(x)
      BY <1>1, <1>2, <1>4
    <3> QED BY <3>1 DEF Run
  <2> QED BY <2>1, <2>2 DEF Run
<1> QED BY <1>5, <1>6 DEF y, z

(* A datagram that was sent runs to the start of the next one. *)
LEMMA RunDatagram ==
    ASSUME NEW lens, NEW i \in Nat, NEW length \in Nat \ {0}, lens[i] = length
    PROVE  /\ Datagram(i, length) \in Seq(Bytes)
           /\ Len(Datagram(i, length)) = length
           /\ \A k \in 1..length : Datagram(i, length)[k] = <<i, k>>
           /\ Run(lens, <<i, 1>>, Datagram(i, length), <<i + 1, 1>>)
<1> DEFINE d == Datagram(i, length)
<1>1. /\ d \in Seq(Bytes) /\ Len(d) = length
      /\ \A k \in 1..length : d[k] = <<i, k>>
  BY DEF Datagram, Bytes
<1> HIDE DEF d
<1>2. At(d, <<i + 1, 1>>, 1) = <<i, 1>>
  BY <1>1 DEF At
<1>3. ASSUME NEW k \in 1..Len(d)
      PROVE  At(d, <<i + 1, 1>>, k + 1) = After(lens, d[k])
  <2>1. d[k] = <<i, k>> /\ k \in Nat /\ k <= length /\ d[k][1] = i /\ d[k][2] = k
    BY <1>1
  <2>2. After(lens, d[k]) = IF k < length THEN <<i, k + 1>> ELSE <<i + 1, 1>>
    BY <2>1 DEF After
  <2>3. CASE k < length
    <3>1. d[k + 1] = <<i, k + 1>> /\ k + 1 <= Len(d)
      BY <1>1, <2>1, <2>3
    <3>2. At(d, <<i + 1, 1>>, k + 1) = d[k + 1]
      BY <3>1 DEF At
    <3> QED BY <2>2, <2>3, <3>1, <3>2
  <2>4. CASE k = length
    BY <1>1, <2>1, <2>2, <2>4 DEF At
  <2> QED BY <1>1, <2>1, <2>3, <2>4
<1> QED BY <1>1, <1>2, <1>3 DEF Run, d

(* More datagrams do not change what follows a byte. *)
LEMMA RunGrows ==
    ASSUME NEW lens \in Seq(Nat), NEW length \in Nat, NEW a, NEW c,
           NEW x \in Seq(SentBytes(lens)), Run(lens, a, x, c)
    PROVE  Run(Append(lens, length), a, x, c)
<1>1. ASSUME NEW b \in SentBytes(lens)
      PROVE  After(Append(lens, length), b) = After(lens, b)
  BY DEF SentBytes, Bytes, After
<1>2. \A k \in 1..Len(x) : x[k] \in SentBytes(lens)
  OBVIOUS
<1> QED BY <1>1, <1>2 DEF Run

-----------------------------------------------------------------------------
(* Buffers. *)

Buffers(S) == {b \in [content : Seq(S), n : Nat] : b.n <= Len(b.content)}

(* A read leaves exactly what it has read, whatever the buffer held. *)
LEMMA FillFilled ==
    ASSUME NEW S, NEW buffer \in Buffers(S), NEW x \in Seq(S)
    PROVE  Fill(buffer, x) \in Buffers(S) /\ Filled(Fill(buffer, x)) = x
<1> DEFINE rest == SubSeq(buffer.content, Len(x) + 1, Len(buffer.content))
           f == Fill(buffer, x)
<1>1. buffer.content \in Seq(S) /\ Len(x) \in Nat
  BY DEF Buffers
<1>2. rest \in Seq(S)
  BY <1>1
<1> HIDE DEF rest
<1>3. f.content = x \o rest /\ f.n = Len(x) /\ f \in [content : Seq(S), n : Nat]
  BY <1>1, <1>2 DEF Fill, rest
<1>4. /\ x \o rest \in Seq(S) /\ Len(x) <= Len(x \o rest)
      /\ SubSeq(x \o rest, 1, Len(x)) = x
  BY <1>1, <1>2
<1> HIDE DEF f
<1> QED BY <1>3, <1>4 DEF Buffers, Filled, f

LEMMA FilledType ==
    ASSUME NEW S, NEW buffer \in Buffers(S)
    PROVE  Filled(buffer) \in Seq(S)
BY DEF Buffers, Filled

-----------------------------------------------------------------------------
(* The invariant. *)

RelayTypes ==
    /\ phase \in [Sides -> {"request", "answered", "relay", "failed", "closed"}]
    /\ tcpToUdp \in [Sides -> {"off", "read", "write", "ended"}]
    /\ udpToTcp \in [Sides -> {"off", "read", "write", "wait", "ended"}]
    /\ sent \in [Sides -> Seq(1..MaxLength)]
    /\ DOMAIN stream = Sides /\ DOMAIN inbox = Sides /\ DOMAIN delivered = Sides
    /\ DOMAIN tub = Sides /\ DOMAIN utb = Sides
    /\ \A s \in Sides :
           /\ stream[s] \in Seq(SentBytes(sent[s]))
           /\ inbox[s] \in Seq(Seq(SentBytes(sent[s])))
           /\ utb[s] \in Buffers(SentBytes(sent[s]))
           /\ tub[Other(s)] \in Buffers(SentBytes(sent[s]))
           /\ delivered[Other(s)] \in Seq(Seq(SentBytes(sent[s])))

(* Before its relay starts a side has neither loop. *)
NotStarted ==
    \A s \in Sides :
        /\ phase[s] \in {"request", "answered"} =>
               tcpToUdp[s] = "off" /\ udpToTcp[s] = "off"
        /\ tcpToUdp[s] = "off" => delivered[s] = <<>>

(* The datagrams that wait at the socket are the last ones sent. *)
FirstWaiting(lens, box) == Len(lens) - Len(box) + 1
Waiting(lens, box) ==
    /\ Len(box) <= Len(lens)
    /\ \A k \in 1..Len(box) :
           LET i == FirstWaiting(lens, box) + k - 1 IN box[k] = Datagram(i, lens[i])

LEMMA WaitingIntro ==
    ASSUME NEW lens, NEW box, NEW i, i = FirstWaiting(lens, box), Len(box) <= Len(lens),
           \A k \in 1..Len(box) : box[k] = Datagram(i + k - 1, lens[i + k - 1])
    PROVE  Waiting(lens, box)
BY DEF Waiting

(* The byte b follows what has been delivered. *)
Follows(lens, out, b) ==
    out # <<>> => LET d == out[Len(out)] IN b = After(lens, d[Len(d)])

(* The loops of a direction that still run connect what is before them     *)
(* with what is behind: t is the first byte of the connection, u the first *)
(* byte that is not yet written to it.                                     *)
Sending(s, u) ==
    LET next == <<FirstWaiting(sent[s], inbox[s]), 1>>
    IN  /\ udpToTcp[s] \in {"off", "read"} => u = next
        /\ udpToTcp[s] = "write" => Run(sent[s], u, Filled(utb[s]), next)
Receiving(s, t) ==
    LET out == delivered[Other(s)]
        piece == Filled(tub[Other(s)])
    IN  /\ tcpToUdp[Other(s)] = "read" => Follows(sent[s], out, t)
        /\ tcpToUdp[Other(s)] = "write" =>
               /\ piece # <<>>
               /\ Follows(sent[s], out, piece[1])
               /\ Run(sent[s], piece[1], piece, t)
Flow(s) ==
    \E t, u \in Bytes :
        Receiving(s, t) /\ Run(sent[s], t, stream[s], u) /\ Sending(s, u)

RelayInv ==
    /\ RelayTypes
    /\ NotStarted
    /\ StreamKept
    /\ \A s \in Sides : Waiting(sent[s], inbox[s]) /\ Flow(s)

LEMMA OtherSide ==
    ASSUME NEW s \in Sides
    PROVE  Other(s) \in Sides /\ Other(Other(s)) = s /\ Other(s) # s
BY DEF Sides, Other

(* Bytes that follow each other, of one datagram and from one to the next. *)
Kept(lens, out) ==
    \A i \in 1..Len(out) :
        /\ out[i] # <<>>
        /\ \A k \in 1..(Len(out[i]) - 1) : out[i][k + 1] = After(lens, out[i][k])
        /\ i < Len(out) => out[i + 1][1] = After(lens, out[i][Len(out[i])])

LEMMA KeptStream ==
    /\ StreamKept <=> \A s \in Sides : Kept(sent[s], delivered[Other(s)])
    /\ StreamKept' <=> \A s \in Sides : Kept(sent'[s], delivered'[Other(s)])
<1>1. StreamKept <=> \A s \in Sides : Kept(sent[Other(s)], delivered[s])
  BY DEF StreamKept, Kept, ByteAfter, After
<1>2. StreamKept' <=> \A s \in Sides : Kept(sent'[Other(s)], delivered'[s])
  BY DEF StreamKept, Kept, ByteAfter, After
<1> QED BY <1>1, <1>2, OtherSide

LEMMA InitRelay == Init => RelayInv
<1> SUFFICES ASSUME Init PROVE RelayInv
  OBVIOUS
<1>1. ASSUME NEW s \in Sides
      PROVE  /\ sent[s] = <<>> /\ stream[s] = <<>> /\ inbox[s] = <<>>
             /\ delivered[s] = <<>> /\ tub[s] = Empty /\ utb[s] = Empty
             /\ tcpToUdp[s] = "off" /\ udpToTcp[s] = "off" /\ phase[s] = "request"
  BY DEF Init
<1>2. \A S : Empty \in Buffers(S)
  BY DEF Empty, Buffers
<1>3. RelayTypes
  BY <1>1, <1>2, OtherSide DEF Init, RelayTypes
<1>4. NotStarted
  BY <1>1 DEF NotStarted
<1>5. StreamKept
  BY <1>1, OtherSide, KeptStream DEF Kept
<1>6. ASSUME NEW s \in Sides PROVE Waiting(sent[s], inbox[s]) /\ Flow(s)
  <2>1. FirstWaiting(sent[s], inbox[s]) = 1 /\ Waiting(sent[s], inbox[s])
    <3>1. Len(sent[s]) = 0 /\ Len(inbox[s]) = 0
      BY <1>1
    <3> QED BY <3>1 DEF FirstWaiting, Waiting
  <2>2. <<1, 1>> \in Bytes
    BY DEF Bytes
  <2>3. Receiving(s, <<1, 1>>) /\ Sending(s, <<1, 1>>)
    BY <1>1, <2>1, OtherSide DEF Receiving, Sending
  <2>4. Run(sent[s], <<1, 1>>, stream[s], <<1, 1>>)
    BY <1>1, RunEmpty
  <2> QED BY <2>1, <2>2, <2>3, <2>4 DEF Flow
<1> QED BY <1>3, <1>4, <1>5, <1>6 DEF RelayInv

(* A direction whose bytes stay where they are: its loops may have ended.  *)
LEMMA FrameFlow ==
    ASSUME RelayInv, NEW s \in Sides,
           sent'[s] = sent[s], inbox'[s] = inbox[s], stream'[s] = stream[s],
           utb'[s] = utb[s], tub'[Other(s)] = tub[Other(s)],
           delivered'[Other(s)] = delivered[Other(s)],
           tcpToUdp'[Other(s)] \in {tcpToUdp[Other(s)], "ended"},
           \/ udpToTcp'[s] \in {udpToTcp[s], "wait", "ended"}
           \/ udpToTcp[s] = "off" /\ udpToTcp'[s] = "read"
    PROVE  Flow(s)' /\ Waiting(sent'[s], inbox'[s])
<1>1. PICK t \in Bytes, u \in Bytes :
          Receiving(s, t) /\ Run(sent[s], t, stream[s], u) /\ Sending(s, u)
  BY DEF RelayInv, Flow
<1>2. Receiving(s, t)'
  BY <1>1 DEF Receiving
<1>3. Sending(s, u)'
  BY <1>1 DEF Sending
<1>4. Run(sent'[s], t, stream'[s], u)
  BY <1>1
<1>5. Flow(s)'
  BY <1>2, <1>3, <1>4 DEF Flow
<1> QED BY <1>5 DEF RelayInv

(* Steps that move no byte. *)
LEMMA ControlInv ==
    ASSUME RelayInv, UNCHANGED <<stream, inbox, tub, utb, sent, delivered>>,
           phase' \in [Sides -> {"request", "answered", "relay", "failed", "closed"}],
           tcpToUdp' \in [Sides -> {"off", "read", "write", "ended"}],
           udpToTcp' \in [Sides -> {"off", "read", "write", "wait", "ended"}],
           NotStarted',
           \A s \in Sides : /\ tcpToUdp'[s] \in {tcpToUdp[s], "ended"}
                            /\ udpToTcp'[s] \in {udpToTcp[s], "wait", "ended"}
    PROVE  RelayInv'
<1>1. RelayTypes'
  BY DEF RelayInv, RelayTypes
<1>2. \A s \in Sides : Flow(s)' /\ Waiting(sent'[s], inbox'[s])
  BY FrameFlow, OtherSide
<1>3. StreamKept'
  BY KeptStream DEF RelayInv
<1> QED BY <1>1, <1>2, <1>3 DEF RelayInv

LEMMA ControlSteps ==
    ASSUME RelayInv, NEW s \in Sides,
           \/ Answer \/ EstablishRelayFails \/ ListenUDPFails \/ Collect \/ Break
           \/ ReadTcpFails(s) \/ WriteUdpFails(s) \/ BreakUdpToTcp(s) \/ Return(s)
           \/ UNCHANGED vars
    PROVE  RelayInv'
<1> USE DEF RelayInv, RelayTypes, NotStarted, ends, loops
<1>s. {"client", "server"} = Sides
  BY DEF Sides
<1>1. CASE Answer
  BY <1>s, <1>1, ControlInv DEF Answer
<1>2. CASE EstablishRelayFails
  BY <1>s, <1>2, ControlInv DEF EstablishRelayFails
<1>3. CASE ListenUDPFails
  BY <1>s, <1>3, ControlInv DEF ListenUDPFails
<1>4. CASE Collect \/ Break
  BY <1>4, ControlInv DEF Collect, Break
<1>5. CASE ReadTcpFails(s) \/ WriteUdpFails(s)
  <2>1. /\ tcpToUdp' = [tcpToUdp EXCEPT ![s] = "ended"] /\ tcpToUdp[s] \in {"read", "write"}
        /\ UNCHANGED <<phase, udpToTcp, stream, inbox, tub, utb, sent, delivered>>
    BY <1>5 DEF ReadTcpFails, WriteUdpFails, StopTcpToUdp
  <2>2. /\ tcpToUdp' \in [Sides -> {"off", "read", "write", "ended"}]
        /\ \A r \in Sides : tcpToUdp'[r] \in {tcpToUdp[r], "ended"}
        /\ NotStarted'
    BY <2>1
  <2> QED BY <2>1, <2>2, ControlInv
<1>6. CASE BreakUdpToTcp(s)
  BY <1>6, ControlInv DEF BreakUdpToTcp
<1>7. CASE Return(s)
  BY <1>7, ControlInv DEF Return
<1>8. CASE UNCHANGED vars
  BY <1>8, ControlInv DEF vars
<1> QED BY <1>1, <1>2, <1>3, <1>4, <1>5, <1>6, <1>7, <1>8

LEMMA BytesSent ==
    ASSUME NEW lens, NEW x \in Seq(SentBytes(lens))
    PROVE  x \in Seq(Bytes) /\ \A k \in 1..Len(x) : x[k] \in Bytes
BY DEF SentBytes

(* The relay of a side starts; the first bytes of the other side may have  *)
(* been read by somebody else.                                             *)
LEMMA StartRelayInv ==
    ASSUME RelayInv, NEW x \in Sides, phase[x] \in {"request", "answered"},
           NEW skipped \in 0..Len(stream[Other(x)]), StartRelay(x, skipped)
    PROVE  RelayInv'
<1>0. PICK s \in Sides : s = Other(x) /\ Other(s) = x /\ s # x
  BY OtherSide
<1>1. /\ phase' = [phase EXCEPT ![x] = "relay"]
      /\ tcpToUdp' = [tcpToUdp EXCEPT ![x] = "read"]
      /\ udpToTcp' = [udpToTcp EXCEPT ![x] = "read"]
      /\ stream' = [stream EXCEPT ![s] = SubSeq(stream[s], skipped + 1, Len(stream[s]))]
      /\ UNCHANGED <<inbox, tub, utb, sent, delivered>>
  BY <1>0 DEF StartRelay
<1>2. \A r \in Sides : r = s \/ r = x
  BY <1>0 DEF Sides
<1>3. /\ stream[s] \in Seq(SentBytes(sent[s]))
      /\ DOMAIN stream = Sides
      /\ tcpToUdp[x] = "off" /\ udpToTcp[x] = "off" /\ delivered[x] = <<>>
  BY DEF RelayInv, RelayTypes, NotStarted
<1>4. /\ stream'[s] = SubSeq(stream[s], skipped + 1, Len(stream[s]))
      /\ stream'[s] \in Seq(SentBytes(sent[s])) /\ stream'[x] = stream[x]
      /\ DOMAIN stream' = Sides
  <2>1. Len(stream[s]) \in Nat /\ skipped \in Nat
    BY <1>0, <1>3
  <2>2. SubSeq(stream[s], skipped + 1, Len(stream[s])) \in Seq(SentBytes(sent[s]))
    BY <1>3, <2>1
  <2> QED BY <1>0, <1>1, <1>3, <2>2
<1>5. /\ tcpToUdp'[x] = "read" /\ udpToTcp'[x] = "read" /\ phase'[x] = "relay"
      /\ tcpToUdp'[s] = tcpToUdp[s] /\ udpToTcp'[s] = udpToTcp[s] /\ phase'[s] = phase[s]
  BY <1>0, <1>1 DEF RelayInv, RelayTypes
<1>6. RelayTypes'
  <2>1. /\ phase' \in [Sides -> {"request", "answered", "relay", "failed", "closed"}]
        /\ tcpToUdp' \in [Sides -> {"off", "read", "write", "ended"}]
        /\ udpToTcp' \in [Sides -> {"off", "read", "write", "wait", "ended"}]
    BY <1>1 DEF RelayInv, RelayTypes
  <2> QED BY <1>1, <1>2, <1>4, <2>1 DEF RelayInv, RelayTypes
<1>7. NotStarted'
  BY <1>1, <1>2, <1>5 DEF RelayInv, NotStarted
<1>8. StreamKept'
  BY <1>1, KeptStream DEF RelayInv
<1>9. Flow(x)' /\ Waiting(sent'[x], inbox'[x])
  BY <1>0, <1>1, <1>3, <1>4, <1>5, FrameFlow
<1>10. Flow(s)'
  <2>1. PICK t \in Bytes, u \in Bytes :
            Receiving(s, t) /\ Run(sent[s], t, stream[s], u) /\ Sending(s, u)
    BY DEF RelayInv, Flow
  <2>2. PICK b \in Bytes : b = At(stream[s], u, skipped + 1)
    <3>1. At(stream[s], u, skipped + 1) \in Bytes
      BY <1>0, <1>3, BytesSent DEF At
    <3> QED BY <3>1
  <2>3. Run(sent[s], b, stream'[s], u)
    BY <1>0, <1>3, <1>4, <2>1, <2>2, BytesSent, RunSplit
  <2>4. Receiving(s, b)'
    BY <1>0, <1>1, <1>3, <1>5 DEF Receiving, Follows
  <2>5. Sending(s, u)'
    BY <1>1, <1>5, <2>1 DEF Sending
  <2>6. Run(sent'[s], b, stream'[s], u)
    BY <1>1, <2>3
  <2> QED BY <2>4, <2>5, <2>6 DEF Flow
<1>11. Waiting(sent'[s], inbox'[s])
  BY <1>1 DEF RelayInv
<1> QED BY <1>2, <1>6, <1>7, <1>8, <1>9, <1>10, <1>11 DEF RelayInv

(* A loop reads any number of bytes of the connection. *)
LEMMA ReadTcpInv ==
    ASSUME RelayInv, NEW x \in Sides, ReadTcp(x)
    PROVE  RelayInv'
<1>0. PICK s \in Sides : s = Other(x) /\ Other(s) = x /\ s # x
  BY OtherSide
<1>1. PICK n \in 1..BufSize :
          /\ n <= Len(stream[s])
          /\ tub' = [tub EXCEPT ![x] = Fill(tub[x], SubSeq(stream[s], 1, n))]
          /\ stream' = [stream EXCEPT ![s] = SubSeq(stream[s], n + 1, Len(stream[s]))]
  BY <1>0 DEF ReadTcp
<1>2. /\ tcpToUdp[x] = "read"
      /\ tcpToUdp' = [tcpToUdp EXCEPT ![x] = "write"]
      /\ UNCHANGED <<phase, udpToTcp, inbox, utb, sent, delivered>>
  BY DEF ReadTcp, ends
<1>3. \A r \in Sides : r = s \/ r = x
  BY <1>0 DEF Sides
<1> DEFINE S == SentBytes(sent[s])
           piece == SubSeq(stream[s], 1, n)
<1>4. /\ stream[s] \in Seq(S) /\ DOMAIN stream = Sides /\ DOMAIN tub = Sides
      /\ tub[x] \in Buffers(S)
      /\ Len(stream[s]) \in Nat /\ n \in Nat /\ n \in 0..Len(stream[s]) /\ n >= 1
  <2>1. stream[s] \in Seq(S) /\ DOMAIN stream = Sides /\ DOMAIN tub = Sides
        /\ tub[Other(s)] \in Buffers(S)
    BY DEF RelayInv, RelayTypes
  <2> QED BY <1>0, <1>1, <2>1, RelayAssumption
<1>5. /\ piece \in Seq(S) /\ Len(piece) = n /\ piece[1] = stream[s][1] /\ piece # <<>>
      /\ SubSeq(stream[s], n + 1, Len(stream[s])) \in Seq(S)
  BY <1>4
<1> HIDE DEF S, piece
<1>6. /\ tub'[x] \in Buffers(S) /\ Filled(tub'[x]) = piece /\ tub'[s] = tub[s]
      /\ DOMAIN tub' = Sides
  <2>1. tub'[x] = Fill(tub[x], piece) /\ tub'[s] = tub[s] /\ DOMAIN tub' = Sides
    BY <1>0, <1>1, <1>4 DEF piece
  <2> QED BY <1>4, <1>5, <2>1, FillFilled
<1>7. /\ stream'[s] = SubSeq(stream[s], n + 1, Len(stream[s])) /\ stream'[x] = stream[x]
      /\ stream'[s] \in Seq(S) /\ DOMAIN stream' = Sides
  BY <1>0, <1>1, <1>4, <1>5
<1>8. /\ tcpToUdp'[x] = "write" /\ tcpToUdp'[s] = tcpToUdp[s]
      /\ tcpToUdp' \in [Sides -> {"off", "read", "write", "ended"}]
  BY <1>0, <1>2 DEF RelayInv, RelayTypes
<1>9. RelayTypes'
  BY <1>0, <1>2, <1>3, <1>6, <1>7, <1>8 DEF RelayInv, RelayTypes, S
<1>10. NotStarted'
  BY <1>2, <1>3, <1>8 DEF RelayInv, NotStarted
<1>11. StreamKept'
  BY <1>2, KeptStream DEF RelayInv
<1>12. Flow(x)' /\ Waiting(sent'[x], inbox'[x])
  BY <1>0, <1>2, <1>6, <1>7, <1>8, FrameFlow
<1>13. Flow(s)'
  <2>1. PICK t \in Bytes, u \in Bytes :
            Receiving(s, t) /\ Run(sent[s], t, stream[s], u) /\ Sending(s, u)
    BY DEF RelayInv, Flow
  <2>2. PICK b \in Bytes : b = At(stream[s], u, n + 1)
    <3>1. At(stream[s], u, n + 1) \in Bytes
      BY <1>4, BytesSent DEF At, S
    <3> QED BY <3>1
  <2>3. Run(sent[s], t, piece, b) /\ Run(sent[s], b, stream'[s], u)
    BY <1>4, <1>7, <2>1, <2>2, BytesSent, RunSplit DEF S, piece
  <2>4. t = piece[1]
    BY <1>4, <1>5, <2>1 DEF Run, At
  <2>5. Follows(sent[s], delivered[x], t)
    BY <1>0, <1>2, <2>1 DEF Receiving
  <2>6. Receiving(s, b)'
    BY <1>0, <1>2, <1>5, <1>6, <1>8, <2>3, <2>4, <2>5 DEF Receiving
  <2>7. Sending(s, u)'
    BY <1>2, <2>1 DEF Sending
  <2>8. Run(sent'[s], b, stream'[s], u)
    BY <1>2, <2>3
  <2> QED BY <2>6, <2>7, <2>8 DEF Flow
<1>14. Waiting(sent'[s], inbox'[s])
  BY <1>2 DEF RelayInv
<1> QED BY <1>3, <1>9, <1>10, <1>11, <1>12, <1>13, <1>14 DEF RelayInv

(* What was read is written to the socket as one datagram. *)
LEMMA WriteUdpInv ==
    ASSUME RelayInv, NEW x \in Sides, WriteUdp(x)
    PROVE  RelayInv'
<1>0. PICK s \in Sides : s = Other(x) /\ Other(s) = x /\ s # x
  BY OtherSide
<1>1. /\ tcpToUdp[x] = "write"
      /\ delivered' = [delivered EXCEPT ![x] = Append(delivered[x], Filled(tub[x]))]
      /\ tcpToUdp' = [tcpToUdp EXCEPT ![x] = "read"]
      /\ UNCHANGED <<phase, udpToTcp, stream, inbox, tub, utb, sent>>
  BY DEF WriteUdp, ends
<1>2. \A r \in Sides : r = s \/ r = x
  BY <1>0 DEF Sides
<1>3. /\ delivered[x] \in Seq(Seq(SentBytes(sent[s]))) /\ DOMAIN delivered = Sides
      /\ tub[x] \in Buffers(SentBytes(sent[s]))
  BY <1>0 DEF RelayInv, RelayTypes
<1>4. PICK out, piece, lens :
          out = delivered[x] /\ piece = Filled(tub[x]) /\ lens = sent[s]
  OBVIOUS
<1>5. out \in Seq(Seq(SentBytes(lens))) /\ piece \in Seq(SentBytes(lens))
  BY <1>3, <1>4, FilledType
<1>6. /\ delivered'[x] = Append(out, piece) /\ delivered'[s] = delivered[s]
      /\ DOMAIN delivered' = Sides
  BY <1>0, <1>1, <1>3, <1>4
<1>7. /\ Append(out, piece) \in Seq(Seq(SentBytes(lens)))
      /\ Len(Append(out, piece)) = Len(out) + 1 /\ Len(out) \in Nat
      /\ Append(out, piece)[Len(out) + 1] = piece
      /\ \A i \in 1..Len(out) : Append(out, piece)[i] = out[i]
  BY <1>5
<1>8. /\ tcpToUdp'[x] = "read" /\ tcpToUdp'[s] = tcpToUdp[s]
      /\ tcpToUdp' \in [Sides -> {"off", "read", "write", "ended"}]
  BY <1>0, <1>1 DEF RelayInv, RelayTypes
<1>9. PICK t \in Bytes, u \in Bytes :
          Receiving(s, t) /\ Run(lens, t, stream[s], u) /\ Sending(s, u)
  BY <1>4 DEF RelayInv, Flow
<1>10. /\ piece # <<>> /\ Follows(lens, out, piece[1]) /\ Run(lens, piece[1], piece, t)
  BY <1>0, <1>1, <1>4, <1>9 DEF Receiving
<1>11. Len(piece) \in Nat /\ Len(piece) >= 1
  BY <1>5, <1>10
<1>12. t = After(lens, piece[Len(piece)])
  BY <1>11, <1>10 DEF Run, At
<1>13. \A k \in 1..(Len(piece) - 1) : piece[k + 1] = After(lens, piece[k])
  BY <1>11, <1>10 DEF Run, At
<1>14. Kept(lens, Append(out, piece))
  <2>1. Kept(lens, out)
    BY <1>0, <1>4, KeptStream DEF RelayInv
  <2> DEFINE all == Append(out, piece)
  <2> SUFFICES ASSUME NEW i \in 1..Len(all)
               PROVE  /\ all[i] # <<>>
                      /\ \A k \in 1..(Len(all[i]) - 1) : all[i][k + 1] = After(lens, all[i][k])
                      /\ i < Len(all) => all[i + 1][1] = After(lens, all[i][Len(all[i])])
    BY DEF Kept
  <2>2. CASE i = Len(out) + 1
    <3>1. all[i] = piece /\ ~(i < Len(all))
      BY <1>7, <2>2
    <3> HIDE DEF all
    <3> QED BY <1>10, <1>13, <3>1
  <2>3. CASE i <= Len(out)
    <3>1. i \in 1..Len(out) /\ all[i] = out[i]
      BY <1>7, <2>3
    <3>2. /\ out[i] # <<>>
          /\ \A k \in 1..(Len(out[i]) - 1) : out[i][k + 1] = After(lens, out[i][k])
          /\ i < Len(out) => out[i + 1][1] = After(lens, out[i][Len(out[i])])
      BY <2>1, <3>1 DEF Kept
    <3>3. CASE i < Len(out)
      <4>1. all[i + 1] = out[i + 1]
        BY <1>7, <3>1, <3>3
      <4> HIDE DEF all
      <4> QED BY <3>1, <3>2, <3>3, <4>1
    <3>4. CASE i = Len(out)
      <4>1. all[i + 1] = piece /\ out # <<>>
        BY <1>7, <3>1, <3>4
      <4>2. piece[1] = After(lens, out[i][Len(out[i])])
        BY <1>10, <3>4, <4>1 DEF Follows
      <4> HIDE DEF all
      <4> QED BY <3>1, <3>2, <3>4, <4>1, <4>2
    <3>5. i < Len(out) \/ i = Len(out)
      BY <1>7, <3>1
    <3> QED BY <3>3, <3>4, <3>5
  <2> QED BY <1>7, <2>2, <2>3
<1>15. StreamKept'
  <2>1. Kept(sent'[s], delivered'[Other(s)])
    BY <1>0, <1>1, <1>4, <1>6, <1>14
  <2>2. Kept(sent'[x], delivered'[Other(x)])
    BY <1>0, <1>1, <1>6, KeptStream DEF RelayInv
  <2> QED BY <1>2, <2>1, <2>2, KeptStream
<1>16. RelayTypes'
  <2>1. delivered'[Other(s)] \in Seq(Seq(SentBytes(sent'[s])))
    BY <1>0, <1>1, <1>4, <1>6, <1>7
  <2>2. delivered'[Other(x)] \in Seq(Seq(SentBytes(sent'[x])))
    BY <1>0, <1>1, <1>6 DEF RelayInv, RelayTypes
  <2>3. \A r \in Sides : delivered'[Other(r)] \in Seq(Seq(SentBytes(sent'[r])))
    BY <1>2, <2>1, <2>2
  <2> QED BY <1>1, <1>6, <1>8, <2>3 DEF RelayInv, RelayTypes
<1>17. NotStarted'
  BY <1>1, <1>2, <1>6, <1>8 DEF RelayInv, NotStarted
<1>18. Flow(x)' /\ Waiting(sent'[x], inbox'[x])
  BY <1>0, <1>1, <1>6, <1>8, FrameFlow
<1>19. Flow(s)'
  <2>1. Append(out, piece)[Len(Append(out, piece))] = piece
    BY <1>7
  <2>2. Follows(lens, Append(out, piece), t)
    BY <1>12, <2>1 DEF Follows
  <2>3. Receiving(s, t)'
    BY <1>0, <1>1, <1>4, <1>6, <1>8, <2>2 DEF Receiving
  <2>4. Sending(s, u)'
    BY <1>1, <1>9 DEF Sending
  <2>5. Run(sent'[s], t, stream'[s], u)
    BY <1>1, <1>4, <1>9
  <2> QED BY <2>3, <2>4, <2>5 DEF Flow
<1>20. Waiting(sent'[s], inbox'[s])
  BY <1>1 DEF RelayInv
<1> QED BY <1>2, <1>15, <1>16, <1>17, <1>18, <1>19, <1>20 DEF RelayInv

(* The next datagram is read from the socket, whole. *)
LEMMA ReadUdpInv ==
    ASSUME RelayInv, NEW x \in Sides, ReadUdp(x)
    PROVE  RelayInv'
<1>0. PICK s \in Sides : s = Other(x) /\ Other(s) = x /\ s # x
  BY OtherSide
<1>1. PICK box, lens : box = inbox[x] /\ lens = sent[x]
  OBVIOUS
<1>2. /\ udpToTcp[x] = "read" /\ box # <<>>
      /\ utb' = [utb EXCEPT ![x] =
                    Fill(utb[x], SubSeq(Head(box), 1, Min({BufSize, Len(Head(box))})))]
      /\ inbox' = [inbox EXCEPT ![x] = Tail(box)]
      /\ udpToTcp' = [udpToTcp EXCEPT ![x] = "write"]
      /\ UNCHANGED <<phase, tcpToUdp, stream, tub, sent, delivered>>
  BY <1>1 DEF ReadUdp, ends
<1>3. \A r \in Sides : r = s \/ r = x
  BY <1>0 DEF Sides
<1>4. /\ lens \in Seq(1..MaxLength) /\ box \in Seq(Seq(SentBytes(lens)))
      /\ Waiting(lens, box)
      /\ DOMAIN inbox = Sides /\ DOMAIN utb = Sides
      /\ utb[x] \in Buffers(SentBytes(lens))
  BY <1>1 DEF RelayInv, RelayTypes
<1> DEFINE i == FirstWaiting(lens, box)
           d == Head(box)
<1>5. /\ Len(box) \in Nat /\ Len(lens) \in Nat /\ Len(box) >= 1 /\ Len(box) <= Len(lens)
      /\ i \in 1..Len(lens)
  BY <1>2, <1>4 DEF FirstWaiting, Waiting
<1>6. d \in Seq(SentBytes(lens)) /\ d = box[1]
  BY <1>2, <1>4
<1>7. lens[i] \in 1..MaxLength /\ d = Datagram(i, lens[i])
  <2>1. lens[i] \in 1..MaxLength
    <3>0. lens \in Seq(1..MaxLength)
      BY <1>4
    <3> HIDE DEF i
    <3> QED BY <1>5, <3>0, SeqElement
  <2>2. box[1] = Datagram(i + 1 - 1, lens[i + 1 - 1]) /\ i + 1 - 1 = i
    BY <1>4, <1>5 DEF Waiting
  <2> QED BY <1>6, <2>1, <2>2
<1>8. /\ Len(d) = lens[i] /\ lens[i] \in Nat \ {0} /\ lens[i] <= BufSize
      /\ Run(lens, <<i, 1>>, d, <<i + 1, 1>>)
  <2>1. lens[i] \in Nat \ {0} /\ lens[i] <= BufSize
    BY <1>7, RelayAssumption
  <2> HIDE DEF i
  <2> QED BY <1>5, <1>7, <2>1, RunDatagram
<1>9. SubSeq(d, 1, Min({BufSize, Len(d)})) = d
  <2>1. Min({BufSize, Len(d)}) = Len(d)
    <3>1. Len(d) \in Nat /\ BufSize \in Nat /\ Len(d) <= BufSize
      BY <1>8, RelayAssumption
    <3> QED BY <3>1 DEF Min
  <2> HIDE DEF d
  <2> QED BY <1>6, <2>1
<1> HIDE DEF d, i
<1>10. /\ utb'[x] \in Buffers(SentBytes(lens)) /\ Filled(utb'[x]) = d
       /\ utb'[s] = utb[s] /\ DOMAIN utb' = Sides
  <2>1. utb'[x] = Fill(utb[x], d) /\ utb'[s] = utb[s] /\ DOMAIN utb' = Sides
    BY <1>0, <1>2, <1>4, <1>9 DEF d
  <2> QED BY <1>4, <1>6, <2>1, FillFilled
<1>11. /\ inbox'[x] = Tail(box) /\ inbox'[s] = inbox[s] /\ DOMAIN inbox' = Sides
  BY <1>0, <1>2, <1>4
<1>12. /\ Tail(box) \in Seq(Seq(SentBytes(lens))) /\ Len(Tail(box)) = Len(box) - 1
       /\ \A k \in 1..(Len(box) - 1) : Tail(box)[k] = box[k + 1]
  BY <1>2, <1>4
<1>13. FirstWaiting(lens, Tail(box)) = i + 1
  BY <1>5, <1>12 DEF FirstWaiting, i
<1>14. Waiting(lens, Tail(box))
  <2>. PICK j : j = i + 1
    OBVIOUS
  <2>w. j = FirstWaiting(lens, Tail(box)) /\ Len(Tail(box)) <= Len(lens)
    BY <1>5, <1>12, <1>13
  <2> SUFFICES ASSUME NEW k \in 1..Len(Tail(box))
               PROVE  Tail(box)[k] = Datagram(j + k - 1, lens[j + k - 1])
    BY <2>w, WaitingIntro
  <2>0. k \in 1..(Len(box) - 1)
    BY <1>12
  <2>1. Tail(box)[k] = box[k + 1]
    BY <1>12, <2>0
  <2>2. k + 1 \in 1..Len(box) /\ j + k - 1 = i + (k + 1) - 1
    BY <1>5, <2>0
  <2>3. box[k + 1] = Datagram(i + (k + 1) - 1, lens[i + (k + 1) - 1])
    BY <1>4, <2>2 DEF Waiting, i
  <2> QED BY <2>1, <2>2, <2>3
<1>15. /\ udpToTcp'[x] = "write" /\ udpToTcp'[s] = udpToTcp[s]
       /\ udpToTcp' \in [Sides -> {"off", "read", "write", "wait", "ended"}]
  BY <1>0, <1>2 DEF RelayInv, RelayTypes
<1>16. RelayTypes'
  <2>1. \A r \in Sides : /\ inbox'[r] \in Seq(Seq(SentBytes(sent'[r])))
                         /\ utb'[r] \in Buffers(SentBytes(sent'[r]))
    BY <1>1, <1>2, <1>3, <1>10, <1>11, <1>12 DEF RelayInv, RelayTypes
  <2> QED BY <1>2, <1>10, <1>11, <1>15, <2>1 DEF RelayInv, RelayTypes
<1>17. NotStarted'
  BY <1>2, <1>3, <1>15 DEF RelayInv, NotStarted
<1>18. StreamKept'
  BY <1>2, KeptStream DEF RelayInv
<1>19. Flow(s)' /\ Waiting(sent'[s], inbox'[s])
  BY <1>0, <1>2, <1>10, <1>11, <1>15, FrameFlow
<1>20. Flow(x)'
  <2>1. PICK t \in Bytes, u \in Bytes :
            Receiving(x, t) /\ Run(sent[x], t, stream[x], u) /\ Sending(x, u)
    BY DEF RelayInv, Flow
  <2>2. u = <<i, 1>>
    BY <1>1, <1>2, <2>1 DEF Sending, i
  <2>3. Run(lens, u, Filled(utb'[x]), <<FirstWaiting(lens, Tail(box)), 1>>)
    BY <1>8, <1>10, <1>13, <2>2
  <2>4. Sending(x, u)'
    BY <1>1, <1>2, <1>11, <1>15, <2>3 DEF Sending
  <2>5. Receiving(x, t)'
    BY <1>2, <2>1 DEF Receiving
  <2>6. Run(sent'[x], t, stream'[x], u)
    BY <1>2, <2>1
  <2> QED BY <2>4, <2>5, <2>6 DEF Flow
<1>21. Waiting(sent'[x], inbox'[x])
  BY <1>1, <1>2, <1>11, <1>14
<1> QED BY <1>3, <1>16, <1>17, <1>18, <1>19, <1>20, <1>21 DEF RelayInv

(* The buffer is written to the connection. *)
LEMMA WriteTcpInv ==
    ASSUME RelayInv, NEW x \in Sides, WriteTcp(x)
    PROVE  RelayInv'
<1>0. PICK s \in Sides : s = Other(x) /\ Other(s) = x /\ s # x
  BY OtherSide
<1>1. /\ udpToTcp[x] = "write"
      /\ stream' = [stream EXCEPT ![x] = stream[x] \o Filled(utb[x])]
      /\ udpToTcp' = [udpToTcp EXCEPT ![x] = "read"]
      /\ UNCHANGED <<phase, tcpToUdp, inbox, tub, utb, sent, delivered>>
  BY DEF WriteTcp, ends
<1>2. \A r \in Sides : r = s \/ r = x
  BY <1>0 DEF Sides
<1>3. /\ stream[x] \in Seq(SentBytes(sent[x])) /\ DOMAIN stream = Sides
      /\ Filled(utb[x]) \in Seq(SentBytes(sent[x]))
  BY FilledType DEF RelayInv, RelayTypes
<1>4. /\ stream'[x] = stream[x] \o Filled(utb[x]) /\ stream'[s] = stream[s]
      /\ DOMAIN stream' = Sides
      /\ stream[x] \o Filled(utb[x]) \in Seq(SentBytes(sent[x]))
  BY <1>0, <1>1, <1>3
<1>5. /\ udpToTcp'[x] = "read" /\ udpToTcp'[s] = udpToTcp[s]
      /\ udpToTcp' \in [Sides -> {"off", "read", "write", "wait", "ended"}]
  BY <1>0, <1>1 DEF RelayInv, RelayTypes
<1>6. RelayTypes'
  <2>1. \A r \in Sides : stream'[r] \in Seq(SentBytes(sent'[r]))
    BY <1>1, <1>2, <1>4 DEF RelayInv, RelayTypes
  <2> QED BY <1>1, <1>4, <1>5, <2>1 DEF RelayInv, RelayTypes
<1>7. NotStarted'
  BY <1>1, <1>2, <1>5 DEF RelayInv, NotStarted
<1>8. StreamKept'
  BY <1>1, KeptStream DEF RelayInv
<1>9. Flow(s)' /\ Waiting(sent'[s], inbox'[s])
  BY <1>0, <1>1, <1>4, <1>5, FrameFlow
<1>10. Flow(x)'
  <2>1. PICK t \in Bytes, u \in Bytes :
            Receiving(x, t) /\ Run(sent[x], t, stream[x], u) /\ Sending(x, u)
    BY DEF RelayInv, Flow
  <2>2. PICK v \in Bytes : v = <<FirstWaiting(sent[x], inbox[x]), 1>>
    <3>1. sent[x] \in Seq(1..MaxLength) /\ Len(inbox[x]) \in Nat
          /\ Len(inbox[x]) <= Len(sent[x])
      BY DEF RelayInv, RelayTypes, Waiting
    <3>2. FirstWaiting(sent[x], inbox[x]) \in Nat
      BY <3>1 DEF FirstWaiting
    <3> QED BY <3>2 DEF Bytes
  <2>3. Run(sent[x], u, Filled(utb[x]), v)
    BY <1>1, <2>1, <2>2 DEF Sending
  <2>4. Run(sent[x], t, stream[x] \o Filled(utb[x]), v)
    BY <1>3, <2>1, <2>3, BytesSent, RunJoin
  <2>5. Run(sent'[x], t, stream'[x], v)
    BY <1>1, <1>4, <2>4
  <2>6. Sending(x, v)'
    BY <1>1, <1>5, <2>2 DEF Sending
  <2>7. Receiving(x, t)'
    BY <1>1, <2>1 DEF Receiving
  <2> QED BY <2>5, <2>6, <2>7 DEF Flow
<1>11. Waiting(sent'[x], inbox'[x])
  BY <1>1 DEF RelayInv
<1> QED BY <1>2, <1>6, <1>7, <1>8, <1>9, <1>10, <1>11 DEF RelayInv

(* WireGuard sends a datagram: what is under way keeps its order. *)
LEMMA AfterGrows ==
    ASSUME NEW lens \in Seq(1..MaxLength), NEW length \in 1..MaxLength
    PROVE  /\ Append(lens, length) \in Seq(1..MaxLength)
           /\ SentBytes(lens) \subseteq SentBytes(Append(lens, length))
           /\ \A b \in SentBytes(lens) : After(Append(lens, length), b) = After(lens, b)
<1>1. /\ Append(lens, length) \in Seq(1..MaxLength)
      /\ Len(Append(lens, length)) = Len(lens) + 1 /\ Len(lens) \in Nat
      /\ \A k \in 1..Len(lens) : Append(lens, length)[k] = lens[k]
  OBVIOUS
<1>2. SentBytes(lens) \subseteq SentBytes(Append(lens, length))
  BY <1>1 DEF SentBytes
<1>3. \A b \in SentBytes(lens) : After(Append(lens, length), b) = After(lens, b)
  BY <1>1 DEF SentBytes, After
<1> QED BY <1>1, <1>2, <1>3

LEMMA BuffersGrow ==
    ASSUME NEW S, NEW T, S \subseteq T
    PROVE  /\ \A x \in Seq(S) : x \in Seq(T)
           /\ \A x \in Seq(Seq(S)) : x \in Seq(Seq(T))
           /\ \A b \in Buffers(S) : b \in Buffers(T)
<1>1. \A x \in Seq(S) : x \in Seq(T)
  OBVIOUS
<1>2. \A x \in Seq(Seq(S)) : x \in Seq(Seq(T))
  BY <1>1
<1>3. \A b \in Buffers(S) : b \in Buffers(T)
  BY <1>1 DEF Buffers
<1> QED BY <1>1, <1>2, <1>3

LEMMA KeptGrows ==
    ASSUME NEW lens \in Seq(1..MaxLength), NEW length \in 1..MaxLength,
           NEW out \in Seq(Seq(SentBytes(lens))), Kept(lens, out)
    PROVE  /\ Kept(Append(lens, length), out)
           /\ \A b : Follows(lens, out, b) => Follows(Append(lens, length), out, b)
<1>1. ASSUME NEW i \in 1..Len(out)
      PROVE  /\ out[i] \in Seq(SentBytes(lens)) /\ out[i] # <<>>
             /\ Len(out[i]) \in Nat /\ Len(out[i]) >= 1
             /\ \A k \in 1..Len(out[i]) : out[i][k] \in SentBytes(lens)
  <2>1. out[i] \in Seq(SentBytes(lens)) /\ out[i] # <<>>
    BY DEF Kept
  <2> QED BY <2>1
<1>2. ASSUME NEW i \in 1..Len(out), NEW k \in 1..Len(out[i])
      PROVE  After(Append(lens, length), out[i][k]) = After(lens, out[i][k])
  BY <1>1, AfterGrows
<1>3. Kept(Append(lens, length), out)
  <2> SUFFICES ASSUME NEW i \in 1..Len(out)
               PROVE  /\ \A k \in 1..(Len(out[i]) - 1) :
                             out[i][k + 1] = After(Append(lens, length), out[i][k])
                      /\ i < Len(out) =>
                             out[i + 1][1] = After(Append(lens, length), out[i][Len(out[i])])
    BY <1>1 DEF Kept
  <2>1. ASSUME NEW k \in 1..(Len(out[i]) - 1)
        PROVE  out[i][k + 1] = After(Append(lens, length), out[i][k])
    <3>1. k \in 1..Len(out[i])
      BY <1>1
    <3>2. out[i][k + 1] = After(lens, out[i][k])
      BY DEF Kept
    <3> QED BY <1>2, <3>1, <3>2
  <2>2. ASSUME i < Len(out)
        PROVE  out[i + 1][1] = After(Append(lens, length), out[i][Len(out[i])])
    <3>1. Len(out[i]) \in 1..Len(out[i])
      BY <1>1
    <3>2. out[i + 1][1] = After(lens, out[i][Len(out[i])])
      BY <2>2 DEF Kept
    <3> QED BY <1>2, <3>1, <3>2
  <2> QED BY <2>1, <2>2
<1>4. ASSUME NEW b, Follows(lens, out, b)
      PROVE  Follows(Append(lens, length), out, b)
  <2>1. CASE out = <<>>
    BY <2>1 DEF Follows
  <2>2. CASE out # <<>>
    <3>1. Len(out) \in 1..Len(out)
      BY <2>2
    <3>2. PICK d : d = out[Len(out)]
      OBVIOUS
    <3>3. Len(d) \in 1..Len(d)
      BY <1>1, <3>1, <3>2
    <3>4. After(Append(lens, length), d[Len(d)]) = After(lens, d[Len(d)])
      BY <1>2, <3>1, <3>2, <3>3
    <3> QED BY <1>4, <2>2, <3>2, <3>4 DEF Follows
  <2> QED BY <2>1, <2>2
<1> QED BY <1>3, <1>4

LEMMA WaitingGrows ==
    ASSUME NEW lens \in Seq(1..MaxLength), NEW length \in 1..MaxLength,
           NEW box \in Seq(Seq(SentBytes(lens))), Waiting(lens, box)
    PROVE  LET d == Datagram(Len(lens) + 1, length)
           IN  /\ Append(box, d) \in Seq(Seq(SentBytes(Append(lens, length))))
               /\ FirstWaiting(Append(lens, length), Append(box, d)) = FirstWaiting(lens, box)
               /\ Waiting(Append(lens, length), Append(box, d))
<1>1. PICK more, d : more = Append(lens, length) /\ d = Datagram(Len(lens) + 1, length)
  OBVIOUS
<1>2. /\ Len(lens) \in Nat /\ Len(box) \in Nat /\ Len(box) <= Len(lens)
      /\ Len(more) = Len(lens) + 1 /\ more[Len(lens) + 1] = length
      /\ \A k \in 1..Len(lens) : more[k] = lens[k]
  BY <1>1 DEF Waiting
<1>3. d \in Seq(SentBytes(more))
  <2>1. PICK j \in Nat : j = Len(lens) + 1 /\ more[j] = length /\ length \in Nat \ {0}
    BY <1>2, RelayAssumption
  <2>2. d \in Seq(Bytes) /\ Len(d) = length /\ \A k \in 1..length : d[k] = <<j, k>>
    <3>1. d = Datagram(j, length)
      BY <1>1, <2>1
    <3>2. /\ Datagram(j, length) \in Seq(Bytes) /\ Len(Datagram(j, length)) = length
          /\ \A k \in 1..length : Datagram(j, length)[k] = <<j, k>>
      <4>1. j \in Nat /\ length \in Nat \ {0} /\ more[j] = length
        BY <2>1
      <4> QED BY <4>1, RunDatagram
    <3> QED BY <3>1, <3>2
  <2>3. ASSUME NEW k \in 1..Len(d) PROVE d[k] \in SentBytes(more)
    <3>1. d[k] \in Bytes /\ d[k] = <<j, k>>
      BY <2>2
    <3>2. d[k][1] = Len(lens) + 1
      BY <2>1, <3>1
    <3> QED BY <1>2, <3>1, <3>2 DEF SentBytes
  <2> QED BY <2>2, <2>3
<1>4. box \in Seq(Seq(SentBytes(more)))
  BY <1>1, AfterGrows, BuffersGrow
<1>5. /\ Append(box, d) \in Seq(Seq(SentBytes(more)))
      /\ Len(Append(box, d)) = Len(box) + 1 /\ Append(box, d)[Len(box) + 1] = d
      /\ \A k \in 1..Len(box) : Append(box, d)[k] = box[k]
  BY <1>3, <1>4
<1>6. PICK i : i = FirstWaiting(lens, box)
  OBVIOUS
<1>7. i = Len(lens) - Len(box) + 1 /\ i = FirstWaiting(more, Append(box, d)) /\ i \in Nat
  BY <1>2, <1>5, <1>6 DEF FirstWaiting
<1>8. ASSUME NEW k \in 1..Len(Append(box, d))
      PROVE  Append(box, d)[k] = Datagram(i + k - 1, more[i + k - 1])
  <2>1. CASE k = Len(box) + 1
    <3>1. i + k - 1 = Len(lens) + 1
      BY <1>2, <1>7, <2>1
    <3> QED BY <1>1, <1>2, <1>5, <2>1, <3>1
  <2>2. CASE k \in 1..Len(box)
    <3>1. i + k - 1 \in 1..Len(lens)
      BY <1>2, <1>7, <2>2
    <3>2. box[k] = Datagram(i + k - 1, lens[i + k - 1])
      BY <1>6, <2>2 DEF Waiting
    <3> QED BY <1>2, <1>5, <2>2, <3>1, <3>2
  <2> QED BY <1>2, <1>5, <2>1, <2>2
<1>9. Waiting(more, Append(box, d))
  <2>1. Len(Append(box, d)) <= Len(more)
    BY <1>2, <1>5
  <2> QED BY <1>7, <1>8, <2>1, WaitingIntro
<1> QED BY <1>1, <1>5, <1>6, <1>7, <1>9

LEMMA WgSendInv ==
    ASSUME RelayInv, NEW x \in Sides, NEW length \in 1..MaxLength, WgSend(x, length)
    PROVE  RelayInv'
<1>0. PICK s \in Sides : s = Other(x) /\ Other(s) = x /\ s # x
  BY OtherSide
<1>1. PICK lens, box, more, d :
          /\ lens = sent[x] /\ box = inbox[x] /\ more = Append(lens, length)
          /\ d = Datagram(Len(lens) + 1, length)
  OBVIOUS
<1>2. /\ sent' = [sent EXCEPT ![x] = more]
      /\ inbox' = [inbox EXCEPT ![x] = Append(box, d)]
      /\ UNCHANGED <<phase, tcpToUdp, udpToTcp, stream, tub, utb, delivered>>
  BY <1>1 DEF WgSend, ends, loops
<1>3. \A r \in Sides : r = s \/ r = x
  BY <1>0 DEF Sides
<1>4. /\ sent \in [Sides -> Seq(1..MaxLength)] /\ DOMAIN inbox = Sides
      /\ lens \in Seq(1..MaxLength) /\ box \in Seq(Seq(SentBytes(lens)))
      /\ Waiting(lens, box)
      /\ stream[x] \in Seq(SentBytes(lens)) /\ utb[x] \in Buffers(SentBytes(lens))
      /\ tub[s] \in Buffers(SentBytes(lens))
      /\ delivered[s] \in Seq(Seq(SentBytes(lens)))
  BY <1>0, <1>1 DEF RelayInv, RelayTypes
<1>5. more \in Seq(1..MaxLength) /\ SentBytes(lens) \subseteq SentBytes(more)
  BY <1>1, <1>4, AfterGrows
<1>6. /\ sent'[x] = more /\ sent'[s] = sent[s] /\ sent' \in [Sides -> Seq(1..MaxLength)]
      /\ inbox'[x] = Append(box, d) /\ inbox'[s] = inbox[s] /\ DOMAIN inbox' = Sides
  BY <1>0, <1>2, <1>4, <1>5
<1>7. /\ Append(box, d) \in Seq(Seq(SentBytes(more)))
      /\ FirstWaiting(more, Append(box, d)) = FirstWaiting(lens, box)
      /\ Waiting(more, Append(box, d))
  BY <1>1, <1>4, WaitingGrows
<1>8. /\ stream[x] \in Seq(SentBytes(more)) /\ utb[x] \in Buffers(SentBytes(more))
      /\ tub[s] \in Buffers(SentBytes(more))
      /\ delivered[s] \in Seq(Seq(SentBytes(more)))
  BY <1>4, <1>5, BuffersGrow
<1>9. RelayTypes'
  <2>1. /\ stream'[x] \in Seq(SentBytes(sent'[x]))
        /\ inbox'[x] \in Seq(Seq(SentBytes(sent'[x])))
        /\ utb'[x] \in Buffers(SentBytes(sent'[x]))
        /\ tub'[Other(x)] \in Buffers(SentBytes(sent'[x]))
        /\ delivered'[Other(x)] \in Seq(Seq(SentBytes(sent'[x])))
    BY <1>0, <1>2, <1>6, <1>7, <1>8
  <2>2. /\ stream'[s] \in Seq(SentBytes(sent'[s]))
        /\ inbox'[s] \in Seq(Seq(SentBytes(sent'[s])))
        /\ utb'[s] \in Buffers(SentBytes(sent'[s]))
        /\ tub'[Other(s)] \in Buffers(SentBytes(sent'[s]))
        /\ delivered'[Other(s)] \in Seq(Seq(SentBytes(sent'[s])))
    BY <1>2, <1>6 DEF RelayInv, RelayTypes
  <2> QED BY <1>2, <1>3, <1>6, <2>1, <2>2 DEF RelayInv, RelayTypes
<1>10. NotStarted'
  BY <1>2 DEF RelayInv, NotStarted
<1>11. /\ Kept(lens, delivered[s]) /\ Kept(more, delivered[s])
       /\ \A b : Follows(lens, delivered[s], b) => Follows(more, delivered[s], b)
  <2>1. Kept(lens, delivered[s])
    BY <1>0, <1>1, KeptStream DEF RelayInv
  <2> QED BY <1>1, <1>4, <2>1, KeptGrows
<1>12. StreamKept'
  <2>1. Kept(sent'[x], delivered'[Other(x)])
    BY <1>0, <1>2, <1>6, <1>11
  <2>2. Kept(sent'[s], delivered'[Other(s)])
    BY <1>2, <1>6, KeptStream DEF RelayInv
  <2> QED BY <1>3, <2>1, <2>2, KeptStream
<1>13. Flow(s)' /\ Waiting(sent'[s], inbox'[s])
  BY <1>2, <1>6, FrameFlow
<1>14. ASSUME NEW a, NEW c, NEW y \in Seq(SentBytes(lens)), Run(lens, a, y, c)
       PROVE  Run(more, a, y, c)
  <2>1. lens \in Seq(Nat) /\ length \in Nat
    BY <1>4, RelayAssumption
  <2> QED BY <1>1, <1>14, <2>1, RunGrows
<1>15. Flow(x)'
  <2>1. PICK t \in Bytes, u \in Bytes :
            Receiving(x, t) /\ Run(sent[x], t, stream[x], u) /\ Sending(x, u)
    BY DEF RelayInv, Flow
  <2>2. Run(sent'[x], t, stream'[x], u)
    BY <1>1, <1>2, <1>4, <1>6, <1>14, <2>1
  <2>3. Filled(utb[x]) \in Seq(SentBytes(lens)) /\ Filled(tub[s]) \in Seq(SentBytes(lens))
    BY <1>4, FilledType
  <2>4. Sending(x, u)'
    <3>1. FirstWaiting(sent'[x], inbox'[x]) = FirstWaiting(sent[x], inbox[x])
      BY <1>1, <1>6, <1>7
    <3>2. udpToTcp[x] = "write" =>
              Run(more, u, Filled(utb[x]), <<FirstWaiting(sent[x], inbox[x]), 1>>)
      BY <1>1, <1>14, <2>1, <2>3 DEF Sending
    <3> QED BY <1>2, <1>6, <2>1, <3>1, <3>2 DEF Sending
  <2>5. Receiving(x, t)'
    <3>1. tcpToUdp[s] = "read" => Follows(more, delivered[s], t)
      BY <1>0, <1>1, <1>11, <2>1 DEF Receiving
    <3>2. ASSUME tcpToUdp[s] = "write"
          PROVE  LET piece == Filled(tub[s])
                 IN  /\ piece # <<>>
                     /\ Follows(more, delivered[s], piece[1])
                     /\ Run(more, piece[1], piece, t)
      <4>1. PICK piece : piece = Filled(tub[s])
        OBVIOUS
      <4>2. /\ piece # <<>> /\ Follows(lens, delivered[s], piece[1])
            /\ Run(lens, piece[1], piece, t)
        BY <1>0, <1>1, <2>1, <3>2, <4>1 DEF Receiving
      <4>3. Run(more, piece[1], piece, t) /\ Follows(more, delivered[s], piece[1])
        BY <1>11, <1>14, <2>3, <4>1, <4>2
      <4> QED BY <4>1, <4>2, <4>3
    <3> QED BY <1>0, <1>2, <1>6, <3>1, <3>2 DEF Receiving
  <2> QED BY <2>2, <2>4, <2>5 DEF Flow
<1>16. Waiting(sent'[x], inbox'[x])
  BY <1>6, <1>7
<1> QED BY <1>3, <1>9, <1>10, <1>12, <1>13, <1>15, <1>16 DEF RelayInv

-----------------------------------------------------------------------------

LEMMA UpgradeStarts ==
    ASSUME RelayInv, Hijack \/ ReadResponse
    PROVE  RelayInv'
<1>1. \A s \in Sides : stream[s] \in Seq(SentBytes(sent[s]))
  BY DEF RelayInv, RelayTypes
<1>2. /\ "client" \in Sides /\ "server" \in Sides
      /\ Other("server") = "client" /\ Other("client") = "server"
  BY DEF Sides, Other
<1>3. CASE Hijack
  <2>1. PICK skipped \in {0, 1} :
            skipped <= Len(stream["client"]) /\ StartRelay("server", skipped)
    BY <1>3 DEF Hijack
  <2>2. Len(stream["client"]) \in Nat
    BY <1>1, <1>2
  <2>3. skipped \in 0..Len(stream[Other("server")])
    BY <1>2, <2>1, <2>2
  <2>4. phase["server"] \in {"request", "answered"}
    BY <1>3 DEF Hijack
  <2> QED BY <1>2, <2>1, <2>3, <2>4, StartRelayInv
<1>4. CASE ReadResponse
  <2>1. PICK skipped \in 0..Len(stream["server"]) : StartRelay("client", skipped)
    BY <1>4 DEF ReadResponse
  <2>2. phase["client"] \in {"request", "answered"}
    BY <1>4 DEF ReadResponse
  <2> QED BY <1>2, <2>1, <2>2, StartRelayInv
<1> QED BY <1>3, <1>4

LEMMA RelayNext == RelayInv /\ [Next]_vars => RelayInv'
<1> SUFFICES ASSUME RelayInv, [Next]_vars PROVE RelayInv'
  OBVIOUS
<1>1. "client" \in Sides
  BY DEF Sides
<1>2. CASE Upgrade
  BY <1>1, <1>2, ControlSteps, UpgradeStarts DEF Upgrade
<1>3. ASSUME NEW s \in Sides, TcpToUdp(s) PROVE RelayInv'
  BY <1>3, ReadTcpInv, WriteUdpInv, ControlSteps DEF TcpToUdp
<1>4. ASSUME NEW s \in Sides, UdpToTcp(s) PROVE RelayInv'
  BY <1>4, ReadUdpInv, WriteTcpInv, ControlSteps DEF UdpToTcp
<1>5. ASSUME NEW s \in Sides, NEW length \in 1..MaxLength, WgSend(s, length)
      PROVE  RelayInv'
  BY <1>5, WgSendInv
<1>6. CASE Break \/ UNCHANGED vars
  BY <1>1, <1>6, ControlSteps
<1> QED BY <1>2, <1>3, <1>4, <1>5, <1>6 DEF Next

(* The relay of /relay and RelayServer hands to WireGuard the bytes that   *)
(* the device of the other side sent, in order, none twice and none left   *)
(* out after the first: for buffers and datagrams of every size and any    *)
(* number of them, wherever reads of the connection cut the stream.        *)
THEOREM BytesInOrder == Spec => []StreamKept
<1>1. RelayInv => StreamKept
  BY DEF RelayInv
<1> QED BY <1>1, InitRelay, RelayNext, PTL DEF Spec
=============================================================================
