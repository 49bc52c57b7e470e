------------------------------- MODULE UdpRelay -------------------------------
(***************************************************************************)
(* WireGuard over HTTPS: the client upgrades a TLS connection              *)
(* (establishRelay, listener.go; /relay, tunwg/tunwgs.go) and then both    *)
(* ends run RelayServer (internal/relay.go) between the connection and a   *)
(* UDP socket that the local WireGuard device talks to.  RelayServer has   *)
(* two loops, tcp to udp and udp to tcp, that each wait in a read.         *)
(*                                                                         *)
(* A byte is <<i, j>>, the j-th of the i-th datagram of its side.  TCP     *)
(* hands out what has been written in pieces of its own choice.            *)
(***************************************************************************)
EXTENDS Integers, SequencesExt

CONSTANTS
    BufSize,       \* size of the buffers of RelayServer
    MaxLength,     \* longest datagram of WireGuard
    MaxDatagrams,  \* bound: datagrams sent by the two sides
    MaxErrors      \* bound: errors of UDP sockets

ASSUME RelayAssumption ==
    {BufSize, MaxLength, MaxDatagrams, MaxErrors} \subseteq Nat /\ MaxLength <= BufSize

Sides == {"client", "server"}
Other(s) == IF s = "client" THEN "server" ELSE "client"

VARIABLES
    phase,      \* "request", "answered", "relay", "failed" (the client gave
                \* up) or "closed" (the server did)
    tcp,        \* is the end of the connection open?
    broken,     \* has the network ended the connection?
    sock,       \* is the UDP socket open?
    stream,     \* bytes written to the connection and not read by the other side
    inbox,      \* datagrams from WireGuard that wait at the UDP socket
    tcpToUdp,   \* the goroutine: "off", "read", "write", "ended"
    udpToTcp,   \* RelayServer itself: "off", "read", "write", "wait", "ended"
    tub, utb,   \* their buffers: content, and how much was read into it
    done,       \* the channel done holds an error
    sent,       \* history: lengths of the datagrams sent by WireGuard
    delivered,  \* datagrams handed to WireGuard
    errors      \* number of errors of UDP sockets

ends == <<phase, tcp, broken, sock>>
loops == <<tcpToUdp, udpToTcp, done>>
vars == <<ends, loops, stream, inbox, tub, utb, sent, delivered, errors>>

Empty == [content |-> <<>>, n |-> 0]
Init ==
    /\ phase = [s \in Sides |-> "request"]
    /\ tcp = [s \in Sides |-> TRUE]
    /\ broken = FALSE
    /\ sock = [s \in Sides |-> FALSE]
    /\ stream = [s \in Sides |-> <<>>] /\ inbox = [s \in Sides |-> <<>>]
    /\ tcpToUdp = [s \in Sides |-> "off"] /\ udpToTcp = [s \in Sides |-> "off"]
    /\ tub = [s \in Sides |-> Empty] /\ utb = [s \in Sides |-> Empty]
    /\ done = [s \in Sides |-> FALSE]
    /\ sent = [s \in Sides |-> <<>>] /\ delivered = [s \in Sides |-> <<>>]
    /\ errors = 0

-----------------------------------------------------------------------------
(* The upgrade. *)

(* The handler answers 101; Hijack sends it. *)
Answer ==
    /\ phase["server"] = "request"
    /\ phase' = [phase EXCEPT !["server"] = "answered"]
    /\ UNCHANGED <<tcp, broken, sock, loops, stream, inbox, tub, utb, sent, delivered,
                   errors>>

(* RelayServer starts with an open socket; skipped bytes of the other side *)
(* stay in a buffer that is not used any more.                             *)
StartRelay(s, skipped) ==
    /\ phase' = [phase EXCEPT ![s] = "relay"]
    /\ sock' = [sock EXCEPT ![s] = TRUE]
    /\ tcpToUdp' = [tcpToUdp EXCEPT ![s] = "read"]
    /\ udpToTcp' = [udpToTcp EXCEPT ![s] = "read"]
    /\ stream' = [stream EXCEPT ![Other(s)] = SubSeq(@, skipped + 1, Len(@))]
    /\ UNCHANGED <<tcp, broken, done, inbox, tub, utb, sent, delivered, errors>>

(* The server reads ahead one byte while it handles a request, and the     *)
(* handler drops the reader that Hijack returns.                           *)
Hijack ==
    /\ phase["server"] = "answered"
    /\ \E skipped \in {0, 1} :
           skipped <= Len(stream["client"]) /\ StartRelay("server", skipped)

(* ReadResponse uses a buffered reader of its own. *)
ReadResponse ==
    /\ phase["client"] = "request"
    /\ phase["server"] \in {"answered", "relay", "closed"}
    /\ \E skipped \in 0..Len(stream["server"]) : StartRelay("client", skipped)

(* establishRelay returns an error, whatever was answered, and leaves the  *)
(* connection to the collector.  The last error, of GetWgDeviceInfo, comes *)
(* after ListenUDP and leaves it the socket too.                           *)
EstablishRelayFails ==
    /\ phase["client"] = "request"
    /\ phase' = [phase EXCEPT !["client"] = "failed"]
    /\ \/ UNCHANGED sock
       \/ phase["server"] # "request" /\ sock' = [sock EXCEPT !["client"] = TRUE]
    /\ UNCHANGED <<tcp, broken, loops, stream, inbox, tub, utb, sent, delivered, errors>>

(* ListenUDP fails on the server, which closes the connection. *)
ListenUDPFails ==
    /\ phase["server"] = "answered"
    /\ phase' = [phase EXCEPT !["server"] = "closed"]
    /\ tcp' = [tcp EXCEPT !["server"] = FALSE]
    /\ UNCHANGED <<broken, sock, loops, stream, inbox, tub, utb, sent, delivered, errors>>

(* The runtime closes what is not referenced any more. *)
Collect ==
    /\ phase["client"] = "failed"
    /\ tcp["client"] \/ sock["client"]
    /\ tcp' = [tcp EXCEPT !["client"] = FALSE]
    /\ sock' = [sock EXCEPT !["client"] = FALSE]
    /\ UNCHANGED <<phase, broken, loops, stream, inbox, tub, utb, sent, delivered, errors>>

-----------------------------------------------------------------------------
(* tcp to udp. *)

(* n bytes overwrite the front of a buffer. *)
Fill(buffer, bytes) ==
    [content |-> bytes \o SubSeq(buffer.content, Len(bytes) + 1, Len(buffer.content)),
     n |-> Len(bytes)]
(* Mutant: the whole buffer is written. *)
FilledWhole(buffer) == buffer.content
Filled(buffer) == SubSeq(buffer.content, 1, buffer.n)

ReadTcp(s) ==
    /\ tcpToUdp[s] = "read"
    /\ tcp[s]
    /\ \E n \in 1..BufSize :
           /\ n <= Len(stream[Other(s)])
           /\ tub' = [tub EXCEPT ![s] = Fill(@, SubSeq(stream[Other(s)], 1, n))]
           /\ stream' = [stream EXCEPT ![Other(s)] = SubSeq(@, n + 1, Len(@))]
    /\ tcpToUdp' = [tcpToUdp EXCEPT ![s] = "write"]
    /\ UNCHANGED <<ends, udpToTcp, done, inbox, utb, sent, delivered, errors>>

(* Mutant: the goroutine leaves the socket open. *)
StopTcpToUdpOpen(s) ==
    /\ done' = [done EXCEPT ![s] = TRUE]
    /\ tcpToUdp' = [tcpToUdp EXCEPT ![s] = "ended"]
    /\ UNCHANGED sock
(* The error goes to done; the deferred calls close the socket. *)
StopTcpToUdp(s) ==
    /\ done' = [done EXCEPT ![s] = TRUE]
    /\ tcpToUdp' = [tcpToUdp EXCEPT ![s] = "ended"]
    /\ sock' = [sock EXCEPT ![s] = FALSE]

ReadTcpFails(s) ==
    /\ tcpToUdp[s] = "read"
    /\ ~tcp[s] \/ broken \/ (~tcp[Other(s)] /\ stream[Other(s)] = <<>>)
    /\ StopTcpToUdp(s)
    /\ UNCHANGED <<phase, tcp, broken, udpToTcp, stream, inbox, tub, utb, sent, delivered,
                   errors>>

(* Every write to the socket is one datagram. *)
WriteUdp(s) ==
    /\ tcpToUdp[s] = "write"
    /\ sock[s]
    /\ delivered' = [delivered EXCEPT ![s] = Append(@, Filled(tub[s]))]
    /\ tcpToUdp' = [tcpToUdp EXCEPT ![s] = "read"]
    /\ UNCHANGED <<ends, udpToTcp, done, stream, inbox, tub, utb, sent, errors>>

(* A socket fails because it is closed, or for a reason of its own. *)
SocketFails(s) ==
    \/ ~sock[s] /\ UNCHANGED errors
    \/ sock[s] /\ errors < MaxErrors /\ errors' = errors + 1

WriteUdpFails(s) ==
    /\ tcpToUdp[s] = "write"
    /\ SocketFails(s)
    /\ StopTcpToUdp(s)
    /\ UNCHANGED <<phase, tcp, broken, udpToTcp, stream, inbox, tub, utb, sent, delivered>>

-----------------------------------------------------------------------------
(* udp to tcp. *)

(* A read takes one datagram, up to the size of the buffer. *)
ReadUdp(s) ==
    /\ udpToTcp[s] = "read"
    /\ sock[s]
    /\ inbox[s] # <<>>
    /\ utb' = [utb EXCEPT ![s] = Fill(@, SubSeq(Head(inbox[s]), 1, Min({BufSize, Len(Head(inbox[s]))})))]
    /\ inbox' = [inbox EXCEPT ![s] = Tail(@)]
    /\ udpToTcp' = [udpToTcp EXCEPT ![s] = "write"]
    /\ UNCHANGED <<ends, tcpToUdp, done, stream, tub, sent, delivered, errors>>

WriteTcp(s) ==
    /\ udpToTcp[s] = "write"
    /\ tcp[s] /\ ~broken
    /\ stream' = [stream EXCEPT ![s] = @ \o Filled(utb[s])]
    /\ udpToTcp' = [udpToTcp EXCEPT ![s] = "read"]
    /\ UNCHANGED <<ends, tcpToUdp, done, inbox, tub, utb, sent, delivered, errors>>

(* The loop breaks, the connection is closed and done is awaited. *)
BreakUdpToTcp(s) ==
    /\ \/ udpToTcp[s] = "read" /\ SocketFails(s)
       \/ udpToTcp[s] = "write" /\ (~tcp[s] \/ broken \/ ~tcp[Other(s)]) /\ UNCHANGED errors
    /\ tcp' = [tcp EXCEPT ![s] = FALSE]
    /\ udpToTcp' = [udpToTcp EXCEPT ![s] = "wait"]
    /\ UNCHANGED <<phase, broken, sock, tcpToUdp, done, stream, inbox, tub, utb, sent,
                   delivered>>

Return(s) ==
    /\ udpToTcp[s] = "wait"
    /\ done[s]
    /\ done' = [done EXCEPT ![s] = FALSE]
    /\ udpToTcp' = [udpToTcp EXCEPT ![s] = "ended"]
    /\ UNCHANGED <<ends, tcpToUdp, stream, inbox, tub, utb, sent, delivered, errors>>

-----------------------------------------------------------------------------
(* WireGuard and the network. *)

Datagram(i, length) == [j \in 1..length |-> <<i, j>>]

(* The device never hears of a socket that no relay serves. *)
WgSend(s, length) ==
    /\ sock[s] /\ phase[s] = "relay"
    /\ Len(sent["client"]) + Len(sent["server"]) < MaxDatagrams
    /\ sent' = [sent EXCEPT ![s] = Append(@, length)]
    /\ inbox' = [inbox EXCEPT ![s] = Append(@, Datagram(Len(sent[s]) + 1, length))]
    /\ UNCHANGED <<ends, loops, stream, tub, utb, delivered, errors>>

Break ==
    /\ ~broken
    /\ broken' = TRUE
    /\ UNCHANGED <<phase, tcp, sock, loops, stream, inbox, tub, utb, sent, delivered, errors>>

Upgrade ==
    \/ Answer \/ Hijack \/ ReadResponse \/ EstablishRelayFails \/ ListenUDPFails
    \/ Collect
TcpToUdp(s) == ReadTcp(s) \/ ReadTcpFails(s) \/ WriteUdp(s) \/ WriteUdpFails(s)
UdpToTcp(s) == ReadUdp(s) \/ WriteTcp(s) \/ BreakUdpToTcp(s) \/ Return(s)

Next ==
    \/ Upgrade
    \/ \E s \in Sides : TcpToUdp(s) \/ UdpToTcp(s)
    \/ \E s \in Sides, length \in 1..MaxLength : WgSend(s, length)
    \/ Break

(* Both loops of both ends are scheduled, and so is the upgrade. *)
Spec ==
    /\ Init /\ [][Next]_vars
    /\ WF_vars(Upgrade)
    /\ \A s \in Sides : WF_vars(TcpToUdp(s)) /\ WF_vars(UdpToTcp(s))

-----------------------------------------------------------------------------
(* What WireGuard gets from the other side is what the device there sent,  *)
(* byte for byte and in order: nothing is repeated and nothing is left out *)
(* after the first byte that arrives, although reads cut the stream        *)
(* anywhere, buffers are used again and loops end in the middle.           *)
ByteAfter(s, byte) ==
    IF byte[2] < sent[s][byte[1]] THEN <<byte[1], byte[2] + 1>> ELSE <<byte[1] + 1, 1>>
StreamKept ==
    \A s \in Sides :
        LET out == delivered[s]
        IN  \A i \in 1..Len(out) :
                /\ out[i] # <<>>
                /\ \A k \in 1..(Len(out[i]) - 1) :
                       out[i][k + 1] = ByteAfter(Other(s), out[i][k])
                /\ i < Len(out) =>
                       out[i + 1][1] = ByteAfter(Other(s), out[i][Len(out[i])])

(* When one of the four loops ends, an end closes or the network fails,    *)
(* everything ends: no goroutine, socket or connection is left behind on   *)
(* either side.                                                            *)
Ending == broken \/ \E s \in Sides : ~tcp[s] \/ phase[s] = "failed"
AllEnded ==
    \A s \in Sides :
        /\ tcpToUdp[s] \in {"off", "ended"} /\ udpToTcp[s] \in {"off", "ended"}
        /\ ~sock[s]
        /\ phase[s] = "relay" => ~tcp[s]
EndTogether == Ending ~> []AllEnded
=============================================================================
