----------------------------- MODULE ClientLibrary -----------------------------
(***************************************************************************)
(* The client library (listener.go): goroutines call NewListener, the      *)
(* first of them registers the process with the server (addServerPeer),    *)
(* and from then on backgroundMonitor registers again whenever WireGuard   *)
(* has not shaken hands for longer than LostAfter.                         *)
(*                                                                         *)
(* A name is given by the port its hash starts with.  The server, which    *)
(* AccessController models, is here what a client sees of it: it stops,    *)
(* starts again, possibly with a new key, and forgets or removes peers.    *)
(***************************************************************************)
EXTENDS Integers, FiniteSets

CONSTANTS
    Callers,     \* goroutines that call NewListener
    HashPorts,   \* ports of names; 0 is one of them for some names
    Ephemeral,   \* ports that the network stack chooses from for port 0
    ServerKeys,  \* keys the server may have
    NoKey,       \* no server key
    UseRelay,    \* TUNWG_RELAY
    LostAfter,   \* 150 s, in ticks
    MaxFaults    \* bound: failures of calls, the server and the network

ASSUME ClientAssumption ==
    /\ HashPorts \subseteq Nat /\ Ephemeral \subseteq Nat \ (HashPorts \cup {0})
    /\ NoKey \notin ServerKeys
    /\ UseRelay \in BOOLEAN /\ LostAfter \in Nat /\ MaxFaults \in Nat

VARIABLES
    init,      \* initOnce: "new", "ok", "failed"
    call,      \* a call of NewListener: where it is, its port and the bound one
    once,      \* handshakeOnce: "new", "running", "done"
    monitor,   \* does backgroundMonitor run?
    adding,    \* addServerPeer: its step, who runs it, the key it was given
    wg,        \* the device: peers, endpoint, ticks since the last handshake
    relay,     \* do the relay of the endpoint and a fresh one work?
    server,    \* the server: up, its key, does it know the client?
    faults     \* number of failures so far

vars == <<init, call, once, monitor, adding, wg, relay, server, faults>>

Idle == [at |-> "idle", port |-> 0, bound |-> 0]
NotAdding == [step |-> "none", by |-> "none", key |-> NoKey]

Init ==
    /\ init = "new"
    /\ call = [c \in Callers |-> Idle]
    /\ once = "new"
    /\ monitor = FALSE
    /\ adding = NotAdding
    /\ wg = [peers |-> {}, endpoint |-> FALSE, idle |-> LostAfter + 1]
    /\ relay = [endpoint |-> FALSE, fresh |-> FALSE]
    /\ \E k \in ServerKeys : server = [up |-> TRUE, key |-> k, knows |-> FALSE]
    /\ faults = 0

Fault == faults < MaxFaults /\ faults' = faults + 1

-----------------------------------------------------------------------------
(* NewListener. *)

(* Initialize runs once; its error is the answer to every later call. *)
Initialize(c, port) ==
    /\ call[c].at = "idle"
    /\ \/ init' = (IF init = "new" THEN "ok" ELSE init) /\ UNCHANGED faults
       \/ init = "new" /\ Fault /\ init' = "failed"
    /\ call' = [call EXCEPT ![c] = [at |-> IF init' = "ok" THEN "listen" ELSE "failed",
                                    port |-> port, bound |-> 0]]
    /\ UNCHANGED <<once, monitor, adding, wg, relay, server>>

Bound == {call[c].bound : c \in Callers} \ {0}
FreePorts(port) == (IF port = 0 THEN Ephemeral ELSE {port}) \ Bound

ListenTCPWg(c) ==
    /\ call[c].at = "listen"
    /\ \/ /\ FreePorts(call[c].port) = {}
          /\ call' = [call EXCEPT ![c].at = "failed"]
       \/ \E port \in FreePorts(call[c].port) :
              call' = [call EXCEPT ![c].at = "once", ![c].bound = port]
    /\ UNCHANGED <<init, once, monitor, adding, wg, relay, server, faults>>

(* The first caller runs the function of startListenersOnce; the others    *)
(* wait until it has ended and get no error of it.                         *)
BeginOnce(c) ==
    /\ call[c].at = "once"
    /\ once = "new"
    /\ once' = "running"
    /\ call' = [call EXCEPT ![c].at = "adding"]
    /\ adding' = [step |-> "post", by |-> "once", key |-> NoKey]
    /\ UNCHANGED <<init, monitor, wg, relay, server, faults>>

PassOnce(c) ==
    /\ call[c].at = "once"
    /\ once = "done"
    /\ call' = [call EXCEPT ![c].at = "listening"]
    /\ UNCHANGED <<init, once, monitor, adding, wg, relay, server, faults>>

(* A failed call has no listener to close: what it has bound stays bound. *)
Close(c) ==
    /\ call[c].at = "listening"
    /\ call' = [call EXCEPT ![c] = Idle]
    /\ UNCHANGED <<init, once, monitor, adding, wg, relay, server, faults>>

-----------------------------------------------------------------------------
(* addServerPeer. *)

(* Mutant: the monitor ends with a registration that fails. *)
EndAddingMonitorReturns(ok) ==
    /\ adding' = NotAdding
    /\ once' = "done"
    /\ monitor' = ok
    /\ call' = [c \in Callers |->
                   IF call[c].at = "adding"
                   THEN [call[c] EXCEPT !.at = IF ok THEN "listening" ELSE "failed"]
                   ELSE call[c]]

(* It ends: the first registration ends startListenersOnce with it, and    *)
(* starts the monitor if it has succeeded.                                 *)
EndAdding(ok) ==
    /\ adding' = NotAdding
    /\ IF adding.by = "once"
       THEN /\ once' = "done"
            /\ monitor' = ok
            /\ call' = [c \in Callers |->
                           IF call[c].at = "adding"
                           THEN [call[c] EXCEPT !.at = IF ok THEN "listening" ELSE "failed"]
                           ELSE call[c]]
       ELSE UNCHANGED <<once, monitor, call>>

(* POST /add is accepted. *)
Post ==
    /\ adding.step = "post"
    /\ server.up
    /\ server' = [server EXCEPT !.knows = TRUE]
    /\ adding' = [adding EXCEPT !.step = IF UseRelay THEN "relay" ELSE "set",
                                !.key = server.key]
    /\ UNCHANGED <<init, call, once, monitor, wg, relay, faults>>

(* It fails: the server is down, it refuses, or its answer is lost. *)
PostFails ==
    /\ adding.step = "post"
    /\ \/ ~server.up /\ UNCHANGED <<server, faults>>
       \/ server.up /\ Fault /\ \E knows \in {server.knows, TRUE} :
              server' = [server EXCEPT !.knows = knows]
    /\ EndAdding(FALSE)
    /\ UNCHANGED <<init, wg, relay>>

(* establishRelay: the old relay is left alone, the endpoint moves. *)
EstablishRelay ==
    /\ adding.step = "relay"
    /\ server.up
    /\ adding' = [adding EXCEPT !.step = "set"]
    /\ relay' = [relay EXCEPT !.fresh = TRUE]
    /\ UNCHANGED <<init, call, once, monitor, wg, server, faults>>

EstablishRelayFails ==
    /\ adding.step = "relay"
    /\ \/ ~server.up /\ UNCHANGED faults
       \/ server.up /\ Fault
    /\ EndAdding(FALSE)
    /\ UNCHANGED <<init, wg, relay, server>>

(* Mutant: the peers the device has are kept. *)
PeersSetAdded(key) == wg.peers \cup {key}
(* replace_peers=true. *)
PeersSet(key) == {key}

(* The peer is new to the device, so it has no handshake. *)
WgSetIpc ==
    /\ adding.step = "set"
    /\ wg' = [peers |-> PeersSet(adding.key), endpoint |-> TRUE, idle |-> LostAfter + 1]
    /\ relay' = [endpoint |-> relay.fresh, fresh |-> FALSE]
    /\ EndAdding(TRUE)
    /\ UNCHANGED <<init, server, faults>>

(* The device refuses the endpoint: the lines before it have been applied. *)
WgSetIpcFails ==
    /\ adding.step = "set"
    /\ Fault
    /\ wg' = [peers |-> PeersSet(adding.key), endpoint |-> FALSE, idle |-> LostAfter + 1]
    /\ EndAdding(FALSE)
    /\ UNCHANGED <<init, relay, server>>

-----------------------------------------------------------------------------
(* backgroundMonitor. *)

Lost == wg.idle > LostAfter

(* A tick of the monitor that registers again. *)
MonitorTick ==
    /\ monitor
    /\ adding.step = "none"
    /\ Cardinality(wg.peers) = 1
    /\ Lost
    /\ adding' = [step |-> "post", by |-> "monitor", key |-> NoKey]
    /\ UNCHANGED <<init, call, once, monitor, wg, relay, server, faults>>

-----------------------------------------------------------------------------
(* WireGuard, the server and time. *)

Reachable ==
    /\ server.up /\ server.knows
    /\ server.key \in wg.peers
    /\ wg.endpoint
    /\ UseRelay => relay.endpoint

Handshake ==
    /\ Reachable
    /\ wg' = [wg EXCEPT !.idle = 0]
    /\ UNCHANGED <<init, call, once, monitor, adding, relay, server, faults>>

Tick ==
    /\ wg.idle <= LostAfter
    /\ wg' = [wg EXCEPT !.idle = @ + 1]
    /\ UNCHANGED <<init, call, once, monitor, adding, relay, server, faults>>

ServerStops ==
    /\ server.up
    /\ Fault
    /\ server' = [server EXCEPT !.up = FALSE]
    /\ relay' = [endpoint |-> FALSE, fresh |-> FALSE]
    /\ UNCHANGED <<init, call, once, monitor, adding, wg>>

(* Peers are restored or not; a new key comes with an empty directory. *)
ServerStarts ==
    /\ ~server.up
    /\ \/ \E knows \in {FALSE, server.knows} :
              server' = [server EXCEPT !.up = TRUE, !.knows = knows]
       \/ \E k \in ServerKeys \ {server.key} :
              server' = [up |-> TRUE, key |-> k, knows |-> FALSE]
    /\ UNCHANGED <<init, call, once, monitor, adding, wg, relay, faults>>

(* The server removes the peer: idle, over its quota or revoked. *)
ServerForgets ==
    /\ server.knows
    /\ Fault
    /\ server' = [server EXCEPT !.knows = FALSE]
    /\ UNCHANGED <<init, call, once, monitor, adding, wg, relay>>

RelayBreaks ==
    /\ relay.endpoint
    /\ Fault
    /\ relay' = [relay EXCEPT !.endpoint = FALSE]
    /\ UNCHANGED <<init, call, once, monitor, adding, wg, server>>

AddServerPeer ==
    \/ Post \/ PostFails \/ EstablishRelay \/ EstablishRelayFails
    \/ WgSetIpc \/ WgSetIpcFails
Call(c) == (\E port \in HashPorts : Initialize(c, port)) \/ ListenTCPWg(c)
               \/ BeginOnce(c) \/ PassOnce(c) \/ Close(c)
Environment ==
    \/ Handshake \/ Tick \/ ServerStops \/ ServerStarts \/ ServerForgets \/ RelayBreaks

Next == (\E c \in Callers : Call(c)) \/ AddServerPeer \/ MonitorTick \/ Environment

(* The monitor ticks, its calls end, the server is started again, and      *)
(* WireGuard shakes hands with a server that it can reach.                 *)
Fairness ==
    /\ WF_vars(AddServerPeer) /\ WF_vars(MonitorTick)
    /\ WF_vars(ServerStarts) /\ WF_vars(Handshake) /\ WF_vars(Tick)
Spec == Init /\ [][Next]_vars /\ Fairness

-----------------------------------------------------------------------------
(* From its first registration on the device has exactly one peer, which   *)
(* is what the monitor insists on: servers that come back with another key *)
(* and registrations that fail in the middle do not stop it for good.      *)
OnePeerWhileMonitored == monitor => Cardinality(wg.peers) = 1

(* Once the monitor runs the client is connected again and again: after    *)
(* the failures of the server, the relay or its own calls are over it      *)
(* shakes hands with the server that is there now.                         *)
Recovers == monitor ~> (Reachable /\ wg.idle = 0)

(* README.md: on startup the client sends its key to the server, "which    *)
(* replies with its own public key, establishing a wireguard connection":  *)
(* a listener that NewListener returns is registered and watched over.     *)
ListenersRegistered ==
    (\E c \in Callers : call[c].at = "listening") => monitor /\ wg.peers # {}
=============================================================================
