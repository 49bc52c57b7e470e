------------------------- MODULE ClientLibraryProofs -------------------------
(***************************************************************************)
(* Proof that the monitor always finds the one peer it insists on, for any *)
(* number of goroutines, server keys and failures, with or without relay.  *)
(***************************************************************************)
EXTENDS ClientLibrary, FiniteSetTheorems, TLAPS

Devices == [peers : SUBSET (ServerKeys \cup {NoKey}), endpoint : BOOLEAN, idle : Nat]
Servers == [up : BOOLEAN, key : ServerKeys, knows : BOOLEAN]
(* The key that addServerPeer will set is one that a server has answered. *)
AddingInv ==
    /\ adding.key \in ServerKeys \cup {NoKey}
    /\ server \in Servers
(* The device has one peer while the monitor runs. *)
PeerInv == monitor => \E k \in ServerKeys \cup {NoKey} : wg.peers = {k}
IndInv == wg \in Devices /\ AddingInv /\ PeerInv

LEMMA InitInd == Init => IndInv
  BY ClientAssumption
  DEF Init, IndInv, Devices, Servers, AddingInv, PeerInv, NotAdding

(* Steps that leave the device, the keys and the monitor alone. *)
LEMMA ElsewhereInd ==
  ASSUME IndInv, UNCHANGED wg, monitor' => monitor,
         adding'.key \in {adding.key, NoKey, server.key}, server' \in Servers
  PROVE  IndInv'
  BY DEF IndInv, AddingInv, PeerInv, Servers

LEMMA CallInd == ASSUME IndInv, NEW c \in Callers, Call(c) PROVE IndInv'
  <1>1. UNCHANGED <<wg, monitor, server>>
    BY DEF Call, Initialize, ListenTCPWg, BeginOnce, PassOnce, Close
  <1>2. adding'.key \in {adding.key, NoKey}
    BY DEF Call, Initialize, ListenTCPWg, BeginOnce, PassOnce, Close
  <1> QED BY <1>1, <1>2, ElsewhereInd DEF IndInv, AddingInv

(* A registration that fails before it reaches the device. *)
LEMMA EndAddingKeeps ==
  ASSUME EndAdding(FALSE) PROVE adding'.key = NoKey /\ (monitor' => monitor)
  BY DEF EndAdding, NotAdding

LEMMA PostInd ==
  ASSUME IndInv, Post \/ PostFails \/ EstablishRelay \/ EstablishRelayFails PROVE IndInv'
  <1>1. CASE Post
    <2>1. server' \in Servers
      BY <1>1 DEF Post, IndInv, AddingInv, Servers
    <2>2. adding'.key \in {adding.key, server.key}
      BY <1>1 DEF Post
    <2> QED BY <1>1, <2>1, <2>2, ElsewhereInd DEF Post
  <1>2. CASE EstablishRelay
    BY <1>2 DEF EstablishRelay, IndInv, AddingInv, PeerInv
  <1>3. CASE PostFails \/ EstablishRelayFails
    <2>1. UNCHANGED wg /\ EndAdding(FALSE)
      BY <1>3 DEF PostFails, EstablishRelayFails
    <2>2. server' \in Servers
      <3>1. CASE PostFails BY <3>1 DEF PostFails, IndInv, AddingInv, Servers
      <3>2. CASE EstablishRelayFails BY <3>2 DEF EstablishRelayFails, IndInv, AddingInv
      <3> QED BY <1>3, <3>1, <3>2
    <2> QED BY <2>1, <2>2, EndAddingKeeps, ElsewhereInd
  <1> QED BY <1>1, <1>2, <1>3

(* replace_peers leaves one peer, also if the line after it is refused. *)
LEMMA WgSetIpcInd == ASSUME IndInv, WgSetIpc \/ WgSetIpcFails PROVE IndInv'
  <1>1. PICK endpoint \in BOOLEAN :
            wg' = [peers |-> {adding.key}, endpoint |-> endpoint, idle |-> LostAfter + 1]
    BY DEF WgSetIpc, WgSetIpcFails, PeersSet
  <1>2. adding'.key = NoKey /\ server' = server
    BY DEF WgSetIpc, WgSetIpcFails, EndAdding, NotAdding
  <1>3. wg' \in Devices /\ wg'.peers = {adding.key}
    BY <1>1, ClientAssumption DEF IndInv, AddingInv, Devices
  <1> QED BY <1>2, <1>3 DEF IndInv, AddingInv, PeerInv

LEMMA MonitorTickInd == ASSUME IndInv, MonitorTick PROVE IndInv'
  BY ElsewhereInd DEF MonitorTick, IndInv, AddingInv

LEMMA TimeInd == ASSUME IndInv, Handshake \/ Tick PROVE IndInv'
  <1>1. wg' \in Devices /\ wg'.peers = wg.peers
    <2>1. CASE Handshake BY <2>1 DEF Handshake, IndInv, Devices
    <2>2. CASE Tick BY <2>2 DEF Tick, IndInv, Devices
    <2> QED BY <2>1, <2>2
  <1> QED BY <1>1 DEF Handshake, Tick, IndInv, AddingInv, PeerInv

LEMMA ServerInd ==
  ASSUME IndInv, ServerStops \/ ServerStarts \/ ServerForgets \/ RelayBreaks PROVE IndInv'
  <1>1. UNCHANGED <<wg, monitor, adding>>
    BY DEF ServerStops, ServerStarts, ServerForgets, RelayBreaks
  <1>2. server' \in Servers
    <2>1. CASE ServerStops BY <2>1 DEF ServerStops, IndInv, AddingInv, Servers
    <2>2. CASE ServerStarts
      <3>1. ASSUME NEW knows \in {FALSE, server.knows}
            PROVE  [server EXCEPT !.up = TRUE, !.knows = knows] \in Servers
        BY DEF IndInv, AddingInv, Servers
      <3>2. ASSUME NEW k \in ServerKeys
            PROVE  [up |-> TRUE, key |-> k, knows |-> FALSE] \in Servers
        BY DEF Servers
      <3> QED BY <2>2, <3>1, <3>2 DEF ServerStarts
    <2>3. CASE ServerForgets BY <2>3 DEF ServerForgets, IndInv, AddingInv, Servers
    <2>4. CASE RelayBreaks BY <2>4 DEF RelayBreaks, IndInv, AddingInv
    <2> QED BY <2>1, <2>2, <2>3, <2>4
  <1> QED BY <1>1, <1>2, ElsewhereInd

LEMMA NextInd == ASSUME IndInv, [Next]_vars PROVE IndInv'
  <1>1. CASE UNCHANGED vars
    BY <1>1 DEF vars, IndInv, AddingInv, PeerInv
  <1>2. CASE Next
    BY <1>2, CallInd, PostInd, WgSetIpcInd, MonitorTickInd, TimeInd, ServerInd
    DEF Next, AddServerPeer, Environment
  <1> QED BY <1>1, <1>2

(* The device holds the key of the last registration that reached it. *)
THEOREM ClientInvariance == Spec => []IndInv
  BY InitInd, NextInd, PTL DEF Spec

(* While backgroundMonitor runs the device has exactly one peer, so the    *)
(* monitor is never stopped by its own check of the number of peers.       *)
THEOREM AlwaysOnePeer == Spec => []OnePeerWhileMonitored
  <1>1. IndInv => OnePeerWhileMonitored
    BY FS_Singleton DEF IndInv, PeerInv, OnePeerWhileMonitored
  <1> QED BY <1>1, ClientInvariance, PTL
=============================================================================
