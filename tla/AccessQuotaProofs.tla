--------------------------- MODULE AccessQuotaProofs ---------------------------
(***************************************************************************)
(* Proofs about admission, quotas and accounting in the access controller, *)
(* for every value of its constants: what no step of AccessController may  *)
(* do, whatever fails, crashes or comes in between.                        *)
(***************************************************************************)
EXTENDS UsageAccounting, AccessControllerProofs, FiniteSetTheorems

-----------------------------------------------------------------------------
(* Owners. *)

(* The owner of a peer depends on two fields of its record (quotaOwner). *)
LEMMA OwnerFields ==
    ASSUME NEW p, NEW r, NEW s,
           r.keyID = s.keyID, r.authGeneration = s.authGeneration
    PROVE  OwnerOf(p, r) = OwnerOf(p, s)
BY DEF OwnerOf

(* The owner of a peer is an issued key only if its record has one. *)
LEMMA IssuedOwnerKey ==
    ASSUME NEW p, NEW r, OwnerOf(p, r) \in IssuedOwners
    PROVE  r.keyID \in KeyIDs
<1>1. PICK s \in Secrets, id \in KeyIDs : OwnerOf(p, r) = <<"key", s, id>>
  BY DEF IssuedOwners
<1>2. r.keyID # OpenID
  BY <1>1 DEF OwnerOf, quotaOwner
<1> QED BY <1>1, <1>2 DEF OwnerOf, quotaOwner

-----------------------------------------------------------------------------
(* Admission. *)

(* What registerPeer has checked still holds when its device call returns: *)
(* the owner has room for the peer, is not blocked and within its quota.   *)
AdmittedInv ==
    reg # Nil =>
        /\ reg.owner = OwnerOf(reg.peer, peers[reg.peer])
        /\ quotas[reg.owner] # Nil
        /\ ~Blocked(quotas[reg.owner], clock)
        /\ ~OverLimit(quotas[reg.owner], config.quotaBytes)
        /\ peers[reg.peer].keyID \in KeyIDs =>
               Cardinality(ActivePeers(reg.peer, reg.owner)) < MaxActivePeersPerIssuedKey

(* The quota that registerPeer leaves in memory is the one it has checked. *)
LEMMA RegisteredQuota ==
    ASSUME IndInv, NEW p \in Peers, NEW c, NEW key, NEW rev,
           RegisterAccepts(p, c, key, rev)
    PROVE  LET owner == OwnerOf(p, c)
               quota == RegisteredQuotas(owner)[owner]
           IN  /\ RequestQuota(owner) \in QuotaStates
               /\ quota \in QuotaStates
               /\ quota.usageDate = RequestQuota(owner).usageDate
               /\ quota.usedBytes = RequestQuota(owner).usedBytes
               /\ quota.blockedUntil = RequestQuota(owner).blockedUntil
               /\ quota.lastSeen = clock
               /\ ~Blocked(quota, clock)
               /\ ~OverLimit(quota, config.quotaBytes)
               /\ \A o \in QuotaOwners \ {owner} : RegisteredQuotas(owner)[o] = quotas[o]
<1> DEFINE owner == OwnerOf(p, c)
           request == RequestQuota(owner)
<1>1. owner \in QuotaOwners
  BY CredentialType
<1>2. clock \in Nat /\ quotas \in [QuotaOwners -> QuotaStates \cup {Nil}]
  BY DEF IndInv, TypeOK
<1>3. request \in QuotaStates
  BY <1>1, <1>2, NewQuotaType, NormalizeType DEF RequestQuota
<1>4. ~Blocked(request, clock) /\ ~OverLimit(request, config.quotaBytes)
  BY DEF RegisterAccepts, Admissible
<1> HIDE DEF request, owner
<1>5. RegisteredQuotas(owner)[owner] = [request EXCEPT !.lastSeen = clock]
  BY <1>1, <1>2 DEF RegisteredQuotas, request
<1>6. \A o \in QuotaOwners \ {owner} : RegisteredQuotas(owner)[o] = quotas[o]
  BY <1>1, <1>2 DEF RegisteredQuotas
<1>7. /\ RegisteredQuotas(owner)[owner] \in QuotaStates
      /\ RegisteredQuotas(owner)[owner].usageDate = request.usageDate
      /\ RegisteredQuotas(owner)[owner].usedBytes = request.usedBytes
      /\ RegisteredQuotas(owner)[owner].blockedUntil = request.blockedUntil
      /\ RegisteredQuotas(owner)[owner].lastSeen = clock
  BY <1>2, <1>3, <1>5 DEF QuotaStates
<1> QED BY <1>3, <1>4, <1>6, <1>7 DEF Blocked, OverLimit, request, owner

(* registerPeer starts with what it has checked. *)
LEMMA RegisterPeerAdmits ==
    ASSUME IndInv, NEW p \in Peers, NEW c, NEW key, NEW rev,
           RegisterPeer(p, c, key, rev)
    PROVE  AdmittedInv'
<1> DEFINE owner == OwnerOf(p, c)
<1>1. /\ RegisterAccepts(p, c, key, rev)
      /\ peers' = RegisteredPeers(p, c)
      /\ quotas' = RegisteredQuotas(owner)
      /\ reg'.peer = p /\ reg'.owner = owner
      /\ UNCHANGED <<config, clock, runtime>>
  BY DEF RegisterPeer
<1>2. /\ peers'[p].keyID = c.keyID
      /\ peers'[p].authGeneration = c.authGeneration
      /\ \A q \in Peers \ {p} : peers'[q] = peers[q]
  BY <1>1, RegisteredStateInv
<1>3. OwnerOf(p, peers'[p]) = owner
  BY <1>2, OwnerFields
<1>4. /\ quotas'[owner] \in QuotaStates
      /\ ~Blocked(quotas'[owner], clock)
      /\ ~OverLimit(quotas'[owner], config.quotaBytes)
  BY <1>1, RegisteredQuota
<1>5. ActivePeers(p, owner)' = ActivePeers(p, owner)
  BY <1>1, <1>2 DEF ActivePeers
<1>6. c.keyID \in KeyIDs =>
          Cardinality(ActivePeers(p, owner)) < MaxActivePeersPerIssuedKey
  BY <1>1 DEF RegisterAccepts, Admissible
<1> HIDE DEF owner
<1> QED BY <1>1, <1>2, <1>3, <1>4, <1>5, <1>6, NilAssumption DEF AdmittedInv, Blocked, OverLimit

(* While a registration holds the mutex nothing it has checked changes:    *)
(* time only ends blocks, and every other change of the state waits.       *)
LEMMA NextAdmitted ==
    ASSUME IndInv, AdmittedInv, [Next]_vars
    PROVE  AdmittedInv'
<1> SUFFICES ASSUME reg' # Nil PROVE AdmittedInv'
  BY DEF AdmittedInv
<1>1. ASSUME reg # Nil, reg'.peer = reg.peer, reg'.owner = reg.owner,
             UNCHANGED <<config, peers, quotas, runtime>>,
             clock' \in {clock, clock + 1}
      PROVE  AdmittedInv'
  <2>1. quotas[reg.owner] \in QuotaStates /\ clock \in Nat
    BY <1>1, RegistrationType DEF IndInv, TypeOK, AdmittedInv
  <2>2. ~Blocked(quotas[reg.owner], clock')
    BY <1>1, <2>1 DEF AdmittedInv, Blocked, QuotaStates, Times, ZeroTime
  <2>3. ActivePeers(reg.peer, reg.owner)' = ActivePeers(reg.peer, reg.owner)
    BY <1>1 DEF ActivePeers
  <2> QED BY <1>1, <2>2, <2>3 DEF AdmittedInv, Blocked, OverLimit
<1>2. ASSUME NEW p \in Peers, NEW c, NEW key, NEW rev, RegisterPeer(p, c, key, rev)
      PROVE  AdmittedInv'
  BY <1>2, RegisterPeerAdmits
<1>3. ASSUME NEW p \in Peers, NEW c, NEW key, NEW rev,
             RegisterPeerSaveFails(p, c, key, rev)
      PROVE  FALSE
  BY <1>3 DEF RegisterPeerSaveFails, RegisterAccepts
<1>4. CASE RegisterAddPeerFails
  <2>1. reg # Nil /\ reg'.peer = reg.peer /\ reg'.owner = reg.owner
    BY <1>4, RegistrationType DEF RegisterAddPeerFails, Registrations
  <2>2. UNCHANGED <<config, peers, quotas, runtime, clock>>
    BY <1>4 DEF RegisterAddPeerFails, memory
  <2> QED BY <1>1, <2>1, <2>2
<1>5. ~RegisterAddPeer /\ ~RegisterCleanup /\ ~RegisterCleanupFails
  BY DEF RegisterAddPeer, RegisterCleanup, RegisterCleanupFails
<1>6. ASSUME NEW ip \in IPs, IssueAuthKey(ip) \/ IssueAuthKeySaveFails(ip)
      PROVE  FALSE
  BY <1>6 DEF IssueAuthKey, IssueAuthKeySaveFails, IssueAccepts
<1>7. ~Startup
  <2>1. ~(pc \in {"down", "restore"} /\ UNCHANGED reg)
    BY DEF IndInv, PhaseInv
  <2> QED BY <2>1 DEF Startup, Load, LoadSaveFails, RestorePeers, RestorePeersFails, Exit
<1>8. CASE RunLoop
  <2>1. ASSUME NEW rev, Snapshot(rev) PROVE AdmittedInv'
    BY <1>1, <2>1 DEF Snapshot, memory
  <2>2. ~SnapshotFails /\ ~ReconcileFails /\ ~RunFailure /\ ~ReconcileSaveFails
    BY DEF SnapshotFails, ReconcileFails, RunFailure, ReconcileSaveFails, Exit
  <2>3. ASSUME NEW kept PROVE ~Reconcile(kept)
    BY DEF Reconcile
  <2> QED BY <1>8, <2>1, <2>2, <2>3 DEF RunLoop
<1>9. CASE Environment
  BY <1>1, <1>9 DEF Environment, Crash, Exit, Tick, Handshake, Receive, Transmit,
                    EditRevocations, memory
<1>10. CASE UNCHANGED vars
  BY <1>1, <1>10 DEF vars, memory
<1> QED
  BY <1>2, <1>3, <1>4, <1>5, <1>6, <1>7, <1>8, <1>9, <1>10 DEF Next, Requests

(* The checks of a registration in progress hold in every state.           *)
THEOREM StillAdmissible == Spec => [](IndInv /\ AdmittedInv)
<1>1. Init => AdmittedInv
  BY DEF Init, AdmittedInv
<1>2. IndInv /\ AdmittedInv /\ [Next]_vars => AdmittedInv'
  BY NextAdmitted
<1> QED BY <1>1, <1>2, Invariance, PTL DEF Spec

-----------------------------------------------------------------------------
(* The limit of active peers. *)

(* The peers of the device that belong to an owner. *)
DevicePeersOf(o) ==
    {p \in Peers : device[p] # Nil /\ peers[p] # Nil /\ OwnerOf(p, peers[p]) = o}

(* Sets of peers are finite and have a size. *)
LEMMA PeerSetSize ==
    ASSUME NEW S \in SUBSET Peers
    PROVE  IsFiniteSet(S) /\ Cardinality(S) \in Nat
BY PeersAssumption, FS_Subset, FS_CardinalityType

LEMMA SmallerPeerSet ==
    ASSUME NEW S \in SUBSET Peers, NEW T \in SUBSET S
    PROVE  Cardinality(T) <= Cardinality(S)
<1>1. IsFiniteSet(S)
  BY PeerSetSize
<1> QED BY <1>1, FS_Subset

(* A key whose active peers besides p are below the limit stays within it  *)
(* with p.                                                                 *)
LEMMA OneMorePeer ==
    ASSUME NEW p \in Peers, NEW S \in SUBSET Peers, NEW T \in SUBSET Peers,
           T \subseteq S \cup {p}, Cardinality(S) < MaxActivePeersPerIssuedKey
    PROVE  Cardinality(T) <= MaxActivePeersPerIssuedKey
<1>1. Cardinality(S) \in Nat /\ IsFiniteSet(S)
  BY PeerSetSize
<1>2. Cardinality(S \cup {p}) <= Cardinality(S) + 1
  <2>1. Cardinality(S \cup {p}) =
            IF p \in S THEN Cardinality(S) ELSE Cardinality(S) + 1
    BY <1>1, FS_AddElement
  <2> QED BY <1>1, <2>1
<1>3. Cardinality(T) <= Cardinality(S \cup {p})
  BY SmallerPeerSet
<1>4. Cardinality(T) \in Nat /\ Cardinality(S \cup {p}) \in Nat
  BY PeerSetSize
<1> QED BY <1>1, <1>2, <1>3, <1>4, LimitsAssumption

(* A step that gives an owner no peer it did not have adds none. *)
LEMMA NoNewPeers ==
    ASSUME \A o \in IssuedOwners : DevicePeersOf(o)' \subseteq DevicePeersOf(o)
    PROVE  AdmissionWithinLimit
<1> SUFFICES ASSUME NEW o \in IssuedOwners, DeviceCount(o)' > DeviceCount(o)
             PROVE  FALSE
  BY DEF AdmissionWithinLimit
<1>1. /\ DevicePeersOf(o) \in SUBSET Peers
      /\ DevicePeersOf(o)' \in SUBSET DevicePeersOf(o)
      /\ DevicePeersOf(o)' \in SUBSET Peers
  BY DEF DevicePeersOf
<1>2. Cardinality(DevicePeersOf(o)') <= Cardinality(DevicePeersOf(o))
  BY <1>1, SmallerPeerSet
<1>3. Cardinality(DevicePeersOf(o)') \in Nat /\ Cardinality(DevicePeersOf(o)) \in Nat
  BY <1>1, PeerSetSize
<1>4. DeviceCount(o) = Cardinality(DevicePeersOf(o))
  BY DEF DeviceCount, DevicePeersOf
<1>5. DeviceCount(o)' = Cardinality(DevicePeersOf(o)')
  BY DEF DeviceCount, DevicePeersOf
<1> QED BY <1>2, <1>3, <1>4, <1>5

(* A step that adds at most p, to an owner that had room for it. *)
LEMMA RoomForPeer ==
    ASSUME NEW p \in Peers, NEW owner,
           \A o \in IssuedOwners \ {owner} : DevicePeersOf(o)' \subseteq DevicePeersOf(o),
           owner \in IssuedOwners =>
               /\ Cardinality(ActivePeers(p, owner)) < MaxActivePeersPerIssuedKey
               /\ DevicePeersOf(owner)' \subseteq ActivePeers(p, owner) \cup {p}
    PROVE  AdmissionWithinLimit
<1> SUFFICES ASSUME NEW o \in IssuedOwners, DeviceCount(o)' > DeviceCount(o)
             PROVE  DeviceCount(o)' <= MaxActivePeersPerIssuedKey
  BY DEF AdmissionWithinLimit
<1>1. /\ DevicePeersOf(o) \in SUBSET Peers
      /\ DevicePeersOf(o)' \in SUBSET Peers
      /\ ActivePeers(p, o) \in SUBSET Peers
  BY DEF DevicePeersOf, ActivePeers
<1>2. DeviceCount(o) = Cardinality(DevicePeersOf(o))
  BY DEF DeviceCount, DevicePeersOf
<1>3. DeviceCount(o)' = Cardinality(DevicePeersOf(o)')
  BY DEF DeviceCount, DevicePeersOf
<1>4. CASE o = owner
  BY <1>1, <1>3, <1>4, OneMorePeer
<1>5. CASE o # owner
  <2>1. Cardinality(DevicePeersOf(o)') <= Cardinality(DevicePeersOf(o))
    BY <1>1, <1>5, SmallerPeerSet
  <2>2. Cardinality(DevicePeersOf(o)') \in Nat /\ Cardinality(DevicePeersOf(o)) \in Nat
    BY <1>1, PeerSetSize
  <2> QED BY <1>2, <1>3, <2>1, <2>2
<1> QED BY <1>4, <1>5

(* The device call of a registration, successful or not, adds its peer. *)
LEMMA AddWithinLimit ==
    ASSUME IndInv, AdmittedInv, reg # Nil, UNCHANGED peers,
           \A q \in Peers \ {reg.peer} : device'[q] = device[q]
    PROVE  AdmissionWithinLimit
<1>1. pc = "serving"
  BY RegistrationType
<1>p. PICK p \in Peers, owner \in QuotaOwners : p = reg.peer /\ owner = reg.owner
  BY RegistrationType
<1>2. peers[p] # Nil /\ owner = OwnerOf(p, peers[p])
  BY <1>p DEF IndInv, RegisterInv, AdmittedInv
<1>3. \A o \in IssuedOwners \ {owner} : DevicePeersOf(o)' \subseteq DevicePeersOf(o)
  BY <1>2, <1>p DEF DevicePeersOf
<1>4. \A q \in Peers \ {p} : device[q] # Nil => runtime[q] # Nil
  BY <1>1, <1>p DEF IndInv, DeviceTracked
<1>5. DevicePeersOf(owner)' \subseteq ActivePeers(p, owner) \cup {p}
  BY <1>4, <1>p DEF DevicePeersOf, ActivePeers
<1>6. owner \in IssuedOwners =>
          Cardinality(ActivePeers(p, owner)) < MaxActivePeersPerIssuedKey
  BY <1>2, <1>p, IssuedOwnerKey DEF AdmittedInv
<1> QED BY <1>3, <1>5, <1>6, RoomForPeer

(* Where the process ends the device is gone. *)
LEMMA ExitWithinLimit == Exit => AdmissionWithinLimit
<1> SUFFICES ASSUME Exit PROVE AdmissionWithinLimit
  OBVIOUS
<1>1. \A o \in IssuedOwners : DevicePeersOf(o)' \subseteq DevicePeersOf(o)
  BY DEF Exit, noPeers, DevicePeersOf
<1> QED BY <1>1, NoNewPeers

(* reconcile adds no peer and changes no owner; a peer that it adopts pays *)
(* for itself.                                                             *)
LEMMA ReconcileWithinLimit ==
    ASSUME IndInv, NEW kept, Reconcile(kept)
    PROVE  AdmissionWithinLimit
<1>1. snap # Nil /\ peers' = ReconciledPeers
  BY DEF Reconcile
<1>2. \A p \in Peers : device'[p] # Nil => device[p] # Nil
  BY DEF Reconcile
<1>3. ASSUME NEW o \in IssuedOwners, NEW p \in DevicePeersOf(o)'
      PROVE  p \in DevicePeersOf(o)
  <2>1. /\ p \in Peers /\ device[p] # Nil /\ peers'[p] # Nil
        /\ OwnerOf(p, peers'[p]) = o
    BY <1>2, <1>3 DEF DevicePeersOf
  <2>2. peers[p] # Nil
    BY <2>1 DEF IndInv, AuthorizedActive
  <2>3. OwnerOf(p, peers'[p]) = OwnerOf(p, peers[p])
    <3>1. CASE p \in Known
      <4>1. /\ peers'[p].keyID = peers[p].keyID
            /\ peers'[p].authGeneration = peers[p].authGeneration
        BY <1>1, <2>2, <3>1, ReconciledStateInv DEF SeenRecord
      <4> QED BY <4>1, OwnerFields
    <3>2. CASE p \notin Known
      <4>1. peers'[p] = peers[p]
        BY <1>1, <2>1, <3>2, ReconciledStateInv
      <4> QED BY <4>1
    <3> QED BY <3>1, <3>2
  <2> QED BY <2>1, <2>2, <2>3 DEF DevicePeersOf
<1> QED BY <1>3, NoNewPeers

(* A registration may move an active peer to another owner: the key that   *)
(* gets it had room for it.                                                *)
LEMMA RegisterWithinLimit ==
    ASSUME IndInv, NEW p \in Peers, NEW c, NEW key, NEW rev,
           RegisterPeer(p, c, key, rev)
    PROVE  AdmissionWithinLimit
<1> DEFINE owner == OwnerOf(p, c)
<1>1. /\ RegisterAccepts(p, c, key, rev)
      /\ peers' = RegisteredPeers(p, c)
      /\ UNCHANGED device
      /\ pc = "serving" /\ reg = Nil
  BY DEF RegisterPeer, RegisterAccepts
<1>2. /\ peers'[p].keyID = c.keyID
      /\ peers'[p].authGeneration = c.authGeneration
      /\ \A q \in Peers \ {p} : peers'[q] = peers[q]
  BY <1>1, RegisteredStateInv
<1>3. OwnerOf(p, peers'[p]) = owner
  BY <1>2, OwnerFields
<1>4. \A q \in Peers : device[q] # Nil => runtime[q] # Nil
  BY <1>1 DEF IndInv, DeviceTracked
<1>5. \A o \in IssuedOwners \ {owner} : DevicePeersOf(o)' \subseteq DevicePeersOf(o)
  BY <1>1, <1>2, <1>3 DEF DevicePeersOf
<1>6. DevicePeersOf(owner)' \subseteq ActivePeers(p, owner) \cup {p}
  BY <1>1, <1>2, <1>4 DEF DevicePeersOf, ActivePeers
<1>7. owner \in IssuedOwners =>
          Cardinality(ActivePeers(p, owner)) < MaxActivePeersPerIssuedKey
  BY <1>1, IssuedOwnerKey DEF RegisterAccepts, Admissible
<1> HIDE DEF owner
<1> QED BY <1>5, <1>6, <1>7, RoomForPeer

(* The rollback of a registration gives the peer back to nobody: it has    *)
(* just left the device.                                                   *)
LEMMA CleanupWithinLimit ==
    ASSUME IndInv, RegisterCleanup
    PROVE  AdmissionWithinLimit
<1>1. reg # Nil /\ reg.peer \in Peers
  BY RegistrationType DEF RegisterCleanup
<1>2. /\ device' = [device EXCEPT ![reg.peer] = Nil]
      /\ peers' = [peers EXCEPT ![reg.peer] = reg.old]
  BY DEF RegisterCleanup, RolledBackPeers
<1>3. /\ device \in [Peers -> DevicePeers \cup {Nil}]
      /\ peers \in [Peers -> PeerStates \cup {Nil}]
  BY DEF IndInv, TypeOK
<1>4. device'[reg.peer] = Nil
      /\ \A q \in Peers \ {reg.peer} : device'[q] = device[q] /\ peers'[q] = peers[q]
  BY <1>1, <1>2, <1>3
<1>5. \A o \in IssuedOwners : DevicePeersOf(o)' \subseteq DevicePeersOf(o)
  BY <1>4 DEF DevicePeersOf
<1> QED BY <1>5, NoNewPeers

LEMMA NextWithinLimit ==
    ASSUME IndInv, AdmittedInv, [Next]_vars
    PROVE  AdmissionWithinLimit
<1> SUFFICES ASSUME pc = "serving" PROVE AdmissionWithinLimit
  BY DEF AdmissionWithinLimit
<1>1. ASSUME UNCHANGED <<peers, device>> PROVE AdmissionWithinLimit
  <2>1. \A o \in IssuedOwners : DevicePeersOf(o)' \subseteq DevicePeersOf(o)
    BY <1>1 DEF DevicePeersOf
  <2> QED BY <2>1, NoNewPeers
<1>2. ~Startup
  BY DEF Startup, Load, LoadSaveFails, RestorePeers, RestorePeersFails
<1>3. CASE RunLoop
  <2>1. ASSUME NEW rev, Snapshot(rev) PROVE AdmissionWithinLimit
    BY <1>1, <2>1 DEF Snapshot, memory
  <2>2. CASE SnapshotFails \/ ReconcileFails \/ ReconcileSaveFails \/ RunFailure
    BY <2>2, ExitWithinLimit
       DEF SnapshotFails, ReconcileFails, ReconcileSaveFails, RunFailure
  <2>3. ASSUME NEW kept, Reconcile(kept) PROVE AdmissionWithinLimit
    BY <2>3, ReconcileWithinLimit
  <2> QED BY <1>3, <2>1, <2>2, <2>3 DEF RunLoop
<1>4. ASSUME NEW p \in Peers, NEW c, NEW key, NEW rev, RegisterPeer(p, c, key, rev)
      PROVE  AdmissionWithinLimit
  BY <1>4, RegisterWithinLimit
<1>5. ASSUME NEW p \in Peers, NEW c, NEW key, NEW rev,
             RegisterPeerSaveFails(p, c, key, rev)
      PROVE  AdmissionWithinLimit
  BY <1>1, <1>5 DEF RegisterPeerSaveFails
<1>6. CASE RegisterAddPeer \/ RegisterAddPeerFails
  <2>1. reg # Nil /\ reg.peer \in Peers
    BY <1>6, RegistrationType DEF RegisterAddPeer, RegisterAddPeerFails
  <2>2. device \in [Peers -> DevicePeers \cup {Nil}]
    BY DEF IndInv, TypeOK
  <2>3. \A q \in Peers \ {reg.peer} : device'[q] = device[q]
    BY <1>6, <2>2 DEF RegisterAddPeer, RegisterAddPeerFails
  <2>4. UNCHANGED peers
    BY <1>6 DEF RegisterAddPeer, RegisterAddPeerFails, memory
  <2> QED BY <2>1, <2>3, <2>4, AddWithinLimit
<1>7. CASE RegisterCleanup
  BY <1>7, CleanupWithinLimit
<1>8. CASE RegisterCleanupFails
  BY <1>1, <1>8 DEF RegisterCleanupFails
<1>9. ASSUME NEW ip \in IPs, IssueAuthKey(ip) \/ IssueAuthKeySaveFails(ip)
      PROVE  AdmissionWithinLimit
  BY <1>1, <1>9 DEF IssueAuthKey, IssueAuthKeySaveFails
<1>10. CASE Environment
  <2>1. CASE Crash
    BY <2>1, ExitWithinLimit DEF Crash
  <2>2. CASE Tick \/ \E ids \in SUBSET KeyIDs : EditRevocations(ids)
    BY <1>1, <2>2 DEF Tick, EditRevocations, memory
  <2>3. ASSUME NEW p \in Peers, Handshake(p) \/ Receive(p) \/ Transmit(p)
        PROVE  AdmissionWithinLimit
    <3>1. /\ device \in [Peers -> DevicePeers \cup {Nil}] /\ device[p] # Nil
          /\ UNCHANGED peers
      BY <2>3 DEF IndInv, TypeOK, Handshake, Receive, Transmit, memory
    <3>2. \A q \in Peers \ {p} : device'[q] = device[q]
      BY <2>3, <3>1 DEF Handshake, Receive, Transmit
    <3>3. \A o \in IssuedOwners : DevicePeersOf(o)' \subseteq DevicePeersOf(o)
      BY <3>1, <3>2 DEF DevicePeersOf
    <3> QED BY <3>3, NoNewPeers
  <2> QED BY <1>10, <2>1, <2>2, <2>3 DEF Environment
<1>11. CASE UNCHANGED vars
  BY <1>1, <1>11 DEF vars, memory
<1> QED
  BY <1>2, <1>3, <1>4, <1>5, <1>6, <1>7, <1>8, <1>9, <1>10, <1>11 DEF Next, Requests

(* No step of a serving server takes an issued key over its limit of       *)
(* active peers, be it a registration, a partly failed one, or one that    *)
(* gives an active peer another key.                                       *)
THEOREM LimitKeptAtAdmission == Spec => LimitAtAdmission
<1>1. IndInv /\ AdmittedInv /\ [Next]_vars => [AdmissionWithinLimit]_vars
  BY NextWithinLimit
<1> QED BY <1>1, StillAdmissible, PTL DEF Spec, LimitAtAdmission

-----------------------------------------------------------------------------
(* Days. *)

(* A time lies in its day: after its midnight and before the next one.     *)
LEMMA DayBounds ==
    ASSUME NEW now \in Nat
    PROVE  /\ DateOf(now) \in Nat
           /\ DateOf(now) * DayLength <= now
           /\ now < (DateOf(now) + 1) * DayLength
           /\ (DateOf(now) + 1) * DayLength \in Nat
           /\ DateOf(now) * DayLength \in Nat
<1>1. DayLength \in Nat /\ DayLength > 0
  BY DurationsAssumption
<1>2. DateOf(now) \in Nat
  BY DateType
<1>3. DateOf(now) * DayLength <= now
  BY <1>1 DEF DateOf
<1>4. now < (DateOf(now) + 1) * DayLength
  BY <1>1 DEF DateOf
<1>5. DateOf(now) * DayLength \in Nat /\ (DateOf(now) + 1) * DayLength \in Nat
  BY <1>1, <1>2
<1> QED BY <1>2, <1>3, <1>4, <1>5

(* Days are in the order of their midnights. *)
LEMMA DayOrder ==
    ASSUME NEW d \in Nat, NEW e \in Nat
    PROVE  /\ d < e => (d + 1) * DayLength <= e * DayLength
           /\ d <= e => d * DayLength <= e * DayLength
           /\ d * DayLength \in Nat
           /\ (d + 1) * DayLength = d * DayLength + DayLength
<1>1. DayLength \in Nat /\ DayLength > 0
  BY DurationsAssumption
<1>2. ASSUME NEW x \in Nat, NEW y \in Nat, x <= y
      PROVE  x * DayLength <= y * DayLength
  <2>1. PICK k \in Nat : y = x + k
    BY <1>2
  <2>2. y * DayLength = x * DayLength + k * DayLength
    BY <1>1, <2>1
  <2>3. x * DayLength \in Nat /\ k * DayLength \in Nat
    BY <1>1
  <2> QED BY <2>2, <2>3
<1>3. d * DayLength \in Nat /\ (d + 1) * DayLength = d * DayLength + DayLength
  BY <1>1
<1>4. d < e => d + 1 <= e /\ d + 1 \in Nat
  OBVIOUS
<1>5. d < e => (d + 1) * DayLength <= e * DayLength
  BY <1>2, <1>4
<1>6. d <= e => d * DayLength <= e * DayLength
  BY <1>2
<1> QED BY <1>3, <1>5, <1>6

(* Earlier times are on earlier days or on the same one. *)
LEMMA DayMonotone ==
    ASSUME NEW s \in Nat, NEW t \in Nat, s <= t
    PROVE  DateOf(s) <= DateOf(t)
<1> SUFFICES ASSUME DateOf(t) < DateOf(s) PROVE FALSE
  BY DayBounds
<1>1. (DateOf(t) + 1) * DayLength <= DateOf(s) * DayLength
  BY DayBounds, DayOrder
<1>2. t < (DateOf(t) + 1) * DayLength /\ DateOf(s) * DayLength <= s
      /\ (DateOf(t) + 1) * DayLength \in Nat /\ DateOf(s) * DayLength \in Nat
  BY DayBounds
<1> QED BY <1>1, <1>2

(* A block until a midnight that has not come yet is of this day. *)
LEMMA BeforeMidnight ==
    ASSUME NEW d \in Nat, NEW now \in Nat, now < (d + 1) * DayLength
    PROVE  DateOf(now) <= d
<1> SUFFICES ASSUME d < DateOf(now) PROVE FALSE
  BY DayBounds
<1>1. (d + 1) * DayLength <= DateOf(now) * DayLength
  BY DayBounds, DayOrder
<1>2. DateOf(now) * DayLength <= now /\ DateOf(now) * DayLength \in Nat
  BY DayBounds
<1>3. (d + 1) * DayLength \in Nat
  BY DayOrder
<1> QED BY <1>1, <1>2, <1>3

-----------------------------------------------------------------------------
(* Quota records. *)

(* normalizeQuotaState: a record of another day starts afresh, one of the  *)
(* same day keeps its usage, and its block until that ends.                *)
LEMMA NormalizeFacts ==
    ASSUME NEW q \in QuotaStates, NEW now \in Nat
    PROVE  LET n == normalizeQuotaState(q, now)
           IN  /\ n \in QuotaStates /\ n # Nil
               /\ n.usageDate = DateOf(now)
               /\ n.lastSeen = q.lastSeen
               /\ q.usageDate # DateOf(now) => n.usedBytes = 0 /\ n.blockedUntil = ZeroTime
               /\ q.usageDate = DateOf(now) => n.usedBytes = q.usedBytes
               /\ n.blockedUntil \in {ZeroTime, q.blockedUntil}
               /\ q.usageDate = DateOf(now) /\ now < q.blockedUntil =>
                      n.blockedUntil = q.blockedUntil
<1> DEFINE n == normalizeQuotaState(q, now)
<1>0. n \in QuotaStates /\ n # Nil
  BY NormalizeType, NilAssumption
<1>1. CASE q.usageDate # DateOf(now)
  <2>1. n = [newQuotaState(now) EXCEPT !.lastSeen = q.lastSeen]
    BY <1>1 DEF normalizeQuotaState
  <2>2. n = [usageDate |-> DateOf(now), usedBytes |-> 0,
             blockedUntil |-> ZeroTime, lastSeen |-> q.lastSeen]
    BY <2>1 DEF newQuotaState
  <2> HIDE DEF n
  <2>3. QED
    BY <1>0, <1>1, <2>2 DEF n
<1>2. CASE q.usageDate = DateOf(now) /\ q.blockedUntil # ZeroTime /\ now >= q.blockedUntil
  <2>1. n = [q EXCEPT !.blockedUntil = ZeroTime]
    BY <1>2 DEF normalizeQuotaState
  <2>2. q.blockedUntil \in Nat
    BY <1>2 DEF QuotaStates, Times
  <2>3. /\ n.usageDate = q.usageDate /\ n.usedBytes = q.usedBytes
        /\ n.lastSeen = q.lastSeen /\ n.blockedUntil = ZeroTime
    BY <2>1 DEF QuotaStates
  <2> HIDE DEF n
  <2> QED BY <1>0, <1>2, <2>2, <2>3 DEF n
<1>3. CASE q.usageDate = DateOf(now) /\ ~(q.blockedUntil # ZeroTime /\ now >= q.blockedUntil)
  <2>1. n = q
    BY <1>3 DEF normalizeQuotaState
  <2> HIDE DEF n
  <2> QED BY <1>0, <1>3, <2>1 DEF n
<1> QED BY <1>1, <1>2, <1>3

(* blockIfOverLimit changes nothing but the block, ends none, and leaves   *)
(* no owner that is over its limit unblocked.                              *)
LEMMA BlockFacts ==
    ASSUME NEW q \in QuotaStates, NEW now \in Nat, NEW limit
    PROVE  LET b == blockIfOverLimit(q, now, limit)
           IN  /\ b \in QuotaStates /\ b # Nil
               /\ b.usageDate = q.usageDate
               /\ b.usedBytes = q.usedBytes
               /\ b.lastSeen = q.lastSeen
               /\ b.blockedUntil \in {q.blockedUntil, (DateOf(now) + 1) * DayLength}
               /\ Blocked(q, now) => b.blockedUntil = q.blockedUntil
               /\ ~Blocked(b, now) => ~OverLimit(b, limit)
<1> DEFINE b == blockIfOverLimit(q, now, limit)
<1>0. b \in QuotaStates /\ b # Nil
  BY BlockType, NilAssumption
<1>1. CASE OverLimit(q, limit) /\ ~Blocked(q, now)
  <2>1. b = [q EXCEPT !.blockedUntil = (DateOf(now) + 1) * DayLength]
    BY <1>1 DEF blockIfOverLimit, nextLocalMidnight
  <2>2. /\ b.usageDate = q.usageDate /\ b.usedBytes = q.usedBytes
        /\ b.lastSeen = q.lastSeen
        /\ b.blockedUntil = (DateOf(now) + 1) * DayLength
    BY <2>1 DEF QuotaStates
  <2>3. now < (DateOf(now) + 1) * DayLength
    BY DayBounds
  <2> HIDE DEF b
  <2>4. Blocked(b, now)
    BY <2>2, <2>3 DEF Blocked
  <2> QED BY <1>0, <1>1, <2>2, <2>4 DEF b
<1>2. CASE ~(OverLimit(q, limit) /\ ~Blocked(q, now))
  <2>1. b = q
    BY <1>2 DEF blockIfOverLimit
  <2> HIDE DEF b
  <2> QED BY <1>0, <1>2, <2>1 DEF b
<1> QED BY <1>1, <1>2

-----------------------------------------------------------------------------
(* No admission against a quota. *)

(* restorePeers: what it adds to the device is neither blocked nor over    *)
(* the limit of this process, which may be another than the last one's.    *)
LEMMA RestoreUnderQuota ==
    ASSUME IndInv, NEW rev, NEW failed, NEW partial,
           RestorePeers(rev, failed, partial)
    PROVE  AdmissionUnderQuota
<1>1. /\ pc = "restore" /\ failed \subseteq RestoreCandidates(rev)
      /\ partial \subseteq failed
      /\ peers' = DropEndpoints(peers, RestoreDropped(rev, failed))
      /\ quotas' = RestoredQuotas
  BY DEF RestorePeers
<1>2. \A p \in Peers : device[p] = Nil /\ device'[p] # Nil => p \in RestoreCandidates(rev)
  BY <1>1 DEF RestorePeers
<1> SUFFICES ASSUME NEW p \in Peers, p \in RestoreCandidates(rev)
             PROVE  LET quota == quotas'[OwnerOf(p, peers'[p])]
                    IN  /\ quota # Nil
                        /\ ~Blocked(quota, clock)
                        /\ ~OverLimit(quota, config.quotaBytes)
  BY <1>2 DEF AdmissionUnderQuota
<1> DEFINE o == OwnerOf(p, peers[p])
           n == normalizeQuotaState(quotas[o], clock)
<1>3. RecentEndpoint(p) /\ peers[p] # Nil /\ ~Blocked(RestoredQuotas[o], clock)
  BY DEF RestoreCandidates, RestoreConsidered, RecentEndpoint, HasEndpoint, RestoreOwner
<1>4. /\ clock \in Nat
      /\ peers[p] \in PeerStates
      /\ o \in QuotaOwners
      /\ quotas[o] \in QuotaStates
  <2>1. clock \in Nat /\ peers[p] \in PeerStates
    BY <1>3 DEF IndInv, TypeOK
  <2>2. o \in QuotaOwners
    BY <2>1, RecordOwnerType
  <2> QED BY <1>3, <2>1, <2>2 DEF IndInv, TypeOK, OwnerRecorded, OwnersPresent
<1>5. OwnerOf(p, peers'[p]) = o
  BY <1>1, <1>3, RestoredStateInv, OwnerFields
<1>6. RestoredQuotas[o] = blockIfOverLimit(n, clock, config.quotaBytes)
  BY <1>3, <1>4 DEF RestoredQuotas, RestoreOwner
<1>7. n \in QuotaStates
  BY <1>4, NormalizeType
<1> HIDE DEF o, n
<1>8. RestoredQuotas[o] # Nil /\ ~OverLimit(RestoredQuotas[o], config.quotaBytes)
  BY <1>3, <1>4, <1>6, <1>7, BlockFacts DEF o
<1> QED BY <1>1, <1>3, <1>5, <1>8 DEF o

LEMMA NextUnderQuota ==
    ASSUME IndInv, AdmittedInv, [Next]_vars
    PROVE  AdmissionUnderQuota
<1>1. ASSUME \A p \in Peers : device'[p] # Nil => device[p] # Nil
      PROVE  AdmissionUnderQuota
  BY <1>1 DEF AdmissionUnderQuota
<1>2. Exit => AdmissionUnderQuota
  BY <1>1 DEF Exit, noPeers
<1>3. ASSUME NEW rev, NEW failed, NEW partial, RestorePeers(rev, failed, partial)
      PROVE  AdmissionUnderQuota
  BY <1>3, RestoreUnderQuota
<1>4. CASE Startup
  BY <1>1, <1>2, <1>3, <1>4 DEF Startup, Load, LoadSaveFails, RestorePeersFails
<1>5. CASE RunLoop
  <2>1. ASSUME NEW kept, Reconcile(kept) PROVE AdmissionUnderQuota
    BY <1>1, <2>1 DEF Reconcile
  <2> QED BY <1>1, <1>2, <1>5, <2>1 DEF RunLoop, Snapshot, SnapshotFails, ReconcileFails,
                                    ReconcileSaveFails, RunFailure
<1>6. CASE RegisterAddPeer \/ RegisterAddPeerFails
  <2>1. reg # Nil /\ reg.peer \in Peers
    BY <1>6, RegistrationType DEF RegisterAddPeer, RegisterAddPeerFails
  <2>2. device \in [Peers -> DevicePeers \cup {Nil}]
    BY DEF IndInv, TypeOK
  <2>3. \A q \in Peers \ {reg.peer} : device'[q] = device[q]
    BY <1>6, <2>2 DEF RegisterAddPeer, RegisterAddPeerFails
  <2>4. UNCHANGED <<peers, quotas>>
    BY <1>6 DEF RegisterAddPeer, RegisterAddPeerFails, memory
  <2> QED BY <2>1, <2>3, <2>4 DEF AdmittedInv, AdmissionUnderQuota
<1>7. CASE RegisterCleanup
  <2>1. device \in [Peers -> DevicePeers \cup {Nil}]
    BY DEF IndInv, TypeOK
  <2> QED BY <1>1, <1>7, <2>1 DEF RegisterCleanup
<1>8. CASE Requests
  BY <1>1, <1>6, <1>7, <1>8
     DEF Requests, RegisterPeer, RegisterPeerSaveFails, RegisterCleanupFails,
         IssueAuthKey, IssueAuthKeySaveFails
<1>9. CASE Environment
  <2>1. ASSUME NEW p \in Peers, Handshake(p) \/ Receive(p) \/ Transmit(p)
        PROVE  AdmissionUnderQuota
    <3>1. device \in [Peers -> DevicePeers \cup {Nil}] /\ device[p] # Nil
      BY <2>1 DEF IndInv, TypeOK, Handshake, Receive, Transmit
    <3>2. \A q \in Peers \ {p} : device'[q] = device[q]
      BY <2>1, <3>1 DEF Handshake, Receive, Transmit
    <3> QED BY <1>1, <3>1, <3>2
  <2> QED BY <1>1, <1>2, <1>9, <2>1 DEF Environment, Crash, Tick, EditRevocations
<1>10. CASE UNCHANGED vars
  BY <1>1, <1>10 DEF vars
<1> QED BY <1>4, <1>5, <1>8, <1>9, <1>10 DEF Next

(* No peer enters the device while its owner is blocked or over its quota, *)
(* be it by registration, by a partly failed one, or by a restore.         *)
THEOREM QuotaKeptAtAdmission == Spec => AdmissionRespectsQuota
<1>1. IndInv /\ AdmittedInv /\ [Next]_vars => [AdmissionUnderQuota]_vars
  BY NextUnderQuota
<1> QED BY <1>1, StillAdmissible, PTL DEF Spec, AdmissionRespectsQuota

-----------------------------------------------------------------------------
(* Usage and blocks within a day. *)

(* A quota record at a time: it is of this day or an earlier one, a block  *)
(* ends with its day, and usage was counted on the day it is recorded for. *)
SoundQuota(q, now) ==
    q # Nil =>
        /\ q.usageDate <= DateOf(now)
        /\ q.blockedUntil \in {ZeroTime, (q.usageDate + 1) * DayLength}
        /\ q.usedBytes > 0 => q.lastSeen >= q.usageDate * DayLength

(* The record r forgets neither usage of today nor a block of q. *)
KeptQuota(q, r, now) ==
    q # Nil =>
        /\ q.usageDate = DateOf(now) /\ q.usedBytes > 0 =>
               r # Nil /\ r.usageDate = DateOf(now) /\ r.usedBytes >= q.usedBytes
        /\ Blocked(q, now) => r # Nil /\ Blocked(r, now)

(* A record of a later day than a snapshot's was made by a registration:   *)
(* nothing has been counted for that day yet.                              *)
UnspentAfter(q, now) ==
    q # Nil /\ q.usageDate > DateOf(now) => q.usedBytes = 0 /\ q.blockedUntil = ZeroTime

MaybeQuotas == QuotaStates \cup {Nil}

(* The record of a registration or a load, which count nothing. *)
LEMMA NewQuotaSound ==
    ASSUME NEW now \in Nat
    PROVE  /\ newQuotaState(now) \in QuotaStates
           /\ newQuotaState(now).usedBytes = 0
           /\ newQuotaState(now).blockedUntil = ZeroTime
           /\ newQuotaState(now).usageDate = DateOf(now)
           /\ SoundQuota(newQuotaState(now), now)
<1>1. DateOf(now) \in Nat
  BY DayBounds
<1> QED BY <1>1, NewQuotaType DEF newQuotaState, SoundQuota

LEMMA SoundLater ==
    ASSUME NEW q \in MaybeQuotas, NEW now \in Nat, NEW later \in Nat,
           now <= later, SoundQuota(q, now)
    PROVE  SoundQuota(q, later)
<1>1. DateOf(now) <= DateOf(later) /\ DateOf(now) \in Nat /\ DateOf(later) \in Nat
  BY DayMonotone, DayBounds
<1>2. q # Nil => q.usageDate \in Nat
  BY DEF MaybeQuotas, QuotaStates
<1> QED BY <1>1, <1>2 DEF SoundQuota

(* A record that is blocked now is of today, until the coming midnight. *)
LEMMA BlockedToday ==
    ASSUME NEW q \in QuotaStates, q # Nil, NEW now \in Nat, NEW made \in Nat,
           made <= now, SoundQuota(q, made), Blocked(q, now)
    PROVE  /\ q.usageDate = DateOf(now)
           /\ DateOf(made) = DateOf(now)
           /\ q.blockedUntil = (q.usageDate + 1) * DayLength
<1>1. q.usageDate \in Nat /\ q.blockedUntil \in Times /\ now < q.blockedUntil
  BY DEF QuotaStates, Blocked
<1>2. q.blockedUntil = (q.usageDate + 1) * DayLength
  BY <1>1 DEF SoundQuota, ZeroTime
<1>3. DateOf(now) <= q.usageDate
  BY <1>1, <1>2, BeforeMidnight
<1>4. q.usageDate <= DateOf(made)
  BY DEF SoundQuota
<1>5. DateOf(made) <= DateOf(now) /\ DateOf(made) \in Nat /\ DateOf(now) \in Nat
  BY DayMonotone, DayBounds
<1> QED BY <1>1, <1>2, <1>3, <1>4, <1>5

LEMMA KeptTransitive ==
    ASSUME NEW q \in MaybeQuotas, NEW r \in MaybeQuotas, NEW s \in MaybeQuotas, NEW now \in Nat,
           KeptQuota(q, r, now), KeptQuota(r, s, now)
    PROVE  KeptQuota(q, s, now)
<1>1. /\ q # Nil => q.usedBytes \in Nat
      /\ r # Nil => r.usedBytes \in Nat
      /\ s # Nil => s.usedBytes \in Nat
  BY LimitsAssumption DEF MaybeQuotas, QuotaStates
<1> QED BY <1>1 DEF KeptQuota

LEMMA KeptReflexive ==
    ASSUME NEW q \in MaybeQuotas, NEW now
    PROVE  KeptQuota(q, q, now)
<1>1. q # Nil => q.usedBytes \in Nat
  BY LimitsAssumption DEF MaybeQuotas, QuotaStates
<1> QED BY <1>1 DEF KeptQuota

(* What is kept now is kept later, over midnight too. *)
LEMMA KeptLater ==
    ASSUME NEW q \in MaybeQuotas, NEW r \in MaybeQuotas, NEW now \in Nat,
           SoundQuota(q, now), SoundQuota(r, now), KeptQuota(q, r, now)
    PROVE  KeptQuota(q, r, now + 1)
<1> SUFFICES ASSUME q # Nil
             PROVE  KeptQuota(q, r, now + 1)
  BY DEF KeptQuota
<1>t. q \in QuotaStates /\ q.usageDate \in Nat /\ q.blockedUntil \in Times
  BY DEF MaybeQuotas, QuotaStates
<1>0. now + 1 \in Nat /\ now <= now + 1
  OBVIOUS
<1>1. DateOf(now) <= DateOf(now + 1) /\ DateOf(now) \in Nat /\ DateOf(now + 1) \in Nat
  BY <1>0, DayMonotone, DayBounds
<1>2. ASSUME q.usageDate = DateOf(now + 1)
      PROVE  DateOf(now + 1) = DateOf(now)
  BY <1>1, <1>2 DEF SoundQuota
<1>3. ASSUME Blocked(q, now + 1)
      PROVE  r # Nil /\ Blocked(r, now + 1)
  <2>1. /\ q.usageDate = DateOf(now + 1) /\ DateOf(now) = DateOf(now + 1)
        /\ q.blockedUntil = (q.usageDate + 1) * DayLength
    BY <1>t, <1>0, <1>3, BlockedToday
  <2>2. Blocked(q, now)
    BY <1>t, <1>3 DEF Blocked, Times, ZeroTime
  <2>3. r # Nil /\ Blocked(r, now) /\ r \in QuotaStates
    BY <2>2 DEF KeptQuota, MaybeQuotas
  <2>4. r.usageDate = DateOf(now) /\ r.blockedUntil = (r.usageDate + 1) * DayLength
    BY <2>3, BlockedToday
  <2> QED BY <1>3, <2>1, <2>3, <2>4 DEF Blocked
<1> QED BY <1>2, <1>3 DEF KeptQuota

(* normalizeQuotaState forgets nothing of today, and a block of a sound    *)
(* record is of today.                                                     *)
LEMMA NormalizeKeeps ==
    ASSUME NEW q \in QuotaStates, NEW now \in Nat, SoundQuota(q, now)
    PROVE  LET n == normalizeQuotaState(q, now)
           IN  SoundQuota(n, now) /\ KeptQuota(q, n, now) /\ KeptQuota(n, q, now) 
<1> DEFINE n == normalizeQuotaState(q, now)
<1>1. /\ n \in QuotaStates /\ n # Nil
      /\ n.usageDate = DateOf(now)
      /\ n.lastSeen = q.lastSeen
      /\ q.usageDate # DateOf(now) => n.usedBytes = 0 /\ n.blockedUntil = ZeroTime
      /\ q.usageDate = DateOf(now) => n.usedBytes = q.usedBytes
      /\ n.blockedUntil \in {ZeroTime, q.blockedUntil}
      /\ q.usageDate = DateOf(now) /\ now < q.blockedUntil =>
             n.blockedUntil = q.blockedUntil
  BY NormalizeFacts
<1>2. q # Nil /\ DateOf(now) \in Nat /\ q.usedBytes \in Nat /\ n.usedBytes \in Nat
  BY <1>1, NilAssumption, DayBounds, LimitsAssumption DEF QuotaStates
<1> HIDE DEF n
<1>3. SoundQuota(n, now)
  BY <1>1, <1>2 DEF SoundQuota
<1>4. Blocked(q, now) => q.usageDate = DateOf(now)
  BY <1>2, BlockedToday
<1>5. KeptQuota(q, n, now)
  BY <1>1, <1>2, <1>4 DEF KeptQuota, Blocked
<1>6. Blocked(n, now) => Blocked(q, now)
  BY <1>1 DEF Blocked, ZeroTime
<1>7. KeptQuota(n, q, now)
  BY <1>1, <1>2, <1>6 DEF KeptQuota
<1> QED BY <1>3, <1>5, <1>7 DEF n

(* blockIfOverLimit of a record of today. *)
LEMMA BlockKeeps ==
    ASSUME NEW q \in QuotaStates, NEW now \in Nat, NEW limit,
           SoundQuota(q, now), q.usageDate = DateOf(now)
    PROVE  LET b == blockIfOverLimit(q, now, limit)
           IN  SoundQuota(b, now) /\ KeptQuota(q, b, now)
<1> DEFINE b == blockIfOverLimit(q, now, limit)
<1>1. /\ b \in QuotaStates /\ b # Nil
      /\ b.usageDate = q.usageDate
      /\ b.usedBytes = q.usedBytes
      /\ b.lastSeen = q.lastSeen
      /\ b.blockedUntil \in {q.blockedUntil, (DateOf(now) + 1) * DayLength}
      /\ Blocked(q, now) => b.blockedUntil = q.blockedUntil
  BY BlockFacts
<1>2. q # Nil /\ DateOf(now) \in Nat /\ q.usedBytes \in Nat
  BY NilAssumption, DayBounds, LimitsAssumption DEF QuotaStates
<1> HIDE DEF b
<1>3. SoundQuota(b, now)
  BY <1>1, <1>2 DEF SoundQuota
<1>4. KeptQuota(q, b, now)
  BY <1>1, <1>2 DEF KeptQuota, Blocked
<1> QED BY <1>3, <1>4 DEF b

(* addUsage never lowers the usage: the sum saturates. *)
LEMMA UsageGrows ==
    ASSUME NEW current \in 0..MaxInt64, NEW delta
    PROVE  addUsage(current, delta) >= current
BY LimitsAssumption DEF addUsage

(* reconcile counts at the time of its snapshot.  The record may be of a   *)
(* later day by then; it is taken back to the snapshot's day, but nothing  *)
(* has been counted for the later one.                                     *)
CountedRecord(q, now, delta, limit) ==
    LET quota == IF q = Nil THEN newQuotaState(now) ELSE normalizeQuotaState(q, now)
        counted == [quota EXCEPT !.usedBytes = addUsage(@, delta), !.lastSeen = now]
    IN  blockIfOverLimit(counted, now, limit)

LEMMA CountKeeps ==
    ASSUME NEW q \in MaybeQuotas, NEW now \in Nat, NEW later \in Nat, now <= later,
           SoundQuota(q, later), UnspentAfter(q, now), NEW delta, NEW limit
    PROVE  LET final == CountedRecord(q, now, delta, limit)
           IN  /\ final \in QuotaStates
               /\ final # Nil
               /\ final.lastSeen = now
               /\ SoundQuota(final, later)
               /\ KeptQuota(q, final, later)
<1> DEFINE quota == IF q = Nil THEN newQuotaState(now) ELSE normalizeQuotaState(q, now)
           counted == [quota EXCEPT !.usedBytes = addUsage(@, delta), !.lastSeen = now]
           final == blockIfOverLimit(counted, now, limit)
<1>d. /\ DateOf(now) \in Nat /\ DateOf(later) \in Nat /\ DateOf(now) <= DateOf(later)
      /\ DateOf(now) * DayLength <= now
  BY DayBounds, DayMonotone
<1>q. q # Nil =>
          /\ q \in QuotaStates /\ q.usageDate \in Nat /\ q.blockedUntil \in Times
          /\ q.usedBytes \in Nat
  BY LimitsAssumption DEF MaybeQuotas, QuotaStates
<1>1. /\ quota \in QuotaStates
      /\ quota.usageDate = DateOf(now)
      /\ quota.blockedUntil \in {ZeroTime, (DateOf(now) + 1) * DayLength}
  <2>1. CASE q = Nil
    BY <2>1, NewQuotaSound
  <2>2. CASE q # Nil
    <3>1. quota \in QuotaStates /\ quota.usageDate = DateOf(now)
      BY <1>q, <2>2, NormalizeFacts
    <3>2. quota.blockedUntil = ZeroTime
          \/ (q.usageDate = DateOf(now) /\ quota.blockedUntil = q.blockedUntil)
      BY <1>q, <2>2, NormalizeFacts
    <3> HIDE DEF quota
    <3>3. q.blockedUntil \in {ZeroTime, (q.usageDate + 1) * DayLength}
      BY <2>2 DEF SoundQuota
    <3> QED BY <3>1, <3>2, <3>3
  <2> QED BY <2>1, <2>2
<1>2. q # Nil /\ q.usageDate = DateOf(now) =>
          /\ quota.usedBytes = q.usedBytes
          /\ now < q.blockedUntil => quota.blockedUntil = q.blockedUntil
  BY <1>q, NormalizeFacts
<1> HIDE DEF quota
<1>3. addUsage(quota.usedBytes, delta) \in 0..MaxInt64
      /\ addUsage(quota.usedBytes, delta) >= quota.usedBytes
  BY <1>1, AddUsageType, UsageGrows DEF QuotaStates
<1>4. /\ counted \in QuotaStates
      /\ counted.usageDate = DateOf(now)
      /\ counted.usedBytes = addUsage(quota.usedBytes, delta)
      /\ counted.blockedUntil = quota.blockedUntil
      /\ counted.lastSeen = now
  BY <1>1, <1>3 DEF QuotaStates
<1> HIDE DEF counted
<1>5. SoundQuota(counted, now)
  BY <1>1, <1>4, <1>d DEF SoundQuota
<1>6. /\ final \in QuotaStates /\ final # Nil
      /\ final.usageDate = DateOf(now)
      /\ final.usedBytes = counted.usedBytes
      /\ final.lastSeen = now
      /\ Blocked(counted, now) => final.blockedUntil = counted.blockedUntil
  BY <1>4, BlockFacts
<1>7. SoundQuota(final, now)
  BY <1>4, <1>5, BlockKeeps
<1> HIDE DEF final
<1>8. SoundQuota(final, later)
  BY <1>6, <1>7, SoundLater DEF MaybeQuotas
<1>9. ASSUME q # Nil, q.usageDate = DateOf(later), q.usedBytes > 0
      PROVE  final.usageDate = DateOf(later) /\ final.usedBytes >= q.usedBytes
  <2>1. ~(q.usageDate > DateOf(now))
    BY <1>9, <1>q DEF UnspentAfter
  <2>2. q.usageDate = DateOf(now)
    BY <1>9, <1>q, <1>d, <2>1
  <2> QED BY <1>2, <1>3, <1>4, <1>6, <1>9, <2>2
<1>10. ASSUME q # Nil, Blocked(q, later)
       PROVE  Blocked(final, later)
  <2>1. q.usageDate = DateOf(later) /\ q.blockedUntil # ZeroTime /\ later < q.blockedUntil
    BY <1>10, <1>q, BlockedToday DEF Blocked, ZeroTime
  <2>2. q.usageDate = DateOf(now)
    BY <1>10, <1>q, <1>d, <2>1 DEF UnspentAfter
  <2>3. now < q.blockedUntil
    BY <1>10, <1>q, <2>1 DEF Times
  <2>4. counted.blockedUntil = q.blockedUntil /\ Blocked(counted, now)
    BY <1>2, <1>4, <1>10, <2>2, <2>3 DEF Blocked
  <2> QED BY <1>6, <2>1, <2>4 DEF Blocked
<1>11. KeptQuota(q, final, later)
  BY <1>6, <1>9, <1>10 DEF KeptQuota
<1>12. CountedRecord(q, now, delta, limit) = final
  BY DEF CountedRecord, final, counted, quota
<1> QED BY <1>6, <1>8, <1>11, <1>12

(* A record that is old enough to be pruned has no usage of today. *)
LEMMA PruneKeeps ==
    ASSUME NEW q \in QuotaStates, NEW now \in Nat, NEW later \in Nat, now <= later,
           SoundQuota(q, later),
           now - q.lastSeen >= PeerStateRetention, ~Blocked(q, now)
    PROVE  KeptQuota(q, Nil, later)
<1>1. /\ q.usageDate \in Nat /\ q.lastSeen \in Nat /\ q.blockedUntil \in Times
      /\ q # Nil /\ q.usedBytes \in Nat
  BY NilAssumption, LimitsAssumption DEF QuotaStates
<1>2. ~Blocked(q, later)
  BY <1>1 DEF Blocked, Times, ZeroTime
<1>3. ASSUME q.usageDate = DateOf(later), q.usedBytes > 0
      PROVE  FALSE
  <2>1. q.lastSeen >= q.usageDate * DayLength
    BY <1>1, <1>3 DEF SoundQuota
  <2>2. q.usageDate * DayLength \in Nat
        /\ (q.usageDate + 1) * DayLength = q.usageDate * DayLength + DayLength
    BY <1>1, DayOrder
  <2>3. later >= (q.usageDate + 1) * DayLength
    BY <1>1, <2>1, <2>2, DurationsAssumption
  <2>4. later < (DateOf(later) + 1) * DayLength
    BY DayBounds
  <2> QED BY <1>1, <1>3, <2>2, <2>3, <2>4, DurationsAssumption
<1> QED BY <1>2, <1>3 DEF KeptQuota

-----------------------------------------------------------------------------
(* The records in memory, in the file and in a registration in progress.   *)

SoundRecords ==
    /\ \A o \in QuotaOwners : SoundQuota(quotas[o], clock)
    /\ disk # Nil => \A o \in QuotaOwners : SoundQuota(disk.quotas[o], clock)

(* Until the first reconcile has saved it, memory may be ahead of the file *)
(* by what restorePeers has brought up to date.                            *)
StartupQuotas ==
    /\ pc = "restore" => disk # Nil /\ disk.quotas = quotas
    /\ pc = "reconcile" =>
           /\ disk # Nil
           /\ \A o \in QuotaOwners : KeptQuota(disk.quotas[o], quotas[o], clock)

SnapshotQuotas ==
    snap # Nil =>
        /\ \A o \in QuotaOwners : UnspentAfter(quotas[o], snap.now)
        /\ reg # Nil => UnspentAfter(reg.oldQuota, snap.now)

RollbackQuota ==
    reg # Nil =>
        /\ SoundQuota(reg.oldQuota, clock)
        /\ KeptQuota(quotas[reg.owner], reg.oldQuota, clock)

QuotaInv == SoundRecords /\ StartupQuotas /\ SnapshotQuotas /\ RollbackQuota

LEMMA QuotaTypes ==
    ASSUME IndInv
    PROVE  /\ clock \in Nat
           /\ \A o \in QuotaOwners : quotas[o] \in MaybeQuotas
           /\ disk # Nil => \A o \in QuotaOwners : disk.quotas[o] \in MaybeQuotas
           /\ reg # Nil => reg.oldQuota \in MaybeQuotas /\ reg.owner \in QuotaOwners
           /\ snap # Nil => snap.now \in Nat
BY DEF IndInv, TypeOK, DiskStates, Registrations, Snapshots, MaybeQuotas

(* While no save has failed, memory forgets nothing that the file holds. *)
LEMMA MemoryKeepsDisk ==
    ASSUME IndInv, QuotaInv, pc # "down", ~stateErr
    PROVE  /\ disk # Nil
           /\ \A o \in QuotaOwners : KeptQuota(disk.quotas[o], quotas[o], clock)
<1>1. disk # Nil /\ \A o \in QuotaOwners : quotas[o] \in MaybeQuotas
  BY QuotaTypes DEF IndInv, IssueInv
<1>2. CASE pc = "reconcile"
  BY <1>2 DEF QuotaInv, StartupQuotas
<1>3. CASE pc = "restore" \/ pc = "serving"
  <2>1. disk.quotas = quotas
    BY <1>3 DEF QuotaInv, StartupQuotas, IndInv, DurableMirror, diskState
  <2> QED BY <1>1, <2>1, KeptReflexive
<1> QED BY <1>2, <1>3 DEF IndInv, TypeOK

(* A save that forgets nothing keeps the quotas of the file. *)
LEMMA SaveKeeps ==
    ASSUME IndInv, UNCHANGED clock,
           disk # Nil =>
               \A o \in QuotaOwners : /\ disk'.quotas[o] \in MaybeQuotas
                                      /\ KeptQuota(disk.quotas[o], disk'.quotas[o], clock)
    PROVE  QuotaKept
<1> SUFFICES ASSUME disk # Nil, NEW o \in QuotaOwners
             PROVE  /\ UsedOn(disk', o, DateOf(clock)) >= UsedOn(disk, o, DateOf(clock))
                    /\ disk.quotas[o] # Nil /\ Blocked(disk.quotas[o], clock) =>
                           disk'.quotas[o] # Nil /\ Blocked(disk'.quotas[o], clock)
  BY DEF QuotaKept
<1> DEFINE q == disk.quotas[o]
           r == disk'.quotas[o]
<1>1. q \in MaybeQuotas /\ r \in MaybeQuotas /\ KeptQuota(q, r, clock)
  BY QuotaTypes
<1>2. (q # Nil => q.usedBytes \in Nat) /\ (r # Nil => r.usedBytes \in Nat)
  BY <1>1, LimitsAssumption DEF MaybeQuotas, QuotaStates
<1> HIDE DEF q, r
<1>3. (IF r # Nil /\ r.usageDate = DateOf(clock) THEN r.usedBytes ELSE 0)
          >= (IF q # Nil /\ q.usageDate = DateOf(clock) THEN q.usedBytes ELSE 0)
  BY <1>1, <1>2 DEF KeptQuota
<1>4. q # Nil /\ Blocked(q, clock) => r # Nil /\ Blocked(r, clock)
  BY <1>1 DEF KeptQuota
<1> QED BY <1>3, <1>4 DEF UsedOn, q, r

LEMMA UnsavedKeeps ==
    ASSUME IndInv, UNCHANGED disk
    PROVE  QuotaKept
<1> SUFFICES ASSUME disk # Nil, NEW o \in QuotaOwners
             PROVE  UsedOn(disk, o, DateOf(clock)) >= UsedOn(disk, o, DateOf(clock))
  BY DEF QuotaKept
<1>1. disk.quotas[o] # Nil => disk.quotas[o].usedBytes \in Nat
  BY QuotaTypes, LimitsAssumption DEF MaybeQuotas, QuotaStates
<1> QED BY <1>1 DEF UsedOn

(* Memory that is empty, and a file that is sound. *)
LEMMA DownQuotas ==
    ASSUME IndInv, QuotaInv, Exit, UNCHANGED clock,
           disk' # Nil => \A o \in QuotaOwners : SoundQuota(disk'.quotas[o], clock)
    PROVE  QuotaInv'
<1>1. \A o \in QuotaOwners : quotas'[o] = Nil
  BY DEF Exit, noQuotas
<1> QED BY <1>1 DEF Exit, QuotaInv, SoundRecords, StartupQuotas, SnapshotQuotas,
                    RollbackQuota, SoundQuota

(* load brings every record up to date. *)
LEMMA LoadedKeeps ==
    ASSUME IndInv, QuotaInv, NEW o \in QuotaOwners
    PROVE  /\ LoadedQuotas[o] \in MaybeQuotas
           /\ SoundQuota(LoadedQuotas[o], clock)
           /\ disk # Nil => KeptQuota(disk.quotas[o], LoadedQuotas[o], clock)
<1>1. clock \in Nat
  BY QuotaTypes
<1>2. CASE disk = Nil \/ disk.quotas[o] = Nil
  <2>1. LoadedQuotas[o] = Nil
    BY <1>2 DEF LoadedQuotas
  <2> QED BY <1>2, <2>1 DEF MaybeQuotas, SoundQuota, KeptQuota
<1>3. CASE disk # Nil /\ disk.quotas[o] # Nil
  <2>1. LoadedQuotas[o] = normalizeQuotaState(disk.quotas[o], clock)
    BY <1>3 DEF LoadedQuotas
  <2>2. disk.quotas[o] \in QuotaStates /\ SoundQuota(disk.quotas[o], clock)
    BY <1>3, QuotaTypes DEF MaybeQuotas, QuotaInv, SoundRecords
  <2> QED BY <1>1, <2>1, <2>2, NormalizeKeeps, NormalizeType DEF MaybeQuotas
<1> QED BY <1>2, <1>3

LEMMA LoadQuotas ==
    ASSUME IndInv, QuotaInv, NEW cfg, Load(cfg)
    PROVE  QuotaInv' /\ QuotaKept
<1>1. /\ pc' = "restore" /\ quotas' = LoadedQuotas /\ disk' = LoadedState
      /\ reg' = Nil /\ snap' = Nil /\ UNCHANGED clock
      /\ disk'.quotas = LoadedQuotas
  BY DEF Load, LoadedState, diskState, IndInv, PhaseInv
<1>2. disk' # Nil
  BY <1>1, LoadedStateInv DEF Load
<1>3. QuotaInv'
  BY <1>1, <1>2, LoadedKeeps
     DEF QuotaInv, SoundRecords, StartupQuotas, SnapshotQuotas, RollbackQuota
<1>4. QuotaKept
  BY <1>1, LoadedKeeps, SaveKeeps
<1> QED BY <1>3, <1>4

LEMMA LoadSaveFailsQuotas ==
    ASSUME IndInv, QuotaInv, NEW cfg, LoadSaveFails(cfg)
    PROVE  QuotaInv' /\ QuotaKept
<1>1. /\ pc' = "down" /\ quotas' = quotas /\ disk' = LoadedState
      /\ reg' = Nil /\ snap' = Nil /\ UNCHANGED clock
      /\ disk'.quotas = LoadedQuotas
  BY DEF LoadSaveFails, LoadedState, diskState, memory, IndInv, PhaseInv
<1>2. QuotaInv'
  BY <1>1, LoadedKeeps
     DEF QuotaInv, SoundRecords, StartupQuotas, SnapshotQuotas, RollbackQuota
<1>3. QuotaKept
  BY <1>1, LoadedKeeps, SaveKeeps
<1> QED BY <1>2, <1>3

(* restorePeers blocks owners that are over the limit, and lifts no block. *)
LEMMA RestoredKeeps ==
    ASSUME IndInv, QuotaInv, NEW o \in QuotaOwners
    PROVE  /\ RestoredQuotas[o] \in MaybeQuotas
           /\ SoundQuota(RestoredQuotas[o], clock)
           /\ KeptQuota(quotas[o], RestoredQuotas[o], clock)
<1>1. /\ clock \in Nat /\ quotas[o] \in MaybeQuotas /\ SoundQuota(quotas[o], clock)
  BY QuotaTypes DEF QuotaInv, SoundRecords
<1>2. CASE ~\E p \in Peers : RecentEndpoint(p) /\ RestoreOwner(p) = o
  <2>1. RestoredQuotas[o] = quotas[o]
    BY <1>2 DEF RestoredQuotas
  <2> QED BY <1>1, <2>1, KeptReflexive
<1>3. CASE \E p \in Peers : RecentEndpoint(p) /\ RestoreOwner(p) = o
  <2> DEFINE n == normalizeQuotaState(quotas[o], clock)
  <2>1. RestoredQuotas[o] = blockIfOverLimit(n, clock, config.quotaBytes)
    BY <1>3 DEF RestoredQuotas
  <2>2. quotas[o] # Nil
    BY <1>3 DEF RecentEndpoint, HasEndpoint, RestoreOwner, IndInv, OwnerRecorded,
                OwnersPresent
  <2>3. quotas[o] \in QuotaStates
    BY <1>1, <2>2 DEF MaybeQuotas
  <2>4. /\ n \in QuotaStates /\ n.usageDate = DateOf(clock)
        /\ SoundQuota(n, clock) /\ KeptQuota(quotas[o], n, clock)
    BY <1>1, <2>3, NormalizeFacts, NormalizeKeeps
  <2> HIDE DEF n
  <2>5. /\ RestoredQuotas[o] \in QuotaStates
        /\ SoundQuota(RestoredQuotas[o], clock)
        /\ KeptQuota(n, RestoredQuotas[o], clock)
    BY <1>1, <2>1, <2>4, BlockType, BlockKeeps
  <2>6. n \in MaybeQuotas /\ RestoredQuotas[o] \in MaybeQuotas
    BY <2>4, <2>5 DEF MaybeQuotas
  <2> QED BY <1>1, <2>4, <2>5, <2>6, KeptTransitive
<1> QED BY <1>2, <1>3

LEMMA RestoreQuotas ==
    ASSUME IndInv, QuotaInv, NEW rev, NEW failed, NEW partial,
           RestorePeers(rev, failed, partial)
    PROVE  QuotaInv' /\ QuotaKept
<1>1. /\ pc = "restore" /\ pc' = "reconcile" /\ quotas' = RestoredQuotas
      /\ reg' = Nil /\ snap' = Nil /\ UNCHANGED clock
      /\ disk' = disk \/ disk'.quotas = RestoredQuotas
      /\ disk' = disk \/ disk' = diskState(DropEndpoints(peers, RestoreDropped(rev, failed)),
                                           RestoredQuotas, issueWindow, issueCounts)
  BY DEF RestorePeers, diskState, IndInv, PhaseInv
<1>2. disk # Nil /\ disk.quotas = quotas
  BY <1>1 DEF QuotaInv, StartupQuotas
<1>3. disk' # Nil
  <2>1. IndInv'
    BY RestorePeersInv
  <2> QED BY <1>1, <2>1 DEF RestorePeers, IndInv, IssueInv, PhaseInv
<1>4. /\ \A o \in QuotaOwners : SoundQuota(RestoredQuotas[o], clock)
      /\ \A o \in QuotaOwners : SoundQuota(disk'.quotas[o], clock)
      /\ \A o \in QuotaOwners : KeptQuota(disk'.quotas[o], RestoredQuotas[o], clock)
      /\ \A o \in QuotaOwners : KeptQuota(disk.quotas[o], disk'.quotas[o], clock)
      /\ \A o \in QuotaOwners : disk'.quotas[o] \in MaybeQuotas
  <2>1. CASE disk' = disk
    BY <1>2, <2>1, QuotaTypes, RestoredKeeps, KeptReflexive DEF QuotaInv, SoundRecords
  <2>2. CASE disk'.quotas = RestoredQuotas
    BY <1>2, <2>2, RestoredKeeps, KeptReflexive
  <2> QED BY <1>1, <2>1, <2>2
<1>5. QuotaInv'
  BY <1>1, <1>3, <1>4
     DEF QuotaInv, SoundRecords, StartupQuotas, SnapshotQuotas, RollbackQuota
<1>6. QuotaKept
  BY <1>1, <1>4, SaveKeeps
<1> QED BY <1>5, <1>6

LEMMA RestoreFailsQuotas ==
    ASSUME IndInv, QuotaInv, NEW rev, NEW failed, RestorePeersFails(rev, failed)
    PROVE  QuotaInv' /\ QuotaKept
<1>1. /\ pc = "restore" /\ Exit /\ UNCHANGED clock
      /\ disk' = disk \/ disk'.quotas = RestoredQuotas
  BY DEF RestorePeersFails, SaveFails, diskState
<1>2. disk # Nil /\ disk.quotas = quotas
  BY <1>1 DEF QuotaInv, StartupQuotas
<1>3. CASE disk' = disk
  BY <1>1, <1>3, UnsavedKeeps, DownQuotas DEF QuotaInv, SoundRecords
<1>4. CASE disk'.quotas = RestoredQuotas
  BY <1>1, <1>2, <1>4, RestoredKeeps, SaveKeeps, DownQuotas
<1> QED BY <1>1, <1>3, <1>4

(* reconcile reads the device: no record is of a later day yet. *)
LEMMA SnapshotQuotasStep ==
    ASSUME IndInv, QuotaInv, NEW rev, Snapshot(rev)
    PROVE  QuotaInv' /\ QuotaKept
<1>1. /\ snap' # Nil => snap'.now = clock
      /\ UNCHANGED <<pc, clock, quotas, reg, disk>>
  BY DEF Snapshot, memory
<1>2. ASSUME NEW q \in MaybeQuotas, SoundQuota(q, clock) PROVE UnspentAfter(q, clock)
  <2>1. DateOf(clock) \in Nat /\ (q # Nil => q.usageDate \in Nat)
    BY QuotaTypes, DayBounds DEF MaybeQuotas, QuotaStates
  <2> QED BY <1>2, <2>1 DEF SoundQuota, UnspentAfter
<1>3. SnapshotQuotas'
  BY <1>1, <1>2, QuotaTypes DEF QuotaInv, SoundRecords, RollbackQuota, SnapshotQuotas
<1>4. QuotaInv'
  BY <1>1, <1>3 DEF QuotaInv, SoundRecords, StartupQuotas, RollbackQuota
<1> QED BY <1>1, <1>4, UnsavedKeeps

(* reconcile adds to what is recorded, and prunes only what is over. *)
LEMMA ReconciledKeeps ==
    ASSUME IndInv, QuotaInv, snap # Nil, NEW o \in QuotaOwners
    PROVE  /\ ReconciledQuotas[o] \in MaybeQuotas
           /\ SoundQuota(ReconciledQuotas[o], clock)
           /\ KeptQuota(quotas[o], ReconciledQuotas[o], clock)
<1>1. /\ clock \in Nat /\ snap.now \in Nat /\ snap.now <= clock
      /\ quotas[o] \in MaybeQuotas
      /\ SoundQuota(quotas[o], clock) /\ UnspentAfter(quotas[o], snap.now)
  BY QuotaTypes DEF QuotaInv, SoundRecords, SnapshotQuotas, IndInv, SnapshotInv
<1>2. /\ CountedQuota(o) \in QuotaStates /\ CountedQuota(o) # Nil
      /\ CountedQuota(o).lastSeen = snap.now
      /\ SoundQuota(CountedQuota(o), clock)
      /\ KeptQuota(quotas[o], CountedQuota(o), clock)
  <2>1. CountedQuota(o) = CountedRecord(quotas[o], snap.now, CountedBytes(o), config.quotaBytes)
    BY DEF CountedQuota, CountedRecord
  <2> QED BY <1>1, <2>1, CountKeeps
<1>3. CASE \E p \in Known : SeenOwner(p) = o
  <2>1. CountedQuotas[o] = CountedQuota(o)
    BY <1>3 DEF CountedQuotas
  <2>2. ~PrunedQuota(o)
    BY <1>1, <1>2, <2>1, DurationsAssumption DEF PrunedQuota
  <2>3. ReconciledQuotas[o] = CountedQuota(o)
    BY <2>1, <2>2 DEF ReconciledQuotas
  <2> QED BY <1>2, <2>3 DEF MaybeQuotas
<1>4. CASE ~\E p \in Known : SeenOwner(p) = o
  <2>1. CountedQuotas[o] = quotas[o]
    BY <1>4 DEF CountedQuotas
  <2>2. CASE PrunedQuota(o)
    <3>1. ReconciledQuotas[o] = Nil
      BY <2>2 DEF ReconciledQuotas
    <3>2. /\ quotas[o] \in QuotaStates
          /\ snap.now - quotas[o].lastSeen >= PeerStateRetention
          /\ ~Blocked(quotas[o], snap.now)
      BY <1>1, <2>1, <2>2 DEF PrunedQuota, MaybeQuotas
    <3>3. KeptQuota(quotas[o], Nil, clock)
      BY <1>1, <3>2, PruneKeeps
    <3> QED BY <3>1, <3>3 DEF MaybeQuotas, SoundQuota
  <2>3. CASE ~PrunedQuota(o)
    <3>1. ReconciledQuotas[o] = quotas[o]
      BY <2>1, <2>3 DEF ReconciledQuotas
    <3> QED BY <1>1, <3>1, KeptReflexive
  <2> QED BY <2>2, <2>3
<1> QED BY <1>3, <1>4

LEMMA ReconciledDisk ==
    ASSUME IndInv, QuotaInv, snap # Nil, ~stateErr, NEW o \in QuotaOwners
    PROVE  disk # Nil /\ KeptQuota(disk.quotas[o], ReconciledQuotas[o], clock)
<1>1. pc # "down"
  BY DEF IndInv, PhaseInv
<1>2. disk # Nil /\ KeptQuota(disk.quotas[o], quotas[o], clock)
  BY <1>1, MemoryKeepsDisk
<1> QED BY <1>2, QuotaTypes, ReconciledKeeps, KeptTransitive

LEMMA ReconcileQuotas ==
    ASSUME IndInv, QuotaInv, NEW kept, Reconcile(kept)
    PROVE  QuotaInv' /\ QuotaKept
<1>1. /\ snap # Nil /\ ~stateErr /\ pc' = "serving" /\ snap' = Nil /\ reg' = Nil
      /\ quotas' = ReconciledQuotas /\ disk'.quotas = ReconciledQuotas /\ UNCHANGED clock
  BY DEF Reconcile, ReconcileError, ReconciledState, diskState
<1>2. QuotaInv'
  BY <1>1, ReconciledKeeps
     DEF QuotaInv, SoundRecords, StartupQuotas, SnapshotQuotas, RollbackQuota
<1>3. QuotaKept
  BY <1>1, ReconciledKeeps, ReconciledDisk, SaveKeeps
<1> QED BY <1>2, <1>3

LEMMA ReconcileSaveFailsQuotas ==
    ASSUME IndInv, QuotaInv, ReconcileSaveFails
    PROVE  QuotaInv' /\ QuotaKept
<1>1. /\ snap # Nil /\ ~stateErr /\ Exit /\ UNCHANGED clock
      /\ disk' = disk \/ disk'.quotas = ReconciledQuotas
  BY DEF ReconcileSaveFails, ReconcileError, SaveFails, ReconciledState, diskState
<1>2. CASE disk' = disk
  BY <1>1, <1>2, UnsavedKeeps, DownQuotas DEF QuotaInv, SoundRecords
<1>3. CASE disk'.quotas = ReconciledQuotas
  <2>1. QuotaInv'
    BY <1>1, <1>3, ReconciledKeeps, DownQuotas
  <2>2. QuotaKept
    BY <1>1, <1>3, ReconciledKeeps, ReconciledDisk, SaveKeeps
  <2> QED BY <2>1, <2>2
<1> QED BY <1>1, <1>2, <1>3

(* The process ends without a save. *)
LEMMA ExitQuotas ==
    ASSUME IndInv, QuotaInv, Exit, UNCHANGED <<clock, disk>>
    PROVE  QuotaInv' /\ QuotaKept
BY UnsavedKeeps, DownQuotas DEF QuotaInv, SoundRecords

(* registerPeer brings the record of its owner up to date: nothing is      *)
(* forgotten, and nothing comes in that a rollback would forget.           *)
LEMMA RegisteredKeeps ==
    ASSUME IndInv, QuotaInv, NEW p \in Peers, NEW c, NEW key, NEW rev,
           RegisterAccepts(p, c, key, rev)
    PROVE  LET owner == OwnerOf(p, c)
               qs == RegisteredQuotas(owner)
           IN  /\ owner \in QuotaOwners
               /\ \A o \in QuotaOwners :
                      /\ qs[o] \in MaybeQuotas
                      /\ SoundQuota(qs[o], clock)
                      /\ KeptQuota(quotas[o], qs[o], clock)
                      /\ KeptQuota(qs[o], quotas[o], clock)
                      /\ snap # Nil => UnspentAfter(qs[o], snap.now)
<1> DEFINE owner == OwnerOf(p, c)
           q == quotas[owner]
           request == RequestQuota(owner)
           r == RegisteredQuotas(owner)[owner]
<1>1. /\ clock \in Nat /\ owner \in QuotaOwners /\ q \in MaybeQuotas
      /\ SoundQuota(q, clock)
      /\ snap # Nil => UnspentAfter(q, snap.now)
  BY CredentialType, QuotaTypes DEF QuotaInv, SoundRecords, SnapshotQuotas
<1>2. /\ r \in QuotaStates
      /\ r.usageDate = request.usageDate
      /\ r.usedBytes = request.usedBytes
      /\ r.blockedUntil = request.blockedUntil
      /\ r.lastSeen = clock
      /\ \A o \in QuotaOwners \ {owner} : RegisteredQuotas(owner)[o] = quotas[o]
  BY RegisteredQuota
<1>3. /\ request.usageDate = DateOf(clock)
      /\ SoundQuota(request, clock)
      /\ KeptQuota(q, request, clock) /\ KeptQuota(request, q, clock)
      /\ request \in QuotaStates /\ request # Nil
      /\ q = Nil \/ q.usageDate # DateOf(clock) =>
             request.usedBytes = 0 /\ request.blockedUntil = ZeroTime
      /\ q # Nil => request.blockedUntil \in {ZeroTime, q.blockedUntil}
      /\ q # Nil /\ q.usageDate = DateOf(clock) => request.usedBytes = q.usedBytes
  <2>1. CASE q = Nil
    <3>1. request = newQuotaState(clock)
      BY <2>1 DEF RequestQuota
    <3> HIDE DEF request, q
    <3>2. /\ request \in QuotaStates /\ request.usedBytes = 0
          /\ request.blockedUntil = ZeroTime /\ request.usageDate = DateOf(clock)
          /\ SoundQuota(request, clock)
      BY <1>1, <3>1, NewQuotaSound
    <3>3. request # Nil /\ ~Blocked(request, clock)
      BY <1>1, <3>2, NilAssumption DEF Blocked, ZeroTime
    <3> QED BY <2>1, <3>2, <3>3 DEF KeptQuota
  <2>2. CASE q # Nil
    <3>1. request = normalizeQuotaState(q, clock) /\ q \in QuotaStates
      BY <1>1, <2>2 DEF RequestQuota, MaybeQuotas
    <3> HIDE DEF request, q
    <3> QED BY <1>1, <2>2, <3>1, NormalizeFacts, NormalizeKeeps
  <2> QED BY <2>1, <2>2
<1>4. DateOf(clock) \in Nat /\ DateOf(clock) * DayLength <= clock
  BY <1>1, DayBounds
<1> HIDE DEF request, q, r, owner
<1>5. r # Nil /\ r \in MaybeQuotas
  BY <1>2, NilAssumption DEF MaybeQuotas
<1>6. SoundQuota(r, clock)
  BY <1>2, <1>3, <1>4 DEF SoundQuota
<1>7. Blocked(r, clock) <=> Blocked(request, clock)
  BY <1>2 DEF Blocked
<1>8. KeptQuota(q, r, clock) /\ KeptQuota(r, q, clock)
  BY <1>2, <1>3, <1>5, <1>7 DEF KeptQuota
<1>9. ASSUME snap # Nil PROVE UnspentAfter(r, snap.now)
  <2>1. CASE q = Nil \/ q.usageDate # DateOf(clock)
    BY <1>2, <1>3, <2>1 DEF UnspentAfter
  <2>2. CASE q # Nil /\ q.usageDate = DateOf(clock)
    BY <1>1, <1>2, <1>3, <1>9, <2>2 DEF UnspentAfter
  <2> QED BY <2>1, <2>2
<1>10. ASSUME NEW o \in QuotaOwners, o # owner
       PROVE  LET s == RegisteredQuotas(owner)[o]
              IN  /\ s \in MaybeQuotas /\ SoundQuota(s, clock)
                  /\ KeptQuota(quotas[o], s, clock) /\ KeptQuota(s, quotas[o], clock)
                  /\ snap # Nil => UnspentAfter(s, snap.now)
  <2>1. RegisteredQuotas(owner)[o] = quotas[o] /\ quotas[o] \in MaybeQuotas
    BY <1>2, <1>10, QuotaTypes
  <2>2. SoundQuota(quotas[o], clock) /\ (snap # Nil => UnspentAfter(quotas[o], snap.now))
    BY DEF QuotaInv, SoundRecords, SnapshotQuotas
  <2> QED BY <2>1, <2>2, KeptReflexive
<1> QED BY <1>1, <1>5, <1>6, <1>8, <1>9, <1>10 DEF owner, q, r

LEMMA RegisterPeerQuotas ==
    ASSUME IndInv, QuotaInv, NEW p \in Peers, NEW c, NEW key, NEW rev,
           RegisterPeer(p, c, key, rev)
    PROVE  QuotaInv' /\ QuotaKept
<1> DEFINE owner == OwnerOf(p, c)
           qs == RegisteredQuotas(owner)
<1>1. /\ RegisterAccepts(p, c, key, rev) /\ pc = "serving" /\ ~stateErr
      /\ quotas' = qs /\ disk'.quotas = qs
      /\ reg' # Nil /\ reg'.owner = owner /\ reg'.oldQuota = quotas[owner]
      /\ UNCHANGED <<pc, clock, snap>>
  <2>1. RegisterAccepts(p, c, key, rev)
    BY DEF RegisterPeer
  <2>2. quotas' = qs /\ disk'.quotas = qs /\ UNCHANGED <<pc, clock, snap>>
        /\ reg'.owner = owner /\ reg'.oldQuota = quotas[owner]
    BY DEF RegisterPeer, diskState
  <2>3. reg' # Nil
    <3>1. IndInv' /\ owner \in QuotaOwners
      BY <2>1, RegisterPeerInv, CredentialType
    <3>2. reg' \in Registrations
      BY <2>1, <3>1, QuotaTypes
         DEF RegisterPeer, IndInv, TypeOK, Registrations, MaybeQuotas
    <3> QED BY <3>2, NilStateAssumption
  <2> QED BY <2>1, <2>2, <2>3 DEF RegisterAccepts
<1>2. disk # Nil /\ disk.quotas = quotas
  BY <1>1 DEF IndInv, DurableMirror, IssueInv, diskState
<1>3. /\ owner \in QuotaOwners
      /\ \A o \in QuotaOwners :
             /\ qs[o] \in MaybeQuotas
             /\ SoundQuota(qs[o], clock)
             /\ KeptQuota(quotas[o], qs[o], clock)
             /\ KeptQuota(qs[o], quotas[o], clock)
             /\ snap # Nil => UnspentAfter(qs[o], snap.now)
  BY <1>1, RegisteredKeeps
<1>4. /\ SoundQuota(quotas[owner], clock)
      /\ snap # Nil => UnspentAfter(quotas[owner], snap.now)
  BY <1>3 DEF QuotaInv, SoundRecords, SnapshotQuotas
<1> HIDE DEF owner, qs
<1>5. QuotaInv'
  BY <1>1, <1>3, <1>4
     DEF QuotaInv, SoundRecords, StartupQuotas, SnapshotQuotas, RollbackQuota
<1>6. QuotaKept
  BY <1>1, <1>2, <1>3, SaveKeeps
<1> QED BY <1>5, <1>6

LEMMA RegisterPeerSaveFailsQuotas ==
    ASSUME IndInv, QuotaInv, NEW p \in Peers, NEW c, NEW key, NEW rev,
           RegisterPeerSaveFails(p, c, key, rev)
    PROVE  QuotaInv' /\ QuotaKept
<1> DEFINE qs == RegisteredQuotas(OwnerOf(p, c))
<1>1. /\ RegisterAccepts(p, c, key, rev) /\ pc = "serving" /\ ~stateErr
      /\ disk' = disk \/ disk'.quotas = qs
      /\ UNCHANGED <<pc, clock, quotas, reg, snap>>
  BY DEF RegisterPeerSaveFails, RegisterAccepts, SaveFails, diskState
<1>2. disk # Nil /\ disk.quotas = quotas
  BY <1>1 DEF IndInv, DurableMirror, IssueInv, diskState
<1>3. \A o \in QuotaOwners :
          /\ qs[o] \in MaybeQuotas
          /\ SoundQuota(qs[o], clock)
          /\ KeptQuota(quotas[o], qs[o], clock)
  BY <1>1, RegisteredKeeps
<1> HIDE DEF qs
<1>4. disk' # Nil => \A o \in QuotaOwners : SoundQuota(disk'.quotas[o], clock)
  BY <1>1, <1>3 DEF QuotaInv, SoundRecords
<1>5. QuotaInv'
  BY <1>1, <1>4 DEF QuotaInv, SoundRecords, StartupQuotas, SnapshotQuotas, RollbackQuota
<1>6. QuotaKept
  BY <1>1, <1>2, <1>3, SaveKeeps, UnsavedKeeps
<1> QED BY <1>5, <1>6

(* A failed registration puts the old record back.  It is as good as the   *)
(* one it replaces: a registration counts nothing.                         *)
LEMMA CleanupQuotas ==
    ASSUME IndInv, QuotaInv, RegisterCleanup
    PROVE  QuotaInv' /\ QuotaKept
<1> DEFINE qs == RolledBackQuotas
<1>1. /\ reg # Nil /\ quotas' = qs /\ reg' = Nil
      /\ disk' = disk \/ disk'.quotas = qs
      /\ UNCHANGED <<pc, clock, snap>>
  BY DEF RegisterCleanup, SaveFails, RolledBackState, diskState
<1>2. pc = "serving" /\ ~stateErr /\ reg.owner \in QuotaOwners
  BY <1>1, RegistrationType
<1>3. disk # Nil /\ disk.quotas = quotas
  BY <1>2 DEF IndInv, DurableMirror, IssueInv, diskState
<1>4. \A o \in QuotaOwners : qs[o] = IF o = reg.owner THEN reg.oldQuota ELSE quotas[o]
  BY <1>2 DEF RolledBackQuotas, IndInv, TypeOK
<1> HIDE DEF qs
<1>5. ASSUME NEW o \in QuotaOwners
      PROVE  /\ qs[o] \in MaybeQuotas
             /\ SoundQuota(qs[o], clock)
             /\ KeptQuota(quotas[o], qs[o], clock)
             /\ snap # Nil => UnspentAfter(qs[o], snap.now)
  <2>1. CASE o = reg.owner
    <3>1. qs[o] = reg.oldQuota
      BY <1>4, <2>1
    <3> QED BY <1>1, <2>1, <3>1, QuotaTypes DEF QuotaInv, RollbackQuota, SnapshotQuotas
  <2>2. CASE o # reg.owner
    <3>1. qs[o] = quotas[o]
      BY <1>4, <2>2
    <3> QED BY <3>1, QuotaTypes, KeptReflexive DEF QuotaInv, SoundRecords, SnapshotQuotas
  <2> QED BY <2>1, <2>2
<1>6. disk' # Nil => \A o \in QuotaOwners : SoundQuota(disk'.quotas[o], clock)
  BY <1>1, <1>5 DEF QuotaInv, SoundRecords
<1>7. QuotaInv'
  BY <1>1, <1>2, <1>5, <1>6
     DEF QuotaInv, SoundRecords, StartupQuotas, SnapshotQuotas, RollbackQuota
<1>8. QuotaKept
  BY <1>1, <1>3, <1>5, SaveKeeps, UnsavedKeeps
<1> QED BY <1>7, <1>8

(* Steps that leave every quota as it is. *)
LEMMA FrameQuotas ==
    ASSUME IndInv, QuotaInv, UNCHANGED <<pc, clock, quotas, snap, disk>>,
           reg' # Nil => /\ reg # Nil
                         /\ reg'.owner = reg.owner /\ reg'.oldQuota = reg.oldQuota
    PROVE  QuotaInv' /\ QuotaKept
<1>1. QuotaInv'
  BY DEF QuotaInv, SoundRecords, StartupQuotas, SnapshotQuotas, RollbackQuota
<1> QED BY <1>1, UnsavedKeeps

LEMMA IssueQuotas ==
    ASSUME IndInv, QuotaInv, NEW ip, IssueAuthKey(ip) \/ IssueAuthKeySaveFails(ip)
    PROVE  QuotaInv' /\ QuotaKept
<1>1. /\ pc = "serving" /\ ~stateErr
      /\ disk' = disk \/ disk'.quotas = quotas
      /\ UNCHANGED <<pc, clock, quotas, reg, snap>>
  BY DEF IssueAuthKey, IssueAuthKeySaveFails, IssueAccepts, IssuedState, SaveFails, diskState
<1>2. disk # Nil /\ disk.quotas = quotas
  BY <1>1 DEF IndInv, DurableMirror, IssueInv, diskState
<1>3. QuotaInv'
  BY <1>1, <1>2 DEF QuotaInv, SoundRecords, StartupQuotas, SnapshotQuotas, RollbackQuota
<1>4. QuotaKept
  BY <1>1, <1>2, QuotaTypes, KeptReflexive, SaveKeeps
<1> QED BY <1>3, <1>4

(* Midnight may pass in the middle of anything. *)
LEMMA TickQuotas ==
    ASSUME IndInv, QuotaInv, Tick
    PROVE  QuotaInv' /\ QuotaKept
<1>1. clock' = clock + 1 /\ clock \in Nat /\ UNCHANGED <<pc, quotas, reg, snap, disk>>
  BY QuotaTypes DEF Tick, memory
<1>2. ASSUME NEW q \in MaybeQuotas, SoundQuota(q, clock)
      PROVE  SoundQuota(q, clock + 1)
  <2>1. clock + 1 \in Nat /\ clock <= clock + 1
    BY <1>1
  <2> QED BY <1>1, <1>2, <2>1, SoundLater
<1>3. SoundRecords'
  BY <1>1, <1>2, QuotaTypes DEF QuotaInv, SoundRecords
<1>4. StartupQuotas'
  <2>1. ASSUME pc = "reconcile", NEW o \in QuotaOwners
        PROVE  disk # Nil /\ KeptQuota(disk.quotas[o], quotas[o], clock + 1)
    BY <1>1, <2>1, QuotaTypes, KeptLater DEF QuotaInv, StartupQuotas, SoundRecords
  <2>2. pc = "reconcile" => disk # Nil
    BY DEF QuotaInv, StartupQuotas
  <2> QED BY <1>1, <2>1, <2>2 DEF QuotaInv, StartupQuotas
<1>5. SnapshotQuotas'
  BY <1>1 DEF QuotaInv, SnapshotQuotas
<1>6. RollbackQuota'
  <2>1. ASSUME reg # Nil
        PROVE  /\ SoundQuota(reg.oldQuota, clock + 1)
               /\ KeptQuota(quotas[reg.owner], reg.oldQuota, clock + 1)
    BY <1>1, <1>2, <2>1, QuotaTypes, KeptLater DEF QuotaInv, RollbackQuota, SoundRecords
  <2> QED BY <1>1, <2>1 DEF RollbackQuota
<1> QED BY <1>1, <1>3, <1>4, <1>5, <1>6, UnsavedKeeps DEF QuotaInv

LEMMA NextQuotas ==
    ASSUME IndInv, QuotaInv, [Next]_vars
    PROVE  QuotaInv' /\ QuotaKept
<1>1. CASE Startup
  BY <1>1, LoadQuotas, LoadSaveFailsQuotas, RestoreQuotas, RestoreFailsQuotas DEF Startup
<1>2. CASE RunLoop
  <2>1. CASE SnapshotFails \/ ReconcileFails \/ RunFailure
    BY <2>1, ExitQuotas DEF SnapshotFails, ReconcileFails, RunFailure
  <2> QED BY <1>2, <2>1, SnapshotQuotasStep, ReconcileQuotas, ReconcileSaveFailsQuotas
             DEF RunLoop
<1>3. CASE Requests
  <2>1. CASE RegisterAddPeer \/ RegisterCleanupFails
    BY <2>1, FrameQuotas DEF RegisterAddPeer, RegisterCleanupFails
  <2>2. CASE RegisterAddPeerFails
    <3>1. /\ reg # Nil /\ reg' = [reg EXCEPT !.phase = "cleanup"]
          /\ UNCHANGED <<pc, clock, quotas, snap, disk>>
      BY <2>2 DEF RegisterAddPeerFails, memory
    <3>2. reg'.owner = reg.owner /\ reg'.oldQuota = reg.oldQuota
      BY <3>1, RegistrationType DEF Registrations
    <3> QED BY <3>1, <3>2, FrameQuotas
  <2> QED BY <1>3, <2>1, <2>2, RegisterPeerQuotas, RegisterPeerSaveFailsQuotas,
             CleanupQuotas, IssueQuotas DEF Requests
<1>4. CASE Environment
  <2>1. CASE Crash
    BY <2>1, ExitQuotas DEF Crash
  <2>2. CASE \E p \in Peers : Handshake(p) \/ Receive(p) \/ Transmit(p)
    BY <2>2, FrameQuotas DEF Handshake, Receive, Transmit, memory
  <2>3. CASE \E ids \in SUBSET KeyIDs : EditRevocations(ids)
    BY <2>3, FrameQuotas DEF EditRevocations, memory
  <2> QED BY <1>4, <2>1, <2>2, <2>3, TickQuotas DEF Environment
<1>5. CASE UNCHANGED vars
  BY <1>5, FrameQuotas DEF vars, memory
<1> QED BY <1>1, <1>2, <1>3, <1>4, <1>5 DEF Next

(* Within a day no step, whether it rolls back, prunes, re-keys, restarts  *)
(* or crashes, lowers the usage recorded in the file for an owner, and no  *)
(* block is lifted before it ends.                                         *)
THEOREM UsageNeverForgiven == Spec => QuotaNeverForgiven
<1>1. Init => QuotaInv
  BY DEF Init, newAccessController, noQuotas, QuotaInv, SoundRecords, StartupQuotas,
         SnapshotQuotas, RollbackQuota, SoundQuota
<1>2. IndInv /\ QuotaInv /\ [Next]_vars => QuotaInv'
  BY NextQuotas
<1>3. IndInv /\ QuotaInv /\ [Next]_vars => [QuotaKept]_vars
  BY NextQuotas
<1> QED BY <1>1, <1>2, <1>3, Invariance, PTL DEF Spec, QuotaNeverForgiven

-----------------------------------------------------------------------------
(* Every byte is charged once. *)

(* A baseline and a counter; what is absent is zero. *)
BaseRx(r) == IF r = Nil THEN 0 ELSE r.lastRx
BaseTx(r) == IF r = Nil THEN 0 ELSE r.lastTx
CountRx(d) == IF d = Nil THEN 0 ELSE d.rx
CountTx(d) == IF d = Nil THEN 0 ELSE d.tx

(* The counters of a peer have not fallen behind its baseline, and the     *)
(* peer owes what lies between the two.                                    *)
PeerAccount(p) ==
    /\ BaseRx(runtime[p]) <= CountRx(device[p])
    /\ BaseTx(runtime[p]) <= CountTx(device[p])
    /\ owed[p] = CountRx(device[p]) + CountTx(device[p])
                     - BaseRx(runtime[p]) - BaseTx(runtime[p])

(* What a pending reconcile has read lies between the baseline and the     *)
(* counters, and the peer has not left since.                              *)
SeenAccount(p) ==
    snap # Nil /\ snap.device[p] # Nil =>
        /\ device[p] # Nil
        /\ BaseRx(runtime[p]) <= snap.device[p].rx
        /\ BaseTx(runtime[p]) <= snap.device[p].tx
        /\ snap.device[p].rx <= CountRx(device[p])
        /\ snap.device[p].tx <= CountTx(device[p])

AccountInv == \A p \in Peers \ ghosts : PeerAccount(p) /\ SeenAccount(p)

Owes ==
    /\ owed' = [p \in Peers |->
                   IF device'[p] = Nil THEN 0 ELSE owed[p] + Moves(p) - Charges(p)]
    /\ ghosts' = {p \in Peers : (p \in ghosts \/ LeavesGhost(p)) /\ ~Vanished(p)}

(* What a step leaves of the account of a peer that it makes no ghost. *)
AccountKept == \A p \in Peers \ ghosts : ~LeavesGhost(p) => PeerAccount(p)' /\ SeenAccount(p)'

LEMMA BaseTypes ==
    ASSUME NEW r \in PeerRuntimes \cup {Nil}
    PROVE  BaseRx(r) \in Nat /\ BaseTx(r) \in Nat
BY DEF BaseRx, BaseTx, PeerRuntimes

LEMMA CountTypes ==
    ASSUME NEW d \in DevicePeers \cup {Nil}
    PROVE  CountRx(d) \in Nat /\ CountTx(d) \in Nat /\ Moved(d) = CountRx(d) + CountTx(d)
<1>1. CASE d = Nil
  BY <1>1 DEF CountRx, CountTx, Moved
<1>2. CASE d # Nil
  BY <1>2 DEF CountRx, CountTx, Moved, DevicePeers
<1> QED BY <1>1, <1>2

LEMMA AccountTypes ==
    ASSUME IndInv, NEW p \in Peers
    PROVE  /\ device[p] \in DevicePeers \cup {Nil}
           /\ runtime[p] \in PeerRuntimes \cup {Nil}
           /\ CountRx(device[p]) \in Nat /\ CountTx(device[p]) \in Nat
           /\ BaseRx(runtime[p]) \in Nat /\ BaseTx(runtime[p]) \in Nat
           /\ snap # Nil /\ snap.device[p] # Nil =>
                  snap.device[p].rx \in Nat /\ snap.device[p].tx \in Nat
<1>1. device[p] \in DevicePeers \cup {Nil} /\ runtime[p] \in PeerRuntimes \cup {Nil}
  BY DEF IndInv, TypeOK
<1>2. snap # Nil /\ snap.device[p] # Nil =>
          snap.device[p].rx \in Nat /\ snap.device[p].tx \in Nat
  BY DEF IndInv, TypeOK, Snapshots, DevicePeerInfos
<1> QED BY <1>1, <1>2, BaseTypes, CountTypes

(* A peer of which nothing is left owes nothing; it is no ghost any more.  *)
LEMMA VanishedAccount ==
    ASSUME Owes, NEW p \in Peers, Vanished(p)
    PROVE  PeerAccount(p)' /\ SeenAccount(p)'
<1>1. device'[p] = Nil /\ runtime'[p] = Nil /\ snap' = Nil
  BY DEF Vanished
<1>2. owed'[p] = 0
  BY <1>1 DEF Owes
<1>3. /\ BaseRx(runtime'[p]) = 0 /\ BaseTx(runtime'[p]) = 0
      /\ CountRx(device'[p]) = 0 /\ CountTx(device'[p]) = 0
  BY <1>1 DEF BaseRx, BaseTx, CountRx, CountTx
<1>4. PeerAccount(p)'
  BY <1>2, <1>3 DEF PeerAccount
<1> QED BY <1>1, <1>4 DEF SeenAccount

LEMMA AccountsKept ==
    ASSUME Owes, AccountKept
    PROVE  AccountInv'
<1> SUFFICES ASSUME NEW p \in Peers, p \notin ghosts' PROVE PeerAccount(p)' /\ SeenAccount(p)'
  BY DEF AccountInv
<1>1. Vanished(p) \/ (p \notin ghosts /\ ~LeavesGhost(p))
  BY DEF Owes
<1> QED BY <1>1, VanishedAccount DEF AccountKept

(* A peer that is not in the device after the step, nor is its baseline. *)
LEMMA AbsentAccount ==
    ASSUME AccountInv, Owes, NEW p \in Peers \ ghosts, ~LeavesGhost(p),
           device'[p] = Nil, runtime'[p] = Nil, UNCHANGED snap \/ snap' = Nil
    PROVE  PeerAccount(p)' /\ SeenAccount(p)'
<1>1. owed'[p] = 0
  BY DEF Owes
<1>2. /\ BaseRx(runtime'[p]) = 0 /\ BaseTx(runtime'[p]) = 0
      /\ CountRx(device'[p]) = 0 /\ CountTx(device'[p]) = 0
  BY DEF BaseRx, BaseTx, CountRx, CountTx
<1>3. PeerAccount(p)'
  BY <1>1, <1>2 DEF PeerAccount
<1>4. snap' # Nil => snap'.device[p] = Nil
  <2> SUFFICES ASSUME snap' # Nil, snap'.device[p] # Nil PROVE FALSE
    OBVIOUS
  <2>1. device[p] = Nil /\ snap # Nil /\ snap.device[p] # Nil
    BY DEF LeavesGhost
  <2> QED BY <2>1 DEF AccountInv, SeenAccount
<1> QED BY <1>3, <1>4 DEF SeenAccount

(* A peer whose baseline stays and whose counters do not fall. *)
LEMMA StayingAccount ==
    ASSUME IndInv, IndInv', AccountInv, Owes, ~Reconciles, NEW p \in Peers \ ghosts,
           device'[p] = Nil => device[p] = Nil,
           device[p] = Nil => CountRx(device'[p]) = 0 /\ CountTx(device'[p]) = 0,
           CountRx(device'[p]) >= CountRx(device[p]),
           CountTx(device'[p]) >= CountTx(device[p]),
           BaseRx(runtime'[p]) = BaseRx(runtime[p]),
           BaseTx(runtime'[p]) = BaseTx(runtime[p])
    PROVE  PeerAccount(p)' /\ (UNCHANGED snap \/ snap' = Nil => SeenAccount(p)')
<1>1. /\ device'[p] \in DevicePeers \cup {Nil}
      /\ runtime'[p] \in PeerRuntimes \cup {Nil}
  BY DEF IndInv, TypeOK
<1>2. /\ CountRx(device'[p]) \in Nat /\ CountTx(device'[p]) \in Nat
      /\ Moved(device'[p]) = CountRx(device'[p]) + CountTx(device'[p])
  BY <1>1, CountTypes
<1>3. /\ CountRx(device[p]) \in Nat /\ CountTx(device[p]) \in Nat
      /\ BaseRx(runtime[p]) \in Nat /\ BaseTx(runtime[p]) \in Nat
      /\ Moved(device[p]) = CountRx(device[p]) + CountTx(device[p])
  BY AccountTypes, CountTypes
<1>4. /\ BaseRx(runtime[p]) <= CountRx(device[p])
      /\ BaseTx(runtime[p]) <= CountTx(device[p])
      /\ owed[p] = CountRx(device[p]) + CountTx(device[p])
                       - BaseRx(runtime[p]) - BaseTx(runtime[p])
  BY DEF AccountInv, PeerAccount
<1>5. Charges(p) = 0
  BY DEF Charges
<1>6. owed'[p] = CountRx(device'[p]) + CountTx(device'[p])
                     - BaseRx(runtime[p]) - BaseTx(runtime[p])
  <2>1. CASE device'[p] = Nil
    <3>1. owed'[p] = 0
      BY <2>1 DEF Owes
    <3>2. CountRx(device[p]) = 0 /\ CountTx(device[p]) = 0
      BY <2>1 DEF CountRx, CountTx
    <3>3. CountRx(device'[p]) = 0 /\ CountTx(device'[p]) = 0
      BY <2>1
    <3> QED BY <1>3, <1>4, <3>1, <3>2, <3>3
  <2>2. CASE device'[p] # Nil /\ device[p] = Nil
    <3>1. Moves(p) = 0
      BY <2>2 DEF Moves
    <3>2. owed'[p] = owed[p] + 0 - 0
      BY <1>5, <2>2, <3>1 DEF Owes
    <3>3. CountRx(device[p]) = 0 /\ CountTx(device[p]) = 0
      BY <2>2 DEF CountRx, CountTx
    <3> QED BY <1>3, <1>4, <2>2, <3>2, <3>3
  <2>3. CASE device'[p] # Nil /\ device[p] # Nil
    <3>1. Moves(p) = Moved(device'[p]) - Moved(device[p])
      BY <2>3 DEF Moves
    <3>2. owed'[p] = owed[p] + Moves(p) - 0
      BY <1>5, <2>3 DEF Owes
    <3> QED BY <1>2, <1>3, <1>4, <3>1, <3>2
  <2> QED BY <2>1, <2>2, <2>3
<1>7. PeerAccount(p)'
  <2>1. /\ BaseRx(runtime'[p]) <= CountRx(device'[p])
        /\ BaseTx(runtime'[p]) <= CountTx(device'[p])
    BY <1>2, <1>3, <1>4
  <2>2. owed'[p] = CountRx(device'[p]) + CountTx(device'[p])
                       - BaseRx(runtime'[p]) - BaseTx(runtime'[p])
    BY <1>6
  <2> QED BY <2>1, <2>2 DEF PeerAccount
<1>8. ASSUME UNCHANGED snap \/ snap' = Nil
      PROVE  SeenAccount(p)'
  <2> SUFFICES ASSUME snap' # Nil, snap'.device[p] # Nil
               PROVE  /\ device'[p] # Nil
                      /\ BaseRx(runtime'[p]) <= snap'.device[p].rx
                      /\ BaseTx(runtime'[p]) <= snap'.device[p].tx
                      /\ snap'.device[p].rx <= CountRx(device'[p])
                      /\ snap'.device[p].tx <= CountTx(device'[p])
    BY DEF SeenAccount
  <2>1. snap # Nil /\ snap' = snap /\ snap.device[p] # Nil
    BY <1>8
  <2>2. /\ device[p] # Nil
        /\ BaseRx(runtime[p]) <= snap.device[p].rx
        /\ BaseTx(runtime[p]) <= snap.device[p].tx
        /\ snap.device[p].rx <= CountRx(device[p])
        /\ snap.device[p].tx <= CountTx(device[p])
    BY <2>1 DEF AccountInv, SeenAccount
  <2>3. snap.device[p].rx \in Nat /\ snap.device[p].tx \in Nat
    BY <2>1, AccountTypes
  <2>4. /\ BaseRx(runtime'[p]) <= snap.device[p].rx
        /\ BaseTx(runtime'[p]) <= snap.device[p].tx
    BY <2>2
  <2>5. /\ snap.device[p].rx <= CountRx(device'[p])
        /\ snap.device[p].tx <= CountTx(device'[p])
    BY <1>2, <1>3, <2>2, <2>3
  <2>6. device'[p] # Nil
    BY <2>2
  <2> QED BY <2>1, <2>4, <2>5, <2>6
<1> QED BY <1>7, <1>8

(* Steps that touch neither the device nor the baselines. *)
LEMMA FrameAccount ==
    ASSUME IndInv, IndInv', AccountInv, Owes, UNCHANGED <<device, runtime, snap>>
    PROVE  AccountInv' /\ ~Reconciles
<1>1. ~Reconciles
  BY DEF Reconciles
<1>2. ASSUME NEW p \in Peers \ ghosts
      PROVE  PeerAccount(p)' /\ SeenAccount(p)'
  <2>1. /\ CountRx(device[p]) \in Nat /\ CountTx(device[p]) \in Nat
        /\ device'[p] = device[p] /\ runtime'[p] = runtime[p]
    BY AccountTypes
  <2>2. device[p] = Nil => CountRx(device[p]) = 0 /\ CountTx(device[p]) = 0
    BY DEF CountRx, CountTx
  <2> QED BY <1>1, <2>1, <2>2, StayingAccount
<1>3. AccountKept
  BY <1>2 DEF AccountKept
<1> QED BY <1>1, <1>3, AccountsKept

(* The process ends, and the device with it. *)
LEMMA ExitAccount ==
    ASSUME AccountInv, Owes, Exit
    PROVE  AccountInv' /\ ~Reconciles
<1>1. ~Reconciles
  BY DEF Exit, Reconciles
<1>2. ASSUME NEW p \in Peers
      PROVE  PeerAccount(p)' /\ SeenAccount(p)'
  <2>1. Vanished(p)
    BY DEF Exit, noPeers, Vanished
  <2> QED BY <2>1, VanishedAccount
<1>3. AccountKept
  BY <1>2 DEF AccountKept
<1> QED BY <1>1, <1>3, AccountsKept

(* restorePeers adds its peers to an empty device; one whose AddPeer       *)
(* failed half way has no baseline, which is the same as zero.             *)
LEMMA RestoreAccount ==
    ASSUME IndInv, IndInv', AccountInv, Owes,
           NEW rev, NEW failed, NEW partial, RestorePeers(rev, failed, partial)
    PROVE  AccountInv' /\ ~Reconciles
<1>1. /\ pc = "restore" /\ pc' = "reconcile"
      /\ device = noPeers /\ UNCHANGED snap
  BY DEF RestorePeers, IndInv, PhaseInv
<1>2. ~Reconciles
  BY <1>1 DEF Reconciles
<1>3. ASSUME NEW p \in Peers \ ghosts
      PROVE  PeerAccount(p)' /\ SeenAccount(p)'
  <2>1. device[p] = Nil /\ CountRx(device[p]) = 0 /\ CountTx(device[p]) = 0
    BY <1>1 DEF noPeers, CountRx, CountTx
  <2>2. BaseRx(runtime[p]) = 0 /\ BaseTx(runtime[p]) = 0
    <3>1. BaseRx(runtime[p]) <= 0 /\ BaseTx(runtime[p]) <= 0
      BY <2>1 DEF AccountInv, PeerAccount
    <3> QED BY <3>1, AccountTypes
  <2>3. device'[p] \in {[rx |-> 0, tx |-> 0, handshake |-> 0], Nil}
    BY <2>1 DEF RestorePeers, AddedPeer
  <2>4. CountRx(device'[p]) = 0 /\ CountTx(device'[p]) = 0
    BY <2>3 DEF CountRx, CountTx
  <2>5. \/ runtime'[p] = [lastRx |-> 0, lastTx |-> 0, addedAt |-> clock]
        \/ runtime'[p] = runtime[p]
    BY DEF RestorePeers
  <2>6. BaseRx(runtime'[p]) = 0 /\ BaseTx(runtime'[p]) = 0
    <3>1. CASE runtime'[p] = [lastRx |-> 0, lastTx |-> 0, addedAt |-> clock]
      BY <3>1 DEF BaseRx, BaseTx
    <3>2. CASE runtime'[p] = runtime[p]
      BY <2>2, <3>2
    <3> QED BY <2>5, <3>1, <3>2
  <2> QED BY <1>1, <1>2, <2>1, <2>2, <2>4, <2>6, StayingAccount
<1>4. AccountKept
  BY <1>3 DEF AccountKept
<1> QED BY <1>2, <1>4, AccountsKept

(* reconcile reads the counters. *)
LEMMA SnapshotAccount ==
    ASSUME IndInv, IndInv', AccountInv, Owes, NEW rev, Snapshot(rev)
    PROVE  AccountInv' /\ ~Reconciles
<1>1. /\ snap = Nil /\ UNCHANGED <<pc, device, runtime>>
      /\ snap' = [device |-> [p \in Peers |-> IF device[p] = Nil THEN Nil
                                             ELSE GetWgDeviceInfo(device[p])],
                  now |-> clock, revoked |-> rev]
  BY DEF Snapshot, memory
<1>2. ~Reconciles
  BY <1>1 DEF Reconciles
<1>3. ASSUME NEW p \in Peers \ ghosts
      PROVE  PeerAccount(p)' /\ SeenAccount(p)'
  <2>1. /\ CountRx(device[p]) \in Nat /\ CountTx(device[p]) \in Nat
        /\ BaseRx(runtime[p]) \in Nat /\ BaseTx(runtime[p]) \in Nat
        /\ device'[p] = device[p] /\ runtime'[p] = runtime[p]
    BY <1>1, AccountTypes
  <2>2. device[p] = Nil => CountRx(device[p]) = 0 /\ CountTx(device[p]) = 0
    BY DEF CountRx, CountTx
  <2>3. PeerAccount(p)'
    BY <1>2, <2>1, <2>2, StayingAccount
  <2>4. CASE device[p] = Nil
    <3>1. snap'.device[p] = Nil
      BY <1>1, <2>4
    <3> QED BY <2>3, <3>1 DEF SeenAccount
  <2>5. CASE device[p] # Nil
    <3>1. snap'.device[p] = GetWgDeviceInfo(device[p])
      BY <1>1, <2>5
    <3>2. snap'.device[p].rx = CountRx(device[p]) /\ snap'.device[p].tx = CountTx(device[p])
      BY <2>5, <3>1 DEF GetWgDeviceInfo, CountRx, CountTx
    <3>3. /\ BaseRx(runtime[p]) <= CountRx(device[p])
          /\ BaseTx(runtime[p]) <= CountTx(device[p])
      BY DEF AccountInv, PeerAccount
    <3>4. SeenAccount(p)'
      BY <2>1, <2>5, <3>2, <3>3 DEF SeenAccount
    <3> QED BY <2>3, <3>4
  <2> QED BY <2>4, <2>5
<1>4. AccountKept
  BY <1>3 DEF AccountKept
<1> QED BY <1>2, <1>4, AccountsKept

(* A registration changes the device or the baselines of its peer only. A  *)
(* new peer starts at zero, one that is there keeps counters and baseline. *)
LEMMA RegisteringAccount ==
    ASSUME IndInv, IndInv', AccountInv, Owes, reg # Nil, UNCHANGED snap,
           device' = device \/ device' = [device EXCEPT ![reg.peer] = AddedPeer(reg.peer)],
           runtime' = runtime \/ runtime' = RegisteredRuntime
    PROVE  AccountInv' /\ ~Reconciles
<1>1. ~Reconciles
  BY DEF Reconciles
<1>2. /\ reg.peer \in Peers /\ reg.now \in Nat
      /\ device \in [Peers -> DevicePeers \cup {Nil}]
      /\ runtime \in [Peers -> PeerRuntimes \cup {Nil}]
  BY RegistrationType DEF IndInv, TypeOK
<1>3. ASSUME NEW p \in Peers
      PROVE  /\ BaseRx(runtime'[p]) = BaseRx(runtime[p])
             /\ BaseTx(runtime'[p]) = BaseTx(runtime[p])
  <2>1. CASE runtime'[p] = runtime[p]
    BY <2>1
  <2>2. CASE runtime'[p] # runtime[p]
    <3>1. runtime' = RegisteredRuntime /\ p = reg.peer
      BY <2>2, RegisteredRuntimeType
    <3>2. CASE runtime[p] = Nil
      <4>1. runtime'[p] = [lastRx |-> 0, lastTx |-> 0, addedAt |-> reg.now]
        BY <1>2, <3>1, <3>2 DEF RegisteredRuntime
      <4> QED BY <3>2, <4>1 DEF BaseRx, BaseTx
    <3>3. CASE runtime[p] # Nil
      <4>1. runtime'[p] = [runtime[p] EXCEPT !.addedAt = reg.now] /\ runtime[p] \in PeerRuntimes
        BY <1>2, <3>1, <3>3 DEF RegisteredRuntime
      <4>2. /\ runtime'[p] \in PeerRuntimes
            /\ runtime'[p].lastRx = runtime[p].lastRx
            /\ runtime'[p].lastTx = runtime[p].lastTx
        BY <1>2, <4>1 DEF PeerRuntimes
      <4>3. runtime'[p] # Nil
        BY <4>2, NilAssumption
      <4> QED BY <3>3, <4>2, <4>3 DEF BaseRx, BaseTx
    <3> QED BY <3>2, <3>3
  <2> QED BY <2>1, <2>2
<1>4. ASSUME NEW p \in Peers
      PROVE  /\ device'[p] = Nil => device[p] = Nil
             /\ device[p] = Nil => CountRx(device'[p]) = 0 /\ CountTx(device'[p]) = 0
             /\ CountRx(device'[p]) >= CountRx(device[p])
             /\ CountTx(device'[p]) >= CountTx(device[p])
  <2>1. CountRx(device[p]) \in Nat /\ CountTx(device[p]) \in Nat
    BY AccountTypes
  <2>2. CASE device'[p] = device[p]
    BY <2>1, <2>2 DEF CountRx, CountTx
  <2>3. CASE device'[p] # device[p]
    <3>1. device'[p] = AddedPeer(p) /\ device[p] = Nil
      BY <1>2, <2>3 DEF AddedPeer
    <3>2. device'[p] = [rx |-> 0, tx |-> 0, handshake |-> 0]
      BY <3>1 DEF AddedPeer
    <3>3. device'[p] # Nil
      BY <2>3, <3>1
    <3>4. /\ CountRx(device[p]) = 0 /\ CountTx(device[p]) = 0
          /\ CountRx(device'[p]) = 0 /\ CountTx(device'[p]) = 0
      BY <3>1, <3>2, <3>3 DEF CountRx, CountTx
    <3> QED BY <3>3, <3>4
  <2> QED BY <2>2, <2>3
<1>5. AccountKept
  <2> SUFFICES ASSUME NEW p \in Peers \ ghosts PROVE PeerAccount(p)' /\ SeenAccount(p)'
    BY DEF AccountKept
  <2> QED BY <1>1, <1>3, <1>4, StayingAccount
<1> QED BY <1>1, <1>5, AccountsKept

(* A failed registration is cleaned up: the peer and its baseline go, and  *)
(* unless a pending snapshot has seen the peer nothing is left of it.      *)
LEMMA CleanupAccount ==
    ASSUME IndInv, IndInv', AccountInv, Owes, RegisterCleanup
    PROVE  AccountInv' /\ ~Reconciles
<1>1. /\ reg # Nil /\ UNCHANGED snap
      /\ device' = [device EXCEPT ![reg.peer] = Nil]
      /\ runtime' = [runtime EXCEPT ![reg.peer] = Nil]
  BY DEF RegisterCleanup
<1>2. ~Reconciles
  BY <1>1 DEF Reconciles
<1>3. /\ reg.peer \in Peers
      /\ device \in [Peers -> DevicePeers \cup {Nil}]
      /\ runtime \in [Peers -> PeerRuntimes \cup {Nil}]
  BY <1>1, RegistrationType DEF IndInv, TypeOK
<1>4. AccountKept
  <2> SUFFICES ASSUME NEW p \in Peers \ ghosts, ~LeavesGhost(p)
               PROVE  PeerAccount(p)' /\ SeenAccount(p)'
    BY DEF AccountKept
  <2>1. CASE p = reg.peer
    <3>1. device'[p] = Nil /\ runtime'[p] = Nil
      BY <1>1, <1>3, <2>1
    <3> QED BY <1>1, <3>1, AbsentAccount
  <2>2. CASE p # reg.peer
    <3>1. /\ device'[p] = device[p] /\ runtime'[p] = runtime[p]
          /\ CountRx(device[p]) \in Nat /\ CountTx(device[p]) \in Nat
      BY <1>1, <1>3, <2>2, AccountTypes
    <3>2. device[p] = Nil => CountRx(device[p]) = 0 /\ CountTx(device[p]) = 0
      BY DEF CountRx, CountTx
    <3> QED BY <1>1, <1>2, <3>1, <3>2, StayingAccount
  <2> QED BY <2>1, <2>2
<1> QED BY <1>2, <1>4, AccountsKept

(* A peer moves bytes or completes a handshake. *)
LEMMA TrafficAccount ==
    ASSUME IndInv, IndInv', AccountInv, Owes, NEW q \in Peers,
           Handshake(q) \/ Receive(q) \/ Transmit(q)
    PROVE  AccountInv' /\ ~Reconciles
<1>1. device[q] # Nil /\ UNCHANGED <<runtime, snap>>
  BY DEF Handshake, Receive, Transmit, memory
<1>2. ~Reconciles
  BY <1>1 DEF Reconciles
<1>3. device \in [Peers -> DevicePeers \cup {Nil}] /\ device[q] \in DevicePeers
      /\ clock \in Nat
  BY <1>1 DEF IndInv, TypeOK
<1>4. /\ device'[q] \in DevicePeers
      /\ device'[q].rx >= device[q].rx /\ device'[q].tx >= device[q].tx
  <2>1. CASE Handshake(q)
    BY <1>3, <2>1 DEF Handshake, DevicePeers
  <2>2. CASE Receive(q)
    BY <1>3, <2>2 DEF Receive, DevicePeers
  <2>3. CASE Transmit(q)
    BY <1>3, <2>3 DEF Transmit, DevicePeers
  <2> QED BY <2>1, <2>2, <2>3
<1>5. \A p \in Peers \ {q} : device'[p] = device[p]
  BY <1>3 DEF Handshake, Receive, Transmit
<1>6. AccountKept
  <2> SUFFICES ASSUME NEW p \in Peers \ ghosts PROVE PeerAccount(p)' /\ SeenAccount(p)'
    BY DEF AccountKept
  <2>1. CASE p = q
    <3>1. device'[p] # Nil /\ device[p] # Nil /\ runtime'[p] = runtime[p]
      BY <1>1, <1>4, <2>1, NilStateAssumption
    <3>2. /\ CountRx(device'[p]) >= CountRx(device[p])
          /\ CountTx(device'[p]) >= CountTx(device[p])
      BY <1>4, <2>1, <3>1 DEF CountRx, CountTx
    <3> QED BY <1>1, <1>2, <3>1, <3>2, StayingAccount
  <2>2. CASE p # q
    <3>1. /\ device'[p] = device[p] /\ runtime'[p] = runtime[p]
          /\ CountRx(device[p]) \in Nat /\ CountTx(device[p]) \in Nat
      BY <1>1, <1>5, <2>2, AccountTypes
    <3>2. device[p] = Nil => CountRx(device[p]) = 0 /\ CountTx(device[p]) = 0
      BY DEF CountRx, CountTx
    <3> QED BY <1>1, <1>2, <3>1, <3>2, StayingAccount
  <2> QED BY <2>1, <2>2
<1> QED BY <1>2, <1>6, AccountsKept

(* What reconcile charges a peer is what lies between its baseline and the *)
(* snapshot: no counter went backwards.                                    *)
LEMMA DeltaIsMove ==
    ASSUME IndInv, AccountInv, snap # Nil, NEW p \in Peers \ ghosts, snap.device[p] # Nil
    PROVE  PeerDelta(p) = snap.device[p].rx + snap.device[p].tx
                              - BaseRx(runtime[p]) - BaseTx(runtime[p])
<1> DEFINE s == snap.device[p]
<1>1. BaseRx(runtime[p]) <= s.rx /\ BaseTx(runtime[p]) <= s.tx
  BY DEF AccountInv, SeenAccount
<1>2. /\ s.rx \in Nat /\ s.tx \in Nat
      /\ BaseRx(runtime[p]) \in Nat /\ BaseTx(runtime[p]) \in Nat
  BY AccountTypes
<1>3. /\ CounterDelta(s.rx, BaseRx(runtime[p])) = s.rx - BaseRx(runtime[p])
      /\ CounterDelta(s.tx, BaseTx(runtime[p])) = s.tx - BaseTx(runtime[p])
  BY <1>1, <1>2 DEF CounterDelta
<1>4. PeerDelta(p) = CounterDelta(s.rx, BaseRx(runtime[p])) + CounterDelta(s.tx, BaseTx(runtime[p]))
  <2>1. CASE runtime[p] = Nil
    BY <2>1 DEF PeerDelta, BaseRx, BaseTx
  <2>2. CASE runtime[p] # Nil
    BY <2>2 DEF PeerDelta, BaseRx, BaseTx
  <2> QED BY <2>1, <2>2
<1> HIDE DEF s
<1>5. PeerDelta(p) = s.rx + s.tx - BaseRx(runtime[p]) - BaseTx(runtime[p])
  BY <1>2, <1>3, <1>4
<1> QED BY <1>5 DEF s

(* reconcile settles the account of every peer that stays, closes that of  *)
(* every peer it removes, and leaves alone those it has not seen.          *)
LEMMA ReconcileAccount ==
    ASSUME IndInv, IndInv', AccountInv, Owes, NEW kept, Reconcile(kept)
    PROVE  AccountInv' /\ SettledAtReconcile
<1>1. /\ snap # Nil /\ snap' = Nil /\ pc' = "serving"
      /\ runtime' = [p \in Peers |->
                        IF p \in Removals \ kept \/ Pruned(p) THEN Nil
                        ELSE IF p \in Known THEN SeenRuntime(p) ELSE runtime[p]]
      /\ device' = [p \in Peers |-> IF p \in Removals \ kept THEN Nil ELSE device[p]]
  BY DEF Reconcile
<1>2. Reconciles
  BY <1>1 DEF Reconciles
<1>3. /\ Known \subseteq Active /\ Removals \subseteq Active
      /\ \A p \in Peers : p \in Active <=> snap.device[p] # Nil
      /\ \A p \in Active : ~Pruned(p)
  BY DEF Known, Active, Removals, Pruned
<1>4. ASSUME NEW p \in Peers \ ghosts
      PROVE  /\ PeerAccount(p)'
             /\ p \in Known /\ device'[p] # Nil =>
                    owed'[p] = Moved(device'[p]) - Moved(snap.device[p])
  <2>1. CASE p \in Removals \ kept
    <3>1. device'[p] = Nil /\ runtime'[p] = Nil
      BY <1>1, <2>1
    <3>2. ~LeavesGhost(p)
      BY <1>1 DEF LeavesGhost
    <3> QED BY <1>1, <3>1, <3>2, AbsentAccount
  <2>2. CASE p \in Active /\ p \notin Removals \ kept
    <3> DEFINE s == snap.device[p]
    <3>1. s # Nil /\ ~Pruned(p)
      BY <1>3, <2>2
    <3>2. /\ device[p] # Nil
          /\ s.rx <= CountRx(device[p]) /\ s.tx <= CountTx(device[p])
      BY <1>1, <3>1 DEF AccountInv, SeenAccount
    <3>3. p \in Known
      BY <2>2, <3>2 DEF Known, IndInv, AuthorizedActive
    <3>4. device'[p] = device[p] /\ runtime'[p] = SeenRuntime(p)
      BY <1>1, <2>2, <3>1, <3>3
    <3>5. /\ s.rx \in Nat /\ s.tx \in Nat
          /\ CountRx(device[p]) \in Nat /\ CountTx(device[p]) \in Nat
          /\ BaseRx(runtime[p]) \in Nat /\ BaseTx(runtime[p]) \in Nat
          /\ device[p] \in DevicePeers \cup {Nil}
      BY <1>1, <3>1, AccountTypes
    <3>6. BaseRx(runtime'[p]) = s.rx /\ BaseTx(runtime'[p]) = s.tx
      <4>1. snap.now \in Nat /\ (runtime[p] # Nil => runtime[p].addedAt \in Nat)
        BY <1>1, QuotaTypes DEF IndInv, TypeOK, PeerRuntimes
      <4>2. SeenRuntime(p) \in PeerRuntimes /\ SeenRuntime(p).lastRx = s.rx
            /\ SeenRuntime(p).lastTx = s.tx
        BY <3>5, <4>1 DEF SeenRuntime, PeerRuntimes
      <4>3. SeenRuntime(p) # Nil
        BY <4>2, NilAssumption
      <4> QED BY <3>4, <4>2, <4>3 DEF BaseRx, BaseTx
    <3>7. PeerDelta(p) = s.rx + s.tx - BaseRx(runtime[p]) - BaseTx(runtime[p])
      BY <1>1, <3>1, DeltaIsMove
    <3>8. owed[p] = CountRx(device[p]) + CountTx(device[p])
                        - BaseRx(runtime[p]) - BaseTx(runtime[p])
      BY DEF AccountInv, PeerAccount
    <3>9. Moved(device[p]) = CountRx(device[p]) + CountTx(device[p]) /\ Moved(s) = s.rx + s.tx
      <4>1. Moved(s) = s.rx + s.tx
        BY <3>1 DEF Moved
      <4> QED BY <4>1, <3>5, CountTypes
    <3>10. Moves(p) = 0 /\ Charges(p) = PeerDelta(p)
      <4>1. Charges(p) = PeerDelta(p)
        BY <1>2, <3>3 DEF Charges
      <4>2. Moves(p) = Moved(device[p]) - Moved(device[p])
        BY <3>2, <3>4 DEF Moves
      <4> QED BY <3>5, <3>9, <4>1, <4>2
    <3>11. owed'[p] = owed[p] + 0 - PeerDelta(p)
      BY <3>2, <3>4, <3>10 DEF Owes
    <3> HIDE DEF s
    <3>12. owed'[p] = CountRx(device[p]) + CountTx(device[p]) - s.rx - s.tx
      BY <3>5, <3>7, <3>8, <3>11
    <3>13. PeerAccount(p)'
      BY <3>2, <3>4, <3>5, <3>6, <3>12 DEF PeerAccount
    <3>14. owed'[p] = Moved(device'[p]) - Moved(s)
      BY <3>4, <3>5, <3>9, <3>12
    <3> QED BY <3>13, <3>14 DEF s
  <2>3. CASE p \notin Active
    <3>1. p \notin Known /\ p \notin Removals /\ snap.device[p] = Nil
      BY <1>3, <2>3
    <3>2. device'[p] = device[p] /\ runtime'[p] = IF Pruned(p) THEN Nil ELSE runtime[p]
      BY <1>1, <3>1
    <3>3. Charges(p) = 0
      BY <3>1 DEF Charges
    <3>4. /\ CountRx(device[p]) \in Nat /\ CountTx(device[p]) \in Nat
          /\ BaseRx(runtime[p]) \in Nat /\ BaseTx(runtime[p]) \in Nat
          /\ Moved(device[p]) = CountRx(device[p]) + CountTx(device[p])
      BY AccountTypes, CountTypes
    <3>5. /\ BaseRx(runtime[p]) <= CountRx(device[p])
          /\ BaseTx(runtime[p]) <= CountTx(device[p])
          /\ owed[p] = CountRx(device[p]) + CountTx(device[p])
                           - BaseRx(runtime[p]) - BaseTx(runtime[p])
      BY DEF AccountInv, PeerAccount
    <3>6. CASE device[p] = Nil
      <4>1. CountRx(device[p]) = 0 /\ CountTx(device[p]) = 0
        BY <3>6 DEF CountRx, CountTx
      <4>2. BaseRx(runtime[p]) = 0 /\ BaseTx(runtime[p]) = 0
        BY <3>4, <3>5, <4>1
      <4>3. BaseRx(runtime'[p]) = 0 /\ BaseTx(runtime'[p]) = 0
        BY <3>2, <4>2 DEF BaseRx, BaseTx
      <4>4. owed'[p] = 0
        BY <3>2, <3>6 DEF Owes
      <4>5. PeerAccount(p)'
        BY <3>2, <4>1, <4>3, <4>4 DEF PeerAccount
      <4> QED BY <3>1, <4>5
    <3>7. CASE device[p] # Nil
      <4>1. ~Pruned(p)
        <5>1. snap.now < peers[p].lastSeen + PeerStateRetention /\ peers[p] # Nil
          BY <1>1, <3>1, <3>7 DEF IndInv, SnapshotInv, AuthorizedActive
        <5>2. snap.now \in Nat /\ peers[p].lastSeen \in Nat
          BY <1>1, <5>1, QuotaTypes DEF IndInv, TypeOK, PeerStates
        <5> QED BY <5>1, <5>2, DurationsAssumption DEF Pruned
      <4>2. runtime'[p] = runtime[p]
        BY <3>2, <4>1
      <4>3. Moves(p) = Moved(device[p]) - Moved(device[p])
        BY <3>2, <3>7 DEF Moves
      <4>4. owed'[p] = owed[p] + Moves(p) - 0
        BY <3>2, <3>3, <3>7 DEF Owes
      <4>5. owed'[p] = owed[p]
        BY <3>4, <3>5, <4>3, <4>4
      <4>6. PeerAccount(p)'
        BY <3>2, <3>5, <4>2, <4>5 DEF PeerAccount
      <4> QED BY <3>1, <4>6
    <3> QED BY <3>6, <3>7
  <2> QED BY <2>1, <2>2, <2>3 DEF Removals
<1>5. AccountKept
  BY <1>1, <1>4 DEF AccountKept, SeenAccount
<1>6. SettledAtReconcile
  BY <1>4 DEF SettledAtReconcile, Known, Active
<1> QED BY <1>5, <1>6, AccountsKept

LEMMA NextAccount ==
    ASSUME IndInv, IndInv', AccountInv, AccountedNext
    PROVE  AccountInv' /\ SettledAtReconcile
<1>1. Next /\ Owes
  BY DEF AccountedNext, Owes
<1>2. ~Reconciles => SettledAtReconcile
  BY DEF SettledAtReconcile
<1>3. Exit => AccountInv' /\ SettledAtReconcile
  BY <1>1, <1>2, ExitAccount
<1>4. UNCHANGED <<device, runtime, snap>> => AccountInv' /\ SettledAtReconcile
  BY <1>1, <1>2, FrameAccount
<1>5. CASE Startup
  <2>1. ASSUME NEW cfg, Load(cfg) \/ LoadSaveFails(cfg)
        PROVE  AccountInv' /\ SettledAtReconcile
    BY <1>4, <2>1 DEF Load, LoadSaveFails, memory
  <2>2. ASSUME NEW rev, NEW failed, NEW partial, RestorePeers(rev, failed, partial)
        PROVE  AccountInv' /\ SettledAtReconcile
    BY <1>1, <1>2, <2>2, RestoreAccount
  <2>3. ASSUME NEW rev, NEW failed, RestorePeersFails(rev, failed)
        PROVE  AccountInv' /\ SettledAtReconcile
    BY <1>3, <2>3 DEF RestorePeersFails
  <2> QED BY <1>5, <2>1, <2>2, <2>3 DEF Startup
<1>6. CASE RunLoop
  <2>1. ASSUME NEW rev, Snapshot(rev) PROVE AccountInv' /\ SettledAtReconcile
    BY <1>1, <1>2, <2>1, SnapshotAccount
  <2>2. ASSUME NEW kept, Reconcile(kept) PROVE AccountInv' /\ SettledAtReconcile
    BY <1>1, <2>2, ReconcileAccount
  <2>3. CASE SnapshotFails \/ ReconcileFails \/ ReconcileSaveFails \/ RunFailure
    BY <1>3, <2>3 DEF SnapshotFails, ReconcileFails, ReconcileSaveFails, RunFailure
  <2> QED BY <1>6, <2>1, <2>2, <2>3 DEF RunLoop
<1>7. CASE Requests
  <2>1. ASSUME NEW p, NEW c, NEW key, NEW rev,
               RegisterPeer(p, c, key, rev) \/ RegisterPeerSaveFails(p, c, key, rev)
        PROVE  AccountInv' /\ SettledAtReconcile
    BY <1>4, <2>1 DEF RegisterPeer, RegisterPeerSaveFails
  <2>2. CASE RegisterAddPeer
    BY <1>1, <1>2, <2>2, RegisteringAccount DEF RegisterAddPeer
  <2>3. CASE RegisterAddPeerFails
    <3>1. /\ reg # Nil /\ UNCHANGED <<runtime, snap>>
          /\ \/ device' = [device EXCEPT ![reg.peer] = AddedPeer(reg.peer)]
             \/ device' = [device EXCEPT ![reg.peer] = device[reg.peer]]
      BY <2>3 DEF RegisterAddPeerFails, FailedAdds, memory
    <3>2. reg.peer \in Peers /\ device \in [Peers -> DevicePeers \cup {Nil}]
      BY <3>1, RegistrationType DEF IndInv, TypeOK
    <3>3. device' = device \/ device' = [device EXCEPT ![reg.peer] = AddedPeer(reg.peer)]
      BY <3>1, <3>2
    <3> QED BY <1>1, <1>2, <3>1, <3>3, RegisteringAccount
  <2>4. CASE RegisterCleanup
    BY <1>1, <1>2, <2>4, CleanupAccount
  <2>5. CASE RegisterCleanupFails
    BY <1>1, <1>2, <2>5, RegisteringAccount DEF RegisterCleanupFails
  <2>6. ASSUME NEW ip, IssueAuthKey(ip) \/ IssueAuthKeySaveFails(ip)
        PROVE  AccountInv' /\ SettledAtReconcile
    BY <1>4, <2>6 DEF IssueAuthKey, IssueAuthKeySaveFails
  <2> QED BY <1>7, <2>1, <2>2, <2>3, <2>4, <2>5, <2>6 DEF Requests
<1>8. CASE Environment
  <2>1. CASE Crash
    BY <1>3, <2>1 DEF Crash
  <2>2. CASE Tick
    BY <1>4, <2>2 DEF Tick, memory
  <2>3. ASSUME NEW p \in Peers, Handshake(p) \/ Receive(p) \/ Transmit(p)
        PROVE  AccountInv' /\ SettledAtReconcile
    BY <1>1, <1>2, <2>3, TrafficAccount
  <2>4. ASSUME NEW ids, EditRevocations(ids)
        PROVE  AccountInv' /\ SettledAtReconcile
    BY <1>4, <2>4 DEF EditRevocations, memory
  <2> QED BY <1>8, <2>1, <2>2, <2>3, <2>4 DEF Environment
<1> QED BY <1>1, <1>5, <1>6, <1>7, <1>8 DEF Next

(* reconcile charges every byte of a peer that stays exactly once,         *)
(* although it reads the counters before it takes the mutex and            *)
(* registrations, restores, traffic and failures of the device come in     *)
(* between.  The only exception is a ghost: a peer that the cleanup of a   *)
(* failed registration removed under a pending snapshot.                   *)
THEOREM EveryByteChargedOnce == AccountedSpec => EveryByteOnce
<1>1. AccountedInit => AccountInv
  <2>1. ASSUME AccountedInit, NEW p \in Peers
        PROVE  PeerAccount(p) /\ SeenAccount(p)
    <3>1. device[p] = Nil /\ runtime[p] = Nil /\ owed[p] = 0 /\ snap = Nil
      BY <2>1 DEF AccountedInit, Init, newAccessController, noPeers
    <3>2. /\ BaseRx(runtime[p]) = 0 /\ BaseTx(runtime[p]) = 0
          /\ CountRx(device[p]) = 0 /\ CountTx(device[p]) = 0
      BY <3>1 DEF BaseRx, BaseTx, CountRx, CountTx
    <3> QED BY <3>1, <3>2 DEF PeerAccount, SeenAccount
  <2> QED BY <2>1 DEF AccountInv
<1>2. IndInv /\ IndInv' /\ AccountInv /\ [AccountedNext]_accountedVars => AccountInv'
  <2>1. CASE AccountedNext
    BY <2>1, NextAccount
  <2>2. CASE UNCHANGED accountedVars
    BY <2>2 DEF accountedVars, vars, memory, AccountInv, PeerAccount, SeenAccount
  <2> QED BY <2>1, <2>2
<1>3. IndInv /\ IndInv' /\ AccountInv /\ [AccountedNext]_accountedVars
          => [SettledAtReconcile]_accountedVars
  BY NextAccount
<1>4. AccountedInit => Init
  BY DEF AccountedInit
<1>5. [AccountedNext]_accountedVars => [Next]_vars
  BY DEF AccountedNext, accountedVars
<1> QED BY <1>1, <1>2, <1>3, <1>4, <1>5, Invariance, PTL
        DEF AccountedSpec, Spec, EveryByteOnce

(* Only the cleanup of a registration that the device refused takes a peer *)
(* out of the device under a snapshot.                                     *)
LEMMA NoGhostStep ==
    ASSUME IndInv, ~DeviceMayFail, reg # Nil => reg.phase = "add", Next
    PROVE  /\ \A p \in Peers : ~LeavesGhost(p)
           /\ reg' # Nil => reg'.phase = "add"
<1> DEFINE Safe == /\ \A p \in Peers : ~LeavesGhost(p)
                   /\ reg' # Nil => reg'.phase = "add"
<1>1. Exit => Safe
  BY DEF Exit, LeavesGhost
<1>2. UNCHANGED <<device, reg>> => Safe
  BY DEF LeavesGhost
<1>3. device \in [Peers -> DevicePeers \cup {Nil}] /\ clock \in Nat
  BY DEF IndInv, TypeOK
<1>4. CASE Startup
  <2>1. ASSUME NEW cfg, Load(cfg) \/ LoadSaveFails(cfg) PROVE Safe
    BY <1>2, <2>1 DEF Load, LoadSaveFails
  <2>2. ASSUME NEW rev, NEW failed, NEW partial, RestorePeers(rev, failed, partial) PROVE Safe
    <3>1. device = noPeers /\ UNCHANGED reg
      BY <2>2 DEF RestorePeers, IndInv, PhaseInv
    <3> QED BY <3>1 DEF noPeers, LeavesGhost
  <2>3. ASSUME NEW rev, NEW failed, RestorePeersFails(rev, failed) PROVE Safe
    BY <1>1, <2>3 DEF RestorePeersFails
  <2> QED BY <1>4, <2>1, <2>2, <2>3 DEF Startup
<1>5. CASE RunLoop
  <2>1. ASSUME NEW rev, Snapshot(rev) PROVE Safe
    BY <1>2, <2>1 DEF Snapshot
  <2>2. ASSUME NEW kept, Reconcile(kept) PROVE Safe
    BY <2>2 DEF Reconcile, LeavesGhost
  <2>3. CASE SnapshotFails \/ ReconcileFails \/ ReconcileSaveFails \/ RunFailure
    BY <1>1, <2>3 DEF SnapshotFails, ReconcileFails, ReconcileSaveFails, RunFailure
  <2> QED BY <1>5, <2>1, <2>2, <2>3 DEF RunLoop
<1>6. CASE Requests
  <2>1. ASSUME NEW p, NEW c, NEW key, NEW rev, RegisterPeer(p, c, key, rev) PROVE Safe
    <3>1. UNCHANGED device /\ reg'.phase = "add"
      BY <2>1 DEF RegisterPeer
    <3> QED BY <3>1 DEF LeavesGhost
  <2>2. ASSUME NEW p, NEW c, NEW key, NEW rev, RegisterPeerSaveFails(p, c, key, rev) PROVE Safe
    BY <1>2, <2>2 DEF RegisterPeerSaveFails
  <2>3. CASE RegisterAddPeer
    <3>1. /\ reg # Nil /\ reg' = Nil
          /\ device' = [device EXCEPT ![reg.peer] = AddedPeer(reg.peer)]
      BY <2>3 DEF RegisterAddPeer
    <3>2. AddedPeer(reg.peer) # Nil
      BY <3>1, RegistrationType, NilStateAssumption
    <3> QED BY <1>3, <3>1, <3>2 DEF LeavesGhost
  <2>4. ~RegisterAddPeerFails /\ ~RegisterCleanup /\ ~RegisterCleanupFails
    BY DEF RegisterAddPeerFails, RegisterCleanup, RegisterCleanupFails
  <2>5. ASSUME NEW ip, IssueAuthKey(ip) \/ IssueAuthKeySaveFails(ip) PROVE Safe
    BY <1>2, <2>5 DEF IssueAuthKey, IssueAuthKeySaveFails
  <2> QED BY <1>6, <2>1, <2>2, <2>3, <2>4, <2>5 DEF Requests
<1>7. CASE Environment
  <2>1. CASE Crash
    BY <1>1, <2>1 DEF Crash
  <2>2. CASE Tick
    BY <1>2, <2>2 DEF Tick
  <2>3. ASSUME NEW q \in Peers, Handshake(q) \/ Receive(q) \/ Transmit(q) PROVE Safe
    <3>1. device[q] \in DevicePeers /\ UNCHANGED reg
      BY <1>3, <2>3 DEF Handshake, Receive, Transmit
    <3>2. device'[q] \in DevicePeers
      <4>1. CASE Handshake(q)
        BY <1>3, <3>1, <4>1 DEF Handshake, DevicePeers
      <4>2. CASE Receive(q)
        BY <1>3, <3>1, <4>2 DEF Receive, DevicePeers
      <4>3. CASE Transmit(q)
        BY <1>3, <3>1, <4>3 DEF Transmit, DevicePeers
      <4> QED BY <2>3, <4>1, <4>2, <4>3
    <3>3. \A p \in Peers \ {q} : device'[p] = device[p]
      BY <1>3, <2>3 DEF Handshake, Receive, Transmit
    <3> QED BY <3>1, <3>2, <3>3, NilStateAssumption DEF LeavesGhost
  <2>4. ASSUME NEW ids, EditRevocations(ids) PROVE Safe
    BY <1>2, <2>4 DEF EditRevocations
  <2> QED BY <1>7, <2>1, <2>2, <2>3, <2>4 DEF Environment
<1> QED BY <1>4, <1>5, <1>6, <1>7 DEF Next

(* As long as the device takes the changes it is asked for there are no    *)
(* ghosts, so that every byte of every peer is charged once.               *)
THEOREM NoGhostsWithoutFailures ==
    ASSUME ~DeviceMayFail
    PROVE  AccountedSpec => [](ghosts = {})
<1> DEFINE Healthy == ghosts = {} /\ (reg # Nil => reg.phase = "add")
<1>1. AccountedInit => Healthy
  BY DEF AccountedInit, Init
<1>2. IndInv /\ Healthy /\ [AccountedNext]_accountedVars => Healthy'
  <2> SUFFICES ASSUME IndInv, Healthy, [AccountedNext]_accountedVars PROVE Healthy'
    OBVIOUS
  <2>1. CASE UNCHANGED accountedVars
    BY <2>1 DEF accountedVars, vars
  <2>2. CASE AccountedNext
    <3>1. /\ ghosts' = {p \in Peers : (p \in ghosts \/ LeavesGhost(p)) /\ ~Vanished(p)}
          /\ Next
      BY <2>2 DEF AccountedNext
    <3>2. (\A p \in Peers : ~LeavesGhost(p)) /\ (reg' # Nil => reg'.phase = "add")
      BY <3>1, NoGhostStep
    <3> QED BY <3>1, <3>2
  <2> QED BY <2>1, <2>2
<1>3. AccountedInit => Init
  BY DEF AccountedInit
<1>4. [AccountedNext]_accountedVars => [Next]_vars
  BY DEF AccountedNext, accountedVars
<1>5. Healthy => ghosts = {}
  OBVIOUS
<1> HIDE DEF Healthy
<1> QED BY <1>1, <1>2, <1>3, <1>4, <1>5, Invariance, PTL DEF AccountedSpec, Spec
=============================================================================
