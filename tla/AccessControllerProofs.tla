------------------------ MODULE AccessControllerProofs ------------------------
(* Proofs about AccessController for every value of its constants. *)
EXTENDS AccessController, TLAPS

-----------------------------------------------------------------------------
(* The operators of AccessRules. *)

(* Every well-formed peer record has a quota owner (quotaOwner). *)
LEMMA OwnerType ==
    ASSUME NEW p \in Peers, NEW r,
           r.keyID \in KeyIDs \cup {OpenID, SharedID},
           r.authGeneration \in Secrets \cup {NoSecret},
           (r.keyID = OpenID) <=> (r.authGeneration = NoSecret)
    PROVE  OwnerOf(p, r) \in QuotaOwners
<1>1. CASE r.keyID = OpenID
  BY <1>1 DEF OwnerOf, quotaOwner, QuotaOwners
<1>2. CASE r.keyID # OpenID
  <2>1. r.authGeneration \in Secrets /\ r.keyID \in KeyIDs \cup {SharedID}
    BY <1>2
  <2>2. OwnerOf(p, r) = <<"key", r.authGeneration, r.keyID>>
    BY <1>2 DEF OwnerOf, quotaOwner
  <2>3. QED
    BY <2>1, <2>2 DEF QuotaOwners
<1>3. QED
  BY <1>1, <1>2

(* The owner of a stored peer record is a quota owner (quotaOwner). *)
LEMMA RecordOwnerType ==
    ASSUME NEW p \in Peers, NEW r \in PeerStates
    PROVE  OwnerOf(p, r) \in QuotaOwners
BY OwnerType DEF PeerStates

(* Days and midnights are natural numbers (nextLocalMidnight). *)
LEMMA DateType ==
    ASSUME NEW now \in Nat
    PROVE  DateOf(now) \in Nat /\ nextLocalMidnight(now) \in Nat
<1>1. DateOf(now) \in Nat
  BY DurationsAssumption DEF DateOf
<1>2. QED
  BY <1>1, DurationsAssumption DEF nextLocalMidnight

(* A fresh quota record is well formed. *)
LEMMA NewQuotaType ==
    ASSUME NEW now \in Nat
    PROVE  newQuotaState(now) \in QuotaStates
BY DateType, LimitsAssumption DEF newQuotaState, QuotaStates, Times, ZeroTime

(* normalizeQuotaState keeps a quota record well formed. *)
LEMMA NormalizeType ==
    ASSUME NEW q \in QuotaStates, NEW now \in Nat
    PROVE  normalizeQuotaState(q, now) \in QuotaStates
<1> DEFINE fresh == [newQuotaState(now) EXCEPT !.lastSeen = q.lastSeen]
           unblocked == [q EXCEPT !.blockedUntil = ZeroTime]
<1>1. fresh \in QuotaStates
  BY NewQuotaType DEF QuotaStates
<1>2. unblocked \in QuotaStates
  BY DEF QuotaStates, Times
<1>3. normalizeQuotaState(q, now) \in {fresh, unblocked, q}
  BY DEF normalizeQuotaState
<1>4. QED
  BY <1>1, <1>2, <1>3

(* addUsage never leaves the int64 range, whatever the delta (addUsage). *)
LEMMA AddUsageType ==
    ASSUME NEW current \in 0..MaxInt64, NEW delta
    PROVE  addUsage(current, delta) \in 0..MaxInt64
BY LimitsAssumption DEF addUsage

(* Blocking an owner keeps its quota record well formed. *)
LEMMA BlockType ==
    ASSUME NEW q \in QuotaStates, NEW now \in Nat, NEW limit
    PROVE  blockIfOverLimit(q, now, limit) \in QuotaStates
BY DateType DEF blockIfOverLimit, QuotaStates, Times

-----------------------------------------------------------------------------
(* The state that is saved. *)

PeerMaps == [Peers -> PeerStates \cup {Nil}]
QuotaMaps == [QuotaOwners -> QuotaStates \cup {Nil}]

(* What diskStateLocked saves is well formed, and load accepts it exactly  *)
(* when every peer has its owner.                                          *)
LEMMA DiskStateType ==
    ASSUME NEW ps \in PeerMaps, NEW qs \in QuotaMaps,
           NEW w \in Nat, NEW cs \in [IPs -> Nat]
    PROVE  /\ diskState(ps, qs, w, cs) \in DiskStates
           /\ diskState(ps, qs, w, cs) # Nil
           /\ LoadAccepts(diskState(ps, qs, w, cs)) <=> OwnersPresent(ps, qs)
<1>1. diskState(ps, qs, w, cs) \in DiskStates
  BY DEF diskState, DiskStates, PeerMaps, QuotaMaps
<1>2. QED
  BY <1>1, NilStateAssumption DEF LoadAccepts, diskState

(* The issue window and counts at a time: the same ones, or fresh ones. *)
LEMMA WindowType ==
    ASSUME NEW w \in Times, NEW cs \in [IPs -> Nat], NEW now \in Nat
    PROVE  /\ WindowAt(w, now) \in Nat
           /\ CountsAt(w, cs, now) \in [IPs -> Nat]
           /\ WindowAt(w, now) = w => CountsAt(w, cs, now) = cs
           /\ WindowAt(w, now) # w => CountsAt(w, cs, now) = noCounts
<1>1. WindowExpired(w, now) \/ w \in Nat
  BY DEF WindowExpired, Times, ZeroTime
<1>2. WindowExpired(w, now) => w # now
  BY DurationsAssumption DEF WindowExpired, Times, ZeroTime
<1>3. noCounts \in [IPs -> Nat]
  BY DEF noCounts
<1>4. QED
  BY <1>1, <1>2, <1>3 DEF WindowAt, CountsAt

-----------------------------------------------------------------------------
(* The initial state. *)

(* The invariant holds before the first start. *)
LEMMA InitInv == Init => IndInv
<1> SUFFICES ASSUME Init PROVE IndInv
  OBVIOUS
<1> USE DEF Init, newAccessController
<1>1. TypeOK
  <2>1. noPeers \in PeerMaps /\ noPeers \in [Peers -> PeerRuntimes \cup {Nil}]
            /\ noPeers \in [Peers -> DevicePeers \cup {Nil}]
    BY DEF noPeers, PeerMaps
  <2>2. noQuotas \in QuotaMaps
    BY DEF noQuotas, QuotaMaps
  <2>3. noCounts \in [IPs -> Nat]
    BY DEF noCounts
  <2>4. QED
    BY <2>1, <2>2, <2>3, BoundsAssumption
       DEF TypeOK, PeerMaps, QuotaMaps, Times, ZeroTime
<1>2. OwnerRecorded
  BY DEF OwnerRecorded, OwnersPresent, noPeers
<1>3. DurableMirror /\ DeviceTracked
  BY DEF DurableMirror, DeviceTracked
<1>4. AuthorizedActive
  BY DEF AuthorizedActive, noPeers
<1>5. PhaseInv /\ RollbackInv /\ RegisterInv /\ SnapshotInv
  BY DEF PhaseInv, RollbackInv, RegisterInv, SnapshotInv
<1>6. IssueInv
  BY DEF IssueInv
<1>7. QED
  BY <1>1, <1>2, <1>3, <1>4, <1>5, <1>6 DEF IndInv

-----------------------------------------------------------------------------
(* The process ends. *)

(* Every way out of the process (fatal, crash) keeps the invariant if what *)
(* it leaves in the file is acceptable to load.                            *)
LEMMA ExitInv ==
    ASSUME IndInv, Exit, UNCHANGED <<config, clock, revoked, handed>>,
           disk' \in DiskStates \cup {Nil},
           disk' # Nil => LoadAccepts(disk'),
           disk = Nil <=> disk' = Nil,
           disk # Nil => disk'.issueCounts = disk.issueCounts
    PROVE  IndInv'
<1> USE DEF Exit
<1>1. TypeOK'
  <2>1. noPeers \in PeerMaps /\ noPeers \in [Peers -> PeerRuntimes \cup {Nil}]
            /\ noPeers \in [Peers -> DevicePeers \cup {Nil}]
    BY DEF noPeers, PeerMaps
  <2>2. noQuotas \in QuotaMaps
    BY DEF noQuotas, QuotaMaps
  <2>3. noCounts \in [IPs -> Nat]
    BY DEF noCounts
  <2>4. QED
    BY <2>1, <2>2, <2>3 DEF IndInv, TypeOK, PeerMaps, QuotaMaps, Times, ZeroTime
<1>2. OwnerRecorded'
  BY DEF OwnerRecorded, OwnersPresent, noPeers, LoadAccepts
<1>3. DurableMirror' /\ DeviceTracked'
  BY DEF DurableMirror, DeviceTracked
<1>4. AuthorizedActive'
  BY DEF AuthorizedActive, noPeers
<1>5. PhaseInv' /\ RollbackInv' /\ RegisterInv' /\ SnapshotInv'
  BY DEF PhaseInv, RollbackInv, RegisterInv, SnapshotInv
<1>6. IssueInv'
  BY DEF IndInv, IssueInv
<1>7. QED
  BY <1>1, <1>2, <1>3, <1>4, <1>5, <1>6 DEF IndInv

-----------------------------------------------------------------------------
(* Startup. *)

(* What load puts in memory and in the file. *)
LEMMA LoadedStateInv ==
    ASSUME IndInv, disk # Nil => LoadAccepts(disk)
    PROVE  /\ LoadedPeers \in PeerMaps
           /\ LoadedQuotas \in QuotaMaps
           /\ LoadedWindow \in Nat
           /\ LoadedCounts \in [IPs -> Nat]
           /\ OwnersPresent(LoadedPeers, LoadedQuotas)
           /\ LoadedState \in DiskStates /\ LoadedState # Nil
           /\ LoadAccepts(LoadedState)
<1> USE DEF IndInv
<1>1. LoadedPeers \in PeerMaps
  BY DEF TypeOK, DiskStates, LoadedPeers, noPeers, PeerMaps
<1>2. ASSUME NEW o \in QuotaOwners, disk # Nil, disk.quotas[o] # Nil
      PROVE  /\ LoadedQuotas[o] \in QuotaStates
             /\ LoadedQuotas[o] # Nil
  <2>1. disk.quotas[o] \in QuotaStates
    BY <1>2 DEF TypeOK, DiskStates
  <2>2. LoadedQuotas[o] = normalizeQuotaState(disk.quotas[o], clock)
    BY <1>2 DEF LoadedQuotas
  <2>3. QED
    BY <2>1, <2>2, NormalizeType, NilAssumption DEF TypeOK
<1>3. LoadedQuotas \in QuotaMaps
  <2>1. \A o \in QuotaOwners : LoadedQuotas[o] \in QuotaStates \cup {Nil}
    BY <1>2 DEF LoadedQuotas
  <2>2. QED
    BY <2>1 DEF LoadedQuotas, QuotaMaps
<1>4. LoadedWindow \in Nat /\ LoadedCounts \in [IPs -> Nat]
  <2>1. CASE disk = Nil
    BY <2>1, WindowType DEF TypeOK, LoadedWindow, LoadedCounts, noCounts, Times
  <2>2. CASE disk # Nil
    <3>1. disk.issueWindow \in Times /\ disk.issueCounts \in [IPs -> Nat]
      BY <2>2 DEF TypeOK, DiskStates, Times
    <3>2. QED
      BY <2>2, <3>1, WindowType DEF TypeOK, LoadedWindow, LoadedCounts
  <2>3. QED
    BY <2>1, <2>2
<1>5. OwnersPresent(LoadedPeers, LoadedQuotas)
  <2> SUFFICES ASSUME NEW p \in Peers, LoadedPeers[p] # Nil
               PROVE  LoadedQuotas[OwnerOf(p, LoadedPeers[p])] # Nil
    BY DEF OwnersPresent
  <2>1. disk # Nil /\ LoadedPeers[p] = disk.peers[p]
    BY DEF LoadedPeers, noPeers
  <2>2. OwnerOf(p, disk.peers[p]) \in QuotaOwners
    BY <1>1, <2>1, RecordOwnerType DEF PeerMaps
  <2>3. disk.quotas[OwnerOf(p, disk.peers[p])] # Nil
    BY <2>1 DEF LoadAccepts, OwnersPresent
  <2>4. QED
    BY <1>2, <2>1, <2>2, <2>3
<1>6. QED
  BY <1>1, <1>3, <1>4, <1>5, DiskStateType DEF LoadedState

(* The counts of load are those of the file, or a new window's. *)
LEMMA LoadedIssueInv ==
    ASSUME IndInv
    PROVE  \A ip \in IPs : /\ HandedUnder(LoadedWindow)[ip] <= LoadedCounts[ip]
                           /\ LoadedCounts[ip] <= IssueLimit
                           /\ HandedUnder(LoadedWindow)[ip] \in Nat
<1> SUFFICES ASSUME NEW ip \in IPs
             PROVE  /\ HandedUnder(LoadedWindow)[ip] <= LoadedCounts[ip]
                    /\ LoadedCounts[ip] <= IssueLimit
                    /\ HandedUnder(LoadedWindow)[ip] \in Nat
  OBVIOUS
<1>1. CASE disk = Nil
  BY <1>1, LimitsAssumption DEF HandedUnder, LoadedCounts, noCounts
<1>2. CASE disk # Nil
  <2>1. disk.issueWindow \in Times /\ disk.issueCounts \in [IPs -> Nat]
            /\ clock \in Nat
    BY <1>2 DEF IndInv, TypeOK, DiskStates, Times
  <2>2. CASE LoadedWindow = disk.issueWindow
    <3>1. LoadedCounts = disk.issueCounts /\ HandedUnder(LoadedWindow) = handed
      BY <1>2, <2>1, <2>2, WindowType DEF LoadedWindow, LoadedCounts, HandedUnder
    <3>2. QED
      BY <1>2, <3>1 DEF IndInv, IssueInv, TypeOK
  <2>3. CASE LoadedWindow # disk.issueWindow
    <3>1. LoadedCounts = noCounts /\ HandedUnder(LoadedWindow) = noCounts
      BY <1>2, <2>1, <2>3, WindowType DEF LoadedWindow, LoadedCounts, HandedUnder
    <3>2. QED
      BY <3>1, LimitsAssumption DEF noCounts
  <2>4. QED
    BY <2>2, <2>3
<1>3. QED
  BY <1>1, <1>2

(* The keys handed out under a window are counted by natural numbers. *)
LEMMA HandedType ==
    ASSUME IndInv, NEW w
    PROVE  HandedUnder(w) \in [IPs -> Nat]
BY DEF IndInv, TypeOK, HandedUnder, noCounts

(* load keeps the invariant. *)
LEMMA LoadInv ==
    ASSUME IndInv, NEW cfg \in Configs, Load(cfg)
    PROVE  IndInv'
<1> USE DEF Load
<1>0. pc = "down" /\ device = noPeers /\ reg = Nil /\ snap = Nil /\ ~stateErr
  BY DEF IndInv, PhaseInv
<1>1. TypeOK'
  BY LoadedStateInv, HandedType
     DEF IndInv, TypeOK, PeerMaps, QuotaMaps, Times
<1>2. OwnerRecorded'
  BY LoadedStateInv DEF IndInv, OwnerRecorded, LoadAccepts
<1>3. DurableMirror' /\ DeviceTracked'
  BY DEF DurableMirror, DeviceTracked
<1>4. AuthorizedActive'
  BY <1>0 DEF AuthorizedActive, noPeers
<1>5. PhaseInv' /\ RollbackInv' /\ RegisterInv' /\ SnapshotInv'
  BY <1>0 DEF PhaseInv, RollbackInv, RegisterInv, SnapshotInv
<1>6. IssueInv'
  <2>1. disk'.issueWindow = LoadedWindow /\ disk'.issueCounts = LoadedCounts
    BY DEF LoadedState, diskState
  <2>2. QED
    BY <2>1, LoadedStateInv, LoadedIssueInv DEF IssueInv
<1>7. QED
  BY <1>1, <1>2, <1>3, <1>4, <1>5, <1>6 DEF IndInv

(* load that fails after the rename keeps the invariant. *)
LEMMA LoadSaveFailsInv ==
    ASSUME IndInv, NEW cfg \in Configs, LoadSaveFails(cfg)
    PROVE  IndInv'
<1> USE DEF LoadSaveFails, memory
<1>0. pc = "down" /\ device = noPeers /\ reg = Nil /\ snap = Nil /\ ~stateErr
  BY DEF IndInv, PhaseInv
<1>1. TypeOK'
  BY LoadedStateInv, HandedType
     DEF IndInv, TypeOK
<1>2. OwnerRecorded'
  BY LoadedStateInv DEF IndInv, OwnerRecorded, LoadAccepts
<1>3. DurableMirror' /\ DeviceTracked'
  BY <1>0 DEF DurableMirror, DeviceTracked
<1>4. AuthorizedActive'
  BY <1>0 DEF AuthorizedActive, noPeers
<1>5. PhaseInv' /\ RollbackInv' /\ RegisterInv' /\ SnapshotInv'
  BY <1>0 DEF PhaseInv, RollbackInv, RegisterInv, SnapshotInv
<1>6. IssueInv'
  <2>1. disk'.issueWindow = LoadedWindow /\ disk'.issueCounts = LoadedCounts
    BY DEF LoadedState, diskState
  <2>2. QED
    BY <1>0, <2>1, LoadedStateInv, LoadedIssueInv DEF IssueInv
<1>7. QED
  BY <1>1, <1>2, <1>3, <1>4, <1>5, <1>6 DEF IndInv

(* What restorePeers makes of the records and the quotas. *)
LEMMA RestoredStateInv ==
    ASSUME IndInv, pc = "restore", NEW rev, NEW failed,
           failed \subseteq RestoreCandidates(rev)
    PROVE  LET restored == DropEndpoints(peers, RestoreDropped(rev, failed))
           IN  /\ restored \in PeerMaps
               /\ RestoredQuotas \in QuotaMaps
               /\ OwnersPresent(restored, RestoredQuotas)
               /\ \A p \in Peers :
                      /\ restored[p] # Nil <=> peers[p] # Nil
                      /\ peers[p] # Nil =>
                             /\ restored[p].keyID = peers[p].keyID
                             /\ restored[p].authGeneration = peers[p].authGeneration
<1> DEFINE dropped == RestoreDropped(rev, failed)
           restored == DropEndpoints(peers, dropped)
<1>0. peers \in PeerMaps /\ quotas \in QuotaMaps /\ clock \in Nat
  BY DEF IndInv, TypeOK, PeerMaps, QuotaMaps
<1>1. \A p \in dropped : p \in Peers /\ peers[p] \in PeerStates /\ peers[p] # Nil
  BY <1>0 DEF RestoreDropped, RestoreCandidates, RestoreConsidered,
              RecentEndpoint, HasEndpoint, PeerMaps
<1>2. ASSUME NEW p \in Peers
      PROVE  /\ restored[p] \in PeerStates \cup {Nil}
             /\ restored[p] # Nil <=> peers[p] # Nil
             /\ peers[p] # Nil => /\ restored[p].keyID = peers[p].keyID
                                  /\ restored[p].authGeneration = peers[p].authGeneration
  <2>1. CASE p \in dropped
    <3>1. peers[p] \in PeerStates
      BY <1>1, <2>1
    <3>2. restored[p] = [peers[p] EXCEPT !.endpointSeenAt = ZeroTime]
      BY <2>1 DEF DropEndpoints
    <3>3. restored[p] \in PeerStates
      BY <3>1, <3>2 DEF PeerStates, Times
    <3>4. QED
      BY <1>1, <2>1, <3>1, <3>2, <3>3, NilAssumption DEF PeerStates
  <2>2. CASE p \notin dropped
    BY <1>0, <2>2 DEF DropEndpoints, PeerMaps
  <2>3. QED
    BY <2>1, <2>2
<1>3. restored \in PeerMaps
  BY <1>2 DEF DropEndpoints, PeerMaps
<1>4. ASSUME NEW o \in QuotaOwners
      PROVE  /\ RestoredQuotas[o] \in QuotaStates \cup {Nil}
             /\ quotas[o] # Nil => RestoredQuotas[o] # Nil
  <2>1. CASE \E p \in Peers : RecentEndpoint(p) /\ RestoreOwner(p) = o
    <3>1. quotas[o] # Nil
      BY <2>1 DEF IndInv, OwnerRecorded, OwnersPresent, RestoreOwner,
                  RecentEndpoint, HasEndpoint
    <3>2. quotas[o] \in QuotaStates
      BY <1>0, <3>1 DEF QuotaMaps
    <3>3. RestoredQuotas[o] \in QuotaStates
      BY <1>0, <2>1, <3>2, NormalizeType, BlockType DEF RestoredQuotas
    <3>4. QED
      BY <3>3, NilAssumption
  <2>2. CASE ~\E p \in Peers : RecentEndpoint(p) /\ RestoreOwner(p) = o
    <3>1. RestoredQuotas[o] = quotas[o]
      BY <2>2 DEF RestoredQuotas
    <3>2. QED
      BY <1>0, <3>1 DEF QuotaMaps
  <2>3. QED
    BY <2>1, <2>2
<1>5. RestoredQuotas \in QuotaMaps
  <2>1. RestoredQuotas = [o \in QuotaOwners |-> RestoredQuotas[o]]
    BY DEF RestoredQuotas
  <2>2. QED
    BY <1>4, <2>1 DEF QuotaMaps
<1>6. OwnersPresent(restored, RestoredQuotas)
  <2> SUFFICES ASSUME NEW p \in Peers, restored[p] # Nil
               PROVE  RestoredQuotas[OwnerOf(p, restored[p])] # Nil
    BY DEF OwnersPresent
  <2>1. OwnerOf(p, restored[p]) = OwnerOf(p, peers[p])
    BY <1>2 DEF OwnerOf
  <2>2. OwnerOf(p, peers[p]) \in QuotaOwners
    BY <1>0, <1>2, RecordOwnerType DEF PeerMaps
  <2>3. quotas[OwnerOf(p, peers[p])] # Nil
    BY <1>2 DEF IndInv, OwnerRecorded, OwnersPresent
  <2>4. QED
    BY <1>4, <2>1, <2>2, <2>3
<1>7. QED
  BY <1>2, <1>3, <1>5, <1>6

(* restorePeers keeps the invariant. *)
LEMMA RestorePeersInv ==
    ASSUME IndInv, NEW rev, NEW failed, NEW partial,
           RestorePeers(rev, failed, partial)
    PROVE  IndInv'
<1> DEFINE dropped == RestoreDropped(rev, failed)
           restored == DropEndpoints(peers, dropped)
           added == RestoreCandidates(rev) \ failed
           saved == diskState(restored, RestoredQuotas, issueWindow, issueCounts)
<1>a. /\ pc = "restore" /\ failed \subseteq RestoreCandidates(rev)
      /\ partial \subseteq failed /\ pc' = "reconcile"
      /\ peers' = restored /\ quotas' = RestoredQuotas
      /\ disk' = IF dropped # {} \/ NewlyBlocked # {} THEN saved ELSE disk
      /\ UNCHANGED <<config, clock, issueWindow, issueCounts, stateErr, reg,
                     snap, revoked, handed>>
  BY DEF RestorePeers
<1>b. /\ runtime' = [p \in Peers |->
                        IF p \in added
                        THEN [lastRx |-> 0, lastTx |-> 0, addedAt |-> clock]
                        ELSE runtime[p]]
      /\ device' = [p \in Peers |->
                       IF p \in added \cup partial THEN AddedPeer(p) ELSE device[p]]
  BY DEF RestorePeers
<1>0. device = noPeers /\ reg = Nil /\ snap = Nil /\ ~stateErr
  BY <1>a DEF IndInv, PhaseInv
<1>c. /\ disk # Nil /\ disk.issueWindow = issueWindow
      /\ disk.issueCounts = issueCounts
      /\ issueWindow \in Nat /\ issueCounts \in [IPs -> Nat]
  BY <1>0, <1>a DEF IndInv, IssueInv, TypeOK, DiskStates
<1>r. /\ restored \in PeerMaps /\ RestoredQuotas \in QuotaMaps
      /\ OwnersPresent(restored, RestoredQuotas)
      /\ \A p \in Peers :
             /\ restored[p] # Nil <=> peers[p] # Nil
             /\ peers[p] # Nil =>
                    /\ restored[p].keyID = peers[p].keyID
                    /\ restored[p].authGeneration = peers[p].authGeneration
  BY <1>a, RestoredStateInv
<1> HIDE DEF restored
<1>s. /\ disk' \in DiskStates /\ disk' # Nil /\ LoadAccepts(disk')
      /\ disk'.issueWindow = issueWindow /\ disk'.issueCounts = issueCounts
  <2>1. saved \in DiskStates /\ saved # Nil /\ LoadAccepts(saved)
    BY <1>c, <1>r, DiskStateType
  <2>2. saved.issueWindow = issueWindow /\ saved.issueCounts = issueCounts
    BY DEF diskState
  <2>3. disk \in DiskStates /\ LoadAccepts(disk)
    BY <1>c DEF IndInv, TypeOK, OwnerRecorded
  <2>4. disk' \in {saved, disk}
    BY <1>a
  <2>5. QED
    BY <1>c, <2>1, <2>2, <2>3, <2>4
<1>1. TypeOK'
  <2>1. runtime' \in [Peers -> PeerRuntimes \cup {Nil}]
    BY <1>b DEF IndInv, TypeOK, PeerRuntimes
  <2>2. device' \in [Peers -> DevicePeers \cup {Nil}]
    BY <1>b DEF IndInv, TypeOK, DevicePeers, AddedPeer
  <2>3. QED
    BY <1>a, <1>r, <1>s, <2>1, <2>2 DEF IndInv, TypeOK, PeerMaps, QuotaMaps
<1>2. OwnerRecorded'
  BY <1>a, <1>r, <1>s DEF OwnerRecorded, LoadAccepts
<1>3. DurableMirror' /\ DeviceTracked'
  BY <1>a DEF DurableMirror, DeviceTracked
<1>4. AuthorizedActive'
  <2> SUFFICES ASSUME NEW p \in Peers, device'[p] # Nil
               PROVE  (peers[p] # Nil)' /\ HoldsCurrentSecret(p)'
    BY DEF AuthorizedActive
  <2>1. p \in RestoreCandidates(rev)
    BY <1>0, <1>a, <1>b DEF noPeers
  <2>2. peers[p] # Nil /\ recordMatchesCurrentMode(config, peers[p])
    BY <2>1 DEF RestoreCandidates, RestoreConsidered, RecentEndpoint, HasEndpoint
  <2>3. QED
    BY <1>a, <1>r, <2>2
       DEF HoldsCurrentSecret, recordMatchesCurrentMode, SecretMode, LegacyMode,
           OpenMode
<1>5. PhaseInv' /\ RollbackInv' /\ RegisterInv' /\ SnapshotInv'
  BY <1>0, <1>a DEF PhaseInv, RollbackInv, RegisterInv, SnapshotInv
<1>6. IssueInv'
  BY <1>0, <1>a, <1>c, <1>s DEF IndInv, IssueInv
<1>7. QED
  BY <1>1, <1>2, <1>3, <1>4, <1>5, <1>6 DEF IndInv

(* restorePeers whose save fails keeps the invariant. *)
LEMMA RestorePeersFailsInv ==
    ASSUME IndInv, NEW rev, NEW failed, RestorePeersFails(rev, failed)
    PROVE  IndInv'
<1> DEFINE restored == DropEndpoints(peers, RestoreDropped(rev, failed))
           saved == diskState(restored, RestoredQuotas, issueWindow, issueCounts)
<1>1. /\ pc = "restore" /\ failed \subseteq RestoreCandidates(rev)
      /\ disk' \in {disk, saved} /\ Exit
      /\ UNCHANGED <<config, clock, revoked, handed>>
  BY DEF RestorePeersFails, SaveFails
<1>2. /\ disk # Nil /\ disk.issueCounts = issueCounts
      /\ issueWindow \in Nat /\ issueCounts \in [IPs -> Nat]
  BY <1>1 DEF IndInv, PhaseInv, IssueInv, TypeOK, DiskStates
<1>3. /\ restored \in PeerMaps /\ RestoredQuotas \in QuotaMaps
      /\ OwnersPresent(restored, RestoredQuotas)
  BY <1>1, RestoredStateInv
<1> HIDE DEF restored
<1>4. saved \in DiskStates /\ saved # Nil /\ LoadAccepts(saved)
          /\ saved.issueCounts = issueCounts
  BY <1>2, <1>3, DiskStateType DEF diskState
<1>5. disk \in DiskStates \cup {Nil} /\ (disk # Nil => LoadAccepts(disk))
  BY DEF IndInv, TypeOK, OwnerRecorded
<1> HIDE DEF saved
<1>6. QED
  BY <1>1, <1>2, <1>4, <1>5, ExitInv

-----------------------------------------------------------------------------
(* The run loop. *)

(* What reconcile reads before it takes the mutex keeps the invariant. *)
LEMMA SnapshotStepInv ==
    ASSUME IndInv, NEW rev, Snapshot(rev)
    PROVE  IndInv'
<1> USE DEF Snapshot, memory
<1>0. \A p \in Peers : device[p] # Nil =>
          /\ GetWgDeviceInfo(device[p]) \in DevicePeerInfos
          /\ GetWgDeviceInfo(device[p]) # Nil
  <2>1. \A p \in Peers : device[p] # Nil =>
            GetWgDeviceInfo(device[p]) \in DevicePeerInfos
    BY DEF IndInv, TypeOK, DevicePeers, GetWgDeviceInfo, DevicePeerInfos, Times,
           UnixEpoch
  <2>2. QED
    BY <2>1, NilStateAssumption
<1>1. TypeOK'
  <2>1. RevocationReads(config) \subseteq {Nil} \cup (SUBSET KeyIDs)
    BY DEF IndInv, TypeOK, RevocationReads
  <2>2. snap' \in Snapshots
    BY <1>0, <2>1 DEF IndInv, TypeOK, Snapshots
  <2>3. QED
    BY <2>2 DEF IndInv, TypeOK
<1>2. OwnerRecorded'
  BY DEF IndInv, OwnerRecorded, OwnersPresent, LoadAccepts
<1>3. DurableMirror' /\ DeviceTracked'
  BY DEF IndInv, DurableMirror, DeviceTracked
<1>4. AuthorizedActive'
  BY DEF IndInv, AuthorizedActive, HoldsCurrentSecret
<1>5. PhaseInv'
  BY DEF IndInv, PhaseInv
<1>6. RollbackInv' /\ RegisterInv'
  BY DEF IndInv, RollbackInv, RegisterInv, HoldsCurrentSecret, OwnersPresent,
         RolledBackPeers, RolledBackQuotas
<1>7. SnapshotInv'
  <2>1. \A p \in Peers : device[p] # Nil => snap'.device[p] # Nil
    BY <1>0
  <2>2. snap'.now = clock
    OBVIOUS
  <2>3. QED
    BY <2>1, <2>2 DEF SnapshotInv, IndInv, TypeOK
<1>8. IssueInv'
  BY DEF IndInv, IssueInv
<1>9. QED
  BY <1>1, <1>2, <1>3, <1>4, <1>5, <1>6, <1>7, <1>8 DEF IndInv

(* The exits that leave the file alone. *)
LEMMA ExitUnsavedInv ==
    ASSUME IndInv, Exit, UNCHANGED <<config, clock, disk, revoked, handed>>
    PROVE  IndInv'
<1>1. disk \in DiskStates \cup {Nil} /\ (disk # Nil => LoadAccepts(disk))
  BY DEF IndInv, TypeOK, OwnerRecorded
<1>2. QED
  BY <1>1, ExitInv

(* The peers of the snapshot and their records. *)
LEMMA SeenRecordType ==
    ASSUME IndInv, snap # Nil, NEW p \in Known
    PROVE  /\ p \in Peers
           /\ snap.device[p] \in DevicePeerInfos
           /\ SeenRecord(p) \in PeerStates
           /\ SeenOwner(p) \in QuotaOwners
           /\ SeenRuntime(p) \in PeerRuntimes
<1>1. snap \in Snapshots
  BY DEF IndInv, TypeOK
<1>2. p \in Peers /\ snap.device[p] \in DevicePeerInfos
  BY <1>1 DEF Known, Active, Snapshots
<1>3. SeenRecord(p) \in PeerStates
  <2>1. CASE peers[p] # Nil
    BY <1>2, <2>1 DEF IndInv, TypeOK, SeenRecord
  <2>2. CASE peers[p] = Nil
    BY <1>1, <2>2 DEF SeenRecord, PeerStates, Snapshots, Times
  <2>3. QED
    BY <2>1, <2>2
<1>4. SeenOwner(p) \in QuotaOwners
  BY <1>2, <1>3, RecordOwnerType DEF SeenOwner
<1>5. SeenRuntime(p) \in PeerRuntimes
  BY <1>1, <1>2 DEF IndInv, TypeOK, SeenRuntime, PeerRuntimes, DevicePeerInfos,
                    Snapshots
<1>6. QED
  BY <1>2, <1>3, <1>4, <1>5

(* The quota record reconcile leaves for an owner is well formed. *)
LEMMA CountedQuotaType ==
    ASSUME IndInv, snap # Nil, NEW o \in QuotaOwners
    PROVE  /\ CountedQuota(o) \in QuotaStates
           /\ CountedQuotas[o] \in QuotaStates \cup {Nil}
           /\ quotas[o] # Nil => CountedQuotas[o] # Nil
           /\ (\E p \in Known : SeenOwner(p) = o) => CountedQuotas[o] # Nil
<1> DEFINE quota == IF quotas[o] = Nil THEN newQuotaState(snap.now)
                    ELSE normalizeQuotaState(quotas[o], snap.now)
           counted == [quota EXCEPT !.usedBytes = addUsage(@, CountedBytes(o)),
                                    !.lastSeen = snap.now]
<1>1. snap.now \in Nat /\ quotas[o] \in QuotaStates \cup {Nil}
  BY DEF IndInv, TypeOK, Snapshots
<1>2. quota \in QuotaStates
  BY <1>1, NewQuotaType, NormalizeType
<1>3. addUsage(quota.usedBytes, CountedBytes(o)) \in 0..MaxInt64
  BY <1>2, AddUsageType DEF QuotaStates
<1>4. counted \in QuotaStates
  <2> HIDE DEF quota
  <2>1. QED
    BY <1>1, <1>2, <1>3 DEF QuotaStates
<1>5. CountedQuota(o) = blockIfOverLimit(counted, snap.now, config.quotaBytes)
  BY DEF CountedQuota
<1>6. CountedQuota(o) \in QuotaStates
  BY <1>1, <1>4, <1>5, BlockType
<1>7. CountedQuotas[o] =
          IF \E p \in Known : SeenOwner(p) = o THEN CountedQuota(o) ELSE quotas[o]
  BY DEF CountedQuotas
<1>8. QED
  BY <1>1, <1>6, <1>7, NilAssumption

(* What reconcile saves: reconciling and pruning keep every owner. *)
LEMMA ReconciledStateInv ==
    ASSUME IndInv, snap # Nil
    PROVE  /\ ReconciledPeers \in PeerMaps
           /\ ReconciledQuotas \in QuotaMaps
           /\ OwnersPresent(ReconciledPeers, ReconciledQuotas)
           /\ \A p \in Known :
                  /\ ReconciledPeers[p] # Nil
                  /\ ReconciledPeers[p].keyID = SeenRecord(p).keyID
                  /\ ReconciledPeers[p].authGeneration = SeenRecord(p).authGeneration
           /\ \A p \in Peers \ Known :
                  ReconciledPeers[p] = IF Pruned(p) THEN Nil ELSE peers[p]
<1>0. snap \in Snapshots /\ snap.now \in Nat
  BY DEF IndInv, TypeOK, Snapshots
<1>1. ASSUME NEW p \in Known
      PROVE  /\ ReconciledPeers[p] \in PeerStates
             /\ ReconciledPeers[p] # Nil
             /\ ReconciledPeers[p].keyID = SeenRecord(p).keyID
             /\ ReconciledPeers[p].authGeneration = SeenRecord(p).authGeneration
  <2>1. /\ p \in Peers /\ SeenRecord(p) \in PeerStates
        /\ snap.device[p] \in DevicePeerInfos
    BY SeenRecordType
  <2> DEFINE seen == IF MustRemove(p) THEN ZeroTime ELSE SeenEndpoint(p)
  <2>2. seen \in Times
    <3>1. SeenEndpoint(p) \in Times
      BY <2>1 DEF SeenEndpoint, DevicePeerInfos, PeerStates, Times
    <3>2. QED
      BY <3>1 DEF Times
  <2>3. ReconciledPeers[p] =
            [SeenRecord(p) EXCEPT !.lastSeen = snap.now, !.endpointSeenAt = seen]
    BY <2>1 DEF ReconciledPeers
  <2> HIDE DEF seen
  <2>4. ReconciledPeers[p] \in PeerStates
    BY <1>0, <2>1, <2>2, <2>3 DEF PeerStates
  <2>5. QED
    BY <2>1, <2>3, <2>4, NilAssumption DEF PeerStates
<1>2. \A p \in Peers \ Known :
          ReconciledPeers[p] = IF Pruned(p) THEN Nil ELSE peers[p]
  BY DEF ReconciledPeers
<1>3. ReconciledPeers \in PeerMaps
  <2>1. \A p \in Peers : ReconciledPeers[p] \in PeerStates \cup {Nil}
    BY <1>1, <1>2 DEF IndInv, TypeOK
  <2>2. ReconciledPeers = [p \in Peers |-> ReconciledPeers[p]]
    BY DEF ReconciledPeers
  <2>3. QED
    BY <2>1, <2>2 DEF PeerMaps
<1>4. ReconciledQuotas \in QuotaMaps
  <2>1. \A o \in QuotaOwners : ReconciledQuotas[o] \in QuotaStates \cup {Nil}
    BY CountedQuotaType DEF ReconciledQuotas
  <2>2. ReconciledQuotas = [o \in QuotaOwners |-> ReconciledQuotas[o]]
    BY DEF ReconciledQuotas
  <2>3. QED
    BY <2>1, <2>2 DEF QuotaMaps
<1>5. OwnersPresent(ReconciledPeers, ReconciledQuotas)
  <2> SUFFICES ASSUME NEW p \in Peers, ReconciledPeers[p] # Nil
               PROVE  ReconciledQuotas[OwnerOf(p, ReconciledPeers[p])] # Nil
    BY DEF OwnersPresent
  <2> DEFINE o == OwnerOf(p, ReconciledPeers[p])
  <2>1. o \in QuotaOwners
    BY <1>3, RecordOwnerType DEF PeerMaps
  <2>2. CountedQuotas[o] # Nil
    <3>1. CASE p \in Known
      <4>1. SeenOwner(p) = o
        BY <1>1, <3>1 DEF SeenOwner, OwnerOf
      <4>2. QED
        BY <2>1, <3>1, <4>1, CountedQuotaType
    <3>2. CASE p \notin Known
      <4>1. ReconciledPeers[p] = peers[p]
        BY <1>2, <3>2
      <4>2. quotas[o] # Nil
        BY <4>1 DEF IndInv, OwnerRecorded, OwnersPresent
      <4>3. QED
        BY <2>1, <4>2, CountedQuotaType
    <3>3. QED
      BY <3>1, <3>2
  <2>3. Referenced(o)
    BY DEF Referenced
  <2>4. ~PrunedQuota(o)
    BY <2>3 DEF PrunedQuota
  <2>5. QED
    BY <2>1, <2>2, <2>4 DEF ReconciledQuotas
<1>6. QED
  BY <1>1, <1>2, <1>3, <1>4, <1>5

(* reconcile keeps the invariant, however old the snapshot is. *)
LEMMA ReconcileInv ==
    ASSUME IndInv, NEW kept, Reconcile(kept)
    PROVE  IndInv'
<1> DEFINE removed == Removals \ kept
<1>a. /\ snap # Nil /\ reg = Nil /\ ~stateErr
      /\ pc' = "serving" /\ snap' = Nil
      /\ peers' = ReconciledPeers /\ quotas' = ReconciledQuotas
      /\ disk' = ReconciledState
      /\ UNCHANGED <<config, clock, issueWindow, issueCounts, stateErr, reg,
                     revoked, handed>>
  BY DEF Reconcile, ReconcileError
<1>b. /\ runtime' = [p \in Peers |->
                        IF p \in removed \/ Pruned(p) THEN Nil
                        ELSE IF p \in Known THEN SeenRuntime(p) ELSE runtime[p]]
      /\ device' = [p \in Peers |-> IF p \in removed THEN Nil ELSE device[p]]
  BY DEF Reconcile
<1>c. /\ disk # Nil /\ disk.issueWindow = issueWindow
      /\ disk.issueCounts = issueCounts
      /\ issueWindow \in Nat /\ issueCounts \in [IPs -> Nat]
  BY <1>a DEF IndInv, PhaseInv, IssueInv, TypeOK, DiskStates
<1>s. /\ disk' \in DiskStates /\ disk' # Nil /\ LoadAccepts(disk')
      /\ disk'.issueWindow = issueWindow /\ disk'.issueCounts = issueCounts
  BY <1>a, <1>c, ReconciledStateInv, DiskStateType DEF ReconciledState, diskState
<1>d. \A p \in Peers : device'[p] # Nil => device[p] # Nil /\ p \notin removed
  BY <1>b
<1>e. \A p \in Peers : device[p] # Nil => peers[p] # Nil /\ HoldsCurrentSecret(p)
  BY DEF IndInv, AuthorizedActive
<1>f. \A p \in Peers : device[p] # Nil /\ p \notin Known =>
          p \notin Active /\ ~Pruned(p) /\ pc = "serving"
  <2> SUFFICES ASSUME NEW p \in Peers, device[p] # Nil, p \notin Known
               PROVE  p \notin Active /\ ~Pruned(p) /\ pc = "serving"
    OBVIOUS
  <2>1. p \notin Active
    BY <1>e DEF Known
  <2>2. pc = "serving" /\ snap.now < peers[p].lastSeen + PeerStateRetention
    BY <1>a, <2>1 DEF IndInv, SnapshotInv, Active
  <2>3. peers[p].lastSeen \in Nat /\ snap.now \in Nat
    BY <1>a, <1>e DEF IndInv, TypeOK, PeerStates, Snapshots
  <2>4. ~Pruned(p)
    BY <2>2, <2>3, DurationsAssumption DEF Pruned
  <2>5. QED
    BY <2>1, <2>2, <2>4
<1>1. TypeOK'
  <2>1. runtime' \in [Peers -> PeerRuntimes \cup {Nil}]
    BY <1>a, <1>b, SeenRecordType DEF IndInv, TypeOK
  <2>2. device' \in [Peers -> DevicePeers \cup {Nil}]
    BY <1>b DEF IndInv, TypeOK
  <2>3. QED
    BY <1>a, <1>s, <2>1, <2>2, ReconciledStateInv
       DEF IndInv, TypeOK, PeerMaps, QuotaMaps
<1>2. OwnerRecorded'
  BY <1>a, <1>s, ReconciledStateInv DEF OwnerRecorded, LoadAccepts
<1>3. DurableMirror'
  BY <1>a DEF DurableMirror, ReconciledState
<1>4. AuthorizedActive'
  <2> SUFFICES ASSUME NEW p \in Peers, device'[p] # Nil
               PROVE  (peers[p] # Nil)' /\ HoldsCurrentSecret(p)'
    BY DEF AuthorizedActive
  <2>1. device[p] # Nil /\ peers[p] # Nil /\ HoldsCurrentSecret(p)
    BY <1>d, <1>e
  <2>2. /\ ReconciledPeers[p] # Nil
        /\ ReconciledPeers[p].keyID = peers[p].keyID
        /\ ReconciledPeers[p].authGeneration = peers[p].authGeneration
    BY <1>a, <1>f, <2>1, ReconciledStateInv DEF SeenRecord
  <2>3. QED
    BY <1>a, <2>1, <2>2 DEF HoldsCurrentSecret
<1>5. DeviceTracked'
  <2> SUFFICES ASSUME NEW p \in Peers, device'[p] # Nil
               PROVE  (peers[p] # Nil)' /\ (runtime[p] # Nil)'
    BY DEF DeviceTracked
  <2>1. (peers[p] # Nil)'
    BY <1>4 DEF AuthorizedActive
  <2>2. device[p] # Nil /\ p \notin removed
    BY <1>d
  <2>3. CASE p \in Known
    <3>1. ~Pruned(p)
      BY <2>3 DEF Known, Pruned
    <3>2. SeenRuntime(p) # Nil
      BY <1>a, <2>3, SeenRecordType, NilAssumption
    <3>3. QED
      BY <1>b, <2>1, <2>2, <2>3, <3>1, <3>2
  <2>4. CASE p \notin Known
    <3>1. runtime[p] # Nil
      BY <1>a, <1>f, <2>2, <2>4 DEF IndInv, DeviceTracked
    <3>2. QED
      BY <1>b, <1>f, <2>1, <2>2, <2>4, <3>1
  <2>5. QED
    BY <2>3, <2>4
<1>6. PhaseInv' /\ RollbackInv' /\ RegisterInv' /\ SnapshotInv'
  BY <1>a DEF PhaseInv, RollbackInv, RegisterInv, SnapshotInv
<1>7. IssueInv'
  BY <1>a, <1>c, <1>s DEF IndInv, IssueInv
<1>8. QED
  BY <1>1, <1>2, <1>3, <1>4, <1>5, <1>6, <1>7 DEF IndInv

(* reconcile whose save fails keeps the invariant. *)
LEMMA ReconcileSaveFailsInv ==
    ASSUME IndInv, ReconcileSaveFails
    PROVE  IndInv'
<1>1. /\ snap # Nil /\ ~stateErr /\ disk' \in {disk, ReconciledState} /\ Exit
      /\ UNCHANGED <<config, clock, revoked, handed>>
  BY DEF ReconcileSaveFails, SaveFails, ReconcileError
<1>2. /\ disk # Nil /\ disk.issueCounts = issueCounts
      /\ issueWindow \in Nat /\ issueCounts \in [IPs -> Nat]
  BY <1>1 DEF IndInv, PhaseInv, IssueInv, TypeOK, DiskStates
<1>3. /\ ReconciledState \in DiskStates /\ ReconciledState # Nil
      /\ LoadAccepts(ReconciledState)
      /\ ReconciledState.issueCounts = issueCounts
  BY <1>1, <1>2, ReconciledStateInv, DiskStateType DEF ReconciledState, diskState
<1>4. disk \in DiskStates \cup {Nil} /\ (disk # Nil => LoadAccepts(disk))
  BY DEF IndInv, TypeOK, OwnerRecorded
<1>5. QED
  BY <1>1, <1>2, <1>3, <1>4, ExitInv

(* Every step of the run loop keeps the invariant. *)
LEMMA RunLoopInv ==
    ASSUME IndInv, RunLoop
    PROVE  IndInv'
<1>1. ASSUME NEW rev, Snapshot(rev) PROVE IndInv'
  BY <1>1, SnapshotStepInv
<1>2. CASE SnapshotFails
  BY <1>2, ExitUnsavedInv DEF SnapshotFails
<1>3. ASSUME NEW kept, Reconcile(kept) PROVE IndInv'
  BY <1>3, ReconcileInv
<1>4. CASE ReconcileFails
  BY <1>4, ExitUnsavedInv DEF ReconcileFails
<1>5. CASE ReconcileSaveFails
  BY <1>5, ReconcileSaveFailsInv
<1>6. CASE RunFailure
  BY <1>6, ExitUnsavedInv DEF RunFailure
<1>7. QED
  BY <1>1, <1>2, <1>3, <1>4, <1>5, <1>6 DEF RunLoop

-----------------------------------------------------------------------------
(* Requests. *)

(* A credential that registerPeer accepts is well formed and current. *)
LEMMA CredentialType ==
    ASSUME IndInv, NEW p \in Peers, NEW c, NEW key, NEW rev,
           RegisterAccepts(p, c, key, rev)
    PROVE  /\ c.keyID \in KeyIDs \cup {OpenID, SharedID}
           /\ c.authGeneration \in Secrets \cup {NoSecret}
           /\ (c.keyID = OpenID) <=> (c.authGeneration = NoSecret)
           /\ SecretMode(config) =>
                  c.authGeneration = config.authSecret /\ c.keyID \in KeyIDs
           /\ LegacyMode(config) =>
                  c.authGeneration = config.legacyKey /\ c.keyID = SharedID
           /\ OwnerOf(p, c) \in QuotaOwners
<1>1. c \in Credentials /\ credentialMatchesCurrentMode(config, c)
  BY DEF RegisterAccepts, authorize
<1>2. /\ c.keyID \in KeyIDs \cup {OpenID, SharedID}
      /\ c.authGeneration \in Secrets \cup {NoSecret}
  BY <1>1 DEF Credentials
<1>3. SharedID # OpenID
  BY DEF SharedID, OpenID
<1>4. (c.keyID = OpenID) <=> (c.authGeneration = NoSecret)
  BY <1>1, <1>3, NamesAssumption
     DEF credentialMatchesCurrentMode, SecretMode, LegacyMode, OpenMode
<1>5. /\ SecretMode(config) =>
             c.authGeneration = config.authSecret /\ c.keyID \in KeyIDs
      /\ LegacyMode(config) =>
             c.authGeneration = config.legacyKey /\ c.keyID = SharedID
  BY <1>1 DEF credentialMatchesCurrentMode, LegacyMode, OpenMode
<1>6. QED
  BY <1>2, <1>4, <1>5, OwnerType

(* What registerPeer saves before it touches the device. *)
LEMMA RegisteredStateInv ==
    ASSUME IndInv, NEW p \in Peers, NEW c, NEW key, NEW rev,
           RegisterAccepts(p, c, key, rev)
    PROVE  /\ RegisteredPeers(p, c) \in PeerMaps
           /\ RegisteredPeers(p, c)[p] # Nil
           /\ RegisteredPeers(p, c)[p].lastSeen = clock
           /\ RegisteredPeers(p, c)[p].keyID = c.keyID
           /\ RegisteredPeers(p, c)[p].authGeneration = c.authGeneration
           /\ \A q \in Peers \ {p} : RegisteredPeers(p, c)[q] = peers[q]
           /\ RegisteredQuotas(OwnerOf(p, c)) \in QuotaMaps
           /\ OwnersPresent(RegisteredPeers(p, c), RegisteredQuotas(OwnerOf(p, c)))
<1> DEFINE owner == OwnerOf(p, c)
           record == [keyID |-> c.keyID, authGeneration |-> c.authGeneration,
                      lastSeen |-> clock,
                      endpointSeenAt |-> IF peers[p] = Nil THEN ZeroTime
                                         ELSE peers[p].endpointSeenAt]
           quota == [RequestQuota(owner) EXCEPT !.lastSeen = clock]
<1>0. peers \in PeerMaps /\ quotas \in QuotaMaps /\ clock \in Nat
          /\ owner \in QuotaOwners
  BY CredentialType DEF IndInv, TypeOK, PeerMaps, QuotaMaps
<1>1. record \in PeerStates /\ record # Nil
  <2>1. record \in PeerStates
    BY <1>0, CredentialType DEF PeerStates, PeerMaps, Times
  <2>2. QED
    BY <2>1, NilAssumption
<1>2. quota \in QuotaStates /\ quota # Nil
  <2>1. RequestQuota(owner) \in QuotaStates
    BY <1>0, NewQuotaType, NormalizeType DEF RequestQuota, QuotaMaps
  <2>2. quota \in QuotaStates
    BY <1>0, <2>1 DEF QuotaStates
  <2>3. QED
    BY <2>2, NilAssumption
<1>3. RegisteredPeers(p, c) = [peers EXCEPT ![p] = record]
  BY DEF RegisteredPeers
<1>4. RegisteredQuotas(owner) = [quotas EXCEPT ![owner] = quota]
  BY DEF RegisteredQuotas
<1>r. record.keyID = c.keyID /\ record.authGeneration = c.authGeneration
          /\ record.lastSeen = clock
  OBVIOUS
<1> HIDE DEF record, quota
<1>5. OwnersPresent(RegisteredPeers(p, c), RegisteredQuotas(owner))
  <2> SUFFICES ASSUME NEW q \in Peers, RegisteredPeers(p, c)[q] # Nil
               PROVE  RegisteredQuotas(owner)[OwnerOf(q, RegisteredPeers(p, c)[q])] # Nil
    BY DEF OwnersPresent
  <2>1. CASE q = p
    <3>1. OwnerOf(q, RegisteredPeers(p, c)[q]) = owner
      BY <1>0, <1>3, <1>r, <2>1 DEF OwnerOf, PeerMaps
    <3>2. QED
      BY <1>0, <1>2, <1>4, <3>1 DEF QuotaMaps
  <2>2. CASE q # p
    <3>1. RegisteredPeers(p, c)[q] = peers[q] /\ peers[q] # Nil
      BY <1>0, <1>3, <2>2 DEF PeerMaps
    <3>2. quotas[OwnerOf(q, peers[q])] # Nil /\ OwnerOf(q, peers[q]) \in QuotaOwners
      BY <1>0, <3>1, RecordOwnerType DEF IndInv, OwnerRecorded, OwnersPresent, PeerMaps
    <3>3. QED
      BY <1>0, <1>2, <1>4, <3>1, <3>2 DEF QuotaMaps
  <2>3. QED
    BY <2>1, <2>2
<1>6. QED
  BY <1>0, <1>1, <1>2, <1>3, <1>4, <1>5, <1>r DEF PeerMaps, QuotaMaps

(* registerPeer up to its save keeps the invariant. *)
LEMMA RegisterPeerInv ==
    ASSUME IndInv, NEW p \in Peers, NEW c, NEW key, NEW rev,
           RegisterPeer(p, c, key, rev)
    PROVE  IndInv'
<1> DEFINE owner == OwnerOf(p, c)
           ps == RegisteredPeers(p, c)
           qs == RegisteredQuotas(owner)
<1>a. /\ RegisterAccepts(p, c, key, rev)
      /\ peers' = ps /\ quotas' = qs
      /\ disk' = diskState(ps, qs, issueWindow, issueCounts)
      /\ reg' = [peer |-> p, owner |-> owner, old |-> peers[p],
                 oldQuota |-> quotas[owner], now |-> clock, phase |-> "add"]
      /\ UNCHANGED <<pc, config, clock, runtime, issueWindow, issueCounts,
                     stateErr, snap, device, revoked, handed>>
  BY DEF RegisterPeer
<1>0. pc = "serving" /\ reg = Nil /\ ~stateErr
  BY <1>a DEF RegisterAccepts
<1>b. /\ ps \in PeerMaps /\ qs \in QuotaMaps /\ OwnersPresent(ps, qs)
      /\ ps[p] # Nil /\ ps[p].lastSeen = clock
      /\ ps[p].keyID = c.keyID /\ ps[p].authGeneration = c.authGeneration
      /\ \A q \in Peers \ {p} : ps[q] = peers[q]
  BY <1>a, RegisteredStateInv
<1>c. owner \in QuotaOwners
          /\ (SecretMode(config) =>
                  c.authGeneration = config.authSecret /\ c.keyID \in KeyIDs)
          /\ (LegacyMode(config) =>
                  c.authGeneration = config.legacyKey /\ c.keyID = SharedID)
  BY <1>a, CredentialType
<1>d. /\ disk # Nil /\ disk.issueWindow = issueWindow
      /\ disk.issueCounts = issueCounts
      /\ issueWindow \in Nat /\ issueCounts \in [IPs -> Nat]
  BY <1>0 DEF IndInv, IssueInv, TypeOK, DiskStates
<1>e. reg'.peer = p /\ reg'.owner = owner /\ reg'.old = peers[p]
          /\ reg'.oldQuota = quotas[owner] /\ reg'.now = clock
  BY <1>a
<1>f. RolledBackPeers' = peers /\ RolledBackQuotas' = quotas
  <2>1. RolledBackPeers' = [ps EXCEPT ![p] = peers[p]]
    BY <1>a, <1>e DEF RolledBackPeers
  <2>2. RolledBackQuotas' = [qs EXCEPT ![owner] = quotas[owner]]
    BY <1>a, <1>e DEF RolledBackQuotas
  <2>3. [ps EXCEPT ![p] = peers[p]] = peers
    BY <1>b DEF IndInv, TypeOK, PeerMaps
  <2>4. [qs EXCEPT ![owner] = quotas[owner]] = quotas
    BY <1>c DEF RegisteredQuotas, IndInv, TypeOK
  <2>5. QED
    BY <2>1, <2>2, <2>3, <2>4
<1> HIDE DEF ps, qs, owner
<1>s. disk' \in DiskStates /\ disk' # Nil /\ LoadAccepts(disk')
          /\ disk'.issueWindow = issueWindow /\ disk'.issueCounts = issueCounts
  BY <1>a, <1>b, <1>d, DiskStateType DEF diskState
<1>1. TypeOK'
  <2>1. reg' \in Registrations
    BY <1>a, <1>c DEF IndInv, TypeOK, Registrations
  <2>2. QED
    BY <1>a, <1>b, <1>s, <2>1 DEF IndInv, TypeOK, PeerMaps, QuotaMaps
<1>2. OwnerRecorded'
  BY <1>a, <1>b, <1>s DEF OwnerRecorded, LoadAccepts
<1>3. DurableMirror'
  BY <1>a DEF DurableMirror
<1>h. /\ (peers[p] # Nil)'
      /\ HoldsCurrentSecret(p)'
  BY <1>a, <1>b, <1>c DEF HoldsCurrentSecret, SecretMode, LegacyMode
<1>4. AuthorizedActive'
  <2> SUFFICES ASSUME NEW q \in Peers, device'[q] # Nil
               PROVE  (peers[q] # Nil)' /\ HoldsCurrentSecret(q)'
    BY DEF AuthorizedActive
  <2>1. CASE q = p
    BY <1>h, <2>1
  <2>2. CASE q # p
    <3>1. peers'[q] = peers[q] /\ peers[q] # Nil /\ HoldsCurrentSecret(q)
      BY <1>a, <1>b, <2>2 DEF IndInv, AuthorizedActive
    <3>2. QED
      BY <1>a, <3>1 DEF HoldsCurrentSecret
  <2>3. QED
    BY <2>1, <2>2
<1>5. DeviceTracked'
  <2> SUFFICES ASSUME NEW q \in Peers, device'[q] # Nil
               PROVE  (peers[q] # Nil)' /\ (runtime[q] # Nil)'
    BY DEF DeviceTracked
  <2>1. (peers[q] # Nil)'
    BY <1>4 DEF AuthorizedActive
  <2>2. QED
    BY <1>0, <1>a, <2>1 DEF IndInv, DeviceTracked
<1>n. reg' # Nil
  BY <1>1, <1>a, <1>c, NilStateAssumption DEF IndInv, TypeOK, Registrations
<1>6. PhaseInv'
  BY <1>0, <1>a DEF PhaseInv
<1>7. RollbackInv'
  BY <1>f DEF RollbackInv, IndInv, OwnerRecorded, OwnersPresent
<1>8. RegisterInv'
  BY <1>a, <1>b, <1>e, <1>h, HandlerAssumption
     DEF RegisterInv, HoldsCurrentSecret, IndInv, TypeOK
<1>9. SnapshotInv'
  <2> SUFFICES ASSUME snap # Nil
               PROVE  /\ snap.now <= clock
                      /\ \A q \in Peers : device[q] # Nil /\ snap.device[q] = Nil =>
                             snap.now < peers'[q].lastSeen + PeerStateRetention
    BY <1>0, <1>a DEF SnapshotInv
  <2>1. snap.now \in Nat /\ clock \in Nat /\ snap.now <= clock
    BY DEF IndInv, TypeOK, Snapshots, SnapshotInv
  <2>2. ASSUME NEW q \in Peers, device[q] # Nil, snap.device[q] = Nil
        PROVE  snap.now < peers'[q].lastSeen + PeerStateRetention
    <3>1. CASE q = p
      BY <1>a, <1>b, <2>1, <3>1, DurationsAssumption
    <3>2. CASE q # p
      BY <1>a, <1>b, <2>2, <3>2 DEF IndInv, SnapshotInv
    <3>3. QED
      BY <3>1, <3>2
  <2>3. QED
    BY <2>1, <2>2
<1>10. IssueInv'
  BY <1>a, <1>d, <1>s DEF IndInv, IssueInv
<1>11. QED
  BY <1>1, <1>2, <1>3, <1>4, <1>5, <1>6, <1>7, <1>8, <1>9, <1>10 DEF IndInv

(* A registration whose save fails leaves memory as it was. *)
LEMMA RegisterPeerSaveFailsInv ==
    ASSUME IndInv, NEW p \in Peers, NEW c, NEW key, NEW rev,
           RegisterPeerSaveFails(p, c, key, rev)
    PROVE  IndInv'
<1> DEFINE ps == RegisteredPeers(p, c)
           qs == RegisteredQuotas(OwnerOf(p, c))
           saved == diskState(ps, qs, issueWindow, issueCounts)
<1>a. /\ RegisterAccepts(p, c, key, rev)
      /\ disk' \in {disk, saved}
      /\ stateErr' = TRUE
      /\ UNCHANGED <<pc, config, clock, peers, quotas, runtime, issueWindow,
                     issueCounts, reg, snap, device, revoked, handed>>
  BY DEF RegisterPeerSaveFails, SaveFails
<1>0. pc = "serving" /\ reg = Nil /\ ~stateErr
  BY <1>a DEF RegisterAccepts
<1>b. ps \in PeerMaps /\ qs \in QuotaMaps /\ OwnersPresent(ps, qs)
  BY <1>a, RegisteredStateInv
<1>c. /\ disk # Nil /\ disk.issueCounts = issueCounts
      /\ issueWindow \in Nat /\ issueCounts \in [IPs -> Nat]
      /\ disk \in DiskStates /\ LoadAccepts(disk)
  BY <1>0 DEF IndInv, IssueInv, TypeOK, DiskStates, OwnerRecorded
<1> HIDE DEF ps, qs
<1>d. saved \in DiskStates /\ saved # Nil /\ LoadAccepts(saved)
          /\ saved.issueCounts = issueCounts
  BY <1>b, <1>c, DiskStateType DEF diskState
<1> HIDE DEF saved
<1>1. disk' \in DiskStates /\ disk' # Nil /\ LoadAccepts(disk')
          /\ disk'.issueCounts = disk.issueCounts
  BY <1>a, <1>c, <1>d
<1>2. TypeOK'
  BY <1>a, <1>1 DEF IndInv, TypeOK
<1>3. OwnerRecorded'
  BY <1>a, <1>1 DEF IndInv, OwnerRecorded, OwnersPresent, LoadAccepts
<1>4. DurableMirror' /\ DeviceTracked'
  BY <1>0, <1>a DEF IndInv, DurableMirror, DeviceTracked
<1>5. AuthorizedActive'
  BY <1>a DEF IndInv, AuthorizedActive, HoldsCurrentSecret
<1>6. PhaseInv' /\ RollbackInv' /\ RegisterInv'
  BY <1>0, <1>a DEF PhaseInv, RollbackInv, RegisterInv
<1>7. SnapshotInv'
  BY <1>a DEF IndInv, SnapshotInv
<1>8. IssueInv'
  BY <1>a, <1>c, <1>1 DEF IndInv, IssueInv
<1>9. QED
  BY <1>2, <1>3, <1>4, <1>5, <1>6, <1>7, <1>8 DEF IndInv

(* The types of the registration in progress and of what it adds. *)
LEMMA RegistrationType ==
    ASSUME IndInv, reg # Nil
    PROVE  /\ reg \in Registrations
           /\ reg.peer \in Peers /\ reg.owner \in QuotaOwners
           /\ reg.old \in PeerStates \cup {Nil}
           /\ reg.oldQuota \in QuotaStates \cup {Nil}
           /\ reg.now \in Nat
           /\ AddedPeer(reg.peer) \in DevicePeers
           /\ pc = "serving" /\ ~stateErr
<1>1. reg \in Registrations /\ pc = "serving" /\ ~stateErr
  BY DEF IndInv, TypeOK, PhaseInv
<1>2. reg.peer \in Peers
  BY <1>1 DEF Registrations
<1>3. AddedPeer(reg.peer) \in DevicePeers
  BY <1>2 DEF IndInv, TypeOK, AddedPeer, DevicePeers
<1>4. QED
  BY <1>1, <1>3 DEF Registrations

(* The runtime entry registerPeer leaves for its peer. *)
LEMMA RegisteredRuntimeType ==
    ASSUME IndInv, reg # Nil
    PROVE  /\ RegisteredRuntime \in [Peers -> PeerRuntimes \cup {Nil}]
           /\ RegisteredRuntime[reg.peer] # Nil
           /\ \A q \in Peers \ {reg.peer} : RegisteredRuntime[q] = runtime[q]
<1> DEFINE entry == IF runtime[reg.peer] = Nil
                    THEN [lastRx |-> 0, lastTx |-> 0, addedAt |-> reg.now]
                    ELSE [runtime[reg.peer] EXCEPT !.addedAt = reg.now]
<1>1. reg.peer \in Peers /\ reg.now \in Nat
          /\ runtime \in [Peers -> PeerRuntimes \cup {Nil}]
  BY RegistrationType DEF IndInv, TypeOK
<1>2. entry \in PeerRuntimes
  BY <1>1 DEF PeerRuntimes
<1>3. RegisteredRuntime = [runtime EXCEPT ![reg.peer] = entry]
  BY <1>1 DEF RegisteredRuntime
<1> HIDE DEF entry
<1>4. QED
  BY <1>1, <1>2, <1>3, NilAssumption

(* A step that changes the device at the peer being registered only keeps  *)
(* SnapshotInv, since that peer's record is younger than the retention.    *)
LEMMA RegisterSnapshotInv ==
    ASSUME IndInv, reg # Nil,
           UNCHANGED <<pc, clock, snap, peers>>,
           \A q \in Peers \ {reg.peer} : device'[q] = device[q]
    PROVE  SnapshotInv'
<1> SUFFICES ASSUME snap # Nil
             PROVE  /\ snap.now <= clock
                    /\ \A q \in Peers : device'[q] # Nil /\ snap.device[q] = Nil =>
                           /\ pc = "serving"
                           /\ snap.now < peers[q].lastSeen + PeerStateRetention
  BY DEF SnapshotInv
<1>1. /\ snap.now \in Nat /\ clock \in Nat /\ snap.now <= clock
      /\ reg.peer \in Peers /\ reg.now \in Nat /\ pc = "serving"
  BY RegistrationType DEF IndInv, TypeOK, Snapshots, SnapshotInv
<1>2. ASSUME NEW q \in Peers, device'[q] # Nil, snap.device[q] = Nil
      PROVE  snap.now < peers[q].lastSeen + PeerStateRetention
  <2>1. CASE q = reg.peer
    <3>1. peers[q].lastSeen = reg.now /\ clock <= reg.now + MaxHandlerTime
      BY <2>1 DEF IndInv, RegisterInv
    <3>2. QED
      BY <1>1, <3>1, HandlerAssumption, DurationsAssumption
  <2>2. CASE q # reg.peer
    BY <1>2, <2>2 DEF IndInv, SnapshotInv
  <2>3. QED
    BY <2>1, <2>2
<1>3. QED
  BY <1>1, <1>2

(* The device accepts the peer. *)
LEMMA RegisterAddPeerInv ==
    ASSUME IndInv, RegisterAddPeer
    PROVE  IndInv'
<1>a. /\ reg # Nil /\ reg' = Nil
      /\ device' = [device EXCEPT ![reg.peer] = AddedPeer(reg.peer)]
      /\ runtime' = RegisteredRuntime
      /\ UNCHANGED <<pc, config, clock, peers, quotas, issueWindow, issueCounts,
                     stateErr, snap, disk, revoked, handed>>
  BY DEF RegisterAddPeer
<1>b. /\ reg.peer \in Peers /\ AddedPeer(reg.peer) \in DevicePeers
      /\ device \in [Peers -> DevicePeers \cup {Nil}]
  BY <1>a, RegistrationType DEF IndInv, TypeOK
<1>c. \A q \in Peers \ {reg.peer} : device'[q] = device[q]
  BY <1>a, <1>b
<1>d. peers[reg.peer] # Nil /\ HoldsCurrentSecret(reg.peer)
  BY <1>a DEF IndInv, RegisterInv
<1>1. TypeOK'
  <2>1. device' \in [Peers -> DevicePeers \cup {Nil}]
    BY <1>a, <1>b
  <2>2. QED
    BY <1>a, <2>1, RegisteredRuntimeType DEF IndInv, TypeOK
<1>2. OwnerRecorded'
  BY <1>a DEF IndInv, OwnerRecorded, OwnersPresent, LoadAccepts
<1>3. DurableMirror'
  BY <1>a DEF IndInv, DurableMirror, diskState
<1>4. AuthorizedActive'
  BY <1>a, <1>b, <1>c, <1>d DEF IndInv, AuthorizedActive, HoldsCurrentSecret
<1>5. DeviceTracked'
  BY <1>a, <1>b, <1>c, <1>d, RegisteredRuntimeType DEF IndInv, DeviceTracked
<1>6. PhaseInv' /\ RollbackInv' /\ RegisterInv'
  BY <1>a, RegistrationType DEF IndInv, PhaseInv, RollbackInv, RegisterInv
<1>7. SnapshotInv'
  BY <1>a, <1>c, RegisterSnapshotInv
<1>8. IssueInv'
  BY <1>a DEF IndInv, IssueInv
<1>9. QED
  BY <1>1, <1>2, <1>3, <1>4, <1>5, <1>6, <1>7, <1>8 DEF IndInv

(* The device refuses the peer, having applied the change or not. *)
LEMMA RegisterAddPeerFailsInv ==
    ASSUME IndInv, RegisterAddPeerFails
    PROVE  IndInv'
<1>a. /\ reg # Nil
      /\ reg' = [reg EXCEPT !.phase = "cleanup"]
      /\ UNCHANGED <<pc, config, clock, peers, quotas, runtime, issueWindow,
                     issueCounts, stateErr, snap, disk, revoked, handed>>
  BY DEF RegisterAddPeerFails, memory
<1>b. /\ reg.peer \in Peers /\ AddedPeer(reg.peer) \in DevicePeers
      /\ device \in [Peers -> DevicePeers \cup {Nil}]
      /\ reg \in Registrations
  BY <1>a, RegistrationType DEF IndInv, TypeOK
<1>c. PICK d \in FailedAdds(reg.peer) : device' = [device EXCEPT ![reg.peer] = d]
  BY DEF RegisterAddPeerFails
<1>d. d \in DevicePeers \cup {Nil}
  BY <1>b, <1>c DEF FailedAdds
<1>e. /\ device' \in [Peers -> DevicePeers \cup {Nil}]
      /\ \A q \in Peers \ {reg.peer} : device'[q] = device[q]
  BY <1>b, <1>c, <1>d
<1>f. /\ reg' \in Registrations /\ reg'.peer = reg.peer /\ reg'.owner = reg.owner
      /\ reg'.old = reg.old /\ reg'.oldQuota = reg.oldQuota /\ reg'.now = reg.now
  BY <1>a, <1>b DEF Registrations
<1>g. peers[reg.peer] # Nil /\ HoldsCurrentSecret(reg.peer)
  BY <1>a DEF IndInv, RegisterInv
<1>n. reg' # Nil
  BY <1>f, NilStateAssumption
<1>1. TypeOK'
  BY <1>a, <1>e, <1>f DEF IndInv, TypeOK
<1>2. OwnerRecorded'
  BY <1>a DEF IndInv, OwnerRecorded, OwnersPresent, LoadAccepts
<1>3. DurableMirror'
  BY <1>a DEF IndInv, DurableMirror, diskState
<1>4. AuthorizedActive'
  BY <1>a, <1>b, <1>e, <1>g DEF IndInv, AuthorizedActive, HoldsCurrentSecret
<1>5. DeviceTracked'
  BY <1>a, <1>b, <1>e, <1>f, <1>g, <1>n DEF IndInv, DeviceTracked
<1>6. PhaseInv'
  BY <1>a, RegistrationType DEF PhaseInv
<1>7. RollbackInv'
  <2>1. RolledBackPeers' = RolledBackPeers /\ RolledBackQuotas' = RolledBackQuotas
    BY <1>a, <1>f DEF RolledBackPeers, RolledBackQuotas
  <2>2. QED
    BY <1>a, <2>1 DEF IndInv, RollbackInv, OwnersPresent
<1>8. RegisterInv'
  BY <1>a, <1>f DEF IndInv, RegisterInv, HoldsCurrentSecret
<1>9. SnapshotInv'
  BY <1>a, <1>e, RegisterSnapshotInv
<1>10. IssueInv'
  BY <1>a DEF IndInv, IssueInv
<1>11. QED
  BY <1>1, <1>2, <1>3, <1>4, <1>5, <1>6, <1>7, <1>8, <1>9, <1>10 DEF IndInv

(* The failed registration is rolled back, and the rollback saved or not. *)
LEMMA RegisterCleanupInv ==
    ASSUME IndInv, RegisterCleanup
    PROVE  IndInv'
<1> DEFINE ps == RolledBackPeers
           qs == RolledBackQuotas
<1>a. /\ reg # Nil /\ reg' = Nil
      /\ device' = [device EXCEPT ![reg.peer] = Nil]
      /\ peers' = ps /\ quotas' = qs
      /\ runtime' = [runtime EXCEPT ![reg.peer] = Nil]
      /\ \/ disk' = RolledBackState /\ stateErr' = stateErr
         \/ disk' \in {disk, RolledBackState} /\ stateErr' = TRUE
      /\ UNCHANGED <<pc, config, clock, issueWindow, issueCounts, snap, revoked,
                     handed>>
  BY DEF RegisterCleanup, SaveFails
<1>b. /\ reg.peer \in Peers /\ reg.owner \in QuotaOwners
      /\ reg.old \in PeerStates \cup {Nil} /\ reg.oldQuota \in QuotaStates \cup {Nil}
      /\ pc = "serving" /\ ~stateErr
  BY <1>a, RegistrationType
<1>c. /\ ps \in PeerMaps /\ qs \in QuotaMaps /\ OwnersPresent(ps, qs)
      /\ \A q \in Peers \ {reg.peer} : ps[q] = peers[q]
  BY <1>a, <1>b DEF IndInv, TypeOK, RollbackInv, RolledBackPeers,
                    RolledBackQuotas, PeerMaps, QuotaMaps
<1>d. /\ disk # Nil /\ disk.issueWindow = issueWindow
      /\ disk.issueCounts = issueCounts
      /\ issueWindow \in Nat /\ issueCounts \in [IPs -> Nat]
      /\ disk \in DiskStates /\ LoadAccepts(disk)
  BY <1>b DEF IndInv, IssueInv, TypeOK, DiskStates, OwnerRecorded
<1>e. /\ RolledBackState \in DiskStates /\ RolledBackState # Nil
      /\ LoadAccepts(RolledBackState)
      /\ RolledBackState.issueWindow = issueWindow
      /\ RolledBackState.issueCounts = issueCounts
  BY <1>c, <1>d, DiskStateType DEF RolledBackState, diskState
<1>f. \A q \in Peers : device'[q] # Nil =>
          q # reg.peer /\ device[q] # Nil /\ peers'[q] = peers[q]
              /\ runtime'[q] = runtime[q]
  BY <1>a, <1>b, <1>c DEF IndInv, TypeOK
<1>g. RolledBackState = diskState(ps, qs, issueWindow, issueCounts)
  BY DEF RolledBackState
<1> HIDE DEF ps, qs
<1>s. /\ disk' \in DiskStates /\ disk' # Nil /\ LoadAccepts(disk')
      /\ disk'.issueWindow = issueWindow /\ disk'.issueCounts = issueCounts
  BY <1>a, <1>d, <1>e
<1>1. TypeOK'
  <2>1. device' \in [Peers -> DevicePeers \cup {Nil}]
            /\ runtime' \in [Peers -> PeerRuntimes \cup {Nil}]
    BY <1>a, <1>b DEF IndInv, TypeOK
  <2>2. stateErr' \in BOOLEAN
    <3>1. stateErr \in BOOLEAN
      BY DEF IndInv, TypeOK
    <3>2. stateErr' = stateErr \/ stateErr' = TRUE
      BY <1>a
    <3>3. QED
      BY <3>1, <3>2
  <2>3. QED
    BY <1>a, <1>c, <1>s, <2>1, <2>2 DEF IndInv, TypeOK, PeerMaps, QuotaMaps
<1>2. OwnerRecorded'
  BY <1>a, <1>c, <1>s DEF OwnerRecorded, LoadAccepts
<1>3. DurableMirror'
  BY <1>a, <1>g DEF DurableMirror
<1>4. AuthorizedActive'
  BY <1>a, <1>f DEF IndInv, AuthorizedActive, HoldsCurrentSecret
<1>5. DeviceTracked'
  BY <1>a, <1>b, <1>f DEF IndInv, DeviceTracked
<1>6. PhaseInv' /\ RollbackInv' /\ RegisterInv'
  BY <1>a, <1>b DEF PhaseInv, RollbackInv, RegisterInv
<1>7. SnapshotInv'
  BY <1>a, <1>f DEF IndInv, SnapshotInv
<1>8. IssueInv'
  BY <1>a, <1>d, <1>s DEF IndInv, IssueInv
<1>9. QED
  BY <1>1, <1>2, <1>3, <1>4, <1>5, <1>6, <1>7, <1>8 DEF IndInv

(* The failed registration cannot be taken back: the peer is tracked. *)
LEMMA RegisterCleanupFailsInv ==
    ASSUME IndInv, RegisterCleanupFails
    PROVE  IndInv'
<1>a. /\ reg # Nil /\ reg' = Nil
      /\ runtime' = RegisteredRuntime
      /\ UNCHANGED <<pc, config, clock, peers, quotas, issueWindow, issueCounts,
                     stateErr, snap, device, disk, revoked, handed>>
  BY DEF RegisterCleanupFails
<1>b. reg.peer \in Peers /\ pc = "serving" /\ ~stateErr
  BY <1>a, RegistrationType
<1>1. TypeOK'
  BY <1>a, RegisteredRuntimeType DEF IndInv, TypeOK
<1>2. OwnerRecorded'
  BY <1>a DEF IndInv, OwnerRecorded, OwnersPresent, LoadAccepts
<1>3. DurableMirror'
  BY <1>a DEF IndInv, DurableMirror, diskState
<1>4. AuthorizedActive'
  BY <1>a DEF IndInv, AuthorizedActive, HoldsCurrentSecret
<1>5. DeviceTracked'
  BY <1>a, <1>b, RegisteredRuntimeType DEF IndInv, DeviceTracked
<1>6. PhaseInv' /\ RollbackInv' /\ RegisterInv'
  BY <1>a, <1>b DEF PhaseInv, RollbackInv, RegisterInv
<1>7. SnapshotInv'
  BY <1>a DEF IndInv, SnapshotInv
<1>8. IssueInv'
  BY <1>a DEF IndInv, IssueInv
<1>9. QED
  BY <1>1, <1>2, <1>3, <1>4, <1>5, <1>6, <1>7, <1>8 DEF IndInv

(* The count a new key leaves in the window: at most the limit, and one    *)
(* more than has been handed out.                                          *)
LEMMA IssuedInv ==
    ASSUME IndInv, NEW ip \in IPs, IssueAccepts(ip)
    PROVE  LET w == WindowAt(issueWindow, clock)
               before == CountsAt(issueWindow, issueCounts, clock)
           IN  /\ w \in Nat
               /\ before \in [IPs -> Nat]
               /\ IssuedCounts(ip) \in [IPs -> Nat]
               /\ HandedUnder(w) \in [IPs -> Nat]
               /\ \A i \in IPs : /\ HandedUnder(w)[i] <= before[i]
                                 /\ before[i] <= IssuedCounts(ip)[i]
                                 /\ IssuedCounts(ip)[i] <= IssueLimit
               /\ IssuedCounts(ip)[ip] = before[ip] + 1
               /\ IssuedState(ip) \in DiskStates
               /\ IssuedState(ip) # Nil
               /\ LoadAccepts(IssuedState(ip))
               /\ IssuedState(ip).issueWindow = w
               /\ IssuedState(ip).issueCounts = IssuedCounts(ip)
               /\ disk # Nil /\ disk.issueWindow = issueWindow
               /\ disk.issueCounts = issueCounts
<1> DEFINE w == WindowAt(issueWindow, clock)
           before == CountsAt(issueWindow, issueCounts, clock)
<1>0. pc = "serving" /\ reg = Nil /\ ~stateErr /\ before[ip] < IssueLimit
  BY DEF IssueAccepts
<1>1. /\ issueWindow \in Times /\ issueCounts \in [IPs -> Nat] /\ clock \in Nat
      /\ peers \in PeerMaps /\ quotas \in QuotaMaps
  BY DEF IndInv, TypeOK, PeerMaps, QuotaMaps
<1>2. /\ disk # Nil /\ disk.issueWindow = issueWindow
      /\ disk.issueCounts = issueCounts
  BY <1>0 DEF IndInv, IssueInv
<1>3. w \in Nat /\ before \in [IPs -> Nat] /\ HandedUnder(w) \in [IPs -> Nat]
  BY <1>1, WindowType, HandedType
<1>4. \A i \in IPs : HandedUnder(w)[i] <= before[i] /\ before[i] <= IssueLimit
  <2>1. CASE w = issueWindow
    <3>1. before = issueCounts /\ HandedUnder(w) = handed
      BY <1>1, <1>2, <2>1, WindowType DEF HandedUnder
    <3>2. QED
      BY <1>2, <3>1 DEF IndInv, IssueInv
  <2>2. CASE w # issueWindow
    <3>1. before = noCounts /\ HandedUnder(w) = noCounts
      BY <1>1, <1>2, <2>2, WindowType DEF HandedUnder
    <3>2. QED
      BY <3>1, LimitsAssumption DEF noCounts
  <2>3. QED
    BY <2>1, <2>2
<1>5. IssuedCounts(ip) = [before EXCEPT ![ip] = before[ip] + 1]
  BY DEF IssuedCounts
<1>6. IssuedState(ip) = diskState(peers, quotas, w, IssuedCounts(ip))
  BY DEF IssuedState
<1> HIDE DEF w, before
<1>7. /\ IssuedCounts(ip) \in [IPs -> Nat]
      /\ IssuedCounts(ip)[ip] = before[ip] + 1
      /\ \A i \in IPs : /\ before[i] <= IssuedCounts(ip)[i]
                        /\ IssuedCounts(ip)[i] <= IssueLimit
  BY <1>0, <1>3, <1>4, <1>5, LimitsAssumption
<1>8. OwnersPresent(peers, quotas)
  BY DEF IndInv, OwnerRecorded
<1>9. /\ IssuedState(ip) \in DiskStates /\ IssuedState(ip) # Nil
      /\ LoadAccepts(IssuedState(ip))
  BY <1>1, <1>3, <1>6, <1>7, <1>8, DiskStateType
<1>10. /\ IssuedState(ip).issueWindow = w
       /\ IssuedState(ip).issueCounts = IssuedCounts(ip)
  BY <1>6 DEF diskState
<1>11. QED
  BY <1>2, <1>3, <1>4, <1>7, <1>9, <1>10 DEF w, before

(* The parts of the invariant that issuing a key does not touch. *)
LEMMA IssueFrameInv ==
    ASSUME IndInv, pc = "serving", reg = Nil,
           UNCHANGED <<pc, config, clock, peers, quotas, runtime, reg, snap,
                       device, revoked>>,
           disk' # Nil => LoadAccepts(disk')
    PROVE  /\ OwnerRecorded' /\ AuthorizedActive' /\ DeviceTracked'
           /\ PhaseInv' /\ RollbackInv' /\ RegisterInv' /\ SnapshotInv'
<1>1. OwnerRecorded'
  BY DEF IndInv, OwnerRecorded, OwnersPresent, LoadAccepts
<1>2. AuthorizedActive'
  BY DEF IndInv, AuthorizedActive, HoldsCurrentSecret
<1>3. DeviceTracked' /\ SnapshotInv'
  BY DEF IndInv, DeviceTracked, SnapshotInv
<1>4. PhaseInv' /\ RollbackInv' /\ RegisterInv'
  BY DEF PhaseInv, RollbackInv, RegisterInv
<1>5. QED
  BY <1>1, <1>2, <1>3, <1>4

(* A key is handed out with its count saved. *)
LEMMA IssueAuthKeyInv ==
    ASSUME IndInv, NEW ip \in IPs, IssueAuthKey(ip)
    PROVE  IndInv'
<1> DEFINE w == WindowAt(issueWindow, clock)
<1>a. /\ IssueAccepts(ip)
      /\ issueWindow' = w
      /\ issueCounts' = IssuedCounts(ip)
      /\ disk' = IssuedState(ip)
      /\ handed' = [HandedUnder(w) EXCEPT ![ip] = HandedUnder(w)[ip] + 1]
      /\ UNCHANGED <<pc, config, clock, peers, quotas, runtime, stateErr, reg,
                     snap, device, revoked>>
  BY DEF IssueAuthKey
<1>0. pc = "serving" /\ reg = Nil /\ ~stateErr
  BY <1>a DEF IssueAccepts
<1>b. /\ w \in Nat /\ IssuedCounts(ip) \in [IPs -> Nat]
      /\ HandedUnder(w) \in [IPs -> Nat]
      /\ \A i \in IPs : /\ HandedUnder(w)[i] <= IssuedCounts(ip)[i]
                        /\ IssuedCounts(ip)[i] <= IssueLimit
      /\ HandedUnder(w)[ip] + 1 <= IssuedCounts(ip)[ip]
      /\ IssuedState(ip) \in DiskStates /\ IssuedState(ip) # Nil
      /\ LoadAccepts(IssuedState(ip))
      /\ IssuedState(ip).issueWindow = w
      /\ IssuedState(ip).issueCounts = IssuedCounts(ip)
  BY <1>a, IssuedInv, LimitsAssumption
<1>c. IssuedState(ip) = diskState(peers, quotas, w, IssuedCounts(ip))
  BY DEF IssuedState
<1> HIDE DEF w
<1>d. /\ handed' \in [IPs -> Nat]
      /\ \A i \in IPs : handed'[i] <= IssuedCounts(ip)[i]
  BY <1>a, <1>b
<1>1. TypeOK'
  BY <1>a, <1>b, <1>d DEF IndInv, TypeOK, Times
<1>2. /\ OwnerRecorded' /\ AuthorizedActive' /\ DeviceTracked'
      /\ PhaseInv' /\ RollbackInv' /\ RegisterInv' /\ SnapshotInv'
  BY <1>0, <1>a, <1>b, IssueFrameInv
<1>3. DurableMirror'
  BY <1>a, <1>c DEF DurableMirror
<1>4. IssueInv'
  BY <1>a, <1>b, <1>d DEF IssueInv
<1>5. QED
  BY <1>1, <1>2, <1>3, <1>4 DEF IndInv

(* The count cannot be saved, so no key is handed out. *)
LEMMA IssueAuthKeySaveFailsInv ==
    ASSUME IndInv, NEW ip \in IPs, IssueAuthKeySaveFails(ip)
    PROVE  IndInv'
<1> DEFINE w == WindowAt(issueWindow, clock)
<1>a. /\ IssueAccepts(ip)
      /\ disk' \in {disk, IssuedState(ip)}
      /\ issueWindow' = w
      /\ issueCounts' = CountsAt(issueWindow, issueCounts, clock)
      /\ stateErr' = TRUE
      /\ handed' = IF disk' = disk THEN handed ELSE HandedUnder(w)
      /\ UNCHANGED <<pc, config, clock, peers, quotas, runtime, reg, snap, device,
                     revoked>>
  BY DEF IssueAuthKeySaveFails, SaveFails
<1>0. pc = "serving" /\ reg = Nil /\ ~stateErr
  BY <1>a DEF IssueAccepts
<1>b. /\ w \in Nat /\ CountsAt(issueWindow, issueCounts, clock) \in [IPs -> Nat]
      /\ HandedUnder(w) \in [IPs -> Nat]
      /\ IssuedCounts(ip) \in [IPs -> Nat]
      /\ \A i \in IPs : /\ HandedUnder(w)[i] <= IssuedCounts(ip)[i]
                        /\ IssuedCounts(ip)[i] <= IssueLimit
      /\ IssuedState(ip) \in DiskStates /\ IssuedState(ip) # Nil
      /\ LoadAccepts(IssuedState(ip))
      /\ IssuedState(ip).issueCounts = IssuedCounts(ip)
      /\ disk # Nil
  BY <1>a, IssuedInv, LimitsAssumption
<1> HIDE DEF w
<1>c. disk \in DiskStates /\ LoadAccepts(disk) /\ handed \in [IPs -> Nat]
          /\ \A i \in IPs : /\ handed[i] <= disk.issueCounts[i]
                            /\ disk.issueCounts[i] <= IssueLimit
  BY <1>b DEF IndInv, TypeOK, OwnerRecorded, IssueInv
<1>d. /\ disk' \in DiskStates /\ disk' # Nil /\ LoadAccepts(disk')
      /\ handed' \in [IPs -> Nat]
      /\ \A i \in IPs : /\ handed'[i] <= disk'.issueCounts[i]
                        /\ disk'.issueCounts[i] <= IssueLimit
  BY <1>a, <1>b, <1>c
<1>1. TypeOK'
  BY <1>a, <1>b, <1>d DEF IndInv, TypeOK, Times
<1>2. /\ OwnerRecorded' /\ AuthorizedActive' /\ DeviceTracked'
      /\ PhaseInv' /\ RollbackInv' /\ RegisterInv' /\ SnapshotInv'
  BY <1>0, <1>a, <1>d, IssueFrameInv
<1>3. DurableMirror'
  BY <1>a DEF DurableMirror
<1>4. IssueInv'
  BY <1>a, <1>d DEF IssueInv
<1>5. QED
  BY <1>1, <1>2, <1>3, <1>4 DEF IndInv

(* Every request keeps the invariant. *)
LEMMA RequestsInv ==
    ASSUME IndInv, Requests
    PROVE  IndInv'
<1>1. ASSUME NEW p \in Peers, NEW c, NEW key, NEW rev, RegisterPeer(p, c, key, rev)
      PROVE  IndInv'
  BY <1>1, RegisterPeerInv
<1>2. ASSUME NEW p \in Peers, NEW c, NEW key, NEW rev,
             RegisterPeerSaveFails(p, c, key, rev)
      PROVE  IndInv'
  BY <1>2, RegisterPeerSaveFailsInv
<1>3. CASE RegisterAddPeer
  BY <1>3, RegisterAddPeerInv
<1>4. CASE RegisterAddPeerFails
  BY <1>4, RegisterAddPeerFailsInv
<1>5. CASE RegisterCleanup
  BY <1>5, RegisterCleanupInv
<1>6. CASE RegisterCleanupFails
  BY <1>6, RegisterCleanupFailsInv
<1>7. ASSUME NEW ip \in IPs, IssueAuthKey(ip) PROVE IndInv'
  BY <1>7, IssueAuthKeyInv
<1>8. ASSUME NEW ip \in IPs, IssueAuthKeySaveFails(ip) PROVE IndInv'
  BY <1>8, IssueAuthKeySaveFailsInv
<1>9. QED
  BY <1>1, <1>2, <1>3, <1>4, <1>5, <1>6, <1>7, <1>8 DEF Requests

-----------------------------------------------------------------------------
(* The environment. *)

(* Traffic and handshakes change peers of the device, never which peers it *)
(* has.                                                                    *)
LEMMA TrafficInv ==
    ASSUME IndInv,
           UNCHANGED <<pc, config, clock, memory, reg, snap, disk, revoked, handed>>,
           device' \in [Peers -> DevicePeers \cup {Nil}],
           \A p \in Peers : device[p] = Nil <=> device'[p] = Nil
    PROVE  IndInv'
<1> USE DEF memory
<1>1. TypeOK'
  BY DEF IndInv, TypeOK
<1>2. OwnerRecorded'
  BY DEF IndInv, OwnerRecorded, OwnersPresent, LoadAccepts
<1>3. DurableMirror'
  BY DEF IndInv, DurableMirror, diskState
<1>4. AuthorizedActive'
  BY DEF IndInv, AuthorizedActive, HoldsCurrentSecret
<1>5. DeviceTracked' /\ SnapshotInv'
  BY DEF IndInv, DeviceTracked, SnapshotInv
<1>6. PhaseInv'
  <2>1. device = noPeers => device' = noPeers
    BY DEF noPeers, IndInv, TypeOK
  <2>2. QED
    BY <2>1 DEF IndInv, PhaseInv
<1>7. RollbackInv'
  <2>1. RolledBackPeers' = RolledBackPeers /\ RolledBackQuotas' = RolledBackQuotas
    BY DEF RolledBackPeers, RolledBackQuotas
  <2>2. QED
    BY <2>1 DEF IndInv, RollbackInv, OwnersPresent
<1>8. RegisterInv'
  BY DEF IndInv, RegisterInv, HoldsCurrentSecret
<1>9. IssueInv'
  BY DEF IndInv, IssueInv
<1>10. QED
  BY <1>1, <1>2, <1>3, <1>4, <1>5, <1>6, <1>7, <1>8, <1>9 DEF IndInv

(* Time passes, but not while a registration would outlast its bound. *)
LEMMA TickInv ==
    ASSUME IndInv, Tick
    PROVE  IndInv'
<1> USE DEF Tick, memory
<1>1. TypeOK'
  BY DEF IndInv, TypeOK
<1>2. OwnerRecorded'
  BY DEF IndInv, OwnerRecorded, OwnersPresent, LoadAccepts
<1>3. DurableMirror'
  BY DEF IndInv, DurableMirror, diskState
<1>4. AuthorizedActive'
  BY DEF IndInv, AuthorizedActive, HoldsCurrentSecret
<1>5. DeviceTracked' /\ PhaseInv'
  BY DEF IndInv, DeviceTracked, PhaseInv
<1>6. SnapshotInv'
  <2>1. snap # Nil => snap.now \in Nat /\ clock \in Nat
    BY DEF IndInv, TypeOK, Snapshots
  <2>2. QED
    BY <2>1 DEF IndInv, SnapshotInv
<1>7. RollbackInv'
  <2>1. RolledBackPeers' = RolledBackPeers /\ RolledBackQuotas' = RolledBackQuotas
    BY DEF RolledBackPeers, RolledBackQuotas
  <2>2. QED
    BY <2>1 DEF IndInv, RollbackInv, OwnersPresent
<1>8. RegisterInv'
  <2>1. reg # Nil => reg.now \in Nat /\ clock \in Nat
    BY RegistrationType DEF IndInv, TypeOK
  <2>2. QED
    BY <2>1, HandlerAssumption DEF IndInv, RegisterInv, HoldsCurrentSecret
<1>9. IssueInv'
  BY DEF IndInv, IssueInv
<1>10. QED
  BY <1>1, <1>2, <1>3, <1>4, <1>5, <1>6, <1>7, <1>8, <1>9 DEF IndInv

(* Nothing but the revocation file changes, or nothing at all. *)
LEMMA UnchangedInv ==
    ASSUME IndInv, revoked' \in SUBSET KeyIDs,
           UNCHANGED <<pc, config, clock, memory, reg, snap, device, disk, handed>>
    PROVE  IndInv'
<1> USE DEF memory
<1>1. TypeOK'
  BY DEF IndInv, TypeOK
<1>2. OwnerRecorded'
  BY DEF IndInv, OwnerRecorded, OwnersPresent, LoadAccepts
<1>3. DurableMirror'
  BY DEF IndInv, DurableMirror, diskState
<1>4. AuthorizedActive'
  BY DEF IndInv, AuthorizedActive, HoldsCurrentSecret
<1>5. DeviceTracked' /\ PhaseInv' /\ SnapshotInv'
  BY DEF IndInv, DeviceTracked, PhaseInv, SnapshotInv
<1>6. RollbackInv'
  <2>1. RolledBackPeers' = RolledBackPeers /\ RolledBackQuotas' = RolledBackQuotas
    BY DEF RolledBackPeers, RolledBackQuotas
  <2>2. QED
    BY <2>1 DEF IndInv, RollbackInv, OwnersPresent
<1>7. RegisterInv'
  BY DEF IndInv, RegisterInv, HoldsCurrentSecret
<1>8. IssueInv'
  BY DEF IndInv, IssueInv
<1>9. QED
  BY <1>1, <1>2, <1>3, <1>4, <1>5, <1>6, <1>7, <1>8 DEF IndInv

(* Every step of the environment keeps the invariant. *)
LEMMA EnvironmentInv ==
    ASSUME IndInv, Environment
    PROVE  IndInv'
<1>t. device \in [Peers -> DevicePeers \cup {Nil}] /\ clock \in Nat
  BY DEF IndInv, TypeOK
<1>1. CASE Crash
  BY <1>1, ExitUnsavedInv DEF Crash
<1>2. CASE Tick
  BY <1>2, TickInv
<1>3. ASSUME NEW p \in Peers, NEW d \in DevicePeers, device[p] # Nil,
             device' = [device EXCEPT ![p] = d],
             UNCHANGED <<pc, config, clock, memory, reg, snap, disk, revoked, handed>>
      PROVE  IndInv'
  <2>1. device' \in [Peers -> DevicePeers \cup {Nil}]
    BY <1>t, <1>3
  <2>2. \A q \in Peers : device[q] = Nil <=> device'[q] = Nil
    BY <1>t, <1>3, NilStateAssumption
  <2>3. QED
    BY <1>3, <2>1, <2>2, TrafficInv
<1>4. ASSUME NEW p \in Peers, Handshake(p) PROVE IndInv'
  <2>1. [device[p] EXCEPT !.handshake = clock] \in DevicePeers
    BY <1>4, <1>t DEF Handshake, DevicePeers
  <2>2. QED
    BY <1>3, <1>4, <2>1 DEF Handshake
<1>5. ASSUME NEW p \in Peers, Receive(p) PROVE IndInv'
  <2>1. [device[p] EXCEPT !.rx = device[p].rx + 1] \in DevicePeers
    BY <1>5, <1>t DEF Receive, DevicePeers
  <2>2. device' = [device EXCEPT ![p] = [device[p] EXCEPT !.rx = device[p].rx + 1]]
    BY <1>5 DEF Receive
  <2>3. QED
    BY <1>3, <1>5, <2>1, <2>2 DEF Receive
<1>6. ASSUME NEW p \in Peers, Transmit(p) PROVE IndInv'
  <2>1. [device[p] EXCEPT !.tx = device[p].tx + 1] \in DevicePeers
    BY <1>6, <1>t DEF Transmit, DevicePeers
  <2>2. device' = [device EXCEPT ![p] = [device[p] EXCEPT !.tx = device[p].tx + 1]]
    BY <1>6 DEF Transmit
  <2>3. QED
    BY <1>3, <1>6, <2>1, <2>2 DEF Transmit
<1>7. ASSUME NEW ids \in SUBSET KeyIDs, EditRevocations(ids) PROVE IndInv'
  BY <1>7, UnchangedInv DEF EditRevocations
<1>8. QED
  BY <1>1, <1>2, <1>4, <1>5, <1>6, <1>7 DEF Environment

-----------------------------------------------------------------------------
(* The theorems. *)

(* Every step of the server and its environment keeps the invariant. *)
LEMMA NextInv ==
    ASSUME IndInv, [Next]_vars
    PROVE  IndInv'
<1>1. ASSUME NEW cfg \in Configs, Load(cfg) PROVE IndInv'
  BY <1>1, LoadInv
<1>2. ASSUME NEW cfg \in Configs, LoadSaveFails(cfg) PROVE IndInv'
  BY <1>2, LoadSaveFailsInv
<1>3. ASSUME NEW rev, NEW failed, NEW partial, RestorePeers(rev, failed, partial)
      PROVE  IndInv'
  BY <1>3, RestorePeersInv
<1>4. ASSUME NEW rev, NEW failed, RestorePeersFails(rev, failed) PROVE IndInv'
  BY <1>4, RestorePeersFailsInv
<1>5. CASE Startup
  BY <1>1, <1>2, <1>3, <1>4, <1>5 DEF Startup
<1>6. CASE RunLoop
  BY <1>6, RunLoopInv
<1>7. CASE Requests
  BY <1>7, RequestsInv
<1>8. CASE Environment
  BY <1>8, EnvironmentInv
<1>9. CASE UNCHANGED vars
  BY <1>9, UnchangedInv DEF vars, IndInv, TypeOK
<1>10. QED
  BY <1>5, <1>6, <1>7, <1>8, <1>9 DEF Next

(* The inductive invariant holds in every state of the access controller,  *)
(* for any number of peers, keys, secrets, addresses and configurations.   *)
THEOREM Invariance == Spec => []IndInv
<1>1. Init => IndInv
  BY InitInv
<1>2. IndInv /\ [Next]_vars => IndInv'
  BY NextInv
<1>3. QED
  BY <1>1, <1>2, PTL DEF Spec

(* Type correctness; in particular the usage of an owner, to which         *)
(* reconcile adds whatever the device reports, stays an int64.             *)
THEOREM TypeCorrect == Spec => []TypeOK
<1>1. IndInv => TypeOK
  BY DEF IndInv
<1>2. QED
  BY <1>1, Invariance, PTL

(* load never refuses a file the server left behind, and reconcile never   *)
(* finds a peer without its quota: OwnerRecorded always holds.             *)
THEOREM OwnersAlwaysRecorded == Spec => []OwnerRecorded
<1>1. IndInv => OwnerRecorded
  BY DEF IndInv
<1>2. QED
  BY <1>1, Invariance, PTL

(* A server that has not failed closed has saved all that it knows.        *)
THEOREM MemoryAlwaysSaved == Spec => []DurableMirror
<1>1. IndInv => DurableMirror
  BY DEF IndInv
<1>2. QED
  BY <1>1, Invariance, PTL

(* Every active peer was authorized with the secret of this process.       *)
THEOREM OnlyAuthorizedActive == Spec => []AuthorizedActive
<1>1. IndInv => AuthorizedActive
  BY DEF IndInv
<1>2. QED
  BY <1>1, Invariance, PTL

(* Every active peer is counted and its traffic has a baseline.            *)
THEOREM DeviceAlwaysTracked == Spec => []DeviceTracked
<1>1. IndInv => DeviceTracked
  BY DEF IndInv
<1>2. QED
  BY <1>1, Invariance, PTL

(* No address is handed more than IssueLimit keys in a window, and every   *)
(* key handed out is counted in the file.                                  *)
THEOREM IssueLimitKept == Spec => []IssueLimitDurable
<1>1. IndInv => IssueLimitDurable
  <2> SUFFICES ASSUME IndInv, NEW ip \in IPs
               PROVE  /\ disk # Nil => handed[ip] <= disk.issueCounts[ip]
                      /\ handed[ip] <= IssueLimit
    BY DEF IssueLimitDurable
  <2>1. CASE disk = Nil
    BY <2>1, LimitsAssumption DEF IndInv, IssueInv, noCounts
  <2>2. CASE disk # Nil
    BY <2>2, LimitsAssumption DEF IndInv, IssueInv, TypeOK, DiskStates
  <2>3. QED
    BY <2>1, <2>2
<1>2. QED
  BY <1>1, Invariance, PTL

-----------------------------------------------------------------------------
(* What a step may never do. *)

(* Where the process ends it does not touch the file. *)
LEMMA ExitClosed ==
    ASSUME IndInv, Exit, UNCHANGED <<disk, handed>>
    PROVE  ClosedAfterFailure
BY DEF Exit, ClosedAfterFailure, noPeers

(* A step after a failed save admits, saves and hands out nothing. *)
LEMMA NextClosed ==
    ASSUME IndInv, Next
    PROVE  ClosedAfterFailure
<1> SUFFICES ASSUME stateErr
             PROVE  ClosedAfterFailure
  BY DEF ClosedAfterFailure
<1>0. pc = "serving" /\ reg = Nil
  BY DEF IndInv, PhaseInv
<1>1. ~Startup
  BY <1>0 DEF Startup, Load, LoadSaveFails, RestorePeers, RestorePeersFails
<1>2. CASE RunLoop
  <2>1. ASSUME NEW rev, Snapshot(rev) PROVE ClosedAfterFailure
    BY <2>1 DEF Snapshot, memory, ClosedAfterFailure
  <2>2. CASE SnapshotFails \/ ReconcileFails \/ RunFailure
    BY <2>2, ExitClosed DEF SnapshotFails, ReconcileFails, RunFailure
  <2>3. ASSUME NEW kept PROVE ~Reconcile(kept) /\ ~ReconcileSaveFails
    BY DEF Reconcile, ReconcileSaveFails, ReconcileError
  <2>4. QED
    BY <1>2, <2>1, <2>2, <2>3 DEF RunLoop
<1>3. ~Requests
  BY <1>0 DEF Requests, RegisterPeer, RegisterPeerSaveFails, RegisterAccepts,
              RegisterAddPeer, RegisterAddPeerFails, RegisterCleanup,
              RegisterCleanupFails, IssueAuthKey, IssueAuthKeySaveFails, IssueAccepts
<1>4. CASE Environment
  <2>1. CASE Crash
    BY <2>1, ExitClosed DEF Crash
  <2>2. CASE Tick \/ \E ids \in SUBSET KeyIDs : EditRevocations(ids)
    BY <2>2 DEF Tick, EditRevocations, ClosedAfterFailure
  <2>3. ASSUME NEW p \in Peers, Handshake(p) \/ Receive(p) \/ Transmit(p)
        PROVE  ClosedAfterFailure
    <3>1. /\ device \in [Peers -> DevicePeers \cup {Nil}] /\ device[p] # Nil
          /\ UNCHANGED <<disk, handed>>
      BY <2>3 DEF IndInv, TypeOK, Handshake, Receive, Transmit
    <3>2. \A q \in Peers \ {p} : device'[q] = device[q]
      BY <2>3, <3>1 DEF Handshake, Receive, Transmit
    <3>3. QED
      BY <3>1, <3>2 DEF ClosedAfterFailure
  <2>4. QED
    BY <1>4, <2>1, <2>2, <2>3 DEF Environment
<1>5. QED
  BY <1>1, <1>2, <1>3, <1>4 DEF Next

(* persistLocked fails closed: after a failed save nothing is admitted,    *)
(* saved or handed out until the process has ended.                        *)
THEOREM FailsClosed == Spec => FailClosed
<1>1. IndInv /\ [Next]_vars => [ClosedAfterFailure]_vars
  BY NextClosed
<1>2. QED
  BY <1>1, Invariance, PTL DEF Spec, FailClosed

(* The issue window, in memory and in the file, never lies in the future.  *)
WindowStarted ==
    /\ issueWindow <= clock
    /\ disk # Nil => disk.issueWindow <= clock

(* A window that is brought up to date moves by a day or not at all. *)
LEMMA WindowMoves ==
    ASSUME NEW w \in Nat, NEW now \in Nat, w <= now
    PROVE  /\ WindowAt(w, now) <= now
           /\ WindowAt(w, now) # w => WindowAt(w, now) >= w + DayLength
BY DurationsAssumption DEF WindowAt, WindowExpired, ZeroTime

(* No step sets the window ahead of the clock, nor moves it within a day. *)
LEMMA NextWindow ==
    ASSUME IndInv, WindowStarted, [Next]_vars
    PROVE  WindowStarted' /\ WindowKept
<1>t. /\ clock \in Nat /\ issueWindow \in Times
      /\ disk # Nil => disk.issueWindow \in Nat
  BY DEF IndInv, TypeOK, DiskStates
<1>s. pc # "down" /\ ~stateErr =>
          disk # Nil /\ disk.issueWindow = issueWindow /\ issueWindow \in Nat
  BY <1>t DEF IndInv, IssueInv
<1>n. WindowAt(ZeroTime, clock) = clock
  BY DEF WindowAt, WindowExpired
<1>l. /\ LoadedWindow <= clock
      /\ disk # Nil /\ LoadedWindow # disk.issueWindow =>
             LoadedWindow >= disk.issueWindow + DayLength
      /\ LoadedState.issueWindow = LoadedWindow
  BY <1>t, <1>n, WindowMoves DEF LoadedWindow, LoadedState, diskState, WindowStarted
<1> DEFINE same == \/ UNCHANGED disk
                   \/ /\ disk # Nil
                      /\ disk'.issueWindow = disk.issueWindow
<1>1. ASSUME same, clock' \in Nat, clock <= clock',
             issueWindow' = issueWindow \/ issueWindow' = ZeroTime
      PROVE  WindowStarted' /\ WindowKept
  BY <1>t, <1>1 DEF WindowStarted, WindowKept, Times, ZeroTime
<1>2. ASSUME NEW cfg \in Configs, Load(cfg) PROVE WindowStarted' /\ WindowKept
  BY <1>2, <1>l DEF Load, WindowStarted, WindowKept
<1>3. ASSUME NEW cfg \in Configs, LoadSaveFails(cfg)
      PROVE  WindowStarted' /\ WindowKept
  BY <1>3, <1>l DEF LoadSaveFails, memory, WindowStarted, WindowKept
<1>4. ASSUME NEW rev, NEW failed, NEW partial, RestorePeers(rev, failed, partial)
      PROVE  WindowStarted' /\ WindowKept
  <2>1. pc = "restore" /\ ~stateErr
    BY <1>4 DEF RestorePeers, IndInv, PhaseInv
  <2>2. same /\ UNCHANGED <<clock, issueWindow>>
    BY <1>4, <1>s, <2>1 DEF RestorePeers, diskState
  <2>3. QED
    BY <1>1, <1>t, <2>2
<1>5. ASSUME NEW rev, NEW failed, RestorePeersFails(rev, failed)
      PROVE  WindowStarted' /\ WindowKept
  <2>1. pc = "restore" /\ ~stateErr
    BY <1>5 DEF RestorePeersFails, IndInv, PhaseInv
  <2>2. same /\ UNCHANGED clock /\ issueWindow' = ZeroTime
    BY <1>5, <1>s, <2>1 DEF RestorePeersFails, SaveFails, Exit, diskState
  <2>3. QED
    BY <1>1, <1>t, <2>2
<1>6. CASE RunLoop
  <2>1. ASSUME NEW rev, Snapshot(rev) PROVE WindowStarted' /\ WindowKept
    BY <1>1, <1>t, <2>1 DEF Snapshot, memory
  <2>2. CASE SnapshotFails \/ ReconcileFails \/ RunFailure
    BY <1>1, <1>t, <2>2 DEF SnapshotFails, ReconcileFails, RunFailure, Exit
  <2>3. snap # Nil => pc # "down"
    BY DEF IndInv, PhaseInv
  <2>4. ASSUME NEW kept, Reconcile(kept) PROVE WindowStarted' /\ WindowKept
    BY <1>1, <1>s, <1>t, <2>3, <2>4
       DEF Reconcile, ReconcileError, ReconciledState, diskState
  <2>5. CASE ReconcileSaveFails
    BY <1>1, <1>s, <1>t, <2>3, <2>5
       DEF ReconcileSaveFails, ReconcileError, SaveFails, Exit, ReconciledState,
           diskState
  <2>6. QED
    BY <1>6, <2>1, <2>2, <2>4, <2>5 DEF RunLoop
<1>7. ASSUME NEW p \in Peers, NEW c, NEW key, NEW rev, RegisterPeer(p, c, key, rev)
      PROVE  WindowStarted' /\ WindowKept
  BY <1>1, <1>s, <1>t, <1>7 DEF RegisterPeer, RegisterAccepts, diskState
<1>8. ASSUME NEW p \in Peers, NEW c, NEW key, NEW rev,
             RegisterPeerSaveFails(p, c, key, rev)
      PROVE  WindowStarted' /\ WindowKept
  BY <1>1, <1>s, <1>t, <1>8
     DEF RegisterPeerSaveFails, RegisterAccepts, SaveFails, diskState
<1>9. CASE RegisterAddPeer \/ RegisterAddPeerFails \/ RegisterCleanupFails
  BY <1>1, <1>t, <1>9
     DEF RegisterAddPeer, RegisterAddPeerFails, RegisterCleanupFails, memory
<1>10. CASE RegisterCleanup
  <2>1. pc = "serving" /\ ~stateErr
    BY <1>10, RegistrationType DEF RegisterCleanup
  <2>2. QED
    BY <1>1, <1>s, <1>t, <1>10, <2>1
       DEF RegisterCleanup, SaveFails, RolledBackState, diskState
<1>11. ASSUME NEW ip \in IPs, IssueAuthKey(ip) \/ IssueAuthKeySaveFails(ip)
       PROVE  WindowStarted' /\ WindowKept
  <2>1. /\ issueWindow \in Nat /\ disk.issueWindow = issueWindow
        /\ disk # Nil /\ issueWindow <= clock /\ UNCHANGED clock
    BY <1>11, <1>s
       DEF IssueAuthKey, IssueAuthKeySaveFails, IssueAccepts, WindowStarted
  <2>2. /\ issueWindow' = WindowAt(issueWindow, clock)
        /\ \/ disk' = disk
           \/ disk'.issueWindow = WindowAt(issueWindow, clock)
    BY <1>11
       DEF IssueAuthKey, IssueAuthKeySaveFails, SaveFails, IssuedState, diskState
  <2>3. QED
    BY <1>t, <2>1, <2>2, WindowMoves DEF WindowStarted, WindowKept
<1>12. CASE Environment
  <2>1. same /\ clock' \in {clock, clock + 1}
            /\ (issueWindow' = issueWindow \/ issueWindow' = ZeroTime)
    BY <1>12 DEF Environment, Crash, Exit, Tick, Handshake, Receive, Transmit,
                 EditRevocations, memory
  <2>2. QED
    BY <1>1, <1>t, <2>1
<1>13. CASE UNCHANGED vars
  BY <1>1, <1>t, <1>13 DEF vars, memory
<1>14. QED
  BY <1>2, <1>3, <1>4, <1>5, <1>6, <1>7, <1>8, <1>9, <1>10, <1>11, <1>12, <1>13
     DEF Next, Startup, Requests

(* Restarts, failed saves and crashes never open a new issue window: the   *)
(* durable window moves only after a whole day.                            *)
THEOREM IssueWindowNeverEarly == Spec => IssueWindowFixed
<1>1. Init => WindowStarted
  BY BoundsAssumption DEF Init, newAccessController, WindowStarted, ZeroTime
<1>2. IndInv /\ WindowStarted /\ [Next]_vars => WindowStarted' /\ [WindowKept]_vars
  BY NextWindow
<1>3. QED
  BY <1>1, <1>2, Invariance, PTL DEF Spec, IssueWindowFixed

-----------------------------------------------------------------------------
(* AccessController implements RateLimiter. *)

(* A step that brings the window up to date and hands out nothing opens a  *)
(* window or changes nothing.                                              *)
LEMMA BroughtUpToDate ==
    ASSUME IndInv, WindowStarted, NEW old, old \in Times,
           old = IF disk = Nil THEN ZeroTime ELSE disk.issueWindow,
           disk' # Nil, disk'.issueWindow = WindowAt(old, clock),
           handed' = HandedUnder(WindowAt(old, clock)), UNCHANGED clock
    PROVE  [Limiter!Next]_(Limiter!vars)
<1>1. clock \in Nat /\ (disk # Nil => disk.issueWindow \in Nat)
  BY DEF IndInv, TypeOK, DiskStates
<1>2. DurableWindow' = WindowAt(old, clock)
  BY DEF DurableWindow
<1>3. CASE disk # Nil /\ WindowAt(old, clock) = old
  <2>1. DurableWindow' = DurableWindow /\ handed' = handed
    BY <1>2, <1>3 DEF DurableWindow, HandedUnder
  <2> QED BY <2>1 DEF Limiter!vars
<1>4. CASE disk = Nil \/ WindowAt(old, clock) # old
  <2>1. WindowAt(old, clock) = clock
    BY <1>4 DEF WindowAt, WindowExpired
  <2>2. disk # Nil => clock - disk.issueWindow >= DayLength
    BY <1>1, <1>4 DEF WindowAt, WindowExpired, WindowStarted, ZeroTime
  <2>3. Limiter!WindowOver
    BY <2>2 DEF Limiter!WindowOver, DurableWindow
  <2>4. handed' = Limiter!none
    BY <1>4 DEF HandedUnder, Limiter!none, noCounts
  <2>5. Limiter!OpenWindow
    BY <1>2, <2>1, <2>3, <2>4 DEF Limiter!OpenWindow
  <2> QED BY <2>5 DEF Limiter!Next
<1> QED BY <1>3, <1>4

(* A key that is handed out is a key of the limiter. *)
LEMMA KeyGiven ==
    ASSUME IndInv, WindowStarted, NEW ip \in IPs, IssueAuthKey(ip)
    PROVE  Limiter!Next
<1> DEFINE w == WindowAt(issueWindow, clock)
           before == CountsAt(issueWindow, issueCounts, clock)
<1>1. /\ IssueAccepts(ip) /\ disk' = IssuedState(ip) /\ UNCHANGED clock
      /\ handed' = [HandedUnder(w) EXCEPT ![ip] = HandedUnder(w)[ip] + 1]
  BY DEF IssueAuthKey
<1>2. /\ HandedUnder(w) \in [IPs -> Nat] /\ HandedUnder(w)[ip] <= before[ip]
      /\ before \in [IPs -> Nat]
      /\ disk # Nil /\ disk.issueWindow = issueWindow
      /\ disk' # Nil /\ disk'.issueWindow = w
  BY <1>1, IssuedInv
<1>3. before[ip] < IssueLimit
  BY <1>1 DEF IssueAccepts
<1>4. clock \in Nat /\ issueWindow \in Nat /\ issueWindow <= clock /\ handed \in [IPs -> Nat]
  BY <1>2 DEF IndInv, TypeOK, DiskStates, WindowStarted
<1>5. DurableWindow = issueWindow /\ DurableWindow' = w
  BY <1>2 DEF DurableWindow
<1>6. DurableWindow # ZeroTime
  BY <1>4, <1>5 DEF ZeroTime
<1>7. HandedUnder(w)[ip] < IssueLimit
  BY <1>2, <1>3, LimitsAssumption
<1>8. CASE w = issueWindow
  <2>1. HandedUnder(w) = handed
    BY <1>2, <1>8 DEF HandedUnder
  <2>2. Limiter!GiveKey(ip)
    BY <1>1, <1>5, <1>6, <1>7, <1>8, <2>1 DEF Limiter!GiveKey
  <2> QED BY <2>2 DEF Limiter!Next
<1>9. CASE w # issueWindow
  <2>1. w = clock /\ clock - issueWindow >= DayLength
    BY <1>4, <1>9 DEF WindowAt, WindowExpired, ZeroTime
  <2>2. HandedUnder(w) = Limiter!none
    BY <1>2, <1>9 DEF HandedUnder, noCounts, Limiter!none
  <2>3. Limiter!none[ip] = 0
    BY DEF Limiter!none
  <2>4. Limiter!WindowOver
    BY <1>5, <2>1 DEF Limiter!WindowOver
  <2>5. Limiter!GiveFirstKey(ip)
    BY <1>1, <1>5, <1>7, <2>1, <2>2, <2>3, <2>4 DEF Limiter!GiveFirstKey
  <2> QED BY <2>5 DEF Limiter!Next
<1> QED BY <1>8, <1>9

(* Every step hands out keys as the limiter does. *)
LEMMA NextLimiter ==
    ASSUME IndInv, WindowStarted, [Next]_vars
    PROVE  [Limiter!Next]_(Limiter!vars)
<1>t. /\ clock \in Nat /\ issueWindow \in Times
      /\ disk # Nil => disk.issueWindow \in Times
  BY DEF IndInv, TypeOK, DiskStates, Times
<1>s. pc # "down" /\ ~stateErr =>
          /\ disk # Nil /\ disk.issueWindow = issueWindow
          /\ issueWindow \in Nat /\ issueCounts \in [IPs -> Nat]
  BY DEF IndInv, IssueInv, TypeOK, DiskStates
<1> DEFINE same == \/ UNCHANGED disk
                   \/ /\ disk # Nil /\ disk' # Nil
                      /\ disk'.issueWindow = disk.issueWindow
           ok == [Limiter!Next]_(Limiter!vars)
<1>m. ASSUME NEW ps \in PeerMaps, NEW qs \in QuotaMaps, pc # "down", ~stateErr
      PROVE  /\ diskState(ps, qs, issueWindow, issueCounts) # Nil
             /\ diskState(ps, qs, issueWindow, issueCounts).issueWindow = issueWindow
             /\ disk # Nil /\ disk.issueWindow = issueWindow
  BY <1>s, <1>m, DiskStateType DEF diskState
<1>1. ASSUME same, UNCHANGED <<clock, handed>> PROVE ok
  <2>1. DurableWindow' = DurableWindow
    BY <1>1 DEF DurableWindow
  <2> QED BY <1>1, <2>1 DEF Limiter!vars
<1>2. ASSUME NEW cfg \in Configs, Load(cfg) \/ LoadSaveFails(cfg) PROVE ok
  <2>1. /\ disk' = LoadedState /\ UNCHANGED clock
        /\ handed' = HandedUnder(LoadedWindow)
    BY <1>2 DEF Load, LoadSaveFails
  <2>2. disk' # Nil /\ disk'.issueWindow = LoadedWindow
    <3>1. disk # Nil => LoadAccepts(disk)
      BY DEF IndInv, OwnerRecorded
    <3>2. LoadedState # Nil
      BY <3>1, LoadedStateInv
    <3>3. LoadedState.issueWindow = LoadedWindow
      BY DEF LoadedState, diskState
    <3> QED BY <2>1, <3>2, <3>3
  <2>3. PICK old \in Times : old = IF disk = Nil THEN ZeroTime ELSE disk.issueWindow
    BY <1>t DEF Times
  <2>4. LoadedWindow = WindowAt(old, clock)
    BY <2>3 DEF LoadedWindow
  <2> QED BY <2>1, <2>2, <2>3, <2>4, BroughtUpToDate
<1>4. ASSUME NEW rev, NEW failed, NEW partial, RestorePeers(rev, failed, partial)
      PROVE  ok
  <2>1. pc = "restore" /\ ~stateErr
    BY <1>4 DEF RestorePeers, IndInv, PhaseInv
  <2>2. same /\ UNCHANGED <<clock, handed>>
    BY <1>4, <1>m, <2>1, RestoredStateInv DEF RestorePeers
  <2> QED BY <1>1, <2>2
<1>5. ASSUME NEW rev, NEW failed, RestorePeersFails(rev, failed) PROVE ok
  <2>1. pc = "restore" /\ ~stateErr
    BY <1>5 DEF RestorePeersFails, IndInv, PhaseInv
  <2>2. same /\ UNCHANGED <<clock, handed>>
    BY <1>5, <1>m, <2>1, RestoredStateInv DEF RestorePeersFails, SaveFails
  <2> QED BY <1>1, <2>2
<1>6. CASE RunLoop
  <2>1. ASSUME NEW rev, Snapshot(rev) PROVE ok
    BY <1>1, <2>1 DEF Snapshot
  <2>2. CASE SnapshotFails \/ ReconcileFails \/ RunFailure
    BY <1>1, <2>2 DEF SnapshotFails, ReconcileFails, RunFailure
  <2>3. snap # Nil => pc # "down"
    BY DEF IndInv, PhaseInv
  <2>4. ASSUME NEW kept, Reconcile(kept) PROVE ok
    BY <1>1, <1>m, <2>3, <2>4, ReconciledStateInv
       DEF Reconcile, ReconcileError, ReconciledState
  <2>5. CASE ReconcileSaveFails
    BY <1>1, <1>m, <2>3, <2>5, ReconciledStateInv
       DEF ReconcileSaveFails, ReconcileError, SaveFails, ReconciledState
  <2> QED BY <1>6, <2>1, <2>2, <2>4, <2>5 DEF RunLoop
<1>7. ASSUME NEW p \in Peers, NEW c, NEW key, NEW rev, RegisterPeer(p, c, key, rev)
      PROVE  ok
  BY <1>1, <1>m, <1>7, RegisteredStateInv DEF RegisterPeer, RegisterAccepts
<1>8. ASSUME NEW p \in Peers, NEW c, NEW key, NEW rev,
             RegisterPeerSaveFails(p, c, key, rev)
      PROVE  ok
  BY <1>1, <1>m, <1>8, RegisteredStateInv
     DEF RegisterPeerSaveFails, RegisterAccepts, SaveFails
<1>9. CASE RegisterAddPeer \/ RegisterAddPeerFails \/ RegisterCleanupFails
  BY <1>1, <1>9 DEF RegisterAddPeer, RegisterAddPeerFails, RegisterCleanupFails
<1>10. CASE RegisterCleanup
  <2>1. pc = "serving" /\ ~stateErr
    BY <1>10, RegistrationType DEF RegisterCleanup
  <2>2. RolledBackPeers \in PeerMaps /\ RolledBackQuotas \in QuotaMaps
    BY <1>10, RegistrationType
       DEF RegisterCleanup, IndInv, TypeOK, RolledBackPeers, RolledBackQuotas,
           PeerMaps, QuotaMaps
  <2> QED BY <1>1, <1>m, <1>10, <2>1, <2>2
             DEF RegisterCleanup, SaveFails, RolledBackState
<1>11. ASSUME NEW ip \in IPs, IssueAuthKey(ip) PROVE ok
  BY <1>11, KeyGiven
<1>12. ASSUME NEW ip \in IPs, IssueAuthKeySaveFails(ip) PROVE ok
  <2>1. /\ IssueAccepts(ip) /\ disk' \in {disk, IssuedState(ip)} /\ UNCHANGED clock
        /\ handed' = IF disk' = disk THEN handed
                     ELSE HandedUnder(WindowAt(issueWindow, clock))
    BY <1>12 DEF IssueAuthKeySaveFails, SaveFails
  <2>2. CASE disk' = disk
    BY <1>1, <2>1, <2>2
  <2>3. CASE disk' # disk
    <3>1. /\ disk' # Nil /\ disk'.issueWindow = WindowAt(issueWindow, clock)
          /\ disk # Nil /\ disk.issueWindow = issueWindow
      BY <2>1, <2>3, IssuedInv
    <3> QED BY <1>t, <2>1, <2>3, <3>1, BroughtUpToDate
  <2> QED BY <2>2, <2>3
<1>13. CASE Tick
  <2>1. clock' > clock /\ UNCHANGED <<disk, handed>>
    BY <1>13, <1>t DEF Tick
  <2>2. Limiter!TimePasses
    BY <2>1 DEF Limiter!TimePasses, DurableWindow
  <2> QED BY <2>2 DEF Limiter!Next
<1>14. CASE Environment
  <2>1. Tick \/ UNCHANGED <<disk, clock, handed>>
    BY <1>14 DEF Environment, Crash, Handshake, Receive, Transmit, EditRevocations
  <2> QED BY <1>1, <1>13, <2>1
<1>15. CASE UNCHANGED vars
  BY <1>1, <1>15 DEF vars
<1> QED
  BY <1>2, <1>4, <1>5, <1>6, <1>7, <1>8, <1>9, <1>10, <1>11, <1>12, <1>14, <1>15
     DEF Next, Startup, Requests

(* The server implements the rate limiter: restarts, crashes, failed saves *)
(* and rotated secrets neither open a window nor give a client one key     *)
(* more.                                                                   *)
THEOREM ImplementsLimiter == Spec => KeysAtLimitedRate
<1>1. Init => WindowStarted
  BY BoundsAssumption DEF Init, newAccessController, WindowStarted, ZeroTime
<1>2. Init => Limiter!Init
  BY BoundsAssumption
     DEF Init, Limiter!Init, Limiter!none, noCounts, DurableWindow
<1>3. IndInv /\ WindowStarted /\ [Next]_vars => WindowStarted'
  BY NextWindow
<1>4. IndInv /\ WindowStarted /\ [Next]_vars => [Limiter!Next]_(Limiter!vars)
  BY NextLimiter
<1> QED
  BY <1>1, <1>2, <1>3, <1>4, Invariance, PTL DEF Spec, KeysAtLimitedRate, Limiter!Spec

=============================================================================
