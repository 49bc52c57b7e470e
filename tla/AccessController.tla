--------------------------- MODULE AccessController ---------------------------
(***************************************************************************)
(* The access controller of the tunwg server (tunwg/access_controller.go)  *)
(* together with what it talks to: the WireGuard device of the process     *)
(* (internal/wireguard.go), the durable state file, the revocation file,   *)
(* the /add and /issue handlers that call it and the run loop.             *)
(*                                                                         *)
(* The mutex c.mu makes every handler one step, except where another actor *)
(* can act in between: reconcile reads the device, the clock and the       *)
(* revocation file before it takes the mutex (Snapshot, then Reconcile),   *)
(* and registerPeer holds the mutex over its calls to the device, which    *)
(* Snapshot does not wait for (RegisterPeer, RegisterAddPeer,              *)
(* RegisterCleanup).  A save of the state file is atomic here; AccessStore *)
(* models it file operation by file operation.                             *)
(*                                                                         *)
(* A request that is refused changes nothing and is a stuttering step.     *)
(* The failures channel is not a variable of its own: persistLocked fills  *)
(* it exactly when it sets stateErr, and reading it ends the process.      *)
(***************************************************************************)
EXTENDS AccessRules, FiniteSetsExt

CONSTANTS
    Configs,             \* the configurations the server is started with
    StartTime, MaxTime,  \* the bounds of the clock
    MaxRx, MaxTx,        \* the bounds of a peer's byte counters
    MaxHandlerTime,      \* the longest a registration holds the mutex
    SaveMayFail,         \* may a write of the state file fail?
    DeviceMayFail,       \* may a call of the WireGuard device fail?
    RevocationsMayFail   \* may a read of the revocation file fail?

VARIABLES
    pc,           \* "down", "restore", "reconcile" (startup) or "serving"
    config,       \* environment of the running process
    clock,        \* wall clock
    peers,        \* accessController.peers
    quotas,       \* accessController.quotas
    runtime,      \* accessController.runtime
    issueWindow,  \* accessController.issueWindow
    issueCounts,  \* accessController.issueCounts
    stateErr,     \* accessController.stateErr # nil
    reg,          \* a registerPeer call that holds the mutex, or Nil
    snap,         \* what reconcile read before it took the mutex, or Nil
    device,       \* peers of the WireGuard device
    disk,         \* access_state.json, Nil before the first save
    revoked,      \* ids in the revocation file
    handed        \* history: keys handed out since disk.issueWindow

memory == <<peers, quotas, runtime, issueWindow, issueCounts, stateErr>>
vars == <<pc, config, clock, memory, reg, snap, device, disk, revoked, handed>>

ASSUME BoundsAssumption ==
    /\ StartTime \in Nat /\ MaxTime \in Nat
    /\ MaxRx \in Nat /\ MaxTx \in Nat
    /\ Configs \subseteq Configurations
    /\ {SaveMayFail, DeviceMayFail, RevocationsMayFail} \subseteq BOOLEAN

(* The server's maps of peers are finite. *)
ASSUME PeersAssumption == IsFiniteSet(Peers)

(* A registration makes one save and at most two device calls; it does not *)
(* hold the mutex for the two days after which records are pruned.         *)
ASSUME HandlerAssumption ==
    MaxHandlerTime \in Nat /\ MaxHandlerTime < PeerStateRetention

(* The server is not started within half an hour of 1970. *)
ASSUME ClockAssumption == StartTime >= UnixEpoch + StalePeerMaxIdle

-----------------------------------------------------------------------------
(* State and initial state. *)

DevicePeers == [rx : Nat, tx : Nat, handshake : Nat]
DevicePeerInfos == [rx : Nat, tx : Nat, lastHandshakeTime : Times]

DiskStates ==
    [peers : [Peers -> PeerStates \cup {Nil}],
     quotas : [QuotaOwners -> QuotaStates \cup {Nil}],
     issueWindow : Nat,
     issueCounts : [IPs -> Nat]]

Registrations ==
    [peer : Peers, owner : QuotaOwners,
     old : PeerStates \cup {Nil}, oldQuota : QuotaStates \cup {Nil},
     now : Nat, phase : {"add", "cleanup"}]

Snapshots ==
    [device : [Peers -> DevicePeerInfos \cup {Nil}],
     now : Nat,
     revoked : {Nil} \cup (SUBSET KeyIDs)]

ASSUME NilStateAssumption ==
    /\ Nil \notin DevicePeers
    /\ Nil \notin DevicePeerInfos
    /\ Nil \notin DiskStates
    /\ Nil \notin Registrations
    /\ Nil \notin Snapshots

TypeOK ==
    /\ pc \in {"down", "restore", "reconcile", "serving"}
    /\ config \in Configs
    /\ clock \in Nat
    /\ peers \in [Peers -> PeerStates \cup {Nil}]
    /\ quotas \in [QuotaOwners -> QuotaStates \cup {Nil}]
    /\ runtime \in [Peers -> PeerRuntimes \cup {Nil}]
    /\ issueWindow \in Times
    /\ issueCounts \in [IPs -> Nat]
    /\ stateErr \in BOOLEAN
    /\ reg \in Registrations \cup {Nil}
    /\ snap \in Snapshots \cup {Nil}
    /\ device \in [Peers -> DevicePeers \cup {Nil}]
    /\ disk \in DiskStates \cup {Nil}
    /\ revoked \in SUBSET KeyIDs
    /\ handed \in [IPs -> Nat]

noPeers == [p \in Peers |-> Nil]
noQuotas == [o \in QuotaOwners |-> Nil]
noCounts == [ip \in IPs |-> 0]

(* newAccessController: the memory of a process that has loaded nothing. *)
newAccessController ==
    /\ peers = noPeers
    /\ quotas = noQuotas
    /\ runtime = noPeers
    /\ issueWindow = ZeroTime
    /\ issueCounts = noCounts
    /\ stateErr = FALSE

Init ==
    /\ pc = "down"
    /\ config \in Configs
    /\ clock = StartTime
    /\ newAccessController
    /\ reg = Nil
    /\ snap = Nil
    /\ device = noPeers
    /\ disk = Nil
    /\ revoked = {}
    /\ handed = noCounts

-----------------------------------------------------------------------------
(* Persistence. *)

diskState(ps, qs, window, counts) ==
    [peers |-> ps, quotas |-> qs,
     issueWindow |-> window, issueCounts |-> counts]

(* A failed save leaves the old file or, when the error comes after the    *)
(* rename (directory sync, marker), the new one.  persistLocked refuses a  *)
(* save once stateErr is set; no caller gets there then, since each checks *)
(* or clears stateErr first and keeps the mutex until the save.            *)
SaveFails(state) == SaveMayFail /\ disk' \in {disk, state}

(* The history variable restarts with every durable window. *)
HandedUnder(window) ==
    IF disk # Nil /\ disk.issueWindow = window THEN handed ELSE noCounts

(* The process ends: memory and the user-space WireGuard device are gone. *)
Exit ==
    /\ pc' = "down"
    /\ peers' = noPeers
    /\ quotas' = noQuotas
    /\ runtime' = noPeers
    /\ issueWindow' = ZeroTime
    /\ issueCounts' = noCounts
    /\ stateErr' = FALSE
    /\ reg' = Nil
    /\ snap' = Nil
    /\ device' = noPeers

-----------------------------------------------------------------------------
(* Issue window: it starts over after a day, or when the clock is behind. *)

WindowExpired(window, now) ==
    window = ZeroTime \/ now - window >= DayLength \/ now < window

(* Mutant: a window starts with its calendar day. *)
WindowAtMidnight(window, now) ==
    IF WindowExpired(window, now) THEN DateOf(now) * DayLength ELSE window
WindowAt(window, now) == IF WindowExpired(window, now) THEN now ELSE window
CountsAt(window, counts, now) ==
    IF WindowExpired(window, now) THEN noCounts ELSE counts

-----------------------------------------------------------------------------
(* Startup: load, restorePeers, and then a first reconcile. *)

(* Every peer has the quota record of its owner. *)
OwnersPresent(ps, qs) ==
    \A p \in Peers : ps[p] # Nil => qs[OwnerOf(p, ps[p])] # Nil

(* What load requires of the file beyond its types. *)
LoadAccepts(state) == OwnersPresent(state.peers, state.quotas)

LoadedPeers == IF disk = Nil THEN noPeers ELSE disk.peers
(* Mutant: a restart starts every owner's usage afresh. *)
LoadedQuotasReset ==
    [o \in QuotaOwners |->
        IF disk = Nil \/ disk.quotas[o] = Nil THEN Nil ELSE newQuotaState(clock)]
LoadedQuotas ==
    [o \in QuotaOwners |->
        IF disk = Nil \/ disk.quotas[o] = Nil THEN Nil
        ELSE normalizeQuotaState(disk.quotas[o], clock)]
(* Mutant: a restart opens a new issue window. *)
LoadedWindowReset == clock
LoadedWindow == WindowAt(IF disk = Nil THEN ZeroTime ELSE disk.issueWindow, clock)
LoadedCounts ==
    IF disk = Nil THEN noCounts
    ELSE CountsAt(disk.issueWindow, disk.issueCounts, clock)
LoadedState == diskState(LoadedPeers, LoadedQuotas, LoadedWindow, LoadedCounts)

(* The server is started with configuration cfg and loads its state.  A    *)
(* file that load does not accept keeps the server down.                   *)
Load(cfg) ==
    /\ pc = "down"
    /\ disk # Nil => LoadAccepts(disk)
    /\ pc' = "restore"
    /\ config' = cfg
    /\ peers' = LoadedPeers
    /\ quotas' = LoadedQuotas
    /\ issueWindow' = LoadedWindow
    /\ issueCounts' = LoadedCounts
    /\ disk' = LoadedState
    /\ handed' = HandedUnder(LoadedWindow)
    /\ UNCHANGED <<clock, runtime, stateErr, reg, snap, device, revoked>>

(* The same start, ended by a save that fails after the rename. *)
LoadSaveFails(cfg) ==
    /\ SaveMayFail
    /\ pc = "down"
    /\ disk # Nil => LoadAccepts(disk)
    /\ config' = cfg
    /\ disk' = LoadedState
    /\ handed' = HandedUnder(LoadedWindow)
    /\ UNCHANGED <<pc, clock, memory, reg, snap, device, revoked>>

(* What a read of the revocation file yields: it is read in secret mode    *)
(* only, and yields Nil when it fails.                                     *)
RevocationReads(cfg) ==
    IF ~SecretMode(cfg) THEN {{}}
    ELSE {revoked} \cup (IF RevocationsMayFail THEN {Nil} ELSE {})

(* AddPeer creates the peer or updates it, keeping its counters. *)
AddedPeer(p) ==
    IF device[p] # Nil THEN device[p] ELSE [rx |-> 0, tx |-> 0, handshake |-> 0]

(* A failed AddPeer may have applied part of the change. *)
FailedAdds(p) == {device[p], AddedPeer(p)}

HasEndpoint(p) == peers[p] # Nil /\ peers[p].endpointSeenAt # ZeroTime
RecentEndpoint(p) ==
    /\ HasEndpoint(p)
    /\ clock - peers[p].endpointSeenAt < RestoreEndpointMaxAge
    /\ clock >= peers[p].endpointSeenAt

RestoreOwner(p) == OwnerOf(p, peers[p])
RestoredQuotas ==
    [o \in QuotaOwners |->
        IF \E p \in Peers : RecentEndpoint(p) /\ RestoreOwner(p) = o
        THEN blockIfOverLimit(normalizeQuotaState(quotas[o], clock),
                              clock, config.quotaBytes)
        ELSE quotas[o]]
NewlyBlocked ==
    {o \in QuotaOwners :
        \E p \in Peers :
            /\ RecentEndpoint(p)
            /\ RestoreOwner(p) = o
            /\ OverLimit(normalizeQuotaState(quotas[o], clock), config.quotaBytes)
            /\ ~Blocked(normalizeQuotaState(quotas[o], clock), clock)}

(* Mutant: blocks are not looked at. *)
RestoreConsideredBlocked(p) == RecentEndpoint(p)

(* A blocked peer is passed over and keeps its endpoint. *)
RestoreConsidered(p) ==
    RecentEndpoint(p) /\ ~Blocked(RestoredQuotas[RestoreOwner(p)], clock)

(* So is every peer when the revocation file cannot be read (rev = Nil). *)
RestoreCandidates(rev) ==
    {p \in Peers :
        /\ RestoreConsidered(p)
        /\ recordMatchesCurrentMode(config, peers[p])
        /\ rev # Nil
        /\ peers[p].keyID \notin rev}

RestoreDropped(rev, failed) ==
    {p \in Peers :
        \/ HasEndpoint(p) /\ ~RecentEndpoint(p)
        \/ RestoreConsidered(p) /\ ~recordMatchesCurrentMode(config, peers[p])
        \/ RestoreConsidered(p) /\ rev # Nil /\ peers[p].keyID \in rev
        \/ p \in failed}

DropEndpoints(ps, dropped) ==
    [p \in Peers |->
        IF p \in dropped THEN [ps[p] EXCEPT !.endpointSeenAt = ZeroTime] ELSE ps[p]]

(* load has refused a file in which a peer has no quota, so every owner    *)
(* read here has one.                                                      *)
(* rev is what the revocation file yielded, failed the candidates whose    *)
(* AddPeer failed, partial the failed ones that the device holds anyway.   *)
RestorePeers(rev, failed, partial) ==
    LET added == RestoreCandidates(rev) \ failed
        dropped == RestoreDropped(rev, failed)
        restored == DropEndpoints(peers, dropped)
    IN  /\ pc = "restore"
        /\ rev \in RevocationReads(config)
        /\ failed \subseteq RestoreCandidates(rev)
        /\ failed # {} => DeviceMayFail
        /\ partial \subseteq failed
        /\ pc' = "reconcile"
        /\ peers' = restored
        /\ quotas' = RestoredQuotas
        /\ runtime' = [p \in Peers |->
                          IF p \in added
                          THEN [lastRx |-> 0, lastTx |-> 0, addedAt |-> clock]
                          ELSE runtime[p]]
        /\ device' = [p \in Peers |->
                         IF p \in added \cup partial THEN AddedPeer(p) ELSE device[p]]
        /\ disk' = IF dropped # {} \/ NewlyBlocked # {}
                   THEN diskState(restored, RestoredQuotas, issueWindow, issueCounts)
                   ELSE disk
        /\ UNCHANGED <<config, clock, issueWindow, issueCounts, stateErr, reg,
                       snap, revoked, handed>>

(* restorePeers ends in a save that fails, which is fatal. *)
RestorePeersFails(rev, failed) ==
    LET dropped == RestoreDropped(rev, failed)
    IN  /\ pc = "restore"
        /\ rev \in RevocationReads(config)
        /\ failed \subseteq RestoreCandidates(rev)
        /\ failed # {} => DeviceMayFail
        /\ dropped # {} \/ NewlyBlocked # {}
        /\ SaveFails(diskState(DropEndpoints(peers, dropped), RestoredQuotas,
                               issueWindow, issueCounts))
        /\ Exit
        /\ UNCHANGED <<config, clock, revoked, handed>>

-----------------------------------------------------------------------------
(* Reconciliation. *)

(* GetWgDeviceInfo turns the raw handshake seconds into time.Unix(sec, 0): *)
(* a peer that never completed a handshake (0) gets the Unix epoch, which  *)
(* is not the Go zero time.                                                *)
GetWgDeviceInfo(d) ==
    [rx |-> d.rx, tx |-> d.tx, lastHandshakeTime |-> UnixEpoch + d.handshake]

(* The reads of reconcile before it takes the mutex. *)
Snapshot(rev) ==
    /\ pc \in {"reconcile", "serving"}
    /\ snap = Nil
    /\ rev \in RevocationReads(config)
    /\ snap' = [device |-> [p \in Peers |->
                                IF device[p] = Nil THEN Nil
                                ELSE GetWgDeviceInfo(device[p])],
                now |-> clock,
                revoked |-> rev]
    /\ UNCHANGED <<pc, config, clock, memory, reg, device, disk, revoked, handed>>

SnapshotFails ==
    /\ DeviceMayFail
    /\ pc \in {"reconcile", "serving"}
    /\ snap = Nil
    /\ Exit
    /\ UNCHANGED <<config, clock, disk, revoked, handed>>

(* Peers in the snapshot, and those of them that have a record: an open    *)
(* server adopts a peer it does not know, the others remove it.            *)
Active == {p \in Peers : snap.device[p] # Nil}
Known == {p \in Active : peers[p] # Nil \/ OpenMode(config)}

SeenRecord(p) ==
    IF peers[p] # Nil THEN peers[p]
    ELSE [keyID |-> OpenID, authGeneration |-> NoSecret,
          lastSeen |-> snap.now, endpointSeenAt |-> ZeroTime]
SeenOwner(p) == OwnerOf(p, SeenRecord(p))

SeenRuntime(p) ==
    [lastRx |-> snap.device[p].rx, lastTx |-> snap.device[p].tx,
     addedAt |-> IF runtime[p] = Nil THEN snap.now ELSE runtime[p].addedAt]

(* A counter that went backwards was reset and counts from zero. *)
CounterDelta(counter, last) == IF counter < last THEN counter ELSE counter - last

PeerDelta(p) ==
    LET last == IF runtime[p] = Nil THEN [lastRx |-> 0, lastTx |-> 0] ELSE runtime[p]
    IN  CounterDelta(snap.device[p].rx, last.lastRx)
            + CounterDelta(snap.device[p].tx, last.lastTx)

(* The loop adds the deltas of an owner's peers one after the other; no    *)
(* delta is negative, so the saturated sum is the same.                    *)
CountedBytes(o) == MapThenSumSet(PeerDelta, {p \in Known : SeenOwner(p) = o})

CountedQuota(o) ==
    LET quota == IF quotas[o] = Nil THEN newQuotaState(snap.now)
                 ELSE normalizeQuotaState(quotas[o], snap.now)
        counted == [quota EXCEPT !.usedBytes = addUsage(@, CountedBytes(o)),
                                 !.lastSeen = snap.now]
    IN  blockIfOverLimit(counted, snap.now, config.quotaBytes)

CountedQuotas ==
    [o \in QuotaOwners |->
        IF \E p \in Known : SeenOwner(p) = o THEN CountedQuota(o) ELSE quotas[o]]

(* Idle since the last handshake or, without one, since it was added. *)
IdleFor(p) ==
    snap.now - (IF snap.device[p].lastHandshakeTime = ZeroTime
                THEN SeenRuntime(p).addedAt
                ELSE snap.device[p].lastHandshakeTime)

SeenEndpoint(p) ==
    IF IdleFor(p) >= RestoreEndpointMaxAge THEN ZeroTime
    ELSE IF snap.device[p].lastHandshakeTime # ZeroTime
    THEN snap.device[p].lastHandshakeTime
    ELSE SeenRecord(p).endpointSeenAt

Stale(p) == IdleFor(p) >= StalePeerMaxIdle

(* Mutants: revocations and blocks are not looked at. *)
MustRemoveNotRevoked(p) ==
    \/ ~recordMatchesCurrentMode(config, SeenRecord(p))
    \/ SecretMode(config) /\ snap.revoked = Nil
    \/ Blocked(CountedQuotas[SeenOwner(p)], snap.now)
    \/ Stale(p)
MustRemoveNotBlocked(p) ==
    \/ ~recordMatchesCurrentMode(config, SeenRecord(p))
    \/ SecretMode(config) /\ snap.revoked = Nil
    \/ SecretMode(config) /\ SeenRecord(p).keyID \in snap.revoked
    \/ Stale(p)

MustRemove(p) ==
    \/ ~recordMatchesCurrentMode(config, SeenRecord(p))
    \/ SecretMode(config) /\ snap.revoked = Nil
    \/ SecretMode(config) /\ SeenRecord(p).keyID \in snap.revoked
    \/ Blocked(CountedQuotas[SeenOwner(p)], snap.now)
    \/ Stale(p)

Removals == (Active \ Known) \cup {p \in Known : MustRemove(p)}

(* Mutant: peers of the snapshot are pruned too. *)
PrunedActive(p) ==
    peers[p] # Nil /\ snap.now - peers[p].lastSeen >= PeerStateRetention

Pruned(p) ==
    /\ peers[p] # Nil
    /\ p \notin Active
    /\ snap.now - peers[p].lastSeen >= PeerStateRetention

ReconciledPeers ==
    [p \in Peers |->
        IF p \in Known
        THEN [SeenRecord(p) EXCEPT
                 !.lastSeen = snap.now,
                 !.endpointSeenAt = IF MustRemove(p) THEN ZeroTime ELSE SeenEndpoint(p)]
        ELSE IF Pruned(p) THEN Nil ELSE peers[p]]

Referenced(o) ==
    \E p \in Peers :
        ReconciledPeers[p] # Nil /\ OwnerOf(p, ReconciledPeers[p]) = o

PrunedQuota(o) ==
    /\ CountedQuotas[o] # Nil
    /\ ~Referenced(o)
    /\ snap.now - CountedQuotas[o].lastSeen >= PeerStateRetention
    /\ ~Blocked(CountedQuotas[o], snap.now)

ReconciledQuotas ==
    [o \in QuotaOwners |-> IF PrunedQuota(o) THEN Nil ELSE CountedQuotas[o]]

ReconciledState ==
    diskState(ReconciledPeers, ReconciledQuotas, issueWindow, issueCounts)

(* Mutant: reconcile goes on after a failed save. *)
ReconcileErrorIgnored ==
    \E p \in Known : SeenRecord(p).keyID # OpenID /\ quotas[SeenOwner(p)] = Nil

(* reconcile gives up when the state is unavailable, or when a peer with   *)
(* an auth key has no quota.                                               *)
ReconcileError ==
    \/ stateErr
    \/ \E p \in Known : SeenRecord(p).keyID # OpenID /\ quotas[SeenOwner(p)] = Nil

(* reconcile under the mutex: kept is the set of peers whose removal from  *)
(* the device failed; it is retried by the next reconcile.                 *)
Reconcile(kept) ==
    /\ snap # Nil
    /\ reg = Nil
    /\ ~ReconcileError
    /\ kept \subseteq Removals
    /\ kept # {} => DeviceMayFail
    /\ pc' = "serving"
    /\ peers' = ReconciledPeers
    /\ quotas' = ReconciledQuotas
    /\ disk' = ReconciledState
    /\ runtime' = [p \in Peers |->
                      IF p \in Removals \ kept \/ Pruned(p) THEN Nil
                      ELSE IF p \in Known THEN SeenRuntime(p) ELSE runtime[p]]
    /\ device' = [p \in Peers |-> IF p \in Removals \ kept THEN Nil ELSE device[p]]
    /\ snap' = Nil
    /\ UNCHANGED <<config, clock, issueWindow, issueCounts, stateErr, reg,
                   revoked, handed>>

(* An error of reconcile is fatal. *)
ReconcileFails ==
    /\ snap # Nil
    /\ reg = Nil
    /\ ReconcileError
    /\ Exit
    /\ UNCHANGED <<config, clock, disk, revoked, handed>>

(* The save of reconcile fails, which is fatal; no peer is removed. *)
ReconcileSaveFails ==
    /\ snap # Nil
    /\ reg = Nil
    /\ ~ReconcileError
    /\ SaveFails(ReconciledState)
    /\ Exit
    /\ UNCHANGED <<config, clock, revoked, handed>>

(* run: the loop receives the failure that a request's save reported. *)
RunFailure ==
    /\ pc = "serving"
    /\ snap = Nil
    /\ stateErr
    /\ Exit
    /\ UNCHANGED <<config, clock, disk, revoked, handed>>

-----------------------------------------------------------------------------
(* Registration: POST /add. *)

(* Peers that count against an issued key. *)
ActivePeers(p, owner) ==
    {q \in Peers \ {p} :
        runtime[q] # Nil /\ peers[q] # Nil /\ OwnerOf(q, peers[q]) = owner}

(* Mutant: every registration starts with an empty quota. *)
RequestQuotaFresh(owner) == newQuotaState(clock)

RequestQuota(owner) ==
    IF quotas[owner] = Nil THEN newQuotaState(clock)
    ELSE normalizeQuotaState(quotas[owner], clock)

(* Mutants: one peer too many, and a quota that is not looked at. *)
AdmissibleOneMore(p, c, owner) ==
    /\ ~Blocked(RequestQuota(owner), clock)
    /\ ~OverLimit(RequestQuota(owner), config.quotaBytes)
    /\ c.keyID \in KeyIDs =>
           Cardinality(ActivePeers(p, owner)) <= MaxActivePeersPerIssuedKey
AdmissibleAnyQuota(p, c, owner) ==
    c.keyID \in KeyIDs =>
        Cardinality(ActivePeers(p, owner)) < MaxActivePeersPerIssuedKey

Admissible(p, c, owner) ==
    /\ ~Blocked(RequestQuota(owner), clock)
    /\ ~OverLimit(RequestQuota(owner), config.quotaBytes)
    /\ c.keyID \in KeyIDs =>
           Cardinality(ActivePeers(p, owner)) < MaxActivePeersPerIssuedKey

RegisteredPeers(p, c) ==
    [peers EXCEPT ![p] =
        [keyID |-> c.keyID, authGeneration |-> c.authGeneration,
         lastSeen |-> clock,
         endpointSeenAt |-> IF peers[p] = Nil THEN ZeroTime
                            ELSE peers[p].endpointSeenAt]]

RegisteredQuotas(owner) ==
    [quotas EXCEPT ![owner] = [RequestQuota(owner) EXCEPT !.lastSeen = clock]]

(* The checks of registerPeer, up to its save. *)
RegisterAccepts(p, c, key, rev) ==
    /\ pc = "serving"
    /\ reg = Nil
    /\ ~stateErr
    /\ rev \in RevocationReads(config)
    /\ c \in authorize(config, key, rev)
    /\ credentialMatchesCurrentMode(config, c)
    /\ Admissible(p, c, OwnerOf(p, c))

(* The record and the quota are saved before the device is touched. *)
RegisterPeer(p, c, key, rev) ==
    LET owner == OwnerOf(p, c)
    IN  /\ RegisterAccepts(p, c, key, rev)
        /\ peers' = RegisteredPeers(p, c)
        /\ quotas' = RegisteredQuotas(owner)
        /\ disk' = diskState(RegisteredPeers(p, c), RegisteredQuotas(owner),
                             issueWindow, issueCounts)
        /\ reg' = [peer |-> p, owner |-> owner, old |-> peers[p],
                   oldQuota |-> quotas[owner], now |-> clock, phase |-> "add"]
        /\ UNCHANGED <<pc, config, clock, runtime, issueWindow, issueCounts,
                       stateErr, snap, device, revoked, handed>>

(* Mutant: the error of the save is logged and the registration goes on. *)
RegisterPeerSaveFailsGoesOn(p, c, key, rev) ==
    LET owner == OwnerOf(p, c)
    IN  /\ RegisterAccepts(p, c, key, rev)
        /\ peers' = RegisteredPeers(p, c)
        /\ quotas' = RegisteredQuotas(owner)
        /\ SaveFails(diskState(RegisteredPeers(p, c), RegisteredQuotas(owner),
                               issueWindow, issueCounts))
        /\ stateErr' = TRUE
        /\ reg' = [peer |-> p, owner |-> owner, old |-> peers[p],
                   oldQuota |-> quotas[owner], now |-> clock, phase |-> "add"]
        /\ UNCHANGED <<pc, config, clock, runtime, issueWindow, issueCounts,
                       snap, device, revoked, handed>>

(* The save fails: memory is rolled back and the controller fails closed. *)
RegisterPeerSaveFails(p, c, key, rev) ==
    /\ RegisterAccepts(p, c, key, rev)
    /\ SaveFails(diskState(RegisteredPeers(p, c), RegisteredQuotas(OwnerOf(p, c)),
                           issueWindow, issueCounts))
    /\ stateErr' = TRUE
    /\ UNCHANGED <<pc, config, clock, peers, quotas, runtime, issueWindow,
                   issueCounts, reg, snap, device, revoked, handed>>

(* Mutant: a registration starts the counter baseline afresh. *)
RegisteredRuntimeReset ==
    [runtime EXCEPT ![reg.peer] = [lastRx |-> 0, lastTx |-> 0, addedAt |-> reg.now]]
(* The runtime entry of the peer being registered: a peer that has one     *)
(* keeps its counter baseline.                                             *)
RegisteredRuntime ==
    [runtime EXCEPT ![reg.peer] =
        IF @ = Nil THEN [lastRx |-> 0, lastTx |-> 0, addedAt |-> reg.now]
        ELSE [@ EXCEPT !.addedAt = reg.now]]

RegisterAddPeer ==
    /\ reg # Nil
    /\ reg.phase = "add"
    /\ device' = [device EXCEPT ![reg.peer] = AddedPeer(reg.peer)]
    /\ runtime' = RegisteredRuntime
    /\ reg' = Nil
    /\ UNCHANGED <<pc, config, clock, peers, quotas, issueWindow, issueCounts,
                   stateErr, snap, disk, revoked, handed>>

RegisterAddPeerFails ==
    /\ DeviceMayFail
    /\ reg # Nil
    /\ reg.phase = "add"
    /\ \E d \in FailedAdds(reg.peer) : device' = [device EXCEPT ![reg.peer] = d]
    /\ reg' = [reg EXCEPT !.phase = "cleanup"]
    /\ UNCHANGED <<pc, config, clock, memory, snap, disk, revoked, handed>>

(* restoreRecordLocked and restoreQuotaLocked. *)
RolledBackPeers == [peers EXCEPT ![reg.peer] = reg.old]
(* Mutant: the quota record is deleted although there was one before. *)
RolledBackQuotasDeleted == [quotas EXCEPT ![reg.owner] = Nil]
RolledBackQuotas == [quotas EXCEPT ![reg.owner] = reg.oldQuota]
(* Mutant: the rollback is not saved. *)
RolledBackStateUnsaved == disk
RolledBackState ==
    diskState(RolledBackPeers, RolledBackQuotas, issueWindow, issueCounts)

(* The peer is removed again: the registration is rolled back and saved. *)
RegisterCleanup ==
    /\ reg # Nil
    /\ reg.phase = "cleanup"
    /\ device' = [device EXCEPT ![reg.peer] = Nil]
    /\ peers' = RolledBackPeers
    /\ quotas' = RolledBackQuotas
    /\ runtime' = [runtime EXCEPT ![reg.peer] = Nil]
    /\ \/ disk' = RolledBackState /\ stateErr' = stateErr
       \/ SaveFails(RolledBackState) /\ stateErr' = TRUE
    /\ reg' = Nil
    /\ UNCHANGED <<pc, config, clock, issueWindow, issueCounts, snap, revoked,
                   handed>>

(* Mutants: no runtime entry is made, and the record is rolled back. *)
RegisterCleanupFailsUntracked ==
    /\ DeviceMayFail
    /\ reg # Nil
    /\ reg.phase = "cleanup"
    /\ reg' = Nil
    /\ UNCHANGED <<pc, config, clock, memory, snap, device, disk, revoked, handed>>
RegisterCleanupFailsRolledBack ==
    /\ DeviceMayFail
    /\ reg # Nil
    /\ reg.phase = "cleanup"
    /\ peers' = RolledBackPeers
    /\ quotas' = RolledBackQuotas
    /\ disk' = RolledBackState
    /\ runtime' = RegisteredRuntime
    /\ reg' = Nil
    /\ UNCHANGED <<pc, config, clock, issueWindow, issueCounts, stateErr, snap,
                   device, revoked, handed>>

(* The removal fails too: the peer may be active, so its record is kept.   *)
(* RemovePeer is one request whose last line removes the peer, so one that *)
(* fails has removed nothing.                                              *)
RegisterCleanupFails ==
    /\ DeviceMayFail
    /\ reg # Nil
    /\ reg.phase = "cleanup"
    /\ runtime' = RegisteredRuntime
    /\ reg' = Nil
    /\ UNCHANGED <<pc, config, clock, peers, quotas, issueWindow, issueCounts,
                   stateErr, snap, device, disk, revoked, handed>>

-----------------------------------------------------------------------------
(* Issuing keys: POST /issue. *)

IssueAccepts(ip) ==
    /\ pc = "serving"
    /\ reg = Nil
    /\ ~stateErr
    /\ SecretMode(config)
    /\ CountsAt(issueWindow, issueCounts, clock)[ip] < IssueLimit

IssuedCounts(ip) == [CountsAt(issueWindow, issueCounts, clock) EXCEPT ![ip] = @ + 1]
(* Mutant: the count is not part of what is saved. *)
IssuedStateUncounted(ip) ==
    diskState(peers, quotas, WindowAt(issueWindow, clock),
              CountsAt(issueWindow, issueCounts, clock))
IssuedState(ip) ==
    diskState(peers, quotas, WindowAt(issueWindow, clock), IssuedCounts(ip))

(* A key leaves the server once its count is saved. *)
IssueAuthKey(ip) ==
    /\ IssueAccepts(ip)
    /\ issueWindow' = WindowAt(issueWindow, clock)
    /\ issueCounts' = IssuedCounts(ip)
    /\ disk' = IssuedState(ip)
    /\ handed' = [HandedUnder(WindowAt(issueWindow, clock)) EXCEPT ![ip] = @ + 1]
    /\ UNCHANGED <<pc, config, clock, peers, quotas, runtime, stateErr, reg,
                   snap, device, revoked>>

(* The save fails: the count is taken back, a new window stays. *)
IssueAuthKeySaveFails(ip) ==
    /\ IssueAccepts(ip)
    /\ SaveFails(IssuedState(ip))
    /\ issueWindow' = WindowAt(issueWindow, clock)
    /\ issueCounts' = CountsAt(issueWindow, issueCounts, clock)
    /\ stateErr' = TRUE
    /\ handed' = IF disk' = disk THEN handed
                 ELSE HandedUnder(WindowAt(issueWindow, clock))
    /\ UNCHANGED <<pc, config, clock, peers, quotas, runtime, reg, snap, device,
                   revoked>>

-----------------------------------------------------------------------------
(* The environment: crashes, time, peers and the operator. *)

Crash ==
    /\ pc # "down"
    /\ Exit
    /\ UNCHANGED <<config, clock, disk, revoked, handed>>

Tick ==
    /\ clock < MaxTime
    /\ reg # Nil => clock < reg.now + MaxHandlerTime
    /\ clock' = clock + 1
    /\ UNCHANGED <<pc, config, memory, reg, snap, device, disk, revoked, handed>>

Handshake(p) ==
    /\ device[p] # Nil
    /\ device' = [device EXCEPT ![p].handshake = clock]
    /\ UNCHANGED <<pc, config, clock, memory, reg, snap, disk, revoked, handed>>

Receive(p) ==
    /\ device[p] # Nil
    /\ device[p].rx < MaxRx
    /\ device' = [device EXCEPT ![p].rx = @ + 1]
    /\ UNCHANGED <<pc, config, clock, memory, reg, snap, disk, revoked, handed>>

Transmit(p) ==
    /\ device[p] # Nil
    /\ device[p].tx < MaxTx
    /\ device' = [device EXCEPT ![p].tx = @ + 1]
    /\ UNCHANGED <<pc, config, clock, memory, reg, snap, disk, revoked, handed>>

EditRevocations(ids) ==
    /\ revoked' = ids
    /\ UNCHANGED <<pc, config, clock, memory, reg, snap, device, disk, handed>>

-----------------------------------------------------------------------------
Startup ==
    \/ \E cfg \in Configs : Load(cfg)
    \/ \E cfg \in Configs : LoadSaveFails(cfg)
    \/ \E rev \in RevocationReads(config), failed \in SUBSET Peers :
           \/ \E partial \in SUBSET Peers : RestorePeers(rev, failed, partial)
           \/ RestorePeersFails(rev, failed)

RunLoop ==
    \/ \E rev \in RevocationReads(config) : Snapshot(rev)
    \/ SnapshotFails
    \/ \E kept \in SUBSET Peers : Reconcile(kept)
    \/ ReconcileFails
    \/ ReconcileSaveFails
    \/ RunFailure

Requests ==
    \/ \E p \in Peers, c \in Credentials, key \in ReqKeys,
          rev \in RevocationReads(config) :
           \/ RegisterPeer(p, c, key, rev)
           \/ RegisterPeerSaveFails(p, c, key, rev)
    \/ RegisterAddPeer
    \/ RegisterAddPeerFails
    \/ RegisterCleanup
    \/ RegisterCleanupFails
    \/ \E ip \in IPs : IssueAuthKey(ip) \/ IssueAuthKeySaveFails(ip)

Environment ==
    \/ Crash
    \/ Tick
    \/ \E p \in Peers : Handshake(p) \/ Receive(p) \/ Transmit(p)
    \/ \E ids \in SUBSET KeyIDs : EditRevocations(ids)

Next == Startup \/ RunLoop \/ Requests \/ Environment

Spec == Init /\ [][Next]_vars

-----------------------------------------------------------------------------
(* Safety. *)

(* Every peer record has the quota record of its owner, in memory and in   *)
(* every file the server leaves behind: neither reconcile nor the next     *)
(* load ever gives up on the server's own state, whatever registrations    *)
(* were rolled back, owners pruned, saves failed or crashes happened.      *)
OwnerRecorded ==
    /\ OwnersPresent(peers, quotas)
    /\ disk # Nil => LoadAccepts(disk)

(* While requests are served and no save has failed, the state file holds  *)
(* exactly what is in memory, in the middle of a registration too.         *)
DurableMirror ==
    pc = "serving" /\ ~stateErr =>
        disk = diskState(peers, quotas, issueWindow, issueCounts)

(* The record of p was authorized under the current configuration. *)
HoldsCurrentSecret(p) ==
    /\ SecretMode(config) =>
           /\ peers[p].authGeneration = config.authSecret
           /\ peers[p].keyID \in KeyIDs
    /\ LegacyMode(config) =>
           /\ peers[p].authGeneration = config.legacyKey
           /\ peers[p].keyID = SharedID

(* With a secret or a shared key configured, every peer of the device was  *)
(* authorized under the current one: a peer of a rotated secret is neither *)
(* restored nor kept.                                                      *)
AuthorizedActive ==
    \A p \in Peers : device[p] # Nil => peers[p] # Nil /\ HoldsCurrentSecret(p)

(* Every peer of the device has a runtime entry, so it counts against its  *)
(* key's limit and its traffic has a baseline, although registrations fail *)
(* half way and reconcile works from a snapshot that may be out of date.   *)
DeviceTracked ==
    pc = "serving" =>
        \A p \in Peers : device[p] # Nil =>
            /\ peers[p] # Nil
            /\ runtime[p] # Nil \/ (reg # Nil /\ reg.peer = p)

(* At most IssueLimit keys leave the server for an address in a window,    *)
(* and each of them is already counted in the state file.                  *)
IssueLimitDurable ==
    \A ip \in IPs :
        /\ disk # Nil => handed[ip] <= disk.issueCounts[ip]
        /\ handed[ip] <= IssueLimit

-----------------------------------------------------------------------------
(* What makes these invariants inductive. *)

(* Nothing is in flight before the server reconciles for the first time,   *)
(* only a serving process has failed closed or holds the mutex, and a      *)
(* registration in progress has not met a failed save.                     *)
PhaseInv ==
    /\ pc \in {"down", "restore"} => device = noPeers /\ reg = Nil /\ snap = Nil
    /\ reg # Nil => pc = "serving" /\ ~stateErr
    /\ stateErr => pc = "serving"

(* The registration in progress can be rolled back to a state in which     *)
(* every peer has its owner.                                               *)
RollbackInv ==
    reg # Nil => OwnersPresent(RolledBackPeers, RolledBackQuotas)

(* The record of the peer being registered is recent and authorized. *)
RegisterInv ==
    reg # Nil =>
        /\ peers[reg.peer] # Nil
        /\ peers[reg.peer].lastSeen = reg.now
        /\ clock <= reg.now + MaxHandlerTime
        /\ HoldsCurrentSecret(reg.peer)

(* A peer that the pending snapshot misses has been registered since, so   *)
(* its record is too recent to be pruned.                                  *)
SnapshotInv ==
    snap # Nil =>
        /\ snap.now <= clock
        /\ \A p \in Peers : device[p] # Nil /\ snap.device[p] = Nil =>
               /\ pc = "serving"
               /\ snap.now < peers[p].lastSeen + PeerStateRetention

(* The issue window and its counts are always saved before they are used.  *)
IssueInv ==
    /\ disk = Nil => handed = noCounts
    /\ disk # Nil => \A ip \in IPs : /\ handed[ip] <= disk.issueCounts[ip]
                                     /\ disk.issueCounts[ip] <= IssueLimit
    /\ pc # "down" /\ ~stateErr =>
           /\ disk # Nil
           /\ disk.issueWindow = issueWindow
           /\ disk.issueCounts = issueCounts

IndInv ==
    /\ TypeOK
    /\ OwnerRecorded
    /\ DurableMirror
    /\ AuthorizedActive
    /\ DeviceTracked
    /\ PhaseInv
    /\ RollbackInv
    /\ RegisterInv
    /\ SnapshotInv
    /\ IssueInv

-----------------------------------------------------------------------------
(* What a step may never do. *)

IssuedOwners == {"key"} \X Secrets \X KeyIDs
DeviceCount(owner) ==
    Cardinality({p \in Peers :
        device[p] # Nil /\ peers[p] # Nil /\ OwnerOf(p, peers[p]) = owner})

(* While the server is serving, no step takes an issued key over its limit *)
(* of active peers.                                                        *)
AdmissionWithinLimit ==
    \A o \in IssuedOwners :
        pc = "serving" /\ DeviceCount(o)' > DeviceCount(o) =>
            DeviceCount(o)' <= MaxActivePeersPerIssuedKey
LimitAtAdmission == [][AdmissionWithinLimit]_vars

UsedOn(state, o, day) ==
    IF state.quotas[o] # Nil /\ state.quotas[o].usageDate = day
    THEN state.quotas[o].usedBytes ELSE 0

(* Within a day no step, whether it rolls back, prunes, re-keys, restarts  *)
(* or crashes, lowers the usage recorded in the file for an owner, and no  *)
(* block is lifted before it ends.                                         *)
QuotaKept ==
    disk # Nil =>
        \A o \in QuotaOwners :
            /\ DateOf(clock) = DateOf(clock') =>
                   UsedOn(disk', o, DateOf(clock)) >= UsedOn(disk, o, DateOf(clock))
            /\ disk.quotas[o] # Nil /\ Blocked(disk.quotas[o], clock') =>
                   disk'.quotas[o] # Nil /\ Blocked(disk'.quotas[o], clock')
QuotaNeverForgiven == [][QuotaKept]_vars

(* No peer enters the device while its owner is blocked or over its quota, *)
(* be it by registration, by a partly failed one, or by a restore.         *)
AdmissionUnderQuota ==
    \A p \in Peers : device[p] = Nil /\ device'[p] # Nil =>
        LET quota == quotas'[OwnerOf(p, peers'[p])]
        IN  /\ quota # Nil
            /\ ~Blocked(quota, clock)
            /\ quota.usageDate = DateOf(clock) => ~OverLimit(quota, config.quotaBytes)
AdmissionRespectsQuota == [][AdmissionUnderQuota]_vars

(* Once a save has failed nothing is admitted, saved or handed out until   *)
(* the process has ended.                                                  *)
ClosedAfterFailure ==
    stateErr =>
        /\ \A p \in Peers : device[p] = Nil => device'[p] = Nil
        /\ disk' = disk
        /\ handed' = handed
FailClosed == [][ClosedAfterFailure]_vars

(* The durable issue window moves only when a whole day has passed, so a   *)
(* restart does not give an address a fresh allowance.                     *)
WindowKept ==
    disk # Nil /\ disk'.issueWindow # disk.issueWindow =>
        disk'.issueWindow >= disk.issueWindow + DayLength
IssueWindowFixed == [][WindowKept]_vars

(* The server hands out keys as RateLimiter does: restarts, crashes,       *)
(* failed saves and rotated secrets neither open a window nor give a       *)
(* client one key more.                                                    *)
DurableWindow == IF disk = Nil THEN ZeroTime ELSE disk.issueWindow
Limiter == INSTANCE RateLimiter WITH
    Clients <- IPs, Limit <- IssueLimit, Period <- DayLength,
    NoWindow <- ZeroTime, now <- clock, window <- DurableWindow, given <- handed
KeysAtLimitedRate == Limiter!Spec

-----------------------------------------------------------------------------
(* Liveness.  The run loop ticks for ever, a handler that holds the mutex  *)
(* finishes, and a removal that is retried by every reconcile is not       *)
(* refused by the device for ever.                                         *)

Fairness ==
    /\ WF_vars(\E rev \in RevocationReads(config) : Snapshot(rev))
    /\ WF_vars((\E kept \in SUBSET Peers : Reconcile(kept)) \/ ReconcileFails)
    /\ SF_vars(Reconcile({}))
    /\ WF_vars(RunFailure)
    /\ WF_vars(RegisterAddPeer \/ RegisterAddPeerFails)
    /\ WF_vars(RegisterCleanup \/ RegisterCleanupFails)

FairSpec == Spec /\ Fairness

(* A peer of a revoked key leaves the device, unless the key is taken off  *)
(* the revocation list again or the peer registers with another key.       *)
RevokedLeave ==
    \A p \in Peers, id \in KeyIDs :
        (pc = "serving" /\ SecretMode(config) /\ device[p] # Nil
             /\ peers[p].keyID = id /\ id \in revoked)
            ~> (device[p] = Nil \/ peers[p].keyID # id \/ id \notin revoked)

(* A peer whose owner is blocked leaves the device, unless the block ends. *)
BlockedLeave ==
    \A p \in Peers :
        (pc = "serving" /\ device[p] # Nil
             /\ Blocked(quotas[OwnerOf(p, peers[p])], clock))
            ~> (device[p] = Nil \/ ~Blocked(quotas[OwnerOf(p, peers[p])], clock))

(* A server that could not save its state stops. *)
FailureStops == stateErr ~> pc = "down"

-----------------------------------------------------------------------------
(* Statements of the documentation and the tests that the code breaks. *)

(* README.md: an issued key has at most three active WireGuard peers. *)
ActivePeerLimit ==
    pc = "serving" =>
        \A o \in IssuedOwners : DeviceCount(o) <= MaxActivePeersPerIssuedKey

(* A peer that reconcile removes although it is authorized, not revoked    *)
(* and not blocked was added stalePeerMaxIdle ago or earlier, as           *)
(* TestNeverHandshakenPeerIsPurgedByController sets it up.                 *)
StaleOnlyWhenIdle ==
    \A p \in Peers :
        /\ snap # Nil /\ snap' = Nil /\ pc' = "serving"
        /\ device[p] # Nil /\ device'[p] = Nil
        /\ runtime[p] # Nil
        /\ recordMatchesCurrentMode(config, peers[p])
        /\ SecretMode(config) => snap.revoked # Nil /\ peers[p].keyID \notin snap.revoked
        /\ ~Blocked(quotas'[OwnerOf(p, peers[p])], snap.now)
        => snap.now - runtime[p].addedAt >= StalePeerMaxIdle
IdleBeforeStale == [][StaleOnlyWhenIdle]_vars

=============================================================================
