# A TLA+ model of tunwg

tunwg exposes local services under public host names: a client registers its
WireGuard key with a server, the server adds the key to its WireGuard device and
forwards TLS connections, by their SNI, through the tunnel. This directory holds
TLA+ modules for the server's access control and storage, for the client library,
the relay, host names and routing, certificates, the key file and the password
gate, TLC configurations that check them on small instances, and TLAPS proofs for
every size.

## Inventory

| Component | Source | State | Operations | Correct when |
|---|---|---|---|---|
| access controller | `tunwg/access_controller.go` | peer records, quotas, runtime counters, issue window, `stateErr` | `load`, `restorePeers`, `reconcile`, `registerPeer`, `issueAuthKey`, `run` | only peers of the current credential are active, limits and quotas survive restarts, a failed save closes the server |
| durable access state | `tunwg/access_store.go` | `access_state.json`, its temporary file, the marker `access_state.initialized`; `revoked_keys` | `Load`, `Save`, `ensureMarker` | an acknowledged save is never lost, the file is never torn, the store reads what it wrote |
| server and API | `tunwg/tunwgs.go` | the process | startup, `/add`, `/issue`, `/relay` | the controller is loaded, restored and reconciled before a request is served |
| auth keys | `internal/auth.go` | none | `IssueAuthKey`, `ValidateAuthKey` | a key validates only under the secret it was signed with |
| WireGuard device | `internal/wireguard.go` | device peers, key file | `Initialize`, `generateKey`, `RemovePeer`, `GetWgDeviceInfo` | the controller sees the peers as they are; a client keeps its key |
| client library | `listener.go` | one `sync.Once`, the server peer | `NewListener`, `addServerPeer`, `backgroundMonitor`, `establishRelay` | a client that lost its server registers again |
| UDP relay | `internal/relay.go` | two sockets | `RelayServer` | bytes arrive in order, both directions end together, nothing leaks |
| SNI routing | `tunwg/sni_routes.go` | static routes | `parseSNIConfig`, `newSNIProxy` | no static route shadows the API or a tunnel |
| host name encoding | `internal/ip.go` | none | `GetEncodedIPPort`, `LookupEncodedIPPort`, `ExtractEncodedLabel` | decoding inverts encoding |
| TLS | `internal/tls.go` | certificate caches | `tunnelHostPolicy`, `GetCertificate` | certificates are requested only for own names |
| client command | `tunwg/tunwg.go` | `ipValid` map | `RoundTrip` | a request passes only with a password or a recent success |
| flags, API types, helpers | `internal/flags.go`, `api.go`, `util.go` | environment | lookups | |

How they interact. `tunwgServer` runs `load`, `restorePeers` and `reconcile` in
this order and only then starts the HTTP handlers and `run`. From then on three
kinds of goroutines share the controller under `c.mu`: the `/add` handlers, the
`/issue` handlers and the run loop, which reconciles every 30 seconds. They also
share the WireGuard device, which has a lock of its own, and the state file, which
only the holder of `c.mu` writes. The operator edits `revoked_keys` at any time.
An error of the store, or of the device while it is read, ends the process
(`fatal`), and the user-space device goes with it.

The hard behaviours are all here: `reconcile` reads the device, the clock and
the revocation file before it takes the mutex; `registerPeer` saves first, then
changes the device, and has to undo both; a save may fail after the file has been
replaced; the process may crash between any two of these; times read earlier are
used after midnight; records are pruned by age while peers come back.
On the client, listeners are opened by several goroutines around one `sync.Once`,
the monitor re-registers while the server restarts or forgets the client, four
relay loops on two machines learn of each other's end only through closed sockets,
TLS handshakes share one mutex and one port for their fallback, and requests share
an unlocked map. `PROJECT.json` lists these hazards at the lines where they bite.

## Modules

`AccessRules` has the values and the pure rules: credentials and modes, quota
owners, daily usage, blocks, saturating addition. Time is an integer; the Go zero
time is `ZeroTime`, distinct from `UnixEpoch`, because the code tells them apart. A
secret stands for its fingerprint and for the signatures made with it (HMAC and
SHA-256 are taken to be injective). `CreatedAt`, which nothing reads, is left out,
and `endpointSeenAt` stands for the endpoint too, since both are set and cleared
together (a peer with a completed handshake has an endpoint).

`AccessController` is the server process.

| Variable | Code |
|---|---|
| `peers`, `quotas`, `runtime`, `issueWindow`, `issueCounts`, `stateErr` | fields of `accessController` |
| `config` | `TUNWG_AUTH_SECRET`, `TUNWG_AUTH`, `TUNWG_QUOTA_BYTES` of the running process |
| `pc` | how far `tunwgServer` has come |
| `reg` | locals of a `registerPeer` call that holds the mutex |
| `snap` | what `reconcile` has read and not yet used |
| `device` | peers of the WireGuard device |
| `disk` | `access_state.json` |
| `revoked` | `revoked_keys` |
| `handed` | history: keys that left the server under the window in the file |

| Actions | Code |
|---|---|
| `Load`, `LoadSaveFails` | `load` and its save |
| `RestorePeers`, `RestorePeersFails` | `restorePeers`, with any subset of `AddPeer` calls failing |
| `Snapshot`, `SnapshotFails` | `reconcile` before the mutex |
| `Reconcile`, `ReconcileFails`, `ReconcileSaveFails` | `reconcile` under the mutex, with any subset of removals failing |
| `RunFailure` | `run` receiving from `failures` |
| `RegisterPeer`, `RegisterPeerSaveFails` | `registerPeer` up to its save |
| `RegisterAddPeer`, `RegisterAddPeerFails`, `RegisterCleanup`, `RegisterCleanupFails` | its device calls and what follows each |
| `IssueAuthKey`, `IssueAuthKeySaveFails` | `issueAuthKey` |
| `Crash`, `Tick`, `Handshake`, `Receive`, `Transmit`, `EditRevocations` | the environment |

What is one step. Everything under `c.mu` is one step unless another actor can see
or change what is between: the device can be read by `reconcile` while
`registerPeer` calls it, so a registration is several steps. The three reads of
`reconcile` are one step; a registration that falls between them is the same as one
after them as long as the reads take less than the retention of records. A refused
request changes nothing (`issueAuthKey` rolls the window over only when it then
accepts) and is a stuttering step. The `failures` channel is full exactly while
`stateErr` is set and unread, and reading it ends the process, so it needs no
variable of its own.

`DurableRegister` says what the controller relies on from its store: one value;
after a save that returned only the saved one can be loaded, after a save that
failed or was cut short the old or the new one. `AccessStore` models
`fileAccessStateStore.Save` and `ensureMarker` one file operation at a time, keeps
what is synced apart from what is visible, and is checked to implement
`DurableRegister`; `result` is what the last `Save` returned, so that a save that
returned without error cannot pass for one that was cut short. `SaveFails` in `AccessController` (old or new file, chosen at
once) is this register seen by its client. A power failure later than the failed
save could still change which of the two files survives; the next action on the
file is the load of a new process, so the earlier choice covers it.

The directory is taken to be there (see Observations).

`UsageAccounting` extends `AccessController` by two history variables: `owed`, the
bytes a peer has moved and nobody has charged, and `ghosts`, the peers that a failed
registration took out of the device while a snapshot still has their counters. Its
actions are those of `AccessController`; the history follows from the device counters
and from `PeerDelta`, what `reconcile` charges.

`RateLimiter` says what the server promises about the keys it hands out: windows that
last a whole period, and in each at most `Limit` keys for a client. It has no restarts
and no failures. `AccessController` is checked to implement it, with the window in the
state file (`DurableWindow`) as its window and `handed` as the keys given.

| Module | State | Actions and operators | Code |
|---|---|---|---|
| `KeyFile` | the key file, what each process is doing, keys shown so far | `Start`, `ReadKey`, `GenerateKey`, `CreateFile`, `WriteFile`, `End` | `generateKey`, one file operation per step; `Privileged` says whether mode 0400 stops the writer |
| `ClientLibrary` | `initOnce`, `handshakeOnce`, calls of `NewListener`, the monitor, `addServerPeer` in progress, device, relay, server as a client sees it | `Initialize`, `ListenTCPWg`, `BeginOnce`, `PassOnce`, `Close`, `Post`, `EstablishRelay`, `WgSetIpc` and their failures, `MonitorTick`; `ServerStops`, `ServerStarts`, `ServerForgets`, `RelayBreaks`, `Handshake`, `Tick` | `listener.go` |
| `UdpRelay` | both ends of the connection, sockets, buffers, the four loops, `done`, bytes in flight | `Answer`, `Hijack`, `ReadResponse`, `ReadTcp`, `WriteUdp`, `ReadUdp`, `WriteTcp`, `BreakUdpToTcp`, `Return` and failures; `Break`, `Collect` | `RelayServer`, `establishRelay`, `/relay` |
| `HostNames` | a label being typed | `GetEncodedIPPort`, `LookupEncodedIPPort` on bits | `internal/ip.go` |
| `SniRouting` | static routes, the last connection | `parseSNIConfig`, `Route`, `getIPForDomain`, `ChallengeTarget`, `tunnelHostPolicy` | `sni_routes.go`, `tunwgs.go`, `tls.go`, `ip.go` |
| `Certificates` | calls of `GetCertificate`, `zsMu`, the file `zerossl+eab`, port 80, caches | `LetsEncrypt`, `Lock`, `ReadEab`, `PostEab`, `FetchEab`, `WriteEab`, `Listen80`, `ZeroSSL`, `Close80`, `Unlock`, `Crash` | `GetTLSConfig`, `getZeroSSLEab` |
| `PasswordGate` | clock, `ipValid`, requests in flight | `Arrive`, `LookUp`, `Decide`, `Validate`, `BeginStore`, `EndStore`, `RaceDetected` | `roundTripper.RoundTrip` |

Choices in these modules. In `ClientLibrary` a name is the port its hash starts
with; `addServerPeer` never runs twice at once, because the monitor starts only
after the first one ended, so one variable holds it; a failed `WgSetIpc` has applied the lines before
the refused endpoint, as wireguard-go does. In `UdpRelay` a byte carries its
datagram and position, so that order, loss and repetition show; the server's HTTP
reader may have taken one byte ahead and the client's buffered reader any number
before the relay starts, and both are dropped as in the code. In `PasswordGate` a
map access has a begin and an end; one that overlaps a store may end the process, miss
the entry, or see a zero time. In `HostNames` digits, addresses and ports are their
bits and the sizes are constants (a byte is no smaller than a digit, a name is a whole
number of quanta): 8 and 5 bits in the code, 5 and 3 in the run, where too some lengths
are no encoding. In `SniRouting` a name is its labels, the number of dots at its end and
whether it has capitals, since that is what the four pieces of code that normalise
names treat differently; the API domain has no dot at its end. The resolver may answer
anything, but for the server's own names, which are no aliases, and for names with an
empty label, which it refuses.

`MCAccessController` and `MCUsageAccounting` give constants their values for TLC.
`MCFiles` puts `AccessStore` and `KeyFile` side by side in one state space.
`MCClient` (`ClientLibrary`, `Certificates`) and `MCEdge` (`HostNames`, `SniRouting`,
`PasswordGate`) join modules whose product would be too large: they share no
variable, so the variable `part` chooses in the first state which of them moves, and
the others stay in an initial state. No behaviour of a part is lost. A fairness
condition of a part at rest asks for nothing, because none of the fair actions of
`ClientLibrary` and `Certificates` is enabled in their initial states. `UdpRelay` is
checked by itself. The modules named `...Proofs` have the proofs. Operators introduced by a comment "Mutant"
are faulty variants of the definition after them. They are used only to see that
the properties notice the fault.

## Properties

Invariants of `AccessController`:

- `OwnerRecorded`: every peer record has its owner's quota record, in memory and in
  the file. `load` and `reconcile` give up otherwise, so a violation would be a
  server that cannot start again.
- `DurableMirror`: while no save has failed, a serving controller has exactly its
  memory in the file, also inside a registration.
- `AuthorizedActive`: every peer of the device holds the credential of this process.
- `DeviceTracked`: every peer of the device has a record and a runtime entry, so it
  counts against the limit and has a counter baseline.
- `IssueLimitDurable`: at most `IssueLimit` keys per address and window leave the
  server, each counted in the file beforehand.

Action properties: `LimitAtAdmission` (no admission takes an issued key over its
limit), `QuotaNeverForgiven` (within a day the recorded usage never falls and no
block is lifted), `AdmissionRespectsQuota` (no peer of a blocked or exhausted owner
enters the device), `FailClosed` (nothing is admitted, saved or handed out after a
failed save), `IssueWindowFixed` (the durable window moves by a whole day or
not at all) and `KeysAtLimitedRate` (the server implements `RateLimiter`, so a restart,
a crash or a failed save never shows in the keys a client gets). `LimitAtAdmission` is stated for a serving process; why not for a
restore is the first finding below.

Liveness: `RevokedLeave`, `BlockedLeave`, `FailureStops`.

`AccessStore`: `AlwaysLoads` (the store never refuses its own files) and
`ImplementsRegister`.

The other modules:

- `EveryByteOnce` (`UsageAccounting`): when `reconcile` is done, a peer that stays
  owes exactly what it has moved since the counters were read, whatever
  registration, removal or failure came between the read and the mutex. Ghosts are the
  only exception; what happens to them is under Observations.
- `KeyStable`, `ShortFileSticks` (`KeyFile`): all starts that come up use one key; a
  half-written file is never used and never repaired.
- `OnePeerWhileMonitored`, `Recovers` (`ClientLibrary`): the monitor always finds
  the one peer it insists on, and after failures the client shakes hands with the
  server that is there now.
- `StreamKept`, `EndTogether` (`UdpRelay`): every byte handed to WireGuard is the one
  that follows the byte before it at the sender, within a datagram and from one to the
  next, so there is no gap and no repetition; when anything ends, all loops, sockets and connections end.
- `NamesAreEndpoints`, `StrangersNotReached` (`HostNames`): names and endpoints
  correspond one to one, and labels of other lengths reach an endpoint only as a
  longer spelling of its name or, for shorter ones, an address that starts with zero.
- `ReservedNames`, `StaticServed`, `CertificateOwner` (`SniRouting`): static routes
  never shadow the API or a tunnel and serve every spelling of their domain; the
  client a connection is sent to is the one that asks for its certificate and gets
  the challenge.
- `ChallengeServerAlone`, `TornOnlyByFault`, `HandshakesAnswered` (`Certificates`):
  fallbacks do not meet on port 80, none reads the account binding while another one
  writes it, and every handshake gets an answer unless one request for the account
  binding hangs for good, which is the only thing that can leave handshakes waiting.
- `ListenersRegistered` (`ClientLibrary`) is what the repository's README says of a
  start; see Findings.
- `OnlyAuthenticated` (`PasswordGate`): nobody is forwarded without the right
  password, given now or for the address within the duration.

## Runs

| Run | Instance | Distinct states |
|---|---|---|
| `access_auth` | 2 peers, 1 key, 1 secret, limit 1; saves, device calls and revocation reads fail | 314 000 |
| `access_quota` | 2 peers on a shared key, quota 1, a change of day | 441 000 |
| `access_open` | 1 peer, no authentication, quota 1 or none, int64 up to 2, saves and device calls fail, with `UsageAccounting` | 828 000 |
| `access_rotation` | 1 peer, 1 key, 1 address, 2 secrets and a shared key, two issue windows, saves fail | 390 000 |
| `access_live` | 1 peer, quota 1, everything fails, fairness | 49 000 |
| `files` | 2 states of the store (symmetric), 2 unprivileged processes with 3 keys | 163 000 |
| `relay` | 3 datagrams of 1 or 2 bytes, buffers of 2, 1 socket error, fairness | 346 000 |
| `client` | 2 goroutines, 2 server keys, relay, 3 failures; 2 handshakes, 2 listeners, 2 faults; fairness | 168 000 |
| `edge` | labels up to 5 digits and longer ones up to 8; 56 spellings of 8 names, with up to 3 dots at the end, up to 2 static routes; 2 requests, 2 addresses, a duration of 2 ticks | 2 824 000 |
| `access_active_limit` | 2 peers, limit 1 | violation |
| `access_never_handshaken` | 2 peers | violation |
| `client_once` | 2 goroutines, 1 failure | violation |

What the passing runs show, with the properties above: `access_auth` that records,
file, device and runtime stay consistent through failures and crashes;
`access_quota` that usage and blocks of a shared key last until the day ends;
`access_open` the same for peers with a quota of their own when saves and the device
fail, and that every byte is charged once; `access_rotation` that no peer keeps an earlier
credential and that the server limits the rate of keys as if it never restarted; `access_live` that revoked and blocked peers leave
and a failed server stops; `files` that neither file is ever used torn; `relay` that
the stream is kept and everything ends together; `client` that a client recovers and
that handshakes do not disturb each other; `edge` that names, routes, certificates and
passwords lead a connection only where it belongs.

Bounds. `MaxTime` ends the clock, `MaxRx` and `MaxTx` the byte counters; everything
else is finite by itself. The durations keep the order of the code's
(15 minutes <= 30 minutes <= a day <= 48 hours) scaled to 1 or 2 ticks, so every
comparison comes out both ways within the bounded time: endpoints expire, peers go
stale, a day ends, records are pruned. A limit of one peer per key and two peers is
the smallest instance in which a key can be full. `MaxInt64` is 2 or 3 so that
usage saturates. Each run lets those things fail that its properties depend on.
Peers are symmetric where a run has two of them; liveness runs use no symmetry.
In the other modules `MaxFaults` and `MaxErrors` bound failures: the liveness
properties speak of what happens when failures stop, and two or three are enough to
fail in one step, recover and fail in another. Two processes, requests,
handshakes and goroutines are the smallest number that races; two datagrams of two
bytes in one direction are the smallest that can be merged and split, and a third
lets the other direction move at the same time. `TailDigits` keeps the digits
after the length of a name to two values, since no code looks at their value.

Fairness. The ticker of `run` fires for ever, which gives weak fairness of
`Snapshot`, of what `reconcile` does next and of `RunFailure`; a handler that holds
the mutex finishes, which gives weak fairness of the registration steps. Strong
fairness of `Reconcile({})` says that a device that is asked again and again to
remove a peer does not refuse for ever. Nothing is assumed of requests, crashes, saves or
the clock. Crashes may go on for ever; a crash takes the device's peers with it.

In `UdpRelay` both loops of both ends and the upgrade are weakly fair: goroutines
are scheduled, and a read of a closed or broken connection returns. Nothing is
assumed of WireGuard or the network. In `ClientLibrary` the ticker fires and calls
of `addServerPeer` end (weak fairness), WireGuard retries its handshake with a
server that it can reach, and somebody starts a stopped server again; nothing is
assumed of callers. Requests to `/add` and `/relay` have no timeout either; that
they end is an assumption on the failures modelled: a server that stops resets the
connection or lets its keep-alive run out, and one that is up runs handlers that
answer. In `Certificates` the calls of autocert end (`GetCertificate` of both managers
gives up after five minutes), and a goroutine that waits for a Go mutex gets it (strong
fairness of `Lock`; the mutex has a starvation mode). No fairness is given to
`FetchEab`: the request for the account binding (`tls.go:119`) and the read of its
answer have no timeout, and a third party may keep the connection open and never
answer. `HandshakesAnswered` names this as its exception.

Deadlock is checked where something can always happen: in the access runs and in
`files`. It is not in `relay`, which stops when the relay has ended, in `client`, where
nothing is left to do once callers have failed (that no handshake is stuck is
`HandshakesAnswered`), and in `edge`, which ends with the longest label and where a
refused configuration stops the server.

### Findings

`access_active_limit`: the README of the repository limits an issued key to three
active peers. `restorePeers` skips peers while the revocation file is unreadable or
their owner is blocked, but keeps their endpoints; they do not count in
`registerPeer`, so the key can be filled with other peers, and another restart
within 15 minutes restores all of them. The trace needs two restarts, one
unreadable file, and handshakes: of each peer before the reconcile that follows its
registration, and of all restored peers before the reconcile of the last start, which
would otherwise remove them (the next finding).

`access_never_handshaken`: `GetWgDeviceInfo` reports a peer without a handshake
with `time.Unix(0, 0)`, which is not the zero time. The branches of `reconcile` for
`LastHandshakeTime.IsZero()` are never taken against the real device, and a
peer is removed as stale by the first reconcile after it was added or restored
unless a handshake came first. The tests use a fake device that reports the zero
time.

`client_once`: when the first registration fails, `handshakeOnce` is spent, and the
next `NewListener` returns a listener that nothing will ever connect. The command
line tool exits on the first error; a program that uses the library and tries again
meets it.

### Observations

Met while modelling, and visible in the modules, but not the subject of a violation:

- A registration of an active peer whose `AddPeer` fails deletes the peer's runtime
  entry (`access_controller.go:451`). A `reconcile` that has read the counters and
  waits for the mutex then finds no baseline and charges the whole counter again. It
  also makes the old counters the baseline of a peer that has left, so that after the
  peer has registered again its first bytes may pass uncharged. `EveryByteOnce` delimits
  this: it can happen to nobody but the peers in `ghosts`.
- What a peer moved since the last `reconcile` is charged to the owner it has now;
  re-registering with another key takes the bytes along (line 627).
- `MkdirAll` is not followed by a sync of the parent directory
  (`access_store.go:88`): where the file system promises no more than POSIX, the
  directory with a saved state and its marker can vanish, and `Load` reports an empty
  store.
- Two processes running as root (as in the Docker image) that start for the first
  time at once both generate a key; the second overwrites the file, and the first loses
  its host name at its next start. `KeyStable` and its theorem are about unprivileged
  processes for this reason.
- A name whose hash starts with two zero bytes gets port 0 (`listener.go:116`), listens
  on a port of the network stack's choice and shows port 0 in its host name.
- The relay puts datagrams on a byte stream without framing, so what WireGuard
  receives may be two datagrams or a part of one (`relay.go:14`). `StreamKept` is
  therefore about bytes.
- The request for the account binding is made with `zsMu` held and without a timeout
  (`tls.go:119`): if ZeroSSL accepts it and never answers, every later fallback of the
  process waits for good. Without the exception TLC refutes `HandshakesAnswered` by this.
- The key file is not synced (`wireguard.go:47`): a power failure soon after the first
  start can leave it short or missing, and with it the host names. `KeyFile` has failures of
  processes only.
- Concurrent accesses of `ipValid` may make the Go runtime end the client
  (`tunwg.go:128`). `OnlyAuthenticated` accepts that and excludes wrong forwarding only.
- Bytes that reach an end of a relay during the upgrade are lost in buffers
  (`tunwgs.go:224`). `StreamKept` bounds the loss to bytes before the first delivered one.
- The account binding is written in place (`tls.go:151`); once a crash has left it short,
  every later fallback is refused until it is removed by hand.

## Proofs

`AccessControllerProofs` proves, for every value of the constants that satisfies
the named assumptions of the modules:

- `Invariance`: `Spec => []IndInv`;
- from it `TypeCorrect`, `OwnersAlwaysRecorded`, `MemoryAlwaysSaved`,
  `OnlyAuthorizedActive`, `DeviceAlwaysTracked`, `IssueLimitKept`;
- `FailsClosed` and `IssueWindowNeverEarly`, the action properties `FailClosed` and
  `IssueWindowFixed`;
- `ImplementsLimiter`: `Spec => Limiter!Spec`, the refinement of `RateLimiter`.

The invariants are not inductive by themselves. `IndInv` adds:

- `PhaseInv`: nothing is in the device before the restore, only a serving process
  holds the mutex or has failed, and a registration in progress has not failed;
- `RollbackInv`: the records a failed registration would go back to have their
  owners, which `OwnerRecorded` needs when `RegisterCleanup` happens;
- `RegisterInv`: the record of the peer being registered is recent and authorized,
  which the device steps need for `AuthorizedActive`;
- `SnapshotInv`: a device peer that the pending snapshot misses has a record too
  recent to be pruned. Without it `reconcile` could delete the record of a peer that was
  registered after the snapshot, and `DeviceTracked` and `AuthorizedActive` would fail;
- `IssueInv`: window and counts in memory are those in the file unless a save
  failed, and the counts cover what was handed out.

There is one lemma per action and, before it, lemmas on the state the action
computes (`LoadedStateInv`, `RestoredStateInv`, `ReconciledStateInv`,
`RegisteredStateInv`, `IssuedInv`). `IssueWindowNeverEarly` needs one more
invariant, `WindowStarted`: the window never lies ahead of the clock.

`ImplementsLimiter` rests on the same two invariants. A save that brings the window up
to date (`load`, or an issue whose save failed after the rename) maps to `OpenWindow` or
to a stutter (`BroughtUpToDate`), an issued key to `GiveKey` or `GiveFirstKey`
(`KeyGiven`, where `IssueInv` gives that no more keys were handed out than were counted), a
tick to `TimePasses`, and every other save keeps the window. Its mutant, windows that
start with the calendar day, passes `IssueWindowFixed` and `IssueLimitDurable`: only
the refinement ties the window to the time it was opened.

Assumptions worth knowing: `HandlerAssumption` (a registration does not hold the
mutex for 48 hours), `ClockAssumption` (the server does not run in 1970),
`DurationsAssumption` (the order of the durations), and that the wall clock does not run
backwards (`Tick`).

`AccessQuotaProofs` proves the action properties of admission, quotas and accounting
on top of `IndInv`. Each needs an invariant of its own:

- `AdmittedInv` for `LimitKeptAtAdmission` and `QuotaKeptAtAdmission`: what
  `registerPeer` has checked still holds when its device call returns. Nobody else
  can raise the count, since the mutex is held; the clock can only end a block.
  Counting peers needs `PeersAssumption`, that there are finitely many.
- `QuotaInv` for `UsageNeverForgiven`. `SoundRecords`: no record is of a day to come, a
  block ends with its day, and usage was counted on the day it is recorded for, so a
  record with usage of today is too young to be pruned. `StartupQuotas`: between the
  load and the first save memory forgets nothing of the file. `SnapshotQuotas`: a
  record of a later day than a pending snapshot's was made by a registration and has
  neither usage nor a block, so the old time moves nothing that counts back.
  `RollbackQuota`: the quota a failed registration goes back to forgets nothing either.
- `AccountInv` for `EveryByteChargedOnce`: a peer owes what lies between its baseline
  and its counters, either of which is zero where it is missing, and what a pending snapshot has read lies between them as well.
  This holds of all peers but the ghosts, for a device that may refuse any call.
  `NoGhostsWithoutFailures` proves that there are none if it refuses nothing: then
  every registration in progress is in its first phase, and nothing but its cleanup
  takes a peer out of the device under a snapshot.

`FilesProofs` proves `StoreTypeOK` and `AlwaysLoads` of `AccessStore` and that the store
implements `DurableRegister`. Its inductive invariant says that the
state file is whole and synced wherever one looks (which is what the sync before the
rename is for), that from the rename on it holds the value being saved and from the
sync of the directory on also on disk, and that there is a marker only where there
is a state. The rename and the sync of the directory then map to `Settle`, the last step of
`Save` to `SaveReturns`, failures and power loss to `SaveAborts` or `Settle`.
It also proves, if `Privileged` is false, `KeyStable` and `ShortFileSticks` of `KeyFile`.
The invariant: every key shown is the one in the file, so a file that is missing or
short means that nothing was shown; while a process writes, the file is short and no
other process writes.

`EdgeProofs` proves `NamesAreEndpoints` and `StrangersNotReached` of `HostNames` for
all sizes that `SizesAssumption` admits, those of the code among them, and
`EndpointFoundByName`, the other direction: looking up the name of an endpoint gives
that endpoint. The bits of a label and of what it decodes to correspond by the division
of a position by `DigitBits` (`DivMod`, `BitOfDigit`, `DigitOfBit`), so decoding and
encoding undo each other bit by bit (`EncodeDecoded`, `DecodeEncoded`), without an
induction. `DecodedLength` bounds what a label of each length decodes to: a label no
longer than a name fits, one that is longer and still fits decodes to exactly a name,
and a shorter one lacks at least one byte, which is why its address starts with zeros.

`EdgeProofs` also proves `ReservedNames`, `StaticServed` and `CertificateOwner` for
names of any number of labels and dots (`HostsAssumption` only says what a name is).
`RouteInv`: the routes that `parseSNIConfig` accepts are in normal form, not reserved
and one for each name, and the last connection went where `Route` sends it. The rest is
what the three ways of normalising a name do to its labels, dots and capitals, once as
lemmas. An earlier version of the model let the resolver answer for names that end in
several dots; `CertificateOwner` could not be proved then, and fails for three dots,
which the run now includes.

`UdpRelayProofs` proves `StreamKept` for buffers and datagrams of every size. A
direction is a pipe of five stages: datagrams at the socket, the buffer of one loop,
the connection, the buffer of the other loop, what was delivered. `RelayInv` says that
each stage ends where the one behind it begins (`Run`, `Flow`) as long as the loop between
them runs; a loop that stopped with bytes in its buffer never hands on another byte. The
lemmas on `Run` say that such stretches of bytes can be joined, cut anywhere, and are
not changed by a later datagram. The proof uses that a datagram fits into a buffer
(`RelayAssumption`), as one of WireGuard does.

`PasswordGateProofs` proves `GateTypeOK` and `OnlyAuthenticated`: every time in the map,
in a store under way or read by a request is that of a right password or earlier, or
is absent or zero, which never counts as valid.

`CertificatesProofs` proves `ChallengeServerAlone`: exactly the calls between `Lock`
and `Unlock` hold the mutex, one at a time, and port 80 belongs to the one being
served on it. On top of it `TornOnlyByFault`: without a fault the file is short only
while some call, which then holds the mutex, is writing it.

`ClientLibraryProofs` proves `OnePeerWhileMonitored`: `replace_peers` leaves one
peer, also when the endpoint after it is refused, and the monitor starts only after
that.

Only model-checked: the liveness properties `RevokedLeave`, `BlockedLeave`,
`FailureStops`, `EndTogether`, `Recovers` and `HandshakesAnswered`, because fairness and
`ENABLED` are beyond the prover. Every safety property of a passing run has a theorem.

## Not modelled

HTTP status codes, logging, flag parsing, the redirect to HTTPS, the wiring of `main`
and `tunwgServer`, the libraries (wireguard-go, autocert, tcpproxy, the resolver).
`BackgroundLogger` only logs (and ends the process when the device cannot be read, as
`run` does). The localhost certificate and the other test switches. Environment
lookups (`internal/flags.go`) are constants. A clock that is set back: the code's
guards for it (`now.Before`) are in the model but never taken. An API domain that is
configured with a dot at its end, and which characters a DNS label may have. The
`defer` in the loop of `RelayServer`, which only costs memory. Power failures between
the operations on the key file. The empty name of an address that is not IPv6
(`ip.go:29`), which no tunnel has. The guard of `persistLocked` on `stateErr`
(`access_controller.go:255`): every caller has checked or cleared it under the same
lock, and a registration in progress has not failed (`PhaseInv`). A `RemovePeer` that
fails and still removes the peer: it is one request to the device whose last line is the
removal. A state file edited by
hand: beyond the missing owner, `load`'s checks concern files this server does not
write. The composition of client and server is by contract: `ClientLibrary` lets the
server forget, refuse and restart as `AccessController` may.

## Plan

1. Done: `AccessRules`, `AccessController`, `RateLimiter`, `UsageAccounting`,
   `DurableRegister`, `AccessStore`, `KeyFile`, `ClientLibrary`, `UdpRelay`, `HostNames`,
   `SniRouting`, `Certificates`, `PasswordGate`, and the proofs above.
2. What could follow: an abstract policy for admission like `RateLimiter` for keys, of
   which `AuthorizedActive`, `LimitAtAdmission` and `AdmissionRespectsQuota` are the
   parts, and usage told apart by the key it was moved under (line 627).
