------------------------------ MODULE AccessRules ------------------------------
(***************************************************************************)
(* The values the access controller of the server handles and the pure     *)
(* rules it applies to them (tunwg/access_controller.go and                *)
(* internal/auth.go): credentials, quota owners, daily usage, blocks and   *)
(* the ages at which endpoints, peers and records expire.                  *)
(*                                                                         *)
(* Time is an integer number of ticks.  Unix time 0 is tick 0 and the Go   *)
(* zero time (year 1) is the distinguished value ZeroTime.  An absent map  *)
(* entry is Nil.  A secret stands for itself wherever the code stores its  *)
(* SHA-256 fingerprint (authGeneration): the fingerprint is injective.     *)
(***************************************************************************)
EXTENDS Integers

CONSTANTS
    Peers,                       \* WireGuard public keys
    KeyIDs,                      \* ids of issued auth keys
    Secrets,                     \* values of TUNWG_AUTH_SECRET / TUNWG_AUTH
    IPs,                         \* source addresses of /issue requests
    Nil,                         \* an absent map entry
    RestoreEndpointMaxAge,       \* 15 minutes
    StalePeerMaxIdle,            \* 30 minutes
    PeerStateRetention,          \* 48 hours
    DayLength,                   \* 24 hours
    MaxActivePeersPerIssuedKey,  \* 3
    IssueLimit,                  \* 20 keys per source address and window
    MaxInt64                     \* the largest int64

(* The Go zero time, and how time.Unix(0, 0) differs from it. *)
ZeroTime == -1
UnixEpoch == 0
Times == Nat \cup {ZeroTime}

OpenID == "open"
SharedID == "shared"
NoSecret == ""

ASSUME DurationsAssumption ==
    /\ RestoreEndpointMaxAge \in Nat \ {0}
    /\ StalePeerMaxIdle \in Nat \ {0}
    /\ PeerStateRetention \in Nat \ {0}
    /\ DayLength \in Nat \ {0}
    /\ RestoreEndpointMaxAge <= StalePeerMaxIdle
    /\ DayLength <= PeerStateRetention

ASSUME LimitsAssumption ==
    /\ MaxActivePeersPerIssuedKey \in Nat \ {0}
    /\ IssueLimit \in Nat \ {0}
    /\ MaxInt64 \in Nat \ {0}

ASSUME NamesAssumption ==
    /\ OpenID \notin KeyIDs
    /\ SharedID \notin KeyIDs
    /\ NoSecret \notin Secrets

-----------------------------------------------------------------------------
(* Records.  CreatedAt is written once and never read, so it is left out;  *)
(* Endpoint and EndpointSeenAt are set and cleared together, so the time   *)
(* stands for both.  Only an open peer has no auth generation.             *)

PeerStates ==
    {r \in [keyID : KeyIDs \cup {OpenID, SharedID},
            authGeneration : Secrets \cup {NoSecret},
            lastSeen : Nat,
            endpointSeenAt : Times] :
        (r.keyID = OpenID) <=> (r.authGeneration = NoSecret)}

QuotaStates ==
    [usageDate : Nat,
     usedBytes : 0..MaxInt64,
     blockedUntil : Times,
     lastSeen : Nat]

PeerRuntimes == [lastRx : Nat, lastTx : Nat, addedAt : Nat]

(* TUNWG_AUTH_SECRET, TUNWG_AUTH and TUNWG_QUOTA_BYTES (0: no quota). *)
Configurations ==
    [authSecret : Secrets \cup {NoSecret},
     legacyKey : Secrets \cup {NoSecret},
     quotaBytes : Nat]

(* An X-Authorization header: "<id>.<sig>", or a bare key when id is "".   *)
(* sig is the secret the id was signed with, or the bare key itself.       *)
ReqKeys == [id : KeyIDs \cup {""}, sig : Secrets \cup {NoSecret}]

QuotaOwners ==
    ({"peer"} \X Peers) \cup ({"key"} \X Secrets \X (KeyIDs \cup {SharedID}))

ASSUME NilAssumption ==
    /\ Nil \notin PeerStates
    /\ Nil \notin QuotaStates
    /\ Nil \notin PeerRuntimes

-----------------------------------------------------------------------------
(* Who pays for a peer's traffic. *)
quotaOwner(peer, keyID, generation) ==
    IF keyID = OpenID THEN <<"peer", peer>> ELSE <<"key", generation, keyID>>

OwnerOf(peer, record) ==
    quotaOwner(peer, record.keyID, record.authGeneration)

(* The local calendar day of a time, and the midnight that ends it. *)
DateOf(now) == now \div DayLength
nextLocalMidnight(now) == (DateOf(now) + 1) * DayLength

-----------------------------------------------------------------------------
(* Quota accounting. *)

newQuotaState(now) ==
    [usageDate |-> DateOf(now), usedBytes |-> 0,
     blockedUntil |-> ZeroTime, lastSeen |-> now]

normalizeQuotaState(quota, now) ==
    IF quota.usageDate # DateOf(now)
    THEN [newQuotaState(now) EXCEPT !.lastSeen = quota.lastSeen]
    ELSE IF quota.blockedUntil # ZeroTime /\ now >= quota.blockedUntil
    THEN [quota EXCEPT !.blockedUntil = ZeroTime]
    ELSE quota

(* Mutant: the sum is not saturated. *)
addUsageUnbounded(current, delta) == IF delta <= 0 THEN current ELSE current + delta

(* int64 addition that saturates instead of wrapping. *)
addUsage(current, delta) ==
    IF delta <= 0 THEN current
    ELSE IF delta \in 1 .. (MaxInt64 - current) THEN current + delta
    ELSE MaxInt64

Blocked(quota, now) == now < quota.blockedUntil
OverLimit(quota, limit) == limit > 0 /\ quota.usedBytes > limit

(* restorePeers and reconcile block an owner that is over its limit until  *)
(* the next midnight, unless it is blocked already.                        *)
blockIfOverLimit(quota, now, limit) ==
    IF OverLimit(quota, limit) /\ ~Blocked(quota, now)
    THEN [quota EXCEPT !.blockedUntil = nextLocalMidnight(now)]
    ELSE quota

-----------------------------------------------------------------------------
(* Credentials.  cfg is the configuration the process was started with. *)

SecretMode(cfg) == cfg.authSecret # NoSecret
LegacyMode(cfg) == ~SecretMode(cfg) /\ cfg.legacyKey # NoSecret
OpenMode(cfg) == ~SecretMode(cfg) /\ ~LegacyMode(cfg)

ValidateAuthKey(cfg, key) ==
    SecretMode(cfg) /\ key.id # "" /\ key.sig = cfg.authSecret

Credentials ==
    [keyID : KeyIDs \cup {OpenID, SharedID},
     authGeneration : Secrets \cup {NoSecret}]

(* The credentials a request key is authorized for: none or one. revoked   *)
(* is the set of revoked ids, Nil when the revocation file is unreadable.  *)
authorize(cfg, key, revoked) ==
    {c \in Credentials :
        \/ /\ ValidateAuthKey(cfg, key)
           /\ revoked # Nil
           /\ key.id \notin revoked
           /\ c = [keyID |-> key.id, authGeneration |-> cfg.authSecret]
        \/ /\ LegacyMode(cfg)
           /\ key.id = ""
           /\ key.sig = cfg.legacyKey
           /\ c = [keyID |-> SharedID, authGeneration |-> cfg.legacyKey]
        \/ /\ OpenMode(cfg)
           /\ c = [keyID |-> OpenID, authGeneration |-> NoSecret]}

credentialMatchesCurrentMode(cfg, c) ==
    \/ /\ SecretMode(cfg)
       /\ c.keyID \in KeyIDs
       /\ c.authGeneration = cfg.authSecret
    \/ /\ LegacyMode(cfg)
       /\ c.keyID = SharedID
       /\ c.authGeneration = cfg.legacyKey
    \/ /\ OpenMode(cfg)
       /\ c.keyID = OpenID
       /\ c.authGeneration = NoSecret

(* Mutant: the generation of the secret is not compared. *)
recordMatchesAnyGeneration(cfg, record) ==
    \/ SecretMode(cfg) /\ record.keyID \in KeyIDs
    \/ LegacyMode(cfg) /\ record.keyID = SharedID
    \/ OpenMode(cfg)

(* An open server accepts the peers of an earlier, stricter mode. *)
recordMatchesCurrentMode(cfg, record) ==
    \/ /\ SecretMode(cfg)
       /\ record.keyID \in KeyIDs
       /\ record.authGeneration = cfg.authSecret
    \/ /\ LegacyMode(cfg)
       /\ record.keyID = SharedID
       /\ record.authGeneration = cfg.legacyKey
    \/ OpenMode(cfg)

=============================================================================
