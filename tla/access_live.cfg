\* Revoked and blocked peers leave and a failed server stops, whatever else fails.
CONSTANTS
    p1 = p1  p2 = p2  k1 = k1  s1 = s1  s2 = s2  ip1 = ip1  ip2 = ip2
    Nil = Nil
    Peers = {p1}
    KeyIDs = {k1}
    Secrets = {s1}
    IPs = {}
    Configs <- SecretQuotaConfigs
    RestoreEndpointMaxAge = 1
    StalePeerMaxIdle = 1
    PeerStateRetention = 2
    DayLength = 2
    MaxActivePeersPerIssuedKey = 1
    IssueLimit = 1
    MaxInt64 = 2
    StartTime = 2
    MaxTime = 3
    MaxRx = 0
    MaxTx = 1
    MaxHandlerTime = 1
    SaveMayFail = TRUE
    DeviceMayFail = TRUE
    RevocationsMayFail = TRUE
SPECIFICATION FairSpec
PROPERTIES RevokedLeave BlockedLeave FailureStops
