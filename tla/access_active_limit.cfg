\* Two restarts, one of them with an unreadable revocation file.
CONSTANTS
    p1 = p1  p2 = p2  k1 = k1  s1 = s1  s2 = s2  ip1 = ip1  ip2 = ip2
    Nil = Nil
    Peers = {p1, p2}
    KeyIDs = {k1}
    Secrets = {s1}
    IPs = {}
    Configs <- SecretConfigs
    RestoreEndpointMaxAge = 1
    StalePeerMaxIdle = 2
    PeerStateRetention = 2
    DayLength = 2
    MaxActivePeersPerIssuedKey = 1
    IssueLimit = 1
    MaxInt64 = 3
    StartTime = 2
    MaxTime = 2
    MaxRx = 0
    MaxTx = 0
    MaxHandlerTime = 1
    SaveMayFail = FALSE
    DeviceMayFail = FALSE
    RevocationsMayFail = TRUE
SPECIFICATION Spec
SYMMETRY PeerSymmetry
INVARIANT ActivePeerLimit
