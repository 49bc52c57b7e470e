\* A rotated secret and a shared key; issued keys over two windows.
CONSTANTS
    p1 = p1  p2 = p2  k1 = k1  s1 = s1  s2 = s2  ip1 = ip1  ip2 = ip2
    Nil = Nil
    Peers = {p1}
    KeyIDs = {k1}
    Secrets = {s1, s2}
    IPs = {ip1}
    Configs <- RotatedConfigs
    RestoreEndpointMaxAge = 1
    StalePeerMaxIdle = 1
    PeerStateRetention = 2
    DayLength = 2
    MaxActivePeersPerIssuedKey = 1
    IssueLimit = 1
    MaxInt64 = 3
    StartTime = 2
    MaxTime = 4
    MaxRx = 0
    MaxTx = 0
    MaxHandlerTime = 1
    SaveMayFail = TRUE
    DeviceMayFail = FALSE
    RevocationsMayFail = FALSE
SPECIFICATION Spec
INVARIANTS AuthorizedActive IssueLimitDurable
PROPERTIES IssueWindowFixed KeysAtLimitedRate
