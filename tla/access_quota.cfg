\* Daily usage and blocks of a shared key that two peers use, across days and crashes.
CONSTANTS
    p1 = p1  p2 = p2  k1 = k1  s1 = s1  s2 = s2  ip1 = ip1  ip2 = ip2
    Nil = Nil
    Peers = {p1, p2}
    KeyIDs = {}
    Secrets = {s1}
    IPs = {}
    Configs <- SharedQuotaConfigs
    RestoreEndpointMaxAge = 1
    StalePeerMaxIdle = 2
    PeerStateRetention = 2
    DayLength = 2
    MaxActivePeersPerIssuedKey = 1
    IssueLimit = 1
    MaxInt64 = 2
    StartTime = 2
    MaxTime = 4
    MaxRx = 1
    MaxTx = 0
    MaxHandlerTime = 1
    SaveMayFail = FALSE
    DeviceMayFail = FALSE
    RevocationsMayFail = FALSE
SPECIFICATION Spec
SYMMETRY PeerSymmetry
PROPERTIES QuotaNeverForgiven AdmissionRespectsQuota
