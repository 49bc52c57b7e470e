\* A server without authentication whose quota changes between restarts.
CONSTANTS
    p1 = p1  p2 = p2  k1 = k1  s1 = s1  s2 = s2  ip1 = ip1  ip2 = ip2
    Nil = Nil
    Peers = {p1}
    KeyIDs = {}
    Secrets = {}
    IPs = {}
    Configs <- OpenQuotaConfigs
    RestoreEndpointMaxAge = 1
    StalePeerMaxIdle = 2
    PeerStateRetention = 2
    DayLength = 2
    MaxActivePeersPerIssuedKey = 1
    IssueLimit = 1
    MaxInt64 = 2
    StartTime = 2
    MaxTime = 4
    MaxRx = 1
    MaxTx = 1
    MaxHandlerTime = 1
    SaveMayFail = TRUE
    DeviceMayFail = TRUE
    RevocationsMayFail = FALSE
SPECIFICATION AccountedSpec
INVARIANTS TypeOK OwnerRecorded DeviceTracked
PROPERTIES QuotaNeverForgiven AdmissionRespectsQuota EveryByteOnce
