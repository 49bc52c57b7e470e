\* Two goroutines, a relay, a server that changes its key, three failures;
\* two handshakes on two listeners, two crashes or failed writes.
CONSTANTS
    Callers = {c1, c2}
    HashPorts = {0, 1}
    Ephemeral = {8, 9}
    ServerKeys = {k1, k2}
    NoKey = NoKey
    UseRelay = TRUE
    LostAfter = 1
    MaxFaults = 3
    Handshakes = {h1, h2}
    Listeners = {l1, l2}
    App = App
    Free = Free
    MaxCertFaults = 2
SPECIFICATION ClientSpec
INVARIANTS OnePeerWhileMonitored ChallengeServerAlone TornOnlyByFault
PROPERTIES Recovers HandshakesAnswered
CHECK_DEADLOCK FALSE
