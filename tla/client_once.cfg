\* The first registration may fail.
CONSTANTS
    Callers = {c1, c2}
    HashPorts = {0, 1}
    Ephemeral = {8, 9}
    ServerKeys = {k1, k2}
    NoKey = NoKey
    UseRelay = TRUE
    LostAfter = 1
    MaxFaults = 1
SPECIFICATION Spec
INVARIANT ListenersRegistered
CHECK_DEADLOCK FALSE
