\* Bytes of five bits, digits of three and all labels of up to five digits,
\* with up to three more that are all zeros or all ones;
\* names in every spelling and up to two static routes; two concurrent
\* requests, two addresses and a duration of two ticks.
CONSTANTS
    ByteBits = 5
    DigitBits = 3
    QuantumDigits = 5
    QuantumBytes = 3
    IPBytes = 1
    MaxLabel = 8
    TailDigits <- MCTailDigits
    a = a  b = b  t1 = t1  t2 = t2
    Nil = Nil
    Hosts <- MCHosts
    ApiDomain <- MCApiDomain
    Clients = {a, b}
    Endpoints <- MCEndpoints
    Targets = {t1, t2}
    BadTarget = BadTarget
    MaxLines = 2
    Requests = {r1, r2}
    IPs = {"a", "b"}
    Once = 2
    MaxTime = 4
SPECIFICATION EdgeSpec
INVARIANTS GateTypeOK NamesAreEndpoints StrangersNotReached ReservedNames StaticServed CertificateOwner
PROPERTY OnlyAuthenticated
CHECK_DEADLOCK FALSE
