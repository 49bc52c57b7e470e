------------------------------ MODULE HostNames ------------------------------
(***************************************************************************)
(* The label of a host name and the WireGuard endpoint it stands for       *)
(* (GetEncodedIPPort and LookupEncodedIPPort, internal/ip.go).  A label is *)
(* typed digit by digit, so every label up to a length is looked up.       *)
(*                                                                         *)
(* In the code a byte has 8 bits, a base32 digit 5, a quantum is 8 digits  *)
(* or 5 bytes, and an endpoint is the last 8 bytes of the address and 2 of *)
(* the port.  The sizes are constants; the payload fills whole quanta, as  *)
(* 10 bytes do.  A digit, an address and a port are their bits, the most   *)
(* significant one first.  Letters of either case are the same digit.      *)
(***************************************************************************)
EXTENDS Integers, SequencesExt

CONSTANTS
    ByteBits, DigitBits, QuantumDigits, QuantumBytes,
    IPBytes,      \* bytes of the address that vary
    MaxLabel,     \* bound: length of a label
    TailDigits    \* bound: the digits that go beyond the length of a name

PortBytes == 2
PayloadBytes == IPBytes + PortBytes
PayloadBits == PayloadBytes * ByteBits
NameLength == PayloadBits \div DigitBits
Digits == [1..DigitBits -> {0, 1}]
Invalid == <<>>   \* a character outside the alphabet
NoEndpoint == [ip |-> <<>>, port |-> <<>>]

ASSUME SizesAssumption ==
    /\ {ByteBits, DigitBits, QuantumDigits, QuantumBytes, IPBytes} \subseteq Nat \ {0}
    /\ DigitBits <= ByteBits
    /\ QuantumDigits * DigitBits = QuantumBytes * ByteBits
    /\ PayloadBytes % QuantumBytes = 0
    /\ MaxLabel \in Nat /\ TailDigits \subseteq Digits

VARIABLE label

LabelInit == label = <<>>
Type(d) ==
    /\ Len(label) < MaxLabel
    /\ Len(label) >= NameLength => d \in TailDigits
    /\ label' = Append(label, d)
LabelNext == \E d \in Digits \cup {Invalid} : Type(d)
LabelSpec == LabelInit /\ [][LabelNext]_label

-----------------------------------------------------------------------------
(* Base32 without padding. *)

(* Digits that hold a number of bytes. *)
DigitsFor(bytes) == (bytes * ByteBits + DigitBits - 1) \div DigitBits

(* A rest of a quantum is decoded only if it has as many digits as some    *)
(* number of bytes needs; otherwise it is passed over without an error.    *)
(* No two numbers need the same, as a byte has no fewer bits than a digit. *)
RestBytes(digits) ==
    LET fits == {k \in 1..QuantumBytes : DigitsFor(k) = digits}
    IN  IF fits = {} THEN 0 ELSE CHOOSE k \in fits : TRUE
DecodedBytes(digits) ==
    (digits \div QuantumDigits) * QuantumBytes + RestBytes(digits % QuantumDigits)

(* The bytes of a label: the leading bits of its digits. *)
DecodeString(digits) ==
    [i \in 1..(DecodedBytes(Len(digits)) * ByteBits) |->
        digits[(i - 1) \div DigitBits + 1][((i - 1) % DigitBits) + 1]]

EncodeToString(bits) ==
    [k \in 1..NameLength |-> [j \in 1..DigitBits |-> bits[(k - 1) * DigitBits + j]]]

(* binary.LittleEndian: the bytes of a port, and the port of two bytes. *)
AppendUint16(port) ==
    [i \in 1..(2 * ByteBits) |-> port[IF i <= ByteBits THEN i + ByteBits ELSE i - ByteBits]]
(* Mutant: network byte order. *)
Uint16BigEndian(bytes) == bytes
Uint16(bytes) ==
    [i \in 1..(2 * ByteBits) |-> bytes[IF i <= ByteBits THEN i + ByteBits ELSE i - ByteBits]]

(* Addresses are those of the tunnel: the empty name that the code gives   *)
(* to an address other than IPv6 is never asked for.                       *)
GetEncodedIPPort(addr) == EncodeToString(addr.ip \o AppendUint16(addr.port))

Zeros(n) == [i \in 1..n |-> 0]
(* Mutant: missing bytes are added at the end. *)
PaddedRight(bits) == bits \o Zeros(PayloadBits - Len(bits))
(* Missing bytes are zeros in front. *)
Padded(bits) == Zeros(PayloadBits - Len(bits)) \o bits

LookupEncodedIPPort(digits) ==
    LET bytes == DecodedBytes(Len(digits))
        payload == Padded(DecodeString(digits))
    IN  IF Contains(digits, Invalid) \/ bytes > PayloadBytes \/ bytes = 0
        THEN NoEndpoint
        ELSE [ip |-> SubSeq(payload, 1, IPBytes * ByteBits),
              port |-> Uint16(SubSeq(payload, IPBytes * ByteBits + 1, PayloadBits))]

-----------------------------------------------------------------------------
(* Names and endpoints correspond one to one: a label of the length of a   *)
(* name stands for an endpoint whose name it is.                           *)
NamesAreEndpoints ==
    Len(label) = NameLength /\ ~Contains(label, Invalid) =>
        /\ LookupEncodedIPPort(label) # NoEndpoint
        /\ GetEncodedIPPort(LookupEncodedIPPort(label)) = label

(* However the decoder treats labels that are too long or too short, a     *)
(* label reaches an endpoint only if it starts with the endpoint's name,   *)
(* or if it is shorter and the address starts with a zero byte.            *)
StrangersNotReached ==
    LET addr == LookupEncodedIPPort(label)
    IN  addr # NoEndpoint =>
            IF Len(label) >= NameLength
            THEN SubSeq(label, 1, NameLength) = GetEncodedIPPort(addr)
            ELSE \A i \in 1..ByteBits : addr.ip[i] = 0
=============================================================================
