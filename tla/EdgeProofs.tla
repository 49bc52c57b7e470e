------------------------------ MODULE EdgeProofs ------------------------------
(***************************************************************************)
(* Proofs about HostNames and SniRouting.  For every size of bytes, digits *)
(* and addresses, names and endpoints correspond one to one.  For every    *)
(* API domain, every set of host names and every configuration of static   *)
(* routes, the three readings of a host name (static routes, tunnels,      *)
(* certificates) agree.                                                    *)
(***************************************************************************)
EXTENDS HostNames, SniRouting, SequenceTheorems, TLAPS

-----------------------------------------------------------------------------
(* Numbers and sequences. *)

(* A number that is k whole units and a rest, taken apart. *)
LEMMA DivMod ==
    ASSUME NEW d \in Nat \ {0}, NEW k \in Nat, NEW r \in 0..(d - 1)
    PROVE  /\ (k * d + r) \div d = k
           /\ (k * d + r) % d = r
<1> DEFINE x == k * d + r
           q == x \div d
           s == x % d
<1>1. x \in Nat
  OBVIOUS
<1>2. q \in Nat /\ s \in 0..(d - 1) /\ x = q * d + s
  BY <1>1
<1> HIDE DEF q, s
<1>3. q * d + s = k * d + r
  BY <1>2
<1>4. q >= k
  <2> SUFFICES ASSUME q + 1 <= k PROVE FALSE
    BY <1>2
  <2>1. (q + 1) * d <= k * d
    BY <1>2
  <2>2. (q + 1) * d = q * d + d
    BY <1>2
  <2> QED BY <2>1, <2>2, <1>2, <1>3
<1>5. k >= q
  <2> SUFFICES ASSUME k + 1 <= q PROVE FALSE
    BY <1>2
  <2>1. (k + 1) * d <= q * d
    BY <1>2
  <2>2. (k + 1) * d = k * d + d
    OBVIOUS
  <2> QED BY <2>1, <2>2, <1>2, <1>3
<1>6. q = k
  BY <1>2, <1>4, <1>5
<1> QED BY <1>2, <1>3, <1>6 DEF q, s

(* A division, as whole units and a rest. *)
LEMMA Division ==
    ASSUME NEW d \in Nat \ {0}, NEW x \in Nat
    PROVE  /\ x \div d \in Nat
           /\ x % d \in 0..(d - 1)
           /\ x = (x \div d) * d + (x % d)
OBVIOUS

(* A function on an initial segment is a sequence. *)
LEMMA FunctionIsSeq ==
    ASSUME NEW S, NEW n \in Nat, NEW f \in [1..n -> S]
    PROVE  f \in Seq(S) /\ Len(f) = n
OBVIOUS

(* Two sequences after each other. *)
LEMMA Joined ==
    ASSUME NEW S, NEW s \in Seq(S), NEW t \in Seq(S),
           NEW m \in Nat, NEW n \in Nat, NEW l \in Nat, Len(s) = m, Len(t) = n, l = m + n
    PROVE  /\ s \o t \in Seq(S) /\ Len(s \o t) = l
           /\ s \o t \in [1..l -> S]
           /\ \A i \in 1..l : (s \o t)[i] = IF i <= m THEN s[i] ELSE t[i - m]
<1>1. s \o t \in Seq(S) /\ Len(s \o t) = l
  OBVIOUS
<1>2. \A i \in 1..l : (s \o t)[i] = IF i <= m THEN s[i] ELSE t[i - m]
  OBVIOUS
<1> QED BY <1>1, <1>2, LenProperties

(* A slice of a sequence. *)
LEMMA Slice ==
    ASSUME NEW S, NEW s \in Seq(S), NEW m \in Nat \ {0}, NEW n \in Nat,
           m <= n, n <= Len(s), NEW l \in Nat, l = n - m + 1
    PROVE  /\ SubSeq(s, m, n) \in Seq(S) /\ Len(SubSeq(s, m, n)) = l
           /\ SubSeq(s, m, n) \in [1..l -> S]
           /\ \A i \in 1..l : SubSeq(s, m, n)[i] = s[m + i - 1]
<1>1. \A i \in m..n : s[i] \in S
  OBVIOUS
<1>2. /\ SubSeq(s, m, n) \in Seq(S)
      /\ Len(SubSeq(s, m, n)) = l
      /\ \A i \in 1..l : SubSeq(s, m, n)[i] = s[m + i - 1]
  BY <1>1
<1> QED BY <1>2, LenProperties

(* The payload fills a number of quanta; so does a name. *)
LEMMA Quanta ==
    \E m \in Nat \ {0} :
        /\ PayloadBytes = m * QuantumBytes
        /\ NameLength = m * QuantumDigits
        /\ PayloadBits = NameLength * DigitBits
<1> USE SizesAssumption
<1> DEFINE m == PayloadBytes \div QuantumBytes
<1>1. PayloadBytes \in Nat \ {0}
  BY DEF PayloadBytes, PortBytes
<1>2. m \in Nat /\ PayloadBytes = m * QuantumBytes
  <2>1. QuantumBytes \in Nat \ {0} /\ PayloadBytes \in Nat
    BY <1>1
  <2>2. m \in Nat /\ PayloadBytes = m * QuantumBytes + (PayloadBytes % QuantumBytes)
    BY <2>1, Division
  <2> HIDE DEF m
  <2> QED BY <2>1, <2>2
<1>3. m # 0
  BY <1>1, <1>2
<1> HIDE DEF m
<1>4. PayloadBits = (m * QuantumBytes) * ByteBits
  BY <1>2 DEF PayloadBits
<1>5. (m * QuantumBytes) * ByteBits = m * (QuantumBytes * ByteBits)
  BY <1>2
<1>6. m * (QuantumDigits * DigitBits) = (m * QuantumDigits) * DigitBits
  BY <1>2
<1>7. PayloadBits = (m * QuantumDigits) * DigitBits
  BY <1>4, <1>5, <1>6
<1>8. m * QuantumDigits \in Nat
  BY <1>2
<1>9. NameLength = m * QuantumDigits
  <2>1. ((m * QuantumDigits) * DigitBits + 0) \div DigitBits = m * QuantumDigits
    BY <1>8, DivMod
  <2>2. PayloadBits + 0 = PayloadBits
    BY <1>7, <1>8
  <2> QED BY <1>7, <2>1, <2>2 DEF NameLength
<1> QED BY <1>2, <1>3, <1>7, <1>9

(* A rest of a quantum holds fewer bytes than a quantum, and none has none. *)
LEMMA RestBytesBound ==
    ASSUME NEW r \in 0..(QuantumDigits - 1)
    PROVE  RestBytes(r) \in 0..(QuantumBytes - 1) /\ (r = 0 => RestBytes(r) = 0)
<1> USE SizesAssumption
<1> DEFINE fits == {k \in 1..QuantumBytes : DigitsFor(k) = r}
<1>1. DigitsFor(QuantumBytes) = QuantumDigits
  <2>1. QuantumBytes * ByteBits + DigitBits - 1 = QuantumDigits * DigitBits + (DigitBits - 1)
    OBVIOUS
  <2>2. (QuantumDigits * DigitBits + (DigitBits - 1)) \div DigitBits = QuantumDigits
    <3>1. PICK rest \in 0..(DigitBits - 1) : rest = DigitBits - 1
      OBVIOUS
    <3>2. (QuantumDigits * DigitBits + rest) \div DigitBits = QuantumDigits
      BY <3>1, DivMod
    <3> QED BY <3>1, <3>2
  <2> QED BY <2>1, <2>2 DEF DigitsFor
<1>2. fits \subseteq 1..(QuantumBytes - 1)
  BY <1>1
<1>3. r = 0 => fits = {}
  <2> SUFFICES ASSUME r = 0, NEW k \in fits PROVE FALSE
    OBVIOUS
  <2> DEFINE x == k * ByteBits + DigitBits - 1
  <2>1. k \in Nat \ {0} /\ x \div DigitBits = 0
    BY DEF DigitsFor
  <2>2. k * ByteBits >= 1
    BY <2>1
  <2>3. x \in Nat /\ x >= DigitBits
    BY <2>1, <2>2
  <2>4. x = (x \div DigitBits) * DigitBits + (x % DigitBits) /\ x % DigitBits \in 0..(DigitBits - 1)
    BY <2>3, Division
  <2> HIDE DEF x
  <2> QED BY <2>1, <2>3, <2>4
<1>4. RestBytes(r) = IF fits = {} THEN 0 ELSE CHOOSE k \in fits : TRUE
  BY DEF RestBytes
<1> HIDE DEF fits
<1>5. CASE fits = {}
  BY <1>4, <1>5
<1>6. CASE fits # {}
  <2>1. RestBytes(r) \in fits
    BY <1>4, <1>6
  <2>2. r # 0 /\ RestBytes(r) \in 1..(QuantumBytes - 1)
    BY <2>1, <1>2, <1>3, <1>6, Zenon
  <2> QED BY <2>2
<1> QED BY <1>5, <1>6

(* A label as long as a name decodes to a payload; a longer one to as much *)
(* or more, a shorter one to less.                                         *)
LEMMA DecodedLength ==
    ASSUME NEW n \in Nat
    PROVE  /\ DecodedBytes(n) \in Nat
           /\ n = NameLength => DecodedBytes(n) = PayloadBytes
           /\ n >= NameLength => DecodedBytes(n) >= PayloadBytes
           /\ n < NameLength => DecodedBytes(n) < PayloadBytes
<1> USE SizesAssumption
<1>1. PICK m \in Nat \ {0} :
          PayloadBytes = m * QuantumBytes /\ NameLength = m * QuantumDigits
  BY Quanta
<1> DEFINE q == n \div QuantumDigits
           r == n % QuantumDigits
           b == RestBytes(r)
<1>2. q \in Nat /\ r \in 0..(QuantumDigits - 1) /\ n = q * QuantumDigits + r
  BY Division
<1>3. b \in 0..(QuantumBytes - 1) /\ (r = 0 => b = 0)
  BY <1>2, RestBytesBound
<1>4. DecodedBytes(n) = q * QuantumBytes + b
  BY DEF DecodedBytes
<1> HIDE DEF q, r, b
<1>5. DecodedBytes(n) \in Nat
  BY <1>2, <1>3, <1>4
<1>6. n = NameLength => DecodedBytes(n) = PayloadBytes
  <2> SUFFICES ASSUME n = NameLength PROVE DecodedBytes(n) = PayloadBytes
    OBVIOUS
  <2>1. (m * QuantumDigits + 0) \div QuantumDigits = m /\ (m * QuantumDigits + 0) % QuantumDigits = 0
    <3>1. 0 \in 0..(QuantumDigits - 1) /\ QuantumDigits \in Nat \ {0} /\ m \in Nat
      OBVIOUS
    <3> QED BY <3>1, DivMod, Zenon
  <2>2. n = m * QuantumDigits + 0
    BY <1>1
  <2>3. q = m /\ r = 0
    BY <2>1, <2>2 DEF q, r
  <2> QED BY <2>3, <1>1, <1>3, <1>4
<1>7. n >= NameLength => DecodedBytes(n) >= PayloadBytes
  <2> SUFFICES ASSUME n >= NameLength PROVE q * QuantumBytes + b >= m * QuantumBytes
    BY <1>1, <1>4
  <2>1. q >= m
    <3> SUFFICES ASSUME q + 1 <= m PROVE FALSE
      BY <1>2
    <3>1. (q + 1) * QuantumDigits <= m * QuantumDigits
      BY <1>2
    <3>2. (q + 1) * QuantumDigits = q * QuantumDigits + QuantumDigits
      BY <1>2
    <3> QED BY <3>1, <3>2, <1>1, <1>2
  <2>2. q * QuantumBytes >= m * QuantumBytes
    BY <2>1, <1>2
  <2> QED BY <2>2, <1>2, <1>3
<1>8. n < NameLength => DecodedBytes(n) < PayloadBytes
  <2> SUFFICES ASSUME n < NameLength PROVE q * QuantumBytes + b < m * QuantumBytes
    BY <1>1, <1>4
  <2>1. q + 1 <= m
    <3> SUFFICES ASSUME q >= m PROVE FALSE
      BY <1>2
    <3>1. q * QuantumDigits >= m * QuantumDigits
      BY <1>2
    <3> QED BY <3>1, <1>1, <1>2
  <2>2. (q + 1) * QuantumBytes <= m * QuantumBytes
    BY <2>1, <1>2
  <2>3. (q + 1) * QuantumBytes = q * QuantumBytes + QuantumBytes
    BY <1>2
  <2> QED BY <2>2, <2>3, <1>2, <1>3
<1> QED BY <1>5, <1>6, <1>7, <1>8

-----------------------------------------------------------------------------
(* Bits, digits and bytes. *)

Bit == {0, 1}
IPBits == IPBytes * ByteBits
EndpointType == [ip : [1..IPBits -> Bit], port : [1..(2 * ByteBits) -> Bit]]

LEMMA Sizes ==
    /\ PayloadBits \in Nat \ {0} /\ NameLength \in Nat \ {0} /\ PayloadBytes \in Nat \ {0}
    /\ IPBits \in Nat \ {0}
    /\ PayloadBits = IPBits + 2 * ByteBits
    /\ PayloadBits = NameLength * DigitBits
    /\ ByteBits \in Nat \ {0} /\ DigitBits \in Nat \ {0}
<1> USE SizesAssumption
<1>1. PICK m \in Nat \ {0} :
        /\ PayloadBytes = m * QuantumBytes
        /\ NameLength = m * QuantumDigits
        /\ PayloadBits = NameLength * DigitBits
  BY Quanta
<1>2. ByteBits \in Nat \ {0} /\ DigitBits \in Nat \ {0} /\ IPBytes \in Nat \ {0}
  OBVIOUS
<1>3. PayloadBytes \in Nat \ {0}
  BY DEF PayloadBytes, PortBytes
<1>4. PayloadBits \in Nat \ {0}
  BY <1>2, <1>3 DEF PayloadBits
<1>5. NameLength \in Nat \ {0}
  BY <1>1
<1>6. IPBits \in Nat \ {0}
  BY <1>2 DEF IPBits
<1>7. PayloadBits = IPBits + 2 * ByteBits
  BY <1>2 DEF PayloadBits, IPBits, PayloadBytes, PortBytes
<1> QED BY <1>1, <1>2, <1>3, <1>4, <1>5, <1>6, <1>7

(* Bit j of digit k is bit (k - 1) * DigitBits + j of the payload. *)
LEMMA BitOfDigit ==
    ASSUME NEW k \in 1..NameLength, NEW j \in 1..DigitBits
    PROVE  LET i == (k - 1) * DigitBits + j
           IN  /\ i \in 1..PayloadBits
               /\ (i - 1) \div DigitBits + 1 = k
               /\ ((i - 1) % DigitBits) + 1 = j
<1> USE Sizes
<1>1. PICK h \in Nat, r \in 0..(DigitBits - 1) : k = h + 1 /\ j = r + 1
  OBVIOUS
<1>2. (h * DigitBits + r) \div DigitBits = h /\ (h * DigitBits + r) % DigitBits = r
  BY DivMod
<1>3. (k - 1) * DigitBits + j = h * DigitBits + r + 1 /\ h * DigitBits \in Nat
  BY <1>1
<1>4. h * DigitBits + DigitBits <= PayloadBits
  <2>1. (h + 1) * DigitBits <= NameLength * DigitBits
    BY <1>1
  <2>2. (h + 1) * DigitBits = h * DigitBits + DigitBits
    OBVIOUS
  <2> QED BY <2>1, <2>2
<1> DEFINE i == (k - 1) * DigitBits + j
<1>5. i \in 1..PayloadBits /\ i - 1 = h * DigitBits + r
  BY <1>3, <1>4
<1> HIDE DEF i
<1>6. (i - 1) \div DigitBits + 1 = k /\ ((i - 1) % DigitBits) + 1 = j
  BY <1>1, <1>2, <1>5
<1> QED BY <1>5, <1>6 DEF i

(* Every bit of the payload is a bit of one of the digits of a name. *)
LEMMA DigitOfBit ==
    ASSUME NEW i \in 1..PayloadBits
    PROVE  \E k \in 1..NameLength, j \in 1..DigitBits :
               /\ i = (k - 1) * DigitBits + j
               /\ (i - 1) \div DigitBits + 1 = k
               /\ ((i - 1) % DigitBits) + 1 = j
<1> USE Sizes
<1>1. PICK x \in Nat : x = i - 1 /\ x < PayloadBits
  OBVIOUS
<1>2. PICK h, r : h = x \div DigitBits /\ r = x % DigitBits
  OBVIOUS
<1>3. h \in Nat /\ r \in 0..(DigitBits - 1) /\ x = h * DigitBits + r
  BY <1>2, Division
<1>4. h + 1 <= NameLength
  <2> SUFFICES ASSUME NameLength <= h PROVE FALSE
    BY <1>3
  <2>1. NameLength * DigitBits <= h * DigitBits
    BY <1>3
  <2> QED BY <2>1, <1>1, <1>3
<1>5. PICK k \in 1..NameLength, j \in 1..DigitBits : k = h + 1 /\ j = r + 1
  BY <1>3, <1>4
<1>6. i = (k - 1) * DigitBits + j
  <2>1. k - 1 = h /\ i = x + 1
    BY <1>1, <1>3, <1>5
  <2> QED BY <2>1, <1>3, <1>5
<1> QED BY <1>1, <1>2, <1>5, <1>6

(* A label that decodes to a payload starts with the name of the payload. *)
LEMMA EncodeDecoded ==
    ASSUME NEW digits \in Seq(Digits), Len(digits) >= NameLength,
           DecodedBytes(Len(digits)) = PayloadBytes
    PROVE  /\ DecodeString(digits) \in [1..PayloadBits -> Bit]
           /\ EncodeToString(DecodeString(digits)) = SubSeq(digits, 1, NameLength)
<1> USE Sizes
<1> DEFINE bits == DecodeString(digits)
<1>1. bits = [i \in 1..PayloadBits |-> digits[(i - 1) \div DigitBits + 1][((i - 1) % DigitBits) + 1]]
  BY DEF DecodeString, PayloadBits
<1>2. ASSUME NEW k \in 1..NameLength
      PROVE  digits[k] \in Digits
  BY ElementOfSeq
<1>3. ASSUME NEW i \in 1..PayloadBits
      PROVE  bits[i] \in Bit
  <2>1. PICK k \in 1..NameLength, j \in 1..DigitBits :
            (i - 1) \div DigitBits + 1 = k /\ ((i - 1) % DigitBits) + 1 = j
    BY DigitOfBit
  <2>2. bits[i] = digits[k][j]
    BY <1>1, <2>1
  <2>3. digits[k] \in [1..DigitBits -> Bit]
    BY <1>2 DEF Digits, Bit
  <2> QED BY <2>2, <2>3
<1>4. bits \in [1..PayloadBits -> Bit]
  BY <1>1, <1>3
<1>5. ASSUME NEW k \in 1..NameLength, NEW j \in 1..DigitBits
      PROVE  bits[(k - 1) * DigitBits + j] = digits[k][j]
  <2>1. PICK i \in 1..PayloadBits :
            /\ i = (k - 1) * DigitBits + j
            /\ (i - 1) \div DigitBits + 1 = k /\ ((i - 1) % DigitBits) + 1 = j
    BY BitOfDigit
  <2>2. bits[i] = digits[k][j]
    BY <1>1, <2>1
  <2> QED BY <2>1, <2>2
<1> HIDE DEF bits
<1>6. ASSUME NEW k \in 1..NameLength
      PROVE  [j \in 1..DigitBits |-> bits[(k - 1) * DigitBits + j]] = digits[k]
  <2>1. digits[k] \in [1..DigitBits -> {0, 1}]
    BY <1>2 DEF Digits
  <2>2. digits[k] = [j \in 1..DigitBits |-> digits[k][j]]
    BY <2>1
  <2> QED BY <2>2, <1>5
<1>7. EncodeToString(bits) = [k \in 1..NameLength |-> digits[k]]
  BY <1>6 DEF EncodeToString
<1>8. SubSeq(digits, 1, NameLength) = [k \in 1..NameLength |-> digits[k]]
  OBVIOUS
<1> QED BY <1>4, <1>7, <1>8 DEF bits

(* Decoding a name gives back the payload it was made of. *)
LEMMA DecodeEncoded ==
    ASSUME NEW bits \in [1..PayloadBits -> Bit]
    PROVE  /\ EncodeToString(bits) \in Seq(Digits)
           /\ Len(EncodeToString(bits)) = NameLength
           /\ DecodeString(EncodeToString(bits)) = bits
<1> USE Sizes
<1> DEFINE digits == EncodeToString(bits)
<1>1. ASSUME NEW k \in 1..NameLength, NEW j \in 1..DigitBits
      PROVE  digits[k][j] = bits[(k - 1) * DigitBits + j]
  BY DEF EncodeToString
<1>2. ASSUME NEW k \in 1..NameLength
      PROVE  digits[k] \in Digits
  <2>1. ASSUME NEW j \in 1..DigitBits
        PROVE  bits[(k - 1) * DigitBits + j] \in Bit
    BY BitOfDigit
  <2>2. digits[k] = [j \in 1..DigitBits |-> bits[(k - 1) * DigitBits + j]]
    BY DEF EncodeToString
  <2> QED BY <2>1, <2>2 DEF Digits, Bit
<1>3. digits \in [1..NameLength -> Digits]
  BY <1>2 DEF EncodeToString
<1>4. digits \in Seq(Digits) /\ Len(digits) = NameLength
  BY <1>3, FunctionIsSeq
<1>5. DecodedBytes(NameLength) = PayloadBytes
  BY DecodedLength
<1> HIDE DEF digits
<1>6. DecodeString(digits) =
          [i \in 1..PayloadBits |-> digits[(i - 1) \div DigitBits + 1][((i - 1) % DigitBits) + 1]]
  BY <1>4, <1>5 DEF DecodeString, PayloadBits
<1>7. ASSUME NEW i \in 1..PayloadBits
      PROVE  digits[(i - 1) \div DigitBits + 1][((i - 1) % DigitBits) + 1] = bits[i]
  <2>1. PICK k \in 1..NameLength, j \in 1..DigitBits :
            /\ i = (k - 1) * DigitBits + j
            /\ (i - 1) \div DigitBits + 1 = k /\ ((i - 1) % DigitBits) + 1 = j
    BY DigitOfBit
  <2> QED BY <2>1, <1>1
<1>8. DecodeString(digits) = bits
  BY <1>6, <1>7
<1> QED BY <1>4, <1>8 DEF digits

(* The two bytes of a port, swapped and swapped back. *)
LEMMA SwapTwice ==
    ASSUME NEW x \in [1..(2 * ByteBits) -> Bit]
    PROVE  /\ Uint16(x) \in [1..(2 * ByteBits) -> Bit]
           /\ AppendUint16(x) \in [1..(2 * ByteBits) -> Bit]
           /\ AppendUint16(Uint16(x)) = x
           /\ Uint16(AppendUint16(x)) = x
BY Sizes DEF Uint16, AppendUint16

-----------------------------------------------------------------------------
(* Names and endpoints. *)

LabelInv == label \in Seq(Digits \cup {Invalid})

LEMMA LabelTyped == LabelSpec => []LabelInv
<1>1. LabelInit => LabelInv
  BY DEF LabelInit, LabelInv
<1>2. LabelInv /\ [LabelNext]_label => LabelInv'
  BY DEF LabelInv, LabelNext, Type
<1> QED BY <1>1, <1>2, PTL DEF LabelSpec

(* A payload that is complete is not padded. *)
LEMMA NothingToPad ==
    ASSUME NEW bits \in [1..PayloadBits -> Bit]
    PROVE  Padded(bits) = bits
<1>1. bits \in Seq(Bit) /\ Len(bits) = PayloadBits
  BY Sizes, FunctionIsSeq
<1>2. Zeros(PayloadBits - Len(bits)) = <<>>
  BY <1>1, Sizes DEF Zeros
<1> QED BY <1>1, <1>2, ConcatEmptySeq DEF Padded

(* The endpoint of a label that decodes to a payload. *)
LEMMA EndpointOf ==
    ASSUME NEW digits \in Seq(Digits \cup {Invalid}), ~Contains(digits, Invalid),
           Len(digits) >= NameLength, DecodedBytes(Len(digits)) = PayloadBytes
    PROVE  LET bits == DecodeString(digits)
               addr == LookupEncodedIPPort(digits)
           IN  /\ digits \in Seq(Digits)
               /\ bits \in [1..PayloadBits -> Bit]
               /\ addr = [ip |-> SubSeq(bits, 1, IPBits),
                          port |-> Uint16(SubSeq(bits, IPBits + 1, PayloadBits))]
               /\ addr \in EndpointType
               /\ addr # NoEndpoint
               /\ addr.ip \o AppendUint16(addr.port) = bits
<1> USE Sizes
<1> DEFINE bits == DecodeString(digits)
           addr == LookupEncodedIPPort(digits)
           high == SubSeq(bits, 1, IPBits)
           low == SubSeq(bits, IPBits + 1, PayloadBits)
<1>1. digits \in Seq(Digits)
  <2>1. ASSUME NEW k \in 1..Len(digits)
        PROVE  digits[k] \in Digits
    BY DEF Contains
  <2> QED BY <2>1
<1>2. bits \in [1..PayloadBits -> Bit]
  BY <1>1, EncodeDecoded
<1>3. addr = [ip |-> high, port |-> Uint16(low)]
  <2>1. Padded(bits) = bits
    BY <1>2, NothingToPad
  <2> HIDE DEF bits
  <2> QED BY <2>1 DEF LookupEncodedIPPort, IPBits, bits
<1> HIDE DEF bits, addr
<1>4. bits \in Seq(Bit) /\ Len(bits) = PayloadBits
  BY <1>2, FunctionIsSeq
<1>5. high \in [1..IPBits -> Bit] /\ high \in Seq(Bit) /\ Len(high) = IPBits
  <2>1. IPBits = IPBits - 1 + 1 /\ 1 <= IPBits /\ IPBits <= Len(bits)
    BY <1>4
  <2> QED BY <1>4, <2>1, Slice
<1>6. low \in [1..(2 * ByteBits) -> Bit]
  <2>1. PICK m \in Nat \ {0}, l \in Nat :
            /\ m = IPBits + 1 /\ l = 2 * ByteBits
            /\ m <= PayloadBits /\ PayloadBits <= Len(bits) /\ l = PayloadBits - m + 1
    BY <1>4
  <2>2. SubSeq(bits, m, PayloadBits) \in [1..l -> Bit]
    BY <1>4, <2>1, Slice
  <2> QED BY <2>1, <2>2
<1>7. Uint16(low) \in [1..(2 * ByteBits) -> Bit] /\ AppendUint16(Uint16(low)) = low
  BY <1>6, SwapTwice
<1>8. high \o low = bits
  <2>1. SubSeq(bits, 1, IPBits) \o SubSeq(bits, IPBits + 1, PayloadBits) = SubSeq(bits, 1, PayloadBits)
    <3>1. 1 \in 1..Len(bits) + 1 /\ IPBits \in 1 - 1..Len(bits) /\ PayloadBits \in IPBits..Len(bits)
      BY <1>4
    <3> QED BY <1>4, <3>1, ConcatAdjacentSubSeq
  <2>2. SubSeq(bits, 1, PayloadBits) = bits
    BY <1>4, SubSeqFull
  <2> QED BY <2>1, <2>2
<1>9. high # <<>>
  BY <1>5
<1> HIDE DEF high, low
<1>10. addr \in EndpointType /\ addr.ip = high /\ addr.port = Uint16(low)
  BY <1>3, <1>5, <1>7 DEF EndpointType
<1>11. addr # NoEndpoint
  BY <1>9, <1>10 DEF NoEndpoint
<1>12. addr.ip \o AppendUint16(addr.port) = bits
  BY <1>7, <1>8, <1>10
<1> QED BY <1>1, <1>2, <1>3, <1>10, <1>11, <1>12 DEF bits, addr, high, low

(* A label that decodes to a payload starts with the name of its endpoint. *)
LEMMA NameOfEndpoint ==
    ASSUME NEW digits \in Seq(Digits \cup {Invalid}), ~Contains(digits, Invalid),
           Len(digits) >= NameLength, DecodedBytes(Len(digits)) = PayloadBytes
    PROVE  /\ LookupEncodedIPPort(digits) # NoEndpoint
           /\ GetEncodedIPPort(LookupEncodedIPPort(digits)) = SubSeq(digits, 1, NameLength)
<1>1. /\ digits \in Seq(Digits)
      /\ LookupEncodedIPPort(digits) # NoEndpoint
      /\ LookupEncodedIPPort(digits).ip \o AppendUint16(LookupEncodedIPPort(digits).port)
             = DecodeString(digits)
  BY EndpointOf
<1>2. EncodeToString(DecodeString(digits)) = SubSeq(digits, 1, NameLength)
  BY <1>1, EncodeDecoded
<1> QED BY <1>1, <1>2 DEF GetEncodedIPPort

LEMMA NamesHold == LabelInv => NamesAreEndpoints
<1> SUFFICES ASSUME LabelInv, Len(label) = NameLength, ~Contains(label, Invalid)
             PROVE  /\ LookupEncodedIPPort(label) # NoEndpoint
                    /\ GetEncodedIPPort(LookupEncodedIPPort(label)) = label
  BY DEF NamesAreEndpoints
<1>1. label \in Seq(Digits \cup {Invalid}) /\ Len(label) \in Nat
  BY DEF LabelInv
<1>2. DecodedBytes(Len(label)) = PayloadBytes /\ Len(label) >= NameLength
  BY <1>1, DecodedLength, Sizes
<1>3. SubSeq(label, 1, NameLength) = label
  BY <1>1, SubSeqFull
<1> QED BY <1>1, <1>2, <1>3, NameOfEndpoint

(* A short label leaves the first byte to the padding. *)
LEMMA ShortLabel ==
    ASSUME NEW digits \in Seq(Digits \cup {Invalid}), Len(digits) < NameLength,
           LookupEncodedIPPort(digits) # NoEndpoint
    PROVE  \A i \in 1..ByteBits : LookupEncodedIPPort(digits).ip[i] = 0
<1>0. /\ PayloadBits \in Nat /\ PayloadBytes \in Nat /\ IPBits \in Nat /\ NameLength \in Nat
      /\ ByteBits \in Nat \ {0} /\ PayloadBits = IPBits + 2 * ByteBits
  BY Sizes
<1>1. PICK bytes \in Nat : bytes = DecodedBytes(Len(digits)) /\ bytes < PayloadBytes
  BY <1>0, DecodedLength
<1> DEFINE bits == DecodeString(digits)
           n == bytes * ByteBits
<1>2. n \in Nat /\ n + ByteBits <= PayloadBits
  <2>1. (bytes + 1) * ByteBits <= PayloadBytes * ByteBits
    BY <1>0, <1>1
  <2>2. (bytes + 1) * ByteBits = n + ByteBits
    BY <1>0
  <2> QED BY <1>0, <2>1, <2>2 DEF PayloadBits
<1>3. PICK S : bits \in [1..n -> S]
  <2>1. bits \in [1..n -> {bits[i] : i \in 1..n}]
    BY <1>1 DEF DecodeString
  <2> QED BY <2>1
<1>4. PICK pad \in Nat : pad = PayloadBits - n /\ pad >= ByteBits
  BY <1>0, <1>2
<1> HIDE DEF n
<1>5. bits \in Seq(S \cup Bit) /\ Len(bits) = n
  <2>1. bits \in [1..n -> S \cup Bit]
    BY <1>3
  <2> QED BY <2>1, <1>2, FunctionIsSeq
<1>6. LookupEncodedIPPort(digits).ip = SubSeq(Padded(bits), 1, IPBits)
  <2> HIDE DEF bits
  <2> QED BY DEF LookupEncodedIPPort, IPBits, bits
<1> HIDE DEF bits
<1>7. Padded(bits) = Zeros(pad) \o bits
  BY <1>4, <1>5 DEF Padded
<1>8. Zeros(pad) \in Seq(S \cup Bit) /\ Len(Zeros(pad)) = pad /\ \A i \in 1..pad : Zeros(pad)[i] = 0
  <2>1. Zeros(pad) \in [1..pad -> S \cup Bit] /\ \A i \in 1..pad : Zeros(pad)[i] = 0
    BY DEF Zeros, Bit
  <2> QED BY <2>1, FunctionIsSeq
<1>9. /\ Padded(bits) \in Seq(S \cup Bit) /\ Len(Padded(bits)) = PayloadBits
      /\ \A i \in 1..pad : Padded(bits)[i] = 0
  <2>1. /\ Padded(bits) \in Seq(S \cup Bit) /\ Len(Padded(bits)) = PayloadBits
        /\ \A i \in 1..PayloadBits : Padded(bits)[i] =
                 IF i <= pad THEN Zeros(pad)[i] ELSE bits[i - pad]
    <3>0. PICK T : T = S \cup Bit
      OBVIOUS
    <3>3. PICK z, y : z = Zeros(pad) /\ y = bits
      OBVIOUS
    <3>4. PICK l \in Nat, k \in Nat : l = PayloadBits /\ k = n
      BY <1>0, <1>2
    <3>1. z \in Seq(T) /\ y \in Seq(T) /\ Len(z) = pad /\ Len(y) = k /\ l = pad + k
      BY <1>0, <1>2, <1>4, <1>5, <1>8, <3>0, <3>3, <3>4
    <3>2. /\ z \o y \in Seq(T) /\ Len(z \o y) = l
          /\ \A i \in 1..l : (z \o y)[i] = IF i <= pad THEN z[i] ELSE y[i - pad]
      BY <3>1, Joined
    <3> QED BY <3>0, <3>3, <3>4, <3>2, <1>7
  <2>2. \A i \in 1..pad : Padded(bits)[i] = 0
    BY <2>1, <1>0, <1>2, <1>4, <1>8
  <2> QED BY <2>1, <2>2
<1>10. ByteBits <= IPBits /\ IPBits <= PayloadBits
  <2>1. IPBytes \in Nat \ {0}
    BY SizesAssumption
  <2>2. 1 * ByteBits <= IPBytes * ByteBits
    BY <1>0, <2>1
  <2>3. IPBytes * ByteBits = IPBits
    BY DEF IPBits
  <2> QED BY <1>0, <2>2, <2>3
<1>11. ASSUME NEW i \in 1..ByteBits
       PROVE  SubSeq(Padded(bits), 1, IPBits)[i] = 0
  <2>1. i \in 1..IPBits /\ i \in 1..pad
    BY <1>0, <1>4, <1>10
  <2>2. SubSeq(Padded(bits), 1, IPBits)[i] = Padded(bits)[i]
    BY <2>1, <1>0, <1>9, <1>10
  <2> QED BY <2>1, <2>2, <1>9
<1> QED BY <1>6, <1>11

LEMMA StrangersHold == LabelInv => StrangersNotReached
<1> SUFFICES ASSUME LabelInv, LookupEncodedIPPort(label) # NoEndpoint
             PROVE  IF Len(label) >= NameLength
                    THEN SubSeq(label, 1, NameLength)
                             = GetEncodedIPPort(LookupEncodedIPPort(label))
                    ELSE \A i \in 1..ByteBits : LookupEncodedIPPort(label).ip[i] = 0
  BY DEF StrangersNotReached
<1>1. label \in Seq(Digits \cup {Invalid}) /\ Len(label) \in Nat /\ NameLength \in Nat
  BY Sizes DEF LabelInv
<1>2. CASE Len(label) >= NameLength
  <2>1. ~Contains(label, Invalid) /\ ~(DecodedBytes(Len(label)) > PayloadBytes)
    BY DEF LookupEncodedIPPort
  <2>2. DecodedBytes(Len(label)) = PayloadBytes
    <3>1. DecodedBytes(Len(label)) \in Nat /\ DecodedBytes(Len(label)) >= PayloadBytes
      BY <1>1, <1>2, DecodedLength
    <3> QED BY <2>1, <3>1, Sizes
  <2> QED BY <1>1, <1>2, <2>1, <2>2, NameOfEndpoint
<1>3. CASE Len(label) < NameLength
  <2>1. \A i \in 1..ByteBits : LookupEncodedIPPort(label).ip[i] = 0
    BY <1>1, <1>3, ShortLabel
  <2> QED BY <2>1, <1>1, <1>3
<1> QED BY <1>1, <1>2, <1>3

-----------------------------------------------------------------------------
(* Host names and routes. *)

HostNameType == [labels : Seq(STRING), dots : Nat, upper : BOOLEAN]

(* What parseSNIConfig guarantees of the routes it returns: names in their *)
(* normal form, none of them reserved, and one target for each.            *)
RoutesInv ==
    routes # Nil =>
        /\ \A r \in routes :
               /\ r.host \in HostNameType
               /\ r.host.dots = 0
               /\ r.host.upper = FALSE
               /\ ~Reserved(r.host)
        /\ \A r, s \in routes : r.host = s.host => r = s

(* The last connection was routed by the routes that are still in force. *)
ConnInv ==
    conn # Nil =>
        /\ routes # Nil
        /\ conn.host \in Hosts
        /\ conn.cname \in LookupCNAME(conn.host)
        /\ conn.route = Route(conn.host, conn.cname)

RouteInv == RoutesInv /\ ConnInv

-----------------------------------------------------------------------------
(* Names. *)

(* Normalising a name keeps its labels, makes it lower case and takes one  *)
(* dot off its end.                                                        *)
LEMMA NormalForm ==
    ASSUME NEW host \in HostNameType
    PROVE  /\ normalizeSNIHost(host) \in HostNameType
           /\ normalizeSNIHost(host).labels = host.labels
           /\ normalizeSNIHost(host).upper = FALSE
           /\ normalizeSNIHost(host).dots = IF host.dots = 0 THEN 0 ELSE host.dots - 1
<1> DEFINE t == TrimDot(host)
<1>1. /\ t \in HostNameType
      /\ t.labels = host.labels
      /\ t.dots = IF host.dots = 0 THEN 0 ELSE host.dots - 1
  BY DEF TrimDot, HostNameType
<1> HIDE DEF t
<1>2. /\ ToLower(t) \in HostNameType
      /\ ToLower(t).labels = t.labels
      /\ ToLower(t).upper = FALSE
      /\ ToLower(t).dots = t.dots
  BY <1>1 DEF ToLower, HostNameType
<1> QED BY <1>1, <1>2 DEF normalizeSNIHost, t

(* Two normal forms are equal when their labels and dots are. *)
LEMMA SameName ==
    ASSUME NEW x \in HostNameType, NEW y \in HostNameType,
           x.labels = y.labels, x.dots = y.dots, x.upper = y.upper
    PROVE  x = y
BY DEF HostNameType

(* A suffix of the same length is the sequence itself. *)
LEMMA WholeSuffix ==
    ASSUME NEW s \in Seq(STRING), NEW t \in Seq(STRING),
           IsSuffix(s, t), Len(s) = Len(t)
    PROVE  s = t
<1>1. Reverse(s) \in Seq(STRING) /\ Len(Reverse(s)) = Len(s)
  BY DEF Reverse
<1>2. Reverse(t) \in Seq(STRING) /\ Len(Reverse(t)) = Len(t)
  BY DEF Reverse
<1>3. ASSUME NEW i \in 1..Len(s)
      PROVE  Reverse(s)[i] = Reverse(t)[i]
  <2>1. SubSeq(Reverse(s), 1, Len(s))[i] = Reverse(s)[i]
    BY <1>1
  <2>2. SubSeq(Reverse(t), 1, Len(s))[i] = Reverse(t)[i]
    BY <1>2
  <2> QED BY <2>1, <2>2, <1>1, <1>2 DEF IsSuffix, IsPrefix
<1>4. ASSUME NEW j \in 1..Len(s)
      PROVE  s[j] = t[j]
  <2> DEFINE i == (Len(s) - j) + 1
  <2>1. i \in 1..Len(s) /\ (Len(s) - i) + 1 = j
    OBVIOUS
  <2>2. Reverse(s)[i] = s[j] /\ Reverse(t)[i] = t[j]
    BY <2>1 DEF Reverse
  <2> QED BY <2>1, <2>2, <1>3
<1> QED BY <1>4

(* The API domain is a name, already without a dot at its end. *)
LEMMA ApiName ==
    /\ ApiDomain \in HostNameType
    /\ normalizeSNIHost(ApiDomain) = ToLower(ApiDomain)
    /\ ToLower(ApiDomain) \in HostNameType
    /\ ToLower(ApiDomain).labels = ApiDomain.labels
    /\ ToLower(ApiDomain).dots = 0
    /\ ToLower(ApiDomain).upper = FALSE
BY HostsAssumption, ApiAssumption DEF normalizeSNIHost, ToLower, TrimDot, HostNameType

(* A normal form without a dot that ends in the labels of the API domain   *)
(* is the API domain or a name under it.                                   *)
LEMMA ApiNamesReserved ==
    ASSUME NEW host \in HostNameType, host.dots = 0, host.upper = FALSE, OfApi(host)
    PROVE  Reserved(host)
<1> DEFINE api == ToLower(ApiDomain)
<1>1. api \in HostNameType /\ api.labels = ApiDomain.labels /\ api.dots = 0
      /\ api.upper = FALSE /\ normalizeSNIHost(ApiDomain) = api
  BY ApiName
<1>2. IsSuffix(api.labels, host.labels)
  BY <1>1 DEF OfApi
<1>3. api.labels \in Seq(STRING) /\ host.labels \in Seq(STRING)
  BY <1>1 DEF HostNameType
<1>4. Len(api.labels) <= Len(host.labels)
  BY <1>2, <1>3 DEF IsSuffix, IsPrefix, Reverse
<1> HIDE DEF api
<1>5. CASE Len(api.labels) = Len(host.labels)
  <2>1. api.labels = host.labels
    BY <1>2, <1>3, <1>5, WholeSuffix
  <2> QED BY <2>1, <1>1, SameName DEF Reserved
<1>6. CASE Len(api.labels) # Len(host.labels)
  <2>1. Len(host.labels) > Len(api.labels)
    BY <1>3, <1>4, <1>6
  <2> QED BY <2>1, <1>1, <1>2 DEF Reserved, Under
<1> QED BY <1>5, <1>6

-----------------------------------------------------------------------------
(* The routes of a configuration. *)

LEMMA ParsedRoutes ==
    ASSUME NEW n \in Nat, NEW lines \in [1..n -> Lines],
           routes = parseSNIConfig(lines)
    PROVE  RoutesInv
<1> DEFINE host(i) == normalizeSNIHost(lines[i].host)
<1> SUFFICES ASSUME routes # Nil PROVE RoutesInv
  BY DEF RoutesInv
<1>1. Len(lines) = n
  OBVIOUS
<1>2. /\ \A i \in 1..n : validDNSName(host(i)) /\ ~Reserved(host(i))
      /\ \A i \in 1..n : \A j \in 1..(i - 1) : host(j) # host(i)
      /\ routes = {RouteOfLine(lines[i]) : i \in 1..n}
  BY <1>1 DEF parseSNIConfig
<1>3. \A i \in 1..n : RouteOfLine(lines[i]).host = host(i)
  BY DEF RouteOfLine
<1>4. \A i \in 1..n : lines[i].host \in HostNameType
  BY HostsAssumption DEF Lines, HostNameType
<1>5. \A i \in 1..n : /\ host(i) \in HostNameType
                      /\ host(i).upper = FALSE
                      /\ host(i).dots = 0
  BY <1>2, <1>4, NormalForm DEF validDNSName
<1> HIDE DEF host
<1>6. \A i, j \in 1..n : host(i) = host(j) => i = j
  <2> SUFFICES ASSUME NEW i \in 1..n, NEW j \in 1..n, host(i) = host(j), i < j
               PROVE  FALSE
    OBVIOUS
  <2>1. i \in 1..(j - 1)
    OBVIOUS
  <2> QED BY <2>1, <1>2
<1>7. ASSUME NEW r \in routes
      PROVE  /\ r.host \in HostNameType
             /\ r.host.dots = 0
             /\ r.host.upper = FALSE
             /\ ~Reserved(r.host)
  <2>1. PICK i \in 1..n : r = RouteOfLine(lines[i])
    BY <1>2
  <2> QED BY <2>1, <1>2, <1>3, <1>5
<1>8. ASSUME NEW r \in routes, NEW s \in routes, r.host = s.host
      PROVE  r = s
  <2>1. PICK i \in 1..n : r = RouteOfLine(lines[i])
    BY <1>2
  <2>2. PICK j \in 1..n : s = RouteOfLine(lines[j])
    BY <1>2
  <2>3. i = j
    BY <2>1, <2>2, <1>3, <1>6, <1>8
  <2> QED BY <2>1, <2>2, <2>3
<1> QED BY <1>7, <1>8 DEF RoutesInv

(* The invariant: routes are in order, and a connection went where they    *)
(* sent it.                                                                *)
THEOREM RoutesInvariance == RouteSpec => []RouteInv
<1>1. RouteInit => RouteInv
  <2> SUFFICES ASSUME RouteInit PROVE RouteInv
    OBVIOUS
  <2>1. PICK n \in 0..MaxLines : \E lines \in [1..n -> Lines] : routes = parseSNIConfig(lines)
    BY DEF RouteInit
  <2>2. PICK lines \in [1..n -> Lines] : routes = parseSNIConfig(lines)
    BY <2>1
  <2>3. RoutesInv
    BY <2>2, ParsedRoutes
  <2> QED BY <2>3 DEF RouteInit, RouteInv, ConnInv
<1>2. RouteInv /\ [RouteNext]_routeVars => RouteInv'
  <2> SUFFICES ASSUME RouteInv, [RouteNext]_routeVars PROVE RouteInv'
    OBVIOUS
  <2>1. CASE UNCHANGED routeVars
    BY <2>1 DEF routeVars, RouteInv, RoutesInv, ConnInv, Route, Static
  <2>2. CASE RouteNext
    <3>1. PICK host \in Hosts : \E cname \in LookupCNAME(host) : Connect(host, cname)
      BY <2>2 DEF RouteNext
    <3>2. PICK cname \in LookupCNAME(host) : Connect(host, cname)
      BY <3>1
    <3>3. RoutesInv'
      BY <3>2 DEF Connect, RouteInv, RoutesInv
    <3>4. /\ routes' # Nil
          /\ conn'.host = host
          /\ conn'.cname = cname
          /\ conn'.route = Route(host, cname)
      BY <3>2 DEF Connect
    <3>5. Route(host, cname)' = Route(host, cname)
      BY <3>2 DEF Connect, Route, Static
    <3>6. ConnInv'
      BY <3>2, <3>4, <3>5 DEF ConnInv
    <3> QED BY <3>3, <3>6 DEF RouteInv
  <2> QED BY <2>1, <2>2
<1> QED BY <1>1, <1>2, PTL DEF RouteSpec

-----------------------------------------------------------------------------
(* What the invariant says of a connection. *)

LEMMA ReservedNamesHold == RouteInv => ReservedNames
<1> SUFFICES ASSUME RouteInv, conn # Nil, OfApi(conn.host), conn.route.kind = "static"
             PROVE  FALSE
  BY DEF ReservedNames
<1>1. routes # Nil /\ conn.host \in HostNameType /\ conn.route = Route(conn.host, conn.cname)
  BY HostsAssumption DEF RouteInv, ConnInv, HostNameType
<1>2. Static(conn.host) # {}
  BY <1>1 DEF Route
<1>3. PICK r \in routes : r.host = normalizeSNIHost(conn.host)
  BY <1>2 DEF Static
<1>4. r.host \in HostNameType /\ r.host.dots = 0 /\ r.host.upper = FALSE /\ ~Reserved(r.host)
  BY <1>1 DEF RouteInv, RoutesInv
<1>5. OfApi(r.host)
  BY <1>1, <1>3, NormalForm DEF OfApi
<1> QED BY <1>4, <1>5, ApiNamesReserved

LEMMA StaticServedHolds == RouteInv => StaticServed
<1> SUFFICES ASSUME RouteInv, conn # Nil, NEW r \in routes, SameDomain(conn.host, r.host)
             PROVE  conn.route = [kind |-> "static", target |-> r.target]
  BY DEF StaticServed
<1> DEFINE name == normalizeSNIHost(conn.host)
<1>1. routes # Nil /\ conn.host \in HostNameType /\ conn.route = Route(conn.host, conn.cname)
  BY HostsAssumption DEF RouteInv, ConnInv, HostNameType
<1>2. r.host \in HostNameType /\ r.host.dots = 0 /\ r.host.upper = FALSE /\ ~Reserved(r.host)
  BY <1>1 DEF RouteInv, RoutesInv
<1>3. name \in HostNameType /\ name.labels = conn.host.labels /\ name.upper = FALSE
      /\ name.dots = IF conn.host.dots = 0 THEN 0 ELSE conn.host.dots - 1
  BY <1>1, NormalForm
<1>4. name.dots = 0 /\ name.labels = r.host.labels
  <2>1. conn.host.dots \in Nat
    BY <1>1 DEF HostNameType
  <2> QED BY <1>3, <2>1 DEF SameDomain
<1> HIDE DEF name
<1>5. name = r.host
  BY <1>2, <1>3, <1>4, SameName
<1>6. name # normalizeSNIHost(ApiDomain)
  BY <1>2, <1>5 DEF Reserved
<1>7. Static(conn.host) = {r}
  BY <1>1, <1>5 DEF Static, RouteInv, RoutesInv, name
<1>8. (CHOOSE s \in Static(conn.host) : TRUE) = r
  BY <1>7
<1> QED BY <1>1, <1>6, <1>7, <1>8 DEF Route, name

(* The label that a connection was dispatched by is the one in its name    *)
(* whenever the name is of the API domain: no alias leads elsewhere.       *)
LEMMA LabelOfApiName ==
    ASSUME NEW host \in HostNameType, OfApi(host), NEW cname \in LookupCNAME(host),
           getIPForDomain(host, cname) # Nil
    PROVE  ExtractEncodedLabel(normalizeSNIHost(host)) # Nil
<1> DEFINE name == normalizeSNIHost(host)
<1> SUFFICES ASSUME ExtractEncodedLabel(name) = Nil PROVE FALSE
  OBVIOUS
<1>1. cname # Nil /\ ExtractEncodedLabel(cname) # Nil
  BY DEF getIPForDomain
<1>2. normalizeSNIHost(host).dots <= 1 /\ cname = [host EXCEPT !.dots = 1]
  <2>1. normalizeSNIHost(host).dots \in Nat
    BY NormalForm DEF HostNameType
  <2> QED BY <1>1, <2>1 DEF LookupCNAME
<1>3. cname \in HostNameType /\ cname.labels = host.labels /\ cname.dots = 1
  BY <1>2 DEF HostNameType
<1>4. name \in HostNameType /\ name.labels = host.labels /\ name.dots \in {0, 1}
  <2>1. name \in HostNameType /\ name.labels = host.labels
    BY NormalForm
  <2>2. name.dots \in Nat
    BY <2>1 DEF HostNameType
  <2> QED BY <1>2, <2>1, <2>2
<1> HIDE DEF name
<1>5. /\ normalizeSNIHost(cname) \in HostNameType
      /\ normalizeSNIHost(cname).labels = host.labels
      /\ normalizeSNIHost(cname).dots = 0
      /\ normalizeSNIHost(cname).upper = FALSE
  <2>1. normalizeSNIHost(cname).dots = IF cname.dots = 0 THEN 0 ELSE cname.dots - 1
    BY <1>3, NormalForm
  <2>2. normalizeSNIHost(cname).dots = 0
    BY <1>3, <2>1
  <2> QED BY <1>3, <2>2, NormalForm
<1>6. /\ normalizeSNIHost(name) \in HostNameType
      /\ normalizeSNIHost(name).labels = host.labels
      /\ normalizeSNIHost(name).dots = 0
      /\ normalizeSNIHost(name).upper = FALSE
  <2>1. normalizeSNIHost(name).dots = IF name.dots = 0 THEN 0 ELSE name.dots - 1
    BY <1>4, NormalForm
  <2>2. normalizeSNIHost(name).dots = 0
    BY <1>4, <2>1
  <2> QED BY <1>4, <2>2, NormalForm
<1>7. normalizeSNIHost(cname) = normalizeSNIHost(name)
  BY <1>5, <1>6, SameName
<1> QED BY <1>1, <1>7 DEF ExtractEncodedLabel

LEMMA CertificateOwnerHolds == RouteInv => CertificateOwner
<1> SUFFICES ASSUME RouteInv, conn # Nil, conn.route.kind = "tunnel"
             PROVE  LET ip == conn.route.addr.ip
                    IN  /\ tunnelHostPolicy(ip, conn.host)
                        /\ ChallengeTarget(conn.host, conn.cname) = ip
                        /\ OfApi(conn.host) =>
                               \A other \in Clients \ {ip} :
                                   ~tunnelHostPolicy(other, conn.host)
  BY DEF CertificateOwner
<1> DEFINE host == conn.host
           cname == conn.cname
           ip == conn.route.addr.ip
           code == ExtractEncodedLabel(normalizeSNIHost(host))
<1>1. /\ host \in HostNameType
      /\ cname \in LookupCNAME(host)
      /\ conn.route = Route(host, cname)
  BY HostsAssumption DEF RouteInv, ConnInv, HostNameType
<1>2. /\ normalizeSNIHost(host) # ToLower(ApiDomain)
      /\ getIPForDomain(host, cname) # Nil
      /\ conn.route.addr = getIPForDomain(host, cname)
  BY <1>1, ApiName DEF Route
<1> HIDE DEF host, cname
<1>3. ChallengeTarget(host, cname) = ip
  BY <1>2 DEF ChallengeTarget
<1>4. code # Nil => Endpoints[code] # Nil /\ Endpoints[code].ip = ip
  BY <1>2 DEF getIPForDomain
<1>5. code = Nil => ~Under(normalizeSNIHost(host), ToLower(ApiDomain))
  BY <1>2 DEF getIPForDomain
<1>6. tunnelHostPolicy(ip, host)
  BY <1>4, <1>5 DEF tunnelHostPolicy
<1>7. ASSUME OfApi(host), NEW other \in Clients \ {ip}
      PROVE  ~tunnelHostPolicy(other, host)
  <2>1. code # Nil
    BY <1>1, <1>2, <1>7, LabelOfApiName
  <2> QED BY <2>1, <1>2, <1>4 DEF tunnelHostPolicy
<1> QED BY <1>3, <1>6, <1>7 DEF host, cname

-----------------------------------------------------------------------------
(* Theorems. *)

(* A label of the length of a name stands for an endpoint, and it is the   *)
(* name GetEncodedIPPort gives that endpoint, for every size of bytes,     *)
(* digits and addresses.                                                   *)
THEOREM NamesAlwaysEndpoints == LabelSpec => []NamesAreEndpoints
BY LabelTyped, NamesHold, PTL

(* Whatever is appended to or left out of a label, LookupEncodedIPPort     *)
(* finds only the endpoint whose name it starts with, or one that starts   *)
(* with a zero byte.                                                       *)
THEOREM StrangersNeverReached == LabelSpec => []StrangersNotReached
BY LabelTyped, StrangersHold, PTL

(* The other direction: the name of an endpoint leads to that endpoint, so *)
(* the server finds every client by the name the client gives itself.      *)
THEOREM EndpointFoundByName ==
    ASSUME NEW addr \in EndpointType
    PROVE  LookupEncodedIPPort(GetEncodedIPPort(addr)) = addr
<1>0. /\ PayloadBits \in Nat /\ IPBits \in Nat \ {0} /\ NameLength \in Nat
      /\ ByteBits \in Nat \ {0} /\ DigitBits \in Nat \ {0}
      /\ PayloadBits = IPBits + 2 * ByteBits
  BY Sizes
<1> DEFINE low == AppendUint16(addr.port)
           bits == addr.ip \o low
           name == GetEncodedIPPort(addr)
<1>1. addr.ip \in [1..IPBits -> Bit] /\ addr.port \in [1..(2 * ByteBits) -> Bit]
      /\ addr = [ip |-> addr.ip, port |-> addr.port]
  BY DEF EndpointType
<1>2. low \in [1..(2 * ByteBits) -> Bit] /\ Uint16(low) = addr.port
  BY <1>1, SwapTwice
<1>3. PICK ip \in Seq(Bit), l \in Seq(Bit), w \in Nat :
          /\ ip = addr.ip /\ l = low /\ w = 2 * ByteBits
          /\ Len(ip) = IPBits /\ Len(l) = w
  <2>1. 2 * ByteBits \in Nat /\ IPBits \in Nat
    BY <1>0
  <2>2. addr.ip \in Seq(Bit) /\ Len(addr.ip) = IPBits
    BY <1>1, <2>1, FunctionIsSeq
  <2>3. low \in Seq(Bit) /\ Len(low) = 2 * ByteBits
    BY <1>2, <2>1, FunctionIsSeq
  <2> QED BY <2>1, <2>2, <2>3
<1> HIDE DEF low
<1>4. /\ ip \o l \in Seq(Bit) /\ Len(ip \o l) = PayloadBits
      /\ ip \o l \in [1..PayloadBits -> Bit]
      /\ \A i \in 1..PayloadBits : (ip \o l)[i] = IF i <= IPBits THEN ip[i] ELSE l[i - IPBits]
  <2>1. PICK m \in Nat, n \in Nat : m = IPBits /\ n = PayloadBits /\ n = m + w
    BY <1>0, <1>3
  <2>2. /\ ip \o l \in Seq(Bit) /\ Len(ip \o l) = n
        /\ ip \o l \in [1..n -> Bit]
        /\ \A i \in 1..n : (ip \o l)[i] = IF i <= m THEN ip[i] ELSE l[i - m]
    <3>1. /\ ip \in Seq(Bit) /\ l \in Seq(Bit) /\ m \in Nat /\ n \in Nat /\ w \in Nat
          /\ Len(ip) = m /\ Len(l) = w /\ n = m + w
      BY <1>3, <2>1
    <3>2. ip \o l \in Seq(Bit) /\ Len(ip \o l) = n
      BY <3>1, Joined
    <3>3. \A i \in 1..n : (ip \o l)[i] = IF i <= m THEN ip[i] ELSE l[i - m]
      BY <3>1
    <3> QED BY <3>2, <3>3, LenProperties
  <2> QED BY <2>1, <2>2
<1>5. ip \o l = bits /\ bits \in [1..PayloadBits -> Bit]
  BY <1>3, <1>4
<1> HIDE DEF bits
<1>6. name \in Seq(Digits) /\ Len(name) = NameLength /\ DecodeString(name) = bits
  BY <1>5, DecodeEncoded DEF GetEncodedIPPort, low, bits
<1>7. ~Contains(name, Invalid)
  <2> SUFFICES ASSUME NEW k \in 1..Len(name), name[k] = Invalid PROVE FALSE
    BY DEF Contains
  <2>1. name[k] \in [1..DigitBits -> {0, 1}]
    BY <1>6 DEF Digits
  <2>2. 1 \in DOMAIN name[k]
    BY <1>0, <2>1
  <2> QED BY <2>2 DEF Invalid
<1>8. DecodedBytes(Len(name)) = PayloadBytes /\ name \in Seq(Digits \cup {Invalid})
  BY <1>0, <1>6, DecodedLength
<1> HIDE DEF name
<1>9. LookupEncodedIPPort(name) =
          [ip |-> SubSeq(bits, 1, IPBits), port |-> Uint16(SubSeq(bits, IPBits + 1, PayloadBits))]
  <2>1. Len(name) >= NameLength
    BY <1>0, <1>6
  <2> QED BY <1>6, <1>7, <1>8, <2>1, EndpointOf
<1>10. SubSeq(bits, 1, IPBits) = ip
  <2>1. /\ SubSeq(ip \o l, 1, IPBits) \in Seq(Bit) /\ Len(SubSeq(ip \o l, 1, IPBits)) = IPBits
        /\ \A i \in 1..IPBits : SubSeq(ip \o l, 1, IPBits)[i] = (ip \o l)[1 + i - 1]
    <3>1. IPBits = IPBits - 1 + 1 /\ 1 <= IPBits /\ IPBits <= Len(ip \o l)
      BY <1>0, <1>4
    <3> QED BY <1>0, <1>4, <3>1, Slice
  <2>2. \A i \in 1..IPBits : SubSeq(ip \o l, 1, IPBits)[i] = ip[i]
    BY <2>1, <1>0, <1>4
  <2> QED BY <2>1, <2>2, <1>3, <1>5, SeqEqual
<1>11. SubSeq(bits, IPBits + 1, PayloadBits) = l
  <2>1. PICK m \in Nat \ {0}, n \in Nat :
            /\ m = IPBits + 1 /\ n = 2 * ByteBits
            /\ m <= PayloadBits /\ PayloadBits <= Len(ip \o l) /\ n = PayloadBits - m + 1
    BY <1>0, <1>4
  <2>2. PICK s : s = SubSeq(ip \o l, m, PayloadBits)
    OBVIOUS
  <2>3. s \in Seq(Bit) /\ Len(s) = n /\ \A i \in 1..n : s[i] = (ip \o l)[m + i - 1]
    BY <1>0, <1>4, <2>1, <2>2, Slice
  <2>4. ASSUME NEW i \in 1..n
        PROVE  s[i] = l[i]
    <3>1. m + i - 1 \in 1..PayloadBits /\ ~(m + i - 1 <= IPBits) /\ m + i - 1 - IPBits = i
      BY <1>0, <2>1
    <3>2. s[i] = (ip \o l)[m + i - 1]
      BY <2>3
    <3>3. PICK q \in 1..PayloadBits : q = m + i - 1 /\ ~(q <= IPBits) /\ q - IPBits = i
      BY <3>1, <1>0, <2>1
    <3>4. (ip \o l)[q] = l[q - IPBits]
      BY <3>3, <1>4
    <3> QED BY <3>2, <3>3, <3>4
  <2>5. s = l
    BY <2>1, <2>3, <2>4, <1>3, SeqEqual
  <2> QED BY <2>1, <2>2, <2>5, <1>5
<1>12. LookupEncodedIPPort(name) = [ip |-> addr.ip, port |-> addr.port]
  BY <1>2, <1>3, <1>9, <1>10, <1>11
<1> QED BY <1>1, <1>12 DEF name

(* A static route never shadows the API or a tunnel, whatever the operator *)
(* configures and however a client writes the name.                        *)
THEOREM ReservedNeverStatic == RouteSpec => []ReservedNames
BY RoutesInvariance, ReservedNamesHold, PTL

(* Every spelling of a static domain reaches the backend it was given.     *)
THEOREM StaticAlwaysServed == RouteSpec => []StaticServed
BY RoutesInvariance, StaticServedHolds, PTL

(* The client that a connection is sent to accepts certificates for its    *)
(* name, gets its challenges, and is the only one to ask for a certificate *)
(* of a name under the API domain.                                         *)
THEOREM CertificateAlwaysOwned == RouteSpec => []CertificateOwner
BY RoutesInvariance, CertificateOwnerHolds, PTL
=============================================================================
