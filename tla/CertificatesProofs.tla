-------------------------- MODULE CertificatesProofs --------------------------
(***************************************************************************)
(* Proofs that handshakes meet neither on port 80 nor in the file of the   *)
(* account binding, for any number of handshakes and listeners and any     *)
(* crashes and failed calls.                                               *)
(***************************************************************************)
EXTENDS Certificates, TLAPS

Locked == {"eab", "fetch", "write", "listen", "zerossl", "close", "unlock"}
Unlocked == {"none", "le", "lock", "returned"}
Serving == {"zerossl", "close"}

Calls ==
    [at : Locked \cup Unlocked, listener : Listeners \cup {Free},
     err : {"nil", "eab file", "eab read", "zerossl", "port 80"}]
CallsInv == tlsCall \in [Handshakes -> Calls]
(* The calls between Lock and Unlock hold the mutex, and only one does. *)
MutexInv ==
    /\ zsMu = {h \in Handshakes : tlsCall[h].at \in Locked}
    /\ \A g, h \in zsMu : g = h
(* Port 80 belongs to the handshake that is being served on it, if any. *)
PortInv ==
    /\ port80 \in Handshakes \cup {App, Free}
    /\ \A h \in Handshakes : tlsCall[h].at \in Serving <=> port80 = h
IndInv == CallsInv /\ MutexInv /\ PortInv

LEMMA InitInd == CertInit => IndInv
  BY CertificateAssumption
  DEF CertInit, None, IndInv, CallsInv, Calls, MutexInv, PortInv, Locked, Unlocked, Serving

(* Where a step leaves the calls: one of them moves, the others stay. *)
Moves(h, at) ==
    /\ CallsInv'
    /\ tlsCall'[h].at = at
    /\ \A g \in Handshakes \ {h} : tlsCall'[g].at = tlsCall[g].at

LEMMA GotoMoves ==
  ASSUME CallsInv, NEW h \in Handshakes, NEW at \in Locked \cup Unlocked, Goto(h, at)
  PROVE  Moves(h, at)
  BY DEF Goto, Moves, CallsInv, Calls

LEMMA ErrMoves ==
  ASSUME CallsInv, NEW h \in Handshakes, NEW at \in Locked \cup Unlocked,
         NEW err \in {"eab file", "eab read", "zerossl", "port 80"},
         tlsCall' = [tlsCall EXCEPT ![h].at = at, ![h].err = err]
  PROVE  Moves(h, at)
  BY DEF Moves, CallsInv, Calls

LEMMA FailMoves ==
  ASSUME CallsInv, NEW h \in Handshakes,
         NEW err \in {"eab file", "eab read", "zerossl", "port 80"}, Fail(h, err)
  PROVE  Moves(h, "unlock")
  BY ErrMoves DEF Fail, Locked

(* A step of one call that neither takes nor gives back the mutex or port. *)
LEMMA MoveInd ==
  ASSUME IndInv, NEW h \in Handshakes, UNCHANGED <<zsMu, port80>>,
         NEW at, Moves(h, at),
         at \in Locked <=> tlsCall[h].at \in Locked,
         at \in Serving <=> tlsCall[h].at \in Serving
  PROVE  IndInv'
  BY DEF Moves, IndInv, MutexInv, PortInv

(* The steps that move a call without the mutex and port. *)
LEMMA CallInd ==
  ASSUME IndInv, NEW h \in Handshakes,
         \/ \E l \in Listeners : Hello(h, l)
         \/ LetsEncrypt(h) \/ LetsEncryptFails(h)
         \/ ReadEab(h) \/ ReadEabFails(h) \/ PostEab(h) \/ FetchEab(h)
         \/ WriteEab(h) \/ ZeroSSL(h) \/ Answer(h)
  PROVE  IndInv'
  <1> USE DEF Locked, Unlocked, Serving
  <1>0. CallsInv
    BY DEF IndInv
  <1>1. ASSUME NEW l \in Listeners, Hello(h, l) PROVE IndInv'
    <2>1. Moves(h, "le")
      BY <1>0, <1>1 DEF Hello, Moves, CallsInv, Calls
    <2> QED BY <1>1, <2>1, MoveInd DEF Hello
  <1>2. CASE Answer(h)
    <2>1. Moves(h, "none")
      BY <1>0, <1>2 DEF Answer, None, Moves, CallsInv, Calls
    <2> QED BY <1>2, <2>1, MoveInd DEF Answer
  <1>3. CASE LetsEncrypt(h)
    <2>1. Moves(h, "returned")
      BY <1>0, <1>3, GotoMoves DEF LetsEncrypt
    <2> QED BY <1>3, <2>1, MoveInd DEF LetsEncrypt
  <1>4. CASE LetsEncryptFails(h)
    <2>1. Moves(h, "lock")
      BY <1>0, <1>4, GotoMoves DEF LetsEncryptFails
    <2> QED BY <1>4, <2>1, MoveInd DEF LetsEncryptFails
  <1>5. CASE ReadEab(h) \/ ReadEabFails(h) \/ PostEab(h) \/ FetchEab(h) \/ WriteEab(h)
    <2>1. \E at \in {"fetch", "listen", "write", "unlock"} : Moves(h, at)
      <3>1. CASE ReadEab(h) \/ ReadEabFails(h)
        BY <1>0, <3>1, GotoMoves, FailMoves DEF ReadEab, ReadEabFails
      <3>2. CASE PostEab(h)
        BY <1>0, <3>2, GotoMoves DEF PostEab
      <3>3. CASE FetchEab(h) \/ WriteEab(h)
        BY <1>0, <3>3, GotoMoves, FailMoves DEF FetchEab, WriteEab
      <3> QED BY <1>5, <3>1, <3>2, <3>3
    <2>2. tlsCall[h].at \in {"eab", "fetch", "write"} /\ UNCHANGED <<zsMu, port80>>
      BY <1>5 DEF ReadEab, ReadEabFails, PostEab, FetchEab, WriteEab
    <2> QED BY <2>1, <2>2, MoveInd
  <1>6. CASE ZeroSSL(h)
    <2>1. Moves(h, "close")
      BY <1>0, <1>6, GotoMoves, ErrMoves DEF ZeroSSL
    <2> QED BY <1>6, <2>1, MoveInd DEF ZeroSSL
  <1> QED BY <1>1, <1>2, <1>3, <1>4, <1>5, <1>6

LEMMA LockInd == ASSUME IndInv, NEW h \in Handshakes, Lock(h) PROVE IndInv'
  <1>1. Moves(h, "eab")
    BY GotoMoves DEF Lock, IndInv, Locked
  <1> QED
    BY <1>1 DEF Lock, LockFree, Moves, IndInv, MutexInv, PortInv, Locked, Serving

LEMMA UnlockInd == ASSUME IndInv, NEW h \in Handshakes, Unlock(h) PROVE IndInv'
  <1>1. Moves(h, "returned")
    BY GotoMoves DEF Unlock, IndInv, Unlocked
  <1> QED BY <1>1 DEF Unlock, Moves, IndInv, MutexInv, PortInv, Locked, Serving

(* The call on its way to port 80 holds the mutex, so no other has it. *)
LEMMA Listen80Ind == ASSUME IndInv, NEW h \in Handshakes, Listen80(h) PROVE IndInv'
  <1>1. CASE port80 = Free
    <2>1. Moves(h, "zerossl")
      BY <1>1, GotoMoves DEF Listen80, IndInv, Locked
    <2> QED
      BY <1>1, <2>1, CertificateAssumption
      DEF Listen80, Moves, IndInv, MutexInv, PortInv, Locked, Serving
  <1>2. CASE port80 # Free
    <2>1. Moves(h, "unlock")
      BY <1>2, FailMoves DEF Listen80, IndInv
    <2> QED BY <1>2, <2>1, MoveInd DEF Listen80, Locked, Serving
  <1> QED BY <1>1, <1>2

LEMMA Close80Ind == ASSUME IndInv, NEW h \in Handshakes, Close80(h) PROVE IndInv'
  <1>1. Moves(h, "unlock")
    BY GotoMoves DEF Close80, IndInv, Locked
  <1> QED
    BY <1>1, CertificateAssumption
    DEF Close80, Moves, IndInv, MutexInv, PortInv, Locked, Serving

LEMMA CrashInd == ASSUME IndInv, Crash PROVE IndInv'
  BY CertificateAssumption
  DEF Crash, None, IndInv, CallsInv, Calls, MutexInv, PortInv, Locked, Unlocked, Serving

LEMMA NextInd == ASSUME IndInv, [CertNext]_certVars PROVE IndInv'
  <1>1. CASE UNCHANGED certVars
    BY <1>1 DEF certVars, IndInv, CallsInv, MutexInv, PortInv
  <1>2. CASE CertNext
    BY <1>2, CallInd, LockInd, UnlockInd, Listen80Ind, Close80Ind, CrashInd
    DEF CertNext, GetCertificate
  <1> QED BY <1>1, <1>2

(* The mutex is held by at most one call, and port 80 only under it. *)
THEOREM CertificatesInvariance == CertSpec => []IndInv
  BY InitInd, NextInd, PTL DEF CertSpec

(* No handshake finds port 80 taken by another one, or loses it to another *)
(* one: zsMu orders all fallbacks of a process.                            *)
THEOREM ChallengeServerAlwaysAlone == CertSpec => []ChallengeServerAlone
  <1>1. IndInv => ChallengeServerAlone
    BY DEF IndInv, MutexInv, PortInv, ChallengeServerAlone, Locked, Serving
  <1> QED BY <1>1, CertificatesInvariance, PTL

(* Without a fault the file is short only while a call is writing it. *)
FileInv ==
    /\ certFaults \in Nat
    /\ certFaults = 0 /\ eab = "torn" => \E h \in Handshakes : tlsCall[h].at = "write"
    /\ TornOnlyByFault

LEMMA FileFault ==
  ASSUME FileInv, CertFault PROVE FileInv'
  <1>1. certFaults' \in Nat /\ certFaults' > 0 /\ certFaults' # 0
    BY DEF FileInv, CertFault
  <1> QED BY <1>1 DEF FileInv, TornOnlyByFault

(* What a step of one call leaves of the others. *)
LEMMA OthersKept ==
  ASSUME CallsInv, NEW h \in Handshakes,
         \/ \E l \in Listeners : Hello(h, l)
         \/ Lock(h) \/ GetCertificate(h) \/ FetchEab(h)
  PROVE  \A g \in Handshakes \ {h} : tlsCall'[g] = tlsCall[g]
  BY DEF CallsInv, Hello, Lock, GetCertificate, LetsEncrypt, LetsEncryptFails, ReadEab,
         ReadEabFails, PostEab, FetchEab, WriteEab, Listen80, ZeroSSL, Close80, Unlock, Answer, Goto, Fail

(* A step outside of a write that leaves the file alone. *)
LEMMA FileKept ==
  ASSUME FileInv, NEW h \in Handshakes,
         \A g \in Handshakes \ {h} : tlsCall'[g] = tlsCall[g],
         tlsCall[h].at # "write",
         tlsCall'[h].err = "eab file" => tlsCall[h].err = "eab file",
         UNCHANGED <<eab, certFaults>>
  PROVE  FileInv'
  BY DEF FileInv, TornOnlyByFault

LEMMA FileStep ==
  ASSUME FileInv, IndInv, NEW h \in Handshakes,
         \/ \E l \in Listeners : Hello(h, l)
         \/ Lock(h) \/ GetCertificate(h) \/ FetchEab(h)
  PROVE  FileInv'
  <1>0. CallsInv
    BY DEF IndInv
  <1>1. \A g \in Handshakes \ {h} : tlsCall'[g] = tlsCall[g]
    BY <1>0, OthersKept
  <1>2. CASE \E l \in Listeners : Hello(h, l)
    <2>1. tlsCall[h].at # "write" /\ tlsCall'[h].err = "nil"
      <3>1. PICK l \in Listeners : Hello(h, l)
        BY <1>2
      <3>2. tlsCall'[h] = [at |-> "le", listener |-> l, err |-> "nil"]
        BY <1>0, <3>1 DEF Hello, CallsInv
      <3> QED BY <3>1, <3>2 DEF Hello
    <2> QED BY <1>1, <1>2, <2>1, FileKept DEF Hello
  <1>3. CASE Answer(h)
    <2>1. tlsCall[h].at # "write" /\ tlsCall'[h].err = "nil"
      BY <1>0, <1>3 DEF Answer, None, CallsInv, Calls
    <2> QED BY <1>1, <1>3, <2>1, FileKept DEF Answer
  <1>4. CASE \/ Lock(h) \/ LetsEncrypt(h) \/ LetsEncryptFails(h)
             \/ PostEab(h) \/ Close80(h) \/ Unlock(h)
    <2>1. tlsCall[h].at # "write" /\ tlsCall'[h].err = tlsCall[h].err
      BY <1>0, <1>4
      DEF Lock, LetsEncrypt, LetsEncryptFails, PostEab, Close80, Unlock, Goto, CallsInv, Calls
    <2> QED
      BY <1>1, <1>4, <2>1, FileKept
      DEF Lock, LetsEncrypt, LetsEncryptFails, PostEab, Close80, Unlock
  <1>5. CASE Listen80(h) \/ ZeroSSL(h) \/ ReadEabFails(h)
    <2>1. /\ tlsCall[h].at # "write"
          /\ tlsCall'[h].err = "eab file" => tlsCall[h].err = "eab file"
      BY <1>0, <1>5 DEF Listen80, ZeroSSL, ReadEabFails, Goto, Fail, CallsInv, Calls
    <2> QED BY <1>1, <1>5, <2>1, FileKept DEF Listen80, ZeroSSL, ReadEabFails
  <1>6. CASE ReadEab(h)
    <2>1. tlsCall[h].at = "eab" /\ UNCHANGED <<eab, certFaults>>
      BY <1>6 DEF ReadEab
    <2>2. ASSUME certFaults = 0 PROVE eab # "torn"
      BY <2>1, <2>2 DEF FileInv, IndInv, MutexInv, Locked
    <2>3. CASE eab = "torn"
      <3>1. certFaults' \in Nat /\ certFaults' > 0 /\ certFaults' # 0
        BY <2>1, <2>2, <2>3 DEF FileInv
      <3> QED BY <3>1 DEF FileInv, TornOnlyByFault
    <2>4. CASE eab # "torn"
      <3>1. tlsCall'[h].err = tlsCall[h].err
        BY <1>0, <1>6, <2>4 DEF ReadEab, Goto, CallsInv, Calls
      <3> QED BY <1>1, <2>1, <3>1, FileKept
    <2> QED BY <2>3, <2>4
  <1>7. CASE FetchEab(h)
    <2>1. tlsCall[h].at = "fetch" /\ UNCHANGED certFaults
      BY <1>7 DEF FetchEab
    <2>2. CASE Goto(h, "write")
      <3>1. tlsCall'[h].at = "write" /\ tlsCall'[h].err = tlsCall[h].err
        BY <1>0, <2>2 DEF Goto, CallsInv, Calls
      <3> QED BY <1>1, <2>1, <3>1 DEF FileInv, TornOnlyByFault
    <2>3. CASE Goto(h, "listen") /\ UNCHANGED eab
      <3>1. tlsCall'[h].err = tlsCall[h].err
        BY <1>0, <2>3 DEF Goto, CallsInv, Calls
      <3> QED BY <1>1, <2>1, <2>3, <3>1, FileKept
    <2>4. CASE Fail(h, "zerossl") /\ UNCHANGED eab
      <3>1. tlsCall'[h].err = "zerossl"
        BY <1>0, <2>4 DEF Fail, CallsInv, Calls
      <3> QED BY <1>1, <2>1, <2>4, <3>1, FileKept
    <2> QED BY <1>7, <2>2, <2>3, <2>4 DEF FetchEab
  <1>8. CASE WriteEab(h)
    <2>1. CASE CertFault
      BY <2>1, FileFault
    <2>2. CASE eab' = "whole" /\ UNCHANGED certFaults
      <3>1. tlsCall'[h].err = tlsCall[h].err
        BY <1>0, <1>8 DEF WriteEab, Goto, CallsInv, Calls
      <3> QED BY <1>1, <2>2, <3>1 DEF FileInv, TornOnlyByFault
    <2> QED BY <1>8, <2>1, <2>2 DEF WriteEab
  <1> QED
    BY <1>2, <1>3, <1>4, <1>5, <1>6, <1>7, <1>8 DEF GetCertificate

(* A handshake reads a short file only after a crash or a failed write:    *)
(* the file is created and written under the mutex, and read under it.     *)
THEOREM TornAlwaysByFault == CertSpec => []TornOnlyByFault
  <1>1. CertInit => FileInv
    <2> SUFFICES ASSUME CertInit PROVE FileInv
      OBVIOUS
    <2>1. \A h \in Handshakes : tlsCall[h].err = "nil"
      BY DEF CertInit, None
    <2>2. certFaults \in Nat /\ eab # "torn"
      BY DEF CertInit
    <2> QED BY <2>1, <2>2 DEF FileInv, TornOnlyByFault
  <1>2. FileInv /\ IndInv /\ [CertNext]_certVars => FileInv'
    <2> SUFFICES ASSUME FileInv, IndInv, [CertNext]_certVars PROVE FileInv'
      OBVIOUS
    <2>1. CASE UNCHANGED certVars
      BY <2>1 DEF certVars, FileInv, TornOnlyByFault
    <2>2. CASE Crash
      BY <2>2, FileFault DEF Crash
    <2>3. CASE CertNext
      BY <2>2, <2>3, FileStep DEF CertNext
    <2> QED BY <2>1, <2>3
  <1>3. FileInv => TornOnlyByFault
    BY DEF FileInv
  <1> QED BY <1>1, <1>2, <1>3, CertificatesInvariance, PTL DEF CertSpec
=============================================================================
