---------------------------- MODULE Certificates ----------------------------
(***************************************************************************)
(* GetCertificate of GetTLSConfig (internal/tls.go).  Handshakes on the    *)
(* listeners of a process run concurrently.  Each asks Let's Encrypt and,  *)
(* if that fails, takes zsMu, reads or fetches the ZeroSSL account binding *)
(* (getZeroSSLEab), serves http-01 challenges on port 80 of the tunnel and *)
(* asks ZeroSSL.  A listener of the application may itself have port 80.   *)
(***************************************************************************)
EXTENDS Integers

CONSTANTS
    Handshakes,  \* TLS handshakes in progress
    Listeners,   \* listeners, each with a name and a tls.Config of its own
    App, Free,   \* port 80 belongs to a listener, or to nobody
    MaxCertFaults    \* bound: crashes and failed writes

ASSUME CertificateAssumption ==
    MaxCertFaults \in Nat /\ App # Free /\ {App, Free} \cap Handshakes = {}

VARIABLES
    tlsCall,  \* a call of GetCertificate: where it is, its listener, its error
    zsMu,     \* the calls that hold zsMu
    eab,      \* the file zerossl+eab: "absent", "torn" or "whole"
    port80,   \* who listens on port 80
    zs,       \* listeners that have a ZeroSSL manager
    cached,   \* listeners whose certificate is in the cache
    certFaults \* number of crashes and failed writes so far

certVars == <<tlsCall, zsMu, eab, port80, zs, cached, certFaults>>

None == [at |-> "none", listener |-> Free, err |-> "nil"]

CertInit ==
    /\ tlsCall = [h \in Handshakes |-> None]
    /\ zsMu = {}
    /\ eab = "absent"
    /\ port80 \in {App, Free}
    /\ zs = {}
    /\ cached = {}
    /\ certFaults = 0

Goto(h, at) == tlsCall' = [tlsCall EXCEPT ![h].at = at]
CertFault == certFaults < MaxCertFaults /\ certFaults' = certFaults + 1

(* Mutant: an error returns without the deferred calls. *)
FailReturns(h, err) == tlsCall' = [tlsCall EXCEPT ![h].at = "returned", ![h].err = err]
(* An error runs the deferred calls. *)
Fail(h, err) == tlsCall' = [tlsCall EXCEPT ![h].at = "unlock", ![h].err = err]

-----------------------------------------------------------------------------
Hello(h, l) ==
    /\ tlsCall[h].at = "none"
    /\ tlsCall' = [tlsCall EXCEPT ![h] = [at |-> "le", listener |-> l, err |-> "nil"]]
    /\ UNCHANGED <<zsMu, eab, port80, zs, cached, certFaults>>

(* le.GetCertificate: from the cache, or from Let's Encrypt. *)
LetsEncrypt(h) ==
    /\ tlsCall[h].at = "le"
    /\ Goto(h, "returned")
    /\ cached' = cached \cup {tlsCall[h].listener}
    /\ UNCHANGED <<zsMu, eab, port80, zs, certFaults>>

LetsEncryptFails(h) ==
    /\ tlsCall[h].at = "le"
    /\ tlsCall[h].listener \notin cached
    /\ Goto(h, "lock")
    /\ UNCHANGED <<zsMu, eab, port80, zs, cached, certFaults>>

(* Mutant: a mutex for every tls.Config. *)
LockFreePerConfig(h) == \A g \in zsMu : tlsCall[g].listener # tlsCall[h].listener
(* The mutex is one for the process. *)
LockFree(h) == zsMu = {}

Lock(h) ==
    /\ tlsCall[h].at = "lock"
    /\ LockFree(h)
    /\ zsMu' = zsMu \cup {h}
    /\ Goto(h, "eab")
    /\ UNCHANGED <<eab, port80, zs, cached, certFaults>>

(* getZeroSSLEab: the file is there, and is read or cannot be parsed. *)
ReadEab(h) ==
    /\ tlsCall[h].at = "eab"
    /\ eab # "absent"
    /\ IF eab = "torn" THEN Fail(h, "eab file") ELSE Goto(h, "listen")
    /\ UNCHANGED <<zsMu, eab, port80, zs, cached, certFaults>>

(* The file is not absent as far as ReadFile can tell, and cannot be read. *)
ReadEabFails(h) ==
    /\ tlsCall[h].at = "eab"
    /\ Fail(h, "eab read")
    /\ UNCHANGED <<zsMu, eab, port80, zs, cached, certFaults>>

(* There is no file: credentials are asked for.  The request has neither a *)
(* timeout nor a context.                                                  *)
PostEab(h) ==
    /\ tlsCall[h].at = "eab"
    /\ eab = "absent"
    /\ Goto(h, "fetch")
    /\ UNCHANGED <<zsMu, eab, port80, zs, cached, certFaults>>

(* The answer of ZeroSSL, if it ever comes: the file is created. *)
FetchEab(h) ==
    /\ tlsCall[h].at = "fetch"
    /\ \/ Goto(h, "write") /\ eab' = "torn"
       \/ Goto(h, "listen") /\ UNCHANGED eab   \* the file cannot be created
       \/ Fail(h, "zerossl") /\ UNCHANGED eab
    /\ UNCHANGED <<zsMu, port80, zs, cached, certFaults>>

(* An error of the write is logged, and the credentials are used. *)
WriteEab(h) ==
    /\ tlsCall[h].at = "write"
    /\ \/ eab' = "whole" /\ UNCHANGED certFaults
       \/ CertFault /\ UNCHANGED eab
    /\ Goto(h, "listen")
    /\ UNCHANGED <<zsMu, port80, zs, cached>>

Listen80(h) ==
    /\ tlsCall[h].at = "listen"
    /\ zs' = zs \cup {tlsCall[h].listener}
    /\ IF port80 = Free THEN Goto(h, "zerossl") /\ port80' = h
       ELSE Fail(h, "port 80") /\ UNCHANGED port80
    /\ UNCHANGED <<zsMu, eab, cached, certFaults>>

(* Mutant: the mutex is given back while the challenge server runs. *)
ZeroSSLUnlocks(h) ==
    /\ tlsCall[h].at = "zerossl"
    /\ Goto(h, "close")
    /\ zsMu' = zsMu \ {h}
    /\ UNCHANGED <<eab, port80, zs, cached, certFaults>>

(* zs.GetCertificate, with the challenge server running. *)
ZeroSSL(h) ==
    /\ tlsCall[h].at = "zerossl"
    /\ \/ Goto(h, "close") /\ cached' = cached \cup {tlsCall[h].listener}
       \/ /\ tlsCall' = [tlsCall EXCEPT ![h].at = "close", ![h].err = "zerossl"]
          /\ UNCHANGED cached
    /\ UNCHANGED <<zsMu, eab, port80, zs, certFaults>>

(* The deferred calls: hs.Close and hl.Close, then zsMu.Unlock. *)
Close80(h) ==
    /\ tlsCall[h].at = "close"
    /\ port80' = Free
    /\ Goto(h, "unlock")
    /\ UNCHANGED <<zsMu, eab, zs, cached, certFaults>>

Unlock(h) ==
    /\ tlsCall[h].at = "unlock"
    /\ zsMu' = zsMu \ {h}
    /\ Goto(h, "returned")
    /\ UNCHANGED <<eab, port80, zs, cached, certFaults>>

(* The handshake goes on or ends with the error. *)
Answer(h) ==
    /\ tlsCall[h].at = "returned"
    /\ tlsCall' = [tlsCall EXCEPT ![h] = None]
    /\ UNCHANGED <<zsMu, eab, port80, zs, cached, certFaults>>

Crash ==
    /\ CertFault
    /\ tlsCall' = [h \in Handshakes |-> None]
    /\ zsMu' = {}
    /\ port80' = IF port80 = App THEN App ELSE Free
    /\ zs' = {}
    /\ UNCHANGED <<eab, cached>>

(* What a call does without waiting for another one or for FetchEab. *)
GetCertificate(h) ==
    \/ LetsEncrypt(h) \/ LetsEncryptFails(h)
    \/ ReadEab(h) \/ ReadEabFails(h) \/ PostEab(h) \/ WriteEab(h) \/ Listen80(h)
    \/ ZeroSSL(h) \/ Close80(h) \/ Unlock(h) \/ Answer(h)

CertNext ==
    \/ \E h \in Handshakes :
           \/ \E l \in Listeners : Hello(h, l)
           \/ Lock(h) \/ GetCertificate(h) \/ FetchEab(h)
    \/ Crash

(* Calls of autocert end, with an error after five minutes, and a Go mutex *)
(* does not starve a goroutine that waits for it.  Nothing makes the       *)
(* request for the account binding end: FetchEab has no fairness.          *)
CertFairness ==
    \A h \in Handshakes : WF_certVars(GetCertificate(h)) /\ SF_certVars(Lock(h))
CertSpec == CertInit /\ [][CertNext]_certVars /\ CertFairness

-----------------------------------------------------------------------------
(* No handshake fails because another one, on this or on another listener, *)
(* serves its challenges on port 80, and none stops the challenge server   *)
(* of another.                                                             *)
ChallengeServerAlone ==
    \A h \in Handshakes :
        /\ tlsCall[h].at = "listen" => port80 \in {App, Free}
        /\ tlsCall[h].at \in {"zerossl", "close"} => port80 = h

(* Every handshake is answered, with a certificate or an error, unless one *)
(* request for the account binding hangs for good: calls that fail at any  *)
(* point do not leave the others waiting for the mutex, and that request,  *)
(* made with zsMu held, is the only thing that can.                        *)
RequestHangs == \E g \in zsMu : tlsCall[g].at = "fetch"
HandshakesAnswered ==
    \A h \in Handshakes :
        (tlsCall[h].at # "none") ~> (tlsCall[h].at = "none" \/ []RequestHangs)

(* A fallback is refused for the file of the account binding only after an *)
(* earlier process was cut short, or its disk was full, while writing it:  *)
(* handshakes of one process never read the file that another one writes.  *)
TornOnlyByFault ==
    \A h \in Handshakes : tlsCall[h].err = "eab file" => certFaults > 0
=============================================================================
