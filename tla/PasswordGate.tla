----------------------------- MODULE PasswordGate -----------------------------
(***************************************************************************)
(* roundTripper and authValidator (tunwg/tunwg.go): the client asks for a  *)
(* password before it forwards a request, with --limit_once_on_ip only     *)
(* once per address and duration.  Requests run concurrently and use the   *)
(* map ipValid without a lock.  A lookup or a store that overlaps a store  *)
(* is a data race: the Go runtime may end the process, the lookup may see  *)
(* the value before or after, no entry or a zero one, and of two stores    *)
(* one may be lost.                                                        *)
(***************************************************************************)
EXTENDS Integers

CONSTANTS
    Requests,   \* requests in flight
    IPs,        \* client addresses (X-Forwarded-For)
    Once,       \* limitOncePerIPFlag, 0 when unset
    MaxTime     \* bound of the clock

ASSUME GateAssumption == Once \in Nat /\ MaxTime \in Nat

VARIABLES
    clock,     \* time
    ipValid,   \* roundTripper.ipValid: address -> time, or Absent
    req,       \* requests: what they are about to do and what they have read
    login      \* history: the last time of a right password per address

vars == <<clock, ipValid, req, login>>

Absent == -1            \* no entry
ZeroTime == -Once - 2   \* a zero time.Time: before any other, and expired
Times == 0..MaxTime
Free == [at |-> "free", ip |-> "", password |-> FALSE, seen |-> Absent]
Phases == {"lookup", "decide", "validate", "store", "storing", "forward", "refused"}
RequestStates ==
    [at : Phases, ip : IPs \cup {""}, password : BOOLEAN,
     seen : Times \cup {Absent, ZeroTime}]

GateTypeOK ==
    /\ clock \in Times
    /\ ipValid \in [IPs -> Times \cup {Absent}]
    /\ req \in [Requests -> RequestStates \cup {Free}]
    /\ login \in [IPs -> Times \cup {Absent}]

Init ==
    /\ clock = 0
    /\ ipValid = [ip \in IPs |-> Absent]
    /\ req = [r \in Requests |-> Free]
    /\ login = [ip \in IPs |-> Absent]

-----------------------------------------------------------------------------
(* A request without an address, or without the flag, skips the map. *)
UsesMap(ip) == ip # "" /\ Once # 0
Goto(r, at) == req' = [req EXCEPT ![r].at = at]

(* password says whether the validator accepts the credentials of the      *)
(* request: right user, and right password or bcrypt hash.                 *)
Arrive(r, ip, password) ==
    /\ req[r] = Free
    /\ req' = [req EXCEPT ![r] =
                  [at |-> IF UsesMap(ip) THEN "lookup" ELSE "validate",
                   ip |-> ip, password |-> password, seen |-> Absent]]
    /\ UNCHANGED <<clock, ipValid, login>>

Storing(r) == \E q \in Requests \ {r} : req[q].at = "storing"

(* What a lookup may see of the entry for ip. *)
Seen(r, ip) ==
    {ipValid[ip]} \cup
        (IF Storing(r) THEN {Absent} ELSE {}) \cup
        UNION {{req[q].seen, ZeroTime} :
                  q \in {q \in Requests \ {r} : req[q].at = "storing" /\ req[q].ip = ip}}

LookUp(r) ==
    /\ req[r].at = "lookup"
    /\ \E time \in Seen(r, req[r].ip) :
           req' = [req EXCEPT ![r].seen = time, ![r].at = "decide"]
    /\ UNCHANGED <<clock, ipValid, login>>

(* Mutant: an entry counts in its last instant too. *)
StillValidAtEnd(time) == time # Absent /\ clock <= time + Once

StillValid(time) == time # Absent /\ clock < time + Once

Decide(r) ==
    /\ req[r].at = "decide"
    /\ Goto(r, IF StillValid(req[r].seen) THEN "forward" ELSE "validate")
    /\ UNCHANGED <<clock, ipValid, login>>

(* BasicAuth and the validator. *)
Validate(r) ==
    /\ req[r].at = "validate"
    /\ Goto(r, IF ~req[r].password THEN "refused"
               ELSE IF UsesMap(req[r].ip) THEN "store" ELSE "forward")
    /\ UNCHANGED <<clock, ipValid, login>>

(* The map is assigned time.Now(). *)
BeginStore(r) ==
    /\ req[r].at = "store"
    /\ req' = [req EXCEPT ![r].at = "storing", ![r].seen = clock]
    /\ login' = [login EXCEPT ![req[r].ip] = clock]
    /\ UNCHANGED <<clock, ipValid>>

(* Mutant: the map is assigned the time at which the entry expires. *)
EndStoreExpiry(r) ==
    /\ req[r].at = "storing"
    /\ ipValid' = [ipValid EXCEPT ![req[r].ip] = req[r].seen + Once]
    /\ Goto(r, "forward")
    /\ UNCHANGED <<clock, login>>

EndStore(r) ==
    /\ req[r].at = "storing"
    /\ \/ ipValid' = [ipValid EXCEPT ![req[r].ip] = req[r].seen]
       \/ Storing(r) /\ UNCHANGED ipValid
    /\ Goto(r, "forward")
    /\ UNCHANGED <<clock, login>>

(* The answer is sent. *)
Answer(r) ==
    /\ req[r].at \in {"forward", "refused"}
    /\ req' = [req EXCEPT ![r] = Free]
    /\ UNCHANGED <<clock, ipValid, login>>

(* The runtime notices a race ("concurrent map writes") and ends the       *)
(* process; a new one starts with an empty map.                            *)
RaceDetected(r) ==
    /\ req[r].at \in {"lookup", "store", "storing"}
    /\ Storing(r)
    /\ ipValid' = [ip \in IPs |-> Absent]
    /\ req' = [q \in Requests |-> Free]
    /\ login' = [ip \in IPs |-> Absent]
    /\ UNCHANGED clock

Tick ==
    /\ clock < MaxTime
    /\ clock' = clock + 1
    /\ UNCHANGED <<ipValid, req, login>>

Next ==
    \/ \E r \in Requests, ip \in IPs \cup {""}, password \in BOOLEAN : Arrive(r, ip, password)
    \/ \E r \in Requests :
           \/ LookUp(r) \/ Decide(r) \/ Validate(r)
           \/ BeginStore(r) \/ EndStore(r)
           \/ Answer(r) \/ RaceDetected(r)
    \/ Tick

Spec == Init /\ [][Next]_vars

-----------------------------------------------------------------------------
(* Whatever requests overlap in the map, a request without the right       *)
(* password is forwarded only if its address gave the right one less than  *)
(* the duration ago; being forwarded does not extend that.                 *)
ForwardedRightly ==
    \A r \in Requests :
        req[r].at # "forward" /\ req'[r].at = "forward" /\ ~req[r].password =>
            /\ UsesMap(req[r].ip)
            /\ login[req[r].ip] # Absent
            /\ clock < login[req[r].ip] + Once
OnlyAuthenticated == [][ForwardedRightly]_vars
=============================================================================
