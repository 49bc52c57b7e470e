-------------------------- MODULE PasswordGateProofs --------------------------
(***************************************************************************)
(* Proof that the races in ipValid let nobody in, for any number of        *)
(* requests and addresses and any duration.                                *)
(***************************************************************************)
EXTENDS PasswordGate, TLAPS

(* A time in the map, or one that a request has read there, is no later    *)
(* than the last right password for the address.                           *)
Covered(time, last) == last \in Times /\ time <= last
MapInv ==
    \A ip \in IPs :
        /\ login[ip] <= clock
        /\ ipValid[ip] # Absent => Covered(ipValid[ip], login[ip])
RequestInv ==
    \A r \in Requests :
        /\ req[r].at \in {"lookup", "decide", "store", "storing"} =>
               req[r].ip \in IPs /\ UsesMap(req[r].ip)
        /\ req[r].at \in {"store", "storing"} => req[r].password
        /\ req[r].at = "storing" =>
               req[r].seen \in Times /\ Covered(req[r].seen, login[req[r].ip])
        /\ req[r].at = "decide" =>
               req[r].seen \in {Absent, ZeroTime} \/ Covered(req[r].seen, login[req[r].ip])
IndInv == GateTypeOK /\ MapInv /\ RequestInv

LEMMA TimesInt == Times \subseteq Int /\ Absent \in Int /\ ZeroTime \in Int /\ Absent \notin Times
  BY GateAssumption DEF Times, Absent, ZeroTime

LEMMA InitInd == Init => IndInv
  <1> SUFFICES ASSUME Init PROVE IndInv
    OBVIOUS
  <1>1. Free.at = "free"
    BY DEF Free
  <1>2. GateTypeOK
    BY GateAssumption DEF Init, GateTypeOK, Times
  <1>3. MapInv
    BY DEF Init, MapInv, Absent
  <1>4. RequestInv
    BY <1>1 DEF Init, RequestInv
  <1> QED BY <1>2, <1>3, <1>4 DEF IndInv

(* Steps that leave clock, map and passwords alone and take a request to a *)
(* place where nothing is claimed of what it has read.                     *)
LEMMA ArriveInd ==
  ASSUME IndInv, NEW r \in Requests, NEW ip \in IPs \cup {""}, NEW password \in BOOLEAN,
         Arrive(r, ip, password)
  PROVE  IndInv'
  <1> DEFINE q == [at |-> IF UsesMap(ip) THEN "lookup" ELSE "validate",
                   ip |-> ip, password |-> password, seen |-> Absent]
  <1>1. q \in RequestStates /\ q.at \in {"lookup", "validate"} /\ q.ip = ip
        /\ (q.at = "lookup" => UsesMap(ip))
    BY DEF RequestStates, Phases
  <1>2. req' = [req EXCEPT ![r] = q] /\ UNCHANGED <<clock, ipValid, login>>
    BY DEF Arrive
  <1> HIDE DEF q
  <1>3. GateTypeOK'
    BY <1>1, <1>2 DEF IndInv, GateTypeOK
  <1>4. MapInv'
    BY <1>2 DEF IndInv, MapInv, Covered
  <1>5. RequestInv'
    BY <1>1, <1>2 DEF IndInv, GateTypeOK, RequestInv, Covered, UsesMap
  <1> QED BY <1>3, <1>4, <1>5 DEF IndInv

(* A lookup sees what is in the map, what another request is storing, no   *)
(* entry or a zero one.                                                    *)
LEMMA SeenCovered ==
  ASSUME IndInv, NEW r \in Requests, NEW ip \in IPs, NEW time \in Seen(r, ip)
  PROVE  /\ time \in Times \cup {Absent, ZeroTime}
         /\ time \in {Absent, ZeroTime} \/ Covered(time, login[ip])
  <1>1. CASE time = ipValid[ip]
    BY <1>1 DEF IndInv, GateTypeOK, MapInv
  <1>2. CASE time = Absent
    BY <1>2
  <1>3. CASE time \in UNION {{req[q].seen, ZeroTime} :
                     q \in {q \in Requests \ {r} : req[q].at = "storing" /\ req[q].ip = ip}}
    <2> PICK q \in Requests : /\ req[q].at = "storing" /\ req[q].ip = ip
                              /\ time = req[q].seen \/ time = ZeroTime
      BY <1>3
    <2> QED BY DEF IndInv, RequestInv
  <1> QED BY <1>1, <1>2, <1>3 DEF Seen

LEMMA InProgress ==
  ASSUME IndInv, NEW r \in Requests, req[r].at # "free" PROVE req[r] \in RequestStates
  <1>1. req[r] \in RequestStates \cup {Free}
    BY DEF IndInv, GateTypeOK
  <1>2. Free.at = "free"
    BY DEF Free
  <1> QED BY <1>1, <1>2

LEMMA LookUpInd == ASSUME IndInv, NEW r \in Requests, LookUp(r) PROVE IndInv'
  <1>1. req[r].ip \in IPs /\ UsesMap(req[r].ip)
    BY DEF LookUp, IndInv, RequestInv
  <1>2. req[r] \in RequestStates
    BY InProgress DEF LookUp
  <1> PICK time \in Seen(r, req[r].ip) : req' = [req EXCEPT ![r].seen = time, ![r].at = "decide"]
    BY DEF LookUp
  <1>3. /\ time \in Times \cup {Absent, ZeroTime}
        /\ time \in {Absent, ZeroTime} \/ Covered(time, login[req[r].ip])
    BY <1>1, SeenCovered
  <1> DEFINE q == [req[r] EXCEPT !.seen = time, !.at = "decide"]
  <1>4. q \in RequestStates /\ q.at = "decide" /\ q.ip = req[r].ip /\ q.seen = time
    BY <1>2, <1>3 DEF RequestStates, Phases
  <1>5. req' = [req EXCEPT ![r] = q] /\ UNCHANGED <<clock, ipValid, login>>
    BY DEF LookUp, IndInv, GateTypeOK
  <1> HIDE DEF q
  <1>6. GateTypeOK'
    BY <1>4, <1>5 DEF IndInv, GateTypeOK
  <1>7. MapInv'
    BY <1>5 DEF IndInv, MapInv, Covered
  <1>8. RequestInv'
    BY <1>1, <1>3, <1>4, <1>5 DEF IndInv, GateTypeOK, RequestInv, Covered, UsesMap
  <1> QED BY <1>6, <1>7, <1>8 DEF IndInv

(* A request goes on to a place where nothing is claimed of its time. *)
LEMMA GotoInd ==
  ASSUME IndInv, NEW r \in Requests, req[r] \in RequestStates,
         NEW at \in {"validate", "store", "forward", "refused"}, Goto(r, at),
         at = "store" => req[r].ip \in IPs /\ UsesMap(req[r].ip) /\ req[r].password,
         UNCHANGED <<clock, ipValid, login>>
  PROVE  IndInv'
  <1> DEFINE q == [req[r] EXCEPT !.at = at]
  <1>1. /\ q \in RequestStates
        /\ q.at = at /\ q.ip = req[r].ip /\ q.password = req[r].password
    BY DEF RequestStates, Phases
  <1>2. req' = [req EXCEPT ![r] = q]
    BY DEF Goto, IndInv, GateTypeOK
  <1> HIDE DEF q
  <1>3. GateTypeOK'
    BY <1>1, <1>2 DEF IndInv, GateTypeOK
  <1>4. MapInv'
    BY DEF IndInv, MapInv, Covered
  <1>5. RequestInv'
    BY <1>1, <1>2 DEF IndInv, GateTypeOK, RequestInv, Covered, UsesMap
  <1> QED BY <1>3, <1>4, <1>5 DEF IndInv

LEMMA DecideInd == ASSUME IndInv, NEW r \in Requests, Decide(r) PROVE IndInv'
  BY InProgress, GotoInd DEF Decide

LEMMA ValidateInd == ASSUME IndInv, NEW r \in Requests, Validate(r) PROVE IndInv'
  <1>1. req[r] \in RequestStates
    BY InProgress DEF Validate
  <1>2. UsesMap(req[r].ip) => req[r].ip \in IPs
    BY <1>1 DEF RequestStates, UsesMap
  <1> QED BY <1>1, <1>2, GotoInd DEF Validate

(* A right password is the latest one: everything covered stays covered. *)
LEMMA BeginStoreInd == ASSUME IndInv, NEW r \in Requests, BeginStore(r) PROVE IndInv'
  <1>1. /\ req[r] \in RequestStates /\ req[r].ip \in IPs /\ UsesMap(req[r].ip)
        /\ req[r].password
    BY InProgress DEF BeginStore, IndInv, RequestInv
  <1> DEFINE q == [req[r] EXCEPT !.at = "storing", !.seen = clock]
  <1>2. /\ q \in RequestStates /\ q.at = "storing" /\ q.seen = clock
        /\ q.ip = req[r].ip /\ q.password = req[r].password
    BY <1>1 DEF IndInv, GateTypeOK, RequestStates, Phases
  <1>3. req' = [req EXCEPT ![r] = q]
    BY DEF BeginStore, IndInv, GateTypeOK
  <1>4. /\ login' = [login EXCEPT ![req[r].ip] = clock]
        /\ UNCHANGED <<clock, ipValid>> /\ clock \in Times
    BY DEF BeginStore, IndInv, GateTypeOK
  <1> HIDE DEF q
  <1>5. GateTypeOK'
    BY <1>2, <1>3, <1>4 DEF IndInv, GateTypeOK
  <1>6. \A ip \in IPs : login'[ip] <= clock'
    BY <1>4, TimesInt DEF IndInv, GateTypeOK, MapInv
  <1>7. ASSUME NEW ip \in IPs, NEW time \in Int, Covered(time, login[ip])
        PROVE  Covered(time, login'[ip])
    <2>1. CASE ip = req[r].ip
      <3>1. login'[ip] = clock /\ login[ip] <= clock /\ login[ip] \in Int /\ clock \in Int
        BY <2>1, <1>4, TimesInt DEF IndInv, GateTypeOK, MapInv
      <3> QED BY <1>4, <1>7, <3>1 DEF Covered
    <2>2. CASE ip # req[r].ip
      BY <2>2, <1>4, <1>7 DEF IndInv, GateTypeOK
    <2> QED BY <2>1, <2>2
  <1>8. MapInv'
    BY <1>4, <1>6, <1>7, TimesInt DEF IndInv, GateTypeOK, MapInv
  <1>9. RequestInv'
    <2> SUFFICES ASSUME NEW s \in Requests
                 PROVE  /\ req'[s].at \in {"lookup", "decide", "store", "storing"} =>
                               req'[s].ip \in IPs /\ UsesMap(req'[s].ip)
                        /\ req'[s].at \in {"store", "storing"} => req'[s].password
                        /\ req'[s].at = "storing" =>
                               req'[s].seen \in Times /\ Covered(req'[s].seen, login'[req'[s].ip])
                        /\ req'[s].at = "decide" =>
                               \/ req'[s].seen \in {Absent, ZeroTime}
                               \/ Covered(req'[s].seen, login'[req'[s].ip])
      BY DEF RequestInv, UsesMap
    <2>1. CASE s = r
      <3>1. Covered(clock, login'[req[r].ip])
        BY <1>1, <1>4, TimesInt DEF Covered, IndInv, GateTypeOK
      <3>2. req'[s] = q
        BY <2>1, <1>3 DEF IndInv, GateTypeOK
      <3> QED BY <1>1, <1>2, <1>4, <3>1, <3>2 DEF Covered
    <2>2. CASE s # r
      <3>1. req'[s] = req[s]
        BY <2>2, <1>3 DEF IndInv, GateTypeOK
      <3>2. req[s].at = "decide" => req[s] \in RequestStates
        BY InProgress
      <3>3. req[s].at = "decide" => req[s].seen \in Int
        BY <3>2, TimesInt DEF RequestStates
      <3>4. req[s].at = "storing" => Covered(req[s].seen, login'[req[s].ip])
        BY <1>7, TimesInt DEF IndInv, RequestInv
      <3>5. req[s].at = "decide" =>
                \/ req[s].seen \in {Absent, ZeroTime}
                \/ Covered(req[s].seen, login'[req[s].ip])
        BY <1>7, <3>3 DEF IndInv, RequestInv
      <3> QED BY <3>1, <3>4, <3>5 DEF IndInv, RequestInv, Covered
    <2> QED BY <2>1, <2>2
  <1> QED BY <1>5, <1>8, <1>9 DEF IndInv

(* The time that is stored, or that a lost store leaves, is covered. *)
LEMMA EndStoreInd == ASSUME IndInv, NEW r \in Requests, EndStore(r) PROVE IndInv'
  <1>1. req[r] \in RequestStates
    BY InProgress DEF EndStore
  <1>2. /\ req[r].ip \in IPs /\ req[r].seen \in Times
        /\ Covered(req[r].seen, login[req[r].ip])
    BY DEF EndStore, IndInv, RequestInv
  <1> DEFINE q == [req[r] EXCEPT !.at = "forward"]
  <1>3. q \in RequestStates /\ q.at = "forward"
    BY <1>1 DEF RequestStates, Phases
  <1>4. req' = [req EXCEPT ![r] = q] /\ UNCHANGED <<clock, login>>
    BY DEF EndStore, Goto, IndInv, GateTypeOK
  <1>5. ipValid' = ipValid \/ ipValid' = [ipValid EXCEPT ![req[r].ip] = req[r].seen]
    BY DEF EndStore
  <1> HIDE DEF q
  <1>6. GateTypeOK'
    BY <1>2, <1>3, <1>4, <1>5 DEF IndInv, GateTypeOK
  <1>7. MapInv'
    BY <1>2, <1>4, <1>5 DEF IndInv, GateTypeOK, MapInv, Covered
  <1>8. RequestInv'
    BY <1>3, <1>4 DEF IndInv, GateTypeOK, RequestInv, Covered, UsesMap
  <1> QED BY <1>6, <1>7, <1>8 DEF IndInv

LEMMA AnswerInd == ASSUME IndInv, NEW r \in Requests, Answer(r) PROVE IndInv'
  <1>1. Free.at = "free"
    BY DEF Free
  <1>2. req' = [req EXCEPT ![r] = Free] /\ UNCHANGED <<clock, ipValid, login>>
    BY DEF Answer
  <1>3. GateTypeOK'
    BY <1>2 DEF IndInv, GateTypeOK
  <1>4. MapInv'
    BY <1>2 DEF IndInv, MapInv, Covered
  <1>5. RequestInv'
    BY <1>1, <1>2 DEF IndInv, GateTypeOK, RequestInv, Covered, UsesMap
  <1> QED BY <1>3, <1>4, <1>5 DEF IndInv

LEMMA RaceDetectedInd == ASSUME IndInv, NEW r \in Requests, RaceDetected(r) PROVE IndInv'
  <1>1. Free.at = "free"
    BY DEF Free
  <1>2. /\ ipValid' = [ip \in IPs |-> Absent] /\ login' = [ip \in IPs |-> Absent]
        /\ req' = [q \in Requests |-> Free] /\ clock' = clock
    BY DEF RaceDetected
  <1>3. GateTypeOK'
    BY <1>2 DEF IndInv, GateTypeOK
  <1>4. MapInv'
    BY <1>2, GateAssumption DEF IndInv, GateTypeOK, MapInv, Times, Absent
  <1>5. RequestInv'
    BY <1>1, <1>2 DEF RequestInv
  <1> QED BY <1>3, <1>4, <1>5 DEF IndInv

LEMMA TickInd == ASSUME IndInv, Tick PROVE IndInv'
  <1>1. GateTypeOK'
    BY GateAssumption DEF Tick, IndInv, GateTypeOK, Times
  <1>2. MapInv'
    <2>1. \A ip \in IPs : login[ip] \in Int
      BY TimesInt DEF IndInv, GateTypeOK
    <2> QED BY <2>1, TimesInt DEF Tick, IndInv, GateTypeOK, MapInv, Covered
  <1>3. RequestInv'
    BY DEF Tick, IndInv, RequestInv, Covered, UsesMap
  <1> QED BY <1>1, <1>2, <1>3 DEF IndInv

LEMMA NextInd == ASSUME IndInv, [Next]_vars PROVE IndInv'
  <1>1. CASE UNCHANGED vars
    BY <1>1 DEF vars, IndInv, GateTypeOK, MapInv, RequestInv, Covered, UsesMap
  <1>2. CASE Next
    BY <1>2, ArriveInd, LookUpInd, DecideInd, ValidateInd, BeginStoreInd, EndStoreInd,
       AnswerInd, RaceDetectedInd, TickInd
    DEF Next
  <1> QED BY <1>1, <1>2

(* Whatever overlaps in the map, its times are those of right passwords. *)
THEOREM GateInvariance == Spec => []IndInv
  BY InitInd, NextInd, PTL DEF Spec

(* The clock, the map and the requests have their types. *)
THEOREM GateTypeCorrect == Spec => []GateTypeOK
  <1>1. IndInv => GateTypeOK BY DEF IndInv
  <1> QED BY <1>1, GateInvariance, PTL

(* A decision on a time that was read forwards only while the duration     *)
(* after the last right password lasts: a zero time has always expired.    *)
LEMMA DecideForwards ==
  ASSUME IndInv, NEW r \in Requests, Decide(r), req'[r].at = "forward"
  PROVE  /\ UsesMap(req[r].ip) /\ login[req[r].ip] # Absent
         /\ clock < login[req[r].ip] + Once
  <1>1. StillValid(req[r].seen)
    BY DEF Decide, Goto, IndInv, GateTypeOK
  <1>2. req[r] \in RequestStates
    BY InProgress DEF Decide
  <1>3. req[r].seen \in Int /\ clock \in Nat
    <2>1. req[r].seen \in Times \cup {Absent, ZeroTime}
      BY <1>2 DEF RequestStates
    <2>2. clock \in Nat
      BY GateAssumption DEF IndInv, GateTypeOK, Times
    <2> QED BY <2>1, <2>2, TimesInt
  <1>4. req[r].seen \notin {Absent, ZeroTime}
    BY <1>1, <1>3, GateAssumption DEF StillValid, ZeroTime
  <1>5. UsesMap(req[r].ip) /\ Covered(req[r].seen, login[req[r].ip])
    BY <1>4 DEF Decide, IndInv, RequestInv
  <1>6. login[req[r].ip] \in Int /\ req[r].seen <= login[req[r].ip]
        /\ login[req[r].ip] # Absent
    BY <1>5, TimesInt DEF Covered
  <1>7. clock < req[r].seen + Once
    BY <1>1 DEF StillValid
  <1> QED BY <1>3, <1>5, <1>6, <1>7, GateAssumption

LEMMA NextForwards == ASSUME IndInv, [Next]_vars PROVE ForwardedRightly
  <1> SUFFICES ASSUME NEW r \in Requests, req[r].at # "forward", req'[r].at = "forward",
                      ~req[r].password
               PROVE  /\ UsesMap(req[r].ip) /\ login[req[r].ip] # Absent
                      /\ clock < login[req[r].ip] + Once
    BY DEF ForwardedRightly
  <1>1. CASE Decide(r)
    BY <1>1, DecideForwards
  <1>2. ~Validate(r)
    <2> SUFFICES ASSUME Validate(r) PROVE FALSE
      OBVIOUS
    <2>1. req' = [req EXCEPT ![r].at = "refused"]
      BY DEF Validate, Goto
    <2> QED BY <2>1 DEF IndInv, GateTypeOK
  <1>3. ~EndStore(r)
    BY DEF EndStore, IndInv, RequestInv
  <1>4. ASSUME NEW s \in Requests, s # r,
               Decide(s) \/ Validate(s) \/ EndStore(s)
        PROVE  FALSE
    BY <1>4 DEF Decide, Validate, EndStore, Goto, IndInv, GateTypeOK
  <1>5. ASSUME NEW s \in Requests, LookUp(s) \/ BeginStore(s) \/ Answer(s) \/ RaceDetected(s)
        PROVE  FALSE
    <2>1. Free.at = "free" BY DEF Free
    <2>2. CASE LookUp(s) BY <2>2 DEF LookUp, IndInv, GateTypeOK
    <2>3. CASE BeginStore(s) BY <2>3 DEF BeginStore, IndInv, GateTypeOK
    <2>4. CASE Answer(s) BY <2>1, <2>4 DEF Answer, IndInv, GateTypeOK
    <2>5. CASE RaceDetected(s) BY <2>1, <2>5 DEF RaceDetected
    <2> QED BY <1>5, <2>2, <2>3, <2>4, <2>5
  <1>6. ASSUME NEW s \in Requests, NEW ip \in IPs \cup {""}, NEW password \in BOOLEAN,
               Arrive(s, ip, password)
        PROVE  FALSE
    <2> DEFINE q == [at |-> IF UsesMap(ip) THEN "lookup" ELSE "validate",
                     ip |-> ip, password |-> password, seen |-> Absent]
    <2>1. q.at # "forward" OBVIOUS
    <2>2. req' = [req EXCEPT ![s] = q] BY <1>6 DEF Arrive
    <2> HIDE DEF q
    <2> QED BY <2>1, <2>2 DEF IndInv, GateTypeOK
  <1>7. ~Tick /\ ~UNCHANGED vars
    BY DEF Tick, vars
  <1> QED BY <1>1, <1>2, <1>3, <1>4, <1>5, <1>6, <1>7 DEF Next

(* A request without the right password is forwarded only if its address   *)
(* gave the right one within the duration, however requests overlap in the *)
(* unlocked map.                                                           *)
THEOREM OnlyAuthenticatedForwarded == Spec => OnlyAuthenticated
  BY GateInvariance, NextForwards, PTL DEF Spec, OnlyAuthenticated
=============================================================================
