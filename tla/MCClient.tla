------------------------------- MODULE MCClient -------------------------------
(* The two parts of a client process that keep state over failures.  They  *)
(* share no variable, so each is checked with the other one at rest: a     *)
(* behaviour is about the part that its first state names.  A part at rest *)
(* has no step that fairness asks for.                                     *)
EXTENDS ClientLibrary, Certificates

VARIABLE part   \* "library" or "certificates"

clientVars == <<vars, certVars, part>>
ClientInit ==
    /\ Init /\ CertInit
    /\ \/ part = "library" /\ port80 = Free
       \/ part = "certificates" /\ server.key = CHOOSE k \in ServerKeys : TRUE
ClientNext ==
    /\ \/ part = "library" /\ Next /\ UNCHANGED certVars
       \/ part = "certificates" /\ CertNext /\ UNCHANGED vars
    /\ UNCHANGED part
ClientSpec == ClientInit /\ [][ClientNext]_clientVars /\ Fairness /\ CertFairness
=============================================================================
