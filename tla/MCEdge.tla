-------------------------------- MODULE MCEdge --------------------------------
(* What a connection meets on its way: the label of its host name, the     *)
(* routing by that name, and the password gate of the client.  The three   *)
(* share no variable, so each is checked with the others at rest: a        *)
(* behaviour is about the part that its first state names.                 *)
EXTENDS HostNames, SniRouting, PasswordGate

CONSTANTS a, b, t1, t2

Host(labels, dots, upper) == [labels |-> labels, dots |-> dots, upper |-> upper]
Api == <<"example", "com">>
(* The API domain, names of two clients, an alias of one of them, names    *)
(* that are nobody's, one with a label too many, and two other domains.    *)
LabelSeqs ==
    {Api, <<"a1">> \o Api, <<"a1x">> \o Api, <<"b1">> \o Api, <<"none">> \o Api,
     <<"x", "a1">> \o Api, <<"push", "org">>, <<"org">>}
MCHosts ==
    {Host(labels, dots, upper) : labels \in LabelSeqs, dots \in 0..2, upper \in BOOLEAN}
        \cup {Host(labels, 3, FALSE) : labels \in LabelSeqs}
MCTailDigits == {Zeros(DigitBits), [j \in 1..DigitBits |-> 1]}
MCApiDomain == Host(Api, 0, TRUE)
MCEndpoints ==
    [name \in {"a1", "a1x", "b1", "none"} |->
        CASE name \in {"a1", "a1x"} -> [ip |-> a, port |-> 1]
          [] name = "b1" -> [ip |-> b, port |-> 1]
          [] OTHER -> Nil]

VARIABLE part   \* "label", "routing" or "gate"

edgeVars == <<label, routeVars, vars, part>>
EdgeInit ==
    /\ LabelInit /\ Init
    /\ \/ part \in {"label", "gate"} /\ routes = {} /\ conn = Nil
       \/ part = "routing" /\ RouteInit
EdgeNext ==
    /\ \/ part = "label" /\ LabelNext /\ UNCHANGED <<routeVars, vars>>
       \/ part = "routing" /\ RouteNext /\ UNCHANGED <<label, vars>>
       \/ part = "gate" /\ Next /\ UNCHANGED <<label, routeVars>>
    /\ UNCHANGED part
EdgeSpec == EdgeInit /\ [][EdgeNext]_edgeVars
=============================================================================
