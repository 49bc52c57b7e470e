------------------------------ MODULE SniRouting ------------------------------
(***************************************************************************)
(* Where the server sends a TLS connection, by the host name in it         *)
(* (tunwg/sni_routes.go, tunwg/tunwgs.go), and which names a client        *)
(* accepts certificates for (tunnelHostPolicy, internal/tls.go).  The      *)
(* three read the same name with code of their own.                        *)
(*                                                                         *)
(* A host name is its labels, the number of dots after the last one and    *)
(* whether it has capital letters.                                         *)
(***************************************************************************)
EXTENDS Integers, SequencesExt

CONSTANTS
    Hosts,        \* host names, as clients and the operator write them
    ApiDomain,    \* TUNWG_API
    Clients,      \* WireGuard addresses of clients
    Endpoints,    \* label -> what LookupEncodedIPPort finds, or Nil
    Targets,      \* backends of static routes
    BadTarget,    \* a line without a valid target
    MaxLines,     \* bound: lines of TUNWG_SNI_ROUTES
    Nil

ASSUME HostsAssumption ==
    Hosts \subseteq [labels : Seq(STRING), dots : Nat, upper : BOOLEAN]
ASSUME ApiAssumption == ApiDomain \in Hosts /\ ApiDomain.dots = 0

VARIABLES
    routes,    \* sniConfig.routes: the static routes, or Nil if refused
    conn       \* the last connection: host, its CNAME, where it went
routeVars == <<routes, conn>>

-----------------------------------------------------------------------------
(* Names. *)

ToLower(host) == [host EXCEPT !.upper = FALSE]
TrimDot(host) == [host EXCEPT !.dots = IF @ = 0 THEN 0 ELSE @ - 1]
normalizeSNIHost(host) == ToLower(TrimDot(host))

(* strings.HasSuffix(host, "." + domain). *)
Under(host, domain) ==
    /\ host.dots = domain.dots
    /\ Len(host.labels) > Len(domain.labels)
    /\ IsSuffix(domain.labels, host.labels)

ExtractEncodedLabel(host) ==
    LET name == normalizeSNIHost(host)
    IN  IF Under(name, ToLower(ApiDomain)) /\ Len(name.labels) = Len(ApiDomain.labels) + 1
        THEN Head(name.labels) ELSE Nil

(* An empty label is what a second dot at the end leaves behind. *)
validDNSName(host) == host.dots = 0

-----------------------------------------------------------------------------
(* Configuration. *)

(* Mutant: only the API domain itself is reserved. *)
ReservedApiOnly(host) == host = normalizeSNIHost(ApiDomain)
Reserved(host) ==
    \/ host = normalizeSNIHost(ApiDomain)
    \/ Under(host, normalizeSNIHost(ApiDomain))

(* Mutant: routes are kept under the name as it was written. *)
RouteOfLineRaw(line) == [host |-> line.host, target |-> line.target]
RouteOfLine(line) == [host |-> normalizeSNIHost(line.host), target |-> line.target]

(* Every line is good, or the server does not start. *)
parseSNIConfig(lines) ==
    LET host(i) == normalizeSNIHost(lines[i].host)
    IN  IF \A i \in 1..Len(lines) :
               /\ validDNSName(host(i))
               /\ ~Reserved(host(i))
               /\ \A j \in 1..(i - 1) : host(j) # host(i)
               /\ lines[i].target # BadTarget
        THEN {RouteOfLine(lines[i]) : i \in 1..Len(lines)}
        ELSE Nil

-----------------------------------------------------------------------------
(* Routing: the API, then static routes, then tunnels. *)

(* cname is the answer of the resolver, Nil if it has none. *)
getIPForDomain(sniName, cname) ==
    LET name == normalizeSNIHost(sniName)
        label == IF ExtractEncodedLabel(name) # Nil THEN ExtractEncodedLabel(name)
                 ELSE IF Under(name, ToLower(ApiDomain)) \/ cname = Nil THEN Nil
                 ELSE ExtractEncodedLabel(cname)
    IN  IF label = Nil THEN Nil ELSE Endpoints[label]

Static(host) == {r \in routes : r.host = normalizeSNIHost(host)}

Route(host, cname) ==
    IF normalizeSNIHost(host) = normalizeSNIHost(ApiDomain) THEN [kind |-> "api"]
    ELSE IF Static(host) # {}
    THEN [kind |-> "static", target |-> (CHOOSE r \in Static(host) : TRUE).target]
    ELSE IF getIPForDomain(host, cname) # Nil
    THEN [kind |-> "tunnel", addr |-> getIPForDomain(host, cname)]
    ELSE [kind |-> "none"]

(* sslRedirect: an http-01 challenge goes to port 80 of the client. *)
ChallengeTarget(host, cname) ==
    LET addr == getIPForDomain(host, cname)
    IN  IF addr = Nil THEN Nil ELSE addr.ip

(* Mutant: the policy does not ask whose name it is. *)
tunnelHostPolicyAnyIP(local, host) ==
    LET name == normalizeSNIHost(host)
        label == ExtractEncodedLabel(name)
    IN  \/ name = ToLower(ApiDomain)
        \/ label = Nil /\ ~Under(name, ToLower(ApiDomain))
        \/ label # Nil /\ Endpoints[label] # Nil

(* Does the instance with the address local ask for a certificate? *)
tunnelHostPolicy(local, host) ==
    LET name == normalizeSNIHost(host)
        label == ExtractEncodedLabel(name)
    IN  \/ name = ToLower(ApiDomain)
        \/ label = Nil /\ ~Under(name, ToLower(ApiDomain))
        \/ label # Nil /\ Endpoints[label] # Nil /\ Endpoints[label].ip = local

-----------------------------------------------------------------------------
OfApi(host) == IsSuffix(ApiDomain.labels, host.labels)

Lines == [host : Hosts, target : Targets \cup {BadTarget}]
RouteInit ==
    /\ \E lines \in UNION {[1..n -> Lines] : n \in 0..MaxLines} :
           routes = parseSNIConfig(lines)
    /\ conn = Nil

Connect(host, cname) ==
    /\ routes # Nil
    /\ conn' = [host |-> host, cname |-> cname, route |-> Route(host, cname)]
    /\ UNCHANGED routes

(* LookupCNAME of the name without its last dot: any answer, except that   *)
(* the API domain and the names under it are the server's own and no       *)
(* aliases, and that a name with an empty label is refused.                *)
LookupCNAME(host) ==
    {Nil} \cup (IF normalizeSNIHost(host).dots > 1 THEN {}
                ELSE IF OfApi(host) THEN {[host EXCEPT !.dots = 1]} ELSE Hosts)

RouteNext == \E host \in Hosts : \E cname \in LookupCNAME(host) : Connect(host, cname)

RouteSpec == RouteInit /\ [][RouteNext]_routeVars

-----------------------------------------------------------------------------
SameDomain(host, domain) == host.labels = domain.labels /\ host.dots <= 1
(* No connection for the API domain or a name under it reaches a static    *)
(* backend, however names are written in the configuration and in the      *)
(* connection, so a static route cannot shadow the API or a tunnel.        *)
ReservedNames == conn # Nil /\ OfApi(conn.host) => conn.route.kind # "static"

(* A static domain is served by its backend, and by no other, for every    *)
(* way of writing it.                                                      *)
StaticServed ==
    conn # Nil =>
        \A r \in routes :
            SameDomain(conn.host, r.host) =>
                conn.route = [kind |-> "static", target |-> r.target]

(* A connection that the server sends to a client is one that the client   *)
(* accepts a certificate for, and the challenges for it reach that client. *)
(* No other client asks for a certificate of a name under the API domain.  *)
CertificateOwner ==
    conn # Nil /\ conn.route.kind = "tunnel" =>
        LET ip == conn.route.addr.ip
        IN  /\ tunnelHostPolicy(ip, conn.host)
            /\ ChallengeTarget(conn.host, conn.cname) = ip
            /\ OfApi(conn.host) =>
                   \A other \in Clients \ {ip} : ~tunnelHostPolicy(other, conn.host)
=============================================================================
