----------------------------- MODULE RegistryData -----------------------------
(***************************************************************************)
(* The data of the service registry kept by the "dns" chaincode: three     *)
(* JSON objects, stored whole under the ledger keys "dns", "orgs" and      *)
(* "osn", and the requests that add to them.  The chaincodes for Fabric    *)
(* 1.x (chaincode/node/dns) and 2.x (chaincode/2x/node/dns) differ in the  *)
(* names they make of a peer, and in nothing else.                         *)
(*                                                                         *)
(* A JSON object is the set of its leaves that matter: a fact [id, ip].    *)
(*   dns   id = <<ip, name>>      the name is on the hosts line of ip      *)
(*   orgs  id = <<org, peer>>     orgs[org].peers[peer].ip = ip            *)
(*   osn   id = <<orderer, port>> osn["orderer:port"].ordererIp = ip       *)
(* An organisation stands for the pair orgId.domain, an orderer for the    *)
(* pair ordererName.domain, a port for the string or its absence (NONE).   *)
(* How names are laid out inside one hosts line is the subject of the      *)
(* module DnsNames.                                                        *)
(***************************************************************************)
CONSTANTS
  Version,    \* of Fabric, and so of the chaincode: "1.x" or "2.x"
  Requests,   \* the calls the clients may make, records as described below
  NONE        \* "no such argument", "no such value"

Keys == {"dns", "orgs", "osn"}

(***************************************************************************)
(* Requests.                                                               *)
(*   [fcn |-> "registerOrg", org, peer, ip, port, peers]                   *)
(*        peers is a function from further peer names to their ip, empty   *)
(*        for a call without that property                                 *)
(*   [fcn |-> "registerOrderer", orderer, ip, port]                        *)
(*   [fcn |-> "get", key]                                                  *)
(***************************************************************************)
IsRegistration(r) == r.fcn # "get"

\* The argument check that makes a handler throw before it touches the ledger:
\* registerOrg wants a port or peers.  registerOrderer tests the domain twice
\* and the port never, so a request without a port is accepted.
Accepted(r) ==
  r.fcn = "registerOrg" => r.port # NONE \/ DOMAIN r.peers # {}

-------------------------------------------------------------------------------

Fact(id, ip) == [id |-> id, ip |-> ip]

DnsFact(ip, name) == Fact(<<ip, name>>, ip)

\* dnsNames of registerOrg: www for the first peer, the peer itself under some
\* forms of its name when its port is given, and every peer of the "peers"
\* argument under one form.
Names(r, forms, listed) ==
  (IF r.peer = "peer0" THEN {DnsFact(r.ip, <<"www", ".", r.org>>)} ELSE {})
    \cup (IF r.port = NONE THEN {}
          ELSE {DnsFact(r.ip, <<r.peer, sep, r.org>>) : sep \in forms})
    \cup {DnsFact(r.peers[p], <<p, listed, r.org>>) : p \in DOMAIN r.peers}

\* Mutant: the peers listed in the request get no hosts entry.
OrgDnsWithoutPeers(r) == Names([r EXCEPT !.peers = [p \in {} |-> NONE]], {".", "-"}, "-")

\* In 2.x a peer is entered as peer.org and peer-org, a listed one as peer-org.
OrgDns2x(r) == Names(r, {".", "-"}, "-")

\* In 1.x both are entered as peer.org.
OrgDns1x(r) == Names(r, {"."}, ".")

\* The form under which every peer is entered.
PeerForm == IF Version = "1.x" THEN "." ELSE "-"

OrgDns(r) == IF Version = "1.x" THEN OrgDns1x(r) ELSE OrgDns2x(r)

\* peers of normalizedOrg: the named peer, when its port is given, replaces an
\* entry of the same name in the "peers" argument.
OrgPeers(r) ==
  IF r.port = NONE
  THEN {Fact(<<r.org, p>>, r.peers[p]) : p \in DOMAIN r.peers}
  ELSE {Fact(<<r.org, p>>, r.peers[p]) : p \in DOMAIN r.peers \ {r.peer}}
         \cup {Fact(<<r.org, r.peer>>, r.ip)}

OrdererDns(r) ==
  IF r.ip = NONE THEN {} ELSE {DnsFact(r.ip, <<"orderer", r.orderer>>)}

OrdererOsn(r) == {Fact(<<r.orderer, r.port>>, r.ip)}

\* What request r adds to the object stored under key k.
NewData(r, k) ==
  CASE r.fcn = "registerOrg"     /\ k = "dns"  -> OrgDns(r)
    [] r.fcn = "registerOrg"     /\ k = "orgs" -> OrgPeers(r)
    [] r.fcn = "registerOrderer" /\ k = "dns"  -> OrdererDns(r)
    [] r.fcn = "registerOrderer" /\ k = "osn"  -> OrdererOsn(r)
    [] OTHER                                   -> {}

\* Mutant: the new object replaces the stored one.
MergeReplaces(data, new) == new

\* Mutant: the new address is written into every leaf.
MergeMovesAll(data, new) ==
  {Fact(f.id, g.ip) : f \in data, g \in new} \cup new

Ids(data) == {f.id : f \in data}

\* _.merge(data, newData) and the dnsUpdater alike: leaves of newData replace
\* the leaves of the same path, unless they are undefined; everything else stays,
\* nothing is deleted.
Merge(data, new) ==
  LET set == {g \in new : g.ip # NONE \/ g.id \notin Ids(data)}
  IN  {f \in data : f.id \notin Ids(set)} \cup set

\* The keys a handler goes through, one read-modify-write each.
FirstKey(r) ==
  CASE r.fcn = "get"         -> r.key
    [] r.fcn = "registerOrg" -> "dns"
    [] OTHER                 -> IF r.ip # NONE THEN "dns" ELSE "osn"

NextKey(r, k) ==
  IF k # "dns" THEN NONE
  ELSE IF r.fcn = "registerOrg" THEN "orgs" ELSE "osn"

TargetKeys(r) == {FirstKey(r), NextKey(r, FirstKey(r))} \ {NONE}

\* Everything that some request could put under some key.
AllFacts == UNION {NewData(r, k) : r \in Requests, k \in Keys}

===============================================================================
