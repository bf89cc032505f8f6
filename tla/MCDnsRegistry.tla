---------------------------- MODULE MCDnsRegistry ----------------------------
(* Small instances of DnsRegistry. *)
EXTENDS DnsRegistry, TLC

CONSTANTS p1, p2, t1, t2, t3

NoPeers == [p \in {} |-> "ip1"]

Org(org, peer, ip, port, peers) ==
  [fcn |-> "registerOrg", org |-> org, peer |-> peer, ip |-> ip,
   port |-> port, peers |-> peers]

Orderer(orderer, ip, port) ==
  [fcn |-> "registerOrderer", orderer |-> orderer, ip |-> ip, port |-> port]

Query(key) == [fcn |-> "get", key |-> key]

\* A peer of an organisation, a call that lists this peer and another one at a new
\* address, an orderer with and without its address, another one without, a call
\* without the required arguments, and the periodic query of the name service.
MCRequests ==
  {Org("org1", "peer0", "ip1", "7051", NoPeers),
   Org("org1", "peer1", "ip2", NONE, [p \in {"peer0", "peer1"} |-> "ip2"]),
   Org("org2", "peer0", "ip2", NONE, NoPeers),
   Orderer("raft0", "ip1", NONE),
   Orderer("raft0", NONE, NONE),
   Orderer("raft1", NONE, NONE),
   Query("dns")}

\* A registration and the query.
MCQueryRequests ==
  {Org("org1", "peer0", "ip1", "7051", NoPeers), Query("dns")}

Symmetric == Permutations(Tx) \cup Permutations(Peers)

==============================================================================
