------------------------------- MODULE MCDnsNames -------------------------------
(* Small instances of DnsNames. *)
EXTENDS DnsNames

Org(params, domain, peer, ip, port, peers) ==
  [fcn |-> "registerOrg", params |-> params, domain |-> domain, peer |-> peer,
   ip |-> ip, port |-> port, www |-> "8080", peers |-> peers]

Orderer(name, domain, ip, port) ==
  [fcn |-> "registerOrderer", name |-> name, domain |-> domain, ip |-> ip,
   port |-> port]

\* The components of one domain on two hosts: a first peer without its name, a
\* second one by parameters, at one address and the other; a second peer without
\* port that lists peers at the other address; a second domain, with a peer and an
\* orderer, that begins with the first one; and a call without port and peers.
MCRequests ==
  {Org(FALSE, "org1.com", NONE, "ip1", "7051", NoPeers),
   Org(TRUE, "org1.com", "peer1", "ip1", "7051", NoPeers),
   Org(FALSE, "org1.com", "peer1", "ip2", "7051", NoPeers),
   Org(FALSE, "org1.com", "peer1", "ip1", NONE, [p \in {"peer0", "peer1"} |-> "ip2"]),
   Org(FALSE, "org1.com.au", "peer0", "ip1", "7051", NoPeers),
   Org(FALSE, "org1.com", "peer0", "ip2", NONE, NoPeers),
   Orderer("orderer", "org1.com.au", "ip2", "7050")}

MCDomainPrefixes == {<<"org1.com", "org1.com.au">>}

===============================================================================
