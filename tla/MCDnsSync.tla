------------------------------- MODULE MCDnsSync -------------------------------
(* Small instances of DnsSync. *)
EXTENDS DnsSync

CONSTANTS org1, org2, raft1, c1, c2

===============================================================================
