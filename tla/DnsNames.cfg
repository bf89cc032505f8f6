SPECIFICATION Spec
CONSTANTS
  Addresses = {"ip1", "ip2"}
  Domains = {"org1.com", "org1.com.au"}
  DomainPrefixes <- MCDomainPrefixes
  Requests <- MCRequests
  NONE = NONE
INVARIANTS TypeOK NamesResolvable RepeatsSettle PeersResolvable
