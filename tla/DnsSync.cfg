SPECIFICATION Spec
CONSTANTS
  org1 = org1
  org2 = org2
  raft1 = raft1
  c1 = c1
  c2 = c2
  NONE = NONE
  Orgs = {org1}
  Orderers = {raft1}
  Own = {org1}
  Calls = {c1, c2}
  MaxLogins = 3
  MaxFaults = 1
  MaxRestarts = 1
CHECK_DEADLOCK FALSE
INVARIANTS TypeOK OneListener OneUpdateAtATime
PROPERTIES HostsNeverGoBack ResolvableUnlessSlow TrustedUnlessSlow
