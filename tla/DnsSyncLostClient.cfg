SPECIFICATION Spec
CONSTANTS
  org1 = org1
  org2 = org2
  raft1 = raft1
  c1 = c1
  c2 = c2
  NONE = NONE
  Orgs = {org2}
  Orderers = {raft1}
  Own = {}
  Calls = {c1, c2}
  MaxLogins = 3
  MaxFaults = 1
  MaxRestarts = 0
CHECK_DEADLOCK FALSE
PROPERTIES EventuallyResolvable
