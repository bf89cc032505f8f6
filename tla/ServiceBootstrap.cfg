SPECIFICATION Spec
CONSTANTS
  org1 = org1
  org2 = org2
  org3 = org3
  Orgs = {org1, org2, org3}
  boot = org1
  MaxRuns = 2
  MaxTries = 3
  MaxFaults = 1
INVARIANTS TypeOK ListedOnesServe
PROPERTIES BootstrapCompletes JoinersGetIn
CHECK_DEADLOCK FALSE
