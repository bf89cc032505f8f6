SPECIFICATION Spec
CONSTANTS
  w1 = w1
  w2 = w2
  org1 = org1
  org2 = org2
  org3 = org3
  org4 = org4
  d1 = d1
  d2 = d2
  ABSENT = ABSENT
  EMPTY = EMPTY
  GARBAGE = GARBAGE
  Workers = {w1, w2}
  Founders = {org1, org4}
  Ops <- MCOps
  Dirs = {d1, d2}
  MaxFaults = 2
  MaxLost = 1
  MaxRuns = 4
CHECK_DEADLOCK FALSE
INVARIANTS TypeOK SuccessUnlessFault
PROPERTIES AtomicUnlessClashed
SYMMETRY Symmetric
