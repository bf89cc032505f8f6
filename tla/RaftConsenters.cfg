SPECIFICATION Spec
CONSTANTS
  w1 = w1
  w2 = w2
  o1 = o1
  o2 = o2
  o3 = o3
  o4 = o4
  ABSENT = ABSENT
  EMPTY = EMPTY
  GARBAGE = GARBAGE
  Workers = {w1, w2}
  Founders <- MCFounders
  Ops <- MCOps
  Alike <- MCAlike
  MaxRuns = 3
  MaxFaults = 1
  MaxLost = 1
INVARIANTS TypeOK ListedOnce Aligned
PROPERTIES AtomicUnlessMixed
SYMMETRY Symmetric
CHECK_DEADLOCK FALSE
