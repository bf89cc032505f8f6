SPECIFICATION Spec
CONSTANTS
  p1 = p1
  p2 = p2
  t1 = t1
  t2 = t2
  t3 = t3
  NONE = NONE
  Version = "2.x"
  Peers = {p1, p2}
  Tx = {t1, t2}
  MaxInFlight = 2
  Requests <- MCQueryRequests
INVARIANTS ValidMeansRegistered
SYMMETRY Symmetric
