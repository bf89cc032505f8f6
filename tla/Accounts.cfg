SPECIFICATION Spec
CONSTANTS
  p1 = p1
  p2 = p2
  t1 = t1
  t2 = t2
  t3 = t3
  NaN = NaN
  ABSENT = ABSENT
  Accounts = {"a", "b", "c"}
  Half = 4
  Requests <- MCRequests
  Opening <- MCOpening
  Peers = {p1, p2}
  Tx = {t1, t2, t3}
INVARIANTS TypeOK HistoryExplains
PROPERTIES Serializable Conserved NoDoubleSpend
SYMMETRY Symmetric
