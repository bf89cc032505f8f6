SPECIFICATION TableSpec
CONSTANTS
  first = first  second = second
  date = date  owner = owner  shared = shared
  t1 = t1  d1 = d1  UNDEF = UNDEF  EMPTY = EMPTY  EPOCH = EPOCH
  Tabs <- MCTabs
  Columns <- MCColumns
  Texts <- MCTexts
  Dates <- MCDates
  MaxSteps = 4
  MaxFailures = 1
SYMMETRY MCSymmetry
CHECK_DEADLOCK FALSE
INVARIANTS TablesOK ViewRight
PROPERTY Restored
