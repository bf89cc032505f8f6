SPECIFICATION Spec
CONSTANTS
  NaN = NaN
  ABSENT = ABSENT
  Half = 16
  Opening <- MCOpening
  Faucet = 0
  Amounts = {2}
  OtherCalls <- MCOtherCalls
  MaxStack = 3
  MaxBlocks = 3
  MaxClicks = 1
  MaxFaults = 1
CHECK_DEADLOCK FALSE
INVARIANTS TypeOK AlertsBounded NoOverdraft
PROPERTIES EventuallyCurrent SessionReturns PendingEnds
