SPECIFICATION FairSpec
CONSTANTS
  a = a
  b = b
  Callers = {a, b}
  Outcomes = {"result", "nil", "panic"}
  MaxInner = 4
INVARIANTS TypeOK OneRefreshPerLapse
PROPERTIES NeverOlder CallReturns
CHECK_DEADLOCK FALSE
