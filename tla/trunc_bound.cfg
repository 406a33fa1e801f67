SPECIFICATION Spec
CONSTANTS
  Precision = 5
  MaxHalves = 1984
  NarrowLog = 2
  MaxLog = 3
  Logs = {2, 3}
  IntConsts <- MCIntConsts
  FloatConsts <- MCFloatConsts
INVARIANTS
  RoundTripsAreExact
CHECK_DEADLOCK FALSE
