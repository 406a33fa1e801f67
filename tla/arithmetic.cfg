SPECIFICATION Spec
CONSTANTS
  Precision = 5
  MaxHalves = 1984
  NarrowLog = 2
  MaxLog = 3
  Logs = {0, 1, 2, 3}
  IntConsts <- MCIntConsts
  FloatConsts <- MCFloatConsts
INVARIANTS
  TypeOK
  ComputesTheOperations
  PoisonIsNotSelected
  TruncIsRight
  RoundTrips
  HalfturnsAreChecked
CHECK_DEADLOCK FALSE
