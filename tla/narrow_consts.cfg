SPECIFICATION Spec
CONSTANTS
  Precision = 5
  MaxHalves = 1984
  NarrowLog = 2
  MaxLog = 3
  Logs = {1, 2}
  IntConsts <- MCIntConsts
  FloatConsts <- MCFloatConsts
INVARIANTS
  ConstantsKeepTheirSign
CHECK_DEADLOCK FALSE
