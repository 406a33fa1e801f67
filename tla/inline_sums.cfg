SPECIFICATION Spec
CONSTANTS
  Fns <- MCFns
  Body <- MCBody
  Mains <- MCMains
INVARIANTS
  NothingLeftToRefuse
CHECK_DEADLOCK FALSE
