SPECIFICATION Spec
CONSTANTS
  Fns <- MCFns
  Body <- MCBody
  Mains <- MCMains
INVARIANTS
  LoadsAreLinked
CHECK_DEADLOCK FALSE
