SPECIFICATION Spec
CONSTANTS
  Fns <- MCFns
  Body <- MCBody
  Mains <- MCMains
INVARIANTS
  TypeOK
  NoConstFunctionsLeft
  CollectedUsesAreCurrent
  EveryLoadHasItsFunction
PROPERTIES
  OnlyConstantsAndLoadsChange
  Terminates
CHECK_DEADLOCK FALSE
