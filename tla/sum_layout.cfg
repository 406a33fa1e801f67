SPECIFICATION Spec
CONSTANTS
  SumTypes <- MCSumTypes
  Rows <- MCRows
  MaxFields = 2
  Value = {a, b, poison}
  Poison = poison
  Undef = undef
  MaxTag = 3
INVARIANTS
  TypeOK
  WireIsASum
PROPERTIES
  BehavesAsASum
