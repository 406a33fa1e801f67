SPECIFICATION Spec
CONSTANTS
  Elems = {a, b}
  Sizes = {0, 1, 2, 3, 4}
  Indices = {0, 1, 2, 3, 4, 5}
  LenMod = 8
INVARIANTS
  TypeOK
  AccessesInBounds
PROPERTIES
  ComputesTheOperation
