SPECIFICATION Spec
CONSTANTS
  Input <- MCInput
  MaxByte = 1
  MaxAddr = 3
  kPageSize = 2
  MaxLen = 1
  MaxValue = 2
  SymbolicFill = FALSE
INVARIANTS
  RegisterConsistency
  ShadowsAreBytes
PROPERTIES
  ImplementsFlatShadow
