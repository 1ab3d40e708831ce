SPECIFICATION Spec
CONSTANTS
  Input <- MCInput
  MaxByte = 1
  MaxAddr = 3
  kPageSize = 2
  MaxLen = 3
  MaxValue = 0
  SymbolicFill = TRUE
INVARIANTS
  ShadowsAreBytes
