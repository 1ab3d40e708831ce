SPECIFICATION Spec
CONSTANTS
  ByteBits = 2
  HostBits = 4
  Width = {2, 4}
  Layout <- MCLayout
  Finite = {0, 1, 2}
  NaN = NaN
  Half = 4
  Threshold = {1}
  Garbage <- MCGarbage
  Infinity = 5
  FPThreshold = 3
  FPTolerance <- MCFPTolerance
  NotANumber = NaN
  Stride = 10
  Function <- MCFunction
  MaxLine = 25
  MaxPieces = 3
  MaxScopes = 4
  Byte = {0, 1}
  File <- MCFile
  MaxLen = 2
  Addr = {a1, a2, a3}
  Cell = {r1, r2, s1}
  Shadow = {s1}
  GCThreshold = 2
  Null = Null
  MaxExprs = 3
INVARIANT
  AlternativesAreSought
SYMMETRY MCSymmetry
CHECK_DEADLOCK FALSE
