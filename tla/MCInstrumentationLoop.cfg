SPECIFICATION Spec
CONSTANTS
  x = x
  y = y
  c = c
  f = f
  cell1 = cell1
  cell2 = cell2
  Null = Null
  Input = {0, 1}
  theInput = 0
  Word = {0, 1}
  Reg <- MCReg
  Type <- MCType
  Literal <- MCLiteral
  Cell = {cell1, cell2}
  At <- MCAt
  Content <- MCContent
  Arith <- MCArith
  Compare <- MCCompare
  Convert <- MCConvert
  LowBit <- MCLowBit
  Case = {1}
  LoopTest = {1}
  MaxDepth = 2
  MaxSteps = 5
SYMMETRY Symmetric
CONSTRAINT FewBusy
INVARIANTS
  EveryDecisionIsPushed
CHECK_DEADLOCK FALSE
