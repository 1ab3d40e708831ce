SPECIFICATION Spec
CONSTANTS
  Content <- MCContent
  FileAt <- MCFileAt
  NameIn <- MCNameIn
  Char = {2}
  FD = {0, 1}
  BufLen = 2
CONSTRAINTS
  Tracking
  OneInUse
INVARIANTS
  TypeOK
  OffsetIsPosition
  ExactExpressionsMatch

  
