CONSTANTS
  Newline = newline
  x = x
  y = y
  Char <- MCChar
  Outputs <- MCOutputs
  PipeSize = 2
  BufSize = 4
SPECIFICATION FairSpec
INVARIANTS
  TypeOK
  Conserved
  ReturnsBeginning
  CutAtLineEnd
PROPERTIES
  ExecReturns
