CONSTANTS
  p = p
  q = q
  blank = blank
  maxY = 3
  maxX = 10
  bottomWindowSize = 1
  SizeMod = 65536
  Line <- MCLine
  Blank <- MCBlank
  LineSize <- MCLineSize
  Words <- MCWords
  Outputs <- MCOutputs
  StrayItem = {}
  Names <- MCNames
  Torn <- MCTorn
  MaxChanges = 1
VIEW MCView
SPECIFICATION SessionSpec
INVARIANTS
  SessionTypeOK
  ListIsCurrent
  RemovesAllOrNone
PROPERTIES
  UnsavedTextSurvives
