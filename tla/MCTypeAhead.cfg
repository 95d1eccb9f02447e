CONSTANTS
  a = a
  blank = blank
  maxY = 2
  maxX = 10
  bottomWindowSize = 1
  SizeMod = 65536
  Line <- MCLine
  Blank = blank
  LineSize <- MCLineSize
  Words <- MCWords
  Outputs <- MCOutputs
  StrayItem = {}
  Keys <- MCKeys
  MaxAhead = 2
SPECIFICATION FairTyping
PROPERTIES
  YesFollowsItsKey
  TwoQuitsEnd
