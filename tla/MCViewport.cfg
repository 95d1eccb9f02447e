CONSTANTS
  maxY = 11
  bottomWindowSize = 8
  SizeMod = 65536
  MaxSize = 15
  Sizes <- MCSizes
SPECIFICATION Spec
INVARIANTS
  TypeOK
  CursorNearPad
PROPERTIES
  OnlyShortJumpLeavesPad
  OnlyShrinkingStrands
  ScrollingKeepsPadFull
