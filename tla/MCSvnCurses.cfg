CONSTANTS
  a = a
  b = b
  note = note
  long = long
  stray = stray
  blank = blank
  maxY = 3
  maxX = 10
  bottomWindowSize = 1
  SizeMod = 65536
  Line <- MCLine
  Blank = blank
  LineSize <- MCLineSize
  Words <- MCWords
  Outputs <- MCOutputs
  StrayItem <- MCStrayItem
SPECIFICATION FairSpec
INVARIANTS
  TypeOK
  PrintedItemsFit
  SelectionIsListed
  ScreenShowsState
  UndefinedOnlyAfterShrink
  MessageWindow
  TerminalRestored
PROPERTIES
  ChangesAreControlled
  ViewMovesAsViewport
  AlwaysBackToKeys
