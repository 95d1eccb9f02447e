CONSTANTS
  Char <- MCChar
  Paths <- MCPaths
  Listings <- MCListings
  maxX = 12
SPECIFICATION Spec
INVARIANTS
  SelectionIsASet
  RowsShowPaths
  ArgumentsAreSelected
