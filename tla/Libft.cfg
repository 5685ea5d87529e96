SPECIFICATION LibftSpec
CONSTANTS
  n1 = n1
  n2 = n2
  n3 = n3
  n4 = n4
  Null = Null
  NUL = NUL
  Blank = Blank
  Other = Other
  Beyond = Beyond
  Overrun = Overrun
  Pending = Pending
  Cells <- MCCells
  Contents = {"a", "b"}
  MaxWords = 3
  Bits = 10
  BarSize = 51
  MaxSize = 7
  MaxBlock = 4
  MaxCalls = 4
  Size = 5
  Widths <- MCWidths
  Calls <- MCCalls
SYMMETRY Symmetry
INVARIANTS
  CountIsWritten
  AsStandard
  Accounted
  BarFits
  AsMeant
PROPERTIES
  ListsAreSequences
CHECK_DEADLOCK FALSE
