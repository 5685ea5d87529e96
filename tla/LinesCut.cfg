SPECIFICATION FairSpec
CONSTANTS
  a = a
  b = b
  nl = nl
  NL = nl
  Char <- MCChar
  BuffSize = 2
  Texts <- MCNothing
  Writes <- MCPieces
  MaxText = 6
  MaxFails = 2
INVARIANTS
  TypeOK
PROPERTIES
  NothingLost
  EndsWithInput
