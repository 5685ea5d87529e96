SPECIFICATION Spec
CONSTANTS
  a = a
  b = b
  nl = nl
  NL = nl
  Char <- MCChar
  BuffSize = 2
  Texts <- MCFiles
  Writes <- MCLines
  MaxText = 9
  MaxFails = 0
INVARIANTS
  NothingHeldBack
PROPERTIES
  WholeLines
