SPECIFICATION Spec
CONSTANTS
  a = a
  b = b
  dot = dot
  slash = slash
  Char <- MCChar
  Slash = slash
  Dot = dot
  Size = 9
  BigSize = 20
  Root <- MCRoot
  Names <- MCNames
INVARIANTS
  TypeOK
  Retrace
  Inside
PROPERTIES
  Addressed
