SPECIFICATION Spec
CONSTANTS
  Char <- MCChar
  Space = " "
  Slash = "/"
  Colon = ":"
  NL = "n"
  Nul = "NUL"
  Word <- MCWord
  Code <- MCCode
  Second <- MCSecond
  MaxTn = 9
  Lines <- MCLines
  Stack <- MCStack
  Behind <- MCBehind
INVARIANTS
  TypeOK
  CommandKept
  Understood
  SecondTaken
  NullExplained
CHECK_DEADLOCK FALSE
