SPECIFICATION Spec
CONSTANTS
  c1 = c1
  NoFile = NoFile
  Clients <- MCClients
  Names <- MCNames
  Blocks <- MCBlocks
  Tree <- MCTree
  FsInit <- MCFsInit
  LocalInit <- MCLocal
  Menu <- MCMenu
  Mortal <- MCClients
  DataCap = 1
  LsBlocks = 2
INVARIANTS
  TypeOK
  InStep
  RightToken
  NoMutualWait
  SameCommand
  ServerExitNeedsACrash
CHECK_DEADLOCK FALSE
