SPECIFICATION FaultFairSpec
CONSTANTS
  c1 = c1
  c2 = c2
  NoFile = NoFile
  Clients <- MCClients
  Names <- MCNames
  Blocks <- MCBlocks
  Tree <- MCTree
  FsInit <- MCFsInit
  LocalInit <- MCLocal
  LocalDirs <- MCDirs
  Unlucky <- MCUnlucky
  Menu <- MCMenu
  Mortal <- MCUnlucky
  DataCap = 1
  LsBlocks = 1
  MaxStray = 1
INVARIANTS
  WaitNeedsNoSocket
  OthersInStep
PROPERTIES
  OthersEnd
CHECK_DEADLOCK FALSE
