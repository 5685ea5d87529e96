SPECIFICATION FairSpec
CONSTANTS
  c1 = c1
  c2 = c2
  NoFile = NoFile
  Clients <- MCClients
  Names <- MCNames
  Blocks <- MCBlocks
  Tree <- MCTree
  FsInit <- MCFsInit
  LocalInit <- MCLocal
  Menu <- MCTransferList
  Mortal <- MCClients
  DataCap = 1
  LsBlocks = 1
PROPERTIES
  CommandEnds
  QuitEndsSession
  CrashEndsSession
CHECK_DEADLOCK FALSE
