SPECIFICATION Spec
CONSTANTS
  c1 = c1
  c2 = c2
  NoFile = NoFile
  Clients <- MCClients
  Names <- MCNames
  Blocks <- MCBlocks
  Tree <- MCTree
  FsInit <- MCFsInit
  LocalInit <- MCLocal
  Menu <- MCReadWrite
  Mortal <- MCFirst
  DataCap = 1
  LsBlocks = 1
INVARIANTS
  ProgressFits
PROPERTIES
  GetFaithful
  PutFaithful
CHECK_DEADLOCK FALSE
