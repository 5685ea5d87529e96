SPECIFICATION Spec
CONSTANTS
  k1 = k1
  k2 = k2
  k3 = k3
  NoConn = NoConn
  Conns <- MCThree
  Fds <- MCFds
  MaxThreads = 3
INVARIANTS
  OneThreadPerConnection
CHECK_DEADLOCK FALSE
