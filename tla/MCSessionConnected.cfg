SPECIFICATION Spec
CONSTANTS
  Conns = {c1, c2, c3}
  NoConn = NoConn
  FDs <- ThreeFds
  NoFd = NoFd
  Requests <- NoLogout
  Companion = TRUE
SYMMETRY Symmetry
INVARIANTS ServedIsConnected
CHECK_DEADLOCK FALSE
