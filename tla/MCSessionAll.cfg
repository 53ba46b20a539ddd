SPECIFICATION Spec
CONSTANTS
  Conns = {c1, c2, c3}
  NoConn = NoConn
  FDs <- TwoFds
  NoFd = NoFd
  Requests <- QueryLogout
  Companion = TRUE
SYMMETRY Symmetry
INVARIANTS TypeOK NeverLockedOut
CHECK_DEADLOCK FALSE
