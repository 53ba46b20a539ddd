SPECIFICATION FairSpec
CONSTANTS
  Conns = {c1, c2}
  NoConn = NoConn
  FDs <- TwoFds
  NoFd = NoFd
  Requests <- AllRequests
  Companion = TRUE
PROPERTIES ClientsForgotten
CHECK_DEADLOCK FALSE
