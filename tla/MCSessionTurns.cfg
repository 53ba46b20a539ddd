SPECIFICATION Spec
CONSTANTS
  Conns = {c1, c2, c3, c4}
  NoConn = NoConn
  FDs <- TwoFds
  NoFd = NoFd
  Requests <- NoLogout
  Companion = FALSE
INVARIANTS OneServer AnswerToAsker StartsLoggedOut
PROPERTIES OnePlace
CHECK_DEADLOCK FALSE
