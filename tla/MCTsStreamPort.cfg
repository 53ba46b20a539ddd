SPECIFICATION Spec
CONSTANTS
  Transfers = {t1, t2}
  NoTransfer = NoTransfer
  EventThreads = {e1, e2}
  Blocks = 1
  Tries = 1
  Requests <- OnlyTune
  Programs = {FALSE}
  Faulty = FALSE
SYMMETRY Symmetry
INVARIANT PortFree
