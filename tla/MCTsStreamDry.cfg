SPECIFICATION Spec
CONSTANTS
  Transfers = {t1, t2, t3}
  NoTransfer = NoTransfer
  EventThreads = {e1, e2}
  Blocks = 1
  Tries = 2
  Requests <- WithStart
  Programs = {FALSE}
  Faulty = FALSE
SYMMETRY Symmetry
INVARIANT StreamIsFed
