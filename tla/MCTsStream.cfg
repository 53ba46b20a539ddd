SPECIFICATION FairSpec
CONSTANTS
  Transfers = {t1, t2}
  NoTransfer = NoTransfer
  EventThreads = {e1}
  Blocks = 0
  Tries = 1
  Requests <- All
  Programs = {TRUE, FALSE}
  Faulty = TRUE
INVARIANTS TypeOK LeftByAnswer 
PROPERTY RequestsEnd
