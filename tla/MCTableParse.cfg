SPECIFICATION FairSpec
CONSTANTS
  Versions = {7, 9}
  LastNumber <- SomeLast
  Length <- SomeLength
  Capacity = 2
INVARIANTS TypeOK WholeTable CopyFits
PROPERTY TableFound
CHECK_DEADLOCK FALSE
