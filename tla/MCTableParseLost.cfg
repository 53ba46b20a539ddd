SPECIFICATION Spec
CONSTANTS
  Versions = {7, 8, 9}
  LastNumber <- SomeLast
  Length <- SomeLength
  Capacity = 2
INVARIANT FoundIsWhole
CHECK_DEADLOCK FALSE
