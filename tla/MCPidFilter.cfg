SPECIFICATION Spec
CONSTANTS
  LastSlot = 3
  LastGroup = 1
  GroupOf <- InPairs
  Bytes = {0, 1}
  NullPid <- NullPacket
  ResetBytes = {0, 1}
  Lists <- SomeLists
  Attempts = 2
  Faulty = TRUE
INVARIANTS TypeOK AskedPass UnfilteredPass
PROPERTY FilterSteady
