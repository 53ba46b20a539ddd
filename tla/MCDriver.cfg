SPECIFICATION Spec
CONSTANTS
  Prog <- MCProg
  Args <- MCArgs
  Boards <- MCBoards
  CallsOf <- MCCalls
  FieldsOf <- MCFields
  MaxFaults <- MCFaults
  AtPower <- MCAtPower
  MaxWait = 1
  Cancels <- MCCancels
  Savable <- MCSavable
INVARIANTS TypeOK InNamedBank Thawed SameSnapshot RepeaterClosed ScanModeOff NoStaleCancel
  AsleepIsSilent TunedAlike ConfigKept QuietWhenIdle LockedForDtmb
  TextsShow
PROPERTIES SilentRetune TunerThroughBypass SilentWhileTuned
