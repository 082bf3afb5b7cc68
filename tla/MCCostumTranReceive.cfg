SPECIFICATION FairSpec
CONSTANTS
  TimeDivide = 0
  TimeMax = 1
  ErrorMax = 0
  DataLen = 6
  AlarmLen = 5
  ControlNumber = 2
  BufferLen = 6
  RecMod = 1
  Asked = {"RequestData", "RequestAlarm"}
  Cancel = TRUE
  MaxFaults = 0
  GapMax = 8
  InMax = 0
  BadMax = 0
PROPERTIES
  SilentDeviceEndsExport
  OutcomeIsFinal
INVARIANTS
  TypeOK
  SessionOwnsResources
  WaitIsBounded
