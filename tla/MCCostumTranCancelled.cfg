SPECIFICATION Spec
CONSTANTS
  TimeDivide = 1
  TimeMax = 1
  ErrorMax = 1
  DataLen = 6
  AlarmLen = 5
  ControlNumber = 2
  BufferLen = 9
  RecMod = 1
  Asked = {"RequestAlarm"}
  Cancel = TRUE
  MaxFaults = 0
  GapMax = 8
  InMax = 0
  BadMax = 3
INVARIANTS
  TimedOutMeansNothingCame
