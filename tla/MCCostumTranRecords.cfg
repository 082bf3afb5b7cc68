SPECIFICATION Spec
CONSTANTS
  TimeDivide = 0
  TimeMax = 9
  ErrorMax = 1
  DataLen = 9
  AlarmLen = 6
  ControlNumber = 2
  BufferLen = 9
  RecMod = 2
  Asked = {"RequestData", "RequestAlarm"}
  Cancel = FALSE
  MaxFaults = 1
  GapMax = 2
  InMax = 6
  BadMax = 5
INVARIANTS
  RecordFits
  TimedOutMeansNothingCame
  AcceptedIsOneRecord
  GapCostsTwoRecords
