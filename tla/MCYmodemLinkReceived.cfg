SPECIFICATION Spec
CONSTANTS
  DiskSize = 10
  TimeDivide = 0
  TimeMax = 1
  ErrorMax = 1
  PacketSize = 1
  Packet1kSize = 3
  CanNumber = 1
  NumMod = 4
  SohUnits = 1
  StxUnits = 1
  StrayCodes = {"None"}
  FileSizes = {0, 1, 10}
  OutMax = 2
  MaxFaults = 1
  Cancel = FALSE
INVARIANTS
  ReceivedMeansComplete
