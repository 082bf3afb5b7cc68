SPECIFICATION Spec
CONSTANTS
  DiskSize = 5
  TimeDivide = 0
  TimeMax = 1
  ErrorMax = 2
  PacketSize = 1
  Packet1kSize = 2
  CanNumber = 1
  NumMod = 4
  SohUnits = 1
  StxUnits = 1
  StrayCodes = {"None"}
  FileSizes = {0, 1, 2, 5}
  OutMax = 2
  MaxFaults = 0
  Cancel = FALSE
INVARIANTS
  SentMeansComplete
