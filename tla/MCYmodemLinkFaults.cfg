SPECIFICATION FairSpec
CONSTANTS
  DiskSize = 7
  TimeDivide = 0
  TimeMax = 1
  ErrorMax = 1
  PacketSize = 1
  Packet1kSize = 3
  CanNumber = 1
  NumMod = 3
  SohUnits = 3
  StxUnits = 1
  StrayCodes = {"None", "Can", "Eot"}
  FileSizes = {0, 7}
  OutMax = 1
  MaxFaults = 1
  Cancel = TRUE
INVARIANTS
  ReceiverSurvives
  ReceivedInOrder
  EarlyEndTakesTwoMisreads
PROPERTIES
  BothSessionsEnd
