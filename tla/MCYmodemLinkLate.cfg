SPECIFICATION FairSpec
CONSTANTS
  DiskSize = 10
  TimeDivide = 1
  TimeMax = 1
  ErrorMax = 2
  PacketSize = 1
  Packet1kSize = 3
  CanNumber = 1
  NumMod = 3
  SohUnits = 1
  StxUnits = 1
  StrayCodes = {"None"}
  FileSizes = {0, 1, 5, 10}
  OutMax = 2
  MaxFaults = 0
  Cancel = FALSE
PROPERTIES
  ReliableTransfer
  PromptCableDelivers
