SPECIFICATION FairSpec
CONSTANTS
  TimeDivide = 1
  TimeMax = 1
  ErrorMax = 1
  PacketSize = 1
  Packet1kSize = 2
  CanNumber = 2
  NumMod = 4
  SohUnits = 1
  StxUnits = 2
  StrayCodes = {"None", "C"}
  FileSizes = {0, 3}
  OutMax = 0
  Heard <- MCHeard
  InMax = 2
  DiskSize = 2
INVARIANTS
  TypeOK
  SessionOwnsResources
  FileOpenWhileReceiving
  WaitIsBounded
  CountMatchesFile
PROPERTIES
  OutcomeIsFinal
  SilentPeerEndsSession
