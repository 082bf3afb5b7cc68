SPECIFICATION FairSpec
CONSTANTS
  TimeDivide = 1
  TimeMax = 1
  ErrorMax = 1
  PacketSize = 1
  Packet1kSize = 2
  CanNumber = 2
  NumMod = 4
  SohUnits = 2
  StxUnits = 3
  StrayCodes = {"None"}
  FileSizes = {0, 1, 2, 9}
  OutMax = 0
  Heard <- MCHeard
  InMax = 2
INVARIANTS
  TypeOK
  SessionOwnsResources
  FileOpenWhileSending
  ResendIsCurrent
  FinishMeansWholeFileRead
PROPERTIES
  OutcomeIsFinal
  CountersRestartOnProgress
  BabblingPeerEndsSession
  SilentPeerEndsSession
