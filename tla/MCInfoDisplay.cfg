SPECIFICATION FairSpec
CONSTANTS
  MaxPlays = 2
  MaxTicks = 3
INVARIANTS
  TypeOK
  OneRequestPerTick
  NoContextLost
  FreedUseIsBounded
  ScreenSettles
PROPERTIES
  StoppedComesToRest
CHECK_DEADLOCK FALSE
