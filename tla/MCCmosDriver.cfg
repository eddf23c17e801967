CONSTANTS
  MaxConfig = 3
  ConfigSpan = 4
  PixelSpan = 4
  Values <- AllValues
  Calls <- SomeCalls
SPECIFICATION DriverFairSpec
INVARIANTS
  CmosInv
  DriverInv
  Configured
PROPERTIES
  KeepsRules
  IsSensor
  FramesEnd
