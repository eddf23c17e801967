CONSTANTS
  Depth = 3
  AlmostFull = 2
  BurstLength = 2
  DefaultLength = 2
  LengthRange = 8
  FrameAddresses = {0}
  FrameLengths = {2, 4}
  Requests <- AnyAccess
SPECIFICATION FairSpec
PROPERTIES
  AccessReturns
