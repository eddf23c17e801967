CONSTANTS
  Depth = 3
  AlmostFull = 2
  BurstLength = 2
  DefaultLength = 2
  LengthRange = 8
  FrameAddresses = {0, 16}
  FrameLengths = {2, 4}
  Requests <- OnlyProgram
  Commands = {17}
  Values = {1}
  MinGap = 2
SPECIFICATION AppFairSpec
INVARIANTS
  AppInv
PROPERTIES
  KeepsPromise
  CallsReturn
  FrameCompletes
