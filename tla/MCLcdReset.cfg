CONSTANTS
  Depth = 3
  AlmostFull = 2
  BurstLength = 2
  DefaultLength = 4
  LengthRange = 8
  MaxPending = 4
  Requests <- FrameAccess
SPECIFICATION FairSpec
INVARIANTS
  ResetInv
  OneFrameDrains
  Resynchronises
PROPERTIES
  FrameEnds
