CONSTANTS
  Depth = 3
  AlmostFull = 2
  BurstLength = 2
  DefaultLength = 2
  LengthRange = 8
  FrameAddresses = {0}
  FrameLengths = {2, 4}
  Requests <- OddAccess
SPECIFICATION Spec
INVARIANTS
  FifoNeverOverflows
  WordsInOrder
  TopInv
  FifoNeverUnderflows
  IdleMeansDrained
  IrqMeansFrameDone
PROPERTIES
  ReadHeldUntilAccepted
  WriteCycleHeld
