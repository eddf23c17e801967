CONSTANTS
  Bits = 2
  DefaultDivisor = 1
  Controls <- AnyControl
  Data <- OneByte
  Divisors = {0}
  Reads = {0, 2}
SPECIFICATION FairSpec
INVARIANTS
  I2cInv
PROPERTIES
  EndsWhenDone
  CommandHeld
  CommandEnds
