CONSTANTS
  Radix = 2
  Nibble = 3
  TopTens = 0
  TickPeriod = 6
  WriteGap = 2
  Requests = {}
  SetTime <- TimeToSet
SPECIFICATION ReaderSpec
INVARIANTS
  ReaderInv
