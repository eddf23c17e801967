CONSTANTS
  Radix = 2
  Nibble = 3
  TopTens = 0
  TickPeriod = 7
  WriteGap = 2
  ScanPeriod = 3
  Requests <- AnyTimes
SPECIFICATION FairSpec
INVARIANTS
  RtcInv
PROPERTIES
  DarkBetweenDigits
  ShowsSelected
  EveryDigitLit
  Recovers
