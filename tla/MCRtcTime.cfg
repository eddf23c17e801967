CONSTANTS
  Radix = 3
  Nibble = 4
  TopTens = 1
  TickPeriod = 6
  WriteGap = 2
  Requests <- ProgramRequests
SPECIFICATION TimeSpec
INVARIANTS
  TimeInv
PROPERTIES
  TimeMovesForward
