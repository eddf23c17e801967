----------------------------- MODULE RtcProofs -----------------------------
(***************************************************************************)
(* Proofs about RtcTime, RtcReader and Rtc, for every radix and period     *)
(* that meets the assumptions.  What is said of the time asks for settable *)
(* writes, apart; what is said of the display holds under any.             *)
(***************************************************************************)
EXTENDS Rtc, RtcReader, TLAPS

----------------------------------------------------------------------------
(* The BCD increment. *)

\* A two-digit BCD number below 99 is incremented to one, and to a later one.
LEMMA IncrementBcd ==
  ASSUME NEW byte \in Bcd, byte # Last
  PROVE  increment_bcd(byte) \in Bcd /\ Before(byte, increment_bcd(byte))
<1> DEFINE tens == byte[1]
           units == byte[2]
<1>1. tens \in 0..Radix-1 /\ units \in 0..Radix-1 /\ byte = <<tens, units>>
  BY DEF Bcd
<1>2. (units + 1) % Nibble = units + 1
  BY <1>1, RadixAssumption
<1>3. CASE units + 1 >= Radix
  <2>1. units = Radix - 1 /\ tens # Radix - 1
    BY <1>1, <1>3, RadixAssumption DEF Last
  <2>2. (tens + 1) % Nibble = tens + 1
    BY <1>1, RadixAssumption
  <2>3. increment_bcd(byte) = <<tens + 1, 0>>
    BY <1>2, <1>3, <2>2 DEF increment_bcd
  <2> QED
    BY <1>1, <2>1, <2>3, RadixAssumption DEF Bcd, Before
<1>4. CASE ~(units + 1 >= Radix)
  <2>1. increment_bcd(byte) = <<tens, units + 1>>
    BY <1>2, <1>4 DEF increment_bcd
  <2> QED
    BY <1>1, <1>4, <2>1, RadixAssumption DEF Bcd, Before
<1> QED
  BY <1>3, <1>4

\* The increment of any byte is a byte.
LEMMA IncrementByte ==
  ASSUME NEW byte \in Byte
  PROVE  increment_bcd(byte) \in Byte
<1>1. byte[1] \in 0..Nibble-1 /\ byte[2] \in 0..Nibble-1
  BY DEF Byte
<1>2. /\ (byte[1] + 1) % Nibble \in 0..Nibble-1
      /\ (byte[2] + 1) % Nibble \in 0..Nibble-1
      /\ 0 \in 0..Nibble-1
  BY <1>1, RadixAssumption
<1> QED
  BY <1>1, <1>2 DEF increment_bcd, Byte

\* A second before the last is followed by a second.
LEMMA IncrementSecond ==
  ASSUME NEW byte, IsSecond(byte), byte # LastSecond
  PROVE  IsSecond(increment_bcd(byte))
<1> DEFINE tens == byte[1]
           units == byte[2]
<1>1. tens \in 0..Radix-1 /\ units \in 0..Radix-1 /\ byte = <<tens, units>>
  BY DEF IsSecond, Bcd
<1>2. tens < TopTens \/ (tens = TopTens /\ units < Radix - 1)
  BY <1>1, PeriodAssumption, RadixAssumption DEF IsSecond, LastSecond, Before
<1>3. (units + 1) % Nibble = units + 1
  BY <1>1, RadixAssumption
<1>4. CASE units + 1 >= Radix
  <2>1. (tens + 1) % Nibble = tens + 1
    BY <1>1, RadixAssumption
  <2>2. increment_bcd(byte) = <<tens + 1, 0>>
    BY <1>3, <1>4, <2>1 DEF increment_bcd
  <2>3. tens + 1 <= TopTens
    BY <1>1, <1>2, <1>4, PeriodAssumption, RadixAssumption
  <2> QED
    BY <1>1, <2>2, <2>3, PeriodAssumption, RadixAssumption DEF IsSecond, LastSecond, Before, Bcd
<1>5. CASE ~(units + 1 >= Radix)
  <2>1. increment_bcd(byte) = <<tens, units + 1>>
    BY <1>3, <1>5 DEF increment_bcd
  <2> QED
    BY <1>1, <1>2, <1>5, <2>1, PeriodAssumption, RadixAssumption
    DEF IsSecond, LastSecond, Before, Bcd
<1> QED
  BY <1>4, <1>5

\* The bytes the clock is compared with and cleared to.
LEMMA Limits ==
  /\ Zero \in Bcd /\ Last \in Bcd /\ Zero # Last
  /\ IsSecond(Zero) /\ IsSecond(LastSecond) /\ Zero # LastSecond
  /\ Bcd \subseteq Byte
BY RadixAssumption, PeriodAssumption DEF Bcd, Byte, Zero, Last, LastSecond, IsSecond, Before

----------------------------------------------------------------------------
(* The time registers. *)

LEMMA TimeStart == TimeInit => TimeInv
<1> SUFFICES ASSUME TimeInit PROVE TimeInv
  OBVIOUS
<1>1. enable_100hz \in BOOLEAN /\ ~enable_100hz
  BY Zenon DEF TimeInit
<1>2. /\ hundreds \in Byte /\ seconds \in Byte /\ minutes \in Byte /\ read_data \in Byte
      /\ count_100hz \in 0..TickPeriod-1
      /\ gap \in 0..WriteGap
  BY Limits, PeriodAssumption, GapAssumption DEF TimeInit
<1>3. ValidTime /\ ReadsDecimal /\ CarryPending
  BY Limits DEF TimeInit, ValidTime, ReadsDecimal, CarryPending
<1> QED
  BY <1>1, <1>2, <1>3, Zenon DEF TimeInv, TimeTypeOK

\* The divider signals a tick exactly when it restarts.
LEMMA DivideStep ==
  ASSUME TimeTypeOK, Divide
  PROVE  /\ count_100hz' \in 0..TickPeriod-1
         /\ enable_100hz' \in BOOLEAN
         /\ enable_100hz' => count_100hz' = 1
         /\ count_100hz' = count_100hz + 1 \/ count_100hz' = 1
         /\ count_100hz + 1 # TickPeriod => count_100hz' = count_100hz + 1
<1>1. enable_100hz' \in BOOLEAN
  BY Zenon DEF Divide
<1>2. enable_100hz' => count_100hz + 1 = TickPeriod
  BY Zenon DEF Divide
<1>3. /\ count_100hz' = IF count_100hz + 1 = TickPeriod THEN 1 ELSE count_100hz + 1
      /\ count_100hz \in 0..TickPeriod-1
  BY DEF TimeTypeOK, Divide
<1> QED
  BY <1>1, <1>2, <1>3, PeriodAssumption

\* Without a write, a register update leads from a valid time to a valid time, and
\* the hundredths are 99 after it only by a tick or by the minute's carry.
LEMMA UpdateStep ==
  ASSUME TimeInv, Update, SlowEnough
  PROVE  /\ ValidTime'
         /\ hundreds' = Last =>
              \/ hundreds # Last /\ enable_100hz
              \/ hundreds = Last /\ seconds = LastSecond /\ seconds' = Zero
<1>1. /\ hundreds \in Bcd /\ IsSecond(seconds) /\ minutes \in Bcd
      /\ enable_100hz \in BOOLEAN
      /\ hundreds = Last => ~enable_100hz
  BY DEF TimeInv, TimeTypeOK, ValidTime, CarryPending
<1>2. hundreds # Last => Ticked \in Bcd
  BY <1>1, IncrementBcd DEF Ticked
<1>3. hundreds = Last => Ticked = Last
  BY <1>1 DEF Ticked
<1>4. CASE CarryAll
  BY <1>4, Limits DEF CarryAll, ValidTime
<1>5. CASE CarryMinute
  BY <1>1, <1>3, <1>5, Limits, IncrementBcd DEF CarryMinute, ValidTime
<1>6. CASE CarrySecond
  BY <1>1, <1>6, Limits, IncrementSecond DEF CarrySecond, ValidTime
<1>7. CASE NoCarry
  BY <1>1, <1>2, <1>7 DEF NoCarry, ValidTime, Ticked
<1> QED
  BY <1>4, <1>5, <1>6, <1>7 DEF Update

\* A write of a settable value leaves a valid time, and the hundredths 99 only
\* where they were.
LEMMA WriteRegisterStep ==
  ASSUME TimeInv, NEW access, SetsValid(access), WriteRegister(access)
  PROVE  ValidTime' /\ (hundreds' = Last => hundreds = Last)
<1>1. /\ access.data \in Bcd
      /\ access.address = 1 => access.data # Last
      /\ access.address = 2 => IsSecond(access.data)
  BY DEF WriteRegister, SetsValid
<1> QED
  BY <1>1 DEF WriteRegister, ValidTime, TimeInv

\* The read port gives a register or zero.
LEMMA ReadStep ==
  ASSUME TimeInv, NEW access, ReadPort(access)
  PROVE  ReadsDecimal'
<1>1. /\ hundreds \in Bcd /\ seconds \in Bcd /\ minutes \in Bcd
  BY DEF TimeInv, ValidTime, IsSecond
<1>2. access.address \in 1..3 => access.address \in {1, 2, 3}
  OBVIOUS
<1>3. registers[1] = hundreds /\ registers[2] = seconds /\ registers[3] = minutes
  BY DEF registers
<1> QED
  BY <1>1, <1>2, <1>3, Limits DEF ReadPort, ReadsDecimal

\* One clock keeps the invariant, under any access that writes no invalid value
\* and not too close to the last.
LEMMA ClockStep ==
  ASSUME TimeInv, SlowEnough, NEW access,
         SetsValid(access), access.op = "write" => gap = WriteGap, Clock(access)
  PROVE  TimeInv'
<1>1. TimeTypeOK /\ ValidTime /\ CarryPending /\ (enable_100hz => count_100hz = 1)
  BY DEF TimeInv
<1>2. Divide /\ ReadPort(access)
  BY DEF Clock
<1>3. gap' \in 0..WriteGap
  BY <1>1, GapAssumption DEF Clock, TimeTypeOK
<1>4. ReadsDecimal'
  BY <1>2, ReadStep
<1>5. access.op = "write" => gap = WriteGap
  OBVIOUS
<1>6. ValidTime' /\ CarryPending'
  <2>1. CASE Clear
    BY <2>1, Limits DEF Clear, ValidTime, CarryPending
  <2>2. CASE WriteRegister(access)
    <3>1. ValidTime' /\ (hundreds' = Last => hundreds = Last)
      BY <2>2, WriteRegisterStep
    <3>2. gap = WriteGap /\ gap' = 0 /\ WriteGap >= 2
      BY <1>5, <2>2 DEF Clock, WriteRegister, SlowEnough
    <3>3. hundreds = Last => count_100hz \in 2..3
      BY <1>1, <3>2, GapAssumption DEF CarryPending
    <3>4. hundreds = Last => count_100hz' = count_100hz + 1
      BY <1>1, <1>2, <3>3, DivideStep, PeriodAssumption DEF SlowEnough
    <3> QED
      BY <3>1, <3>2, <3>3, <3>4 DEF CarryPending
  <2>3. CASE access.op # "write" /\ Update
    <3>1. /\ ValidTime'
          /\ hundreds' = Last =>
               \/ hundreds # Last /\ enable_100hz
               \/ hundreds = Last /\ seconds = LastSecond /\ seconds' = Zero
      BY <2>3, UpdateStep
    <3>2. gap' = IF gap = WriteGap THEN gap ELSE gap + 1
      BY <2>3 DEF Clock
    <3>3. CASE hundreds # Last /\ enable_100hz
      BY <1>1, <1>2, <3>1, <3>3, DivideStep, PeriodAssumption DEF SlowEnough, CarryPending
    <3>4. CASE hundreds = Last /\ seconds = LastSecond /\ seconds' = Zero
      <4>1. count_100hz = 2 \/ (count_100hz \in 3..4 /\ gap = 0)
        BY <1>1, <3>4, Limits DEF CarryPending
      <4>2. count_100hz' = count_100hz + 1
        BY <1>1, <1>2, <4>1, DivideStep, PeriodAssumption DEF SlowEnough
      <4>3. gap = 0 => gap' = 1
        BY <3>2, GapAssumption DEF SlowEnough
      <4> QED
        BY <3>1, <3>4, <4>1, <4>2, <4>3 DEF CarryPending
    <3>5. CASE hundreds' # Last
      BY <3>1, <3>5 DEF CarryPending
    <3> QED
      BY <3>1, <3>3, <3>4, <3>5
  <2> QED
    BY <2>1, <2>2, <2>3 DEF Clock
<1>7. /\ hundreds' \in Byte /\ seconds' \in Byte /\ minutes' \in Byte /\ read_data' \in Byte
  BY <1>4, <1>6, Limits DEF ValidTime, IsSecond, ReadsDecimal
<1> QED
  BY <1>1, <1>2, <1>3, <1>4, <1>6, <1>7, DivideStep DEF TimeInv, TimeTypeOK

\* So does a reset between two clocks.
LEMMA ResetStep ==
  ASSUME TimeInv, Reset
  PROVE  TimeInv'
BY Limits
DEF TimeInv, Reset, Clear, TimeTypeOK, ValidTime, ReadsDecimal, CarryPending

LEMMA TimeStep ==
  ASSUME Settable, SlowEnough, TimeInv, [TimeNext]_timeVars
  PROVE  TimeInv'
<1>1. CASE ClockEdge
  <2>1. PICK access \in Accesses : Clock(access)
    BY <1>1 DEF ClockEdge
  <2>2. SetsValid(access) /\ (access.op = "write" => gap = WriteGap)
    BY DEF Accesses, NoAccess, SetsValid, Settable
  <2> QED
    BY <2>1, <2>2, ClockStep
<1>2. CASE Reset
  BY <1>2, ResetStep
<1>3. CASE UNCHANGED timeVars
  BY <1>3 DEF timeVars, TimeInv, TimeTypeOK, ValidTime, ReadsDecimal, CarryPending
<1> QED
  BY <1>1, <1>2, <1>3 DEF TimeNext

\* The registers hold a valid time and the invariant that keeps it so, under any
\* accesses that write settable values not too close to each other.
THEOREM TimeInvariant ==
  ASSUME Settable, SlowEnough
  PROVE  TimeSpec => []TimeInv
<1>1. TimeInit => TimeInv
  BY TimeStart
<1>2. TimeInv /\ [TimeNext]_timeVars => TimeInv'
  BY TimeStep
<1> QED
  BY <1>1, <1>2, PTL DEF TimeSpec

\* What is read from the clock has two decimal digits.
THEOREM DecimalRead ==
  ASSUME Settable, SlowEnough
  PROVE  TimeSpec => []ReadsDecimal
<1>1. TimeInv => ReadsDecimal
  BY DEF TimeInv
<1> QED
  BY <1>1, TimeInvariant, PTL

----------------------------------------------------------------------------
(* Types, under any accesses. *)

LEMMA TypeStep ==
  ASSUME TimeTypeOK, [TimeNext]_timeVars
  PROVE  TimeTypeOK'
<1>1. ASSUME NEW access \in Accesses, Clock(access)
      PROVE  TimeTypeOK'
  <2>1. access.data \in Byte
    BY RequestAssumption, Limits DEF Accesses, Access, NoAccess
  <2>2. /\ hundreds \in Byte /\ seconds \in Byte /\ minutes \in Byte
        /\ increment_bcd(hundreds) \in Byte /\ increment_bcd(seconds) \in Byte
        /\ increment_bcd(minutes) \in Byte /\ Zero \in Byte
    BY IncrementByte, Limits DEF TimeTypeOK
  <2>3. hundreds' \in Byte /\ seconds' \in Byte /\ minutes' \in Byte
    <3>1. CASE Clear
      BY <2>2, <3>1 DEF Clear
    <3>2. CASE WriteRegister(access)
      BY <2>1, <2>2, <3>2 DEF WriteRegister
    <3>3. CASE Update
      BY <2>2, <3>3 DEF Update, CarryAll, CarryMinute, CarrySecond, NoCarry, Ticked
    <3> QED
      BY <1>1, <3>1, <3>2, <3>3 DEF Clock
  <2>4. read_data' \in Byte
    <3>1. registers[1] = hundreds /\ registers[2] = seconds /\ registers[3] = minutes
      BY DEF registers
    <3>2. access.address \in 1..3 => access.address \in {1, 2, 3}
      OBVIOUS
    <3> QED
      BY <1>1, <2>2, <3>1, <3>2 DEF Clock, ReadPort
  <2>5. count_100hz' \in 0..TickPeriod-1 /\ enable_100hz' \in BOOLEAN
    BY <1>1, DivideStep DEF Clock
  <2>6. gap' \in 0..WriteGap
    BY <1>1, GapAssumption DEF Clock, TimeTypeOK
  <2> QED
    BY <2>3, <2>4, <2>5, <2>6 DEF TimeTypeOK
<1>2. CASE Reset
  BY <1>2, Limits DEF Reset, Clear, TimeTypeOK
<1>3. CASE UNCHANGED timeVars
  BY <1>3 DEF timeVars, TimeTypeOK
<1> QED
  BY <1>1, <1>2, <1>3 DEF TimeNext, ClockEdge

----------------------------------------------------------------------------
(* Time moves forward. *)

LEMMA ForwardStep ==
  ASSUME TimeInv, Update
  PROVE  \/ registers' = registers
         \/ Earlier(registers, registers')
         \/ registers = <<Last, LastSecond, Last>> /\ registers' = <<Zero, Zero, Zero>>
<1>1. /\ hundreds \in Bcd /\ IsSecond(seconds) /\ seconds \in Bcd /\ minutes \in Bcd
      /\ registers = <<hundreds, seconds, minutes>>
      /\ registers' = <<hundreds', seconds', minutes'>>
  BY DEF TimeInv, ValidTime, IsSecond, registers
<1>2. CASE CarryAll
  BY <1>1, <1>2 DEF CarryAll
<1>3. CASE CarryMinute
  <2>1. Before(minutes, minutes')
    BY <1>1, <1>3, IncrementBcd DEF CarryMinute
  <2> QED
    BY <1>1, <2>1 DEF Earlier
<1>4. CASE CarrySecond
  <2>1. seconds # Last
    BY <1>1, <1>4, PeriodAssumption, RadixAssumption
    DEF CarrySecond, IsSecond, Before, LastSecond, Last
  <2>2. Before(seconds, seconds') /\ minutes' = minutes
    BY <1>1, <1>4, <2>1, IncrementBcd DEF CarrySecond
  <2> QED
    BY <1>1, <2>2 DEF Earlier
<1>5. CASE NoCarry
  <2>1. hundreds' = hundreds \/ Before(hundreds, hundreds')
    BY <1>1, <1>5, IncrementBcd DEF NoCarry, Ticked
  <2> QED
    BY <1>1, <1>5, <2>1 DEF NoCarry, Earlier
<1> QED
  BY <1>2, <1>3, <1>4, <1>5 DEF Update

\* Left alone, the clock never goes back but from its last hundredth to zero.
THEOREM TimeForward ==
  ASSUME Settable, SlowEnough
  PROVE  TimeSpec => TimeMovesForward
<1>1. TimeInv /\ [TimeNext]_timeVars =>
        [ Update =>
            \/ registers' = registers
            \/ Earlier(registers, registers')
            \/ registers = <<Last, LastSecond, Last>> /\ registers' = <<Zero, Zero, Zero>>
        ]_timeVars
  BY ForwardStep
<1> QED
  BY <1>1, TimeInvariant, PTL DEF TimeSpec, TimeMovesForward

----------------------------------------------------------------------------
(* The program that reads the time. *)

\* A clock with no write, or a reset, moves the time forward, unless it restarts.
LEMMA ReadingForward ==
  ASSUME TimeInv, NEW access, access.op # "write", Clock(access), ~Restarts
  PROVE  registers' = registers \/ Earlier(registers, registers')
<1>1. registers' = <<hundreds', seconds', minutes'>>
  BY DEF registers
<1>2. CASE Clear
  BY <1>1, <1>2 DEF Clear, Restarts
<1>3. CASE Update
  <2>1. <<Zero, Zero, Zero>> # <<Last, LastSecond, Last>>
    BY Limits
  <2> QED
    BY <1>3, <2>1, ForwardStep DEF Restarts
<1> QED
  BY <1>2, <1>3 DEF Clock, WriteRegister

\* The order of times is one: what is not before a time that is not before another
\* is not before that.
LEMMA NotEarlierThan ==
  ASSUME NEW t \in [1..3 -> Byte], NEW u \in [1..3 -> Byte], NEW v \in [1..3 -> Byte],
         ~Earlier(u, t), ~Earlier(v, u)
  PROVE  ~Earlier(v, t)
<1>1. \A i \in 1..3 : /\ t[i][1] \in Int /\ t[i][2] \in Int /\ u[i][1] \in Int /\ u[i][2] \in Int
                      /\ v[i][1] \in Int /\ v[i][2] \in Int
                      /\ t[i] = <<t[i][1], t[i][2]>> /\ u[i] = <<u[i][1], u[i][2]>>
                      /\ v[i] = <<v[i][1], v[i][2]>>
  BY DEF Byte
<1>2. \A i \in 1..3 : /\ ~Before(u[i], t[i]) /\ ~Before(v[i], u[i]) => ~Before(v[i], t[i])
                      /\ ~Before(u[i], t[i]) /\ ~Before(v[i], u[i]) /\ v[i] = t[i] =>
                           u[i] = t[i] /\ v[i] = u[i]
                      /\ Before(t[i], u[i]) \/ Before(u[i], t[i]) \/ t[i] = u[i]
                      /\ Before(u[i], v[i]) \/ Before(v[i], u[i]) \/ u[i] = v[i]
                      /\ ~(Before(t[i], u[i]) /\ Before(u[i], t[i]))
                      /\ ~(Before(u[i], v[i]) /\ Before(v[i], u[i]))
                      /\ ~(Before(t[i], v[i]) /\ Before(v[i], t[i]))
                      /\ ~Before(t[i], t[i])
  BY <1>1 DEF Before
<1>3. 1 \in 1..3 /\ 2 \in 1..3 /\ 3 \in 1..3
  OBVIOUS
<1> QED
  BY <1>2, <1>3 DEF Earlier

\* The hundredths, or the hundredths and the seconds, stay behind while the rest
\* of the time moves on: the whole is not earlier.
LEMMA PartForward ==
  ASSUME NEW t \in [1..3 -> Byte], NEW u \in [1..3 -> Byte],
         NEW s \in [1..3 -> Byte], NEW r \in [1..3 -> Byte], NEW n \in 0..3,
         u = t \/ Earlier(t, u),
         \A i \in 1..3 : IF i <= n THEN r[i] = s[i] ELSE s[i] = t[i] /\ r[i] = u[i]
  PROVE  ~Earlier(r, s)
<1>1. \A i \in 1..3 : /\ t[i][1] \in Int /\ t[i][2] \in Int /\ u[i][1] \in Int /\ u[i][2] \in Int
                      /\ s[i][1] \in Int /\ s[i][2] \in Int
  BY DEF Byte
<1>2. \A i \in 1..3 : ~Before(t[i], t[i]) /\ ~Before(s[i], s[i])
                      /\ ~(Before(t[i], u[i]) /\ Before(u[i], t[i]))
                      /\ ~(Before(t[i], u[i]) /\ t[i] = u[i])
  BY <1>1 DEF Before
<1>3. 1 \in 1..3 /\ 2 \in 1..3 /\ 3 \in 1..3
  OBVIOUS
<1>4. CASE n = 0
  BY <1>2, <1>3, <1>4 DEF Earlier
<1>5. CASE n = 1
  BY <1>2, <1>3, <1>5 DEF Earlier
<1>6. CASE n = 2
  BY <1>2, <1>3, <1>6 DEF Earlier
<1>7. CASE n = 3
  BY <1>2, <1>3, <1>7 DEF Earlier
<1> QED
  BY <1>4, <1>5, <1>6, <1>7

LEMMA SoFarType ==
  ASSUME ReaderInv
  PROVE  /\ registers \in [1..3 -> Byte] /\ SoFar \in [1..3 -> Byte] /\ at \in 1..3
         /\ reading \in [1..3 -> Byte] /\ began \in [1..3 -> Byte] /\ read_data \in Byte
<1>1. /\ hundreds \in Byte /\ seconds \in Byte /\ minutes \in Byte /\ read_data \in Byte
      /\ reading \in [1..3 -> Byte] /\ began \in [1..3 -> Byte] /\ at \in 1..3
  BY DEF ReaderInv, ReaderTypeOK, TimeTypeOK
<1>2. registers \in [1..3 -> Byte]
  BY <1>1 DEF registers
<1> QED
  BY <1>1, <1>2 DEF SoFar

\* What is read so far, and to be read, goes forward with the clock while it does
\* not restart: n of it is read.
LEMMA SoFarForward ==
  ASSUME ReaderInv, ReaderTypeOK', NEW access, access.op # "write", Clock(access), ~Restarts,
         doing = "read", whole, began' = began, NEW r \in [1..3 -> Byte], NEW n \in 0..3,
         \A i \in 1..3 : IF i <= n THEN r[i] = SoFar[i]
                                   ELSE SoFar[i] = registers[i] /\ r[i] = registers'[i]
  PROVE  ~Earlier(r, began')
<1>1. registers' = registers \/ Earlier(registers, registers')
  BY ReadingForward DEF ReaderInv
<1>2. registers' \in [1..3 -> Byte]
  <2>1. hundreds' \in Byte /\ seconds' \in Byte /\ minutes' \in Byte
    BY DEF ReaderTypeOK, TimeTypeOK
  <2> QED
    BY <2>1 DEF registers
<1>3. ~Earlier(r, SoFar)
  BY <1>1, <1>2, SoFarType, PartForward
<1>4. ~Earlier(SoFar, began)
  BY DEF ReaderInv
<1> QED
  BY <1>3, <1>4, SoFarType, NotEarlierThan

\* The accesses of the program keep the invariant of the time.
LEMMA ReaderTimeStep ==
  ASSUME ReaderInv, SlowEnough, ReaderNext
  PROVE  TimeInv'
<1>1. TimeInv /\ at \in 1..3
  BY DEF ReaderInv, ReaderTypeOK
<1>2. CASE write_rtc
  <2> DEFINE access == Write(at, SetTime[at])
  <2>1. Clock(access) /\ gap = WriteGap
    BY <1>2 DEF write_rtc, Bus
  <2>2. access.data = SetTime[at] /\ access.address = at
    BY DEF Write
  <2>3. SetsValid(access)
    BY <1>1, <2>2, SetTimeAssumption DEF SetsValid
  <2> QED
    BY <1>1, <2>1, <2>3, ClockStep
<1>3. ASSUME NEW access, access.op # "write", Clock(access)
      PROVE  TimeInv'
  BY <1>1, <1>3, ClockStep DEF SetsValid
<1>4. NoAccess.op # "write" /\ \A a : Read(a).op # "write"
  BY DEF NoAccess, Read
<1>5. CASE Compute \/ DelayEnds \/ read_rtc \/ ReadReturns
  BY <1>3, <1>4, <1>5 DEF Compute, DelayEnds, read_rtc, ReadReturns, Bus
<1>6. CASE ReaderReset
  BY <1>1, <1>6, ResetStep DEF ReaderReset
<1> QED
  BY <1>2, <1>5, <1>6 DEF ReaderNext, ReaderClock

LEMMA ReaderTypeStep ==
  ASSUME ReaderInv, TimeInv', ReaderNext
  PROVE  /\ ReaderTypeOK'
         /\ (held => doing = "read")'
         /\ (doing = "delay" => at = 1)'
<1> USE DEF ReaderInv, ReaderTypeOK
<1>1. whole' \in BOOLEAN
  BY Zenon DEF ReaderNext, ReaderClock, write_rtc, Compute, DelayEnds, read_rtc, ReadReturns,
    Bus, ReaderReset
<1>2. held' \in BOOLEAN
  BY Zenon DEF ReaderNext, ReaderClock, write_rtc, Compute, DelayEnds, read_rtc, ReadReturns,
    ReaderReset
<1>3. TimeTypeOK'
  BY DEF TimeInv
<1>4. \A i \in 1..3 : ReadOrder[i] = i
  BY DEF ReadOrder
<1>5. /\ doing' \in {"set", "delay", "read"} /\ at' \in 1..3
      /\ (held => doing = "read")'
      /\ (doing = "delay" => at = 1)'
  BY DEF ReaderNext, ReaderClock, write_rtc, Compute, DelayEnds, read_rtc, ReadReturns,
    ReaderReset, Proceed
<1>6. reading' \in [1..3 -> Byte]
  BY <1>4, SoFarType DEF ReaderNext, ReaderClock, write_rtc, Compute, DelayEnds, read_rtc,
    ReadReturns, ReaderReset
<1>7. began' \in [1..3 -> Byte]
  BY SoFarType DEF ReaderNext, ReaderClock, write_rtc, Compute, DelayEnds, read_rtc,
    ReadReturns, ReaderReset
<1> QED
  BY <1>1, <1>2, <1>3, <1>5, <1>6, <1>7

\* One clock of the program at the third conjunct of its invariant and the last.
LEMMA ReadingStep ==
  ASSUME ReaderInv, ReaderTypeOK', ReaderNext, whole'
  PROVE  IF doing' = "read" THEN ~Earlier(SoFar', began') ELSE ~Earlier(reading', began')
<1> DEFINE Goal == IF doing' = "read" THEN ~Earlier(SoFar', began')
                                      ELSE ~Earlier(reading', began')
<1>1. /\ TimeInv /\ at \in 1..3 /\ ReaderTypeOK
      /\ held => doing = "read"
      /\ doing = "delay" => at = 1
      /\ doing = "read" /\ whole => ~Earlier(SoFar, began)
      /\ doing # "read" /\ whole => ~Earlier(reading, began)
  BY DEF ReaderInv, ReadNotEarlier, ReaderTypeOK
<1>2. ~Restarts /\ (whole \/ DelayEnds)
  BY DEF ReaderNext, ReaderClock, write_rtc, Compute, DelayEnds, read_rtc, ReadReturns, Bus,
    ReaderReset
<1>3. /\ NoAccess.op # "write" /\ \A a : Read(a).op # "write"
      /\ \A i \in 1..3 : ReadOrder[i] = i
  BY DEF NoAccess, Read, ReadOrder
<1>4. SoFar' = [i \in 1..3 |-> IF i < at' THEN reading'[i]
                               ELSE IF i = at' /\ held' THEN read_data'
                               ELSE registers'[i]]
  BY DEF SoFar
<1>5. SoFar' \in [1..3 -> Byte]
  <2>1. registers' \in [1..3 -> Byte]
    BY DEF ReaderTypeOK, TimeTypeOK, registers
  <2> QED
    BY <1>4, <2>1 DEF ReaderTypeOK, TimeTypeOK
<1>6. CASE write_rtc
  BY <1>1, <1>2, <1>6 DEF write_rtc, Proceed, DelayEnds
<1>7. CASE Compute /\ doing # "read"
  BY <1>1, <1>2, <1>7 DEF Compute, DelayEnds
<1>8. CASE Compute /\ doing = "read"
  <2>1. /\ whole /\ doing' = "read" /\ at' = at /\ ~held /\ held' = held /\ reading' = reading
        /\ began' = began /\ Clock(NoAccess)
    BY <1>2, <1>8 DEF Compute, DelayEnds, Bus
  <2>2. \A i \in 1..3 : IF i <= at - 1 THEN SoFar'[i] = SoFar[i]
                        ELSE SoFar[i] = registers[i] /\ SoFar'[i] = registers'[i]
    BY <1>1, <1>4, <2>1 DEF SoFar
  <2>3. at - 1 \in 0..3
    BY <1>1
  <2> QED
    BY <1>2, <1>3, <1>5, <1>8, <2>1, <2>2, <2>3, SoFarForward
<1>9. CASE DelayEnds
  <2>1. /\ doing' = "read" /\ at' = 1 /\ ~held' /\ began' = registers
        /\ Clock(NoAccess)
    BY <1>1, <1>9 DEF DelayEnds
  <2>2. registers' = registers \/ Earlier(registers, registers')
    BY <1>1, <1>2, <1>3, <2>1, ReadingForward
  <2>3. \A i \in 1..3 : SoFar'[i] = registers'[i]
    BY <1>4, <2>1
  <2>4. registers \in [1..3 -> Byte] /\ registers' \in [1..3 -> Byte]
    BY SoFarType DEF ReaderTypeOK, TimeTypeOK, registers
  <2>5. ~Earlier(SoFar', registers)
    BY <1>5, <2>2, <2>3, <2>4, PartForward
  <2> QED
    BY <2>1, <2>5
<1>10. CASE read_rtc
  <2>1. /\ whole /\ doing = "read" /\ doing' = "read" /\ at' = at /\ ~held /\ held'
        /\ reading' = reading /\ began' = began /\ Clock(Read(at))
    BY <1>1, <1>2, <1>3, <1>10 DEF read_rtc, DelayEnds, Bus
  <2>2. read_data' = registers[at]
    BY <1>1, <2>1 DEF Clock, ReadPort, Read
  <2>3. \A i \in 1..3 : IF i <= at THEN SoFar'[i] = SoFar[i]
                        ELSE SoFar[i] = registers[i] /\ SoFar'[i] = registers'[i]
    BY <1>1, <1>4, <2>1, <2>2 DEF SoFar
  <2>4. at \in 0..3
    BY <1>1
  <2> QED
    BY <1>2, <1>3, <1>5, <2>1, <2>3, <2>4, SoFarForward
<1>11. CASE ReadReturns
  <2>1. /\ whole /\ held /\ doing = "read" /\ ~held' /\ began' = began /\ Clock(Read(at))
        /\ reading' = [reading EXCEPT ![at] = read_data]
    BY <1>1, <1>2, <1>3, <1>11 DEF ReadReturns, DelayEnds, Bus
  <2>2. reading \in [1..3 -> Byte] /\ \A i \in 1..3 : i <= at => reading'[i] = SoFar[i]
    BY <1>1, <2>1, SoFarType DEF SoFar
  <2>3. CASE at < 3
    <3>1. at' = at + 1 /\ doing' = "read"
      BY <1>11, <2>1, <2>3 DEF ReadReturns, Proceed
    <3>2. \A i \in 1..3 : IF i <= at THEN SoFar'[i] = SoFar[i]
                          ELSE SoFar[i] = registers[i] /\ SoFar'[i] = registers'[i]
      BY <1>1, <1>4, <2>1, <2>2, <3>1 DEF SoFar
    <3>3. at \in 0..3
      BY <1>1
    <3> QED
      BY <1>2, <1>3, <1>5, <2>1, <3>1, <3>2, <3>3, SoFarForward
  <2>4. CASE ~(at < 3)
    <3>1. at = 3 /\ doing' = "delay"
      BY <1>1, <1>11, <2>4 DEF ReadReturns, Proceed
    <3>2. \A i \in 1..3 : reading'[i] = SoFar[i]
      BY <2>2, <3>1
    <3>3. ~Earlier(reading', began')
      BY <1>1, <2>1, <3>2 DEF Earlier
    <3> QED
      BY <3>1, <3>3
  <2> QED
    BY <2>3, <2>4
<1>12. CASE ReaderReset
  <2>1. /\ UNCHANGED <<doing, at, held, reading, began, read_data>>
        /\ registers' = <<Zero, Zero, Zero>> /\ whole
    BY <1>12, <1>2 DEF ReaderReset, Reset, Clear, registers
  <2>2. registers' = registers
    BY <1>2, <2>1 DEF Restarts
  <2>3. SoFar' = SoFar
    BY <2>1, <2>2 DEF SoFar
  <2> QED
    BY <1>1, <2>1, <2>3
<1> QED
  BY <1>6, <1>7, <1>8, <1>9, <1>10, <1>11, <1>12 DEF ReaderNext, ReaderClock

LEMMA ReaderStart == ReaderInit => ReaderInv
<1> SUFFICES ASSUME ReaderInit PROVE ReaderInv
  OBVIOUS
<1>1. TimeInv
  BY TimeStart DEF ReaderInit
<1>2. held \in BOOLEAN /\ whole \in BOOLEAN
  BY Zenon DEF ReaderInit
<1>3. /\ doing = "set" /\ at = 1 /\ ~held /\ reading = <<Zero, Zero, Zero>>
      /\ began = <<Zero, Zero, Zero>>
  BY DEF ReaderInit
<1>4. Zero \in Byte
  BY Limits
<1>5. reading \in [1..3 -> Byte] /\ began \in [1..3 -> Byte]
  BY <1>3, <1>4
<1>6. ~Earlier(reading, began)
  BY <1>3 DEF Earlier, Before, Zero
<1> QED
  BY <1>1, <1>2, <1>3, <1>5, <1>6 DEF ReaderInv, ReaderTypeOK, ReadNotEarlier, TimeInv

LEMMA ReaderStep ==
  ASSUME ReaderInv, SlowEnough, [ReaderNext]_readerVars
  PROVE  ReaderInv'
<1>1. CASE ReaderNext
  <2>1. TimeInv'
    BY <1>1, ReaderTimeStep
  <2>2. ReaderTypeOK' /\ (held => doing = "read")' /\ (doing = "delay" => at = 1)'
    BY <1>1, <2>1, ReaderTypeStep
  <2>3. whole' => IF doing' = "read" THEN ~Earlier(SoFar', began')
                                     ELSE ~Earlier(reading', began')
    BY <1>1, <2>2, ReadingStep
  <2> QED
    BY <2>1, <2>2, <2>3 DEF ReaderInv, ReadNotEarlier
<1>2. CASE UNCHANGED readerVars
  <2>1. /\ UNCHANGED <<hundreds, seconds, minutes, read_data, count_100hz, enable_100hz, gap>>
        /\ UNCHANGED <<doing, at, held, reading, began, whole>>
    BY <1>2 DEF readerVars, timeVars
  <2>2. TimeInv'
    BY <2>1 DEF ReaderInv, TimeInv, TimeTypeOK, ValidTime, ReadsDecimal, CarryPending
  <2>3. SoFar' = SoFar
    BY <2>1 DEF SoFar, registers
  <2>4. ReaderTypeOK'
    BY <2>1, <2>2 DEF ReaderInv, ReaderTypeOK, TimeInv
  <2> QED
    BY <2>1, <2>2, <2>3, <2>4 DEF ReaderInv, ReadNotEarlier
<1> QED
  BY <1>1, <1>2

\* The time the program puts together from three reads is never earlier than the
\* clock was when the reading began, unless the clock restarted from zero meanwhile;
\* and the clock it set keeps its own invariant.
THEOREM ReaderInvariant ==
  ASSUME SlowEnough
  PROVE  ReaderSpec => []ReaderInv
<1>1. ReaderInit => ReaderInv
  BY ReaderStart
<1>2. ReaderInv /\ [ReaderNext]_readerVars => ReaderInv'
  BY ReaderStep
<1> QED
  BY <1>1, <1>2, PTL DEF ReaderSpec

----------------------------------------------------------------------------
(* The display. *)

LEMMA ScreenStep ==
  ASSUME NEW shown, ScreenClock(shown), ScreenTypeOK, ScanInv,
         Segments(count_seg, shown) \in [dot : BOOLEAN, number : 0..Radix]
  PROVE  /\ ScreenTypeOK' /\ ScanInv'
         /\ nSelDig' # nSelDig => SelSeg = Dark /\ SelSeg' = Dark
         /\ SelSeg' # SelSeg =>
              /\ SelSeg' \in {Dark, Segments(nSelDig', shown)}
              /\ SelSeg = Dark \/ SelSeg' = Dark
<1>1. /\ count_100khz' \in 0..ScanPeriod-1
      /\ enable_100khz' \in BOOLEAN
  <2>1. enable_100khz' \in BOOLEAN
    BY Zenon DEF ScreenClock, ScanDivide
  <2>2. count_100khz' \in 0..ScanPeriod-1
    BY ScanAssumption DEF ScreenClock, ScanDivide, ScreenTypeOK
  <2> QED
    BY <2>1, <2>2
<1>2. Dark \in [dot : BOOLEAN, number : 0..Radix]
  BY RadixAssumption DEF Dark, Blank
<1>3. CASE UNCHANGED <<cycle, count_seg, nSelDig, SelSeg, Reset_Led>>
  BY <1>1, <1>3 DEF ScreenTypeOK, ScanInv
<1>4. CASE SelectDigit
  BY <1>1, <1>4 DEF SelectDigit, ScreenTypeOK, ScanInv, Digits
<1>5. CASE LoadSegments(shown)
  BY <1>1, <1>5 DEF LoadSegments, ScreenTypeOK, ScanInv
<1>6. CASE Hold
  BY <1>1, <1>6 DEF Hold, ScreenTypeOK, ScanInv
<1>7. CASE Unload
  BY <1>1, <1>2, <1>7 DEF Unload, ScreenTypeOK, ScanInv, Digits
<1> QED
  BY <1>3, <1>4, <1>5, <1>6, <1>7 DEF ScreenClock

\* Whatever the registers hold, what is loaded is a dot or none and a digit or none.
LEMMA SegmentsType ==
  ASSUME TimeTypeOK, ScreenTypeOK
  PROVE  Segments(count_seg, registers) \in [dot : BOOLEAN, number : 0..Radix]
<1>1. hundreds \in Byte /\ seconds \in Byte /\ minutes \in Byte
  BY DEF TimeTypeOK
<1>2. count_seg \in 0..5
  BY DEF ScreenTypeOK, Digits
<1>3. (count_seg \div 2) + 1 \in 1..3
  BY <1>2
<1>4. registers[(count_seg \div 2) + 1] \in Byte
  BY <1>1, <1>3 DEF registers
<1>5. NumberToShow(count_seg, registers) \in 0..Nibble-1
  BY <1>4 DEF NumberToShow, Byte
<1>6. (count_seg \in {2, 4}) \in BOOLEAN
  OBVIOUS
<1>7. (IF NumberToShow(count_seg, registers) < Radix
         THEN NumberToShow(count_seg, registers) ELSE Blank) \in 0..Radix
  BY <1>5, RadixAssumption DEF Blank
<1> QED
  BY <1>6, <1>7, Zenon DEF Segments

LEMMA RtcStart == Init => RtcInv
<1> SUFFICES ASSUME Init PROVE RtcInv
  OBVIOUS
<1>1. TimeTypeOK
  BY TimeStart DEF Init, TimeInv
<1>2. enable_100khz \in BOOLEAN
  BY Zenon DEF Init, ScreenInit
<1>3. Dark \in [dot : BOOLEAN, number : 0..Radix]
  BY RadixAssumption DEF Dark, Blank
<1>4. ScreenTypeOK /\ ScanInv
  BY <1>2, <1>3, ScanAssumption
  DEF Init, ScreenInit, ScreenTypeOK, ScanInv, Digits, NoDigit
<1> QED
  BY <1>1, <1>4 DEF RtcInv

\* One step of the entity: the time part steps, and the display steps or stands.
LEMMA RtcStep ==
  ASSUME RtcInv, [Next]_vars
  PROVE  /\ RtcInv'
         /\ nSelDig' # nSelDig => SelSeg = Dark /\ SelSeg' = Dark
         /\ SelSeg' # SelSeg =>
              /\ SelSeg' \in {Dark, Segments(nSelDig', registers)}
              /\ SelSeg = Dark \/ SelSeg' = Dark
<1>1. [TimeNext]_timeVars
  BY Zenon DEF Next, Edge, RtcClock, TimeNext, ClockEdge, vars
<1>2. TimeTypeOK'
  BY <1>1, TypeStep DEF RtcInv
<1>3. CASE ScreenClock(registers)
  BY <1>2, <1>3, SegmentsType, ScreenStep DEF RtcInv
<1>4. CASE UNCHANGED screenVars
  BY <1>2, <1>4 DEF screenVars, RtcInv, ScreenTypeOK, ScanInv
<1>5. ScreenClock(registers) \/ UNCHANGED screenVars
  BY DEF Next, Edge, RtcClock, vars
<1> QED
  BY <1>3, <1>4, <1>5

\* The time and the display keep their invariants together.
THEOREM RtcInvariant == Spec => []RtcInv
<1>1. Init => RtcInv
  BY RtcStart
<1>2. RtcInv /\ [Next]_vars => RtcInv'
  BY RtcStep
<1> QED
  BY <1>1, <1>2, PTL DEF Spec

\* No number is on the segment lines when the digit changes.
THEOREM DarkBetween == Spec => DarkBetweenDigits
<1>1. RtcInv /\ [Next]_vars =>
        [nSelDig' # nSelDig => SelSeg = Dark /\ SelSeg' = Dark]_vars
  BY RtcStep
<1> QED
  BY <1>1, RtcInvariant, PTL DEF Spec, DarkBetweenDigits

\* The digit selected shows its own number, and one number while it is lit.
THEOREM SelectedShown == Spec => ShowsSelected
<1>1. RtcInv /\ [Next]_vars =>
        [SelSeg' # SelSeg => SelSeg' \in {Dark, Segments(nSelDig', registers)}
                             /\ (SelSeg = Dark \/ SelSeg' = Dark)]_vars
  BY RtcStep
<1> QED
  BY <1>1, RtcInvariant, PTL DEF Spec, ShowsSelected

\* The clearing pulse cuts no number short.
THEOREM ClearedDark == Spec => []ResetWhileDark
<1>1. RtcInv => ResetWhileDark
  BY DEF RtcInv, ScanInv, ResetWhileDark
<1> QED
  BY <1>1, RtcInvariant, PTL

============================================================================
