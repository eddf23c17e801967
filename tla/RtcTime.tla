------------------------------ MODULE RtcTime ------------------------------
(***************************************************************************)
(* The time registers of the real-time clock, their 100 Hz divider and     *)
(* their bus port (fpga_rtc/hw/quartus/rtcmodule.vhd), with an arbitrary   *)
(* Avalon bus master and a reset that may come at any time.                *)
(*                                                                         *)
(* A step of Clock is one rising edge.  nReset is asynchronous and clears  *)
(* only the three registers: between two edges (Reset), or over an edge    *)
(* on which everything else is clocked (Clear).                            *)
(***************************************************************************)
EXTENDS RtcBcd

CONSTANTS
  TopTens,     \* tens of the last second of a minute, 5 in the source
  TickPeriod,  \* what the 100 Hz divider counts to, 500000 in the source
  WriteGap,    \* clocks without a write between two writes, at the least
  Requests     \* the accesses of the bus master

Access == [op : {"read", "write"}, address : 0..7, data : Byte]

ASSUME PeriodAssumption == TopTens \in 0..Radix-1 /\ TickPeriod \in Nat /\ TickPeriod >= 2
ASSUME GapAssumption == WriteGap \in Nat
ASSUME RequestAssumption == Requests \subseteq Access

VARIABLES
  hundreds, seconds, minutes,   \* the registers
  read_data,                    \* ReadData, the output of the read process
  count_100hz, enable_100hz,    \* the divider and its output
  gap                           \* clocks since the last write, to WriteGap

registers == <<hundreds, seconds, minutes>>
timeVars == <<hundreds, seconds, minutes, read_data, count_100hz, enable_100hz, gap>>

LastSecond == <<TopTens, Radix-1>>   \* "59"

NoAccess == [op |-> "none", address |-> 0, data |-> Zero]
Read(address) == [op |-> "read", address |-> address, data |-> Zero]
Write(address, data) == [op |-> "write", address |-> address, data |-> data]

----------------------------------------------------------------------------
(* The divider: it starts at 0 and restarts at 1. *)

Divide ==
  /\ enable_100hz' = (count_100hz + 1 = TickPeriod)
  /\ count_100hz' = IF count_100hz + 1 = TickPeriod THEN 1 ELSE count_100hz + 1

(* The read port: the register as it was before this edge, or zero. *)
ReadPort(access) ==
  read_data' =
    IF access.op = "read" /\ access.address \in 1..3
      THEN registers[access.address]
      ELSE Zero

----------------------------------------------------------------------------
(* The time registers.  A write takes the clock: a tick on it is lost, a    *)
(* carry on it waits.                                                       *)

WriteRegister(access) ==
  /\ access.op = "write"
  /\ hundreds' = IF access.address = 1 THEN access.data ELSE hundreds
  /\ seconds'  = IF access.address = 2 THEN access.data ELSE seconds
  /\ minutes'  = IF access.address = 3 THEN access.data ELSE minutes

Ticked == IF enable_100hz THEN increment_bcd(hundreds) ELSE hundreds

\* The last hundredth of the last minute: everything restarts.
CarryAll ==
  /\ minutes = Last /\ seconds = LastSecond /\ hundreds = Last
  /\ hundreds' = Zero
  /\ seconds' = Zero
  /\ minutes' = Zero

CarryMinuteLost ==
  /\ minutes # Last /\ seconds = LastSecond /\ hundreds = Last
  /\ hundreds' = Ticked
  /\ seconds' = Zero
  /\ UNCHANGED minutes

\* The last hundredth of another minute.  The hundredths are not cleared: they
\* carry once more on the next clock, and second 00 is over at once.
CarryMinute ==
  /\ minutes # Last /\ seconds = LastSecond /\ hundreds = Last
  /\ hundreds' = Ticked
  /\ seconds' = Zero
  /\ minutes' = increment_bcd(minutes)

CarrySecondUncleared ==
  /\ seconds # LastSecond /\ hundreds = Last
  /\ hundreds' = Ticked
  /\ seconds' = increment_bcd(seconds)
  /\ UNCHANGED minutes

CarrySecond ==
  /\ seconds # LastSecond /\ hundreds = Last
  /\ hundreds' = Zero
  /\ seconds' = increment_bcd(seconds)
  /\ UNCHANGED minutes

NoCarry ==
  /\ hundreds # Last
  /\ hundreds' = Ticked
  /\ UNCHANGED <<seconds, minutes>>

Update == CarryAll \/ CarryMinute \/ CarrySecond \/ NoCarry

Clear == hundreds' = Zero /\ seconds' = Zero /\ minutes' = Zero

----------------------------------------------------------------------------
(* One clock, and a reset between two clocks. *)

\* The bus master: any access, but no write within WriteGap clocks of the last.
Accesses ==
  {NoAccess} \cup {access \in Requests : access.op = "write" => gap = WriteGap}

Clock(access) ==
  /\ Divide
  /\ ReadPort(access)
  /\ \/ Clear
     \/ WriteRegister(access)
     \/ access.op # "write" /\ Update
  /\ gap' = IF access.op = "write" THEN 0 ELSE IF gap = WriteGap THEN gap ELSE gap + 1

ClockEdge == \E access \in Accesses : Clock(access)

Reset == Clear /\ UNCHANGED <<read_data, count_100hz, enable_100hz, gap>>

TimeInit ==
  /\ hundreds = Zero /\ seconds = Zero /\ minutes = Zero
  /\ read_data = Zero
  /\ count_100hz = 0
  /\ enable_100hz = FALSE
  /\ gap = WriteGap

TimeNext == ClockEdge \/ Reset

TimeSpec == TimeInit /\ [][TimeNext]_timeVars

TimeTypeOK ==
  /\ hundreds \in Byte /\ seconds \in Byte /\ minutes \in Byte /\ read_data \in Byte
  /\ count_100hz \in 0..TickPeriod-1
  /\ enable_100hz \in BOOLEAN
  /\ gap \in 0..WriteGap

----------------------------------------------------------------------------
(* What the registers promise a program that sets valid times: no value but *)
(* one it may pass to write_rtc, and not the 99 hundredths (see RtcClaims). *)

IsSecond(byte) == byte \in Bcd /\ ~Before(LastSecond, byte)

SetsValid(access) ==
  access.op = "write" =>
    /\ access.data \in Bcd
    /\ access.address = 1 => access.data # Last
    /\ access.address = 2 => IsSecond(access.data)

Settable == \A access \in Requests : SetsValid(access)

\* Every carry is done before the next tick: it takes at most two clocks of its
\* own, and at most two writes come in between.
SlowEnough == TickPeriod >= 6 /\ WriteGap >= 2

\* The time is one a clock can show, on every clock, whatever accesses, ticks
\* and resets coincide with a carry (rtcmodule.vhd:94-136).
ValidTime == hundreds \in Bcd /\ IsSecond(seconds) /\ minutes \in Bcd

\* "Read a decimal number between 0 and 99" (software/fpga_rtc/hello_world.c:41):
\* what is read has two decimal digits.
ReadsDecimal == read_data \in Bcd

Earlier(t, u) ==
  \/ Before(t[3], u[3])
  \/ t[3] = u[3] /\ Before(t[2], u[2])
  \/ t[3] = u[3] /\ t[2] = u[2] /\ Before(t[1], u[1])

\* Left alone, the time stands or moves forward, though a carry takes two clocks
\* and the minute's leaves the hundredths as they are; only the end of the last
\* minute brings it back (rtcmodule.vhd:116-132).
TimeMovesForward ==
  [][ Update =>
        \/ registers' = registers
        \/ Earlier(registers, registers')
        \/ registers = <<Last, LastSecond, Last>> /\ registers' = <<Zero, Zero, Zero>>
    ]_timeVars

\* Whatever was written, once the writes cease the registers find back to valid
\* times for good and the clock goes round: invalid digits run out and no carry
\* is waited for in vain (rtcmodule.vhd:34-47, 116-132).
Recovers ==
  <>[](gap = WriteGap) =>
    /\ <>[]ValidTime
    /\ []<>(registers = <<Zero, Zero, Zero>>)

----------------------------------------------------------------------------
(* The inductive invariant.  ValidTime needs the tick and the hundredths 99 *)
(* apart: CarryPending tells how many clocks a carry may still take, from   *)
(* where the divider stands.                                                *)

CarryPending ==
  hundreds = Last =>
    \/ count_100hz = 2
    \/ count_100hz = 3 /\ (gap = 0 \/ seconds = Zero)
    \/ count_100hz = 4 /\ (gap = 0 \/ (gap = 1 /\ seconds = Zero))
    \/ count_100hz = 5 /\ gap = 1 /\ seconds = Zero

TimeInv ==
  /\ TimeTypeOK
  /\ ValidTime
  /\ ReadsDecimal
  /\ enable_100hz => count_100hz = 1
  /\ CarryPending

============================================================================
