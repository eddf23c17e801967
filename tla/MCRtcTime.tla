----------------------------- MODULE MCRtcTime -----------------------------
(***************************************************************************)
(* Bounds for RtcTime: digits 0..2 in nibbles of four values, minutes of   *)
(* six seconds, and the fastest tick that leaves a carry its clocks.       *)
(***************************************************************************)
EXTENDS RtcTime

Reads == {Read(1), Read(2), Read(3), Read(4)}

\* Valid times but the last hundredth.
ValidTimes ==
  {Write(0, Last)} \cup
  {Write(address, byte) : address \in 1..3, byte \in {Zero, LastSecond, <<0, Radix-1>>}}

\* The last hundredth too, as write_rtc(HUNDREDS_OFFSET, 99) sets it.
AnyHundredth == Reads \cup ValidTimes \cup {Write(1, Last)}

ProgramRequests == Reads \cup ValidTimes

\* Any byte.
AnyByte == {Write(address, byte) : address \in 1..3, byte \in Byte}

============================================================================
