------------------------------- MODULE RtcBcd -------------------------------
(***************************************************************************)
(* Two-digit BCD numbers as the real-time clock keeps them: a byte is the  *)
(* pair <<tens, units>> of its nibbles, and nothing keeps a nibble below   *)
(* ten but the code (fpga_rtc/hw/quartus/rtcmodule.vhd:34-47).             *)
(***************************************************************************)
EXTENDS Integers

CONSTANTS
  Radix,    \* 10 in the source
  Nibble    \* values of a nibble, 16 in the source

ASSUME RadixAssumption ==
  Radix \in Nat /\ Nibble \in Nat /\ Radix >= 2 /\ Radix < Nibble

Byte == (0..Nibble-1) \X (0..Nibble-1)
Bcd  == (0..Radix-1) \X (0..Radix-1)

Zero == <<0, 0>>
Last == <<Radix-1, Radix-1>>      \* "99"

\* The units are incremented in four bits and compared with ten; so are the tens,
\* which are not compared.
increment_bcd(byte) ==
  LET units == (byte[2] + 1) % Nibble
  IN  IF units >= Radix THEN <<(byte[1] + 1) % Nibble, 0>> ELSE <<byte[1], units>>

\* The order of two-digit numbers.
Before(a, b) == a[1] < b[1] \/ (a[1] = b[1] /\ a[2] < b[2])

============================================================================
