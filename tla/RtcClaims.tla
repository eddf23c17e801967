----------------------------- MODULE RtcClaims -----------------------------
(***************************************************************************)
(* What the source says of the clock and does not do.                      *)
(***************************************************************************)
EXTENDS MCRtcTime

\* "in BCD format" (rtcmodule.vhd:25): each nibble of RegHundreds is a decimal
\* digit, if the program writes decimal numbers "between 0 and 99"
\* (software/fpga_rtc/hello_world.c:34), 99 included.
HundredsInBcd == hundreds \in Bcd

============================================================================
