------------------------------- MODULE MCRtc -------------------------------
(***************************************************************************)
(* Bounds for Rtc: binary digits in nibbles of three values, a scan step   *)
(* every second clock against a tick every sixth, and writes of a sample   *)
(* of the bytes.                                                           *)
(***************************************************************************)
EXTENDS Rtc

\* A read, two bytes of a valid time, and four that are none, at least one in each
\* register: a sample, as all 27 pairs of register and byte are too many for a run.
AnyTimes ==
  {Read(1), Write(2, LastSecond), Write(3, Last)}
    \cup {Write(1, <<0, 2>>), Write(2, <<2, 1>>), Write(3, <<1, 2>>), Write(1, <<2, 2>>)}

============================================================================
