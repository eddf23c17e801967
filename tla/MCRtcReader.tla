---------------------------- MODULE MCRtcReader -----------------------------
(***************************************************************************)
(* Bounds for RtcReader: binary digits in nibbles of three values, minutes *)
(* of two seconds of four hundredths, and the fastest tick that leaves a   *)
(* carry its clocks.                                                       *)
(***************************************************************************)
EXTENDS RtcReader

TimeToSet == << <<0, 1>>, <<0, 1>>, <<0, 0>> >>

============================================================================
