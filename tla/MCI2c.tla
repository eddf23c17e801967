------------------------------- MODULE MCI2c -------------------------------
(***************************************************************************)
(* Bounds for I2c: bytes of two bits, pulses every other clock or every    *)
(* clock, commands with and without START and STOP, and the control writes *)
(* that are none.                                                          *)
(***************************************************************************)
EXTENDS I2c

Cr(ack, stop, start, read, write) ==
  [ack |-> ack, stop |-> stop, start |-> start, read |-> read, write |-> write,
   int_en |-> stop]

AnyControl ==
  {Cr(0, TRUE, FALSE, FALSE, FALSE), Cr(0, TRUE, FALSE, FALSE, TRUE),
   Cr(1, TRUE, FALSE, TRUE, FALSE), Cr(0, FALSE, TRUE, TRUE, FALSE)}

OneByte == {[ZeroByte EXCEPT ![1] = 1]}

============================================================================
