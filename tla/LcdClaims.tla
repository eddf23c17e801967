----------------------------- MODULE LcdClaims -----------------------------
(***************************************************************************)
(* What a comment says of the LCD hardware and the hardware does not do.   *)
(***************************************************************************)
EXTENDS MCLcdTop

\* lcd_slave.vhd:136, "DOES LS_Busy go high soon enough -> solved with waitbusy
\* signal": every access to the LCD is acknowledged at last.  One that comes on
\* the last busy clock of a frame is not: the controller takes no notice of it,
\* and the slave waits for LS_Busy to go high.
AccessReturns == slave_state # "IDLE" ~> slave_state = "IDLE"

============================================================================
