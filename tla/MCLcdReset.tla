----------------------------- MODULE MCLcdReset -----------------------------
(***************************************************************************)
(* Bounds for LcdReset: a command, or a frame of two bursts at address 0.  *)
(***************************************************************************)
EXTENDS LcdReset

FrameAccess == {Write(0, 17), Write(2, 0)}

============================================================================
