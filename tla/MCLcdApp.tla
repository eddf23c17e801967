------------------------------ MODULE MCLcdApp ------------------------------
(***************************************************************************)
(* Bounds for LcdApp: one command, one data halfword, frames of one or two *)
(* bursts of 2 words at two addresses.                                     *)
(***************************************************************************)
EXTENDS LcdApp

OnlyProgram == ProgramRequests

============================================================================
