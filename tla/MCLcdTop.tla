------------------------------ MODULE MCLcdTop ------------------------------
(***************************************************************************)
(* Bounds for LcdTop: bursts of 2 words, a FIFO of the least depth that    *)
(* holds AlmostFull - 1 words and a burst more, frames of 1 to 3 bursts.   *)
(***************************************************************************)
EXTENDS LcdTop

\* Every kind of access the slave's map has, no length below a burst.
AnyAccess ==
  {Read(1), Read(2), Read(3)} \cup {Write(0, 17), Write(1, 1), Write(2, 0), Write(3, 4)}

\* The same, with the reset code, a word that is cut to it, and lengths that are no
\* multiple of a burst, one of them cut to its register.
OddAccess ==
  AnyAccess \cup {Write(0, RESET_CODE), Write(1, HalfwordRange + RESET_CODE),
                  Write(3, LengthRange + 1), Write(3, 7)}

============================================================================
