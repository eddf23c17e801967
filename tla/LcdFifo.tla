------------------------------ MODULE LcdFifo ------------------------------
(***************************************************************************)
(* LCD_Fifo: the wrapper of Altera's scfifo between the DMA master and the *)
(* LCD controller (LCD/hw/hdl/lcd_fifo.vhd).  The scfifo itself is outside *)
(* the repository's own sources; its generics fix its behaviour: normal    *)
(* (not show-ahead) reads, so q is loaded by the clock edge that pops, and *)
(* overflow and underflow checking on, so a write to a full FIFO and a     *)
(* read of an empty one are ignored.  A word of picture data is named by   *)
(* the byte address it was read from.                                      *)
(***************************************************************************)
EXTENDS Naturals, Sequences

CONSTANTS
  Depth,        \* lpm_numwords (128)
  AlmostFull    \* almost_full_value (16)

ASSUME FifoAssumption ==
  /\ Depth \in Nat \ {0}
  /\ AlmostFull \in 1..Depth

VARIABLES
  fifo,      \* the words held, the oldest first
  fifo_q     \* the output register q

fifoVars == <<fifo, fifo_q>>

FIFO_Empty       == fifo = << >>
FIFO_Full        == Len(fifo) >= Depth
\* A slip the properties must catch: the flag comes one word late.
FIFO_Almost_Full_Late == Len(fifo) > AlmostFull

FIFO_Almost_Full == Len(fifo) >= AlmostFull

FifoTypeOK ==
  /\ fifo \in Seq(Nat)
  /\ fifo_q \in Nat

FifoInit ==
  /\ fifo = << >>
  /\ fifo_q = 0

\* One clock edge with FIFO_Wr = wr, FIFO_WrData = data and FIFO_Rd = rd.
FifoClock(wr, data, rd) ==
  LET wrreq == wr /\ ~FIFO_Full
      rdreq == rd /\ ~FIFO_Empty
      kept  == IF rdreq THEN Tail(fifo) ELSE fifo
  IN  /\ fifo' = IF wrreq THEN Append(kept, data) ELSE kept
      /\ fifo_q' = IF rdreq THEN Head(fifo) ELSE fifo_q

============================================================================
