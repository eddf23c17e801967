--------------------------- MODULE LcdController ---------------------------
(***************************************************************************)
(* lcd_controller: drives the pins of the LCD (an 8080-style parallel bus) *)
(* from single writes and reads of the slave and, during a frame, from the *)
(* FIFO (LCD/hw/hdl/lcd_controller.vhd).                                   *)
(*                                                                         *)
(* What is on the 16 data lines is a pair: <<"cpu", n>> is the halfword n  *)
(* of a processor write, <<"lo", a>> and <<"hi", a>> the two pixels of the *)
(* memory word at address a, <<"panel", n>> the panel's answer to a read,  *)
(* and <<"Z", 0>> lines nobody drives.                                     *)
(***************************************************************************)
EXTENDS Naturals

VARIABLES
  ctl_state,                     \* state_reg
  phase,                         \* phase_reg
  dcn, wrn, rdn, csn,            \* the registered pins
  d,                             \* d_reg
  lsrddata,                      \* lsrddata_reg
  fiford,                        \* fiford_reg
  curr_word                      \* curr_word_reg

pins    == <<dcn, wrn, rdn, csn, d>>
ctlVars == <<ctl_state, phase, pins, lsrddata, fiford, curr_word>>

HighZ         == <<"Z", 0>>
Halfword(n)   == <<"cpu", n>>
RESET_CODE    == 32768           \* 0x8000
NEW_FRAME_CMD == Halfword(44)    \* 0x2C

PhaseCap == 21   \* phase_reg has 31 bits; beyond 20 its value has no effect

LineValues == {"Z", "cpu", "lo", "hi", "panel"} \X Nat

ControllerTypeOK ==
  /\ ctl_state \in {"RESET_LCD", "IDLE", "WRITE", "READ_DUMMY", "READ", "NEW_FRAME",
                    "WAIT_FIFO", "WAIT_FIFO_RD", "WRITE_PIXEL", "WRITE_PIXEL_SECOND"}
  /\ phase \in 0..PhaseCap
  /\ {dcn, wrn, rdn, csn, fiford} \subseteq {0, 1}
  /\ d \in LineValues
  /\ lsrddata \in LineValues
  /\ curr_word \in Nat

\* The values rst_n loads; curr_word_reg has none, an FPGA powers it up as 0.
ControllerInit ==
  /\ ctl_state = "IDLE"
  /\ phase = 0
  /\ dcn = 1 /\ wrn = 1 /\ rdn = 1 /\ csn = 1
  /\ d = HighZ
  /\ lsrddata = <<"panel", 0>>
  /\ fiford = 0
  /\ curr_word = 0

LS_Busy == ctl_state # "IDLE"
RESET_N == ctl_state # "RESET_LCD"

----------------------------------------------------------------------------
(* The procedures do_write and do_read: what they do to phase and pins, and *)
(* the state they leave the machine in, `target' only when they end.        *)

Drive(dc, wr, rd, cs, data) ==
  dcn' = dc /\ wrn' = wr /\ rdn' = rd /\ csn' = cs /\ d' = data

\* Slip: the lines are released together with the strobe.
DoWriteNoHold(dc, data) ==
  /\ phase' = IF phase >= 4 THEN 0 ELSE phase + 1
  /\ \/ phase = 0 /\ Drive(dc, 0, 1, 0, data)
     \/ phase = 1 /\ UNCHANGED pins
     \/ phase >= 2 /\ Drive(1, 1, 1, 1, HighZ)

DoWrite(dc, data) ==
  /\ phase' = IF phase >= 4 THEN 0 ELSE phase + 1
  /\ \/ phase = 0 /\ Drive(dc, 0, 1, 0, data)
     \/ phase \in {1, 3} /\ UNCHANGED pins
     \/ phase = 2 /\ wrn' = 1 /\ UNCHANGED <<dcn, rdn, csn, d>>
     \/ phase >= 4 /\ Drive(1, 1, 1, 1, HighZ)

Written(here, target) == IF phase >= 4 THEN target ELSE here

DoRead(target, D) ==
  /\ phase' = IF phase >= 8 THEN 0 ELSE phase + 1
  /\ \/ phase = 0 /\ Drive(1, 1, 0, 0, d)
     \/ phase \in {1, 2, 3, 5, 6, 7} /\ UNCHANGED pins
     \/ phase = 4 /\ rdn' = 1 /\ UNCHANGED <<dcn, wrn, csn, d>>
     \/ phase >= 8 /\ Drive(1, 1, 1, IF ctl_state = "READ" THEN 1 ELSE csn, d)
  /\ lsrddata' = IF phase = 4 THEN D ELSE lsrddata
  /\ ctl_state' = IF phase >= 8 THEN target ELSE ctl_state
  /\ UNCHANGED <<fiford, curr_word>>

----------------------------------------------------------------------------
(* The states.  wr, rd: LS_Wr_n, LS_Rd_n low; dc, data: LS_DC_n, LS_WrData. *)

\* Slip: an access goes before the frame.
InIdleAccessFirst(wr, rd, dc, data, ml_busy) ==
  /\ ctl_state = "IDLE"
  /\ IF wr /\ data # RESET_CODE
       THEN DoWrite(dc, Halfword(data))
       ELSE UNCHANGED <<phase, pins>>
  /\ \/ wr /\ data = RESET_CODE /\ ctl_state' = "RESET_LCD"
     \/ wr /\ data # RESET_CODE /\ ctl_state' = Written("WRITE", "IDLE")
     \/ ~wr /\ rd /\ ctl_state' = "READ_DUMMY"
     \/ ~wr /\ ~rd /\ ctl_state' = IF ml_busy THEN "NEW_FRAME" ELSE "IDLE"
  /\ UNCHANGED <<lsrddata, fiford, curr_word>>

\* The later tests of the code override the earlier ones, the state only: a
\* frame that starts takes over the phase and the pins of the write it displaces.
InIdle(wr, rd, dc, data, ml_busy) ==
  /\ ctl_state = "IDLE"
  /\ IF wr /\ data # RESET_CODE
       THEN DoWrite(dc, Halfword(data))
       ELSE UNCHANGED <<phase, pins>>
  /\ \/ ml_busy /\ ctl_state' = "NEW_FRAME"
     \/ ~ml_busy /\ rd /\ ctl_state' = "READ_DUMMY"
     \/ ~ml_busy /\ ~rd /\ wr /\ data = RESET_CODE /\ ctl_state' = "RESET_LCD"
     \/ ~ml_busy /\ ~rd /\ wr /\ data # RESET_CODE /\ ctl_state' = Written("WRITE", "IDLE")
     \/ ~ml_busy /\ ~rd /\ ~wr /\ ctl_state' = "IDLE"
  /\ UNCHANGED <<lsrddata, fiford, curr_word>>

\* The process reads phase_next after assigning it, which makes a combinational
\* loop: at phase 19 phase_next = 20 and phase_next = 0 imply each other, so any
\* of the bits in which they differ, and the state, may be either at the edge.
\* At phase 20 the netlist counts on, and the simulator's process ends the reset.
InResetLcd ==
  /\ ctl_state = "RESET_LCD"
  /\ \/ /\ phase # 19
        /\ phase' = IF phase = PhaseCap THEN PhaseCap ELSE phase + 1
        /\ ctl_state' = "RESET_LCD"
     \/ /\ phase = 19
        /\ phase' \in {0, 4, 16, 20}
        /\ ctl_state' \in {"RESET_LCD", "IDLE"}
     \/ /\ phase = 20
        /\ phase' = 0
        /\ ctl_state' = "IDLE"
  /\ UNCHANGED <<pins, lsrddata, fiford, curr_word>>

InWrite(data) ==
  /\ ctl_state = "WRITE"
  /\ DoWrite(dcn, Halfword(data))
  /\ ctl_state' = Written("WRITE", "IDLE")
  /\ UNCHANGED <<lsrddata, fiford, curr_word>>

\* Slip: the dummy read is taken for the answer.
InReadOnce(D) ==
  \/ ctl_state = "READ_DUMMY" /\ DoRead("IDLE", D)
  \/ ctl_state = "READ" /\ DoRead("IDLE", D)

InRead(D) ==
  \/ ctl_state = "READ_DUMMY" /\ DoRead("READ", D)
  \/ ctl_state = "READ" /\ DoRead("IDLE", D)

InNewFrame ==
  /\ ctl_state = "NEW_FRAME"
  /\ DoWrite(0, NEW_FRAME_CMD)
  /\ ctl_state' = Written("NEW_FRAME", "WAIT_FIFO")
  /\ UNCHANGED <<lsrddata, fiford, curr_word>>

\* Slip: an empty FIFO is taken for the end of the frame.
InWaitFifoHasty(fifo_empty, ml_busy) ==
  /\ ctl_state = "WAIT_FIFO"
  /\ \/ ~fifo_empty /\ fiford' = 1 /\ ctl_state' = "WAIT_FIFO_RD"
     \/ fifo_empty /\ ctl_state' = "IDLE" /\ UNCHANGED fiford
  /\ UNCHANGED <<phase, pins, lsrddata, curr_word>>

InWaitFifo(fifo_empty, ml_busy) ==
  /\ ctl_state = "WAIT_FIFO"
  /\ \/ ~fifo_empty /\ fiford' = 1 /\ ctl_state' = "WAIT_FIFO_RD"
     \/ fifo_empty /\ ml_busy /\ UNCHANGED <<fiford, ctl_state>>
     \/ fifo_empty /\ ~ml_busy /\ ctl_state' = "IDLE" /\ UNCHANGED fiford
  /\ UNCHANGED <<phase, pins, lsrddata, curr_word>>

\* Slip: FIFO_Rd stays high.
InWaitFifoRdHeld ==
  /\ ctl_state = "WAIT_FIFO_RD"
  /\ ctl_state' = "WRITE_PIXEL"
  /\ UNCHANGED <<phase, pins, lsrddata, fiford, curr_word>>

InWaitFifoRd ==
  /\ ctl_state = "WAIT_FIFO_RD"
  /\ fiford' = 0
  /\ ctl_state' = "WRITE_PIXEL"
  /\ UNCHANGED <<phase, pins, lsrddata, curr_word>>

\* Slip: the word is not kept for its second pixel.
InWritePixelForgets(word) ==
  /\ ctl_state = "WRITE_PIXEL"
  /\ DoWrite(1, <<"lo", word>>)
  /\ ctl_state' = Written("WRITE_PIXEL", "WRITE_PIXEL_SECOND")
  /\ UNCHANGED <<lsrddata, fiford, curr_word>>

InWritePixel(word) ==
  /\ ctl_state = "WRITE_PIXEL"
  /\ curr_word' = word
  /\ DoWrite(1, <<"lo", word>>)
  /\ ctl_state' = Written("WRITE_PIXEL", "WRITE_PIXEL_SECOND")
  /\ UNCHANGED <<lsrddata, fiford>>

InWritePixelSecond ==
  /\ ctl_state = "WRITE_PIXEL_SECOND"
  /\ DoWrite(1, <<"hi", curr_word>>)
  /\ ctl_state' = Written("WRITE_PIXEL_SECOND", "WAIT_FIFO")
  /\ UNCHANGED <<lsrddata, fiford, curr_word>>

\* One clock edge; D is what is on the data lines.
ControllerClock(wr, rd, dc, data, ml_busy, fifo_empty, word, D) ==
  \/ InIdle(wr, rd, dc, data, ml_busy)
  \/ InResetLcd
  \/ InWrite(data)
  \/ InRead(D)
  \/ InNewFrame
  \/ InWaitFifo(fifo_empty, ml_busy)
  \/ InWaitFifoRd
  \/ InWritePixel(word)
  \/ InWritePixelSecond

----------------------------------------------------------------------------

WriteStates == {"WRITE", "NEW_FRAME", "WRITE_PIXEL", "WRITE_PIXEL_SECOND"}
FrameStates == {"NEW_FRAME", "WAIT_FIFO", "WAIT_FIFO_RD", "WRITE_PIXEL", "WRITE_PIXEL_SECOND"}

\* A strobe is low only in the states, and for a write the phases, that lower it.
PinInv ==
  /\ wrn = 0 => csn = 0 /\ phase \in {1, 2} /\ ctl_state \in WriteStates
  /\ rdn = 0 => ctl_state \in {"READ_DUMMY", "READ"}
  /\ d # HighZ => ctl_state \in WriteStates

============================================================================
