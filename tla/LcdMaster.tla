----------------------------- MODULE LcdMaster -----------------------------
(***************************************************************************)
(* LCD_Master: the Avalon read master that copies a frame from memory into *)
(* the FIFO, one burst at a time (LCD/hw/hdl/lcd_master.vhd).  Inputs of   *)
(* the entity are parameters of the clock step; outputs are operators.     *)
(***************************************************************************)
EXTENDS Naturals

CONSTANT BurstLength     \* BURST_LENGTH (16)

ASSUME BurstAssumption == BurstLength \in Nat \ {0}

VARIABLES
  mst_state,       \* state_reg
  mst_addr,        \* addr_reg: byte address of the next burst
  mst_len,         \* len_reg: words in the frame
  burst_counter,   \* bursts received
  word_counter     \* words of the current burst received

mstVars == <<mst_state, mst_addr, mst_len, burst_counter, word_counter>>

MasterTypeOK ==
  /\ mst_state \in {"IDLE", "READING", "RECEIVING"}
  /\ mst_addr \in Nat
  /\ mst_len \in Nat
  /\ burst_counter \in Nat
  /\ word_counter \in 0..BurstLength

\* The values rst_n loads.
MasterInit ==
  /\ mst_state = "IDLE"
  /\ mst_addr = 0
  /\ mst_len = 0
  /\ burst_counter = 0
  /\ word_counter = 0

AllBurstsDone == burst_counter = mst_len \div BurstLength

ML_Busy ==
  \/ mst_state = "READING" /\ ~AllBurstsDone
  \/ mst_state = "RECEIVING"

AM_Rd(almost_full) == mst_state = "READING" /\ ~AllBurstsDone /\ ~almost_full

FIFO_Wr(valid) == mst_state = "RECEIVING" /\ word_counter # BurstLength /\ valid

----------------------------------------------------------------------------

Idle(start) ==
  /\ mst_state = "IDLE"
  /\ ~start
  /\ UNCHANGED mstVars

StartFrame(start, address, length) ==
  /\ mst_state = "IDLE"
  /\ start
  /\ mst_state' = "READING"
  /\ mst_addr' = address
  /\ mst_len' = length
  /\ UNCHANGED <<burst_counter, word_counter>>

EndFrame ==
  /\ mst_state = "READING"
  /\ AllBurstsDone
  /\ mst_state' = "IDLE"
  /\ burst_counter' = 0
  /\ UNCHANGED <<mst_addr, mst_len, word_counter>>

\* The request is held while the bus answers AM_WaitRequest, and not made at
\* all while the FIFO has no place for a burst.
AwaitBurst(almost_full, waitrequest) ==
  /\ mst_state = "READING"
  /\ ~AllBurstsDone
  /\ almost_full \/ waitrequest
  /\ UNCHANGED mstVars

\* Slip: AM_WaitRequest is not looked at.
StartBurstUnheard(almost_full, waitrequest) ==
  /\ AM_Rd(almost_full)
  /\ mst_state' = "RECEIVING"
  /\ UNCHANGED <<mst_addr, mst_len, burst_counter, word_counter>>

StartBurst(almost_full, waitrequest) ==
  /\ AM_Rd(almost_full)
  /\ ~waitrequest
  /\ mst_state' = "RECEIVING"
  /\ UNCHANGED <<mst_addr, mst_len, burst_counter, word_counter>>

ReceiveWord(valid) ==
  /\ mst_state = "RECEIVING"
  /\ word_counter # BurstLength
  /\ word_counter' = IF valid THEN word_counter + 1 ELSE word_counter
  /\ UNCHANGED <<mst_state, mst_addr, mst_len, burst_counter>>

\* Slip: the address advances by words where the bus wants bytes.
EndBurstInWords ==
  /\ mst_state = "RECEIVING"
  /\ word_counter = BurstLength
  /\ word_counter' = 0
  /\ burst_counter' = burst_counter + 1
  /\ mst_addr' = mst_addr + BurstLength
  /\ mst_state' = "READING"
  /\ UNCHANGED mst_len

EndBurst ==
  /\ mst_state = "RECEIVING"
  /\ word_counter = BurstLength
  /\ word_counter' = 0
  /\ burst_counter' = burst_counter + 1
  /\ mst_addr' = mst_addr + 4 * BurstLength
  /\ mst_state' = "READING"
  /\ UNCHANGED mst_len

MasterClock(start, address, length, almost_full, waitrequest, valid) ==
  \/ Idle(start)
  \/ StartFrame(start, address, length)
  \/ EndFrame
  \/ AwaitBurst(almost_full, waitrequest)
  \/ StartBurst(almost_full, waitrequest)
  \/ ReceiveWord(valid)
  \/ EndBurst

============================================================================
