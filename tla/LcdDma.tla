------------------------------- MODULE LcdDma -------------------------------
(***************************************************************************)
(* The DMA path: the master, the FIFO it fills, and the memory behind the  *)
(* Avalon bus.  Whoever starts frames and drains the FIFO is free here, so *)
(* what is shown of this module holds of every user of the path; LcdTop    *)
(* puts the slave and the controller there.                                *)
(*                                                                         *)
(* The memory is external (the HPS SDRAM bridge).  It may stretch a        *)
(* request with AM_WaitRequest for any time, and then returns the words of *)
(* the burst in address order, AM_RdDataValid marking the clocks on which  *)
(* one is there, the earliest one clock after it took the request.         *)
(***************************************************************************)
EXTENDS LcdFifo, LcdMaster

CONSTANTS
  FrameAddresses,   \* the addresses frames are started at (bounds TLC)
  FrameLengths      \* the lengths in words they are started with

ASSUME FrameAssumption ==
  /\ FrameAddresses \subseteq Nat
  /\ FrameLengths \subseteq Nat

\* lcd_fifo.vhd and lcd_master.vhd together: a burst fits above the threshold.
ASSUME RoomForBurst == AlmostFull - 1 + BurstLength <= Depth

VARIABLES
  mem_next,   \* address of the next word the memory returns
  mem_left    \* words of the accepted burst it still owes

memVars == <<mem_next, mem_left>>
dmaVars == <<mstVars, fifoVars, memVars>>

MemoryInit ==
  /\ mem_next = 0
  /\ mem_left = 0

\* One clock of the memory, rd being the master's AM_Rd.
MemoryClock(rd, waitrequest, valid) ==
  /\ valid => mem_left > 0
  /\ IF rd /\ ~waitrequest
       THEN mem_next' = mst_addr /\ mem_left' = BurstLength
       ELSE IF valid
         THEN mem_next' = mem_next + 4 /\ mem_left' = mem_left - 1
         ELSE UNCHANGED memVars

DmaTypeOK ==
  /\ MasterTypeOK
  /\ FifoTypeOK
  /\ mem_next \in Nat
  /\ mem_left \in 0..BurstLength

DmaInit ==
  /\ MasterInit
  /\ FifoInit
  /\ MemoryInit

\* One clock edge of master, FIFO and memory together.
DmaClock(start, address, length, fifo_rd, waitrequest, valid) ==
  /\ MasterClock(start, address, length, FIFO_Almost_Full, waitrequest, valid)
  /\ FifoClock(FIFO_Wr(valid), mem_next, fifo_rd)
  /\ MemoryClock(AM_Rd(FIFO_Almost_Full), waitrequest, valid)

DmaNext ==
  \E start, fifo_rd, waitrequest, valid \in BOOLEAN,
     address \in FrameAddresses, length \in FrameLengths :
    DmaClock(start, address, length, fifo_rd, waitrequest, valid)

DmaSpec == DmaInit /\ [][DmaNext]_dmaVars

----------------------------------------------------------------------------
(* What the path promises. *)

\* A word that arrives always finds a place: the FIFO is never full on a clock
\* on which the master writes to it.  The master looks at almost_full once per
\* burst, before it asks, and then cannot stop the words (lcd_master.vhd:115).
FifoNeverOverflows == mst_state = "RECEIVING" /\ mem_left > 0 => ~FIFO_Full

\* The words the memory owes are exactly those the master still waits for: no
\* word arrives outside RECEIVING, where the master would drop it, and none is
\* waited for in vain (lcd_master.vhd:125-147).
NoWordMissed ==
  mem_left = IF mst_state = "RECEIVING" THEN BurstLength - word_counter ELSE 0

\* The next word to arrive is the one that belongs next into the frame: within a
\* burst, and from one burst of a frame to the next, for which the master adds the
\* bytes of a burst to its address (lcd_master.vhd:133).
WordsInOrder ==
  mst_state = "RECEIVING" \/ burst_counter > 0 => mem_next = mst_addr + 4 * word_counter

\* Avalon: a read request the memory has not taken is still made, unchanged, on
\* the next clock.  It holds only because nothing fills the FIFO meanwhile.
ReadHeldUntilAccepted ==
  [][ AM_Rd(FIFO_Almost_Full) /\ mem_left' = 0
        => AM_Rd(FIFO_Almost_Full)' /\ mst_addr' = mst_addr ]_dmaVars

----------------------------------------------------------------------------
(* The inductive invariant behind them: between bursts the FIFO holds at    *)
(* most a burst above the threshold, during one only what has arrived.      *)

FifoBound ==
  Len(fifo) < AlmostFull + (IF mst_state = "RECEIVING" THEN word_counter ELSE BurstLength)

CountersReset ==
  /\ mst_state # "RECEIVING" => word_counter = 0
  /\ mst_state = "IDLE" => burst_counter = 0

DmaInv ==
  /\ DmaTypeOK
  /\ NoWordMissed
  /\ WordsInOrder
  /\ FifoBound
  /\ CountersReset

============================================================================
