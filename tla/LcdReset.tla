------------------------------ MODULE LcdReset ------------------------------
(***************************************************************************)
(* lcd_top with rst_n pulled at any clock, as it is when a debugger resets *)
(* the processor (debug_reset_request, soc_system.qsys:1237).  Processor,  *)
(* slave, master and controller lose their state.  The FIFO does not: it   *)
(* has no clear (lcd_fifo.vhd:113).  Nor does the memory, which is in the  *)
(* HPS: words it owes may still come, unless the interconnect, reset too,  *)
(* has forgotten them.  So a second burst can be asked for while words of  *)
(* one before the reset are on their way, which LcdDma need not consider.  *)
(***************************************************************************)
EXTENDS LcdSlave, LcdFifo, LcdMaster, LcdController

CONSTANTS
  Requests,     \* the requests the bus master makes (bounds TLC)
  MaxPending    \* words the memory takes upon itself before it stretches a request

ASSUME ResetAssumption ==
  /\ Requests \subseteq [op : {"read", "write"}, address : 0..3, data : Nat]
  /\ MaxPending \in Nat

ASSUME RoomForBurst == AlmostFull - 1 + BurstLength <= Depth

VARIABLES
  bus,       \* the request on the slave's port
  owed,      \* the words the memory owes, by address, in the order they come
  fouled,    \* history: words from before a reset are in the FIFO; no frame ended since
  late       \* history: the memory has owed words without a break since a reset

vars == <<slaveVars, fifoVars, mstVars, ctlVars, bus, owed, fouled, late>>

Burst == [i \in 1..BurstLength |-> mst_addr + 4 * (i - 1)]

\* The burst in the order the memory reads it, behind the words it owes.
MemoryClock(waitrequest, valid) ==
  /\ valid => owed # << >>
  /\ LET kept == IF valid THEN Tail(owed) ELSE owed
     IN  IF AM_Rd(FIFO_Almost_Full) /\ ~waitrequest
         THEN Len(kept) + BurstLength <= MaxPending /\ owed' = kept \o Burst
         ELSE owed' = kept

D == IF rdn = 0 THEN <<"panel", 1>> ELSE d

EndsFrame == ctl_state = "WAIT_FIFO" /\ ctl_state' = "IDLE"

LcdClock(waitrequest, valid) ==
  /\ SlaveClock(bus, LS_Busy)
  /\ MasterClock(MS_StartDMA(bus, LS_Busy), bus.data, len_reg, FIFO_Almost_Full,
                 waitrequest, valid)
  /\ FifoClock(FIFO_Wr(valid), IF valid THEN Head(owed) ELSE 0, fiford = 1)
  /\ ControllerClock(LS_Wr(bus), LS_Rd(bus), LS_DC_n(bus), LS_WrData(bus),
                     ML_Busy, FIFO_Empty, fifo_q, D)
  /\ MemoryClock(waitrequest, valid)
  /\ bus' \in IF AS_WaitRequest(bus, LS_Busy) THEN {bus} ELSE Requests \cup {NoRequest}
  /\ fouled' = (fouled /\ ~EndsFrame)
  /\ late' = (late /\ owed' # << >>)

ClockEdge == \E waitrequest, valid \in BOOLEAN : LcdClock(waitrequest, valid)

\* Slip: the master's counters keep their values.
ResetMasterState ==
  /\ mst_state' = "IDLE" /\ mst_addr' = 0 /\ mst_len' = 0
  /\ UNCHANGED <<burst_counter, word_counter>>

ResetMaster ==
  /\ mst_state' = "IDLE" /\ mst_addr' = 0 /\ mst_len' = 0
  /\ burst_counter' = 0 /\ word_counter' = 0

\* The values rst_n loads; what it does not reach keeps its own.
Reset ==
  /\ slave_state' = "IDLE" /\ waitbusy' = 1 /\ addr_reg' = 0 /\ len_reg' = DefaultLength
  /\ isbusy' = FALSE /\ dma_state' = "IDLE" /\ dma_waitbusy' = 1
  /\ ResetMaster
  /\ ctl_state' = "IDLE" /\ phase' = 0 /\ Drive(1, 1, 1, 1, HighZ)
  /\ lsrddata' = <<"panel", 0>> /\ fiford' = 0
  /\ UNCHANGED <<curr_word, fifoVars>>
  /\ bus' = NoRequest
  /\ owed' \in {owed, << >>}
  /\ fouled' = (fifo # << >>)
  /\ late' = (owed' # << >>)

Init ==
  /\ SlaveInit /\ FifoInit /\ MasterInit /\ ControllerInit
  /\ bus = NoRequest
  /\ owed = << >>
  /\ fouled = FALSE /\ late = FALSE

Next == ClockEdge \/ Reset

Spec == Init /\ [][Next]_vars

(* The clock runs, and the memory takes and sends as in LcdTop.  Of resets   *)
(* nothing is assumed: they may go on for ever.                             *)
Accept  == AM_Rd(FIFO_Almost_Full) /\ \E valid \in BOOLEAN : LcdClock(FALSE, valid)
Deliver == \E waitrequest \in BOOLEAN : LcdClock(waitrequest, TRUE)

FairSpec == Spec /\ WF_vars(ClockEdge) /\ WF_vars(Accept) /\ WF_vars(Deliver)

TypeOK ==
  /\ SlaveTypeOK /\ FifoTypeOK /\ MasterTypeOK /\ ControllerTypeOK
  /\ bus \in Requests \cup {NoRequest}
  /\ owed \in Seq(Nat)
  /\ fouled \in BOOLEAN /\ late \in BOOLEAN

----------------------------------------------------------------------------

\* Whatever a reset leaves in the FIFO and whatever words from before it the
\* master takes for its own, no word finds the FIFO full.
FifoNeverOverflows ==
  mst_state = "RECEIVING" /\ word_counter # BurstLength /\ owed # << >> => ~FIFO_Full

\* The next frame drains what a reset left in the FIFO: after it, a controller
\* that is free means an empty FIFO again.
OneFrameDrains ==
  ~LS_Busy /\ ~fouled => FIFO_Empty /\ mst_state # "RECEIVING"

\* Once no word from before the reset is on its way, words and bursts are in step
\* again, if a frame was under way even in the middle of it.
Resynchronises ==
  ~late =>
    /\ Len(owed) = IF mst_state = "RECEIVING" THEN BurstLength - word_counter ELSE 0
    /\ \A i \in 1..Len(owed) : owed[i] = mst_addr + 4 * (word_counter + i - 1)

\* No frame hangs, be its words its own or not: it ends, or a reset ends it.
FrameEnds == dma_state = "ADDRESS" ~> dma_state # "ADDRESS"

----------------------------------------------------------------------------

\* As in LcdDma: between bursts at most a burst above the threshold.
FifoBound ==
  Len(fifo) < AlmostFull + (IF mst_state = "RECEIVING" THEN word_counter ELSE BurstLength)

\* The words owed cover what the master waits for.
WordsToCome ==
  /\ mst_state # "RECEIVING" => word_counter = 0
  /\ mst_state = "RECEIVING" => Len(owed) >= BurstLength - word_counter

\* As in LcdTop, but that the FIFO may hold words while nobody has a frame.
HandOver ==
  /\ fiford = 1 => ctl_state = "WAIT_FIFO_RD" /\ fifo # << >>
  /\ mst_state # "IDLE" \/ ctl_state \in FrameStates => dma_state = "ADDRESS"
  /\ dma_state # "ADDRESS" => dma_waitbusy = 1
  /\ ctl_state \notin FrameStates => mst_state # "RECEIVING" /\ (fouled \/ fifo = << >>)
  /\ ctl_state \notin FrameStates /\ mst_state = "READING"
       => ctl_state = "IDLE" /\ dma_waitbusy = 1

ResetInv ==
  /\ TypeOK
  /\ PinInv
  /\ FifoBound
  /\ WordsToCome
  /\ HandOver

============================================================================
