------------------------------- MODULE LcdTop -------------------------------
(***************************************************************************)
(* lcd_top: slave, DMA path and controller wired together and clocked by   *)
(* one clock (LCD/hw/hdl/lcd_top.vhd), with an arbitrary Avalon bus master *)
(* on the slave's port and an LCD panel on the pins.  Every step is one    *)
(* clock edge: all registers change at once, from the values before it.    *)
(*                                                                         *)
(* The bus master keeps its request until a clock on which AS_WaitRequest  *)
(* is low, and may then make another or none.  The panel (external) drives *)
(* the data lines while Rd_n is low, and answers its n-th read strobe with *)
(* n, so that the answer to the dummy read can be told from the other.     *)
(***************************************************************************)
EXTENDS LcdSlave, LcdDma, LcdController

CONSTANT Requests   \* the requests the bus master makes (bounds TLC)

ASSUME RequestAssumption ==
  Requests \subseteq [op : {"read", "write"}, address : 0..3, data : Nat]

VARIABLES
  bus,      \* the request on the Avalon slave port, NoRequest when there is none
  strobe    \* which of the two strobes of a read the panel saw last

vars == <<slaveVars, dmaVars, ctlVars, bus, strobe>>

Waiting == AS_WaitRequest(bus, LS_Busy)
StartDMA == MS_StartDMA(bus, LS_Busy)

\* What is on the lines D: the panel's answer while it is read.
D == IF rdn = 0 THEN <<"panel", strobe>> ELSE d

PanelClock ==
  strobe' = IF rdn = 1 /\ rdn' = 0 THEN (strobe % 2) + 1 ELSE strobe

LcdClock(waitrequest, valid) ==
  /\ SlaveClock(bus, LS_Busy)
  /\ DmaClock(StartDMA, bus.data, len_reg, fiford = 1, waitrequest, valid)
  /\ ControllerClock(LS_Wr(bus), LS_Rd(bus), LS_DC_n(bus), LS_WrData(bus),
                     ML_Busy, FIFO_Empty, fifo_q, D)
  /\ PanelClock

BusClock ==
  IF Waiting THEN bus' = bus ELSE bus' \in Requests \cup {NoRequest}

TypeOK ==
  /\ SlaveTypeOK
  /\ DmaTypeOK
  /\ ControllerTypeOK
  /\ bus \in Requests \cup {NoRequest}
  /\ strobe \in 0..2

Init ==
  /\ SlaveInit
  /\ DmaInit
  /\ ControllerInit
  /\ bus = NoRequest
  /\ strobe = 0

Next == \E waitrequest, valid \in BOOLEAN : LcdClock(waitrequest, valid) /\ BusClock

Spec == Init /\ [][Next]_vars

(* The clock runs; the memory takes a request it is shown for ever and      *)
(* sends every word it owes.  The bus master need not do anything.          *)
Accept  == AM_Rd(FIFO_Almost_Full)
             /\ \E valid \in BOOLEAN : LcdClock(FALSE, valid) /\ BusClock
Deliver == \E waitrequest \in BOOLEAN : LcdClock(waitrequest, TRUE) /\ BusClock

Fairness ==
  /\ WF_vars(Next)
  /\ WF_vars(Accept)
  /\ WF_vars(Deliver)

FairSpec == Spec /\ Fairness

----------------------------------------------------------------------------
(* What holds whatever the bus master does. *)

\* The controller pops the FIFO one clock after it saw it filled, and the word
\* is still there (lcd_controller.vhd:234-246): underflow checking would repeat
\* the last word instead.
FifoNeverUnderflows == fiford = 1 => ~FIFO_Empty

\* The slave starts the DMA when its own machine and the controller are idle; it
\* cannot see the master, which takes a start only when idle (lcd_slave.vhd:196).
StartFindsMasterIdle == StartDMA => mst_state = "IDLE"

\* The controller leaves a frame only when all of it is through: no word is left
\* in the FIFO or on its way to it to be shown in front of the next frame.
IdleMeansDrained ==
  ~LS_Busy => FIFO_Empty /\ mem_left = 0 /\ mst_state # "RECEIVING"

\* A master that fetches a frame has the controller: no write, read or reset
\* of the panel goes on meanwhile, beyond the clock on which it takes notice.
FrameHasController ==
  ML_Busy => ctl_state \in {"IDLE", "NEW_FRAME", "WAIT_FIFO", "WAIT_FIFO_RD",
                            "WRITE_PIXEL", "WRITE_PIXEL_SECOND"}

\* The interrupt comes only when the frame is out: nothing is being fetched.
IrqMeansFrameDone ==
  AS_IRQ(LS_Busy) => mst_state = "IDLE" /\ FIFO_Empty /\ mem_left = 0

\* The panel latches on the rising edge of Wr_n: chip select, D/C and the data
\* last from the clock Wr_n goes low to the one after it went high.
WriteCycleHeld ==
  [][ wrn = 0 => csn' = 0 /\ dcn' = dcn /\ d' = d ]_vars

\* The controller never drives the lines the panel drives, nor both strobes.
NoContention == rdn = 0 => d = HighZ /\ wrn = 1

\* Every frame that starts ends, and is signalled (frames of a burst or more).
FrameCompletes == dma_state = "ADDRESS" ~> AS_IRQ(LS_Busy)

----------------------------------------------------------------------------
(* The inductive invariant behind the safety properties above. *)

\* Who has the frame: from the start on the slave's DMA machine is in ADDRESS,
\* one clock later the controller enters the frame, and it leaves it last.
HandOver ==
  /\ fiford = 1 => ctl_state = "WAIT_FIFO_RD" /\ fifo # << >>
  /\ mst_state # "IDLE" \/ ctl_state \in FrameStates => dma_state = "ADDRESS"
  /\ dma_state # "ADDRESS" => dma_waitbusy = 1
  /\ ctl_state \notin FrameStates => fifo = << >> /\ mst_state # "RECEIVING"
  /\ ctl_state \notin FrameStates /\ mst_state = "READING"
       => ctl_state = "IDLE" /\ dma_waitbusy = 1

TopInv ==
  /\ TypeOK
  /\ DmaInv
  /\ PinInv
  /\ HandOver

============================================================================
