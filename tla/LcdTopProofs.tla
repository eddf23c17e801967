---------------------------- MODULE LcdTopProofs ----------------------------
(***************************************************************************)
(* Proofs about LcdTop, for every bus master, memory, FIFO and burst       *)
(* length, reset loop of the controller included: TopInv is inductive, and *)
(* the safety properties of LcdTop follow from it.                         *)
(***************************************************************************)
EXTENDS LcdTop, LcdDmaProofs

LEMMA TopInit == Init => TopInv
<1> SUFFICES ASSUME Init PROVE TopInv
  OBVIOUS
<1>1. SlaveTypeOK
  BY DefaultFits DEF Init, SlaveInit, SlaveTypeOK
<1>2. DmaInv
  BY InitInv DEF Init
<1>3. ControllerTypeOK
  BY DEF Init, ControllerInit, ControllerTypeOK, LineValues, HighZ, PhaseCap
<1>4. TypeOK
  BY <1>1, <1>2, <1>3 DEF Init, TypeOK, DmaInv
<1>5. PinInv /\ HandOver
  BY DEF Init, ControllerInit, SlaveInit, DmaInit, MasterInit, FifoInit, PinInv, HandOver, FrameStates
<1> QED
  BY <1>2, <1>4, <1>5 DEF TopInv

----------------------------------------------------------------------------
(* The bus request is always one the slave's registers can hold. *)

LEMMA BusType ==
  ASSUME bus \in Requests \cup {NoRequest}
  PROVE  bus.data \in Nat /\ bus.address \in 0..3 /\ bus.op \in {"none", "read", "write"}
BY RequestAssumption DEF NoRequest

----------------------------------------------------------------------------
(* One clock of the whole.  The lemmas below all assume TopInv and a step. *)

\* What the controller is fed: the slave's strobes are exclusive, and the data
\* lines carry a value of the model.
LEMMA Inputs ==
  ASSUME TypeOK
  PROVE  /\ LS_Wr(bus) \in BOOLEAN /\ LS_Rd(bus) \in BOOLEAN /\ ~(LS_Wr(bus) /\ LS_Rd(bus))
         /\ LS_DC_n(bus) \in {0, 1} /\ LS_WrData(bus) \in Nat /\ D \in LineValues
         /\ ML_Busy \in BOOLEAN /\ FIFO_Empty \in BOOLEAN /\ LS_Busy \in BOOLEAN
<1>1. bus.data \in Nat /\ bus.op \in {"none", "read", "write"}
  BY BusType DEF TypeOK
<1>2. LS_WrData(bus) \in Nat
  BY <1>1, DataLines
<1>3. D \in LineValues
  <2>1. strobe \in Nat /\ d \in LineValues
    BY DEF TypeOK, ControllerTypeOK
  <2>2. <<"panel", strobe>> \in LineValues
    BY <2>1, LineValue
  <2> QED
    BY <2>1, <2>2 DEF D
<1> QED
  BY <1>1, <1>2, <1>3 DEF LS_Wr, LS_Rd, LS_DC_n, ML_Busy, FIFO_Empty, LS_Busy

\* HandOver is kept by every clock: a frame passes from the slave to the master
\* to the controller and comes back in the reverse order.
LEMMA HandOverStep ==
  ASSUME TopInv, NEW waitrequest \in BOOLEAN, NEW valid \in BOOLEAN,
         LcdClock(waitrequest, valid)
  PROVE  HandOver'
<1>1. /\ TypeOK /\ HandOver /\ MasterTypeOK /\ ControllerTypeOK /\ fifo \in Seq(Nat)
      /\ mem_next \in Nat
  BY DEF TopInv, DmaInv, DmaTypeOK, FifoTypeOK, TypeOK
<1>2. /\ SlaveClock(bus, LS_Busy)
      /\ MasterClock(StartDMA, bus.data, len_reg, FIFO_Almost_Full, waitrequest, valid)
      /\ FifoClock(FIFO_Wr(valid), mem_next, fiford = 1)
      /\ ControllerClock(LS_Wr(bus), LS_Rd(bus), LS_DC_n(bus), LS_WrData(bus),
                         ML_Busy, FIFO_Empty, fifo_q, D)
  BY DEF LcdClock, DmaClock
<1>3. /\ StartDMA => dma_state = "IDLE" /\ dma_state' = "ADDRESS" /\ ctl_state = "IDLE"
                       /\ dma_waitbusy' = 1 /\ ~LS_Wr(bus) /\ ~LS_Rd(bus)
      /\ dma_state = "ADDRESS" /\ dma_state' # "ADDRESS" =>
           ctl_state = "IDLE" /\ dma_waitbusy = 0
      /\ dma_state' # "ADDRESS" => dma_waitbusy' = 1
  <2>1. SlaveTypeOK /\ LS_Busy \in BOOLEAN /\ (dma_state # "ADDRESS" => dma_waitbusy = 1)
    BY <1>1 DEF TypeOK, HandOver, LS_Busy
  <2> QED
    BY <1>2, <2>1, SlaveFrame DEF StartDMA, LS_Busy
<1>4. /\ mst_state = "IDLE" => mst_state' = IF StartDMA THEN "READING" ELSE "IDLE"
      /\ mst_state = "READING" /\ ~ML_Busy => mst_state' = "IDLE"
      /\ mst_state' = "RECEIVING" => ML_Busy
  BY <1>1, <1>2, MasterFrame
<1>5. /\ ctl_state = "IDLE" /\ ML_Busy => ctl_state' = "NEW_FRAME"
      /\ ctl_state = "IDLE" /\ ~ML_Busy => ctl_state' \notin FrameStates
      /\ ctl_state = "IDLE" /\ ~ML_Busy /\ ~LS_Wr(bus) /\ ~LS_Rd(bus) => ctl_state' = "IDLE"
      /\ ctl_state \notin FrameStates /\ ctl_state # "IDLE" => ctl_state' \notin FrameStates
      /\ ctl_state \in FrameStates /\ ctl_state' \notin FrameStates =>
           ctl_state = "WAIT_FIFO" /\ FIFO_Empty /\ ~ML_Busy
      /\ fiford' = 1 =>
           ctl_state = "WAIT_FIFO" /\ ctl_state' = "WAIT_FIFO_RD" /\ ~FIFO_Empty /\ fiford # 1
  <2>1. fiford = 1 => ctl_state = "WAIT_FIFO_RD"
    BY <1>1 DEF HandOver
  <2>2. ML_Busy \in BOOLEAN /\ FIFO_Empty \in BOOLEAN
    BY DEF ML_Busy, FIFO_Empty
  <2> QED
    BY <1>1, <1>2, <2>1, <2>2, ControllerFrame
<1>6. /\ mst_state # "RECEIVING" /\ fifo = << >> => fifo' = << >>
      /\ fiford # 1 /\ fifo # << >> => fifo' # << >>
  BY <1>1, <1>2, FifoFrame DEF FIFO_Wr
<1>7. /\ fiford = 1 => ctl_state = "WAIT_FIFO_RD"
      /\ mst_state # "IDLE" \/ ctl_state \in FrameStates => dma_state = "ADDRESS"
      /\ ctl_state \notin FrameStates => fifo = << >> /\ mst_state # "RECEIVING"
      /\ ctl_state \notin FrameStates /\ mst_state = "READING"
           => ctl_state = "IDLE" /\ dma_waitbusy = 1
      /\ mst_state \in {"IDLE", "READING", "RECEIVING"}
      /\ "IDLE" \notin FrameStates
  BY <1>1 DEF HandOver, MasterTypeOK, FrameStates
<1>8. ML_Busy => mst_state # "IDLE"
  BY DEF ML_Busy
\* The pop reaches a FIFO that still holds a word.
<1>a. fiford' = 1 => ctl_state' = "WAIT_FIFO_RD" /\ fifo' # << >>
  BY <1>5, <1>6 DEF FIFO_Empty
\* The slave's machine outlasts the frame.
<1>b. mst_state' # "IDLE" \/ ctl_state' \in FrameStates => dma_state' = "ADDRESS"
  <2>1. CASE StartDMA
    BY <1>3, <2>1
  <2>2. CASE ~StartDMA /\ dma_state = "ADDRESS" /\ dma_state' # "ADDRESS"
    BY <1>3, <1>4, <1>5, <1>7, <1>8, <2>2
  <2>3. CASE ~StartDMA /\ dma_state # "ADDRESS"
    BY <1>4, <1>5, <1>7, <1>8, <2>3
  <2> QED
    BY <2>1, <2>2, <2>3
\* The controller leaves with nothing behind it.
<1>c. CASE ctl_state \in FrameStates /\ ctl_state' \notin FrameStates
  <2>1. fifo' = << >> /\ mst_state' = "IDLE"
    <3>1. ctl_state = "WAIT_FIFO" /\ fifo = << >> /\ ~ML_Busy
      BY <1>5, <1>c DEF FIFO_Empty
    <3>2. mst_state # "RECEIVING"
      BY <3>1 DEF ML_Busy
    <3>3. ~StartDMA
      BY <1>3, <1>7, <3>1
    <3> QED
      BY <1>4, <1>6, <1>7, <3>1, <3>2, <3>3
  <2> QED
    BY <1>3, <1>a, <1>b, <2>1 DEF HandOver
<1>d. CASE ctl_state \notin FrameStates /\ ctl_state' \notin FrameStates
  <2>1. ~ML_Busy
    BY <1>5, <1>7, <1>d DEF ML_Busy, FrameStates
  <2>2. fifo' = << >> /\ mst_state' # "RECEIVING"
    BY <1>4, <1>6, <1>7, <1>d, <2>1
  <2>3. mst_state' = "READING" => StartDMA
    BY <1>4, <1>7, <1>d, <2>1
  <2> QED
    BY <1>3, <1>5, <1>a, <1>b, <2>1, <2>2, <2>3 DEF HandOver
<1>e. CASE ctl_state' \in FrameStates
  BY <1>3, <1>a, <1>b, <1>e DEF HandOver
<1> QED
  BY <1>c, <1>d, <1>e

\* Everything but the hand-over: each component keeps its part.
LEMMA ClockStep ==
  ASSUME TopInv, NEW waitrequest \in BOOLEAN, NEW valid \in BOOLEAN,
         LcdClock(waitrequest, valid), BusClock
  PROVE  TypeOK' /\ DmaInv' /\ PinInv' /\ (wrn = 0 => csn' = 0 /\ dcn' = dcn /\ d' = d)
<1>1. TypeOK /\ SlaveTypeOK /\ DmaInv /\ ControllerTypeOK /\ PinInv /\ fifo_q \in Nat
  BY DEF TopInv, TypeOK, DmaInv, DmaTypeOK, FifoTypeOK
<1>2. /\ bus \in Requests \cup {NoRequest} /\ len_reg \in Nat
      /\ LS_Busy \in BOOLEAN /\ StartDMA \in BOOLEAN /\ (fiford = 1) \in BOOLEAN
  BY <1>1 DEF TypeOK, SlaveTypeOK, LS_Busy, StartDMA, MS_StartDMA
<1>3. SlaveTypeOK'
  BY <1>1, <1>2, BusType, SlaveStep DEF LcdClock
<1>4. DmaInv'
  <2>1. \E start \in BOOLEAN, rd \in BOOLEAN :
          DmaClock(start, bus.data, len_reg, rd, waitrequest, valid)
    <3>1. DmaClock(StartDMA, bus.data, len_reg, fiford = 1, waitrequest, valid)
      BY DEF LcdClock
    <3> QED
      BY <1>2, <3>1, Zenon
  <2>2. bus.data \in Nat
    BY <1>2, BusType
  <2> QED
    BY <1>1, <1>2, <2>1, <2>2, ClockInv
<1>5. ControllerTypeOK' /\ PinInv' /\ (wrn = 0 => csn' = 0 /\ dcn' = dcn /\ d' = d)
  <2>1. /\ ~(LS_Wr(bus) /\ LS_Rd(bus))
        /\ LS_DC_n(bus) \in {0, 1} /\ LS_WrData(bus) \in Nat /\ D \in LineValues
    BY <1>1, Inputs
  <2>2. ControllerClock(LS_Wr(bus), LS_Rd(bus), LS_DC_n(bus), LS_WrData(bus),
                        ML_Busy, FIFO_Empty, fifo_q, D)
    BY DEF LcdClock
  <2> QED
    BY <1>1, <2>1, <2>2, ControllerStep
<1>6. bus' \in Requests \cup {NoRequest}
  BY <1>2 DEF BusClock
<1>7. strobe' \in 0..2
  BY <1>1 DEF TypeOK, LcdClock, PanelClock
<1> QED
  BY <1>3, <1>4, <1>5, <1>6, <1>7 DEF TypeOK, DmaInv

LEMMA TopStep == TopInv /\ [Next]_vars => TopInv'
<1> SUFFICES ASSUME TopInv, [Next]_vars PROVE TopInv'
  OBVIOUS
<1>1. CASE Next
  <2>1. PICK waitrequest \in BOOLEAN, valid \in BOOLEAN : LcdClock(waitrequest, valid) /\ BusClock
    BY <1>1 DEF Next
  <2> QED
    BY <2>1, ClockStep, HandOverStep DEF TopInv
<1>2. CASE UNCHANGED vars
  <2>1. TypeOK'
    BY <1>2 DEF TopInv, vars, slaveVars, busVars, irqVars, dmaVars, mstVars, fifoVars, memVars,
                ctlVars, pins, TypeOK, SlaveTypeOK, DmaTypeOK, MasterTypeOK, FifoTypeOK, ControllerTypeOK
  <2>2. DmaInv'
    BY <1>2, StutterInv DEF TopInv, vars
  <2>3. PinInv' /\ HandOver'
    BY <1>2 DEF TopInv, vars, slaveVars, busVars, irqVars, dmaVars, mstVars, fifoVars, memVars,
                ctlVars, pins, PinInv, HandOver
  <2> QED
    BY <2>1, <2>2, <2>3 DEF TopInv
<1> QED
  BY <1>1, <1>2

----------------------------------------------------------------------------
(* The theorems. *)

(* The inductive invariant of lcd_top, its types among it, holds for every bus *)
(* master that keeps the Avalon protocol, every memory, every burst length and *)
(* every FIFO with room for a burst above its threshold.                       *)
THEOREM TopInvariant == Spec => []TopInv
BY TopInit, TopStep, PTL DEF Spec

(* Each state property follows from the inductive invariant. *)

LEMMA InvNoUnderflow == TopInv => FifoNeverUnderflows
BY DEF TopInv, HandOver, FifoNeverUnderflows, FIFO_Empty

LEMMA InvStart == TopInv => StartFindsMasterIdle
<1> SUFFICES ASSUME TopInv, StartDMA PROVE mst_state = "IDLE"
  BY DEF StartFindsMasterIdle
<1>1. dma_state # "ADDRESS"
  BY DEF StartDMA, MS_StartDMA
<1> QED
  BY <1>1 DEF TopInv, HandOver

LEMMA InvDrained == TopInv => IdleMeansDrained
<1> SUFFICES ASSUME TopInv, ctl_state = "IDLE"
             PROVE  FIFO_Empty /\ mem_left = 0 /\ mst_state # "RECEIVING"
  BY DEF IdleMeansDrained, LS_Busy
<1>1. fifo = << >> /\ mst_state # "RECEIVING"
  BY DEF TopInv, HandOver, FrameStates
<1> QED
  BY <1>1 DEF TopInv, DmaInv, NoWordMissed, FIFO_Empty

LEMMA InvHasController == TopInv => FrameHasController
<1> SUFFICES ASSUME TopInv, ML_Busy, ctl_state \notin FrameStates
             PROVE  ctl_state = "IDLE"
  BY DEF FrameHasController, FrameStates
<1>1. mst_state = "READING"
  BY DEF ML_Busy, TopInv, HandOver
<1> QED
  BY <1>1 DEF TopInv, HandOver

LEMMA InvIrq == TopInv => IrqMeansFrameDone
<1> SUFFICES ASSUME TopInv, AS_IRQ(LS_Busy)
             PROVE  mst_state = "IDLE" /\ FIFO_Empty /\ mem_left = 0
  BY DEF IrqMeansFrameDone
<1>1. mst_state \in {"IDLE", "READING", "RECEIVING"} /\ HandOver /\ "IDLE" \notin FrameStates
  BY DEF TopInv, DmaInv, DmaTypeOK, MasterTypeOK, FrameStates
<1>2. CASE dma_state = "IRQ"
  BY <1>1, <1>2 DEF HandOver, FrameStates, FIFO_Empty, TopInv, DmaInv, NoWordMissed
<1>3. CASE dma_state = "ADDRESS" /\ ctl_state = "IDLE" /\ dma_waitbusy = 0
  BY <1>1, <1>3 DEF HandOver, FIFO_Empty, TopInv, DmaInv, NoWordMissed
<1> QED
  BY <1>2, <1>3 DEF AS_IRQ, LS_Busy

LEMMA InvNoContention == TopInv => NoContention
<1> SUFFICES ASSUME TopInv, rdn = 0 PROVE d = HighZ /\ wrn = 1
  BY DEF NoContention
<1>1. ctl_state \notin WriteStates /\ wrn \in {0, 1}
  BY DEF TopInv, TypeOK, ControllerTypeOK, PinInv, WriteStates
<1> QED
  BY <1>1 DEF TopInv, PinInv

(* The controller never pops an empty FIFO (lcd_controller.vhd:232-246): the   *)
(* word it saw on the clock before is still there.                             *)
THEOREM NoUnderflow == Spec => []FifoNeverUnderflows
BY TopInvariant, InvNoUnderflow, PTL

(* A start the slave accepts is never lost on a busy master                    *)
(* (lcd_slave.vhd:196, lcd_master.vhd:96-102).                                 *)
THEOREM StartNeverLost == Spec => []StartFindsMasterIdle
BY TopInvariant, InvStart, PTL

(* When the controller is free, the frame is through: no word is left over for *)
(* the next one (lcd_controller.vhd:239-242).                                  *)
THEOREM Drained == Spec => []IdleMeansDrained
BY TopInvariant, InvDrained, PTL

(* While a frame is fetched, the controller does nothing else.                 *)
THEOREM FrameExclusive == Spec => []FrameHasController
BY TopInvariant, InvHasController, PTL

(* The interrupt is raised only with the frame done (lcd_slave.vhd:204-219).   *)
THEOREM IrqAfterFrame == Spec => []IrqMeansFrameDone
BY TopInvariant, InvIrq, PTL

(* The controller never drives the data lines together with the panel.         *)
THEOREM OneDriver == Spec => []NoContention
BY TopInvariant, InvNoContention, PTL

(* No word from memory finds the FIFO full, with the real controller draining  *)
(* it and the real slave starting frames.                                      *)
THEOREM TopNoOverflow == Spec => []FifoNeverOverflows
<1>1. TopInv => FifoNeverOverflows
  BY InvNoOverflow DEF TopInv
<1> QED
  BY TopInvariant, <1>1, PTL

(* Chip select, D/C and data outlast every write strobe (do_write).            *)
THEOREM WriteHeld == Spec => WriteCycleHeld
<1>1. TopInv /\ [Next]_vars => [ wrn = 0 => csn' = 0 /\ dcn' = dcn /\ d' = d ]_vars
  <2> SUFFICES ASSUME TopInv, Next PROVE wrn = 0 => csn' = 0 /\ dcn' = dcn /\ d' = d
    OBVIOUS
  <2>1. PICK waitrequest \in BOOLEAN, valid \in BOOLEAN : LcdClock(waitrequest, valid) /\ BusClock
    BY DEF Next
  <2> QED
    BY <2>1, ClockStep
<1> QED
  BY TopInvariant, <1>1, PTL DEF Spec, WriteCycleHeld

=============================================================================
