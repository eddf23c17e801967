--------------------------- MODULE LcdPartsProofs ---------------------------
(***************************************************************************)
(* What one clock does to each component of the LCD hardware, whatever its *)
(* inputs: the lemmas the proofs about LcdDma, LcdTop and LcdReset share.  *)
(***************************************************************************)
EXTENDS LcdSlave, LcdFifo, LcdMaster, LcdController, TLAPS

USE FifoAssumption, BurstAssumption

----------------------------------------------------------------------------
(* The FIFO. *)

(* What one clock does to the FIFO's contents: it keeps its type, and grows  *)
(* by a word at most, and that only if one is written.                       *)
LEMMA FifoStep ==
  ASSUME FifoTypeOK, NEW wr \in BOOLEAN, NEW rd \in BOOLEAN, NEW data \in Nat,
         FifoClock(wr, data, rd)
  PROVE  /\ FifoTypeOK'
         /\ Len(fifo) \in Nat /\ Len(fifo)' \in Nat
         /\ Len(fifo)' <= Len(fifo) + 1
         /\ ~wr => Len(fifo)' <= Len(fifo)
<1> DEFINE wrreq == wr /\ ~FIFO_Full
           rdreq == rd /\ ~FIFO_Empty
           kept  == IF rdreq THEN Tail(fifo) ELSE fifo
<1>1. /\ fifo' = IF wrreq THEN Append(kept, data) ELSE kept
      /\ fifo_q' = IF rdreq THEN Head(fifo) ELSE fifo_q
  BY DEF FifoClock
<1>2. fifo \in Seq(Nat) /\ fifo_q \in Nat
  BY DEF FifoTypeOK
<1>3. rdreq => fifo # << >>
  BY DEF FIFO_Empty
<1>4. kept \in Seq(Nat) /\ Len(kept) <= Len(fifo)
  <2>1. CASE rdreq
    BY <1>2, <1>3, <2>1
  <2>2. CASE ~rdreq
    BY <1>2, <2>2
  <2> QED BY <2>1, <2>2
<1>5. fifo_q' \in Nat
  BY <1>1, <1>2, <1>3
<1> HIDE DEF kept
<1>6. fifo' \in Seq(Nat) /\ Len(fifo') <= Len(kept) + 1 /\ (~wr => Len(fifo') <= Len(kept))
  <2>1. CASE wrreq
    BY <1>1, <1>4, <2>1
  <2>2. CASE ~wrreq
    BY <1>1, <1>4, <2>2
  <2> QED BY <2>1, <2>2
<1>7. Len(fifo) \in Nat /\ Len(fifo') \in Nat /\ Len(kept) \in Nat
  BY <1>2, <1>4, <1>6
<1> QED
  BY <1>4, <1>5, <1>6, <1>7 DEF FifoTypeOK

\* The FIFO under this master and controller: while the master does not receive,
\* nothing is added, and what was there when no pop was asked for stays.
LEMMA FifoFrame ==
  ASSUME fifo \in Seq(Nat), NEW wr, NEW word \in Nat, NEW rd,
         FifoClock(wr, word, rd)
  PROVE  /\ ~wr /\ fifo = << >> => fifo' = << >>
         /\ ~rd /\ fifo # << >> => fifo' # << >>
<1>1. CASE ~wr /\ fifo = << >>
  BY <1>1 DEF FifoClock, FIFO_Empty
<1>2. CASE ~rd /\ fifo # << >>
  <2>1. fifo' = fifo \/ fifo' = Append(fifo, word)
    BY <1>2 DEF FifoClock
  <2>2. Len(Append(fifo, word)) = Len(fifo) + 1 /\ Len(fifo) \in Nat
    OBVIOUS
  <2>3. Len(<< >>) = 0
    OBVIOUS
  <2> QED
    BY <1>2, <2>1, <2>2, <2>3
<1> QED
  BY <1>1, <1>2

----------------------------------------------------------------------------
(* The slave. *)

\* What a cut leaves has the width of what it is cut to.
LEMMA Cut ==
  \A n \in Nat, range \in Nat \ {0} : n % range \in Nat /\ n % range \in 0..(range - 1)
OBVIOUS

\* The data lines to the controller carry a halfword.
LEMMA DataLines ==
  ASSUME NEW as, as.data \in Nat
  PROVE  LS_WrData(as) \in Nat
<1>1. HalfwordRange \in Nat \ {0} /\ 0 \in Nat
  BY DEF HalfwordRange
<1>2. as.data % HalfwordRange \in Nat
  BY <1>1, Cut, Zenon
<1> QED
  BY <1>1, <1>2, Zenon DEF LS_WrData

\* The length register can hold what rst_n loads into it.
LEMMA DefaultFits == DefaultLength \in 0..(LengthRange - 1)
BY DefaultLengthAssumption, LengthRangeAssumption

\* Whatever is written, each register keeps to its width.
LEMMA SlaveStep ==
  ASSUME SlaveTypeOK, NEW as, as.data \in Nat, NEW busy \in BOOLEAN, SlaveClock(as, busy)
  PROVE  SlaveTypeOK'
<1>1. /\ slave_state' \in {"IDLE", "READ", "WRITE"}
      /\ waitbusy' \in {0, 1}
      /\ addr_reg' \in Nat
      /\ len_reg' \in 0..(LengthRange - 1)
  <2>1. LengthRange \in Nat \ {0}
    BY DefaultLengthAssumption, LengthRangeAssumption
  <2>2. as.data % LengthRange \in 0..(LengthRange - 1)
    BY <2>1, Cut, Zenon
  <2> QED
    BY <2>2 DEF SlaveTypeOK, SlaveClock, RegisterRead, LcdAccess, RegisterWrite, AwaitLcd, busVars
<1>2. /\ dma_state' \in {"IDLE", "ADDRESS", "IRQ"}
      /\ dma_waitbusy' \in {0, 1}
  BY DEF SlaveTypeOK, SlaveClock, AwaitAddress, AwaitFrame, HoldIrq
<1>3. isbusy' \in BOOLEAN
  BY DEF SlaveClock
<1> QED
  BY <1>1, <1>2, <1>3 DEF SlaveTypeOK

\* The DMA machine of the slave: ADDRESS is entered by a start only, and left
\* only on a clock on which the controller is free after having been busy.
LEMMA SlaveFrame ==
  ASSUME SlaveTypeOK, NEW as, NEW busy \in BOOLEAN, SlaveClock(as, busy),
         dma_state # "ADDRESS" => dma_waitbusy = 1
  PROVE  /\ MS_StartDMA(as, busy) =>
              /\ dma_state = "IDLE" /\ dma_state' = "ADDRESS" /\ ~busy
              /\ dma_waitbusy' = 1 /\ ~LS_Wr(as) /\ ~LS_Rd(as)
         /\ dma_state = "ADDRESS" /\ dma_state' # "ADDRESS" => ~busy /\ dma_waitbusy = 0
         /\ dma_state' # "ADDRESS" => dma_waitbusy' = 1
<1>1. dma_state \in {"IDLE", "ADDRESS", "IRQ"} /\ dma_waitbusy \in {0, 1}
  BY DEF SlaveTypeOK
<1>2. MS_StartDMA(as, busy) => ~busy /\ ~LS_Wr(as) /\ ~LS_Rd(as)
  BY DEF MS_StartDMA, LS_Wr, LS_Rd, ToLcd
<1> QED
  BY <1>1, <1>2 DEF SlaveClock, AwaitAddress, AwaitFrame, HoldIrq, MS_StartDMA

----------------------------------------------------------------------------
(* The master. *)

\* The master: a start is all that takes it out of IDLE, and only a burst
\* accepted while it was busy takes it to RECEIVING.
LEMMA MasterFrame ==
  ASSUME MasterTypeOK, NEW start, NEW address, NEW length, NEW almost_full,
         NEW waitrequest, NEW valid,
         MasterClock(start, address, length, almost_full, waitrequest, valid)
  PROVE  /\ mst_state = "IDLE" => mst_state' = IF start THEN "READING" ELSE "IDLE"
         /\ mst_state = "READING" /\ ~ML_Busy => mst_state' = "IDLE"
         /\ mst_state' = "RECEIVING" => ML_Busy
BY DEF MasterTypeOK, MasterClock, Idle, StartFrame, EndFrame, AwaitBurst, StartBurst,
       ReceiveWord, EndBurst, ML_Busy, AM_Rd, mstVars

----------------------------------------------------------------------------
(* The controller: types of its registers, the state of its strobes, its frames. *)

LEMMA LineValue == \A n \in Nat, k \in {"Z", "cpu", "lo", "hi", "panel"} : <<k, n>> \in LineValues
BY DEF LineValues

LEMMA WriteStep ==
  ASSUME ControllerTypeOK, PinInv, NEW dc \in {0, 1}, NEW data \in LineValues,
         DoWrite(dc, data), ctl_state \in WriteStates \/ ctl_state = "IDLE"
  PROVE  /\ phase' \in 0..PhaseCap
         /\ {dcn', wrn', rdn', csn'} \subseteq {0, 1} /\ d' \in LineValues
         /\ rdn' = 1
         /\ wrn' = 0 => csn' = 0 /\ phase' \in {1, 2} /\ phase < 4
         /\ d' # HighZ => phase < 4
         /\ wrn = 0 => csn' = 0 /\ dcn' = dcn /\ d' = d
<1>1. /\ phase \in 0..PhaseCap /\ {dcn, wrn, rdn, csn} \subseteq {0, 1} /\ d \in LineValues
      /\ rdn = 1
  BY DEF ControllerTypeOK, PinInv, WriteStates
<1>2. HighZ \in LineValues
  BY DEF HighZ, LineValues
<1>3. CASE phase = 0
  BY <1>1, <1>3 DEF DoWrite, Drive, PhaseCap, PinInv
<1>4. CASE phase \in {1, 3}
  BY <1>1, <1>4 DEF DoWrite, pins, PhaseCap, PinInv
<1>5. CASE phase = 2
  BY <1>1, <1>5 DEF DoWrite, PhaseCap, PinInv
<1>6. CASE phase >= 4
  BY <1>1, <1>2, <1>6 DEF DoWrite, Drive, PhaseCap, PinInv
<1> QED
  BY <1>1, <1>3, <1>4, <1>5, <1>6 DEF PhaseCap

LEMMA ReadStep ==
  ASSUME ControllerTypeOK, PinInv, NEW target, NEW line \in LineValues,
         DoRead(target, line), ctl_state \in {"READ_DUMMY", "READ"}
  PROVE  /\ phase' \in 0..PhaseCap
         /\ {dcn', wrn', rdn', csn'} \subseteq {0, 1}
         /\ lsrddata' \in LineValues
         /\ wrn' = 1 /\ d' = d /\ d = HighZ
         /\ rdn' = 0 => ctl_state' = ctl_state
         /\ ctl_state' \in {ctl_state, target}
         /\ UNCHANGED <<fiford, curr_word>>
<1>1. /\ phase \in 0..PhaseCap /\ {dcn, wrn, rdn, csn} \subseteq {0, 1}
      /\ wrn = 1 /\ d = HighZ /\ lsrddata \in LineValues
  BY DEF ControllerTypeOK, PinInv, WriteStates
<1>2. lsrddata' \in LineValues /\ ctl_state' \in {ctl_state, target} /\ UNCHANGED <<fiford, curr_word>>
  BY <1>1 DEF DoRead
<1>3. phase' \in 0..PhaseCap
  BY <1>1 DEF DoRead, PhaseCap
<1>4. CASE phase = 0
  BY <1>1, <1>2, <1>3, <1>4 DEF DoRead, Drive
<1>5. CASE phase \in {1, 2, 3, 5, 6, 7}
  BY <1>1, <1>2, <1>3, <1>5 DEF DoRead, pins
<1>6. CASE phase = 4
  BY <1>1, <1>2, <1>3, <1>6 DEF DoRead
<1>7. CASE phase >= 8
  BY <1>1, <1>2, <1>3, <1>7 DEF DoRead, Drive
<1> QED
  BY <1>1, <1>4, <1>5, <1>6, <1>7 DEF PhaseCap

\* One clock of the controller, whatever its inputs are.
LEMMA ControllerStep ==
  ASSUME ControllerTypeOK, PinInv,
         NEW wr, NEW rd, NEW dc, NEW data, NEW ml_busy, NEW fifo_empty, NEW word, NEW line,
         ~(wr /\ rd), dc \in {0, 1}, data \in Nat, word \in Nat, line \in LineValues,
         ControllerClock(wr, rd, dc, data, ml_busy, fifo_empty, word, line)
  PROVE  /\ ControllerTypeOK' /\ PinInv'
         /\ wrn = 0 => csn' = 0 /\ dcn' = dcn /\ d' = d
<1>1. /\ Halfword(data) \in LineValues /\ NEW_FRAME_CMD \in LineValues
      /\ <<"lo", word>> \in LineValues /\ <<"hi", curr_word>> \in LineValues
  BY LineValue DEF Halfword, NEW_FRAME_CMD, ControllerTypeOK
<1>2. dcn \in {0, 1}
  BY DEF ControllerTypeOK
<1>a. CASE InIdle(wr, rd, dc, data, ml_busy)
  <2>1. UNCHANGED <<lsrddata, fiford, curr_word>>
    BY <1>a DEF InIdle
  <2>2. CASE wr /\ data # RESET_CODE
    <3>1. DoWrite(dc, Halfword(data)) /\ ctl_state = "IDLE"
      BY <1>a, <2>2 DEF InIdle
    <3>2. ctl_state' = IF ml_busy THEN "NEW_FRAME" ELSE Written("WRITE", "IDLE")
      BY <1>a, <2>2 DEF InIdle
    <3> QED
      BY <1>1, <2>1, <3>1, <3>2, WriteStep DEF ControllerTypeOK, PinInv, Written, WriteStates
  <2>3. CASE ~(wr /\ data # RESET_CODE)
    BY <1>a, <2>1, <2>3 DEF InIdle, pins, ControllerTypeOK, PinInv, WriteStates
  <2> QED BY <2>2, <2>3
<1>b. CASE InResetLcd
  BY <1>b DEF InResetLcd, pins, ControllerTypeOK, PinInv, WriteStates, PhaseCap
<1>c. CASE InWrite(data)
  BY <1>1, <1>2, <1>c, WriteStep DEF InWrite, ControllerTypeOK, PinInv, Written, WriteStates
<1>d. CASE InRead(line)
  <2>1. CASE ctl_state = "READ_DUMMY" /\ DoRead("READ", line)
    BY <2>1, ReadStep DEF ControllerTypeOK, PinInv, WriteStates
  <2>2. CASE ctl_state = "READ" /\ DoRead("IDLE", line)
    BY <2>2, ReadStep DEF ControllerTypeOK, PinInv, WriteStates
  <2> QED BY <1>d, <2>1, <2>2 DEF InRead
<1>e. CASE InNewFrame
  BY <1>1, <1>e, WriteStep DEF InNewFrame, ControllerTypeOK, PinInv, Written, WriteStates
<1>f. CASE InWaitFifo(fifo_empty, ml_busy)
  BY <1>f DEF InWaitFifo, pins, ControllerTypeOK, PinInv, WriteStates
<1>g. CASE InWaitFifoRd
  BY <1>g DEF InWaitFifoRd, pins, ControllerTypeOK, PinInv, WriteStates
<1>h. CASE InWritePixel(word)
  BY <1>1, <1>h, WriteStep DEF InWritePixel, ControllerTypeOK, PinInv, Written, WriteStates
<1>i. CASE InWritePixelSecond
  BY <1>1, <1>i, WriteStep DEF InWritePixelSecond, ControllerTypeOK, PinInv, Written, WriteStates
<1> QED
  BY <1>a, <1>b, <1>c, <1>d, <1>e, <1>f, <1>g, <1>h, <1>i DEF ControllerClock

\* The controller enters a frame when it is idle and sees the master busy, and
\* leaves it when it sees the FIFO empty and the master not busy.
LEMMA ControllerFrame ==
  ASSUME NEW wr, NEW rd, NEW dc, NEW data, NEW ml_busy \in BOOLEAN, NEW fifo_empty \in BOOLEAN,
         NEW word, NEW line, ControllerTypeOK, fiford = 1 => ctl_state = "WAIT_FIFO_RD",
         ControllerClock(wr, rd, dc, data, ml_busy, fifo_empty, word, line)
  PROVE  /\ ctl_state = "IDLE" /\ ml_busy => ctl_state' = "NEW_FRAME"
         /\ ctl_state = "IDLE" /\ ~ml_busy => ctl_state' \notin FrameStates
         /\ ctl_state = "IDLE" /\ ~ml_busy /\ ~wr /\ ~rd => ctl_state' = "IDLE"
         /\ ctl_state \notin FrameStates /\ ctl_state # "IDLE" => ctl_state' \notin FrameStates
         /\ ctl_state \in FrameStates /\ ctl_state' \notin FrameStates =>
              ctl_state = "WAIT_FIFO" /\ fifo_empty /\ ~ml_busy
         /\ fiford' = 1 =>
              ctl_state = "WAIT_FIFO" /\ ctl_state' = "WAIT_FIFO_RD" /\ ~fifo_empty /\ fiford # 1
<1>a. CASE InIdle(wr, rd, dc, data, ml_busy)
  BY <1>a DEF InIdle, Written, FrameStates
<1>b. CASE InResetLcd
  BY <1>b DEF InResetLcd, FrameStates
<1>c. CASE InWrite(data)
  BY <1>c DEF InWrite, Written, FrameStates
<1>d. CASE InRead(line)
  BY <1>d DEF InRead, DoRead, FrameStates
<1>e. CASE InNewFrame
  BY <1>e DEF InNewFrame, Written, FrameStates
<1>f. CASE InWaitFifo(fifo_empty, ml_busy)
  BY <1>f DEF InWaitFifo, FrameStates
<1>g. CASE InWaitFifoRd
  BY <1>g DEF InWaitFifoRd, FrameStates
<1>h. CASE InWritePixel(word)
  BY <1>h DEF InWritePixel, Written, FrameStates
<1>i. CASE InWritePixelSecond
  BY <1>i DEF InWritePixelSecond, Written, FrameStates
<1> QED
  BY <1>a, <1>b, <1>c, <1>d, <1>e, <1>f, <1>g, <1>h, <1>i DEF ControllerClock

=============================================================================
