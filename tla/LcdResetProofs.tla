--------------------------- MODULE LcdResetProofs ---------------------------
(***************************************************************************)
(* Proofs about LcdReset, for every bus master, every memory, every FIFO   *)
(* with room for a burst above its threshold, and resets at any clock.     *)
(***************************************************************************)
EXTENDS LcdReset, LcdPartsProofs

USE FifoAssumption, BurstAssumption, RoomForBurst

LEMMA InitInv == Init => ResetInv /\ Resynchronises
<1> SUFFICES ASSUME Init PROVE ResetInv /\ Resynchronises
  OBVIOUS
<1>1. SlaveTypeOK
  BY DefaultFits DEF Init, SlaveInit, SlaveTypeOK
<1>2. FifoTypeOK /\ MasterTypeOK
  BY DEF Init, FifoInit, MasterInit, FifoTypeOK, MasterTypeOK
<1>3. ControllerTypeOK
  BY DEF Init, ControllerInit, ControllerTypeOK, LineValues, HighZ, PhaseCap
<1>4. TypeOK
  <2>1. owed \in Seq(Nat)
    BY DEF Init
  <2> QED
    BY <1>1, <1>2, <1>3, <2>1 DEF Init, TypeOK
<1>5. PinInv
  BY DEF Init, ControllerInit, PinInv
<1>6. HandOver
  BY DEF Init, ControllerInit, SlaveInit, MasterInit, FifoInit, HandOver, FrameStates
<1>7. FifoBound /\ WordsToCome /\ Resynchronises
  BY DEF Init, FifoInit, MasterInit, FifoBound, WordsToCome, Resynchronises
<1> QED
  BY <1>4, <1>5, <1>6, <1>7 DEF ResetInv

----------------------------------------------------------------------------
(* One clock. *)

LEMMA Inputs ==
  ASSUME TypeOK
  PROVE  /\ ~(LS_Wr(bus) /\ LS_Rd(bus)) /\ LS_DC_n(bus) \in {0, 1}
         /\ bus.data \in Nat /\ LS_WrData(bus) \in Nat /\ D \in LineValues
         /\ ML_Busy \in BOOLEAN /\ FIFO_Empty \in BOOLEAN /\ LS_Busy \in BOOLEAN
<1>1. bus.data \in Nat
  BY ResetAssumption DEF TypeOK, NoRequest
<1>2. LS_WrData(bus) \in Nat
  BY <1>1, DataLines
<1>3. D \in LineValues
  BY LineValue DEF D, TypeOK, ControllerTypeOK
<1> QED
  BY <1>1, <1>2, <1>3 DEF LS_Wr, LS_Rd, LS_DC_n, ML_Busy, FIFO_Empty, LS_Busy

LEMMA NoneAwaited ==
  ASSUME NEW n \in Nat, NEW k \in 0..n, 0 >= n - k PROVE k = n
OBVIOUS

LEMMA Concatenation ==
  ASSUME NEW s \in Seq(Nat), NEW t \in Seq(Nat)
  PROVE  /\ s \o t \in Seq(Nat) /\ Len(s \o t) = Len(s) + Len(t)
         /\ \A i \in 1..Len(s) + Len(t) :
              (s \o t)[i] = IF i <= Len(s) THEN s[i] ELSE t[i - Len(s)]
OBVIOUS

\* On a clock: the memory takes a burst, the memory sends a word.
Taken(waitrequest) == AM_Rd(FIFO_Almost_Full) /\ ~waitrequest
Sent(valid) == IF valid THEN 1 ELSE 0

\* The words owed, seen as a sequence: a word sent goes from its head, a burst
\* taken comes to its end.
LEMMA MemoryStep ==
  ASSUME owed \in Seq(Nat), MasterTypeOK, NEW waitrequest \in BOOLEAN, NEW valid \in BOOLEAN,
         MemoryClock(waitrequest, valid)
  PROVE  /\ owed' \in Seq(Nat)
         /\ valid => owed # << >> /\ Head(owed) \in Nat
         /\ Len(owed') = Len(owed) - Sent(valid) + (IF Taken(waitrequest) THEN BurstLength ELSE 0)
         /\ \A i \in 1..Len(owed') :
              owed'[i] = IF i <= Len(owed) - Sent(valid) THEN owed[i + Sent(valid)]
                         ELSE mst_addr + 4 * (i - (Len(owed) - Sent(valid)) - 1)
<1> DEFINE kept == IF valid THEN Tail(owed) ELSE owed
<1>1. /\ valid => owed # << >>
      /\ owed' = IF Taken(waitrequest) THEN kept \o Burst ELSE kept
  BY DEF MemoryClock, Taken
<1>2. /\ kept \in Seq(Nat) /\ Len(kept) = Len(owed) - Sent(valid)
      /\ \A i \in 1..Len(kept) : kept[i] = owed[i + Sent(valid)]
      /\ valid => Head(owed) \in Nat
  <2>1. CASE valid
    <3>1. kept = Tail(owed) /\ Sent(valid) = 1 /\ owed # << >>
      BY <1>1, <2>1 DEF Sent
    <3> HIDE DEF kept
    <3>2. kept \in Seq(Nat) /\ Len(kept) = Len(owed) - 1 /\ Head(owed) \in Nat
      BY <3>1
    <3>3. \A i \in 1..Len(kept) : kept[i] = owed[i + 1]
      BY <3>1, <3>2
    <3> QED
      BY <3>1, <3>2, <3>3
  <2>2. CASE ~valid
    BY <2>2 DEF Sent
  <2> QED BY <2>1, <2>2
<1>3. /\ Burst \in Seq(Nat) /\ Len(Burst) = BurstLength
      /\ \A i \in 1..BurstLength : Burst[i] = mst_addr + 4 * (i - 1)
  BY DEF Burst, MasterTypeOK
<1> HIDE DEF kept
<1>4. CASE Taken(waitrequest)
  <2>1. owed' = kept \o Burst
    BY <1>1, <1>4
  <2>2. owed' \in Seq(Nat) /\ Len(owed') = Len(kept) + BurstLength
    BY <1>2, <1>3, <2>1, Concatenation
  <2>3. \A i \in 1..Len(owed') :
          owed'[i] = IF i <= Len(kept) THEN kept[i] ELSE Burst[i - Len(kept)]
    <3>1. \A i \in 1..Len(kept) + Len(Burst) :
            (kept \o Burst)[i] = IF i <= Len(kept) THEN kept[i] ELSE Burst[i - Len(kept)]
      BY <1>2, <1>3, Concatenation
    <3> QED
      BY <1>3, <2>1, <2>2, <3>1
  <2>4. ASSUME NEW i \in 1..Len(owed')
        PROVE  owed'[i] = IF i <= Len(owed) - Sent(valid) THEN owed[i + Sent(valid)]
                          ELSE mst_addr + 4 * (i - (Len(owed) - Sent(valid)) - 1)
    <3>1. CASE i <= Len(kept)
      BY <1>2, <2>3, <3>1
    <3>2. CASE ~(i <= Len(kept))
      <4>1. i - Len(kept) \in 1..BurstLength
        BY <1>2, <2>2, <3>2
      <4> QED
        BY <1>2, <1>3, <2>3, <3>2, <4>1
    <3> QED BY <3>1, <3>2
  <2> QED
    BY <1>1, <1>2, <1>4, <2>2, <2>4
<1>5. CASE ~Taken(waitrequest)
  <2>1. owed' = kept
    BY <1>1, <1>5
  <2> QED
    BY <1>1, <1>2, <1>5, <2>1
<1> QED
  BY <1>4, <1>5

\* What the components are fed on a clock, and what they do with it.
LEMMA Parts ==
  ASSUME TypeOK, NEW waitrequest \in BOOLEAN, NEW valid \in BOOLEAN,
         LcdClock(waitrequest, valid)
  PROVE  /\ SlaveClock(bus, LS_Busy)
         /\ MasterClock(MS_StartDMA(bus, LS_Busy), bus.data, len_reg, FIFO_Almost_Full,
                        waitrequest, valid)
         /\ \E word \in Nat : FifoClock(FIFO_Wr(valid), word, fiford = 1)
         /\ ControllerClock(LS_Wr(bus), LS_Rd(bus), LS_DC_n(bus), LS_WrData(bus),
                            ML_Busy, FIFO_Empty, fifo_q, D)
         /\ MemoryClock(waitrequest, valid)
<1>1. MemoryClock(waitrequest, valid)
  BY DEF LcdClock
<1>2. (IF valid THEN Head(owed) ELSE 0) \in Nat
  BY <1>1, MemoryStep DEF TypeOK
<1> QED
  BY <1>1, <1>2 DEF LcdClock

LEMMA ClockTypes ==
  ASSUME TypeOK, PinInv, NEW waitrequest \in BOOLEAN, NEW valid \in BOOLEAN,
         LcdClock(waitrequest, valid)
  PROVE  TypeOK' /\ PinInv'
<1>1. SlaveTypeOK /\ FifoTypeOK /\ MasterTypeOK /\ ControllerTypeOK /\ fifo_q \in Nat
  BY DEF TypeOK, FifoTypeOK
<1>2. SlaveTypeOK'
  BY <1>1, Inputs, Parts, SlaveStep
<1>3. FifoTypeOK'
  <2>1. PICK word \in Nat : FifoClock(FIFO_Wr(valid), word, fiford = 1)
    BY Parts
  <2>2. FIFO_Wr(valid) \in BOOLEAN /\ (fiford = 1) \in BOOLEAN
    BY DEF FIFO_Wr
  <2> QED
    BY <1>1, <2>1, <2>2, FifoStep
<1>4. MasterTypeOK'
  <2>1. bus.data \in Nat /\ len_reg \in Nat
    BY <1>1, Inputs DEF SlaveTypeOK
  <2> QED
    BY <1>1, <2>1, Parts
       DEF MasterTypeOK, MasterClock, Idle, StartFrame, EndFrame, AwaitBurst, StartBurst,
           ReceiveWord, EndBurst, mstVars
<1>5. ControllerTypeOK' /\ PinInv'
  BY <1>1, Inputs, Parts, ControllerStep
<1>6. owed' \in Seq(Nat)
  BY <1>1, Parts, MemoryStep DEF TypeOK
<1>7. /\ bus' \in Requests \cup {NoRequest}
      /\ fouled' \in BOOLEAN /\ late' \in BOOLEAN
  BY DEF TypeOK, LcdClock
<1> QED
  BY <1>2, <1>3, <1>4, <1>5, <1>6, <1>7 DEF TypeOK

\* What Resynchronises says of words and burst.
InStep ==
  /\ Len(owed) = IF mst_state = "RECEIVING" THEN BurstLength - word_counter ELSE 0
  /\ \A i \in 1..Len(owed) : owed[i] = mst_addr + 4 * (word_counter + i - 1)

\* The words: the FIFO never grows past its bound, what is owed covers what is
\* awaited, and once in step they stay in step.
LEMMA ClockWords ==
  ASSUME TypeOK, FifoBound, WordsToCome, Resynchronises,
         NEW waitrequest \in BOOLEAN, NEW valid \in BOOLEAN, LcdClock(waitrequest, valid)
  PROVE  FifoBound' /\ WordsToCome' /\ Resynchronises'
<1> DEFINE rd   == AM_Rd(FIFO_Almost_Full)
           wr   == FIFO_Wr(valid)
           sent == Sent(valid)
           start == MS_StartDMA(bus, LS_Busy)
<1>1. MasterTypeOK /\ owed \in Seq(Nat) /\ late \in BOOLEAN /\ FifoTypeOK
  BY DEF TypeOK
<1>2. /\ owed' \in Seq(Nat)
      /\ valid => owed # << >>
      /\ Len(owed') = Len(owed) - sent + (IF rd /\ ~waitrequest THEN BurstLength ELSE 0)
      /\ \A i \in 1..Len(owed') :
           owed'[i] = IF i <= Len(owed) - sent THEN owed[i + sent]
                      ELSE mst_addr + 4 * (i - (Len(owed) - sent) - 1)
  BY <1>1, Parts, MemoryStep DEF Taken
<1>3. /\ Len(fifo) \in Nat /\ Len(fifo)' \in Nat
      /\ Len(fifo)' <= Len(fifo) + 1
      /\ ~wr => Len(fifo)' <= Len(fifo)
  <2>1. PICK word \in Nat : FifoClock(wr, word, fiford = 1)
    BY Parts
  <2>2. wr \in BOOLEAN /\ (fiford = 1) \in BOOLEAN
    BY DEF FIFO_Wr
  <2> QED
    BY <1>1, <2>1, <2>2, FifoStep
<1>4. /\ Len(owed) \in Nat /\ Len(owed') \in Nat /\ sent \in {0, 1}
      /\ valid => Len(owed) > 0 /\ sent = 1
      /\ ~valid => sent = 0
      /\ owed' # << >> \/ Len(owed') = 0
  BY <1>1, <1>2 DEF Sent
<1>5. MasterClock(start, bus.data, len_reg, FIFO_Almost_Full, waitrequest, valid)
  BY Parts
<1>6. late' = (late /\ owed' # << >>)
  BY DEF LcdClock
<1>7. ~late => InStep
  BY DEF Resynchronises, InStep
<1>8. (FifoBound' /\ WordsToCome' /\ (InStep => InStep'))
        => FifoBound' /\ WordsToCome' /\ Resynchronises'
  <2> SUFFICES ASSUME WordsToCome', InStep => InStep', ~late' PROVE InStep'
    BY DEF Resynchronises, InStep
  <2>1. CASE ~late
    BY <1>7, <2>1
  <2>2. CASE late
    <3>1. Len(owed') = 0
      BY <1>4, <1>6, <2>2
    <3>2. MasterTypeOK'
      BY <1>1, <1>5, Inputs
         DEF MasterTypeOK, MasterClock, Idle, StartFrame, EndFrame, AwaitBurst, StartBurst,
             ReceiveWord, EndBurst, mstVars, TypeOK, SlaveTypeOK
    <3>3. mst_state' = "RECEIVING" => BurstLength - word_counter' = 0
      <4>1. word_counter' \in 0..BurstLength
        BY <3>2 DEF MasterTypeOK
      <4>2. mst_state' = "RECEIVING" => Len(owed') >= BurstLength - word_counter'
        BY DEF WordsToCome
      <4>3. mst_state' = "RECEIVING" => word_counter' = BurstLength
        BY <3>1, <4>1, <4>2, NoneAwaited
      <4> QED
        BY <4>3
    <3>4. \A i \in 1..Len(owed') : FALSE
      BY <3>1
    <3>5. Len(owed') = IF mst_state' = "RECEIVING" THEN BurstLength - word_counter' ELSE 0
      BY <3>1, <3>3
    <3> QED
      BY <3>4, <3>5 DEF InStep
  <2> QED BY <1>1, <2>1, <2>2
<1> HIDE DEF sent
<1> USE DEF MasterTypeOK, FifoBound, WordsToCome, InStep
<1>a. CASE Idle(start)
  BY <1>1, <1>2, <1>3, <1>4, <1>8, <1>a DEF Idle, mstVars, AM_Rd, FIFO_Wr
<1>b. CASE StartFrame(start, bus.data, len_reg)
  BY <1>1, <1>2, <1>3, <1>4, <1>8, <1>b DEF StartFrame, AM_Rd, FIFO_Wr
<1>c. CASE EndFrame
  BY <1>1, <1>2, <1>3, <1>4, <1>8, <1>c DEF EndFrame, AM_Rd, FIFO_Wr
<1>d. CASE AwaitBurst(FIFO_Almost_Full, waitrequest)
  BY <1>1, <1>2, <1>3, <1>4, <1>8, <1>d DEF AwaitBurst, mstVars, AM_Rd, FIFO_Wr
<1>e. CASE StartBurst(FIFO_Almost_Full, waitrequest)
  <2>1. rd /\ ~waitrequest /\ ~FIFO_Almost_Full /\ ~wr
    BY <1>e DEF StartBurst, AM_Rd, FIFO_Wr
  <2>2. FifoBound'
    BY <1>1, <1>3, <1>e, <2>1 DEF StartBurst, AM_Rd, FIFO_Almost_Full
  <2>3. WordsToCome'
    BY <1>1, <1>2, <1>4, <1>e, <2>1 DEF StartBurst, AM_Rd
  <2>4. ASSUME InStep PROVE InStep'
    <3>1. Len(owed) = 0 /\ sent = 0 /\ word_counter = 0
      BY <1>1, <1>4, <1>e, <2>1, <2>4 DEF AM_Rd
    <3>2. UNCHANGED <<mst_addr, word_counter>> /\ mst_state' = "RECEIVING"
      BY <1>e DEF StartBurst
    <3> QED
      BY <1>1, <1>2, <1>4, <2>1, <3>1, <3>2
  <2> QED BY <1>8, <2>2, <2>3, <2>4
<1>f. CASE ReceiveWord(valid)
  <2>1. /\ ~rd /\ (wr <=> valid)
        /\ mst_state = "RECEIVING" /\ word_counter # BurstLength
        /\ word_counter' = word_counter + sent
        /\ UNCHANGED <<mst_state, mst_addr>>
    BY <1>1, <1>4, <1>f DEF ReceiveWord, AM_Rd, FIFO_Wr
  <2>2. FifoBound'
    BY <1>1, <1>3, <1>4, <2>1
  <2>3. WordsToCome'
    BY <1>1, <1>2, <1>4, <2>1
  <2>4. ASSUME InStep PROVE InStep'
    <3>1. Len(owed') = Len(owed) - sent /\ \A i \in 1..Len(owed') : owed'[i] = owed[i + sent]
      BY <1>2, <1>4, <2>1
    <3>2. ASSUME NEW i \in 1..Len(owed')
          PROVE  owed'[i] = mst_addr + 4 * (word_counter + sent + i - 1)
      <4>1. i + sent \in 1..Len(owed)
        BY <1>4, <3>1, <3>2
      <4>2. owed[i + sent] = mst_addr + 4 * (word_counter + (i + sent) - 1)
        BY <2>4, <4>1
      <4> QED BY <1>1, <1>4, <3>1, <3>2, <4>2
    <3> QED
      BY <1>1, <1>4, <2>1, <2>4, <3>1, <3>2
  <2> QED BY <1>8, <2>2, <2>3, <2>4
<1>g. CASE EndBurst
  <2>1. /\ ~rd /\ ~wr /\ mst_state = "RECEIVING" /\ word_counter = BurstLength
        /\ mst_state' = "READING" /\ word_counter' = 0
    BY <1>g DEF EndBurst, AM_Rd, FIFO_Wr
  <2>2. FifoBound' /\ WordsToCome'
    BY <1>1, <1>3, <2>1
  <2>3. ASSUME InStep PROVE InStep'
    <3>1. Len(owed) = 0
      BY <1>1, <2>1, <2>3
    <3> QED
      BY <1>2, <1>4, <2>1, <3>1
  <2> QED BY <1>8, <2>2, <2>3
<1> QED
  BY <1>5, <1>a, <1>b, <1>c, <1>d, <1>e, <1>f, <1>g DEF MasterClock


\* A frame passes from the slave to the master to the controller and comes back in
\* the reverse order, and the controller gives it back with the FIFO empty.
LEMMA ClockHandOver ==
  ASSUME TypeOK, HandOver, NEW waitrequest \in BOOLEAN, NEW valid \in BOOLEAN,
         LcdClock(waitrequest, valid)
  PROVE  HandOver'
<1> DEFINE start == MS_StartDMA(bus, LS_Busy)
<1>1. /\ SlaveTypeOK /\ MasterTypeOK /\ ControllerTypeOK /\ fifo \in Seq(Nat)
      /\ fouled \in BOOLEAN
      /\ LS_Busy \in BOOLEAN /\ ML_Busy \in BOOLEAN /\ FIFO_Empty \in BOOLEAN
  BY Inputs DEF TypeOK, FifoTypeOK
<1>2. /\ fiford = 1 => ctl_state = "WAIT_FIFO_RD"
      /\ mst_state # "IDLE" \/ ctl_state \in FrameStates => dma_state = "ADDRESS"
      /\ dma_state # "ADDRESS" => dma_waitbusy = 1
      /\ ctl_state \notin FrameStates => mst_state # "RECEIVING" /\ (fouled \/ fifo = << >>)
      /\ ctl_state \notin FrameStates /\ mst_state = "READING"
           => ctl_state = "IDLE" /\ dma_waitbusy = 1
      /\ mst_state \in {"IDLE", "READING", "RECEIVING"}
      /\ "IDLE" \notin FrameStates
  BY <1>1 DEF HandOver, MasterTypeOK, FrameStates
<1>3. /\ start => dma_state = "IDLE" /\ dma_state' = "ADDRESS" /\ ctl_state = "IDLE"
                    /\ dma_waitbusy' = 1 /\ ~LS_Wr(bus) /\ ~LS_Rd(bus)
      /\ dma_state = "ADDRESS" /\ dma_state' # "ADDRESS" =>
           ctl_state = "IDLE" /\ dma_waitbusy = 0
      /\ dma_state' # "ADDRESS" => dma_waitbusy' = 1
  BY <1>1, <1>2, Parts, SlaveFrame DEF LS_Busy
<1>4. /\ mst_state = "IDLE" => mst_state' = IF start THEN "READING" ELSE "IDLE"
      /\ mst_state = "READING" /\ ~ML_Busy => mst_state' = "IDLE"
      /\ mst_state' = "RECEIVING" => ML_Busy
  BY <1>1, Parts, MasterFrame
<1>5. /\ ctl_state = "IDLE" /\ ML_Busy => ctl_state' = "NEW_FRAME"
      /\ ctl_state = "IDLE" /\ ~ML_Busy => ctl_state' \notin FrameStates
      /\ ctl_state = "IDLE" /\ ~ML_Busy /\ ~LS_Wr(bus) /\ ~LS_Rd(bus) => ctl_state' = "IDLE"
      /\ ctl_state \notin FrameStates /\ ctl_state # "IDLE" => ctl_state' \notin FrameStates
      /\ ctl_state \in FrameStates /\ ctl_state' \notin FrameStates =>
           ctl_state = "WAIT_FIFO" /\ FIFO_Empty /\ ~ML_Busy
      /\ fiford' = 1 =>
           ctl_state = "WAIT_FIFO" /\ ctl_state' = "WAIT_FIFO_RD" /\ ~FIFO_Empty /\ fiford # 1
  BY <1>1, <1>2, Parts, ControllerFrame
<1>6. /\ mst_state # "RECEIVING" /\ fifo = << >> => fifo' = << >>
      /\ fiford # 1 /\ fifo # << >> => fifo' # << >>
  BY <1>1, Parts, FifoFrame DEF FIFO_Wr
<1>7. ML_Busy => mst_state # "IDLE"
  BY DEF ML_Busy
<1>8. ctl_state # "WAIT_FIFO" => fouled' = fouled
  BY <1>1 DEF LcdClock, EndsFrame
\* The pop reaches a FIFO that still holds a word.
<1>a. fiford' = 1 => ctl_state' = "WAIT_FIFO_RD" /\ fifo' # << >>
  BY <1>5, <1>6 DEF FIFO_Empty
\* The slave's machine outlasts the frame.
<1>b. mst_state' # "IDLE" \/ ctl_state' \in FrameStates => dma_state' = "ADDRESS"
  <2>1. CASE start
    BY <1>3, <2>1
  <2>2. CASE ~start /\ dma_state = "ADDRESS" /\ dma_state' # "ADDRESS"
    BY <1>2, <1>3, <1>4, <1>5, <1>7, <2>2
  <2>3. CASE ~start /\ dma_state # "ADDRESS"
    BY <1>2, <1>4, <1>5, <1>7, <2>3
  <2> QED
    BY <2>1, <2>2, <2>3
\* The controller leaves with nothing behind it.
<1>c. CASE ctl_state \in FrameStates /\ ctl_state' \notin FrameStates
  <2>1. fifo' = << >> /\ mst_state' = "IDLE"
    <3>1. ctl_state = "WAIT_FIFO" /\ fifo = << >> /\ ~ML_Busy
      BY <1>5, <1>c DEF FIFO_Empty
    <3>2. mst_state # "RECEIVING" /\ ~start
      BY <1>2, <1>3, <3>1 DEF ML_Busy
    <3> QED
      BY <1>2, <1>4, <1>6, <3>1, <3>2
  <2> QED
    BY <1>3, <1>a, <1>b, <2>1 DEF HandOver
\* Without a frame nothing comes into the FIFO.
<1>d. CASE ctl_state \notin FrameStates /\ ctl_state' \notin FrameStates
  <2>1. ~ML_Busy /\ ctl_state # "WAIT_FIFO"
    BY <1>2, <1>5, <1>d DEF ML_Busy, FrameStates
  <2>2. (fouled' \/ fifo' = << >>) /\ mst_state' # "RECEIVING"
    BY <1>2, <1>4, <1>6, <1>8, <1>d, <2>1
  <2>3. mst_state' = "READING" => start
    BY <1>2, <1>4, <1>d, <2>1
  <2> QED
    BY <1>3, <1>5, <1>a, <1>b, <2>1, <2>2, <2>3 DEF HandOver
<1>e. CASE ctl_state' \in FrameStates
  BY <1>3, <1>a, <1>b, <1>e DEF HandOver
<1> QED
  BY <1>c, <1>d, <1>e

----------------------------------------------------------------------------
(* A reset. *)

LEMMA ResetStep ==
  ASSUME TypeOK, FifoBound, WordsToCome, Resynchronises, Reset
  PROVE  ResetInv' /\ Resynchronises'
<1>1. /\ MasterTypeOK /\ FifoTypeOK /\ ControllerTypeOK /\ owed \in Seq(Nat)
      /\ UNCHANGED <<fifo, fifo_q>>
  BY DEF TypeOK, Reset, fifoVars
<1>2. SlaveTypeOK' /\ MasterTypeOK' /\ FifoTypeOK'
  <2>1. /\ slave_state' = "IDLE" /\ waitbusy' = 1 /\ addr_reg' = 0 /\ len_reg' = DefaultLength
        /\ isbusy' = FALSE /\ dma_state' = "IDLE" /\ dma_waitbusy' = 1
    BY DEF Reset
  <2>2. /\ mst_state' = "IDLE" /\ mst_addr' = 0 /\ mst_len' = 0
        /\ burst_counter' = 0 /\ word_counter' = 0
    BY DEF Reset, ResetMaster
  <2>3. SlaveTypeOK'
    BY <2>1, DefaultFits DEF SlaveTypeOK
  <2>4. MasterTypeOK'
    BY <2>2 DEF MasterTypeOK
  <2>5. FifoTypeOK'
    BY <1>1 DEF FifoTypeOK
  <2> QED
    BY <2>3, <2>4, <2>5
<1>3. ControllerTypeOK'
  <2>1. /\ ctl_state' = "IDLE" /\ phase' = 0 /\ fiford' = 0 /\ curr_word' = curr_word
        /\ dcn' = 1 /\ wrn' = 1 /\ rdn' = 1 /\ csn' = 1
        /\ d' = <<"Z", 0>> /\ lsrddata' = <<"panel", 0>>
    BY DEF Reset, Drive, HighZ
  <2>2. d' \in LineValues /\ lsrddata' \in LineValues
    BY <2>1, LineValue
  <2>3. curr_word \in Nat
    BY <1>1 DEF ControllerTypeOK
  <2> QED
    BY <2>1, <2>2, <2>3 DEF ControllerTypeOK, PhaseCap
<1>4. owed' \in Seq(Nat) /\ bus' \in Requests \cup {NoRequest}
  <2>1. owed' = owed \/ owed' = << >>
    BY DEF Reset
  <2>2. bus' = NoRequest
    BY DEF Reset
  <2>3. << >> \in Seq(Nat)
    OBVIOUS
  <2> QED
    BY <1>1, <2>1, <2>2, <2>3, Zenon
<1>5. fouled' \in BOOLEAN /\ late' \in BOOLEAN
  BY DEF Reset
<1>6. TypeOK'
  BY <1>2, <1>3, <1>4, <1>5 DEF TypeOK
<1>7. PinInv'
  <2>1. wrn' = 1 /\ rdn' = 1 /\ d' = HighZ
    BY DEF Reset, Drive
  <2> QED
    BY <2>1 DEF PinInv
<1>8. HandOver'
  <2>1. /\ mst_state' = "IDLE" /\ ctl_state' = "IDLE" /\ fiford' = 0 /\ dma_waitbusy' = 1
        /\ fouled' \/ fifo' = << >>
    BY <1>1 DEF Reset, ResetMaster
  <2>2. "IDLE" \notin FrameStates
    BY DEF FrameStates
  <2> QED
    BY <2>1, <2>2 DEF HandOver
<1>9. FifoBound' /\ WordsToCome'
  <2>1. Len(fifo) \in Nat /\ word_counter \in 0..BurstLength
    BY <1>1 DEF FifoTypeOK, MasterTypeOK
  <2>2. Len(fifo) < AlmostFull + BurstLength
    BY <2>1 DEF FifoBound
  <2>3. mst_state' = "IDLE" /\ word_counter' = 0 /\ fifo' = fifo
    BY <1>1 DEF Reset, ResetMaster
  <2> QED
    BY <2>2, <2>3 DEF FifoBound, WordsToCome
<1>10. Resynchronises'
  <2>1. ~late' => owed' = << >>
    BY DEF Reset
  <2>2. Len(<< >>) = 0
    OBVIOUS
  <2>3. mst_state' = "IDLE"
    BY DEF Reset, ResetMaster
  <2> QED
    BY <2>1, <2>2, <2>3 DEF Resynchronises
<1> QED
  BY <1>6, <1>7, <1>8, <1>9, <1>10 DEF ResetInv

LEMMA ResetInvStep ==
  ResetInv /\ Resynchronises /\ [Next]_vars => ResetInv' /\ Resynchronises'
<1> SUFFICES ASSUME ResetInv, Resynchronises, [Next]_vars
             PROVE  ResetInv' /\ Resynchronises'
  OBVIOUS
<1>1. TypeOK /\ PinInv /\ FifoBound /\ WordsToCome /\ HandOver
  BY DEF ResetInv
<1>2. CASE ClockEdge
  <2>1. PICK waitrequest \in BOOLEAN, valid \in BOOLEAN : LcdClock(waitrequest, valid)
    BY <1>2 DEF ClockEdge
  <2> QED
    BY <1>1, <2>1, ClockTypes, ClockWords, ClockHandOver DEF ResetInv
<1>3. CASE Reset
  BY <1>1, <1>3, ResetStep
<1>4. CASE UNCHANGED vars
  <2> USE <1>4 DEF vars, slaveVars, busVars, irqVars, fifoVars, mstVars, ctlVars, pins
  <2>1. TypeOK'
    BY <1>1 DEF TypeOK, SlaveTypeOK, FifoTypeOK, MasterTypeOK, ControllerTypeOK
  <2>2. PinInv' /\ FifoBound' /\ WordsToCome'
    BY <1>1 DEF PinInv, FifoBound, WordsToCome
  <2>3. HandOver'
    BY <1>1 DEF HandOver
  <2>4. Resynchronises'
    BY DEF Resynchronises
  <2> QED
    BY <2>1, <2>2, <2>3, <2>4 DEF ResetInv
<1> QED
  BY <1>2, <1>3, <1>4 DEF Next

----------------------------------------------------------------------------
(* The theorems. *)

(* Resets at any clock, as often as one likes, leave the inductive invariant of *)
(* slave, FIFO, master and controller standing, their types among it.           *)
THEOREM ResetInvariant == Spec => []ResetInv
<1>1. Init => ResetInv /\ Resynchronises
  BY InitInv
<1>2. ResetInv /\ Resynchronises /\ [Next]_vars => (ResetInv /\ Resynchronises)'
  BY ResetInvStep
<1> QED
  BY <1>1, <1>2, PTL DEF Spec

(* A word that was owed before a reset never makes the FIFO, which a reset does *)
(* not clear (lcd_fifo.vhd:113), run over.                                      *)
THEOREM ResetNoOverflow == Spec => []FifoNeverOverflows
<1>1. ResetInv => FifoNeverOverflows
  <2> SUFFICES ASSUME ResetInv, mst_state = "RECEIVING", word_counter # BurstLength
               PROVE  ~FIFO_Full
    BY DEF FifoNeverOverflows
  <2>1. word_counter < BurstLength /\ word_counter \in Nat
    BY DEF ResetInv, TypeOK, MasterTypeOK
  <2>2. Len(fifo) < AlmostFull + word_counter /\ Len(fifo) \in Nat
    BY DEF ResetInv, TypeOK, FifoTypeOK, FifoBound
  <2> QED
    BY <2>1, <2>2 DEF FIFO_Full
<1> QED
  BY ResetInvariant, <1>1, PTL

(* One frame after a reset drains the FIFO of all the reset left in it: the     *)
(* controller leaves its frame only with the FIFO empty (lcd_controller.vhd:239). *)
THEOREM FrameDrains == Spec => []OneFrameDrains
<1>1. ResetInv => OneFrameDrains
  BY DEF ResetInv, HandOver, OneFrameDrains, LS_Busy, FIFO_Empty, FrameStates
<1> QED
  BY ResetInvariant, <1>1, PTL

(* When the last word from before a reset has come, words and bursts are in     *)
(* step again (lcd_master.vhd:124-142).                                         *)
THEOREM Resync == Spec => []Resynchronises
<1>1. Init => ResetInv /\ Resynchronises
  BY InitInv
<1>2. ResetInv /\ Resynchronises /\ [Next]_vars => (ResetInv /\ Resynchronises)'
  BY ResetInvStep
<1> QED
  BY <1>1, <1>2, PTL DEF Spec

=============================================================================
