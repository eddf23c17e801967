---------------------------- MODULE LcdDmaProofs ----------------------------
(***************************************************************************)
(* Proofs about LcdDma, for every FIFO, burst length, memory and user of   *)
(* the path.  DmaInv is inductive; the promises of LcdDma follow from it.  *)
(***************************************************************************)
EXTENDS LcdDma, LcdPartsProofs

USE FifoAssumption, BurstAssumption, RoomForBurst

----------------------------------------------------------------------------

LEMMA InitInv == DmaInit => DmaInv
BY DEF DmaInit, MasterInit, FifoInit, MemoryInit, DmaInv, DmaTypeOK, MasterTypeOK,
       FifoTypeOK, NoWordMissed, WordsInOrder, FifoBound, CountersReset

(* One clock of the path, whatever its user and the memory do. *)
LEMMA ClockInv ==
  ASSUME DmaInv,
         NEW start \in BOOLEAN, NEW fifo_rd \in BOOLEAN,
         NEW waitrequest \in BOOLEAN, NEW valid \in BOOLEAN,
         NEW address \in Nat, NEW length \in Nat,
         DmaClock(start, address, length, fifo_rd, waitrequest, valid)
  PROVE  DmaInv'
<1> DEFINE rd == AM_Rd(FIFO_Almost_Full)
           wr == FIFO_Wr(valid)
<1>1. /\ MasterClock(start, address, length, FIFO_Almost_Full, waitrequest, valid)
      /\ FifoClock(wr, mem_next, fifo_rd)
      /\ MemoryClock(rd, waitrequest, valid)
  BY DEF DmaClock
<1>2. /\ MasterTypeOK /\ FifoTypeOK
      /\ mem_next \in Nat /\ mem_left \in 0..BurstLength
      /\ NoWordMissed /\ WordsInOrder /\ FifoBound /\ CountersReset
  BY DEF DmaInv, DmaTypeOK
<1>3. wr \in BOOLEAN
  BY DEF FIFO_Wr
<1>4. /\ FifoTypeOK'
      /\ Len(fifo) \in Nat /\ Len(fifo)' \in Nat
      /\ Len(fifo)' <= Len(fifo) + 1
      /\ ~wr => Len(fifo)' <= Len(fifo)
  BY <1>1, <1>2, <1>3, FifoStep
\* A clock on which the memory neither takes a request nor sends a word, and the
\* master changes none of its counters but between READING and IDLE.
<1>5. ASSUME ~(rd /\ ~waitrequest), ~valid, ~wr
      PROVE  mem_next' = mem_next /\ mem_left' = mem_left /\ Len(fifo)' <= Len(fifo)
  BY <1>1, <1>4, <1>5 DEF MemoryClock, memVars
<1>6. mst_state # "RECEIVING" => ~valid /\ ~wr
  BY <1>1, <1>2 DEF MemoryClock, NoWordMissed, FIFO_Wr
<1> USE DEF DmaInv, DmaTypeOK, MasterTypeOK, NoWordMissed, WordsInOrder, FifoBound, CountersReset
<1>a. CASE Idle(start)
  BY <1>2, <1>4, <1>5, <1>6, <1>a DEF Idle, mstVars, AM_Rd
<1>b. CASE StartFrame(start, address, length)
  BY <1>2, <1>4, <1>5, <1>6, <1>b DEF StartFrame, AM_Rd
<1>c. CASE EndFrame
  BY <1>2, <1>4, <1>5, <1>6, <1>c DEF EndFrame, AM_Rd
<1>d. CASE AwaitBurst(FIFO_Almost_Full, waitrequest)
  BY <1>2, <1>4, <1>5, <1>6, <1>d DEF AwaitBurst, mstVars, AM_Rd
<1>e. CASE StartBurst(FIFO_Almost_Full, waitrequest)
  <2>1. rd /\ ~waitrequest /\ ~FIFO_Almost_Full
    BY <1>e DEF StartBurst, AM_Rd
  <2>2. mem_next' = mst_addr /\ mem_left' = BurstLength
    BY <1>1, <2>1 DEF MemoryClock
  <2>3. Len(fifo)' < AlmostFull
    BY <1>2, <1>4, <1>6, <1>e, <2>1 DEF StartBurst, AM_Rd, FIFO_Almost_Full
  <2> QED
    BY <1>2, <1>4, <1>e, <2>2, <2>3 DEF StartBurst, AM_Rd
<1>f. CASE ReceiveWord(valid)
  <2>1. ~rd /\ (wr <=> valid)
    BY <1>f DEF ReceiveWord, AM_Rd, FIFO_Wr
  <2>2. CASE valid
    <3>1. mem_next' = mem_next + 4 /\ mem_left' = mem_left - 1 /\ mem_left > 0
      BY <1>1, <2>1, <2>2 DEF MemoryClock
    <3> QED
      BY <1>2, <1>4, <1>f, <2>2, <3>1 DEF ReceiveWord
  <2>3. CASE ~valid
    BY <1>2, <1>4, <1>5, <1>f, <2>1, <2>3 DEF ReceiveWord
  <2> QED BY <2>2, <2>3
<1>g. CASE EndBurst
  <2>1. ~rd /\ ~wr /\ mem_left = 0
    BY <1>2, <1>g DEF EndBurst, AM_Rd, FIFO_Wr
  <2>2. ~valid
    BY <1>1, <2>1 DEF MemoryClock
  <2> QED
    BY <1>2, <1>4, <1>5, <1>g, <2>1, <2>2 DEF EndBurst
<1> QED
  BY <1>1, <1>a, <1>b, <1>c, <1>d, <1>e, <1>f, <1>g DEF MasterClock

LEMMA StutterInv == DmaInv /\ UNCHANGED dmaVars => DmaInv'
BY DEF DmaInv, DmaTypeOK, MasterTypeOK, FifoTypeOK, NoWordMissed, WordsInOrder,
       FifoBound, CountersReset, dmaVars, mstVars, fifoVars, memVars

(* The DMA path keeps its inductive invariant, and with it its types. *)
THEOREM DmaInvariant == DmaSpec => []DmaInv
<1>1. DmaInv /\ [DmaNext]_dmaVars => DmaInv'
  <2> SUFFICES ASSUME DmaInv, [DmaNext]_dmaVars PROVE DmaInv'
    OBVIOUS
  <2>1. CASE DmaNext
    <3>1. PICK start \in BOOLEAN, fifo_rd \in BOOLEAN, waitrequest \in BOOLEAN,
               valid \in BOOLEAN, address \in FrameAddresses, length \in FrameLengths :
            DmaClock(start, address, length, fifo_rd, waitrequest, valid)
      BY <2>1 DEF DmaNext
    <3>2. address \in Nat /\ length \in Nat
      BY FrameAssumption
    <3> QED BY <3>1, <3>2, ClockInv
  <2>2. CASE UNCHANGED dmaVars
    BY <2>2, StutterInv
  <2> QED BY <2>1, <2>2
<1> QED
  BY InitInv, <1>1, PTL DEF DmaSpec

----------------------------------------------------------------------------

LEMMA InvNoOverflow == DmaInv => FifoNeverOverflows
<1> SUFFICES ASSUME DmaInv, mst_state = "RECEIVING", mem_left > 0
             PROVE  ~FIFO_Full
  BY DEF FifoNeverOverflows
<1>1. word_counter < BurstLength /\ word_counter \in Nat
  BY DEF DmaInv, DmaTypeOK, MasterTypeOK, NoWordMissed
<1>2. Len(fifo) < AlmostFull + word_counter /\ Len(fifo) \in Nat
  BY DEF DmaInv, DmaTypeOK, FifoTypeOK, FifoBound
<1> QED
  BY <1>1, <1>2 DEF FIFO_Full

(* No word from memory is lost to a full FIFO, for every depth, threshold and *)
(* burst length with room for a burst above the threshold.                    *)
THEOREM NoOverflow == DmaSpec => []FifoNeverOverflows
BY DmaInvariant, InvNoOverflow, PTL

(* No word is dropped by the master, and each comes in its place. *)
THEOREM NoWordLost == DmaSpec => [](NoWordMissed /\ WordsInOrder)
<1>1. DmaInv => NoWordMissed /\ WordsInOrder
  BY DEF DmaInv
<1> QED
  BY DmaInvariant, <1>1, PTL

(* The words come in the order of their addresses, each the one the master is  *)
(* waiting for (lcd_master.vhd:124-142).                                       *)
THEOREM InOrder == DmaSpec => []WordsInOrder
BY NoWordLost, PTL

(* A read request is held until the memory takes it (lcd_master.vhd:114-122). *)
LEMMA ClockHoldsRead ==
  ASSUME DmaInv,
         NEW start \in BOOLEAN, NEW fifo_rd \in BOOLEAN,
         NEW waitrequest \in BOOLEAN, NEW valid \in BOOLEAN,
         NEW address \in Nat, NEW length \in Nat,
         DmaClock(start, address, length, fifo_rd, waitrequest, valid),
         AM_Rd(FIFO_Almost_Full), mem_left' = 0
  PROVE  AM_Rd(FIFO_Almost_Full)' /\ mst_addr' = mst_addr
<1>1. /\ mst_state = "READING" /\ ~AllBurstsDone /\ ~FIFO_Almost_Full
      /\ mem_left = 0
  BY DEF AM_Rd, DmaInv, NoWordMissed
<1>2. waitrequest
  BY DEF DmaClock, MemoryClock
<1>3. UNCHANGED mstVars
  BY <1>1, <1>2 DEF DmaClock, MasterClock, Idle, StartFrame, EndFrame, AwaitBurst, StartBurst,
                    ReceiveWord, EndBurst
<1>4. ~FIFO_Wr(valid)
  BY <1>1 DEF FIFO_Wr
<1>5. Len(fifo)' <= Len(fifo) /\ Len(fifo)' \in Nat /\ Len(fifo) \in Nat
  <2>1. FifoTypeOK /\ mem_next \in Nat /\ FIFO_Wr(valid) \in BOOLEAN
    BY DEF DmaInv, DmaTypeOK, FIFO_Wr
  <2>2. FifoClock(FIFO_Wr(valid), mem_next, fifo_rd)
    BY DEF DmaClock
  <2> QED BY <1>4, <2>1, <2>2, FifoStep
<1> QED
  BY <1>1, <1>3, <1>5 DEF mstVars, AM_Rd, AllBurstsDone, FIFO_Almost_Full

THEOREM ReadHeld == DmaSpec => ReadHeldUntilAccepted
<1>1. DmaInv /\ [DmaNext]_dmaVars
        => [ AM_Rd(FIFO_Almost_Full) /\ mem_left' = 0
               => AM_Rd(FIFO_Almost_Full)' /\ mst_addr' = mst_addr ]_dmaVars
  <2> SUFFICES ASSUME DmaInv, DmaNext, AM_Rd(FIFO_Almost_Full), mem_left' = 0
               PROVE  AM_Rd(FIFO_Almost_Full)' /\ mst_addr' = mst_addr
    OBVIOUS
  <2>1. PICK start \in BOOLEAN, fifo_rd \in BOOLEAN, waitrequest \in BOOLEAN,
             valid \in BOOLEAN, address \in FrameAddresses, length \in FrameLengths :
          DmaClock(start, address, length, fifo_rd, waitrequest, valid)
    BY DEF DmaNext
  <2>2. address \in Nat /\ length \in Nat
    BY FrameAssumption
  <2> QED BY <2>1, <2>2, ClockHoldsRead
<1> QED
  BY DmaInvariant, <1>1, PTL DEF DmaSpec, ReadHeldUntilAccepted

============================================================================
