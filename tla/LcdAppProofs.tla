---------------------------- MODULE LcdAppProofs ----------------------------
(***************************************************************************)
(* Proofs about LcdApp: what the program has asked for is, on every clock, *)
(* what the state of the hardware will still give the panel.  So the panel *)
(* gets exactly that, and LcdApp implements the safety part of Display.    *)
(***************************************************************************)
EXTENDS LcdApp, LcdTopProofs, SequenceTheorems

----------------------------------------------------------------------------
(* Sequences of transfers. *)

Transfers == {0, 1} \X LineValues

LEMMA HeadTailOfOne ==
  ASSUME NEW S, NEW x \in S, NEW s \in Seq(S)
  PROVE  /\ <<x>> \o s \in Seq(S) /\ <<x>> \o s # << >>
         /\ Head(<<x>> \o s) = x /\ Tail(<<x>> \o s) = s
<1> DEFINE t == <<x>> \o s
<1>1. <<x>> \in Seq(S) /\ Len(<<x>>) = 1 /\ <<x>>[1] = x /\ Len(s) \in Nat
  OBVIOUS
<1>2. /\ t \in Seq(S) /\ Len(t) = 1 + Len(s)
      /\ \A i \in 1..(1 + Len(s)) : t[i] = IF i <= 1 THEN <<x>>[i] ELSE s[i - 1]
  BY <1>1, ConcatProperties
<1> HIDE DEF t
<1>3. t # << >> /\ t[1] = x
  BY <1>1, <1>2
<1>4. Tail(t) \in Seq(S) /\ Len(Tail(t)) = Len(s) /\ Head(t) = x
  BY <1>1, <1>2, <1>3
<1>5. \A i \in 1..Len(s) : Tail(t)[i] = s[i]
  BY <1>1, <1>2, <1>3
<1>6. Tail(t) = s
  BY <1>4, <1>5, SeqEqual
<1> QED
  BY <1>2, <1>3, <1>4, <1>6 DEF t

LEMMA HeadTailOfTwo ==
  ASSUME NEW S, NEW x \in S, NEW y \in S, NEW s \in Seq(S)
  PROVE  /\ <<x, y>> \o s \in Seq(S) /\ <<x, y>> \o s # << >>
         /\ Head(<<x, y>> \o s) = x /\ Tail(<<x, y>> \o s) = <<y>> \o s
<1>1. <<x>> \in Seq(S) /\ <<y>> \in Seq(S) /\ <<y>> \o s \in Seq(S)
  OBVIOUS
<1>2. <<x, y>> = <<x>> \o <<y>>
  <2>1. /\ <<x, y>> \in Seq(S) /\ Len(<<x, y>>) = 2
        /\ <<x, y>>[1] = x /\ <<x, y>>[2] = y
    OBVIOUS
  <2>2. Len(<<x>>) = 1 /\ Len(<<y>>) = 1 /\ <<x>>[1] = x /\ <<y>>[1] = y
    OBVIOUS
  <2>3. /\ <<x>> \o <<y>> \in Seq(S) /\ Len(<<x>> \o <<y>>) = 2
        /\ (<<x>> \o <<y>>)[1] = x /\ (<<x>> \o <<y>>)[2] = y
    BY <1>1, <2>2, ConcatProperties
  <2>4. \A i \in 1..2 : i = 1 \/ i = 2
    OBVIOUS
  <2> QED
    BY <2>1, <2>3, <2>4, SeqEqual
<1>3. <<x, y>> \o s = <<x>> \o (<<y>> \o s)
  BY <1>1, <1>2, ConcatAssociative
<1> QED
  BY <1>1, <1>3, HeadTailOfOne

\* A frame's pixels are those of its first word, low half first, and of the rest.
LEMMA PixelsOfWords ==
  ASSUME NEW address \in Nat, NEW n \in Nat
  PROVE  /\ Promise!Pixels(address, n) \in Seq(Transfers)
         /\ n = 0 => Promise!Pixels(address, n) = << >>
         /\ n > 0 => Promise!Pixels(address, n) =
                       <<Promise!Pixel("lo", address), Promise!Pixel("hi", address)>>
                         \o Promise!Pixels(address + 4, n - 1)
<1>1. \A half \in {"lo", "hi"}, a \in Nat : Promise!Pixel(half, a) \in Transfers
  BY LineValue DEF Promise!Pixel, Transfers
<1>2. \A a \in Nat, k \in Nat :
        /\ Promise!Pixels(a, k) \in Seq(Transfers)
        /\ Len(Promise!Pixels(a, k)) = 2 * k
        /\ \A i \in 1..(2 * k) : Promise!Pixels(a, k)[i] =
             Promise!Pixel(IF i % 2 = 1 THEN "lo" ELSE "hi", a + 4 * ((i - 1) \div 2))
  <2> SUFFICES ASSUME NEW a \in Nat, NEW k \in Nat
               PROVE  /\ Promise!Pixels(a, k) \in Seq(Transfers)
                      /\ Len(Promise!Pixels(a, k)) = 2 * k
                      /\ \A i \in 1..(2 * k) : Promise!Pixels(a, k)[i] =
                           Promise!Pixel(IF i % 2 = 1 THEN "lo" ELSE "hi", a + 4 * ((i - 1) \div 2))
    OBVIOUS
  <2> DEFINE p(i) == Promise!Pixel(IF i % 2 = 1 THEN "lo" ELSE "hi", a + 4 * ((i - 1) \div 2))
  <2>1. \A i \in 1..(2 * k) : p(i) \in Transfers
    <3> SUFFICES ASSUME NEW i \in 1..(2 * k) PROVE p(i) \in Transfers
      OBVIOUS
    <3>1. a + 4 * ((i - 1) \div 2) \in Nat
      OBVIOUS
    <3> QED
      BY <1>1, <3>1
  <2>2. Promise!Pixels(a, k) = [i \in 1..(2 * k) |-> p(i)]
    BY DEF Promise!Pixels
  <2> HIDE DEF p
  <2>3. 2 * k \in Nat
    OBVIOUS
  <2>4. [i \in 1..(2 * k) |-> p(i)] \in Seq(Transfers)
    BY <2>1, <2>3
  <2>5. Len([i \in 1..(2 * k) |-> p(i)]) = 2 * k
    BY <2>3
  <2> QED
    BY <2>2, <2>4, <2>5 DEF p
<1> DEFINE lo == Promise!Pixel("lo", address)
           hi == Promise!Pixel("hi", address)
           all == Promise!Pixels(address, n)
           rest == Promise!Pixels(address + 4, n - 1)
<1>3. CASE n = 0
  BY <1>2, <1>3
<1>4. CASE n > 0
  <2>1. n - 1 \in Nat /\ address + 4 \in Nat
    BY <1>4
  <2>2. /\ rest \in Seq(Transfers) /\ Len(rest) = 2 * (n - 1)
        /\ all \in Seq(Transfers) /\ Len(all) = 2 * n
    BY <1>2, <2>1
  <2>3. <<lo, hi>> \in Seq(Transfers) /\ Len(<<lo, hi>>) = 2
        /\ <<lo, hi>>[1] = lo /\ <<lo, hi>>[2] = hi
    <3>1. lo \in Transfers /\ hi \in Transfers
      BY <1>1
    <3> HIDE DEF lo, hi
    <3> QED
      BY <3>1
  <2>4. /\ <<lo, hi>> \o rest \in Seq(Transfers)
        /\ Len(<<lo, hi>> \o rest) = 2 * n
        /\ \A i \in 1..(2 * n) : (<<lo, hi>> \o rest)[i] =
             IF i <= 2 THEN <<lo, hi>>[i] ELSE rest[i - 2]
    <3> HIDE DEF lo, hi, rest
    <3>1. 2 + 2 * (n - 1) = 2 * n
      OBVIOUS
    <3> QED
      BY <2>2, <2>3, <3>1, ConcatProperties
  <2>5. ASSUME NEW i \in 1..(2 * n) PROVE all[i] = (<<lo, hi>> \o rest)[i]
    <3>1. all[i] = Promise!Pixel(IF i % 2 = 1 THEN "lo" ELSE "hi", address + 4 * ((i - 1) \div 2))
      BY <1>2
    <3>2. CASE i = 1
      <4>1. i % 2 = 1 /\ address + 4 * ((i - 1) \div 2) = address
        BY <3>2
      <4> QED
        BY <2>3, <2>4, <3>1, <3>2, <4>1
    <3>3. CASE i = 2
      <4>1. i % 2 = 0 /\ address + 4 * ((i - 1) \div 2) = address
        BY <3>3
      <4> QED
        BY <2>3, <2>4, <3>1, <3>3, <4>1
    <3>4. CASE i > 2
      <4>1. i - 2 \in 1..(2 * (n - 1))
        BY <3>4
      <4>2. rest[i - 2] = Promise!Pixel(IF (i - 2) % 2 = 1 THEN "lo" ELSE "hi",
                                        address + 4 + 4 * ((i - 2 - 1) \div 2))
        BY <1>2, <2>1, <4>1
      <4>3. (i - 2) % 2 = i % 2 /\ address + 4 + 4 * ((i - 2 - 1) \div 2) = address + 4 * ((i - 1) \div 2)
        BY <3>4
      <4>4. all[i] = rest[i - 2]
        BY <3>1, <4>2, <4>3
      <4>5. (<<lo, hi>> \o rest)[i] = rest[i - 2]
        <5> HIDE DEF lo, hi, rest
        <5> QED
          BY <2>4, <3>4
      <4> QED
        BY <4>4, <4>5
    <3>5. i = 1 \/ i = 2 \/ i > 2
      OBVIOUS
    <3> HIDE DEF lo, hi, rest, all
    <3> QED
      BY <3>2, <3>3, <3>4, <3>5
  <2>6. all = <<lo, hi>> \o rest
    <3> HIDE DEF lo, hi, rest, all
    <3> QED
      BY <2>2, <2>4, <2>5, SeqEqual
  <2> QED
    BY <1>4, <2>2, <2>6
<1> QED
  BY <1>3, <1>4

----------------------------------------------------------------------------
(* The words of a frame: from the memory, through the FIFO, to the controller. *)

\* The lengths of the master's frame fit together.
WholeFrame ==
  /\ mst_state # "IDLE" => mst_len % BurstLength = 0 /\ BurstLength * burst_counter <= mst_len
  /\ mst_state = "RECEIVING" => BurstLength * (burst_counter + 1) <= mst_len

LEMMA WordsLeft ==
  ASSUME DmaInv, WholeFrame
  PROVE  WordsToCome \in Nat /\ (mst_state = "READING" /\ AllBurstsDone => WordsToCome = 0)
<1>1. /\ mst_len \in Nat /\ burst_counter \in Nat /\ word_counter \in 0..BurstLength
      /\ BurstLength \in Nat \ {0} /\ mst_state \in {"IDLE", "READING", "RECEIVING"}
      /\ mst_state # "RECEIVING" => word_counter = 0
  BY BurstAssumption DEF DmaInv, DmaTypeOK, MasterTypeOK, CountersReset
<1>2. BurstLength * burst_counter \in Nat
      /\ BurstLength * (burst_counter + 1) = BurstLength * burst_counter + BurstLength
  BY <1>1
<1>3. CASE mst_state = "IDLE"
  BY <1>3 DEF WordsToCome
<1>4. CASE mst_state = "RECEIVING"
  BY <1>1, <1>2, <1>4 DEF WordsToCome, WholeFrame
<1>5. CASE mst_state = "READING"
  <2>1. mst_len = BurstLength * (mst_len \div BurstLength)
    <3>1. mst_len % BurstLength = 0
      BY <1>5 DEF WholeFrame
    <3> QED
      BY <1>1, <3>1
  <2> QED
    BY <1>1, <1>2, <1>5, <2>1 DEF WordsToCome, WholeFrame, AllBurstsDone
<1> QED
  BY <1>1, <1>3, <1>4, <1>5

\* The master moves on by a word when it writes one to the FIFO, and else stays
\* in its place, from burst to burst and to the end of the frame.
LEMMA MasterWords ==
  ASSUME DmaInv, WholeFrame,
         NEW start \in BOOLEAN, NEW address \in Nat, NEW length \in Nat,
         NEW almost_full \in BOOLEAN, NEW waitrequest \in BOOLEAN, NEW valid \in BOOLEAN,
         MasterClock(start, address, length, almost_full, waitrequest, valid),
         start => mst_state = "IDLE" /\ length % BurstLength = 0
  PROVE  /\ WholeFrame'
         /\ start => /\ mst_state' = "READING" /\ mst_len' = length
                     /\ burst_counter' = 0 /\ word_counter' = 0
                     /\ NextToCome' = address /\ WordsToCome' = length
         /\ ~start => /\ NextToCome' = NextToCome + (IF FIFO_Wr(valid) THEN 4 ELSE 0)
                      /\ WordsToCome' = WordsToCome - (IF FIFO_Wr(valid) THEN 1 ELSE 0)
<1>1. /\ mst_len \in Nat /\ burst_counter \in Nat /\ word_counter \in 0..BurstLength
      /\ BurstLength \in Nat \ {0} /\ mst_state \in {"IDLE", "READING", "RECEIVING"}
      /\ mst_state # "RECEIVING" => word_counter = 0
      /\ mst_state = "IDLE" => burst_counter = 0
      /\ mst_addr \in Nat
  BY BurstAssumption DEF DmaInv, DmaTypeOK, MasterTypeOK, CountersReset
<1>2. /\ BurstLength * burst_counter \in Nat
      /\ BurstLength * (burst_counter + 1) = BurstLength * burst_counter + BurstLength
      /\ BurstLength * 0 = 0
  BY <1>1
<1> USE DEF NextToCome, WordsToCome, WholeFrame, FIFO_Wr
<1>a. CASE Idle(start)
  BY <1>1, <1>a DEF Idle, mstVars
<1>b. CASE StartFrame(start, address, length)
  BY <1>1, <1>2, <1>b DEF StartFrame
<1>c. CASE EndFrame
  <2>1. WordsToCome = 0 /\ ~start
    BY <1>c, WordsLeft DEF EndFrame
  <2> QED
    BY <1>1, <1>c, <2>1 DEF EndFrame
<1>d. CASE AwaitBurst(almost_full, waitrequest)
  BY <1>1, <1>d DEF AwaitBurst, mstVars
<1>e. CASE StartBurst(almost_full, waitrequest)
  <2>1. BurstLength * (burst_counter + 1) <= mst_len
    <3>1. mst_state = "READING" /\ burst_counter # mst_len \div BurstLength
      BY <1>e DEF StartBurst, AM_Rd, AllBurstsDone
    <3>2. mst_len % BurstLength = 0 /\ BurstLength * burst_counter <= mst_len
      BY <3>1
    <3>3. mst_len = BurstLength * (mst_len \div BurstLength) /\ mst_len \div BurstLength \in Nat
      BY <1>1, <3>2
    <3>4. burst_counter < mst_len \div BurstLength
      BY <1>1, <3>1, <3>2, <3>3
    <3> QED
      BY <1>1, <3>3, <3>4
  <2> QED
    BY <1>1, <1>e, <2>1 DEF StartBurst, AM_Rd
<1>f. CASE ReceiveWord(valid)
  BY <1>1, <1>2, <1>f DEF ReceiveWord
<1>g. CASE EndBurst
  BY <1>1, <1>2, <1>g DEF EndBurst
<1> QED
  BY <1>a, <1>b, <1>c, <1>d, <1>e, <1>f, <1>g DEF MasterClock

\* The words in the FIFO are a run of words of the frame, and the next to come
\* is the one after them.
Ordered == \A i \in 1..Len(fifo) : fifo[i] = NextWord + 4 * (i - 1)

LEMMA FifoWords ==
  ASSUME fifo \in Seq(Nat), fifo_q \in Nat, Ordered, NextToCome \in Nat, NextWord \in Nat,
         NEW wr \in BOOLEAN, NEW rd \in BOOLEAN, FifoClock(wr, NextToCome, rd),
         rd => fifo # << >>, wr => ~FIFO_Full,
         NextToCome' = NextToCome + (IF wr THEN 4 ELSE 0)
  PROVE  /\ Ordered' /\ NextWord' \in Nat
         /\ Len(fifo') = Len(fifo) - (IF rd THEN 1 ELSE 0) + (IF wr THEN 1 ELSE 0)
         /\ NextWord' = NextWord + (IF rd THEN 4 ELSE 0)
         /\ fifo_q' = IF rd THEN NextWord ELSE fifo_q
<1> DEFINE kept == IF rd THEN Tail(fifo) ELSE fifo
<1>1. /\ fifo' = IF wr THEN Append(kept, NextToCome) ELSE kept
      /\ fifo_q' = IF rd THEN Head(fifo) ELSE fifo_q
  BY DEF FifoClock, FIFO_Empty
<1>2. Len(fifo) \in Nat /\ (rd => Len(fifo) > 0)
  OBVIOUS
<1>3. NextWord = NextToCome - 4 * Len(fifo) /\ NextWord' = NextToCome' - 4 * Len(fifo')
  BY DEF NextWord
<1>4. /\ kept \in Seq(Nat) /\ Len(kept) = Len(fifo) - (IF rd THEN 1 ELSE 0)
      /\ \A i \in 1..Len(kept) : kept[i] = NextWord + (IF rd THEN 4 ELSE 0) + 4 * (i - 1)
  <2>1. CASE rd
    <3>1. kept \in Seq(Nat) /\ Len(kept) = Len(fifo) - 1
      BY <1>2, <2>1
    <3>2. ASSUME NEW i \in 1..Len(kept) PROVE kept[i] = NextWord + 4 + 4 * (i - 1)
      <4>1. kept[i] = fifo[i + 1] /\ i + 1 \in 1..Len(fifo)
        BY <1>2, <2>1, <3>1
      <4>2. fifo[i + 1] = NextWord + 4 * ((i + 1) - 1)
        BY <4>1 DEF Ordered
      <4> QED
        BY <3>1, <4>1, <4>2
    <3> QED
      BY <2>1, <3>1, <3>2
  <2>2. CASE ~rd
    BY <1>2, <2>2 DEF Ordered
  <2> QED
    BY <2>1, <2>2
<1> HIDE DEF kept
<1>5. Head(fifo) = NextWord \/ ~rd
  BY <1>2 DEF Ordered
<1>6. /\ fifo' \in Seq(Nat)
      /\ Len(fifo') = Len(kept) + (IF wr THEN 1 ELSE 0)
      /\ \A i \in 1..Len(fifo') : fifo'[i] = IF i <= Len(kept) THEN kept[i] ELSE NextToCome
  <2>1. CASE wr
    BY <1>1, <1>4, <2>1
  <2>2. CASE ~wr
    BY <1>1, <1>4, <2>2
  <2> QED
    BY <2>1, <2>2
<1>7. Len(kept) \in Nat /\ Len(fifo') \in Nat
  BY <1>4, <1>6
<1>8. NextWord' = NextWord + (IF rd THEN 4 ELSE 0) /\ NextToCome' \in Nat
  <2>1. CASE wr /\ rd
    BY <1>2, <1>3, <1>4, <1>6, <1>7, <2>1
  <2>2. CASE wr /\ ~rd
    BY <1>2, <1>3, <1>4, <1>6, <1>7, <2>2
  <2>3. CASE ~wr /\ rd
    BY <1>2, <1>3, <1>4, <1>6, <1>7, <2>3
  <2>4. CASE ~wr /\ ~rd
    BY <1>2, <1>3, <1>4, <1>6, <1>7, <2>4
  <2> QED
    BY <2>1, <2>2, <2>3, <2>4
<1>9. ASSUME NEW i \in 1..Len(fifo') PROVE fifo'[i] = NextWord' + 4 * (i - 1)
  <2>1. CASE i <= Len(kept)
    BY <1>4, <1>6, <1>7, <1>8, <2>1
  <2>2. CASE i > Len(kept)
    <3>1. i = Len(kept) + 1
      BY <1>6, <1>7, <2>2
    <3>2. wr /\ fifo'[i] = NextToCome
      BY <1>6, <1>7, <2>2
    <3>3. NextWord' = NextWord + 4 * (Len(fifo) - Len(kept)) /\ Len(kept) \in Nat
      BY <1>2, <1>4, <1>7, <1>8
    <3>4. NextWord' = NextToCome - 4 * Len(kept)
      BY <1>2, <1>3, <3>3
    <3> QED
      BY <3>1, <3>2, <3>3, <3>4
  <2> QED
    BY <1>7, <2>1, <2>2
<1>10. Ordered'
  BY <1>9 DEF Ordered
<1>11. NextWord' \in Nat
  BY <1>8
<1>12. Len(fifo') = Len(fifo) - (IF rd THEN 1 ELSE 0) + (IF wr THEN 1 ELSE 0)
  BY <1>4, <1>6
<1>13. fifo_q' = IF rd THEN NextWord ELSE fifo_q
  BY <1>1, <1>5
<1> QED
  BY <1>8, <1>10, <1>11, <1>12, <1>13

\* The pixels of the words to come.
Words == Promise!Pixels(NextWord, Len(fifo) + WordsToCome)

LEMMA WordsType ==
  ASSUME TopInv, FrameWords
  PROVE  /\ Ordered /\ WholeFrame /\ NextWord \in Nat /\ NextToCome \in Nat
         /\ Len(fifo) \in Nat /\ WordsToCome \in Nat
         /\ Words \in Seq(Transfers)
         /\ fifo = << >> /\ mst_state = "IDLE" => Words = << >>
<1>1. Ordered /\ WholeFrame /\ NextWord \in Nat
  BY DEF FrameWords, Ordered, WholeFrame
<1>2. fifo \in Seq(Nat) /\ mst_addr \in Nat /\ word_counter \in Nat
  BY DEF TopInv, DmaInv, DmaTypeOK, FifoTypeOK, MasterTypeOK
<1>3. NextToCome \in Nat /\ Len(fifo) \in Nat
  BY <1>2 DEF NextToCome
<1>4. WordsToCome \in Nat
  BY <1>1, WordsLeft DEF TopInv
<1>5. Len(fifo) + WordsToCome \in Nat
  BY <1>3, <1>4
<1>6. Words \in Seq(Transfers)
  BY <1>1, <1>5, PixelsOfWords DEF Words
<1>7. ASSUME fifo = << >>, mst_state = "IDLE" PROVE Words = << >>
  <2>1. Len(fifo) + WordsToCome = 0
    BY <1>7 DEF WordsToCome
  <2>2. Words = Promise!Pixels(NextWord, 0)
    BY <2>1 DEF Words
  <2> QED
    BY <1>1, <2>2, PixelsOfWords
<1> QED
  BY <1>1, <1>3, <1>4, <1>6, <1>7

\* One clock: the words to come are those of the frame that starts, or as before
\* but for the word that is popped.
LEMMA WordsStep ==
  ASSUME TopInv, FrameWords, NEW waitrequest \in BOOLEAN, NEW valid \in BOOLEAN,
         LcdClock(waitrequest, valid), len_reg % BurstLength = 0
  PROVE  /\ Ordered' /\ WholeFrame' /\ NextWord' \in Nat
         /\ StartDMA =>
              /\ mst_state' = "READING" /\ mst_len' = len_reg
              /\ burst_counter' = 0 /\ word_counter' = 0
              /\ Words' = Promise!Pixels(bus.data, len_reg)
         /\ ~StartDMA /\ fiford # 1 => Words' = Words /\ fifo_q' = fifo_q
         /\ ~StartDMA /\ fiford = 1 =>
              /\ fifo_q' = NextWord
              /\ Words' \in Seq(Transfers)
              /\ Words = <<Promise!Pixel("lo", NextWord), Promise!Pixel("hi", NextWord)>> \o Words'
<1>1. /\ MasterClock(StartDMA, bus.data, len_reg, FIFO_Almost_Full, waitrequest, valid)
      /\ FifoClock(FIFO_Wr(valid), mem_next, fiford = 1)
      /\ MemoryClock(AM_Rd(FIFO_Almost_Full), waitrequest, valid)
  BY DEF LcdClock, DmaClock
<1>2. /\ DmaInv /\ TypeOK /\ HandOver
      /\ fifo \in Seq(Nat) /\ fifo_q \in Nat /\ len_reg \in Nat /\ bus.data \in Nat
  BY BusType DEF TopInv, DmaInv, DmaTypeOK, FifoTypeOK, TypeOK, SlaveTypeOK
<1>3. /\ Ordered /\ WholeFrame /\ NextWord \in Nat /\ NextToCome \in Nat
      /\ Len(fifo) \in Nat /\ WordsToCome \in Nat
  BY WordsType
<1>4. StartDMA \in BOOLEAN /\ FIFO_Almost_Full \in BOOLEAN /\ (fiford = 1) \in BOOLEAN
      /\ FIFO_Wr(valid) \in BOOLEAN
  BY DEF StartDMA, MS_StartDMA, FIFO_Almost_Full, FIFO_Wr
<1>5. StartDMA => mst_state = "IDLE" /\ ctl_state = "IDLE"
  BY InvStart DEF StartFindsMasterIdle, StartDMA, MS_StartDMA, LS_Busy
<1>6. /\ WholeFrame'
      /\ StartDMA => /\ mst_state' = "READING" /\ mst_len' = len_reg
                     /\ burst_counter' = 0 /\ word_counter' = 0
                     /\ NextToCome' = bus.data /\ WordsToCome' = len_reg
      /\ ~StartDMA => /\ NextToCome' = NextToCome + (IF FIFO_Wr(valid) THEN 4 ELSE 0)
                      /\ WordsToCome' = WordsToCome - (IF FIFO_Wr(valid) THEN 1 ELSE 0)
  <2>1. \E start \in BOOLEAN, full \in BOOLEAN :
          /\ start <=> StartDMA
          /\ MasterClock(start, bus.data, len_reg, full, waitrequest, valid)
    BY <1>1, <1>4, Zenon
  <2> QED
    BY <1>2, <1>3, <1>5, <2>1, MasterWords
<1>7. fiford = 1 => fifo # << >>
  BY <1>2 DEF HandOver
<1>8. FIFO_Wr(valid) => ~FIFO_Full /\ mem_next = NextToCome
  <2> SUFFICES ASSUME FIFO_Wr(valid) PROVE ~FIFO_Full /\ mem_next = NextToCome
    OBVIOUS
  <2>1. mst_state = "RECEIVING" /\ mem_left > 0
    BY <1>1 DEF FIFO_Wr, MemoryClock
  <2> QED
    BY <1>2, <2>1, InvNoOverflow DEF FifoNeverOverflows, DmaInv, WordsInOrder, NextToCome
<1>a. CASE StartDMA
  <2>1. fifo = << >> /\ ~FIFO_Wr(valid)
    BY <1>2, <1>5, <1>a DEF HandOver, FrameStates, FIFO_Wr
  <2>2. fifo' = << >>
    BY <1>1, <1>2, <2>1 DEF FifoClock, FIFO_Empty
  <2>3. Len(fifo') = 0
    BY <2>2
  <2>4. Ordered'
    BY <2>3 DEF Ordered
  <2>5. NextWord' = bus.data /\ Len(fifo') + WordsToCome' = len_reg
    BY <1>2, <1>6, <1>a, <2>3 DEF NextWord
  <2> QED
    BY <1>2, <1>6, <1>a, <2>4, <2>5 DEF Words
<1>b. CASE ~StartDMA
  <2>1. FifoClock(FIFO_Wr(valid), NextToCome, fiford = 1)
    BY <1>1, <1>8 DEF FifoClock
  <2>2. NextToCome' = NextToCome + (IF FIFO_Wr(valid) THEN 4 ELSE 0)
    BY <1>6, <1>b
  <2>3. /\ Ordered' /\ NextWord' \in Nat
        /\ Len(fifo') = Len(fifo) - (IF fiford = 1 THEN 1 ELSE 0) + (IF FIFO_Wr(valid) THEN 1 ELSE 0)
        /\ NextWord' = NextWord + (IF fiford = 1 THEN 4 ELSE 0)
        /\ fifo_q' = IF fiford = 1 THEN NextWord ELSE fifo_q
    <3>1. \E wr \in BOOLEAN, rd \in BOOLEAN :
            /\ wr <=> FIFO_Wr(valid)
            /\ rd <=> (fiford = 1)
            /\ FifoClock(wr, NextToCome, rd)
      BY <1>4, <2>1, Zenon
    <3>2. PICK wr \in BOOLEAN, rd \in BOOLEAN :
            /\ wr <=> FIFO_Wr(valid)
            /\ rd <=> (fiford = 1)
            /\ FifoClock(wr, NextToCome, rd)
      BY <3>1
    <3>3. (rd => fifo # << >>) /\ (wr => ~FIFO_Full)
          /\ NextToCome' = NextToCome + (IF wr THEN 4 ELSE 0)
      BY <1>7, <1>8, <2>2, <3>2
    <3>4. /\ Ordered' /\ NextWord' \in Nat
          /\ Len(fifo') = Len(fifo) - (IF rd THEN 1 ELSE 0) + (IF wr THEN 1 ELSE 0)
          /\ NextWord' = NextWord + (IF rd THEN 4 ELSE 0)
          /\ fifo_q' = IF rd THEN NextWord ELSE fifo_q
      BY <1>2, <1>3, <3>2, <3>3, FifoWords
    <3> QED
      BY <3>2, <3>4
  <2>4. WordsToCome' = WordsToCome - (IF FIFO_Wr(valid) THEN 1 ELSE 0)
    BY <1>6, <1>b
  <2>5. Len(fifo') + WordsToCome' = Len(fifo) + WordsToCome - (IF fiford = 1 THEN 1 ELSE 0)
    <3>1. CASE FIFO_Wr(valid)
      BY <1>3, <2>3, <2>4, <3>1
    <3>2. CASE ~FIFO_Wr(valid)
      BY <1>3, <2>3, <2>4, <3>2
    <3> QED
      BY <3>1, <3>2
  <2>6. CASE fiford # 1
    <3>1. NextWord' = NextWord /\ Len(fifo') + WordsToCome' = Len(fifo) + WordsToCome
      BY <1>3, <2>3, <2>5, <2>6
    <3> QED
      BY <1>6, <1>b, <2>3, <2>6, <3>1 DEF Words
  <2>7. CASE fiford = 1
    <3>1. Len(fifo) > 0
      BY <1>2, <1>7, <2>7
    <3>2. /\ NextWord' = NextWord + 4
          /\ Len(fifo') + WordsToCome' = (Len(fifo) + WordsToCome) - 1
          /\ Len(fifo) + WordsToCome \in Nat /\ Len(fifo) + WordsToCome > 0
      BY <1>3, <2>3, <2>5, <2>7, <3>1
    <3>3. Words = <<Promise!Pixel("lo", NextWord), Promise!Pixel("hi", NextWord)>>
                    \o Promise!Pixels(NextWord + 4, (Len(fifo) + WordsToCome) - 1)
      BY <1>3, <3>2, PixelsOfWords DEF Words
    <3>4. Words' = Promise!Pixels(NextWord + 4, (Len(fifo) + WordsToCome) - 1)
      BY <3>2 DEF Words
    <3>5. Words' \in Seq(Transfers)
      <4>1. NextWord + 4 \in Nat /\ (Len(fifo) + WordsToCome) - 1 \in Nat
        BY <1>3, <3>2
      <4>2. Promise!Pixels(NextWord + 4, (Len(fifo) + WordsToCome) - 1) \in Seq(Transfers)
        BY <4>1, PixelsOfWords
      <4> QED
        BY <3>4, <4>2
    <3> QED
      BY <1>6, <1>b, <2>3, <2>7, <3>3, <3>4, <3>5
  <2> QED
    BY <2>6, <2>7
<1> QED
  BY <1>a, <1>b

----------------------------------------------------------------------------
(* What the slave and the program do on one clock. *)

LEMMA LcdAddress ==
  \A n \in 0..3 : /\ n \in {0, 1} => n # 2 /\ n # 3
                  /\ n = 2 => n \notin {0, 1} /\ n # 3
                  /\ n = 3 => n \notin {0, 1}
OBVIOUS

LEMMA SlaveNext ==
  ASSUME SlaveTypeOK, NEW as \in [op : {"none", "read", "write"}, address : 0..3, data : Nat],
         NEW busy \in BOOLEAN, SlaveClock(as, busy)
  PROVE  /\ slave_state' = IF slave_state # "IDLE"
                             THEN IF WaitEnds(busy) THEN "IDLE" ELSE slave_state
                             ELSE IF LS_Rd(as) THEN "READ"
                             ELSE IF LS_Wr(as) THEN "WRITE" ELSE "IDLE"
         /\ waitbusy' = IF slave_state = "IDLE" THEN waitbusy ELSE IF busy THEN 0 ELSE 1
         /\ len_reg' = IF slave_state = "IDLE" /\ as.op = "write" /\ as.address = 3
                         THEN as.data % LengthRange ELSE len_reg
         /\ dma_state = "IDLE" =>
              dma_state' = IF MS_StartDMA(as, busy) THEN "ADDRESS" ELSE "IDLE"
         /\ dma_state = "ADDRESS" =>
              dma_state' = IF ~busy /\ dma_waitbusy = 0 THEN "IRQ" ELSE "ADDRESS"
         /\ dma_state = "IRQ" => dma_state' = "IDLE"
         /\ dma_state = "ADDRESS" => dma_waitbusy' = IF busy THEN 0 ELSE 1
         /\ isbusy' = busy
<1>1. slave_state \in {"IDLE", "READ", "WRITE"} /\ dma_state \in {"IDLE", "ADDRESS", "IRQ"}
  BY DEF SlaveTypeOK
<1>2. /\ RegisterRead(as) \/ LcdAccess(as) \/ RegisterWrite(as) \/ AwaitLcd(busy)
      /\ AwaitAddress(as, busy) \/ AwaitFrame(busy) \/ HoldIrq
      /\ isbusy' = busy
  BY DEF SlaveClock
<1>0. as.address \in 0..3
  OBVIOUS
<1>3. /\ slave_state' = IF slave_state # "IDLE"
                          THEN IF WaitEnds(busy) THEN "IDLE" ELSE slave_state
                          ELSE IF LS_Rd(as) THEN "READ"
                          ELSE IF LS_Wr(as) THEN "WRITE" ELSE "IDLE"
      /\ waitbusy' = IF slave_state = "IDLE" THEN waitbusy ELSE IF busy THEN 0 ELSE 1
      /\ len_reg' = IF slave_state = "IDLE" /\ as.op = "write" /\ as.address = 3
                      THEN as.data % LengthRange ELSE len_reg
  <2>1. CASE RegisterRead(as)
    BY <1>1, <2>1 DEF RegisterRead, busVars, LS_Rd, LS_Wr
  <2>2. CASE LcdAccess(as)
    <3>1. CASE LS_Rd(as)
      <4>1. slave_state = "IDLE" /\ as.op # "write" /\ ~LS_Wr(as)
        BY <3>1 DEF LS_Rd, LS_Wr
      <4> QED
        BY <2>2, <3>1, <4>1 DEF LcdAccess
    <3>2. CASE LS_Wr(as)
      <4>1. slave_state = "IDLE" /\ as.op = "write" /\ as.address \in {0, 1}
        BY <3>2 DEF LS_Wr, ToLcd
      <4>2. as.address # 3
        BY <1>0, <4>1, LcdAddress, Zenon
      <4>3. ~LS_Rd(as)
        BY <4>1 DEF LS_Rd
      <4> QED
        BY <2>2, <3>2, <4>1, <4>2, <4>3 DEF LcdAccess
    <3> QED
      BY <2>2, <3>1, <3>2 DEF LcdAccess
  <2>3. CASE RegisterWrite(as)
    <3>1. slave_state = "IDLE" /\ as.op = "write" /\ as.address \in {2, 3}
      BY <2>3 DEF RegisterWrite
    <3>2. ~ToLcd(as) /\ (as.address = 2 => as.address # 3)
      BY <1>0, <3>1, LcdAddress, Zenon DEF ToLcd
    <3>3. ~LS_Rd(as) /\ ~LS_Wr(as)
      BY <3>1, <3>2 DEF LS_Rd, LS_Wr
    <3> QED
      BY <2>3, <3>1, <3>2, <3>3 DEF RegisterWrite
  <2>4. CASE AwaitLcd(busy)
    BY <1>1, <2>4 DEF AwaitLcd
  <2> QED
    BY <1>2, <2>1, <2>2, <2>3, <2>4
<1> QED
  BY <1>1, <1>2, <1>3 DEF AwaitAddress, AwaitFrame, HoldIrq

\* What the program writes passes the slave uncut.
LEMMA Uncut ==
  \A range \in Nat \ {0} : \A n \in 0..(range - 1) : n % range = n
OBVIOUS

LEMMA HalfwordFits ==
  ASSUME NEW v \in Commands \cup Values PROVE v % HalfwordRange = v
<1>1. Commands \cup Values \subseteq 0..(HalfwordRange - 1)
  BY AppAssumption
<1>2. v \in 0..(HalfwordRange - 1)
  BY <1>1
<1>3. HalfwordRange \in Nat \ {0}
  BY DEF HalfwordRange
<1> QED
  BY <1>2, <1>3, Uncut, Zenon

\* Nor does a length the program sets lose anything in the register.
LEMMA LengthFits ==
  ASSUME NEW n \in FrameLengths PROVE n % LengthRange = n
BY AppAssumption, LengthRangeAssumption

\* The access of each call, and the slave's and the controller's part in it.
LEMMA Accesses ==
  ASSUME TypeOK, AppTypeOK, AccessOf, Work
  PROVE  /\ bus = NoRequest <=> pc \in {"ready", "poll", "read"}
         /\ bus.op = "none" <=> bus = NoRequest
         /\ pc = "start" => bus.op = "write" /\ bus.address = 2 /\ bus.data \in FrameAddresses
         /\ pc = "ISBUSY" => bus.op = "read" /\ bus.address = 3
         /\ pc = "reading" => bus.op = "read" /\ bus.address = 0
         /\ bus.op = "write" /\ ToLcd(bus) =>
              /\ pc \in {"write", "LCD_RD"}
              /\ bus.address = 0 => bus.data \in Commands
              /\ bus.address = 1 => bus.data \in Values
              /\ bus.data \in Commands \cup Values
         /\ bus.op = "write" /\ bus.address = 3 => pc = "write" /\ bus.data \in FrameLengths
         /\ bus.op = "write" /\ bus.address = 2 => pc = "start"
         /\ bus.op = "read" /\ ToLcd(bus) => pc = "reading"
         /\ slave_state = "READ" => pc = "reading"
         /\ slave_state = "WRITE" => pc \in {"write", "LCD_RD"}
<1>1. pc \in {"ready", "write", "start", "poll", "ISBUSY", "LCD_RD", "read", "reading"}
  BY DEF AppTypeOK
<1>2. AccessOf
  OBVIOUS
<1>3. CASE pc \in {"ready", "poll", "read"}
  BY <1>3 DEF AccessOf, NoRequest, Work, ToLcd
<1>4. CASE pc = "write"
  <2>1. CASE \E c \in Commands : bus = Write(0, c)
    BY <1>4, <2>1 DEF Write, NoRequest, Work, ToLcd
  <2>2. CASE \E v \in Values : bus = Write(1, v)
    BY <1>4, <2>2 DEF Write, NoRequest, Work, ToLcd
  <2>3. CASE \E n \in FrameLengths : bus = Write(3, n)
    BY <1>4, <2>3 DEF Write, NoRequest, Work, ToLcd
  <2> QED
    BY <1>2, <1>4, <2>1, <2>2, <2>3 DEF AccessOf
<1>5. CASE pc = "start"
  BY <1>5 DEF AccessOf, Write, NoRequest, Work, ToLcd
<1>6. CASE pc = "LCD_RD"
  BY <1>6 DEF AccessOf, Write, NoRequest, Work, ToLcd
<1>7. CASE pc \in {"ISBUSY", "reading"}
  BY <1>7 DEF AccessOf, Read, NoRequest, Work, ToLcd
<1> QED
  BY <1>1, <1>3, <1>4, <1>5, <1>6, <1>7

\* But for its polling, the program runs only while the path and the controller
\* have no frame.
LEMMA Quiescent ==
  ASSUME TopInv, AppInv, pc \notin {"poll", "ISBUSY"}
  PROVE  /\ dma_state = "IDLE" /\ mst_state = "IDLE" /\ fifo = << >>
         /\ ctl_state \notin FrameStates /\ ~Starting /\ ~ML_Busy
         /\ ~StartDMA => mst_state = "IDLE"
         /\ Words = << >>
         /\ slave_state = "IDLE" => ctl_state = "IDLE" /\ Begun = << >>
<1>1. dma_state = "IDLE"
  BY DEF AppInv, Polling
<1>2. mst_state = "IDLE" /\ ctl_state \notin FrameStates /\ fifo = << >>
  BY <1>1 DEF TopInv, HandOver
<1>3. ~Starting /\ ~ML_Busy
  BY <1>2 DEF Starting, ML_Busy
<1>4. Words = << >>
  BY <1>2, WordsType DEF AppInv
<1>5. slave_state = "IDLE" => ctl_state = "IDLE"
  BY <1>2 DEF AppInv, Work, FrameStates, TopInv, TypeOK, ControllerTypeOK
<1>6. ctl_state = "IDLE" => Begun = << >>
  BY <1>3 DEF Begun
<1> QED
  BY <1>1, <1>2, <1>3, <1>4, <1>5, <1>6

\* The requests the calls make.
LEMMA ProgramWrites ==
  /\ \A c \in Commands : Write(0, c) \in Requests
  /\ \A v \in Values : Write(1, v) \in Requests
  /\ \A a \in FrameAddresses : Write(2, a) \in Requests
  /\ \A n \in FrameLengths : Write(3, n) \in Requests
  /\ Read(0) \in Requests /\ Read(3) \in Requests
BY AppAssumption DEF ProgramRequests

\* The slave's inputs are requests it can tell apart.
LEMMA BusRequest ==
  ASSUME TypeOK
  PROVE  bus \in [op : {"none", "read", "write"}, address : 0..3, data : Nat]
BY RequestAssumption DEF TypeOK, NoRequest

\* What a call that begins asks the panel for, and puts on the bus.
Asks(asked) ==
  \/ \E c \in Commands :
       asked = <<Promise!Command(c)>> /\ bus' = Write(0, c) /\ pc' \in {"write", "LCD_RD"}
  \/ \E v \in Values :
       asked = <<Promise!Value(v)>> /\ bus' = Write(1, v) /\ pc' = "write"
  \/ \E n \in FrameLengths :
       asked = << >> /\ bus' = Write(3, n) /\ pc' = "write"
  \/ \E a \in FrameAddresses :
       asked = Promise!FrameTransfers(a, len_reg) /\ bus' = Write(2, a) /\ pc' = "start"

\* The access of a step of a call: its first, a poll, or the read of LCD_RD.
CallAccess ==
  \/ pc = "ready" /\ \E asked : Asks(asked) /\ PanelStep(asked)
  \/ pc = "poll" /\ bus' = Read(3) /\ pc' = "ISBUSY" /\ PanelStep(<< >>)
  \/ pc = "read" /\ bus' = Read(0) /\ pc' = "reading" /\ PanelStep(<< >>)

LEMMA CallAccesses ==
  ASSUME CallStep
  PROVE  bus.op = "none" /\ quiet = 0 /\ quiet' = quiet /\ CallAccess
<1> DEFINE goal == bus.op = "none" /\ quiet = 0 /\ quiet' = quiet /\ CallAccess
<1>1. ASSUME NEW c \in Commands, LCD_WR_REG(c) PROVE goal
  BY <1>1 DEF LCD_WR_REG, Access, CallAccess, Asks
<1>2. ASSUME NEW c \in Commands, LCD_RD(c) PROVE goal
  <2>1. CASE Access("ready", Write(0, c), "LCD_RD", <<Promise!Command(c)>>)
    BY <2>1 DEF Access, CallAccess, Asks
  <2>2. CASE Access("read", Read(0), "reading", << >>)
    BY <2>2 DEF Access, CallAccess
  <2> QED
    BY <1>2, <2>1, <2>2 DEF LCD_RD
<1>3. ASSUME NEW v \in Values, LCD_WR_DATA(v) PROVE goal
  BY <1>3 DEF LCD_WR_DATA, Access, CallAccess, Asks
<1>4. ASSUME NEW n \in FrameLengths, LCD_SET_DMA_LENGTH(n) PROVE goal
  BY <1>4 DEF LCD_SET_DMA_LENGTH, Access, CallAccess, Asks
<1>5. ASSUME NEW a \in FrameAddresses, LCD_SHOW_FRAME(a) PROVE goal
  BY <1>5 DEF LCD_SHOW_FRAME, Access, CallAccess, Asks
<1>6. ASSUME ISBUSY PROVE goal
  BY <1>6 DEF ISBUSY, Access, CallAccess
<1> HIDE DEF goal
<1>7. goal
  BY <1>1, <1>2, <1>3, <1>4, <1>5, <1>6 DEF CallStep
<1> QED
  BY <1>7 DEF goal

\* Every step of the program keeps the Avalon protocol, and a call's access is on
\* the bus where its pc says.
LEMMA ProgramStep ==
  ASSUME TypeOK, AppTypeOK, AccessOf, Work, CallStep \/ AccessEnds \/ Compute
  PROVE  /\ BusClock /\ AccessOf'
         /\ pc' \in {"ready", "write", "start", "poll", "ISBUSY", "LCD_RD", "read", "reading"}
         /\ quiet' \in 0..MinGap
<1>1. /\ pc \in {"ready", "write", "start", "poll", "ISBUSY", "LCD_RD", "read", "reading"}
      /\ quiet \in 0..MinGap /\ MinGap \in Nat \ {0}
      /\ bus \in Requests \cup {NoRequest}
  BY AppAssumption DEF AppTypeOK, TypeOK
<1>2. bus.op = "none" => ~Waiting
  <2>1. bus.op = "none" => ~LS_Rd(bus) /\ ~LS_Wr(bus)
    BY DEF LS_Rd, LS_Wr
  <2>2. bus.op = "none" => slave_state = "IDLE"
    BY <1>1, Accesses DEF TypeOK, SlaveTypeOK
  <2> QED
    BY <2>1, <2>2 DEF Waiting, AS_WaitRequest
<1>a. CASE CallStep
  <2>1. bus.op = "none" /\ quiet' = quiet /\ CallAccess
    BY <1>a, CallAccesses
  <2>2. bus' \in Requests /\ AccessOf' /\ pc' \in {"write", "start", "ISBUSY", "LCD_RD", "reading"}
    <3>1. CASE pc = "ready" /\ \E asked : Asks(asked) /\ PanelStep(asked)
      BY <3>1, ProgramWrites DEF Asks, AccessOf
    <3>2. CASE pc = "poll" /\ bus' = Read(3) /\ pc' = "ISBUSY" /\ PanelStep(<< >>)
      BY <3>2, ProgramWrites DEF AccessOf
    <3>3. CASE pc = "read" /\ bus' = Read(0) /\ pc' = "reading" /\ PanelStep(<< >>)
      BY <3>3, ProgramWrites DEF AccessOf
    <3> QED
      BY <2>1, <3>1, <3>2, <3>3 DEF CallAccess
  <2> QED
    BY <1>1, <1>2, <2>1, <2>2 DEF BusClock
<1>b. CASE AccessEnds
  <2>1. bus' = NoRequest /\ ~Waiting /\ pc' = After /\ quiet' = MinGap - 1
    BY <1>b DEF AccessEnds
  <2>2. pc' \in {"ready", "poll", "read"}
    BY <2>1 DEF After
  <2>3. AccessOf'
    BY <2>1, <2>2 DEF AccessOf
  <2> QED
    BY <1>1, <2>1, <2>2, <2>3 DEF BusClock
<1>c. CASE Compute
  <2>1. bus' = bus /\ pc' = pc /\ quiet' = IF quiet > 0 THEN quiet - 1 ELSE 0
    BY <1>c DEF Compute
  <2>2. AccessOf'
    BY <2>1 DEF AccessOf
  <2> QED
    BY <1>1, <2>1, <2>2 DEF BusClock
<1> QED
  BY <1>a, <1>b, <1>c

----------------------------------------------------------------------------
(* What the controller does on one clock, state by state. *)

LEMMA DoWriteNext ==
  ASSUME ControllerTypeOK, PinInv, phase \in 0..4, NEW dc, NEW data, DoWrite(dc, data)
  PROVE  /\ phase' = IF phase = 4 THEN 0 ELSE phase + 1
         /\ phase = 0 => wrn' = 0 /\ csn' = 0 /\ dcn' = dc /\ d' = data
         /\ phase = 1 => UNCHANGED pins
         /\ phase = 2 => wrn' = 1
         /\ phase \in {3, 4} => wrn # 0
         /\ phase = 0 => wrn # 0
BY DEF ControllerTypeOK, PinInv, DoWrite, Drive, pins

\* An idle controller without an access: its pins and phase stay.
LEMMA IdleNext ==
  ASSUME NEW wr \in BOOLEAN, NEW rd \in BOOLEAN, NEW dc, NEW data, NEW ml_busy \in BOOLEAN,
         NEW fifo_empty, NEW word, NEW line,
         ControllerClock(wr, rd, dc, data, ml_busy, fifo_empty, word, line),
         ControllerTypeOK, PinInv, ctl_state = "IDLE", phase = 0, ~(wr /\ rd),
         wr => data # RESET_CODE /\ ~ml_busy
  PROVE  /\ ctl_state' = IF ml_busy THEN "NEW_FRAME"
                         ELSE IF rd THEN "READ_DUMMY"
                         ELSE IF wr THEN "WRITE" ELSE "IDLE"
         /\ wr => /\ phase' = 1 /\ wrn' = 0 /\ csn' = 0 /\ dcn' = dc /\ d' = Halfword(data)
                  /\ rdn' = 1
         /\ ~wr => phase' = 0 /\ UNCHANGED pins
         /\ UNCHANGED <<lsrddata, fiford, curr_word>> /\ wrn # 0 /\ rdn = 1
<1>1. InIdle(wr, rd, dc, data, ml_busy)
  BY DEF ControllerClock, InIdle, InResetLcd, InWrite, InRead, InNewFrame, InWaitFifo,
         InWaitFifoRd, InWritePixel, InWritePixelSecond
<1>2. wrn # 0 /\ rdn = 1
  BY DEF PinInv, WriteStates, ControllerTypeOK
<1>3. CASE wr
  <2>1. DoWrite(dc, Halfword(data)) /\ ctl_state' = Written("WRITE", "IDLE")
        /\ UNCHANGED <<lsrddata, fiford, curr_word>>
    BY <1>1, <1>3 DEF InIdle
  <2>2. phase' = 1 /\ ctl_state' = "WRITE"
    BY <2>1 DEF DoWrite, Written
  <2>3. wrn' = 0 /\ csn' = 0 /\ dcn' = dc /\ d' = Halfword(data) /\ rdn' = 1
    BY <2>1 DEF DoWrite, Drive
  <2> QED
    BY <1>2, <1>3, <2>1, <2>2, <2>3
<1>4. CASE ~wr
  BY <1>1, <1>2, <1>4 DEF InIdle
<1> QED
  BY <1>3, <1>4

\* A controller in a write cycle.
WritesNext(here, target) ==
  /\ ctl_state' = IF phase = 4 THEN target ELSE here
  /\ phase' = IF phase = 4 THEN 0 ELSE phase + 1

LEMMA WritingNext ==
  ASSUME NEW wr, NEW rd, NEW dc, NEW data, NEW ml_busy, NEW fifo_empty, NEW word, NEW line,
         ControllerClock(wr, rd, dc, data, ml_busy, fifo_empty, word, line),
         ControllerTypeOK, PinInv, ctl_state \in WriteStates, phase \in 0..4
  PROVE  /\ ctl_state = "WRITE" => WritesNext("WRITE", "IDLE")
         /\ ctl_state = "NEW_FRAME" => WritesNext("NEW_FRAME", "WAIT_FIFO")
         /\ ctl_state = "WRITE_PIXEL" =>
              WritesNext("WRITE_PIXEL", "WRITE_PIXEL_SECOND") /\ curr_word' = word
         /\ ctl_state = "WRITE_PIXEL_SECOND" =>
              WritesNext("WRITE_PIXEL_SECOND", "WAIT_FIFO") /\ curr_word' = curr_word
         /\ phase = 0 => /\ wrn' = 0 /\ csn' = 0 /\ wrn # 0
                         /\ ctl_state = "NEW_FRAME" => dcn' = 0 /\ d' = NEW_FRAME_CMD
                         /\ ctl_state = "WRITE_PIXEL" => dcn' = 1 /\ d' = <<"lo", word>>
                         /\ ctl_state = "WRITE_PIXEL_SECOND" => dcn' = 1 /\ d' = <<"hi", curr_word>>
         /\ phase = 1 => UNCHANGED pins
         /\ phase = 2 => wrn' = 1
         /\ phase \in {3, 4} => wrn # 0
         /\ UNCHANGED <<lsrddata, fiford>>
<1>1. CASE ctl_state = "WRITE"
  <2>1. InWrite(data)
    BY <1>1 DEF ControllerClock, InIdle, InResetLcd, InWrite, InRead, InNewFrame, InWaitFifo,
           InWaitFifoRd, InWritePixel, InWritePixelSecond
  <2>2. DoWrite(dcn, Halfword(data)) /\ ctl_state' = Written("WRITE", "IDLE")
        /\ UNCHANGED <<lsrddata, fiford>>
    BY <2>1 DEF InWrite
  <2> QED
    BY <1>1, <2>2, DoWriteNext DEF WritesNext, Written
<1>2. CASE ctl_state = "NEW_FRAME"
  <2>1. InNewFrame
    BY <1>2 DEF ControllerClock, InIdle, InResetLcd, InWrite, InRead, InNewFrame, InWaitFifo,
           InWaitFifoRd, InWritePixel, InWritePixelSecond
  <2>2. DoWrite(0, NEW_FRAME_CMD) /\ ctl_state' = Written("NEW_FRAME", "WAIT_FIFO")
        /\ UNCHANGED <<lsrddata, fiford>>
    BY <2>1 DEF InNewFrame
  <2> QED
    BY <1>2, <2>2, DoWriteNext DEF WritesNext, Written
<1>3. CASE ctl_state = "WRITE_PIXEL"
  <2>1. InWritePixel(word)
    BY <1>3 DEF ControllerClock, InIdle, InResetLcd, InWrite, InRead, InNewFrame, InWaitFifo,
           InWaitFifoRd, InWritePixel, InWritePixelSecond
  <2>2. DoWrite(1, <<"lo", word>>) /\ ctl_state' = Written("WRITE_PIXEL", "WRITE_PIXEL_SECOND")
        /\ curr_word' = word /\ UNCHANGED <<lsrddata, fiford>>
    BY <2>1 DEF InWritePixel
  <2> QED
    BY <1>3, <2>2, DoWriteNext DEF WritesNext, Written
<1>4. CASE ctl_state = "WRITE_PIXEL_SECOND"
  <2>1. InWritePixelSecond
    BY <1>4 DEF ControllerClock, InIdle, InResetLcd, InWrite, InRead, InNewFrame, InWaitFifo,
           InWaitFifoRd, InWritePixel, InWritePixelSecond
  <2>2. DoWrite(1, <<"hi", curr_word>>) /\ ctl_state' = Written("WRITE_PIXEL_SECOND", "WAIT_FIFO")
        /\ curr_word' = curr_word /\ UNCHANGED <<lsrddata, fiford>>
    BY <2>1 DEF InWritePixelSecond
  <2> QED
    BY <1>4, <2>2, DoWriteNext DEF WritesNext, Written
<1> QED
  BY <1>1, <1>2, <1>3, <1>4 DEF WriteStates

\* A controller that waits for, or pops, a word.
LEMMA WaitingNext ==
  ASSUME NEW wr, NEW rd, NEW dc, NEW data, NEW ml_busy, NEW fifo_empty, NEW word, NEW line,
         ControllerClock(wr, rd, dc, data, ml_busy, fifo_empty, word, line),
         ControllerTypeOK, PinInv, ctl_state \in {"WAIT_FIFO", "WAIT_FIFO_RD"}
  PROVE  /\ ctl_state = "WAIT_FIFO" =>
              \/ ~fifo_empty /\ fiford' = 1 /\ ctl_state' = "WAIT_FIFO_RD"
              \/ fifo_empty /\ ml_busy /\ UNCHANGED <<fiford, ctl_state>>
              \/ fifo_empty /\ ~ml_busy /\ ctl_state' = "IDLE" /\ UNCHANGED fiford
         /\ ctl_state = "WAIT_FIFO_RD" => fiford' = 0 /\ ctl_state' = "WRITE_PIXEL"
         /\ UNCHANGED <<phase, pins, lsrddata, curr_word>> /\ wrn # 0 /\ rdn = 1
<1>1. wrn # 0 /\ rdn = 1
  BY DEF PinInv, WriteStates, ControllerTypeOK
<1>2. CASE ctl_state = "WAIT_FIFO"
  <2>1. InWaitFifo(fifo_empty, ml_busy)
    BY <1>2 DEF ControllerClock, InIdle, InResetLcd, InWrite, InRead, InNewFrame, InWaitFifo,
           InWaitFifoRd, InWritePixel, InWritePixelSecond
  <2> QED
    BY <1>1, <1>2, <2>1 DEF InWaitFifo
<1>3. CASE ctl_state = "WAIT_FIFO_RD"
  <2>1. InWaitFifoRd
    BY <1>3 DEF ControllerClock, InIdle, InResetLcd, InWrite, InRead, InNewFrame, InWaitFifo,
           InWaitFifoRd, InWritePixel, InWritePixelSecond
  <2> QED
    BY <1>1, <1>3, <2>1 DEF InWaitFifoRd
<1> QED
  BY <1>2, <1>3

\* A controller that reads the panel.
LEMMA ReadingNext ==
  ASSUME NEW wr, NEW rd, NEW dc, NEW data, NEW ml_busy, NEW fifo_empty, NEW word, NEW line,
         ControllerClock(wr, rd, dc, data, ml_busy, fifo_empty, word, line),
         ControllerTypeOK, PinInv, ctl_state \in {"READ_DUMMY", "READ"}, phase \in 0..8
  PROVE  /\ ctl_state = "READ_DUMMY" =>
              ctl_state' = IF phase = 8 THEN "READ" ELSE "READ_DUMMY"
         /\ ctl_state = "READ" => ctl_state' = IF phase = 8 THEN "IDLE" ELSE "READ"
         /\ phase' = IF phase = 8 THEN 0 ELSE phase + 1
         /\ phase = 0 => rdn' = 0
         /\ phase \in {1, 2, 3, 5, 6, 7} => rdn' = rdn
         /\ phase \in {4, 8} => rdn' = 1
         /\ lsrddata' = IF phase = 4 THEN line ELSE lsrddata
         /\ wrn # 0 /\ UNCHANGED <<fiford, curr_word>>
<1>1. wrn # 0
  BY DEF PinInv, WriteStates, ControllerTypeOK
<1>2. InRead(line)
  BY DEF ControllerClock, InIdle, InResetLcd, InWrite, InRead, InNewFrame, InWaitFifo,
         InWaitFifoRd, InWritePixel, InWritePixelSecond, WriteStates
<1>3. PICK target \in {"READ", "IDLE"} :
        /\ target = IF ctl_state = "READ" THEN "IDLE" ELSE "READ"
        /\ DoRead(target, line)
  <2>1. CASE ctl_state = "READ"
    BY <1>2, <2>1, Zenon DEF InRead
  <2>2. CASE ctl_state = "READ_DUMMY"
    BY <1>2, <2>2, Zenon DEF InRead
  <2> QED
    BY <2>1, <2>2
<1>4. /\ ctl_state' = IF phase = 8 THEN target ELSE ctl_state
      /\ phase' = IF phase = 8 THEN 0 ELSE phase + 1
      /\ lsrddata' = IF phase = 4 THEN line ELSE lsrddata
      /\ UNCHANGED <<fiford, curr_word>>
  BY <1>3 DEF DoRead
<1>5. /\ phase = 0 => rdn' = 0
      /\ phase \in {1, 2, 3, 5, 6, 7} => rdn' = rdn
      /\ phase \in {4, 8} => rdn' = 1
  BY <1>3 DEF DoRead, Drive, pins
<1> QED
  BY <1>1, <1>3, <1>4, <1>5

----------------------------------------------------------------------------
(* One clock under the program. *)

\* What the controller is fed by this program: an access only when it is idle and
\* there is no frame, and never the reset code.
LEMMA Feeds ==
  ASSUME TopInv, AppInv, NoResetCode
  PROVE  /\ LS_Wr(bus) \in BOOLEAN /\ LS_Rd(bus) \in BOOLEAN
         /\ ML_Busy \in BOOLEAN /\ FIFO_Empty \in BOOLEAN /\ LS_Busy \in BOOLEAN
         /\ ~(LS_Wr(bus) /\ LS_Rd(bus))
         /\ LS_Wr(bus) => /\ slave_state = "IDLE" /\ ctl_state = "IDLE" /\ ~ML_Busy
                          /\ LS_WrData(bus) = bus.data /\ LS_WrData(bus) # RESET_CODE
                          /\ Waiting
                          /\ bus.op = "write" /\ ToLcd(bus) /\ pc \in {"write", "LCD_RD"}
         /\ LS_Rd(bus) => /\ slave_state = "IDLE" /\ ctl_state = "IDLE" /\ ~ML_Busy
                          /\ Waiting /\ pc = "reading"
         /\ StartDMA <=> pc = "start"
         /\ StartDMA => slave_state = "IDLE" /\ ctl_state = "IDLE" /\ ~Waiting
                          /\ bus.op = "write" /\ bus.data \in FrameAddresses /\ bus.address = 2
         /\ ML_Busy /\ ctl_state = "IDLE" <=> Starting
         /\ slave_state # "IDLE" => (Waiting <=> ~WaitEnds(LS_Busy))
         /\ Waiting => bus.op # "none"
<1>1. TypeOK /\ AppTypeOK /\ AccessOf /\ Work /\ Polling /\ HandOver /\ FrameWords
  BY DEF TopInv, AppInv
<1>2. /\ LS_Wr(bus) \in BOOLEAN /\ LS_Rd(bus) \in BOOLEAN
      /\ ML_Busy \in BOOLEAN /\ FIFO_Empty \in BOOLEAN /\ LS_Busy \in BOOLEAN
      /\ ~(LS_Wr(bus) /\ LS_Rd(bus))
  BY <1>1, Inputs
<1>3. /\ slave_state \in {"IDLE", "READ", "WRITE"}
      /\ bus \in [op : {"none", "read", "write"}, address : 0..3, data : Nat]
  BY <1>1, BusRequest DEF TypeOK, SlaveTypeOK
<1>4. LS_Wr(bus) => /\ slave_state = "IDLE" /\ bus.op = "write" /\ ToLcd(bus)
                    /\ pc \in {"write", "LCD_RD"}
                    /\ LS_WrData(bus) = bus.data /\ LS_WrData(bus) # RESET_CODE
  <2>1. LS_Wr(bus) => bus.data \in Commands \cup Values
    BY <1>1, Accesses DEF LS_Wr
  <2>2. LS_Wr(bus) => LS_WrData(bus) = bus.data
    BY <2>1, HalfwordFits DEF LS_WrData
  <2>3. LS_Wr(bus) => LS_WrData(bus) # RESET_CODE
    BY <2>1, <2>2 DEF NoResetCode
  <2> QED
    BY <1>1, <2>2, <2>3, Accesses DEF LS_Wr
<1>5. LS_Rd(bus) => slave_state = "IDLE" /\ pc = "reading" /\ bus.op = "read"
  BY <1>1, Accesses DEF LS_Rd
<1>6. LS_Wr(bus) \/ LS_Rd(bus) => ctl_state = "IDLE" /\ ~ML_Busy /\ Waiting
  BY <1>4, <1>5, Quiescent DEF Waiting, AS_WaitRequest
<1>7. ML_Busy /\ ctl_state = "IDLE" <=> Starting
  <2>1. ML_Busy /\ ctl_state = "IDLE" => Starting
    BY <1>1 DEF ML_Busy, Starting, HandOver, FrameStates
  <2>2. Starting => ML_Busy
    <3> SUFFICES ASSUME Starting PROVE ML_Busy
      OBVIOUS
    <3>1. burst_counter = 0 /\ mst_len > 0 /\ mst_len % BurstLength = 0 /\ mst_state = "READING"
      BY <1>1 DEF FrameWords, Starting
    <3>2. mst_len \in Nat /\ BurstLength \in Nat \ {0}
      BY BurstAssumption DEF TopInv, DmaInv, DmaTypeOK, MasterTypeOK
    <3>3. mst_len \div BurstLength # 0
      <4>1. mst_len = BurstLength * (mst_len \div BurstLength)
        BY <3>1, <3>2
      <4> QED
        BY <3>1, <3>2, <4>1
    <3> QED
      BY <3>1, <3>3 DEF ML_Busy, AllBurstsDone
  <2> QED
    BY <2>1, <2>2 DEF Starting
<1>8. ~ToLcd(bus) /\ slave_state = "IDLE" => ~Waiting
  BY DEF Waiting, AS_WaitRequest, LS_Rd, LS_Wr
<1>9. pc = "start" => /\ bus.op = "write" /\ bus.address = 2 /\ bus.data \in FrameAddresses
                      /\ ~ToLcd(bus) /\ slave_state = "IDLE" /\ ctl_state = "IDLE" /\ ~Waiting
  <2> SUFFICES ASSUME pc = "start"
               PROVE  /\ bus.op = "write" /\ bus.address = 2 /\ bus.data \in FrameAddresses
                      /\ ~ToLcd(bus) /\ slave_state = "IDLE" /\ ctl_state = "IDLE" /\ ~Waiting
    OBVIOUS
  <2>1. bus.op = "write" /\ bus.address = 2 /\ bus.data \in FrameAddresses
    BY <1>1, Accesses
  <2>2. bus.address \in 0..3
    BY <1>3
  <2>3. ~ToLcd(bus)
    BY <2>1, <2>2, LcdAddress, Zenon DEF ToLcd
  <2>4. slave_state = "IDLE"
    BY <1>1, <1>3, Accesses
  <2> QED
    BY <1>8, <2>1, <2>3, <2>4, Quiescent
<1>10. StartDMA <=> pc = "start"
  <2>1. StartDMA => pc = "start"
    BY <1>1, Accesses DEF StartDMA, MS_StartDMA
  <2>2. pc = "start" => StartDMA
    BY <1>9, Quiescent DEF StartDMA, MS_StartDMA, LS_Busy
  <2> QED
    BY <2>1, <2>2
<1>11. slave_state # "IDLE" => (Waiting <=> ~WaitEnds(LS_Busy))
  BY DEF Waiting, AS_WaitRequest, LS_Rd, LS_Wr
<1>12. Waiting => bus.op # "none"
  <2>1. slave_state # "IDLE" => bus.op # "none"
    BY <1>1, <1>3, Accesses
  <2> QED
    BY <2>1 DEF Waiting, AS_WaitRequest, LS_Rd, LS_Wr
<1> QED
  BY <1>2, <1>4, <1>5, <1>6, <1>7, <1>9, <1>10, <1>11, <1>12

\* The controller's next state and phase under this program.
LEMMA ControlNext ==
  ASSUME TopInv, AppInv, NoResetCode, NEW waitrequest \in BOOLEAN, NEW valid \in BOOLEAN,
         LcdClock(waitrequest, valid)
  PROVE  /\ ctl_state = "IDLE" =>
              /\ ctl_state' = IF Starting THEN "NEW_FRAME"
                              ELSE IF LS_Rd(bus) THEN "READ_DUMMY"
                              ELSE IF LS_Wr(bus) THEN "WRITE" ELSE "IDLE"
              /\ phase' = IF LS_Wr(bus) THEN 1 ELSE 0
         /\ ctl_state = "WRITE" => WritesNext("WRITE", "IDLE")
         /\ ctl_state = "NEW_FRAME" => WritesNext("NEW_FRAME", "WAIT_FIFO")
         /\ ctl_state = "WRITE_PIXEL" => WritesNext("WRITE_PIXEL", "WRITE_PIXEL_SECOND")
         /\ ctl_state = "WRITE_PIXEL_SECOND" => WritesNext("WRITE_PIXEL_SECOND", "WAIT_FIFO")
         /\ ctl_state = "READ_DUMMY" =>
              ctl_state' = IF phase = 8 THEN "READ" ELSE "READ_DUMMY"
         /\ ctl_state = "READ" => ctl_state' = IF phase = 8 THEN "IDLE" ELSE "READ"
         /\ ctl_state \in {"READ_DUMMY", "READ"} => phase' = IF phase = 8 THEN 0 ELSE phase + 1
         /\ ctl_state = "WAIT_FIFO" =>
              \/ ctl_state' = "WAIT_FIFO_RD" /\ fiford' = 1
              \/ ctl_state' = "WAIT_FIFO"
              \/ ctl_state' = "IDLE" /\ FIFO_Empty /\ ~ML_Busy
         /\ ctl_state = "WAIT_FIFO_RD" => ctl_state' = "WRITE_PIXEL"
         /\ ctl_state \in {"WAIT_FIFO", "WAIT_FIFO_RD"} => phase' = 0
         /\ ctl_state \in WriteStates => phase \in 0..4
         /\ ctl_state \in {"READ_DUMMY", "READ"} => phase \in 0..8
         /\ ctl_state \in {"IDLE", "WRITE", "READ_DUMMY", "READ", "NEW_FRAME",
                           "WAIT_FIFO", "WAIT_FIFO_RD", "WRITE_PIXEL", "WRITE_PIXEL_SECOND"}
<1>1. ControllerClock(LS_Wr(bus), LS_Rd(bus), LS_DC_n(bus), LS_WrData(bus),
                      ML_Busy, FIFO_Empty, fifo_q, D)
  BY DEF LcdClock
<1>2. ControllerTypeOK /\ PinInv /\ Work /\ WriteCycle /\ ReadCycle
  BY DEF TopInv, TypeOK, AppInv
<1>3. /\ ctl_state \in WriteStates => phase \in 0..4
      /\ ctl_state \in {"READ_DUMMY", "READ"} => phase \in 0..8
      /\ ctl_state \in {"IDLE", "WAIT_FIFO", "WAIT_FIFO_RD"} => phase = 0
      /\ ctl_state \in {"IDLE", "WRITE", "READ_DUMMY", "READ", "NEW_FRAME",
                        "WAIT_FIFO", "WAIT_FIFO_RD", "WRITE_PIXEL", "WRITE_PIXEL_SECOND"}
  BY <1>2 DEF Work, WriteCycle, ReadCycle, ControllerTypeOK
<1>4. CASE ctl_state = "IDLE"
  <2>1. /\ ctl_state' = IF ML_Busy THEN "NEW_FRAME"
                        ELSE IF LS_Rd(bus) THEN "READ_DUMMY"
                        ELSE IF LS_Wr(bus) THEN "WRITE" ELSE "IDLE"
        /\ LS_Wr(bus) => phase' = 1
        /\ ~LS_Wr(bus) => phase' = 0
    BY <1>1, <1>2, <1>3, <1>4, Feeds, IdleNext
  <2>2. ML_Busy <=> Starting
    BY <1>4, Feeds
  <2> QED
    BY <1>3, <1>4, <2>1, <2>2 DEF WriteStates
<1>5. CASE ctl_state \in WriteStates
  BY <1>1, <1>2, <1>3, <1>5, WritingNext DEF WriteStates
<1>6. CASE ctl_state \in {"WAIT_FIFO", "WAIT_FIFO_RD"}
  BY <1>1, <1>2, <1>3, <1>6, WaitingNext DEF WriteStates
<1>7. CASE ctl_state \in {"READ_DUMMY", "READ"}
  BY <1>1, <1>2, <1>3, <1>7, ReadingNext DEF WriteStates
<1> QED
  BY <1>3, <1>4, <1>5, <1>6, <1>7 DEF WriteStates

\* The program's part of a clock: it waits, or its access ends, or it goes on.
LEMMA ProgramNext ==
  ASSUME TopInv, AppInv, NoResetCode, CallStep \/ AccessEnds \/ Compute
  PROVE  /\ Waiting => bus' = bus /\ pc' = pc /\ PanelStep(<< >>)
         /\ ~Waiting /\ bus.op # "none" =>
              bus' = NoRequest /\ pc' = After /\ quiet' = MinGap - 1 /\ PanelStep(<< >>)
         /\ bus.op = "none" =>
              \/ bus' = bus /\ pc' = pc /\ PanelStep(<< >>)
              \/ quiet = 0 /\ CallAccess
<1>1. Waiting => bus.op # "none"
  BY Feeds
<1>a. CASE CallStep
  BY <1>1, <1>a, CallAccesses
<1>b. CASE AccessEnds
  BY <1>b DEF AccessEnds
<1>c. CASE Compute
  BY <1>1, <1>c DEF Compute
<1> QED
  BY <1>a, <1>b, <1>c

\* Slave and controller go on working hand in hand.
LEMMA WorkStep ==
  ASSUME TopInv, AppInv, NoResetCode, NEW waitrequest \in BOOLEAN, NEW valid \in BOOLEAN,
         LcdClock(waitrequest, valid), CallStep \/ AccessEnds \/ Compute
  PROVE  Work'
<1>1. TypeOK /\ AppTypeOK /\ AccessOf /\ Work /\ SlaveTypeOK
  BY DEF TopInv, AppInv, TypeOK
<1>2. /\ slave_state' = IF slave_state # "IDLE"
                          THEN IF WaitEnds(LS_Busy) THEN "IDLE" ELSE slave_state
                          ELSE IF LS_Rd(bus) THEN "READ"
                          ELSE IF LS_Wr(bus) THEN "WRITE" ELSE "IDLE"
      /\ waitbusy' = IF slave_state = "IDLE" THEN waitbusy ELSE IF LS_Busy THEN 0 ELSE 1
      /\ len_reg' = IF slave_state = "IDLE" /\ bus.op = "write" /\ bus.address = 3
                      THEN bus.data % LengthRange ELSE len_reg
  BY <1>1, BusRequest, SlaveNext, Feeds DEF LcdClock
<1>3. /\ LS_Rd(bus) \in BOOLEAN /\ LS_Wr(bus) \in BOOLEAN /\ ~(LS_Wr(bus) /\ LS_Rd(bus))
      /\ slave_state \in {"IDLE", "READ", "WRITE"}
      /\ LS_Busy <=> ctl_state # "IDLE"
      /\ WaitEnds(LS_Busy) <=> ctl_state = "IDLE" /\ waitbusy = 0
  BY <1>1, Feeds DEF SlaveTypeOK, LS_Busy, WaitEnds
\* Who waits keeps the request on the bus.
<1>4. slave_state' # "IDLE" => Waiting /\ bus' = bus /\ pc' = pc
  <2>1. slave_state' # "IDLE" => Waiting
    BY <1>2, <1>3, Feeds
  <2> QED
    BY <2>1, ProgramNext
<1>5. slave_state' = "IDLE" => waitbusy' = 1
  BY <1>1, <1>2, <1>3 DEF Work
<1>6. slave_state' = "WRITE" => bus'.op = "write" /\ ToLcd(bus')
  <2>1. slave_state' = "WRITE" => bus.op = "write" /\ ToLcd(bus)
    BY <1>1, <1>2, <1>3, Feeds DEF Work
  <2> QED
    BY <1>4, <2>1
<1>7. slave_state' = "READ" => pc' = "reading"
  BY <1>1, <1>2, <1>3, <1>4, Feeds DEF Work
<1>8. ctl_state' = "WRITE" => slave_state' = "WRITE"
  BY <1>1, <1>2, <1>3, ControlNext, Feeds DEF Work, WritesNext
<1>9. ctl_state' \in {"READ_DUMMY", "READ"} => slave_state' = "READ"
  BY <1>1, <1>2, <1>3, ControlNext, Feeds DEF Work, WritesNext
<1>10. slave_state' # "IDLE" /\ ctl_state' = "IDLE" => waitbusy' = 0
  <2>1. Starting => slave_state = "IDLE" /\ ~LS_Rd(bus) /\ ~LS_Wr(bus)
    <3>1. Starting => pc = "poll"
      BY DEF AppInv, Polling
    <3>2. pc = "poll" => bus = NoRequest
      BY <1>1 DEF AccessOf
    <3> QED
      BY <1>1, <1>3, <3>1, <3>2, Accesses DEF LS_Rd, LS_Wr, NoRequest
  <2>2. slave_state = "IDLE" /\ ctl_state = "IDLE" /\ slave_state' # "IDLE" => ctl_state' # "IDLE"
    BY <1>2, <1>3, <2>1, ControlNext
  <2>3. slave_state = "IDLE" /\ ctl_state # "IDLE" => slave_state' = "IDLE"
    BY <1>2, <1>3, Feeds
  <2> QED
    BY <1>1, <1>2, <1>3, <2>2, <2>3 DEF Work
<1>11. ctl_state' # "RESET_LCD"
  BY ControlNext DEF WritesNext
<1>12. ctl_state' \in {"IDLE", "WAIT_FIFO", "WAIT_FIFO_RD"} => phase' = 0
  <2>1. ctl_state = "IDLE" /\ ctl_state' = "IDLE" => phase' = 0
    BY <1>3, ControlNext
  <2> QED
    BY <2>1, ControlNext DEF WritesNext
<1>13. len_reg' \in FrameLengths \cup {DefaultLength}
  BY <1>1, <1>2, Accesses, LengthFits DEF Work
<1> QED
  BY <1>5, <1>6, <1>7, <1>8, <1>9, <1>10, <1>11, <1>12, <1>13 DEF Work

\* A frame starts from a start alone.
LEMMA StartingFrom ==
  ASSUME TopInv, AppInv, NoResetCode, NEW waitrequest \in BOOLEAN, NEW valid \in BOOLEAN,
         LcdClock(waitrequest, valid)
  PROVE  Starting' => StartDMA
<1> SUFFICES ASSUME Starting', ~StartDMA PROVE FALSE
  OBVIOUS
<1>1. mst_state' = "READING" /\ ctl_state' = "IDLE"
  BY DEF Starting
<1>2. /\ mst_state = "IDLE" => mst_state' = "IDLE"
      /\ mst_state = "READING" /\ ~ML_Busy => mst_state' = "IDLE"
      /\ mst_state \in {"IDLE", "READING", "RECEIVING"}
  BY MasterFrame DEF TopInv, DmaInv, DmaTypeOK, LcdClock, DmaClock, MasterTypeOK
<1>3. ML_Busy /\ mst_state # "IDLE"
  BY <1>1, <1>2 DEF ML_Busy
<1>4. ctl_state # "IDLE"
  BY <1>1, <1>3, Feeds, ControlNext
<1>5. ctl_state \in FrameStates
  BY <1>3, <1>4 DEF TopInv, HandOver, ML_Busy
<1> QED
  BY <1>1, <1>3, <1>5, ControlNext DEF FrameStates, WritesNext

\* The program goes on polling as long as there is a frame.
LEMMA PollingStep ==
  ASSUME TopInv, AppInv, NoResetCode, EnoughQuiet,
         NEW waitrequest \in BOOLEAN, NEW valid \in BOOLEAN,
         LcdClock(waitrequest, valid), CallStep \/ AccessEnds \/ Compute
  PROVE  Polling'
<1>1. TypeOK /\ AppTypeOK /\ AccessOf /\ Work /\ Polling /\ SlaveTypeOK /\ HandOver
      /\ MasterTypeOK
  BY DEF TopInv, AppInv, TypeOK, DmaInv, DmaTypeOK
<1>2. /\ dma_state = "IDLE" => dma_state' = IF StartDMA THEN "ADDRESS" ELSE "IDLE"
      /\ dma_state = "ADDRESS" =>
           dma_state' = IF ~LS_Busy /\ dma_waitbusy = 0 THEN "IRQ" ELSE "ADDRESS"
      /\ dma_state = "IRQ" => dma_state' = "IDLE"
      /\ dma_state = "ADDRESS" => dma_waitbusy' = IF LS_Busy THEN 0 ELSE 1
      /\ isbusy' = LS_Busy
      /\ dma_state \in {"IDLE", "ADDRESS", "IRQ"}
  BY <1>1, BusRequest, SlaveNext, Feeds DEF LcdClock, SlaveTypeOK, StartDMA
<1>3. LS_Busy <=> ctl_state # "IDLE"
  BY DEF LS_Busy
<1>4. /\ mst_state = "IDLE" => mst_state' = IF StartDMA THEN "READING" ELSE "IDLE"
      /\ mst_state = "READING" /\ ~ML_Busy => mst_state' = "IDLE"
      /\ mst_state \in {"IDLE", "READING", "RECEIVING"}
      /\ mst_state = "RECEIVING" => ML_Busy
  BY <1>1, MasterFrame DEF LcdClock, DmaClock, ML_Busy, MasterTypeOK
<1>5. StartDMA => /\ pc' = "poll" /\ quiet' = MinGap - 1 /\ quiet' >= 1 /\ ctl_state = "IDLE"
                  /\ mst_state' = "READING" /\ ctl_state' = "IDLE" /\ dma_state = "IDLE"
  <2> SUFFICES ASSUME StartDMA
               PROVE  /\ pc' = "poll" /\ quiet' = MinGap - 1 /\ quiet' >= 1 /\ ctl_state = "IDLE"
                      /\ mst_state' = "READING" /\ ctl_state' = "IDLE" /\ dma_state = "IDLE"
    OBVIOUS
  <2>1. pc = "start" /\ ~Waiting /\ bus.op = "write" /\ ctl_state = "IDLE"
    BY Feeds
  <2>2. pc' = "poll" /\ quiet' = MinGap - 1
    BY <2>1, ProgramNext DEF After
  <2>3. MinGap \in Nat /\ MinGap - 1 >= 1
    BY AppAssumption DEF EnoughQuiet
  <2>4. mst_state = "IDLE" /\ ~Starting /\ dma_state = "IDLE"
    BY <2>1, Quiescent
  <2>5. ~LS_Rd(bus) /\ ~LS_Wr(bus)
    BY <2>1, Feeds
  <2> QED
    BY <1>4, <2>1, <2>2, <2>3, <2>4, <2>5, ControlNext
<1>6. Starting' => StartDMA
  BY StartingFrom
\* Until the frame is through, ISBUSY answers yes.
<1>7. pc = "ISBUSY" /\ dma_state = "ADDRESS" => isbusy
  BY <1>1, ControlNext, Accesses DEF Polling, Work, FrameStates, ToLcd
<1>8. pc' \notin {"poll", "ISBUSY"} => dma_state' = "IDLE"
  <2> SUFFICES ASSUME pc' \notin {"poll", "ISBUSY"} PROVE dma_state' = "IDLE"
    OBVIOUS
  <2>1. ~StartDMA
    BY <1>5
  <2>2. CASE pc \notin {"poll", "ISBUSY"}
    BY <1>1, <1>2, <2>1, <2>2 DEF Polling
  <2>3. CASE pc \in {"poll", "ISBUSY"}
    <3>1. pc = "ISBUSY" /\ ~isbusy
      <4>1. bus.op # "none" \/ pc = "poll"
        BY <1>1, <2>3, Accesses
      <4>2. pc = "poll" => bus.op = "none"
        BY <1>1 DEF AccessOf, NoRequest
      <4> QED
        BY <2>3, <4>1, <4>2, ProgramNext DEF CallAccess, After
    <3> QED
      BY <1>2, <1>7, <2>1, <3>1
  <2> QED
    BY <2>2, <2>3
<1>9. Starting' => pc' = "poll" /\ quiet' >= 1
  BY <1>5, <1>6
<1>10. ctl_state' \in FrameStates => isbusy' \/ pc' = "poll"
  <2>1. CASE ctl_state # "IDLE"
    BY <1>2, <1>3, <2>1
  <2>2. CASE ctl_state = "IDLE" /\ ~Starting
    BY <2>2, ControlNext DEF FrameStates
  <2>3. CASE Starting
    <3>1. pc = "poll" /\ quiet # 0 /\ bus.op = "none"
      BY <1>1, <2>3 DEF Polling, AccessOf, NoRequest
    <3> QED
      BY <3>1, ProgramNext
  <2> QED
    BY <2>1, <2>2, <2>3
<1>11. dma_state' = "ADDRESS" /\ ctl_state' = "IDLE" /\ ~Starting' => isbusy' /\ dma_waitbusy' = 0
  <2> SUFFICES ASSUME dma_state' = "ADDRESS", ctl_state' = "IDLE", ~Starting'
               PROVE  isbusy' /\ dma_waitbusy' = 0
    OBVIOUS
  <2>1. dma_state = "ADDRESS"
    <3>1. ~StartDMA
      BY <1>5 DEF Starting
    <3> QED
      BY <1>2, <3>1
  <2>2. ctl_state # "IDLE"
    <3> SUFFICES ASSUME ctl_state = "IDLE" PROVE FALSE
      OBVIOUS
    <3>1. ~Starting
      BY ControlNext
    <3>2. dma_waitbusy = 0
      BY <1>1, <2>1, <3>1 DEF Polling
    <3> QED
      BY <1>2, <1>3, <2>1, <3>2
  <2> QED
    BY <1>2, <1>3, <2>1, <2>2
<1> QED
  BY <1>8, <1>9, <1>10, <1>11 DEF Polling

\* The words on this clock, with the lengths this program sets.
LEMMA AppWords ==
  ASSUME TopInv, AppInv, NoResetCode, WholeBursts,
         NEW waitrequest \in BOOLEAN, NEW valid \in BOOLEAN, LcdClock(waitrequest, valid)
  PROVE  /\ Ordered' /\ WholeFrame' /\ NextWord' \in Nat /\ Words \in Seq(Transfers)
         /\ len_reg \in Nat /\ len_reg > 0
         /\ StartDMA =>
              /\ mst_state' = "READING" /\ mst_len' = len_reg
              /\ burst_counter' = 0 /\ word_counter' = 0
              /\ Words' = Promise!Pixels(bus.data, len_reg)
         /\ ~StartDMA /\ fiford # 1 => Words' = Words /\ fifo_q' = fifo_q
         /\ ~StartDMA /\ fiford = 1 =>
              /\ fifo_q' = NextWord
              /\ Words' \in Seq(Transfers)
              /\ Words = <<Promise!Pixel("lo", NextWord), Promise!Pixel("hi", NextWord)>> \o Words'
         /\ fiford = 1 <=> ctl_state = "WAIT_FIFO_RD"
<1>1. FrameWords /\ len_reg > 0 /\ len_reg % BurstLength = 0 /\ len_reg \in Nat
  BY DEF AppInv, Work, WholeBursts, TopInv, TypeOK, SlaveTypeOK
<1>2. fiford = 1 <=> ctl_state = "WAIT_FIFO_RD"
  BY <1>1 DEF FrameWords, TopInv, HandOver
<1>3. Words \in Seq(Transfers)
  BY <1>1, WordsType
<1> QED
  BY <1>1, <1>2, <1>3, WordsStep

\* The pins, and the transfer the write cycle makes.
LEMMA PinsNext ==
  ASSUME TopInv, AppInv, NoResetCode, WholeBursts,
         NEW waitrequest \in BOOLEAN, NEW valid \in BOOLEAN,
         LcdClock(waitrequest, valid), CallStep \/ AccessEnds \/ Compute
  PROVE  /\ ctl_state \in WriteStates =>
              /\ phase = 0 => /\ wrn # 0 /\ wrn' = 0 /\ csn' = 0
                              /\ ctl_state # "WRITE" => <<dcn', d'>> = Transfer
              /\ phase = 1 => UNCHANGED pins
              /\ phase = 2 => wrn' = 1
              /\ phase \in {3, 4} => wrn # 0
              /\ fifo_q' = fifo_q
              /\ ctl_state' = ctl_state => Transfer' = Transfer
         /\ ctl_state = "WRITE_PIXEL" => curr_word' = fifo_q
         /\ ctl_state \notin WriteStates => wrn # 0
         /\ LS_Wr(bus) =>
              /\ wrn' = 0 /\ csn' = 0 /\ <<dcn', d'>> = OnBus
              /\ ctl_state' = "WRITE" /\ Transfer' = OnBus
<1>1. ControllerClock(LS_Wr(bus), LS_Rd(bus), LS_DC_n(bus), LS_WrData(bus),
                      ML_Busy, FIFO_Empty, fifo_q, D)
  BY DEF LcdClock
<1>2. ControllerTypeOK /\ PinInv /\ Work /\ WriteCycle /\ TypeOK /\ AccessOf /\ AppTypeOK
  BY DEF TopInv, TypeOK, AppInv
<1>3. ctl_state \notin WriteStates => wrn # 0
  BY <1>2 DEF PinInv
<1>4. ASSUME LS_Wr(bus)
      PROVE  /\ wrn' = 0 /\ csn' = 0 /\ <<dcn', d'>> = OnBus
             /\ ctl_state' = "WRITE" /\ Transfer' = OnBus
  <2>1. ctl_state = "IDLE" /\ ~ML_Busy /\ ~LS_Rd(bus) /\ LS_WrData(bus) # RESET_CODE
        /\ Waiting /\ bus.op = "write" /\ ToLcd(bus) /\ ~Starting /\ LS_WrData(bus) = bus.data
    BY <1>4, Feeds
  <2>2. phase = 0
    BY <1>2, <2>1 DEF Work
  <2>3. /\ wrn' = 0 /\ csn' = 0 /\ dcn' = LS_DC_n(bus) /\ d' = Halfword(bus.data)
        /\ ctl_state' = "WRITE"
    <3>1. LS_Wr(bus) \in BOOLEAN /\ LS_Rd(bus) \in BOOLEAN /\ ML_Busy \in BOOLEAN
      BY Feeds
    <3>2. /\ wrn' = 0 /\ csn' = 0 /\ dcn' = LS_DC_n(bus) /\ d' = Halfword(LS_WrData(bus))
          /\ ctl_state' = "WRITE"
      BY <1>1, <1>2, <1>4, <2>1, <2>2, <3>1, IdleNext
    <3> QED
      BY <2>1, <3>2
  <2>4. bus' = bus
    BY <2>1, ProgramNext
  <2>5. <<LS_DC_n(bus), Halfword(bus.data)>> = OnBus
    BY <1>4 DEF LS_DC_n, Halfword, OnBus, Promise!Command, Promise!Value
  <2>6. Transfer' = OnBus
    <3>1. Transfer' = OnBus'
      BY <2>3 DEF Transfer
    <3>2. OnBus' = OnBus
      BY <2>4 DEF OnBus
    <3> QED
      BY <3>1, <3>2
  <2> QED
    BY <2>3, <2>5, <2>6
<1>5. CASE ctl_state \in WriteStates
  <2>1. phase \in 0..4
    BY <1>2, <1>5 DEF WriteCycle
  <2>2. /\ phase = 0 => /\ wrn' = 0 /\ csn' = 0 /\ wrn # 0
                        /\ ctl_state = "NEW_FRAME" => dcn' = 0 /\ d' = NEW_FRAME_CMD
                        /\ ctl_state = "WRITE_PIXEL" => dcn' = 1 /\ d' = <<"lo", fifo_q>>
                        /\ ctl_state = "WRITE_PIXEL_SECOND" => dcn' = 1 /\ d' = <<"hi", curr_word>>
        /\ phase = 1 => UNCHANGED pins
        /\ phase = 2 => wrn' = 1
        /\ phase \in {3, 4} => wrn # 0
        /\ ctl_state = "WRITE_PIXEL" => curr_word' = fifo_q
        /\ ctl_state = "WRITE_PIXEL_SECOND" => curr_word' = curr_word
    BY <1>1, <1>2, <1>5, <2>1, WritingNext
  <2>3. fifo_q' = fifo_q
    <3>1. ctl_state # "IDLE" /\ ctl_state # "WAIT_FIFO_RD"
      BY <1>5 DEF WriteStates
    <3> QED
      BY <3>1, AppWords, Feeds
  <2>4. phase = 0 /\ ctl_state # "WRITE" => <<dcn', d'>> = Transfer
    BY <1>5, <2>2 DEF Transfer, WriteStates, NEW_FRAME_CMD, Halfword, Promise!Command, Promise!Pixel
  <2>5. ctl_state' = ctl_state => Transfer' = Transfer
    <3>1. CASE ctl_state = "WRITE"
      <4>1. slave_state = "WRITE" /\ Waiting
        BY <1>2, <3>1, Feeds DEF Work, WaitEnds, LS_Busy
      <4>2. bus' = bus
        BY <4>1, ProgramNext
      <4>3. OnBus' = OnBus
        BY <4>2 DEF OnBus
      <4> QED
        BY <3>1, <4>3 DEF Transfer
    <3>2. CASE ctl_state = "NEW_FRAME"
      BY <3>2 DEF Transfer
    <3>3. CASE ctl_state = "WRITE_PIXEL"
      BY <2>3, <3>3 DEF Transfer
    <3>4. CASE ctl_state = "WRITE_PIXEL_SECOND"
      BY <2>2, <3>4 DEF Transfer
    <3> QED
      BY <1>5, <3>1, <3>2, <3>3, <3>4 DEF WriteStates
  <2>6. ~LS_Wr(bus)
    BY <1>5, Feeds DEF WriteStates
  <2> QED
    BY <1>5, <2>2, <2>3, <2>4, <2>5, <2>6
<1>6. CASE ctl_state \notin WriteStates
  BY <1>3, <1>4, <1>6 DEF WriteStates
<1> QED
  BY <1>5, <1>6

LEMMA WriteCycleStep ==
  ASSUME TopInv, AppInv, NoResetCode, WholeBursts,
         NEW waitrequest \in BOOLEAN, NEW valid \in BOOLEAN,
         LcdClock(waitrequest, valid), CallStep \/ AccessEnds \/ Compute
  PROVE  WriteCycle'
<1> SUFFICES ASSUME ctl_state' \in WriteStates
             PROVE  /\ phase' \in 0..4
                    /\ ctl_state' = "WRITE" => phase' # 0
                    /\ phase' \in {1, 2} => wrn' = 0 /\ csn' = 0 /\ <<dcn', d'>> = Transfer'
  BY DEF WriteCycle
<1>1. WriteCycle
  BY DEF AppInv
<1>2. CASE ctl_state \in WriteStates /\ ctl_state' = ctl_state
  <2>1. phase \in 0..3 /\ phase' = phase + 1
    BY <1>2, ControlNext DEF WriteStates, WritesNext
  <2>2. ctl_state = "WRITE" => phase # 0
    BY <1>1, <1>2 DEF WriteCycle
  <2>3. Transfer' = Transfer
    BY <1>2, PinsNext
  <2>4. CASE phase = 0
    BY <1>2, <2>1, <2>2, <2>3, <2>4, PinsNext
  <2>5. CASE phase = 1
    <3>1. UNCHANGED pins /\ wrn = 0 /\ csn = 0 /\ <<dcn, d>> = Transfer
      BY <1>1, <1>2, <2>5, PinsNext DEF WriteCycle
    <3> QED
      BY <1>2, <2>1, <2>3, <2>5, <3>1 DEF pins
  <2> QED
    BY <2>1, <2>4, <2>5
<1>3. CASE LS_Wr(bus)
  <2>1. phase' = 1
    BY <1>3, ControlNext, Feeds
  <2> QED
    BY <1>3, <2>1, PinsNext
<1>4. CASE ctl_state' # ctl_state /\ ~LS_Wr(bus)
  <2>1. phase' = 0 /\ ctl_state' # "WRITE"
    BY <1>4, ControlNext DEF WriteStates, WritesNext
  <2> QED
    BY <2>1
<1> QED
  BY <1>2, <1>3, <1>4, Feeds

LEMMA ReadCycleStep ==
  ASSUME TopInv, AppInv, NoResetCode, WholeBursts,
         NEW waitrequest \in BOOLEAN, NEW valid \in BOOLEAN,
         LcdClock(waitrequest, valid), CallStep \/ AccessEnds \/ Compute
  PROVE  ReadCycle'
<1>1. ControllerClock(LS_Wr(bus), LS_Rd(bus), LS_DC_n(bus), LS_WrData(bus),
                      ML_Busy, FIFO_Empty, fifo_q, D)
      /\ strobe' = IF rdn = 1 /\ rdn' = 0 THEN (strobe % 2) + 1 ELSE strobe
  BY DEF LcdClock, PanelClock
<1>2. ControllerTypeOK /\ PinInv /\ Work /\ ReadCycle /\ TypeOK /\ TypeOK'
  <2>1. BusClock
    BY ProgramStep DEF TopInv, AppInv
  <2> QED
    BY <2>1, ClockStep DEF TopInv, TypeOK, AppInv
<1>3. rdn \in {0, 1} /\ rdn' \in {0, 1} /\ strobe \in 0..2
  BY <1>2 DEF TypeOK, ControllerTypeOK
<1>4. CASE ctl_state \in {"READ_DUMMY", "READ"}
  <2>1. /\ ctl_state = "READ_DUMMY" =>
             ctl_state' = IF phase = 8 THEN "READ" ELSE "READ_DUMMY"
        /\ ctl_state = "READ" => ctl_state' = IF phase = 8 THEN "IDLE" ELSE "READ"
        /\ phase' = IF phase = 8 THEN 0 ELSE phase + 1
        /\ phase = 0 => rdn' = 0
        /\ phase \in {1, 2, 3, 5, 6, 7} => rdn' = rdn
        /\ phase \in {4, 8} => rdn' = 1
        /\ lsrddata' = IF phase = 4 THEN D ELSE lsrddata
        /\ phase \in 0..8 /\ (rdn = 0 <=> phase \in 1..4)
    BY <1>1, <1>2, <1>4, ReadingNext DEF ReadCycle
  <2>2. /\ ctl_state = "READ_DUMMY" => IF phase = 0 THEN strobe \in {0, 2} ELSE strobe = 1
        /\ ctl_state = "READ" => IF phase = 0 THEN strobe = 1 ELSE strobe = 2
        /\ ctl_state = "READ" /\ phase > 4 => Answered
    BY <1>2, <1>4 DEF ReadCycle
  <2>3. slave_state = "READ"
    BY <1>2, <1>4 DEF Work
  <2>4. phase = 4 => lsrddata' = <<"panel", strobe>>
    BY <2>1 DEF D
  <2>5. CASE phase = 0
    <3>1. rdn = 1 /\ rdn' = 0 /\ phase' = 1 /\ ctl_state' = ctl_state
      BY <1>3, <1>4, <2>1, <2>5
    <3>2. strobe' = IF ctl_state = "READ" THEN 2 ELSE 1
      BY <1>1, <1>3, <1>4, <2>2, <2>5, <3>1
    <3> QED
      BY <1>4, <3>1, <3>2 DEF ReadCycle
  <2>6. CASE phase \in 1..7
    <3>1. strobe' = strobe /\ phase' = phase + 1 /\ ctl_state' = ctl_state
          /\ (rdn' = 0 <=> phase' \in 1..4)
      BY <1>1, <1>3, <1>4, <2>1, <2>6
    <3>2. ctl_state = "READ" /\ phase' > 4 => Answered'
      <4>1. CASE phase = 4
        BY <2>1, <2>2, <2>4, <3>1, <4>1 DEF Answered
      <4>2. CASE phase # 4
        BY <2>1, <2>2, <2>6, <3>1, <4>2 DEF Answered
      <4> QED
        BY <4>1, <4>2
    <3> QED
      BY <1>4, <2>1, <2>2, <2>6, <3>1, <3>2 DEF ReadCycle
  <2>7. CASE phase = 8
    <3>1. strobe' = strobe /\ phase' = 0 /\ rdn' = 1 /\ lsrddata' = lsrddata
      BY <1>1, <2>1, <2>7
    <3>2. ctl_state = "READ" => Answered'
      BY <2>2, <2>7, <3>1 DEF Answered
    <3>3. ctl_state' = IF ctl_state = "READ" THEN "IDLE" ELSE "READ"
      BY <1>4, <2>1, <2>7
    <3> QED
      BY <1>4, <2>2, <2>7, <3>1, <3>2, <3>3 DEF ReadCycle, Answered
  <2> QED
    BY <2>1, <2>5, <2>6, <2>7
<1>5. CASE ctl_state \notin {"READ_DUMMY", "READ"}
  <2>1. rdn = 1
    BY <1>2, <1>3, <1>5 DEF PinInv
  <2>2. ctl_state' # "READ" /\ (ctl_state' = "READ_DUMMY" => ctl_state = "IDLE" /\ LS_Rd(bus) /\ phase' = 0)
    BY <1>5, ControlNext, Feeds DEF WritesNext
  <2>3. rdn' = 1
    <3>1. PinInv'
      <4>1. BusClock
        BY ProgramStep DEF TopInv, AppInv
      <4> QED
        BY <4>1, ClockStep
    <3>2. CASE ctl_state' # "READ_DUMMY"
      BY <1>3, <2>2, <3>1, <3>2 DEF PinInv
    <3>3. CASE ctl_state' = "READ_DUMMY"
      <4>1. UNCHANGED pins
        BY <1>1, <1>2, <2>2, <3>3, Feeds, IdleNext DEF Work
      <4> QED
        BY <2>1, <4>1 DEF pins
    <3> QED
      BY <3>2, <3>3
  <2>4. strobe' = strobe /\ strobe \in {0, 2}
    BY <1>1, <1>2, <1>5, <2>3 DEF ReadCycle
  <2>5. ~(slave_state' = "READ" /\ ctl_state' = "IDLE")
    <3> SUFFICES ASSUME slave_state' = "READ", ctl_state' = "IDLE" PROVE FALSE
      OBVIOUS
    <3>1. Work'
      BY WorkStep
    <3>2. slave_state' = IF slave_state # "IDLE"
                           THEN IF WaitEnds(LS_Busy) THEN "IDLE" ELSE slave_state
                           ELSE IF LS_Rd(bus) THEN "READ"
                           ELSE IF LS_Wr(bus) THEN "WRITE" ELSE "IDLE"
      BY <1>2, BusRequest, SlaveNext, Feeds DEF LcdClock, TypeOK
    <3>3. CASE slave_state = "READ"
      <4>1. pc = "reading"
        BY <1>2, <3>3 DEF Work
      <4>2. ctl_state = "IDLE"
        BY <1>2, <1>5, <3>3, <4>1, Quiescent, ControlNext DEF Work, FrameStates
      <4> QED
        BY <1>2, <3>2, <3>3, <4>2 DEF Work, WaitEnds, LS_Busy
    <3>4. CASE slave_state # "READ"
      <4>1. LS_Rd(bus)
        BY <3>2, <3>4
      <4>2. ctl_state' = "READ_DUMMY"
        BY <4>1, Feeds, ControlNext
      <4> QED
        BY <4>2
    <3> QED
      BY <3>3, <3>4
  <2> QED
    BY <2>2, <2>3, <2>4, <2>5 DEF ReadCycle
<1> QED
  BY <1>4, <1>5

\* What the hardware has still to give the panel, the access it has not taken up
\* yet left aside.
HwOwed == Begun \o Words

LEMMA TransferType ==
  ASSUME TopInv, AppInv
  PROVE  /\ ctl_state \in WriteStates => Transfer \in Transfers
         /\ \A half \in {"lo", "hi"}, n \in Nat : Promise!Pixel(half, n) \in Transfers
         /\ \A n \in Nat : Promise!Command(n) \in Transfers /\ Promise!Value(n) \in Transfers
         /\ OnBus \in Transfers /\ fifo_q \in Nat
<1>1. fifo_q \in Nat /\ curr_word \in Nat /\ bus.data \in Nat
  BY BusType DEF TopInv, DmaInv, DmaTypeOK, FifoTypeOK, TypeOK, ControllerTypeOK
<1>2. \A half \in {"lo", "hi"}, n \in Nat : Promise!Pixel(half, n) \in Transfers
  BY LineValue DEF Promise!Pixel, Transfers
<1>3. \A n \in Nat : Promise!Command(n) \in Transfers /\ Promise!Value(n) \in Transfers
  BY LineValue DEF Promise!Command, Promise!Value, Transfers
<1>4. OnBus \in Transfers
  BY <1>1, <1>3 DEF OnBus
<1>5. ctl_state \in WriteStates => Transfer \in Transfers
  BY <1>1, <1>2, <1>3, <1>4 DEF Transfer
<1> QED
  BY <1>1, <1>2, <1>3, <1>4, <1>5

\* One clock of the hardware, but for one on which a frame or a write begins: it
\* latches the first of what it owes and owes the rest, or still owes all.
Gives ==
  IF Latch
  THEN HwOwed # << >> /\ Head(HwOwed) = <<dcn, d>> /\ HwOwed' = Tail(HwOwed)
  ELSE HwOwed' = HwOwed

LEMMA GivesOwed ==
  ASSUME TopInv, AppInv, NoResetCode, WholeBursts,
         NEW waitrequest \in BOOLEAN, NEW valid \in BOOLEAN,
         LcdClock(waitrequest, valid), CallStep \/ AccessEnds \/ Compute,
         ~StartDMA, ~LS_Wr(bus)
  PROVE  HwOwed \in Seq(Transfers) /\ Gives
<1>1. /\ Words \in Seq(Transfers) /\ ~Starting'
      /\ ctl_state # "WAIT_FIFO_RD" => Words' = Words /\ fifo_q' = fifo_q
      /\ ctl_state = "WAIT_FIFO_RD" =>
           /\ fifo_q' = NextWord /\ NextWord \in Nat /\ Words' \in Seq(Transfers)
           /\ Words = <<Promise!Pixel("lo", NextWord), Promise!Pixel("hi", NextWord)>> \o Words'
  BY AppWords, StartingFrom DEF AppInv, FrameWords
<1>2. << >> \o Words = Words /\ (ctl_state = "WAIT_FIFO_RD" => << >> \o Words' = Words')
  BY <1>1, ConcatEmptySeq
<1>3. ctl_state \notin WriteStates => ~Latch
  BY PinsNext DEF Latch
<1>4. WriteCycle /\ Work /\ fifo_q \in Nat
      /\ \A half \in {"lo", "hi"}, n \in Nat : Promise!Pixel(half, n) \in Transfers
      /\ \A c \in Nat : Promise!Command(c) \in Transfers
  BY TransferType DEF AppInv
\* Write cycles of one transfer.
<1>a. CASE ctl_state \in {"WRITE", "NEW_FRAME", "WRITE_PIXEL_SECOND"}
  <2>1. ctl_state \in WriteStates /\ ~Starting /\ Words' = Words
    BY <1>1, <1>a DEF WriteStates, Starting
  <2>2. Begun = IF phase <= 2 THEN <<Transfer>> ELSE << >>
    BY <1>a, <2>1 DEF Begun
  <2>3. Transfer \in Transfers /\ phase \in 0..4
    BY <2>1, ControlNext, TransferType
  <2>4. CASE phase \in {0, 1}
    <3>1. ctl_state' = ctl_state /\ phase' = phase + 1
      BY <1>a, <2>4, ControlNext DEF WritesNext
    <3>2. Transfer' = Transfer /\ ~Latch
      <4>1. phase = 1 => wrn' = wrn
        BY <2>1, PinsNext DEF pins
      <4> QED
        BY <2>1, <2>4, <3>1, <4>1, PinsNext DEF Latch
    <3>3. Begun = <<Transfer>> /\ Begun' = <<Transfer>>
      BY <1>1, <1>a, <2>2, <2>4, <3>1, <3>2 DEF Begun
    <3> QED
      BY <2>1, <2>3, <1>1, <3>2, <3>3, HeadTailOfOne DEF Gives, HwOwed
  <2>5. CASE phase = 2
    <3>1. ctl_state' = ctl_state /\ phase' = 3
      BY <1>a, <2>5, ControlNext DEF WritesNext
    <3>2. Latch /\ <<dcn, d>> = Transfer
      BY <1>4, <2>1, <2>5, PinsNext DEF Latch, WriteCycle
    <3>3. Begun = <<Transfer>> /\ Begun' = << >>
      BY <1>1, <1>a, <2>2, <2>5, <3>1 DEF Begun
    <3>4. HwOwed = <<Transfer>> \o Words /\ HwOwed' = Words
      BY <1>2, <2>1, <3>3 DEF HwOwed
    <3> QED
      BY <1>1, <2>3, <3>2, <3>4, HeadTailOfOne DEF Gives
  <2>6. CASE phase \in {3, 4}
    <3>1. ~Latch
      BY <2>1, <2>6, PinsNext DEF Latch
    <3>2. Begun = << >>
      BY <2>2, <2>6
    <3>3. Begun' = << >>
      <4>1. CASE phase = 3
        <5>1. ctl_state' = ctl_state /\ phase' = 4
          BY <1>a, <4>1, ControlNext DEF WritesNext
        <5> QED
          BY <1>1, <1>a, <5>1 DEF Begun
      <4>2. CASE phase = 4
        <5>1. ctl_state' \in {"IDLE", "WAIT_FIFO"}
          BY <1>a, <4>2, ControlNext DEF WritesNext
        <5> QED
          BY <1>1, <5>1 DEF Begun
      <4> QED
        BY <2>6, <4>1, <4>2
    <3>4. HwOwed = Words /\ HwOwed' = Words
      BY <1>2, <2>1, <3>2, <3>3 DEF HwOwed
    <3> QED
      BY <1>1, <3>1, <3>4 DEF Gives
  <2> QED
    BY <2>3, <2>4, <2>5, <2>6
\* The first pixel of a word, with the second behind it.
<1>b. CASE ctl_state = "WRITE_PIXEL"
  <2> DEFINE hi == Promise!Pixel("hi", fifo_q)
  <2>1. ctl_state \in WriteStates /\ ~Starting /\ Words' = Words /\ fifo_q' = fifo_q
    BY <1>1, <1>b DEF WriteStates, Starting
  <2>2. Begun = IF phase <= 2 THEN <<Transfer, hi>> ELSE <<hi>>
    BY <1>b, <2>1 DEF Begun
  <2>3. Transfer \in Transfers /\ phase \in 0..4 /\ hi \in Transfers
    BY <1>4, <2>1, ControlNext, TransferType
  <2>4. CASE phase \in {0, 1}
    <3>1. ctl_state' = ctl_state /\ phase' = phase + 1
      BY <1>b, <2>4, ControlNext DEF WritesNext
    <3>2. Transfer' = Transfer /\ ~Latch
      <4>1. phase = 1 => wrn' = wrn
        BY <2>1, PinsNext DEF pins
      <4> QED
        BY <2>1, <2>4, <3>1, <4>1, PinsNext DEF Latch
    <3>3. Begun = <<Transfer, hi>> /\ Begun' = <<Transfer, hi>>
      BY <1>1, <1>b, <2>1, <2>2, <2>4, <3>1, <3>2 DEF Begun
    <3> HIDE DEF hi
    <3> QED
      BY <1>1, <2>1, <2>3, <3>2, <3>3, HeadTailOfTwo DEF Gives, HwOwed
  <2>5. CASE phase = 2
    <3>1. ctl_state' = ctl_state /\ phase' = 3
      BY <1>b, <2>5, ControlNext DEF WritesNext
    <3>2. Latch /\ <<dcn, d>> = Transfer
      BY <1>4, <2>1, <2>5, PinsNext DEF Latch, WriteCycle
    <3>3. Begun = <<Transfer, hi>> /\ Begun' = <<hi>>
      BY <1>1, <1>b, <2>1, <2>2, <2>5, <3>1 DEF Begun
    <3> HIDE DEF hi
    <3>4. HwOwed = <<Transfer, hi>> \o Words /\ HwOwed' = <<hi>> \o Words
      BY <2>1, <3>3 DEF HwOwed
    <3>5. /\ HwOwed \in Seq(Transfers) /\ HwOwed # << >>
          /\ Head(HwOwed) = Transfer /\ Tail(HwOwed) = <<hi>> \o Words
      <4>1. /\ <<Transfer, hi>> \o Words \in Seq(Transfers) /\ <<Transfer, hi>> \o Words # << >>
            /\ Head(<<Transfer, hi>> \o Words) = Transfer
            /\ Tail(<<Transfer, hi>> \o Words) = <<hi>> \o Words
        BY <1>1, <2>3, HeadTailOfTwo
      <4> QED
        BY <3>4, <4>1, Zenon
    <3> QED
      BY <3>2, <3>4, <3>5 DEF Gives
  <2>6. CASE phase \in {3, 4}
    <3>1. ~Latch
      BY <2>1, <2>6, PinsNext DEF Latch
    <3>2. Begun = <<hi>>
      BY <2>2, <2>6
    <3>3. Begun' = <<hi>>
      <4>1. CASE phase = 3
        <5>1. ctl_state' = ctl_state /\ phase' = 4
          BY <1>b, <4>1, ControlNext DEF WritesNext
        <5> QED
          BY <1>1, <1>b, <2>1, <5>1 DEF Begun
      <4>2. CASE phase = 4
        <5>1. ctl_state' = "WRITE_PIXEL_SECOND" /\ phase' = 0
          BY <1>b, <4>2, ControlNext DEF WritesNext
        <5>2. Transfer' = hi
          BY <1>b, <5>1, PinsNext DEF Transfer
        <5> QED
          BY <1>1, <5>1, <5>2 DEF Begun
      <4> QED
        BY <2>6, <4>1, <4>2
    <3> HIDE DEF hi
    <3>4. HwOwed = <<hi>> \o Words /\ HwOwed' = <<hi>> \o Words
      BY <2>1, <3>2, <3>3 DEF HwOwed
    <3> QED
      BY <1>1, <2>3, <3>1, <3>4, HeadTailOfOne DEF Gives
  <2> QED
    BY <2>3, <2>4, <2>5, <2>6
\* The pop: the word's two pixels are begun with.
<1>c. CASE ctl_state = "WAIT_FIFO_RD"
  <2> DEFINE lo == Promise!Pixel("lo", NextWord)
             hi == Promise!Pixel("hi", NextWord)
  <2>1. ~Latch /\ ctl_state' = "WRITE_PIXEL" /\ phase' = 0
    BY <1>3, <1>c, ControlNext DEF WriteStates
  <2>2. Begun = << >>
    BY <1>c DEF Begun, Starting
  <2>3. Begun' = <<lo, hi>>
    BY <1>1, <1>c, <2>1 DEF Begun, Transfer
  <2>4. HwOwed = Words /\ HwOwed' = <<lo, hi>> \o Words'
    BY <1>2, <2>2, <2>3 DEF HwOwed
  <2> QED
    BY <1>1, <1>c, <2>1, <2>4 DEF Gives
<1>d. CASE ctl_state = "IDLE"
  <2>1. ~Latch /\ Words' = Words
    BY <1>1, <1>3, <1>d DEF WriteStates
  <2>2. CASE Starting
    <3>1. ctl_state' = "NEW_FRAME" /\ phase' = 0
      BY <1>d, <2>2, ControlNext
    <3>2. Begun = <<Promise!Command(44)>> /\ Begun' = <<Promise!Command(44)>>
      <4>1. Begun = <<Promise!Command(44)>>
        BY <1>d, <2>2 DEF Begun
      <4>2. Transfer' = Promise!Command(44)
        BY <3>1 DEF Transfer
      <4>3. Begun' = <<Transfer>>'
        BY <1>1, <3>1 DEF Begun
      <4> QED
        BY <4>1, <4>2, <4>3
    <3>3. HwOwed' = HwOwed
      BY <2>1, <3>2 DEF HwOwed
    <3> QED
      BY <1>1, <1>4, <2>1, <3>2, <3>3, HeadTailOfOne DEF Gives, HwOwed
  <2>3. CASE ~Starting
    <3>1. ctl_state' \in {"IDLE", "READ_DUMMY"}
      BY <1>d, <2>3, ControlNext
    <3>2. Begun = << >> /\ Begun' = << >>
      BY <1>1, <1>d, <2>3, <3>1 DEF Begun
    <3> QED
      BY <1>1, <1>2, <2>1, <3>2 DEF Gives, HwOwed
  <2> QED
    BY <2>2, <2>3
<1>e. CASE ctl_state \in {"READ_DUMMY", "READ", "WAIT_FIFO"}
  <2>1. ~Latch /\ Words' = Words
    BY <1>1, <1>3, <1>e DEF WriteStates
  <2>2. ctl_state' \in {"IDLE", "READ_DUMMY", "READ", "WAIT_FIFO", "WAIT_FIFO_RD"}
    BY <1>e, ControlNext
  <2>3. Begun = << >> /\ Begun' = << >>
    BY <1>1, <1>e, <2>2 DEF Begun, Starting
  <2> QED
    BY <1>1, <1>2, <2>1, <2>3 DEF Gives, HwOwed
<1> QED
  BY <1>a, <1>b, <1>c, <1>d, <1>e, ControlNext

\* What the calls ask for is a job of the panel.
LEMMA AsksType ==
  ASSUME TopInv, AppInv, NEW asked, Asks(asked)
  PROVE  asked \in Seq(Transfers)
<1>1. /\ \A n \in Nat : Promise!Command(n) \in Transfers /\ Promise!Value(n) \in Transfers
      /\ len_reg \in Nat
  BY TransferType DEF TopInv, TypeOK, SlaveTypeOK
<1>2. ASSUME NEW c \in Commands, asked = <<Promise!Command(c)>> PROVE asked \in Seq(Transfers)
  BY <1>1, <1>2, AppAssumption
<1>3. ASSUME NEW v \in Values, asked = <<Promise!Value(v)>> PROVE asked \in Seq(Transfers)
  BY <1>1, <1>3, AppAssumption
<1>4. ASSUME asked = << >> PROVE asked \in Seq(Transfers)
  BY <1>4
<1>5. ASSUME NEW a \in FrameAddresses, asked = Promise!FrameTransfers(a, len_reg)
      PROVE  asked \in Seq(Transfers)
  <2>1. a \in Nat /\ Promise!Command(44) \in Transfers
    BY <1>1, FrameAssumption
  <2>2. Promise!Pixels(a, len_reg) \in Seq(Transfers)
    BY <1>1, <2>1, PixelsOfWords
  <2> QED
    BY <1>5, <2>1, <2>2, HeadTailOfOne DEF Promise!FrameTransfers
<1> QED
  BY <1>2, <1>3, <1>4, <1>5 DEF Asks

\* Every clock is a step of Display: a call when nothing is left to do, the next
\* transfer of the job, or nothing the panel or the caller sees.
Promised ==
  \/ \E asked : todo = << >> /\ Asks(asked) /\ todo' = asked /\ UNCHANGED <<panel, len_reg>>
  \/ \E n \in FrameLengths : todo = << >> /\ len_reg' = n /\ UNCHANGED <<todo, panel>>
  \/ /\ todo # << >> /\ todo' = Tail(todo) /\ panel' = Promise!Shown(Head(todo))
     /\ UNCHANGED len_reg
  \/ UNCHANGED <<todo, panel, len_reg>>

\* What the calls have asked for stays what the hardware owes, on every clock.
LEMMA OwedStep ==
  ASSUME TopInv, AppInv, NoResetCode, WholeBursts, EnoughQuiet,
         NEW waitrequest \in BOOLEAN, NEW valid \in BOOLEAN,
         LcdClock(waitrequest, valid), CallStep \/ AccessEnds \/ Compute
  PROVE  todo' = Owed' /\ Promised
<1>1. /\ TypeOK /\ AppTypeOK /\ AccessOf /\ Work /\ todo = Owed
      /\ SlaveTypeOK /\ slave_state \in {"IDLE", "READ", "WRITE"}
  BY DEF TopInv, AppInv, TypeOK, SlaveTypeOK
<1>2. /\ slave_state' = IF slave_state # "IDLE"
                          THEN IF WaitEnds(LS_Busy) THEN "IDLE" ELSE slave_state
                          ELSE IF LS_Rd(bus) THEN "READ"
                          ELSE IF LS_Wr(bus) THEN "WRITE" ELSE "IDLE"
      /\ len_reg' = IF slave_state = "IDLE" /\ bus.op = "write" /\ bus.address = 3
                      THEN bus.data % LengthRange ELSE len_reg
  BY <1>1, BusRequest, SlaveNext, Feeds DEF LcdClock
<1>3. ctl_state = "IDLE" => ~Latch
  BY PinsNext DEF Latch, WriteStates
<1>4. ASSUME NEW s \in Seq(Transfers) PROVE s \o << >> = s /\ << >> \o s = s
  BY <1>4, ConcatEmptySeq
<1>5. Owed = IF pc = "start" THEN Promise!FrameTransfers(bus.data, len_reg)
             ELSE IF slave_state = "IDLE" /\ bus.op = "write" /\ ToLcd(bus) THEN <<OnBus>>
             ELSE HwOwed
  BY DEF Owed, HwOwed, Words
<1>6. Owed' = IF pc' = "start" THEN Promise!FrameTransfers(bus'.data, len_reg')
              ELSE IF slave_state' = "IDLE" /\ bus'.op = "write" /\ ToLcd(bus') THEN <<OnBus>>'
              ELSE HwOwed'
  BY DEF Owed, HwOwed, Words
\* The slave starts a frame.
<1>a. CASE StartDMA
  <2>1. /\ pc = "start" /\ ctl_state = "IDLE" /\ ~Waiting /\ bus.op = "write" /\ bus.address = 2
        /\ slave_state = "IDLE" /\ ~LS_Rd(bus) /\ ~LS_Wr(bus) /\ bus.data \in FrameAddresses
    BY <1>a, Feeds
  <2>2. bus' = NoRequest /\ pc' = "poll" /\ PanelStep(<< >>) /\ ~Latch
    BY <1>3, <2>1, ProgramNext DEF After
  <2>3. todo = <<Promise!Command(44)>> \o Promise!Pixels(bus.data, len_reg)
    BY <1>1, <1>5, <2>1 DEF Promise!FrameTransfers
  <2>4. todo \in Seq(Transfers)
    <3>1. len_reg \in Nat /\ bus.data \in Nat
      <4>1. len_reg \in 0..(LengthRange - 1)
        BY <1>1 DEF SlaveTypeOK
      <4>2. len_reg \in Nat
        BY <4>1, LengthRangeAssumption
      <4>3. bus.data \in Nat
        BY <2>1, FrameAssumption
      <4> QED
        BY <4>2, <4>3
    <3>2. Promise!Pixels(bus.data, len_reg) \in Seq(Transfers) /\ Promise!Command(44) \in Transfers
      BY <3>1, PixelsOfWords, TransferType
    <3> QED
      BY <2>3, <3>2, HeadTailOfOne
  <2>5. todo' = todo /\ panel' = panel /\ len_reg' = len_reg
    <3>1. len_reg' = len_reg
      BY <1>2, <2>1
    <3>2. todo' = todo \o << >> /\ panel' = panel
      BY <2>2 DEF PanelStep
    <3> QED
      BY <1>4, <2>4, <3>1, <3>2
  <2>6. Owed' = HwOwed'
    <3>1. bus'.op = "none" /\ pc' # "start"
      BY <2>2 DEF NoRequest
    <3> QED
      BY <1>6, <3>1
  <2>7. Begun' = <<Promise!Command(44)>>
    <3>1. ctl_state' = "IDLE" /\ mst_state' = "READING"
      BY <1>a, <2>1, AppWords, Quiescent, ControlNext
    <3>2. Starting'
      BY <3>1 DEF Starting
    <3> QED
      BY <3>1, <3>2 DEF Begun
  <2>8. HwOwed' = todo
    <3>1. Words' = Promise!Pixels(bus.data, len_reg)
      BY <1>a, AppWords
    <3> QED
      BY <2>3, <2>7, <3>1 DEF HwOwed
  <2> QED
    BY <2>5, <2>6, <2>8 DEF Promised
\* The controller takes up a write.
<1>b. CASE LS_Wr(bus)
  <2>1. /\ slave_state = "IDLE" /\ ctl_state = "IDLE" /\ Waiting /\ bus.op = "write" /\ ToLcd(bus)
        /\ pc \in {"write", "LCD_RD"} /\ ~StartDMA /\ ~LS_Rd(bus)
    BY <1>b, Feeds
  <2>2. bus' = bus /\ pc' = pc /\ PanelStep(<< >>) /\ ~Latch
    BY <1>3, <2>1, ProgramNext
  <2>3. todo = <<OnBus>> /\ OnBus \in Transfers
    BY <1>1, <1>5, <2>1, TransferType
  <2>4. todo' = todo /\ panel' = panel /\ len_reg' = len_reg
    <3>1. len_reg' = len_reg
      <4>1. bus.address # 3
        BY <1>1, <2>1, Accesses, BusRequest, LcdAddress, Zenon DEF ToLcd
      <4> QED
        BY <1>2, <4>1
    <3>2. todo' = todo \o << >> /\ panel' = panel
      BY <2>2 DEF PanelStep
    <3> QED
      BY <1>4, <2>3, <3>1, <3>2
  <2>5. slave_state' = "WRITE" /\ pc' # "start"
    BY <1>2, <1>b, <2>1, <2>2
  <2>6. Owed' = HwOwed'
    BY <1>6, <2>5
  <2>7. Begun' = <<OnBus>>
    <3>1. ctl_state' = "WRITE" /\ Transfer' = OnBus /\ phase' = 1
      BY <1>b, <2>1, PinsNext, ControlNext
    <3>2. Begun' = <<Transfer>>'
      BY <3>1 DEF Begun, Starting
    <3> QED
      BY <3>1, <3>2
  <2>8. Words' = << >>
    <3>1. Words = << >>
      BY <2>1, Quiescent
    <3> QED
      BY <2>1, <3>1, AppWords
  <2>9. HwOwed' = todo
    BY <1>4, <2>3, <2>7, <2>8 DEF HwOwed
  <2> QED
    BY <2>4, <2>6, <2>9 DEF Promised
\* The hardware goes on with what it has.
<1>c. CASE ~StartDMA /\ ~LS_Wr(bus)
  <2>1. HwOwed \in Seq(Transfers) /\ Gives
    BY <1>c, GivesOwed
  <2>2. todo = HwOwed
    <3>1. pc # "start" /\ ~(slave_state = "IDLE" /\ bus.op = "write" /\ ToLcd(bus))
      BY <1>c, Feeds DEF LS_Wr
    <3> QED
      BY <1>1, <1>5, <3>1
  <2>4. slave_state = "IDLE" => slave_state' # "WRITE"
    BY <1>2, <1>c
  \* No call begins.
  <2>5. ASSUME PanelStep(<< >>), pc' # "start",
               ~(slave_state' = "IDLE" /\ bus'.op = "write" /\ ToLcd(bus'))
        PROVE  todo' = Owed' /\ Promised
    <3>1. Owed' = HwOwed'
      BY <1>6, <2>5
    <3>2. CASE Latch
      <4>1. Tail(todo) \in Seq(Transfers) /\ todo # << >> /\ Head(todo) = <<dcn, d>>
            /\ HwOwed' = Tail(todo)
        BY <2>1, <2>2, <3>2 DEF Gives
      <4>2. todo' = Tail(todo) \o << >> /\ panel' = Promise!Shown(<<dcn, d>>)
        BY <2>5, <3>2, <4>1 DEF PanelStep
      <4>3. todo' = Tail(todo)
        BY <1>4, <4>1, <4>2
      <4>4. len_reg' = len_reg
        <5>1. ctl_state # "IDLE"
          BY <1>3, <3>2
        <5>2. bus.op = "write" /\ bus.address = 3 /\ slave_state = "IDLE" => ctl_state = "IDLE"
          BY <1>1, Accesses, Quiescent
        <5> QED
          BY <1>2, <5>1, <5>2
      <4> QED
        BY <3>1, <4>1, <4>2, <4>3, <4>4 DEF Promised
    <3>3. CASE ~Latch
      <4>1. HwOwed' = todo
        BY <2>1, <2>2, <3>3 DEF Gives
      <4>2. todo' = todo /\ panel' = panel
        <5>1. todo' = todo \o << >> /\ panel' = panel
          BY <2>5, <3>3 DEF PanelStep
        <5> QED
          BY <1>4, <2>1, <2>2, <5>1
      <4>3. CASE slave_state = "IDLE" /\ bus.op = "write" /\ bus.address = 3
        <5>1. pc = "write" /\ bus.data \in FrameLengths
          BY <1>1, <4>3, Accesses
        <5>2. Begun = << >> /\ Words = << >>
          BY <4>3, <5>1, Quiescent
        <5>3. todo = << >>
          BY <1>4, <2>1, <2>2, <5>2 DEF HwOwed
        <5>4. len_reg' = bus.data
          BY <1>2, <4>3, <5>1, LengthFits
        <5> QED
          BY <3>1, <4>1, <4>2, <5>1, <5>3, <5>4 DEF Promised
      <4>4. CASE ~(slave_state = "IDLE" /\ bus.op = "write" /\ bus.address = 3)
        <5>1. len_reg' = len_reg
          BY <1>2, <4>4
        <5> QED
          BY <3>1, <4>1, <4>2, <5>1 DEF Promised
      <4> QED
        BY <4>3, <4>4
    <3> QED
      BY <3>2, <3>3
  \* A call begins.
  <2>6. ASSUME NEW asked, pc = "ready", bus.op = "none", Asks(asked), PanelStep(asked)
        PROVE  todo' = Owed' /\ Promised
    <3>1. slave_state = "IDLE" /\ ctl_state = "IDLE" /\ Begun = << >> /\ Words = << >>
      <4>1. slave_state = "IDLE"
        BY <1>1, <2>6, Accesses
      <4> QED
        BY <2>6, <4>1, Quiescent
    <3>2. ~Latch /\ todo = << >>
      BY <1>3, <1>4, <2>1, <2>2, <3>1 DEF HwOwed
    <3>3. asked \in Seq(Transfers)
      BY <2>6, AsksType
    <3>4. todo' = asked /\ panel' = panel
      <4>1. todo' = << >> \o asked /\ panel' = panel
        BY <2>6, <3>2 DEF PanelStep
      <4> QED
        BY <1>4, <3>3, <4>1
    <3>5. slave_state' = "IDLE" /\ len_reg' = len_reg /\ HwOwed' = << >>
      <4>1. ~LS_Rd(bus)
        BY <2>6 DEF LS_Rd
      <4> QED
        BY <1>2, <1>c, <2>1, <2>2, <2>6, <3>1, <3>2, <4>1 DEF Gives
    <3>6. Owed' = asked
      <4>1. ASSUME NEW c \in Commands, asked = <<Promise!Command(c)>>, bus' = Write(0, c),
                   pc' \in {"write", "LCD_RD"}
            PROVE  Owed' = asked
        <5>1. bus'.op = "write" /\ ToLcd(bus') /\ pc' # "start" /\ bus'.address = 0 /\ bus'.data = c
          BY <4>1 DEF Write, ToLcd
        <5>2. OnBus' = Promise!Command(c)
          BY <5>1 DEF OnBus
        <5> QED
          BY <1>6, <3>5, <4>1, <5>1, <5>2
      <4>2. ASSUME NEW v \in Values, asked = <<Promise!Value(v)>>, bus' = Write(1, v),
                   pc' = "write"
            PROVE  Owed' = asked
        <5>1. bus'.op = "write" /\ ToLcd(bus') /\ pc' # "start" /\ bus'.address = 1 /\ bus'.data = v
          BY <4>2 DEF Write, ToLcd
        <5>2. OnBus' = Promise!Value(v)
          BY <5>1 DEF OnBus
        <5> QED
          BY <1>6, <3>5, <4>2, <5>1, <5>2
      <4>3. ASSUME NEW n \in FrameLengths, asked = << >>, bus' = Write(3, n), pc' = "write"
            PROVE  Owed' = asked
        <5>1. ~ToLcd(bus') /\ pc' # "start"
          BY <4>3 DEF Write, ToLcd
        <5> QED
          BY <1>6, <3>5, <4>3, <5>1
      <4>4. ASSUME NEW a \in FrameAddresses, asked = Promise!FrameTransfers(a, len_reg),
                   bus' = Write(2, a), pc' = "start"
            PROVE  Owed' = asked
        <5>1. bus'.data = a
          BY <4>4 DEF Write
        <5> QED
          BY <1>6, <3>5, <4>4, <5>1
      <4> QED
        BY <2>6, <4>1, <4>2, <4>3, <4>4 DEF Asks
    <3> QED
      BY <2>6, <3>2, <3>4, <3>5, <3>6 DEF Promised
  <2>7. CASE Waiting
    <3>1. bus' = bus /\ pc' = pc /\ PanelStep(<< >>)
      BY <2>7, ProgramNext
    <3>2. ~(slave_state' = "IDLE" /\ bus'.op = "write" /\ ToLcd(bus'))
      <4> SUFFICES ASSUME slave_state' = "IDLE", bus.op = "write", ToLcd(bus) PROVE FALSE
        BY <3>1
      <4>1. slave_state # "IDLE"
        BY <1>c DEF LS_Wr
      <4>2. ~WaitEnds(LS_Busy)
        BY <2>7, <4>1, Feeds
      <4> QED
        BY <1>2, <4>1, <4>2
    <3> QED
      BY <1>c, <2>5, <3>1, <3>2, Feeds
  <2>8. CASE ~Waiting /\ bus.op # "none"
    <3>1. bus' = NoRequest /\ pc' = After /\ PanelStep(<< >>)
      BY <2>8, ProgramNext
    <3>2. bus'.op # "write" /\ pc' # "start"
      BY <3>1 DEF NoRequest, After
    <3> QED
      BY <2>5, <3>1, <3>2
  <2>9. CASE bus.op = "none"
    <3>1. CASE bus' = bus /\ pc' = pc /\ PanelStep(<< >>)
      BY <1>c, <2>5, <2>9, <3>1, Feeds
    <3>2. CASE CallAccess
      <4>1. CASE pc = "ready" /\ \E asked : Asks(asked) /\ PanelStep(asked)
        BY <2>6, <2>9, <4>1
      <4>2. CASE bus' \in {Read(0), Read(3)} /\ pc' \in {"ISBUSY", "reading"} /\ PanelStep(<< >>)
        <5>1. bus'.op # "write" /\ pc' # "start"
          BY <4>2 DEF Read
        <5> QED
          BY <2>5, <4>2, <5>1
      <4> QED
        BY <3>2, <4>1, <4>2 DEF CallAccess
    <3> QED
      BY <2>9, <3>1, <3>2, ProgramNext
  <2> QED
    BY <2>7, <2>8, <2>9
<1> QED
  BY <1>a, <1>b, <1>c

\* The words of a frame on every clock.
LEMMA FrameWordsStep ==
  ASSUME TopInv, AppInv, NoResetCode, WholeBursts,
         NEW waitrequest \in BOOLEAN, NEW valid \in BOOLEAN, LcdClock(waitrequest, valid)
  PROVE  FrameWords'
<1>1. Ordered' /\ WholeFrame' /\ NextWord' \in Nat
  BY AppWords
<1>2. ctl_state' = "WAIT_FIFO_RD" => fiford' = 1
  BY ControlNext DEF WritesNext
<1>3. Starting' => burst_counter' = 0 /\ word_counter' = 0 /\ mst_len' > 0
  <2>1. Starting' => StartDMA
    BY StartingFrom
  <2> QED
    BY <2>1, AppWords
<1> QED
  BY <1>1, <1>2, <1>3 DEF FrameWords, Ordered, WholeFrame

----------------------------------------------------------------------------
(* The inductive invariant of the program on the hardware. *)

LEMMA AppInitInv ==
  ASSUME AppInit
  PROVE  TopInv /\ AppInv
<1>1. TopInv
  BY TopInit DEF AppInit
<1>2. /\ pc = "ready" /\ quiet = 0 /\ todo = << >> /\ bus = NoRequest /\ strobe = 0
      /\ slave_state = "IDLE" /\ waitbusy = 1 /\ len_reg = DefaultLength /\ dma_state = "IDLE"
      /\ mst_state = "IDLE" /\ mst_addr = 0 /\ word_counter = 0 /\ fifo = << >>
      /\ ctl_state = "IDLE" /\ phase = 0
  BY DEF AppInit, Init, SlaveInit, DmaInit, MasterInit, FifoInit, ControllerInit
<1>3. NextWord = 0
  <2>1. NextToCome = 0 /\ Len(fifo) = 0
    BY <1>2 DEF NextToCome
  <2> QED
    BY <2>1 DEF NextWord
<1>4. AppTypeOK
  BY <1>1, <1>2, AppAssumption DEF AppTypeOK, TopInv
<1>5. ReadReturnsAnswer /\ AccessOf
  BY <1>2 DEF ReadReturnsAnswer, AccessOf
<1>6. Work
  BY <1>2 DEF Work
<1>7. Polling /\ WriteCycle /\ ReadCycle
  BY <1>2 DEF Polling, Starting, FrameStates, WriteCycle, WriteStates, ReadCycle
<1>8. FrameWords
  BY <1>2, <1>3 DEF FrameWords, Starting
<1>9. Owed = << >>
  <2>1. Words = << >>
    BY <1>1, <1>2, <1>8, WordsType
  <2>2. Begun = << >>
    BY <1>2 DEF Begun, Starting
  <2>3. Owed = Begun \o Words
    BY <1>2 DEF Owed, Words, NoRequest
  <2> QED
    BY <2>1, <2>2, <2>3
<1> QED
  BY <1>1, <1>2, <1>4, <1>5, <1>6, <1>7, <1>8, <1>9 DEF AppInv

LEMMA AppClockInv ==
  ASSUME TopInv, AppInv, NoResetCode, WholeBursts, EnoughQuiet, AppNext
  PROVE  TopInv' /\ AppInv' /\ Promised
<1>1. PICK waitrequest \in BOOLEAN, valid \in BOOLEAN :
        LcdClock(waitrequest, valid) /\ (CallStep \/ AccessEnds \/ Compute)
  BY DEF AppNext, AppClock
<1>2. /\ BusClock /\ AccessOf'
      /\ pc' \in {"ready", "write", "start", "poll", "ISBUSY", "LCD_RD", "read", "reading"}
      /\ quiet' \in 0..MinGap
  BY <1>1, ProgramStep DEF TopInv, AppInv
<1>3. TopInv'
  <2>1. [Next]_vars
    BY <1>1, <1>2 DEF Next
  <2> QED
    BY <2>1, TopStep
<1>4. AppTypeOK'
  BY <1>2, <1>3 DEF AppTypeOK, TopInv
<1>5. Work' /\ Polling' /\ WriteCycle' /\ FrameWords' /\ ReadCycle'
  BY <1>1, WorkStep, PollingStep, WriteCycleStep, FrameWordsStep, ReadCycleStep
<1>6. todo' = Owed' /\ Promised
  BY <1>1, OwedStep
<1>7. ReadReturnsAnswer'
  <2> SUFFICES ASSUME slave_state' = "READ", ~Waiting' PROVE Answered'
    BY DEF ReadReturnsAnswer, Answered
  <2>1. ~LS_Busy'
    BY DEF Waiting, AS_WaitRequest, WaitEnds
  <2>2. ctl_state' = "IDLE"
    BY <2>1 DEF LS_Busy
  <2> QED
    BY <1>5, <2>2 DEF ReadCycle
<1> QED
  BY <1>2, <1>3, <1>4, <1>5, <1>6, <1>7 DEF AppInv

LEMMA AppStutter ==
  ASSUME TopInv, AppInv, UNCHANGED appVars
  PROVE  TopInv' /\ AppInv'
<1>1. TopInv'
  BY TopStep DEF appVars
<1>2. /\ UNCHANGED <<slave_state, waitbusy, addr_reg, len_reg, isbusy, dma_state, dma_waitbusy>>
      /\ UNCHANGED <<mst_state, mst_addr, mst_len, burst_counter, word_counter, fifo, fifo_q>>
      /\ UNCHANGED <<ctl_state, phase, pins, lsrddata, fiford, curr_word>>
      /\ UNCHANGED <<bus, strobe, pc, quiet, todo, panel>>
  BY DEF appVars, vars, slaveVars, busVars, irqVars, dmaVars, mstVars, fifoVars, ctlVars
<1>3. UNCHANGED <<wrn, csn, dcn, d, rdn>>
  BY <1>2 DEF pins
<1>4. AppTypeOK' /\ AccessOf' /\ Work'
  BY <1>1, <1>2 DEF TopInv, AppInv, AppTypeOK, AccessOf, Work
<1>5. UNCHANGED <<Starting, OnBus, Transfer, NextToCome, NextWord, WordsToCome>>
  BY <1>2 DEF Starting, OnBus, Transfer, NextToCome, NextWord, WordsToCome
<1>6. Polling' /\ WriteCycle' /\ FrameWords'
  BY <1>2, <1>3, <1>5 DEF AppInv, Polling, WriteCycle, FrameWords
<1>7. ReadCycle' /\ ReadReturnsAnswer'
  BY <1>2, <1>3 DEF AppInv, ReadCycle, Answered, ReadReturnsAnswer, Waiting, AS_WaitRequest,
                    LS_Rd, LS_Wr, WaitEnds, LS_Busy
<1>8. UNCHANGED Begun
  BY <1>2, <1>5 DEF Begun
<1>9. UNCHANGED Owed
  BY <1>2, <1>5, <1>8 DEF Owed
<1> QED
  BY <1>1, <1>2, <1>4, <1>6, <1>7, <1>9 DEF AppInv

\* What the program and the hardware do on a clock, seen from the caller.
LEMMA PromisedNext ==
  ASSUME Promised
  PROVE  [Promise!DisplayNext]_<<todo, panel, len_reg>>
<1>1. ASSUME NEW asked, todo = << >>, Asks(asked), todo' = asked, UNCHANGED <<panel, len_reg>>
      PROVE  [Promise!DisplayNext]_<<todo, panel, len_reg>>
  <2>1. Promise!Call(asked)
    BY <1>1 DEF Promise!Call
  <2>2. CASE asked = << >>
    BY <1>1, <2>2
  <2>3. CASE asked # << >>
    BY <1>1, <2>1, <2>3 DEF Asks, Promise!DisplayNext
  <2> QED
    BY <2>2, <2>3
<1> QED
  BY <1>1 DEF Promised, Promise!DisplayNext, Promise!SetLength, Promise!Show

LEMMA AppStep ==
  ASSUME NoResetCode, WholeBursts, EnoughQuiet
  PROVE  TopInv /\ AppInv /\ [AppNext]_appVars
           => /\ TopInv' /\ AppInv'
              /\ [Promise!DisplayNext]_<<todo, panel, len_reg>>
<1> SUFFICES ASSUME TopInv, AppInv, [AppNext]_appVars
             PROVE  /\ TopInv' /\ AppInv'
                    /\ [Promise!DisplayNext]_<<todo, panel, len_reg>>
  OBVIOUS
<1>1. CASE AppNext
  BY <1>1, AppClockInv, PromisedNext
<1>2. CASE UNCHANGED appVars
  <2>1. UNCHANGED <<todo, panel, len_reg>>
    BY <1>2 DEF appVars, vars, slaveVars, busVars
  <2> QED
    BY <1>2, <2>1, AppStutter
<1> QED
  BY <1>1, <1>2

----------------------------------------------------------------------------
(* The theorems. *)

(* The inductive invariant of the program on the hardware: which access each   *)
(* driver call has on the bus and which part of the hardware works for it,     *)
(* that the words in the FIFO and on their way are the rest of the frame, that *)
(* what the panel has still to get is what the hardware still owes, and that   *)
(* LCD_RD returns the answer to its second strobe (lcd_top.vhd with            *)
(* hello_world.c).  For every memory and every burst length, FIFO, frame and   *)
(* value written, of a program that keeps the three rules of LcdApp.           *)
THEOREM AppInvariant ==
  ASSUME NoResetCode, WholeBursts, EnoughQuiet
  PROVE  AppSpec => [](TopInv /\ AppInv)
<1>1. AppInit => TopInv /\ AppInv
  BY AppInitInv
<1>2. TopInv /\ AppInv /\ [AppNext]_appVars => (TopInv /\ AppInv)'
  BY AppStep
<1> QED
  BY <1>1, <1>2, PTL DEF AppSpec

(* LCD_RD returns the answer to the second read strobe, never the dummy read's *)
(* nor an earlier call's (lcd_controller.vhd:218-225).                         *)
THEOREM ReadAnswer ==
  ASSUME NoResetCode, WholeBursts, EnoughQuiet
  PROVE  AppSpec => []ReadReturnsAnswer
<1>1. AppInv => ReadReturnsAnswer
  BY DEF AppInv
<1> QED
  BY AppInvariant, <1>1, PTL

(* The program on the hardware implements Display, step by step: the panel     *)
(* gets every write and every pixel of every frame once and in order, and a    *)
(* call begins only when the panel has all of the one before (the safety part  *)
(* of KeepsPromise).                                                           *)
THEOREM RefinesDisplay ==
  ASSUME NoResetCode, WholeBursts, EnoughQuiet
  PROVE  AppSpec => Promise!DisplaySafety
<1>1. AppInit => Promise!DisplayInit
  BY DEF AppInit, Init, SlaveInit, Promise!DisplayInit
<1>2. TopInv /\ AppInv /\ [AppNext]_appVars
        => [Promise!DisplayNext]_<<todo, panel, len_reg>>
  BY AppStep
<1>3. [Promise!DisplayNext]_<<todo, panel, len_reg>> => [Promise!DisplayNext]_(Promise!displayVars)
  BY DEF Promise!displayVars
<1> QED
  BY AppInvariant, <1>1, <1>2, <1>3, PTL DEF AppSpec, Promise!DisplaySafety

(* The program is one of the bus masters LcdTop allows: it keeps a request as  *)
(* long as AS_WaitRequest is high, so that every theorem about Spec holds of   *)
(* it as well.                                                                 *)
THEOREM ProgramKeepsProtocol ==
  ASSUME NoResetCode, WholeBursts, EnoughQuiet
  PROVE  AppSpec => Spec
<1>1. AppInit => Init
  BY DEF AppInit
<1>2. TopInv /\ AppInv /\ [AppNext]_appVars => [Next]_vars
  <2> SUFFICES ASSUME TopInv, AppInv, AppNext PROVE Next
    BY DEF appVars
  <2>1. PICK waitrequest \in BOOLEAN, valid \in BOOLEAN :
          LcdClock(waitrequest, valid) /\ (CallStep \/ AccessEnds \/ Compute)
    BY DEF AppNext, AppClock
  <2>2. BusClock
    BY <2>1, ProgramStep DEF TopInv, AppInv
  <2> QED
    BY <2>1, <2>2 DEF Next
<1> QED
  BY AppInvariant, <1>1, <1>2, PTL DEF AppSpec, Spec

=============================================================================
