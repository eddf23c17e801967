------------------------------- MODULE LcdApp -------------------------------
(***************************************************************************)
(* The Nios II program that drives the LCD (LCD/sw/nios2/application/      *)
(* hello_world.c) on top of the hardware of LcdTop.  It makes any sequence *)
(* of its driver calls, but as its Show_pics functions do: LCD_SHOW_FRAME  *)
(* is followed by polls of ISBUSY until one says no, and by nothing else.  *)
(*                                                                         *)
(* Between two accesses the bus is quiet for MinGap clocks at least: each  *)
(* call is a function call of its own in code compiled with -O0.           *)
(***************************************************************************)
EXTENDS LcdTop

CONSTANTS
  Commands, Values,   \* halfwords the program writes (bounds TLC)
  MinGap              \* least number of quiet clocks between two accesses

ProgramRequests ==
  {Write(0, c) : c \in Commands} \cup {Write(1, v) : v \in Values}
    \cup {Write(2, a) : a \in FrameAddresses} \cup {Write(3, n) : n \in FrameLengths}
    \cup {Read(0), Read(3)}

ASSUME AppAssumption ==
  /\ ProgramRequests \subseteq Requests
  /\ Commands \cup Values \subseteq 0..(HalfwordRange - 1)
  /\ FrameLengths \subseteq 0..(LengthRange - 1)
  /\ MinGap \in Nat \ {0}

VARIABLES
  pc,       \* where in the driver the program is, "ready" between two calls
  quiet,    \* quiet clocks that have still to pass
  todo,     \* history: the transfers the calls asked for and the panel did not get
  panel     \* the transfer the panel latched last, and a bit it changes

appVars == <<vars, pc, quiet, todo, panel>>

Promise == INSTANCE Display
  WITH Frames <- FrameAddresses, Lengths <- FrameLengths, length <- len_reg

AppTypeOK ==
  /\ TypeOK
  /\ pc \in {"ready", "write", "start", "poll", "ISBUSY", "LCD_RD", "read", "reading"}
  /\ quiet \in 0..MinGap

AppInit ==
  /\ Init
  /\ pc = "ready"
  /\ quiet = 0
  /\ todo = << >>
  /\ panel = Promise!NoTransfer

----------------------------------------------------------------------------
(* The panel latches on the rising edge of Wr_n while it is selected. *)

Latch == csn = 0 /\ wrn = 0 /\ wrn' = 1

PanelStep(asked) ==
  /\ todo' = (IF Latch /\ todo # << >> THEN Tail(todo) ELSE todo) \o asked
  /\ panel' = IF Latch THEN Promise!Shown(<<dcn, d>>) ELSE panel

----------------------------------------------------------------------------
(* The program: one access of a driver call, and what comes after it. *)

Access(from, request, to, asked) ==
  /\ pc = from
  /\ bus.op = "none" /\ quiet = 0
  /\ bus' = request
  /\ pc' = to
  /\ UNCHANGED quiet
  /\ PanelStep(asked)

LCD_WR_REG(c) ==
  Access("ready", Write(0, c), "write", <<Promise!Command(c)>>)

LCD_WR_DATA(v) ==
  Access("ready", Write(1, v), "write", <<Promise!Value(v)>>)

LCD_SET_DMA_LENGTH(n) ==
  Access("ready", Write(3, n), "write", << >>)

LCD_SHOW_FRAME(a) ==
  Access("ready", Write(2, a), "start", Promise!FrameTransfers(a, len_reg))

ISBUSY ==
  Access("poll", Read(3), "ISBUSY", << >>)

LCD_RD(c) ==
  \/ Access("ready", Write(0, c), "LCD_RD", <<Promise!Command(c)>>)
  \/ Access("read", Read(0), "reading", << >>)

CallStep ==
  \/ \E c \in Commands : LCD_WR_REG(c) \/ LCD_RD(c)
  \/ \E v \in Values : LCD_WR_DATA(v)
  \/ \E n \in FrameLengths : LCD_SET_DMA_LENGTH(n)
  \/ \E a \in FrameAddresses : LCD_SHOW_FRAME(a)
  \/ ISBUSY

\* What the program does when its access is over.
After ==
  CASE pc = "start"  -> "poll"
    [] pc = "ISBUSY" -> IF isbusy THEN "poll" ELSE "ready"
    [] pc = "LCD_RD" -> "read"
    [] OTHER         -> "ready"

AccessEnds ==
  /\ bus.op # "none" /\ ~Waiting
  /\ bus' = NoRequest
  /\ quiet' = MinGap - 1
  /\ pc' = After
  /\ PanelStep(<< >>)

\* The access is stretched, or the program computes (its delay loops).
Compute ==
  /\ bus.op = "none" \/ Waiting
  /\ quiet' = IF quiet > 0 THEN quiet - 1 ELSE 0
  /\ UNCHANGED <<bus, pc>>
  /\ PanelStep(<< >>)

AppClock(waitrequest, valid) ==
  /\ LcdClock(waitrequest, valid)
  /\ CallStep \/ AccessEnds \/ Compute

AppNext == \E waitrequest, valid \in BOOLEAN : AppClock(waitrequest, valid)

AppSpec == AppInit /\ [][AppNext]_appVars

(* As for LcdTop; and the program does not stop inside a driver call. *)
AppFairness ==
  /\ WF_appVars(AppNext)
  /\ WF_appVars(AM_Rd(FIFO_Almost_Full) /\ \E valid \in BOOLEAN : AppClock(FALSE, valid))
  /\ WF_appVars(\E waitrequest \in BOOLEAN : AppClock(waitrequest, TRUE))
  /\ WF_appVars(AppNext /\ pc # "ready" /\ CallStep)

AppFairSpec == AppSpec /\ AppFairness

----------------------------------------------------------------------------

\* The panel gets what the driver calls ask for: every write and every pixel of
\* every frame once, in order, and a call is made only when the last one's
\* transfers are over, though the hardware drops or displaces an access made
\* too soon.  Includes that every transfer asked for is made.
KeepsPromise == Promise!DisplaySpec

\* LCD_RD returns the answer to the second read strobe of the panel, never the
\* dummy read's nor that of an earlier LCD_RD (lcd_controller.vhd:218-225).
ReadReturnsAnswer ==
  pc = "reading" /\ slave_state = "READ" /\ ~Waiting
    => strobe = 2 /\ lsrddata = <<"panel", 2>>

----------------------------------------------------------------------------
(* What is asked of the program, and why it keeps the promise: at every     *)
(* moment the state of the hardware tells what the panel has still to get.  *)

\* No halfword is the reset code: the controller takes a data halfword for it as
\* well as a command (lcd_controller.vhd, IDLE).
NoResetCode == RESET_CODE \notin Commands \cup Values

\* The master fetches whole bursts only (lcd_master.vhd:91).
WholeBursts ==
  \A n \in FrameLengths \cup {DefaultLength} : n > 0 /\ n % BurstLength = 0

\* One clock is not enough: ISBUSY would look before the controller is at work.
EnoughQuiet == MinGap >= 2

\* The access a call has on the bus.
AccessOf ==
  /\ pc \in {"ready", "poll", "read"} => bus = NoRequest
  /\ pc = "write" => \/ \E c \in Commands : bus = Write(0, c)
                     \/ \E v \in Values : bus = Write(1, v)
                     \/ \E n \in FrameLengths : bus = Write(3, n)
  /\ pc = "start" => \E a \in FrameAddresses : bus = Write(2, a)
  /\ pc = "LCD_RD" => \E c \in Commands : bus = Write(0, c)
  /\ pc = "ISBUSY" => bus = Read(3)
  /\ pc = "reading" => bus = Read(0)

\* The master has the frame, the controller takes notice on this clock.
Starting == mst_state = "READING" /\ ctl_state = "IDLE"

\* The controller works for the slave or for the master, one at a time, and the
\* slave waits until it is done.
Work ==
  /\ slave_state = "IDLE" => waitbusy = 1
  /\ slave_state = "WRITE" => bus.op = "write" /\ ToLcd(bus)
  /\ slave_state = "READ" => pc = "reading"
  /\ ctl_state = "WRITE" => slave_state = "WRITE"
  /\ ctl_state \in {"READ_DUMMY", "READ"} => slave_state = "READ"
  /\ slave_state # "IDLE" /\ ctl_state = "IDLE" => waitbusy = 0
  /\ ctl_state # "RESET_LCD"
  /\ ctl_state \in {"IDLE", "WAIT_FIFO", "WAIT_FIFO_RD"} => phase = 0
  /\ len_reg \in FrameLengths \cup {DefaultLength}

\* The program polls until the frame is through, and does not ask too soon.
Polling ==
  /\ pc \notin {"poll", "ISBUSY"} => dma_state = "IDLE"
  /\ Starting => pc = "poll" /\ quiet >= 1
  /\ ctl_state \in FrameStates => isbusy \/ pc = "poll"
  /\ dma_state = "ADDRESS" /\ ctl_state = "IDLE" /\ ~Starting => isbusy /\ dma_waitbusy = 0

\* The transfer the access on the bus, or the write cycle under way, makes.
OnBus == IF bus.address = 0 THEN Promise!Command(bus.data) ELSE Promise!Value(bus.data)

Transfer ==
  CASE ctl_state = "WRITE"       -> OnBus
    [] ctl_state = "NEW_FRAME"   -> Promise!Command(44)
    [] ctl_state = "WRITE_PIXEL" -> Promise!Pixel("lo", fifo_q)
    [] OTHER                     -> Promise!Pixel("hi", curr_word)

\* The phases of a write cycle, and what is on the pins until Wr_n rises.
WriteCycle ==
  ctl_state \in WriteStates =>
    /\ phase \in 0..4
    /\ ctl_state = "WRITE" => phase # 0
    /\ phase \in {1, 2} => wrn = 0 /\ csn = 0 /\ <<dcn, d>> = Transfer

\* The words of the frame the controller has not popped: they are in the FIFO, in
\* place, or still to be fetched.
NextToCome == mst_addr + 4 * word_counter
NextWord   == NextToCome - 4 * Len(fifo)

WordsToCome ==
  IF mst_state = "IDLE" THEN 0 ELSE mst_len - (BurstLength * burst_counter + word_counter)

FrameWords ==
  /\ \A i \in 1..Len(fifo) : fifo[i] = NextWord + 4 * (i - 1)
  /\ ctl_state = "WAIT_FIFO_RD" => fiford = 1
  /\ NextWord \in Nat
  /\ mst_state # "IDLE" =>
       /\ mst_len % BurstLength = 0
       /\ BurstLength * burst_counter <= mst_len
  /\ mst_state = "RECEIVING" => BurstLength * (burst_counter + 1) <= mst_len
  /\ Starting => burst_counter = 0 /\ word_counter = 0 /\ mst_len > 0

\* What the panel has still to get of the access, or of the command and the word,
\* the controller has begun with or takes up on this clock.
Begun ==
  CASE Starting                            -> <<Promise!Command(44)>>
    [] ctl_state = "NEW_FRAME"             -> IF phase <= 2 THEN <<Transfer>> ELSE << >>
    [] ctl_state = "WRITE"                 -> IF phase <= 2 THEN <<Transfer>> ELSE << >>
    [] ctl_state = "WRITE_PIXEL_SECOND"    -> IF phase <= 2 THEN <<Transfer>> ELSE << >>
    [] ctl_state = "WRITE_PIXEL"           ->
         IF phase <= 2 THEN <<Transfer, Promise!Pixel("hi", fifo_q)>>
                       ELSE <<Promise!Pixel("hi", fifo_q)>>
    [] OTHER                               -> << >>

\* What the panel has still to get.
Owed ==
  IF pc = "start"
  THEN Promise!FrameTransfers(bus.data, len_reg)
  ELSE IF slave_state = "IDLE" /\ bus.op = "write" /\ ToLcd(bus)
  THEN <<OnBus>>
  ELSE Begun \o Promise!Pixels(NextWord, Len(fifo) + WordsToCome)

\* The two strobes of a read, and the answer it keeps.
Answered == strobe = 2 /\ lsrddata = <<"panel", 2>>

ReadCycle ==
  /\ ctl_state \in {"READ_DUMMY", "READ"} =>
       /\ phase \in 0..8
       /\ rdn = 0 <=> phase \in 1..4
  /\ CASE ctl_state = "READ_DUMMY" -> IF phase = 0 THEN strobe \in {0, 2} ELSE strobe = 1
       [] ctl_state = "READ"       -> IF phase = 0 THEN strobe = 1 ELSE strobe = 2
       [] OTHER                    -> strobe \in {0, 2}
  /\ ctl_state = "READ" /\ phase > 4 => Answered
  /\ slave_state = "READ" /\ ctl_state = "IDLE" => Answered

\* Inductive, with TopInv.
AppInv ==
  /\ AppTypeOK
  /\ ReadReturnsAnswer
  /\ AccessOf
  /\ Work
  /\ Polling
  /\ WriteCycle
  /\ FrameWords
  /\ ReadCycle
  /\ todo = Owed

\* No access and no wait for a frame lasts for ever: every driver call returns.
CallsReturn == pc # "ready" ~> pc = "ready"

============================================================================
