------------------------------ MODULE LcdSlave ------------------------------
(***************************************************************************)
(* LCD_Slave: the Avalon slave the processor programs the LCD through      *)
(* (LCD/hw/hdl/lcd_slave.vhd).  Two state machines share one bus: the      *)
(* first turns an access to address 0 (command) or 1 (data) into a strobe  *)
(* for the controller and stretches it until the controller was busy and   *)
(* is free again; the second starts the DMA on a write to address 2 and    *)
(* raises AS_IRQ when the controller was busy and is free again.           *)
(*                                                                         *)
(* The bus request `as' and `busy' (LS_Busy) are inputs, so parameters.    *)
(* std_logic registers are 0 or 1.                                         *)
(***************************************************************************)
EXTENDS Naturals

CONSTANTS
  DefaultLength,   \* the length rst_n loads (38400)
  LengthRange      \* how many values len_reg(30 downto 0) has (2^31)

ASSUME DefaultLengthAssumption == DefaultLength \in Nat
ASSUME LengthRangeAssumption == LengthRange \in Nat /\ DefaultLength < LengthRange

HalfwordRange == 65536   \* how many values the lines LS_WrData have

VARIABLES
  slave_state,     \* state_reg
  waitbusy,        \* waitbusy_reg: LS_Busy has still to go high
  addr_reg,
  len_reg,         \* len_reg(30 downto 0)
  isbusy,          \* len_reg(31): LS_Busy one clock ago
  dma_state,       \* dma_state_reg
  dma_waitbusy     \* dma_waitbusy_reg

busVars   == <<slave_state, waitbusy, addr_reg, len_reg>>
irqVars   == <<dma_state, dma_waitbusy>>
slaveVars == <<busVars, isbusy, irqVars>>

NoRequest == [op |-> "none", address |-> 0, data |-> 0]
Read(a)     == [op |-> "read", address |-> a, data |-> 0]
Write(a, v) == [op |-> "write", address |-> a, data |-> v]

SlaveTypeOK ==
  /\ slave_state \in {"IDLE", "READ", "WRITE"}
  /\ waitbusy \in {0, 1}
  /\ addr_reg \in Nat
  /\ len_reg \in 0..(LengthRange - 1)
  /\ isbusy \in BOOLEAN
  /\ dma_state \in {"IDLE", "ADDRESS", "IRQ"}
  /\ dma_waitbusy \in {0, 1}

\* The values rst_n loads.
SlaveInit ==
  /\ slave_state = "IDLE"
  /\ waitbusy = 1
  /\ addr_reg = 0
  /\ len_reg = DefaultLength
  /\ isbusy = FALSE
  /\ dma_state = "IDLE"
  /\ dma_waitbusy = 1

----------------------------------------------------------------------------
(* Combinational outputs. *)

ToLcd(as)   == as.address \in {0, 1}
LS_Rd(as)   == slave_state = "IDLE" /\ as.op = "read" /\ ToLcd(as)
LS_Wr(as)   == slave_state = "IDLE" /\ as.op = "write" /\ ToLcd(as)
LS_DC_n(as) == IF LS_Wr(as) /\ as.address = 0 THEN 0 ELSE 1

\* AS_WrData(15 downto 0) from the write's first clock to its last.
LS_WrData(as) ==
  IF LS_Wr(as) \/ slave_state = "WRITE" THEN as.data % HalfwordRange ELSE 0

WaitEnds(busy) == ~busy /\ waitbusy = 0

AS_WaitRequest(as, busy) ==
  \/ LS_Rd(as)
  \/ LS_Wr(as)
  \/ slave_state # "IDLE" /\ ~WaitEnds(busy)

MS_StartDMA(as, busy) ==
  dma_state = "IDLE" /\ as.op = "write" /\ as.address = 2 /\ ~busy

AS_IRQ(busy) ==
  \/ dma_state = "ADDRESS" /\ ~busy /\ dma_waitbusy = 0
  \/ dma_state = "IRQ"

----------------------------------------------------------------------------
(* state_machine_process *)

\* No access, or a read of the address or length register.
RegisterRead(as) ==
  /\ slave_state = "IDLE"
  /\ as.op = "none" \/ (as.op = "read" /\ ~ToLcd(as))
  /\ UNCHANGED busVars

LcdAccess(as) ==
  /\ \/ LS_Rd(as) /\ slave_state' = "READ"
     \/ LS_Wr(as) /\ slave_state' = "WRITE"
  /\ UNCHANGED <<waitbusy, addr_reg, len_reg>>

\* The address is stored even when no DMA can start with it; of a length the top
\* bit is lost.
RegisterWrite(as) ==
  /\ slave_state = "IDLE"
  /\ as.op = "write"
  /\ \/ as.address = 2 /\ addr_reg' = as.data /\ UNCHANGED len_reg
     \/ as.address = 3 /\ len_reg' = as.data % LengthRange /\ UNCHANGED addr_reg
  /\ UNCHANGED <<slave_state, waitbusy>>

\* Slip: waitbusy is not cleared when the controller goes busy.
AwaitLcdForever(busy) ==
  /\ slave_state # "IDLE"
  /\ waitbusy' = 1
  /\ slave_state' = IF WaitEnds(busy) THEN "IDLE" ELSE slave_state
  /\ UNCHANGED <<addr_reg, len_reg>>

AwaitLcd(busy) ==
  /\ slave_state # "IDLE"
  /\ waitbusy' = IF busy THEN 0 ELSE 1
  /\ slave_state' = IF WaitEnds(busy) THEN "IDLE" ELSE slave_state
  /\ UNCHANGED <<addr_reg, len_reg>>

(* dma_process *)

AwaitAddress(as, busy) ==
  /\ dma_state = "IDLE"
  /\ dma_state' = IF MS_StartDMA(as, busy) THEN "ADDRESS" ELSE "IDLE"
  /\ UNCHANGED dma_waitbusy

\* Slip: the frame is taken for over before the controller was busy with it.
AwaitFrameHasty(busy) ==
  /\ dma_state = "ADDRESS"
  /\ dma_waitbusy' = IF busy THEN 0 ELSE 1
  /\ dma_state' = IF ~busy THEN "IRQ" ELSE "ADDRESS"

\* Slip: waitbusy is not cleared when the controller goes busy.
AwaitFrameForever(busy) ==
  /\ dma_state = "ADDRESS"
  /\ dma_waitbusy' = 1
  /\ dma_state' = IF ~busy /\ dma_waitbusy = 0 THEN "IRQ" ELSE "ADDRESS"

AwaitFrame(busy) ==
  /\ dma_state = "ADDRESS"
  /\ dma_waitbusy' = IF busy THEN 0 ELSE 1
  /\ dma_state' = IF ~busy /\ dma_waitbusy = 0 THEN "IRQ" ELSE "ADDRESS"

HoldIrq ==
  /\ dma_state = "IRQ"
  /\ dma_state' = "IDLE"
  /\ UNCHANGED dma_waitbusy

SlaveClock(as, busy) ==
  /\ RegisterRead(as) \/ LcdAccess(as) \/ RegisterWrite(as) \/ AwaitLcd(busy)
  /\ AwaitAddress(as, busy) \/ AwaitFrame(busy) \/ HoldIrq
  /\ isbusy' = busy

============================================================================
