------------------------------ MODULE I2cCore ------------------------------
(***************************************************************************)
(* i2c_core: the machine that makes START, bits, acknowledges and STOP out *)
(* of a command (LCD/hw/quartus/ip/i2c/hdl/i2c_core.vhd).  A command is    *)
(* the control register cr of the interface: records of the bits ack,      *)
(* stop, start, read, write.  A byte is a function from 1..Bits, bit 7 of  *)
(* the code first, as on the wire.  All outputs are registered, one clock  *)
(* behind the state.                                                       *)
(***************************************************************************)
EXTENDS Naturals

CONSTANT Bits      \* bits of a byte (8)

ASSUME BitsAssumption == Bits \in Nat \ {0}

Bit == {0, 1}
Byte == [1..Bits -> Bit]
ZeroByte == [i \in 1..Bits |-> 0]

VARIABLES
  p_state,    \* p_state
  ctr,        \* i_ctr: bits of the byte that are through
  dout,       \* i_dout: the byte being read
  ackbit,     \* i_ack_out: the last acknowledge sampled
  scl_out, sda_out, data_out, ack_out, busy, cmd_done   \* registered outputs

coreVars == <<p_state, ctr, dout, ackbit, scl_out, sda_out, data_out, ack_out, busy, cmd_done>>

(* The quarters of START, of a bit and of STOP that follow one another      *)
(* whatever the command.                                                    *)
Follows ==
  [Start_A |-> "Start_B", Start_B |-> "Start_C", Start_C |-> "Start_D",
   Rd_A |-> "Rd_B", Rd_B |-> "Rd_C", Rd_D |-> "Rd_E",
   WrAck_A |-> "WrAck_B", WrAck_B |-> "WrAck_C", WrAck_C |-> "WrAck_D",
   Wr_A |-> "Wr_B", Wr_B |-> "Wr_C", Wr_C |-> "Wr_D",
   RdAck_A |-> "RdAck_B", RdAck_B |-> "RdAck_C", RdAck_D |-> "RdAck_E",
   Stop_A |-> "Stop_B", Stop_B |-> "Stop_C", Stop_C |-> "Done"]

\* The states that wait for the pulse (i_sclk_en), and all that i_busy marks.
Paced == DOMAIN Follows \cup {"Start_D", "Rd_E", "WrAck_D", "Wr_D", "RdAck_E"}
Transferring == Paced \cup {"Rd_C", "Rd_F", "Wr_E", "RdAck_C"}
Finished == {"Done", "DoneAck"}
States == {"Reset", "Idle"} \cup Transferring \cup Finished

CoreTypeOK ==
  /\ p_state \in States
  /\ ctr \in 0..(Bits - 1)
  /\ dout \in Byte /\ data_out \in Byte
  /\ ackbit \in Bit /\ ack_out \in Bit
  /\ scl_out \in Bit /\ sda_out \in Bit
  /\ busy \in BOOLEAN /\ cmd_done \in BOOLEAN

CoreInit ==
  /\ p_state = "Reset"
  /\ ctr = 0
  /\ dout = ZeroByte /\ data_out = ZeroByte
  /\ ackbit = 0 /\ ack_out = 0
  /\ scl_out = 1 /\ sda_out = 1
  /\ busy = FALSE /\ cmd_done = FALSE

----------------------------------------------------------------------------
(* The pins.  Between commands the core keeps them as it samples them.      *)

KeepsPins == {"Idle"} \cup Finished

Scl(scl_in) ==
  IF p_state \in KeepsPins \cup {"Start_A"} THEN scl_in
  ELSE IF p_state \in {"Start_D", "Rd_A", "Rd_E", "Rd_F", "WrAck_A", "WrAck_D", "Wr_A",
                       "Wr_D", "Wr_E", "RdAck_A", "RdAck_E", "Stop_A"} THEN 0
  ELSE 1

\* Slip: the bit on SDA is taken by the counter's next value, as if it counted
\* on the same clock.
SdaEarly(cr, data_in, sda_in) ==
  IF p_state \in KeepsPins THEN sda_in
  ELSE IF p_state \in {"Start_C", "Start_D", "Stop_A", "Stop_B"} THEN 0
  ELSE IF p_state = "Wr_C" THEN data_in[((ctr + 1) % Bits) + 1]
  ELSE IF p_state \in {"Wr_A", "Wr_B", "Wr_D", "Wr_E"} THEN data_in[ctr + 1]
  ELSE IF p_state \in {"WrAck_A", "WrAck_B", "WrAck_C", "WrAck_D"} THEN cr.ack
  ELSE 1

Sda(cr, data_in, sda_in) ==
  IF p_state \in KeepsPins THEN sda_in
  ELSE IF p_state \in {"Start_C", "Start_D", "Stop_A", "Stop_B"} THEN 0
  ELSE IF p_state \in {"Wr_A", "Wr_B", "Wr_C", "Wr_D", "Wr_E"} THEN data_in[ctr + 1]
  ELSE IF p_state \in {"WrAck_A", "WrAck_B", "WrAck_C", "WrAck_D"} THEN cr.ack
  ELSE 1

Outputs(cr, data_in, scl_in, sda_in) ==
  /\ scl_out' = Scl(scl_in)
  /\ sda_out' = Sda(cr, data_in, sda_in)
  /\ data_out' = dout
  /\ ack_out' = ackbit
  /\ busy' = (p_state \in Transferring \cup Finished)
  /\ cmd_done' = (p_state \in Finished)

----------------------------------------------------------------------------
(* The states. *)

Go(next) == p_state' = next /\ UNCHANGED <<ctr, dout, ackbit>>

AwaitPulse(pulse) ==
  /\ p_state \in Paced
  /\ ~pulse
  /\ UNCHANGED <<p_state, ctr, dout, ackbit>>

Advance(pulse) ==
  /\ p_state \in DOMAIN Follows
  /\ pulse
  /\ Go(Follows[p_state])

LeaveReset ==
  /\ p_state = "Reset"
  /\ Go("Idle")

FirstQuarter(cr) == IF cr.write THEN "Wr_A" ELSE "Rd_A"

AwaitCommand(cr) ==
  /\ p_state = "Idle"
  /\ p_state' = IF ~(cr.read \/ cr.write) THEN "Idle"
                ELSE IF cr.start THEN "Start_A" ELSE FirstQuarter(cr)
  /\ ctr' = 0
  /\ UNCHANGED <<dout, ackbit>>

\* Slip: only a write goes on after START.
BeginByteOfWrite(pulse, cr) ==
  /\ p_state = "Start_D"
  /\ pulse
  /\ Go(IF cr.write THEN "Wr_A" ELSE "Start_D")

BeginByte(pulse, cr) ==
  /\ p_state = "Start_D"
  /\ pulse
  /\ Go(IF cr.read \/ cr.write THEN FirstQuarter(cr) ELSE "Start_D")

SampleBit(sda_in) ==
  /\ p_state = "Rd_C"
  /\ p_state' = "Rd_D"
  /\ dout' = [dout EXCEPT ![ctr + 1] = sda_in]
  /\ UNCHANGED <<ctr, ackbit>>

\* Slip: the bits are counted to eight where the counter counts from zero.
EndBitNever(pulse) ==
  /\ pulse
  /\ \/ p_state = "Rd_E" /\ Go(IF ctr = Bits THEN "WrAck_A" ELSE "Rd_F")
     \/ p_state = "Wr_D" /\ Go(IF ctr = Bits THEN "RdAck_A" ELSE "Wr_E")

EndBit(pulse) ==
  /\ pulse
  /\ \/ p_state = "Rd_E" /\ Go(IF ctr = Bits - 1 THEN "WrAck_A" ELSE "Rd_F")
     \/ p_state = "Wr_D" /\ Go(IF ctr = Bits - 1 THEN "RdAck_A" ELSE "Wr_E")

CountBit ==
  /\ \/ p_state = "Rd_F" /\ p_state' = "Rd_A"
     \/ p_state = "Wr_E" /\ p_state' = "Wr_A"
  /\ ctr' = (ctr + 1) % Bits
  /\ UNCHANGED <<dout, ackbit>>

SampleAck(sda_in) ==
  /\ p_state = "RdAck_C"
  /\ p_state' = "RdAck_D"
  /\ ackbit' = sda_in
  /\ UNCHANGED <<ctr, dout>>

EndAck(pulse, cr) ==
  /\ p_state \in {"WrAck_D", "RdAck_E"}
  /\ pulse
  /\ Go(IF cr.stop THEN "Stop_A" ELSE "Done")

SignalDone ==
  /\ p_state = "Done"
  /\ Go("DoneAck")

\* Slip: the core does not wait for the acknowledge.
AwaitDoneAckNever(cmd_done_ack) ==
  /\ p_state = "DoneAck"
  /\ Go("Idle")

AwaitDoneAck(cmd_done_ack) ==
  /\ p_state = "DoneAck"
  /\ Go(IF cmd_done_ack THEN "Idle" ELSE "DoneAck")

CoreClock(pulse, cr, data_in, cmd_done_ack, scl_in, sda_in) ==
  /\ Outputs(cr, data_in, scl_in, sda_in)
  /\ \/ AwaitPulse(pulse)
     \/ Advance(pulse)
     \/ LeaveReset
     \/ AwaitCommand(cr)
     \/ BeginByte(pulse, cr)
     \/ SampleBit(sda_in)
     \/ EndBit(pulse)
     \/ CountBit
     \/ SampleAck(sda_in)
     \/ EndAck(pulse, cr)
     \/ SignalDone
     \/ AwaitDoneAck(cmd_done_ack)

============================================================================
