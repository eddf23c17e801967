---------------------------- MODULE I2cInterface ---------------------------
(***************************************************************************)
(* i2c_interface: the registers a processor sees, wired to the clock       *)
(* generator and the core, and the two pins                                *)
(* (LCD/hw/quartus/ip/i2c/hdl/i2c_interface.vhd).  The access on the       *)
(* Avalon port and what the device does to SDA are parameters of a clock.  *)
(***************************************************************************)
EXTENDS I2cClkgen, I2cCore

CONSTANT DefaultDivisor    \* what reset loads into the clock divisor (0x83)

ASSUME DivisorAssumption == DefaultDivisor \in Nat

Control == [ack : Bit, stop : BOOLEAN, start : BOOLEAN, read : BOOLEAN,
            write : BOOLEAN, int_en : BOOLEAN]
NoControl == [ack |-> 0, stop |-> FALSE, start |-> FALSE, read |-> FALSE,
              write |-> FALSE, int_en |-> FALSE]

VARIABLES
  cr,            \* the control register
  data_in,       \* i_data_in: the byte to write
  clkdiv,        \* i_clkdiv_reg
  int_pe,        \* i_int_pe_reg
  cmd_done_ack,  \* i_cmd_done_ack
  readdata, irq, \* registered outputs to the Avalon bus
  scl_in, sda_in \* the pins one clock ago

registerVars == <<cr, data_in, clkdiv, int_pe, cmd_done_ack>>
interfaceVars == <<clkgenVars, coreVars, registerVars, readdata, irq, scl_in, sda_in>>

NoAccess == [op |-> "none"]
Read(a) == [op |-> "read", address |-> a]
Write(a, d) == [op |-> "write", address |-> a, data |-> d]

TIP == cr.read \/ cr.write

Status == [lar |-> ack_out, bsy |-> busy, ipe |-> int_pe, tip |-> TIP]

InterfaceTypeOK ==
  /\ ClkgenTypeOK
  /\ CoreTypeOK
  /\ cr \in Control
  /\ data_in \in Byte
  /\ clkdiv \in Nat
  /\ int_pe \in BOOLEAN /\ cmd_done_ack \in BOOLEAN /\ irq \in BOOLEAN
  /\ scl_in \in Bit /\ sda_in \in Bit

\* A reset long enough for the pins to be sampled: nobody pulls SDA down.
InterfaceInit ==
  /\ ClkgenInit
  /\ CoreInit
  /\ cr = NoControl
  /\ data_in = ZeroByte
  /\ clkdiv = DefaultDivisor
  /\ int_pe = FALSE /\ cmd_done_ack = FALSE
  /\ readdata = <<0, ZeroByte>> /\ irq = FALSE
  /\ scl_in = 1 /\ sda_in = 1

----------------------------------------------------------------------------
(* SCL is driven both ways, SDA low or left to the pull-up and the device.  *)

SCL == scl_out
SDA(dev) == IF sda_out = 1 THEN dev ELSE 0

Registers ==
  <<data_out, cr, Status, clkdiv>>

\* What was read last, with the address that tells what it is.
ReadPort(access) ==
  readdata' = IF access.op = "read"
              THEN <<access.address, Registers[access.address + 1]>> ELSE readdata

\* While no transfer is in progress: registers are written, and any access to
\* the data register takes back the pending interrupt.
AcceptAccess(access) ==
  /\ ~TIP
  /\ data_in' = IF access.op = "write" /\ access.address = 0 THEN access.data ELSE data_in
  /\ cr' = IF access.op = "write" /\ access.address = 1 THEN access.data ELSE cr
  /\ clkdiv' = IF access.op = "write" /\ access.address = 3 THEN access.data ELSE clkdiv
  /\ int_pe' = IF access.op # "none" /\ access.address = 0 THEN FALSE ELSE int_pe
  /\ cmd_done_ack' = FALSE

\* Slip: a write to the data register is not held off by TIP.
AwaitDoneTakesData(access) ==
  /\ TIP
  /\ ~cmd_done
  /\ data_in' = IF access.op = "write" /\ access.address = 0 THEN access.data ELSE data_in
  /\ cmd_done_ack' = FALSE
  /\ UNCHANGED <<cr, clkdiv, int_pe>>

\* While one is, writes and the clearing of the interrupt are ignored.
AwaitDone(access) ==
  /\ TIP
  /\ ~cmd_done
  /\ cmd_done_ack' = FALSE
  /\ UNCHANGED <<cr, data_in, clkdiv, int_pe>>

\* Slip: the command bits are cleared, but the core is not told.
EndCommandUnacknowledged ==
  /\ TIP
  /\ cmd_done
  /\ cr' = [cr EXCEPT !.write = FALSE, !.read = FALSE, !.start = FALSE, !.stop = FALSE]
  /\ int_pe' = TRUE
  /\ cmd_done_ack' = FALSE
  /\ UNCHANGED <<data_in, clkdiv>>

EndCommand ==
  /\ TIP
  /\ cmd_done
  /\ cr' = [cr EXCEPT !.write = FALSE, !.read = FALSE, !.start = FALSE, !.stop = FALSE]
  /\ int_pe' = TRUE
  /\ cmd_done_ack' = TRUE
  /\ UNCHANGED <<data_in, clkdiv>>

InterfaceClock(access, dev) ==
  /\ ClkgenClock(clkdiv)
  /\ CoreClock(sclk, cr, data_in, cmd_done_ack, scl_in, sda_in)
  /\ AcceptAccess(access) \/ AwaitDone(access) \/ EndCommand
  /\ ReadPort(access)
  /\ irq' = (int_pe /\ cr.int_en)
  /\ scl_in' = SCL
  /\ sda_in' = SDA(dev)

----------------------------------------------------------------------------
(* Core and interface agree on which of them has the command.  cmd_done is  *)
(* one clock behind the core, and still up when the core is idle again; TIP *)
(* is down then, and only a master that did not look could have raised it.  *)

Agreed ==
  /\ p_state \in Transferring \cup {"Done"} => TIP /\ ~cmd_done
  /\ p_state = "DoneAck" => cmd_done /\ (TIP <=> ~cmd_done_ack)
  /\ p_state # "DoneAck" => ~cmd_done_ack
  /\ cmd_done /\ p_state # "DoneAck" => ~TIP
  /\ p_state = "Reset" => ~TIP /\ ~cmd_done

============================================================================
