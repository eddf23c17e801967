-------------------------------- MODULE I2c --------------------------------
(***************************************************************************)
(* The I2C master under any device and any Avalon master that keeps the    *)
(* rule the status register is for: it writes a command only after it has  *)
(* read that no transfer is in progress.  All other accesses it makes when *)
(* it likes, and the whole may be reset at any time.                       *)
(***************************************************************************)
EXTENDS I2cInterface

CONSTANTS
  Controls, Data, Divisors,    \* what the Avalon master writes (bounds TLC)
  Reads                        \* the registers it reads (bounds TLC)

ASSUME I2cAssumption ==
  /\ Controls \subseteq Control
  /\ Data \subseteq Byte
  /\ Divisors \subseteq Nat
  /\ Reads \subseteq 0..3

VARIABLES
  seen,      \* the Avalon master has read TIP = 0 since its last command
  ran        \* history: the core has been at work since the last command

vars == <<interfaceVars, seen, ran>>

IsCommand(access) ==
  access.op = "write" /\ access.address = 1 /\ (access.data.read \/ access.data.write)

Accesses ==
  {NoAccess} \cup {Read(a) : a \in Reads} \cup {Write(0, d) : d \in Data}
    \cup {Write(1, c) : c \in Controls} \cup {Write(3, n) : n \in Divisors}

Polite(access) == IsCommand(access) => seen

Observe(access) ==
  seen' = IF IsCommand(access) THEN FALSE
          ELSE IF access.op = "read" /\ access.address = 2 /\ ~TIP THEN TRUE
          ELSE seen

Accepted(access) == IsCommand(access) /\ ~TIP

Clock(access) ==
  /\ \E dev \in Bit : InterfaceClock(access, dev)
  /\ Observe(access)
  /\ ran' = (~Accepted(access) /\ (ran \/ p_state \in Transferring))

Reset ==
  /\ p_state' = "Reset"
  /\ ctr' = 0
  /\ dout' = ZeroByte /\ data_out' = ZeroByte
  /\ ackbit' = 0 /\ ack_out' = 0
  /\ scl_out' = 1 /\ sda_out' = 1
  /\ busy' = FALSE /\ cmd_done' = FALSE
  /\ clk_ctr' = 0 /\ sclk' = TRUE
  /\ cr' = NoControl
  /\ data_in' = ZeroByte
  /\ clkdiv' = DefaultDivisor
  /\ int_pe' = FALSE /\ cmd_done_ack' = FALSE
  /\ readdata' = <<0, ZeroByte>> /\ irq' = FALSE
  /\ scl_in' = 1 /\ sda_in' \in Bit
  /\ seen' = FALSE /\ ran' = FALSE

TypeOK ==
  /\ InterfaceTypeOK
  /\ seen \in BOOLEAN /\ ran \in BOOLEAN

Init ==
  /\ InterfaceInit
  /\ seen = FALSE /\ ran = FALSE

ClockEdge == \E access \in Accesses : Polite(access) /\ Clock(access)

Next == ClockEdge \/ Reset

Spec == Init /\ [][Next]_vars

\* The clock runs.
FairSpec == Spec /\ WF_vars(ClockEdge)

----------------------------------------------------------------------------

\* A transfer that has begun has its command: the status shows it in progress
\* to the end, so no access can change the command, the byte or the divisor
\* under it (i2c_interface.vhd:291-310).
TransferIsShown == p_state \in Transferring => TIP

\* A command is over only when the core has carried it out; none is taken for
\* done on the strength of the command before it (i2c_interface.vhd:310).
EndsWhenDone ==
  [][ TIP /\ ~TIP' => (p_state = "DoneAck" /\ ran) \/ p_state' = "Reset" ]_vars

\* What the bus is told of a byte is what the processor asked: neither the byte
\* nor the acknowledge and stop bits change until the core is through.
CommandHeld ==
  [][ (p_state \in Transferring /\ p_state' # "Reset")
        => cr' = cr /\ data_in' = data_in /\ clkdiv' = clkdiv ]_vars

\* Every command ends: a driver that polls TIP goes on.
CommandEnds == TIP ~> ~TIP

----------------------------------------------------------------------------
(* The inductive invariant: core and interface agree, the core has been at  *)
(* work when it says so, and the Avalon master knows when it may command.   *)

Handshake ==
  /\ Agreed
  /\ p_state = "Done" \/ (p_state = "DoneAck" /\ TIP) => ran
  /\ TIP \/ p_state = "DoneAck" => ~seen

I2cInv ==
  /\ TypeOK
  /\ Handshake

============================================================================
