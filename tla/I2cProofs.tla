----------------------------- MODULE I2cProofs -----------------------------
(***************************************************************************)
(* Proofs about I2c, for bytes of any length, any divisor and any accesses *)
(* of a polite Avalon master, resets included; and about I2cDriver: that   *)
(* its writes land, for any calls and any divisor; and, for calls that     *)
(* have bytes to transfer and divisors above 0, that core, device and      *)
(* program keep in step on the two wires, and that the driver implements   *)
(* I2cService.                                                             *)
(***************************************************************************)
EXTENDS I2c, I2cDriver, WellFoundedInduction, TLAPS

\* An access writes what the register takes.
Fits(access) ==
  /\ access.op = "write" /\ access.address = 0 => access.data \in Byte
  /\ access.op = "write" /\ access.address = 1 => access.data \in Control
  /\ access.op = "write" /\ access.address = 3 => access.data \in Nat

LEMMA AccessCases ==
  ASSUME NEW access \in Accesses
  PROVE  Fits(access)
  BY I2cAssumption DEF Accesses, NoAccess, Read, Write, Fits

\* A test for membership is a Boolean.
LEMMA MembershipIsBoolean ==
  ASSUME NEW e, NEW S, NEW b, b = (e \in S)
  PROVE  b \in BOOLEAN
<1>1. CASE e \in S
  BY <1>1
<1>2. CASE e \notin S
  BY <1>2
<1> QED BY <1>1, <1>2

\* The states the core goes to are states of the core.
LEMMA StatesTyped ==
  ASSUME NEW s \in DOMAIN Follows
  PROVE  Follows[s] \in Paced \cup {"Rd_C", "RdAck_C", "Done"}
  BY DEF Follows, Paced

LEMMA CoreTyped ==
  ASSUME InterfaceTypeOK,
         CoreClock(sclk, cr, data_in, cmd_done_ack, scl_in, sda_in)
  PROVE  CoreTypeOK'
<1> USE DEF InterfaceTypeOK, CoreTypeOK
<1>1. scl_out' \in Bit
  BY DEF CoreClock, Outputs, Scl, Bit
<1>2. sda_out' \in Bit
  <2>1. ctr + 1 \in 1..Bits
    BY BitsAssumption
  <2>2. data_in[ctr + 1] \in Bit /\ cr.ack \in Bit
    BY <2>1 DEF Byte, Control
  <2> QED BY <2>2 DEF CoreClock, Outputs, Sda, Bit
<1>3. data_out' \in Byte /\ ack_out' \in Bit
  BY DEF CoreClock, Outputs
<1>4. /\ busy' = (p_state \in Transferring \cup Finished)
      /\ cmd_done' = (p_state \in Finished)
  BY Zenon DEF CoreClock, Outputs
<1>5. busy' \in BOOLEAN /\ cmd_done' \in BOOLEAN
  BY <1>4, MembershipIsBoolean
<1>6. /\ p_state' \in States
      /\ ctr' \in 0..(Bits - 1)
      /\ dout' \in Byte
      /\ ackbit' \in Bit
  <2> USE DEF Go, States, Transferring, Paced, Finished
  <2>1. CASE AwaitPulse(sclk)
    BY <2>1 DEF AwaitPulse
  <2>2. CASE Advance(sclk)
    BY <2>2, StatesTyped DEF Advance
  <2>3. CASE LeaveReset \/ SignalDone \/ AwaitDoneAck(cmd_done_ack)
    BY <2>3 DEF LeaveReset, SignalDone, AwaitDoneAck
  <2>4. CASE AwaitCommand(cr)
    BY <2>4, BitsAssumption DEF AwaitCommand, FirstQuarter, Follows
  <2>5. CASE BeginByte(sclk, cr)
    BY <2>5 DEF BeginByte, FirstQuarter, Follows
  <2>6. CASE SampleBit(sda_in)
    <3>1. ctr + 1 \in 1..Bits
      BY BitsAssumption
    <3>2. dout' \in Byte
      BY <2>6, <3>1 DEF SampleBit, Byte
    <3> QED BY <2>6, <3>2 DEF SampleBit, Follows
  <2>7. CASE EndBit(sclk)
    BY <2>7 DEF EndBit, Follows
  <2>8. CASE CountBit
    <3>1. (ctr + 1) % Bits \in 0..(Bits - 1)
      BY BitsAssumption
    <3> QED BY <2>8, <3>1 DEF CountBit, Follows
  <2>9. CASE SampleAck(sda_in)
    BY <2>9 DEF SampleAck, Follows
  <2>10. CASE EndAck(sclk, cr)
    BY <2>10 DEF EndAck, Follows
  <2> QED
    BY <2>1, <2>2, <2>3, <2>4, <2>5, <2>6, <2>7, <2>8, <2>9, <2>10 DEF CoreClock
<1> QED BY <1>1, <1>2, <1>3, <1>4, <1>5, <1>6

LEMMA RegistersTyped ==
  ASSUME InterfaceTypeOK, NEW access, Fits(access),
         AcceptAccess(access) \/ AwaitDone(access) \/ EndCommand
  PROVE  /\ cr' \in Control
         /\ data_in' \in Byte
         /\ clkdiv' \in Nat
         /\ int_pe' \in BOOLEAN
         /\ cmd_done_ack' \in BOOLEAN
<1> USE DEF InterfaceTypeOK
<1>1. CASE AcceptAccess(access)
  BY <1>1 DEF AcceptAccess, Fits
<1>2. CASE AwaitDone(access)
  BY <1>2 DEF AwaitDone
<1>3. CASE EndCommand
  BY <1>3 DEF EndCommand, Control
<1> QED BY <1>1, <1>2, <1>3

LEMMA InterfaceTyped ==
  ASSUME InterfaceTypeOK, NEW access, Fits(access), NEW dev \in Bit,
         InterfaceClock(access, dev)
  PROVE  InterfaceTypeOK'
<1>1. CoreTypeOK'
  BY CoreTyped DEF InterfaceClock
<1>2. ClkgenTypeOK'
  <2>1. ClkgenClock(clkdiv)
    BY DEF InterfaceClock
  <2>2. clk_ctr \in Nat
    BY DEF InterfaceTypeOK, ClkgenTypeOK
  <2>3. clk_ctr' \in Nat
    BY <2>1, <2>2 DEF ClkgenClock, Pulse, CountClock
  <2>4. sclk' \in BOOLEAN
    BY <2>1, Zenon DEF ClkgenClock, Pulse, CountClock
  <2> QED BY <2>3, <2>4 DEF ClkgenTypeOK
<1>3. /\ cr' \in Control
      /\ data_in' \in Byte
      /\ clkdiv' \in Nat
      /\ int_pe' \in BOOLEAN
      /\ cmd_done_ack' \in BOOLEAN
  BY RegistersTyped DEF InterfaceClock
<1>4. irq' \in BOOLEAN
  BY Zenon DEF InterfaceClock
<1>5. scl_in' \in Bit /\ sda_in' \in Bit
  BY DEF InterfaceClock, SCL, SDA, InterfaceTypeOK, CoreTypeOK, Bit
<1> QED BY <1>1, <1>2, <1>3, <1>4, <1>5 DEF InterfaceTypeOK

LEMMA InitTyped ==
  ASSUME InterfaceInit
  PROVE  InterfaceTypeOK
<1>1. ZeroByte \in Byte /\ NoControl \in Control
  BY DEF ZeroByte, Byte, Bit, NoControl, Control
<1>2. busy \in BOOLEAN /\ cmd_done \in BOOLEAN /\ sclk \in BOOLEAN
  BY Zenon DEF InterfaceInit, CoreInit, ClkgenInit
<1>3. /\ p_state \in States /\ ctr \in 0..(Bits - 1)
      /\ dout \in Byte /\ data_out \in Byte
      /\ ackbit \in Bit /\ ack_out \in Bit
      /\ scl_out \in Bit /\ sda_out \in Bit
      /\ clk_ctr \in Nat
  BY <1>1, BitsAssumption DEF InterfaceInit, CoreInit, ClkgenInit, States, Bit
<1>4. CoreTypeOK /\ ClkgenTypeOK
  BY <1>2, <1>3 DEF CoreTypeOK, ClkgenTypeOK
<1> QED BY <1>1, <1>4, DivisorAssumption DEF InterfaceInit, InterfaceTypeOK, Bit

LEMMA TypeStep ==
  ASSUME TypeOK, [Next]_vars
  PROVE  TypeOK'
<1>1. CASE ClockEdge
  <2>1. PICK access \in Accesses : Clock(access)
    BY <1>1 DEF ClockEdge
  <2>2. InterfaceTypeOK'
    BY <2>1, InterfaceTyped, AccessCases DEF Clock, TypeOK
  <2>3. seen' \in BOOLEAN
    BY <2>1 DEF Clock, Observe, TypeOK
  <2>4. ran' \in BOOLEAN
    BY <2>1, Zenon DEF Clock
  <2> QED BY <2>2, <2>3, <2>4 DEF TypeOK
<1>2. CASE Reset
  <2>1. ZeroByte \in Byte /\ NoControl \in Control
    BY DEF ZeroByte, Byte, Bit, NoControl, Control
  <2>2. CoreTypeOK'
    <3>1. busy' \in BOOLEAN /\ cmd_done' \in BOOLEAN
      BY <1>2, Zenon DEF Reset
    <3>2. /\ p_state' \in States /\ ctr' \in 0..(Bits - 1)
          /\ dout' \in Byte /\ data_out' \in Byte
          /\ ackbit' \in Bit /\ ack_out' \in Bit
          /\ scl_out' \in Bit /\ sda_out' \in Bit
      BY <1>2, <2>1, BitsAssumption DEF Reset, States, Bit
    <3> QED BY <3>1, <3>2 DEF CoreTypeOK
  <2>3. ClkgenTypeOK'
    BY <1>2 DEF Reset, ClkgenTypeOK
  <2> QED
    BY <1>2, <2>1, <2>2, <2>3, DivisorAssumption DEF Reset, TypeOK, InterfaceTypeOK, Bit
<1>3. CASE UNCHANGED vars
  BY <1>3 DEF vars, interfaceVars, clkgenVars, coreVars, registerVars, TypeOK,
              InterfaceTypeOK, ClkgenTypeOK, CoreTypeOK, States, Control
<1> QED BY <1>1, <1>2, <1>3 DEF Next

----------------------------------------------------------------------------
(* The handshake between core and interface. *)

\* Where the core goes from each part of a command.
LEMMA CoreMoves ==
  ASSUME CoreTypeOK, CoreClock(sclk, cr, data_in, cmd_done_ack, scl_in, sda_in)
  PROVE  /\ p_state \in Transferring => p_state' \in Transferring \cup {"Done"}
         /\ p_state = "Done" => p_state' = "DoneAck"
         /\ p_state = "DoneAck" => p_state' = IF cmd_done_ack THEN "Idle" ELSE "DoneAck"
         /\ p_state = "Idle" /\ TIP => p_state' \in Transferring
         /\ p_state = "Idle" /\ ~TIP => p_state' = "Idle"
         /\ p_state = "Reset" => p_state' = "Idle"
         /\ cmd_done' <=> p_state \in Finished
<1> USE DEF Go, Transferring, Paced, Finished, TIP
<1>0. cmd_done' <=> p_state \in Finished
  BY Zenon DEF CoreClock, Outputs
<1>1. CASE AwaitPulse(sclk)
  BY <1>0, <1>1 DEF AwaitPulse, Follows
<1>2. CASE Advance(sclk)
  <2>1. p_state \in DOMAIN Follows /\ p_state' = Follows[p_state]
    BY <1>2 DEF Advance
  <2>2. p_state \in Transferring /\ p_state \notin {"Idle", "Reset"} \cup Finished
    BY <2>1 DEF Follows
  <2>3. p_state' \in Transferring \cup {"Done"}
    BY <2>1, StatesTyped
  <2> QED BY <1>0, <2>2, <2>3
<1>3. CASE LeaveReset \/ SignalDone \/ AwaitDoneAck(cmd_done_ack)
  BY <1>0, <1>3 DEF LeaveReset, SignalDone, AwaitDoneAck, Follows
<1>4. CASE AwaitCommand(cr)
  BY <1>0, <1>4 DEF AwaitCommand, FirstQuarter, Follows
<1>5. CASE BeginByte(sclk, cr)
  BY <1>0, <1>5 DEF BeginByte, FirstQuarter, Follows
<1>6. CASE SampleBit(sda_in)
  BY <1>0, <1>6 DEF SampleBit, Follows
<1>7. CASE EndBit(sclk)
  BY <1>0, <1>7 DEF EndBit, Follows
<1>8. CASE CountBit
  BY <1>0, <1>8 DEF CountBit, Follows
<1>9. CASE SampleAck(sda_in)
  BY <1>0, <1>9 DEF SampleAck, Follows
<1>10. CASE EndAck(sclk, cr)
  BY <1>0, <1>10 DEF EndAck, Follows
<1> QED
  BY <1>1, <1>2, <1>3, <1>4, <1>5, <1>6, <1>7, <1>8, <1>9, <1>10 DEF CoreClock

\* What the interface does, by the state of the command.
LEMMA RegisterMoves ==
  ASSUME NEW access, AcceptAccess(access) \/ AwaitDone(access) \/ EndCommand,
         cr \in Control
  PROVE  /\ TIP /\ ~cmd_done =>
              /\ cr' = cr /\ data_in' = data_in /\ clkdiv' = clkdiv
              /\ cmd_done_ack' = FALSE
         /\ TIP /\ cmd_done => ~TIP' /\ cmd_done_ack' = TRUE
         /\ ~TIP => cmd_done_ack' = FALSE /\ (TIP' => IsCommand(access))
<1>1. CASE AcceptAccess(access)
  BY <1>1 DEF AcceptAccess, TIP, IsCommand
<1>2. CASE AwaitDone(access)
  BY <1>2 DEF AwaitDone
<1>3. CASE EndCommand
  BY <1>3 DEF EndCommand, TIP, Control
<1> QED BY <1>1, <1>2, <1>3

\* They agree after a clock on which no command is written before the core is idle.
LEMMA AgreedStep ==
  ASSUME InterfaceTypeOK, Agreed, NEW access,
         CoreClock(sclk, cr, data_in, cmd_done_ack, scl_in, sda_in),
         AcceptAccess(access) \/ AwaitDone(access) \/ EndCommand,
         IsCommand(access) /\ ~TIP => p_state \in {"Idle", "Reset"}
  PROVE  Agreed'
<1> USE DEF Agreed
<1>1. CoreTypeOK /\ cr \in Control
  BY DEF InterfaceTypeOK
<1>2. CASE p_state \in Transferring \cup {"Done"}
  BY <1>1, <1>2, CoreMoves, RegisterMoves DEF TIP, Transferring, Finished, Paced, Follows
<1>3. CASE p_state = "DoneAck"
  BY <1>1, <1>3, CoreMoves, RegisterMoves DEF TIP, Transferring, Finished, Paced, Follows
<1>4. CASE p_state \in {"Idle", "Reset"}
  BY <1>1, <1>4, CoreMoves, RegisterMoves DEF TIP, Transferring, Finished, Paced, Follows
<1> QED BY <1>1, <1>2, <1>3, <1>4 DEF CoreTypeOK, States, Finished

LEMMA HandshakeStep ==
  ASSUME I2cInv, [Next]_vars
  PROVE  Handshake'
<1> USE DEF I2cInv, Handshake
<1>1. CASE ClockEdge
  <2>1. PICK access \in Accesses : Polite(access) /\ Clock(access)
    BY <1>1 DEF ClockEdge
  <2>2. /\ CoreClock(sclk, cr, data_in, cmd_done_ack, scl_in, sda_in)
        /\ AcceptAccess(access) \/ AwaitDone(access) \/ EndCommand
        /\ Observe(access)
        /\ ran' = (~Accepted(access) /\ (ran \/ p_state \in Transferring))
    BY <2>1, Zenon DEF Clock, InterfaceClock
  <2>3. InterfaceTypeOK /\ CoreTypeOK /\ cr \in Control
    BY DEF TypeOK, InterfaceTypeOK
  <2>4. IsCommand(access) /\ ~TIP => p_state \in {"Idle", "Reset"}
    BY <2>1, <2>3 DEF Polite, CoreTypeOK, States, Finished, Agreed
  <2>5. Agreed'
    BY <2>2, <2>3, <2>4, AgreedStep
  <2>6. TIP => ~seen' /\ (ran \/ p_state \in Transferring => ran')
    BY <2>2 DEF Observe, Accepted
  <2>7. p_state' \in {"Done", "DoneAck"} => p_state \in Transferring \cup {"Done", "DoneAck"}
    BY <2>2, <2>3, CoreMoves
    DEF CoreTypeOK, States, Finished, Transferring, Paced, Follows
  <2>8. p_state' = "Done" \/ (p_state' = "DoneAck" /\ TIP') => ran'
    <3>1. CASE TIP
      BY <2>2, <2>3, <2>6, <2>7, <3>1, CoreMoves DEF Finished
    <3>2. CASE ~TIP
      BY <2>2, <2>3, <2>4, <2>7, <3>2, CoreMoves, RegisterMoves
      DEF Agreed, Transferring, Paced, Follows
    <3> QED BY <3>1, <3>2
  <2>9. TIP' \/ p_state' = "DoneAck" => ~seen'
    BY <2>2, <2>3, <2>4, <2>6, <2>7, CoreMoves, RegisterMoves
    DEF Agreed, Observe
  <2> QED BY <2>5, <2>8, <2>9
<1>2. CASE Reset
  BY <1>2 DEF Reset, TIP, NoControl, Transferring, Paced, Follows, Agreed
<1>3. CASE UNCHANGED vars
  BY <1>3 DEF vars, interfaceVars, coreVars, registerVars, TIP, Agreed
<1> QED BY <1>1, <1>2, <1>3 DEF Next

\* The invariant holds under any accesses of a polite master and any resets.
THEOREM I2cInvariant == Spec => []I2cInv
<1>1. Init => I2cInv
  <2> SUFFICES ASSUME Init PROVE I2cInv
    OBVIOUS
  <2>3. TypeOK
    BY InitTyped DEF Init, TypeOK
  <2>4. Handshake
    BY DEF Init, InterfaceInit, CoreInit, Handshake, Agreed, TIP, NoControl,
           Transferring, Paced, Follows
  <2> QED BY <2>3, <2>4 DEF I2cInv
<1>2. I2cInv /\ [Next]_vars => I2cInv'
  BY TypeStep, HandshakeStep DEF I2cInv
<1> QED BY <1>1, <1>2, PTL DEF Spec

\* A transfer that has begun is shown in progress to its end.
THEOREM TransferShown == Spec => []TransferIsShown
<1>1. I2cInv => TransferIsShown
  BY DEF I2cInv, Handshake, Agreed, TransferIsShown
<1> QED BY <1>1, I2cInvariant, PTL

\* No command is over before the core has carried it out.
THEOREM CommandExecuted == Spec => EndsWhenDone
<1>1. I2cInv /\ [Next]_vars =>
        (TIP /\ ~TIP' => (p_state = "DoneAck" /\ ran) \/ p_state' = "Reset")
  <2> SUFFICES ASSUME I2cInv, [Next]_vars, TIP, ~TIP', p_state' # "Reset"
               PROVE  p_state = "DoneAck" /\ ran
    OBVIOUS
  <2>1. CASE ClockEdge
    <3>1. PICK access \in Accesses : Clock(access)
      BY <2>1 DEF ClockEdge
    <3>2. AcceptAccess(access) \/ AwaitDone(access) \/ EndCommand
      BY <3>1 DEF Clock, InterfaceClock
    <3>3. cmd_done
      BY <3>2, RegisterMoves DEF I2cInv, TypeOK, InterfaceTypeOK, TIP
    <3> QED BY <3>3 DEF I2cInv, Handshake, Agreed
  <2>2. CASE Reset
    BY <2>2 DEF Reset
  <2>3. CASE UNCHANGED vars
    BY <2>3 DEF vars, interfaceVars, registerVars, TIP
  <2> QED BY <2>1, <2>2, <2>3 DEF Next
<1> QED BY <1>1, I2cInvariant, PTL DEF Spec, EndsWhenDone

\* Command, byte and divisor stand while the core works on them.
THEOREM CommandUndisturbed == Spec => CommandHeld
<1>1. I2cInv /\ [Next]_vars =>
        (p_state \in Transferring /\ p_state' # "Reset"
           => cr' = cr /\ data_in' = data_in /\ clkdiv' = clkdiv)
  <2> SUFFICES ASSUME I2cInv, [Next]_vars, p_state \in Transferring, p_state' # "Reset"
               PROVE  cr' = cr /\ data_in' = data_in /\ clkdiv' = clkdiv
    OBVIOUS
  <2>1. TIP /\ ~cmd_done /\ cr \in Control
    BY DEF I2cInv, Handshake, Agreed, TypeOK, InterfaceTypeOK
  <2>2. CASE ClockEdge
    <3>1. PICK access \in Accesses : Clock(access)
      BY <2>2 DEF ClockEdge
    <3>2. AcceptAccess(access) \/ AwaitDone(access) \/ EndCommand
      BY <3>1 DEF Clock, InterfaceClock
    <3> QED BY <2>1, <3>2, RegisterMoves
  <2>3. CASE Reset
    BY <2>3 DEF Reset
  <2>4. CASE UNCHANGED vars
    BY <2>4 DEF vars, interfaceVars, registerVars
  <2> QED BY <2>2, <2>3, <2>4 DEF Next
<1> QED BY <1>1, I2cInvariant, PTL DEF Spec, CommandHeld

----------------------------------------------------------------------------
(* The driver: the transfers its calls are made of. *)

\* What each transfer of a call is.
SoundStep(s) ==
  /\ s.kind \in {"send", "receive", "put"}
  /\ s.kind = "send" => s.data \in Byte /\ s.control \in Control
  /\ s.kind = "receive" => s.control \in Control
  /\ s.kind = "put" =>
       \/ /\ s.address = 1 /\ s.data \in Control
          /\ ~s.data.read /\ ~s.data.write
       \/ s.address = 3 /\ s.data \in Nat

LEMMA CtlTyped ==
  ASSUME NEW start \in BOOLEAN, NEW stop \in BOOLEAN, NEW read \in BOOLEAN,
         NEW write \in BOOLEAN, NEW ack \in Bit
  PROVE  Ctl(start, stop, read, write, ack) \in Control
  BY DEF Ctl, NoControl, Control, Bit

LEMMA ForDevice ==
  ASSUME NEW device \in Byte
  PROVE  ForWriting(device) \in Byte /\ ForReading(device) \in Byte
  BY DEF ForWriting, ForReading, Byte, Bit

LEMMA StepsOfCalls ==
  ASSUME NEW c, IsCall(c)
  PROVE  /\ c.op = "write" => Steps(c) = WriteSteps(c)
         /\ c.op = "read" => Steps(c) = ReadSteps(c)
         /\ c.op = "configure" => Steps(c) = ConfigureSteps(c)
         /\ c.op = "init" => Steps(c) = InitSteps(c)
  BY DEF Steps

LEMMA TwoThen ==
  ASSUME NEW S, NEW a \in S, NEW b \in S, NEW n \in Nat, NEW f \in [1..n -> S]
  PROVE  /\ Len(<<a, b>> \o f) = n + 2
         /\ (<<a, b>> \o f)[1] = a
         /\ (<<a, b>> \o f)[2] = b
         /\ \A i \in 1..n : (<<a, b>> \o f)[2 + i] = f[i]
<1>1. <<a, b>> \in Seq(S)
  OBVIOUS
<1>2. f \in Seq(S) /\ Len(f) = n
  OBVIOUS
<1> QED BY <1>1, <1>2

LEMMA ThreeThen ==
  ASSUME NEW S, NEW a \in S, NEW b \in S, NEW d \in S, NEW n \in Nat,
         NEW f \in [1..n -> S]
  PROVE  /\ Len(<<a, b, d>> \o f) = n + 3
         /\ (<<a, b, d>> \o f)[1] = a
         /\ (<<a, b, d>> \o f)[2] = b
         /\ (<<a, b, d>> \o f)[3] = d
         /\ \A i \in 1..n : (<<a, b, d>> \o f)[3 + i] = f[i]
<1>1. <<a, b, d>> \in Seq(S)
  OBVIOUS
<1>2. f \in Seq(S) /\ Len(f) = n
  OBVIOUS
<1> QED BY <1>1, <1>2

LEMMA WriteStepAt ==
  ASSUME NEW c, IsCall(c), c.op = "write"
  PROVE  /\ c.size \in Nat /\ c.values \in [1..c.size -> Byte]
         /\ Len(Steps(c)) = c.size + 2
         /\ Steps(c)[1] = Send(ForWriting(c.device), TRUE, FALSE, "I2C_ENODEV")
         /\ Steps(c)[2] = Send(c.index, FALSE, FALSE, "I2C_EBADACK")
         /\ \A i \in 1..c.size :
              /\ i # c.size => Steps(c)[2 + i] = Send(c.values[i], FALSE, FALSE, "I2C_EBADACK")
              /\ i = c.size => Steps(c)[2 + i] = Send(c.values[i], FALSE, TRUE, "I2C_EBADACK")
<1> DEFINE first == Send(ForWriting(c.device), TRUE, FALSE, "I2C_ENODEV")
           second == Send(c.index, FALSE, FALSE, "I2C_EBADACK")
           rest == [i \in 1..c.size |-> Send(c.values[i], FALSE, i = c.size, "I2C_EBADACK")]
<1>1. c.size \in Nat /\ c.values \in [1..c.size -> Byte]
  BY DEF IsCall, i2c_write_array
<1>2. Steps(c) = <<first, second>> \o rest
  BY StepsOfCalls DEF WriteSteps
<1>3. ASSUME NEW i \in 1..c.size
      PROVE  /\ i # c.size => rest[i] = Send(c.values[i], FALSE, FALSE, "I2C_EBADACK")
             /\ i = c.size => rest[i] = Send(c.values[i], FALSE, TRUE, "I2C_EBADACK")
  <2>1. CASE i = c.size
    <3>1. (i = c.size) = TRUE
      BY <2>1
    <3> QED BY <3>1
  <2>2. CASE i # c.size
    <3>1. (i = c.size) = FALSE
      BY <2>2
    <3> QED BY <2>2, <3>1
  <2> QED BY <2>1, <2>2
<1> DEFINE S == {first, second} \cup {rest[i] : i \in 1..c.size}
<1>4. first \in S /\ second \in S /\ rest \in [1..c.size -> S]
  OBVIOUS
<1> HIDE DEF first, second, rest, S
<1>5. /\ Len(Steps(c)) = c.size + 2
      /\ Steps(c)[1] = first
      /\ Steps(c)[2] = second
      /\ \A i \in 1..c.size : Steps(c)[2 + i] = rest[i]
  BY <1>1, <1>2, <1>4, TwoThen
<1> QED BY <1>1, <1>3, <1>5 DEF first, second

LEMMA ReadStepAt ==
  ASSUME NEW c, IsCall(c), c.op = "read"
  PROVE  /\ c.size \in Nat
         /\ Len(Steps(c)) = c.size + 3
         /\ Steps(c)[1] = Send(ForWriting(c.device), TRUE, FALSE, "I2C_ENODEV")
         /\ Steps(c)[2] = Send(c.index, FALSE, FALSE, "I2C_EBADACK")
         /\ Steps(c)[3] = Send(ForReading(c.device), TRUE, FALSE, "I2C_ENODEV")
         /\ \A i \in 1..c.size :
              /\ i # c.size => Steps(c)[3 + i] = Receive(FALSE)
              /\ i = c.size => Steps(c)[3 + i] = Receive(TRUE)
<1> DEFINE first == Send(ForWriting(c.device), TRUE, FALSE, "I2C_ENODEV")
           second == Send(c.index, FALSE, FALSE, "I2C_EBADACK")
           third == Send(ForReading(c.device), TRUE, FALSE, "I2C_ENODEV")
           rest == [i \in 1..c.size |-> Receive(i = c.size)]
<1>1. c.size \in Nat
  BY DEF IsCall, i2c_write_array
<1>2. Steps(c) = <<first, second, third>> \o rest
  BY StepsOfCalls DEF ReadSteps
<1>3. ASSUME NEW i \in 1..c.size
      PROVE  /\ i # c.size => rest[i] = Receive(FALSE)
             /\ i = c.size => rest[i] = Receive(TRUE)
  <2>1. CASE i = c.size
    <3>1. (i = c.size) = TRUE
      BY <2>1
    <3> QED BY <3>1
  <2>2. CASE i # c.size
    <3>1. (i = c.size) = FALSE
      BY <2>2
    <3> QED BY <2>2, <3>1
  <2> QED BY <2>1, <2>2
<1> DEFINE S == {first, second, third} \cup {rest[i] : i \in 1..c.size}
<1>4. first \in S /\ second \in S /\ third \in S /\ rest \in [1..c.size -> S]
  OBVIOUS
<1> HIDE DEF first, second, third, rest, S
<1>5. /\ Len(Steps(c)) = c.size + 3
      /\ Steps(c)[1] = first
      /\ Steps(c)[2] = second
      /\ Steps(c)[3] = third
      /\ \A i \in 1..c.size : Steps(c)[3 + i] = rest[i]
  BY <1>1, <1>2, <1>4, ThreeThen
<1> QED BY <1>1, <1>3, <1>5 DEF first, second, third

LEMMA PutStepAt ==
  ASSUME NEW c, IsCall(c)
  PROVE  /\ c.op = "configure" =>
              /\ Len(Steps(c)) = 2
              /\ Steps(c)[1] = Put(1, StopOnly)
              /\ Steps(c)[2] = Put(1, [NoControl EXCEPT !.int_en = c.irq])
         /\ c.op = "init" =>
              /\ Len(Steps(c)) = 1
              /\ Steps(c)[1] = Put(3, Divisor(c.frequency))
  BY StepsOfCalls DEF ConfigureSteps, InitSteps

LEMMA DivisorTyped ==
  ASSUME NEW frequency \in Nat
  PROVE  Divisor(frequency) \in Nat
<1>1. frequency \div 400000 \in Nat
  BY SMT
<1> QED BY <1>1, SMT DEF Divisor

LEMMA SendSound ==
  ASSUME NEW data \in Byte, NEW start \in BOOLEAN, NEW stop \in BOOLEAN, NEW error
  PROVE  SoundStep(Send(data, start, stop, error))
  BY CtlTyped DEF SoundStep, Send, Bit

LEMMA ReceiveSound ==
  ASSUME NEW last \in BOOLEAN
  PROVE  SoundStep(Receive(last))
  BY CtlTyped DEF SoundStep, Receive, Bit

LEMMA StepsSound ==
  ASSUME NEW c, IsCall(c)
  PROVE  /\ Len(Steps(c)) \in Nat \ {0}
         /\ \A k \in 1..Len(Steps(c)) : SoundStep(Steps(c)[k])
<1>1. c.op \in {"write", "read"} =>
        ForWriting(c.device) \in Byte /\ ForReading(c.device) \in Byte /\ c.index \in Byte
  BY ForDevice DEF IsCall
<1>2. CASE c.op = "write"
  <2>1. SoundStep(Steps(c)[1]) /\ SoundStep(Steps(c)[2])
    <3>1. /\ Steps(c)[1] = Send(ForWriting(c.device), TRUE, FALSE, "I2C_ENODEV")
          /\ Steps(c)[2] = Send(c.index, FALSE, FALSE, "I2C_EBADACK")
      BY <1>2, WriteStepAt
    <3> QED BY <1>1, <1>2, <3>1, SendSound
  <2>2. ASSUME NEW i \in 1..c.size PROVE SoundStep(Steps(c)[2 + i])
    <3>1. c.values[i] \in Byte
      BY <1>2, WriteStepAt
    <3>2. \E last \in BOOLEAN : Steps(c)[2 + i] = Send(c.values[i], FALSE, last, "I2C_EBADACK")
      BY <1>2, WriteStepAt
    <3> QED BY <3>1, <3>2, SendSound
  <2>3. c.size \in Nat /\ Len(Steps(c)) = c.size + 2
    BY <1>2, WriteStepAt
  <2>4. ASSUME NEW k \in 1..Len(Steps(c)) PROVE SoundStep(Steps(c)[k])
    <3>1. k \in {1, 2} \/ (k - 2 \in 1..c.size /\ k = 2 + (k - 2))
      BY <2>3
    <3> QED BY <3>1, <2>1, <2>2
  <2> QED BY <2>3, <2>4
<1>3. CASE c.op = "read"
  <2>1. SoundStep(Steps(c)[1]) /\ SoundStep(Steps(c)[2]) /\ SoundStep(Steps(c)[3])
    BY <1>1, <1>3, ReadStepAt, SendSound
  <2>2. ASSUME NEW i \in 1..c.size PROVE SoundStep(Steps(c)[3 + i])
    BY <1>3, ReadStepAt, ReceiveSound
  <2>3. c.size \in Nat /\ Len(Steps(c)) = c.size + 3
    BY <1>3, ReadStepAt
  <2>4. ASSUME NEW k \in 1..Len(Steps(c)) PROVE SoundStep(Steps(c)[k])
    <3>1. k \in {1, 2, 3} \/ (k - 3 \in 1..c.size /\ k = 3 + (k - 3))
      BY <2>3
    <3> QED BY <3>1, <2>1, <2>2
  <2> QED BY <2>3, <2>4
<1>4. CASE c.op = "configure"
  <2>1. SoundStep(Put(1, StopOnly))
    BY DEF SoundStep, Put, StopOnly, Ctl, NoControl, Control, Bit
  <2>2. SoundStep(Put(1, [NoControl EXCEPT !.int_en = c.irq]))
    BY <1>4 DEF IsCall, SoundStep, Put, NoControl, Control, Bit
  <2>3. Len(Steps(c)) = 2 /\ SoundStep(Steps(c)[1]) /\ SoundStep(Steps(c)[2])
    BY <1>4, <2>1, <2>2, PutStepAt
  <2> QED BY <2>3
<1>5. CASE c.op = "init"
  <2>1. Divisor(c.frequency) \in Nat
    BY <1>5, DivisorTyped DEF IsCall
  <2>2. Len(Steps(c)) = 1 /\ Steps(c)[1] = Put(3, Divisor(c.frequency))
    BY <1>5, PutStepAt
  <2>3. SoundStep(Put(3, Divisor(c.frequency)))
    BY <2>1 DEF SoundStep, Put
  <2> QED BY <2>2, <2>3
<1> QED BY <1>2, <1>3, <1>4, <1>5 DEF IsCall

----------------------------------------------------------------------------
(* The device. *)

\* The bytes of the device are those of the core.
LEMMA DeviceWords == Device!Word = Byte /\ Device!Wire = Bit
  BY DEF Device!Word, Device!Wire, Byte, Bit

LEMMA SuccessorTyped ==
  ASSUME NEW byte \in Byte
  PROVE  Device!Successor(byte) \in Byte
  BY DEF Device!Successor, Byte, Bit

LEMMA Remainder ==
  ASSUME NEW n \in 0..(Bits + 1)
  PROVE  (n % Bits) + 1 \in 1..Bits
<1>1. n % Bits \in 0..(Bits - 1)
  BY BitsAssumption
<1> QED BY <1>1, BitsAssumption

LEMMA DeviceTyped ==
  ASSUME Device!DeviceTypeOK, NEW scl \in Bit, NEW sda \in Bit,
         Device!DeviceClock(scl, sda)
  PROVE  Device!DeviceTypeOK'
<1> USE DEF Device!DeviceTypeOK
<1>1. dscl' \in Bit /\ dpin' \in Bit
  BY DEF Device!DeviceClock
<1>2. /\ dphase \in {"free", "address", "index", "data", "send"}
      /\ dbits \in 0..(Bits + 1) /\ dbyte \in Byte /\ dptr \in Byte
      /\ regs \in [Byte -> Byte] /\ dsda \in Bit
  BY DeviceWords
<1> SUFFICES /\ dphase' \in {"free", "address", "index", "data", "send"}
             /\ dbits' \in 0..(Bits + 1) /\ dbyte' \in Byte /\ dptr' \in Byte
             /\ regs' \in [Byte -> Byte] /\ dsda' \in Bit
  BY <1>1, DeviceWords
<1>3. CASE Device!OnStart \/ Device!OnStop \/ Device!Refuse
  BY <1>2, <1>3, BitsAssumption DEF Device!OnStart, Device!OnStop, Device!Refuse, Bit
<1>4. CASE Device!OnRise(sda)
  <2>1. dbits' \in 0..(Bits + 1)
    BY <1>2, <1>4, BitsAssumption DEF Device!OnRise
  <2>2. dbyte' \in Byte
    BY <1>2, <1>4 DEF Device!OnRise, Byte
  <2>3. dptr' \in Byte
    BY <1>2, <1>4, SuccessorTyped DEF Device!OnRise
  <2>4. dphase' \in {"free", "address", "index", "data", "send"}
    BY <1>2, <1>4 DEF Device!OnRise
  <2> QED BY <1>2, <1>4, <2>1, <2>2, <2>3, <2>4 DEF Device!OnRise
<1>5. CASE Device!Take
  BY <1>2, <1>5, BitsAssumption, SuccessorTyped DEF Device!Take, Bit
<1>6. CASE Device!PutBit
  <2>1. dbits' \in 0..(Bits + 1)
    BY <1>2, <1>6, BitsAssumption DEF Device!PutBit
  <2>2. (dbits' % Bits) + 1 \in 1..Bits
    BY <2>1, Remainder
  <2>3. regs[dptr][(dbits' % Bits) + 1] \in Bit
    BY <1>2, <2>2 DEF Byte
  <2> QED BY <1>2, <1>6, <2>1, <2>3 DEF Device!PutBit, Bit
<1>7. CASE UNCHANGED <<dphase, dbits, dbyte, dptr, regs, dsda>>
  BY <1>2, <1>7
<1> QED BY <1>3, <1>4, <1>5, <1>6, <1>7 DEF Device!DeviceClock

----------------------------------------------------------------------------
(* The program. *)

LEMMA CallSound ==
  ASSUME call \in Calls \cup {NoCall}, call # NoCall
  PROVE  call \in Calls /\ IsCall(call)
  BY CallsAssumption

LEMMA NowSound ==
  ASSUME DriverInv, call # NoCall
  PROVE  /\ SoundStep(Now)
         /\ Len(Steps(call)) \in Nat \ {0}
         /\ \A k \in 1..Len(Steps(call)) : SoundStep(Steps(call)[k])
  BY CallSound, StepsSound DEF DriverInv, DriverTypeOK, Calling, Now

\* The access of each stage.
LEMMA AccessAt ==
  /\ stage = "put" => Access = Write(Now.address, Now.data)
  /\ stage = "data" => Access = Write(0, Now.data)
  /\ stage = "control" => Access = Write(1, Now.control)
  /\ stage = "giveup" => Access = Write(1, StopOnly)
  /\ stage = "fetch" => Access = Read(0)
  /\ stage \in {"wait", "await", "status"} => Access = Read(2)
  BY DEF Access

LEMMA StopOnlyTyped == StopOnly \in Control /\ ~StopOnly.read /\ ~StopOnly.write
  BY DEF StopOnly, Ctl, NoControl, Control, Bit

\* What it writes is what the registers take, and a command is only written
\* when the core is idle.
LEMMA AccessFits ==
  ASSUME DriverInv, stage \notin {"ready", "return"}
  PROVE  /\ Fits(Access)
         /\ IsCommand(Access) => stage = "control"
<1>1. call # NoCall /\ stage \in {"put", "wait", "data", "control", "await", "status", "giveup", "fetch"}
  BY DEF DriverInv, DriverTypeOK, Calling
<1>2. SoundStep(Now)
  BY <1>1, NowSound
<1>3. CASE stage = "put"
  BY <1>2, <1>3, AccessAt DEF DriverInv, Calling, SoundStep, Fits, IsCommand, Write
<1>4. CASE stage = "data"
  BY <1>2, <1>4, AccessAt DEF DriverInv, Calling, SoundStep, Fits, IsCommand, Write
<1>5. CASE stage = "control"
  BY <1>2, <1>5, AccessAt DEF DriverInv, Calling, SoundStep, Fits, IsCommand, Write
<1>6. CASE stage = "giveup"
  BY <1>6, AccessAt, StopOnlyTyped DEF Fits, IsCommand, Write
<1>7. CASE stage \in {"fetch", "wait", "await", "status"}
  BY <1>7, AccessAt DEF Fits, IsCommand, Read
<1> QED BY <1>1, <1>3, <1>4, <1>5, <1>6, <1>7

LEMMA NoAccessFits == Fits(NoAccess) /\ ~IsCommand(NoAccess)
  BY DEF Fits, IsCommand, NoAccess

----------------------------------------------------------------------------
(* The steps of the program. *)

LEMMA NextStepKeeps ==
  ASSUME DriverInv, call # NoCall, NextStep
  PROVE  /\ call' = call /\ step' \in 1..Len(Steps(call))
         /\ \/ stage' = "return"
            \/ stage' = "put" /\ Now'.kind = "put"
            \/ stage' = "wait" /\ Now'.kind # "put"
<1>1. /\ step \in 1..Len(Steps(call)) /\ Len(Steps(call)) \in Nat \ {0}
  BY NowSound DEF DriverInv, Calling
<1> QED BY <1>1 DEF NextStep, FirstStage, Now

LEMMA BeginKeeps ==
  ASSUME DriverInv, NEW c \in Calls, Begin(c)
  PROVE  /\ call' = c /\ call' # NoCall /\ step' \in 1..Len(Steps(call'))
         /\ \/ stage' = "put" /\ Now'.kind = "put"
            \/ stage' = "wait" /\ Now'.kind # "put"
         /\ ~held' /\ got' \in Seq(Byte) /\ stored' \in Nat
<1>1. IsCall(c)
  BY CallsAssumption
<1>2. c # NoCall
  BY <1>1 DEF IsCall, NoCall
<1>3. Len(Steps(c)) \in Nat \ {0}
  BY <1>1, StepsSound
<1>4. ~held
  BY DEF Begin, DriverInv, Polling, DriverTypeOK
<1>5. << >> \in Seq(Byte)
  OBVIOUS
<1>6. got' \in Seq(Byte) /\ stored' \in Nat
  <2>1. (got' = << >> /\ stored' = 0) \/ (got' = got /\ stored' = stored)
    BY DEF Begin
  <2>2. got \in Seq(Byte) /\ stored \in Nat
    BY DEF DriverInv, DriverTypeOK
  <2>3. got' \in Seq(Byte)
    BY <1>5, <2>1, <2>2, Zenon
  <2>4. stored' \in Nat
    BY <2>1, <2>2
  <2> QED BY <2>3, <2>4
<1>7. call' = c /\ step' = 1 /\ held' = held /\ stage' = FirstStage(Steps(c)[1])
  BY DEF Begin
<1>8. Now' = Steps(c)[1]
  BY <1>7 DEF Now
<1>9. step' \in 1..Len(Steps(call'))
  BY <1>3, <1>7
<1> QED BY <1>2, <1>4, <1>6, <1>7, <1>8, <1>9 DEF FirstStage

\* What the device takes is counted.
LEMMA RememberTyped ==
  ASSUME stored \in Nat, Remember
  PROVE  stored' \in Nat
  BY DEF Remember


\* A clock of interface and core, whatever the access.
LEMMA InterfaceParts ==
  ASSUME NEW access, NEW dev, InterfaceClock(access, dev)
  PROVE  /\ ClkgenClock(clkdiv)
         /\ CoreClock(sclk, cr, data_in, cmd_done_ack, scl_in, sda_in)
         /\ AcceptAccess(access) \/ AwaitDone(access) \/ EndCommand
         /\ ReadPort(access)
         /\ scl_in' = SCL /\ sda_in' = SDA(dev)
  BY Zenon DEF InterfaceClock

LEMMA WiresTyped ==
  ASSUME DriverInv, NEW access, Fits(access), Wires(access)
  PROVE  InterfaceTypeOK' /\ Device!DeviceTypeOK'
<1>1. InterfaceTypeOK /\ Device!DeviceTypeOK /\ dsda \in Bit
  BY DeviceWords DEF DriverInv, DriverTypeOK, Device!DeviceTypeOK
<1>2. InterfaceTypeOK'
  BY <1>1, InterfaceTyped DEF Wires
<1>3. SCL \in Bit /\ SDA(dsda) \in Bit
  BY <1>1 DEF SCL, SDA, InterfaceTypeOK, CoreTypeOK, Bit
<1> QED BY <1>1, <1>2, <1>3, DeviceTyped DEF Wires

\* Core and interface through a clock of the program.
LEMMA DriverMoves ==
  ASSUME DriverInv, NEW access, Wires(access),
         IsCommand(access) => stage = "control"
  PROVE  /\ Agreed'
         /\ stage \notin {"await", "control"} => ~TIP' /\ p_state' = "Idle"
         /\ stage = "await" /\ ~TIP => ~TIP' /\ p_state' = "Idle"
<1> USE DEF DriverInv
<1>1. /\ CoreClock(sclk, cr, data_in, cmd_done_ack, scl_in, sda_in)
      /\ AcceptAccess(access) \/ AwaitDone(access) \/ EndCommand
  BY InterfaceParts DEF Wires
<1>2. InterfaceTypeOK /\ CoreTypeOK /\ cr \in Control /\ Agreed
  BY DEF DriverTypeOK, InterfaceTypeOK
<1>3. IsCommand(access) => p_state \in {"Idle", "Reset"}
  BY DEF Polling
<1>4. Agreed'
  BY <1>1, <1>2, <1>3, AgreedStep
<1>5. stage \notin {"await", "control"} => ~TIP' /\ p_state' = "Idle"
  <2> SUFFICES ASSUME stage \notin {"await", "control"} PROVE ~TIP' /\ p_state' = "Idle"
    OBVIOUS
  <2>1. ~TIP /\ p_state \in {"Idle", "Reset"} /\ ~IsCommand(access)
    BY DEF Polling
  <2> QED BY <1>1, <1>2, <2>1, CoreMoves, RegisterMoves
<1>6. stage = "await" /\ ~TIP => ~TIP' /\ p_state' = "Idle"
  <2> SUFFICES ASSUME stage = "await", ~TIP PROVE ~TIP' /\ p_state' = "Idle"
    OBVIOUS
  <2>1. ~IsCommand(access)
    OBVIOUS
  <2>2. p_state \in {"Idle", "Reset"} \/ (p_state = "DoneAck" /\ cmd_done_ack)
    BY <1>2 DEF Agreed, CoreTypeOK, States, Finished
  <2> QED BY <1>1, <1>2, <2>1, <2>2, CoreMoves, RegisterMoves
<1> QED BY <1>4, <1>5, <1>6

Stages == {"ready", "put", "wait", "data", "control", "await", "status", "giveup", "fetch",
           "return"}

ProgramTyped ==
  /\ call \in Calls \cup {NoCall}
  /\ step \in Nat \ {0}
  /\ stage \in Stages
  /\ held \in BOOLEAN
  /\ got \in Seq(Byte)

\* Where the program is after each of its steps.
LEMMA DrivingKeeps ==
  ASSUME DriverInv, Driving, Wires(Access)
  PROVE  /\ ProgramTyped' /\ Calling' /\ Polling' /\ Agreed'
<1> USE DEF DriverInv, Stages
<1>1. stage \notin {"ready", "return"} /\ call # NoCall /\ call \in Calls
  BY DEF Driving, DriverTypeOK, Calling, PutRegister, I2C_WR_DATA, I2C_WR_CONTROL, GiveUp,
         ReadFirst, WaitBefore, WaitAfter, CheckAcknowledge, I2C_RD_DATA, ReadSecond
<1>2. Fits(Access) /\ (IsCommand(Access) => stage = "control")
  BY <1>1, AccessFits
<1>3. /\ Agreed'
      /\ stage \notin {"await", "control"} => ~TIP' /\ p_state' = "Idle"
      /\ stage = "await" /\ ~TIP => ~TIP' /\ p_state' = "Idle"
  BY <1>2, DriverMoves
<1>4. ReadPort(Access)
  BY InterfaceParts DEF Wires
<1>5. SoundStep(Now) /\ step \in 1..Len(Steps(call)) /\ Len(Steps(call)) \in Nat \ {0}
  BY <1>1, NowSound DEF Calling
<1>6. data_out \in Byte /\ got \in Seq(Byte) /\ held \in BOOLEAN /\ step \in Nat \ {0}
  BY DEF DriverTypeOK, InterfaceTypeOK, CoreTypeOK
<1>7. ASSUME NextStep, stage # "await", stage # "control", held' = FALSE, got' \in Seq(Byte)
      PROVE  ProgramTyped' /\ Calling' /\ Polling'
  <2>1. /\ call' = call /\ step' \in 1..Len(Steps(call))
        /\ \/ stage' = "return"
           \/ stage' = "put" /\ Now'.kind = "put"
           \/ stage' = "wait" /\ Now'.kind # "put"
    BY <1>1, <1>7, NextStepKeeps
  <2>2. ProgramTyped'
    <3>1. step' \in Nat \ {0}
      BY <1>5, <2>1
    <3>2. stage' \in Stages /\ held' \in BOOLEAN /\ call' \in Calls \cup {NoCall}
      BY <1>1, <1>7, <2>1
    <3> QED BY <1>7, <3>1, <3>2 DEF ProgramTyped
  <2>3. Calling'
    BY <1>1, <2>1 DEF Calling
  <2>4. Polling'
    BY <1>3, <1>7, <2>1 DEF Polling
  <2> QED BY <2>2, <2>3, <2>4
<1>8. CASE PutRegister
  <2>1. NextStep /\ stage = "put" /\ held' = held /\ got' = got
    BY <1>8 DEF PutRegister
  <2> QED BY <1>3, <1>6, <1>7, <2>1 DEF Polling
<1>9. CASE I2C_WR_DATA
  BY <1>1, <1>3, <1>6, <1>9 DEF I2C_WR_DATA, ProgramTyped, Calling, Polling, Now
<1>10. CASE I2C_WR_CONTROL
  BY <1>1, <1>3, <1>6, <1>10 DEF I2C_WR_CONTROL, ProgramTyped, Calling, Polling, Now
<1>11. CASE GiveUp
  BY <1>1, <1>3, <1>6, <1>11 DEF GiveUp, Return, ProgramTyped, Calling, Polling
<1>12. CASE ReadFirst
  <2>1. /\ stage \in {"wait", "await", "status", "fetch"} /\ held' = TRUE
        /\ call' = call /\ step' = step /\ stage' = stage /\ got' = got
    BY <1>12 DEF ReadFirst
  <2>2. stage = "fetch" => readdata'[2] \in Byte
    BY <1>4, <1>6, AccessAt DEF ReadPort, Read, Registers
  <2>3. stage = "await" => readdata'[2] = Status
    BY <1>4, AccessAt DEF ReadPort, Read, Registers
  <2>4. stage = "await" /\ ~readdata'[2].tip => ~TIP
    BY <2>3 DEF Status
  <2>5. Polling'
    BY <1>3, <2>1, <2>2, <2>4 DEF Polling
  <2> QED BY <1>1, <1>3, <1>6, <2>1, <2>5 DEF ProgramTyped, Calling, Now
<1>13. CASE WaitBefore
  <2>1. /\ stage = "wait" /\ held' = FALSE
        /\ call' = call /\ step' = step /\ got' = got
        /\ \/ stage' = "wait"
           \/ stage' = "data" /\ Now.kind = "send"
           \/ stage' = "control" /\ Now.kind # "send"
    BY <1>13 DEF WaitBefore, ReadSecond
  <2> QED BY <1>1, <1>3, <1>6, <2>1 DEF ProgramTyped, Calling, Polling, Now
<1>14. CASE WaitAfter
  <2>1. /\ stage = "await" /\ held /\ held' = FALSE
        /\ call' = call /\ step' = step /\ got' = got
        /\ \/ stage' = "await"
           \/ stage' = "status" /\ Now.kind = "send" /\ ~readdata[2].tip
           \/ stage' = "fetch" /\ Now.kind # "send" /\ ~readdata[2].tip
    BY <1>14 DEF WaitAfter, ReadSecond
  <2>2. stage' # "await" => ~TIP' /\ p_state' = "Idle"
    BY <1>3, <2>1 DEF Polling
  <2>3. Now.kind \in {"send", "receive"}
    BY <1>5, <2>1 DEF Calling, SoundStep
  <2> QED BY <1>1, <1>3, <1>6, <2>1, <2>2, <2>3 DEF ProgramTyped, Calling, Polling, Now
<1>15. CASE CheckAcknowledge
  <2>1. stage = "status" /\ held' = FALSE /\ got' = got
    BY <1>15 DEF CheckAcknowledge, ReadSecond
  <2>2. CASE readdata[2].lar = 1
    BY <1>1, <1>3, <1>6, <1>15, <2>1, <2>2
    DEF CheckAcknowledge, ProgramTyped, Calling, Polling, Now
  <2>3. CASE readdata[2].lar # 1
    BY <1>3, <1>6, <1>7, <1>15, <2>1, <2>3 DEF CheckAcknowledge
  <2> QED BY <2>2, <2>3
<1>16. CASE I2C_RD_DATA
  <2>1. stage = "fetch" /\ held /\ held' = FALSE /\ got' = Append(got, readdata[2]) /\ NextStep
    BY <1>16 DEF I2C_RD_DATA, ReadSecond
  <2>2. readdata[2] \in Byte
    BY <2>1 DEF Polling
  <2>3. Append(got, readdata[2]) \in Seq(Byte)
    BY <1>6, <2>2
  <2>4. got' \in Seq(Byte)
    BY <2>1, <2>3, Zenon
  <2> QED BY <1>3, <1>7, <2>1, <2>4
<1> QED BY <1>3, <1>8, <1>9, <1>10, <1>11, <1>12, <1>13, <1>14, <1>15, <1>16 DEF Driving

LEMMA SucceedKeeps ==
  ASSUME DriverInv, Succeed, Wires(NoAccess)
  PROVE  /\ ProgramTyped' /\ Calling' /\ Polling' /\ Agreed'
<1> USE DEF DriverInv
<1>1. /\ stage = "return" /\ call' = NoCall /\ stage' = "ready" /\ step' = 1
      /\ held' = held /\ got' = got
  BY DEF Succeed, Return
<1>2. /\ Agreed' /\ ~TIP' /\ p_state' = "Idle"
  BY <1>1, NoAccessFits, DriverMoves
<1>3. held = FALSE /\ got \in Seq(Byte)
  BY <1>1 DEF DriverTypeOK, Polling
<1>4. ProgramTyped'
  <2>1. got' \in Seq(Byte)
    BY <1>1, <1>3, Zenon
  <2>2. /\ call' \in Calls \cup {NoCall} /\ step' \in Nat \ {0} /\ stage' \in Stages
        /\ held' \in BOOLEAN
    <3>1. held' \in BOOLEAN
      BY <1>1, <1>3
    <3>2. step' \in Nat \ {0}
      BY <1>1
    <3>3. call' \in Calls \cup {NoCall}
      BY <1>1
    <3>4. stage' \in Stages
      BY <1>1 DEF Stages
    <3> QED BY <3>1, <3>2, <3>3, <3>4
  <2> QED BY <2>1, <2>2 DEF ProgramTyped
<1>5. Calling' /\ Polling'
  BY <1>1, <1>2, <1>3 DEF Calling, Polling
<1> QED BY <1>2, <1>4, <1>5

LEMMA ComputeKeeps ==
  ASSUME DriverInv, Compute, Wires(NoAccess)
  PROVE  /\ ProgramTyped' /\ Calling' /\ Polling' /\ Agreed'
<1> USE DEF DriverInv
<1>1. /\ call' = call /\ stage' = stage /\ step' = step
      /\ held' = FALSE /\ held = FALSE /\ got' = got
  BY DEF Compute, programVars, DriverTypeOK
<1>2. /\ Agreed' /\ (stage # "await" => ~TIP' /\ p_state' \in {"Reset", "Idle"})
  <2>1. CASE stage = "control"
    <3>1. /\ CoreClock(sclk, cr, data_in, cmd_done_ack, scl_in, sda_in)
          /\ AcceptAccess(NoAccess) \/ AwaitDone(NoAccess) \/ EndCommand
      BY InterfaceParts DEF Wires
    <3>2. ~TIP /\ p_state \in {"Reset", "Idle"} /\ CoreTypeOK /\ cr \in Control
      BY <2>1 DEF Polling, DriverTypeOK, InterfaceTypeOK
    <3> QED BY <3>1, <3>2, NoAccessFits, CoreMoves, RegisterMoves, DriverMoves
  <2>2. CASE stage # "control"
    BY <2>2, NoAccessFits, DriverMoves
  <2> QED BY <2>1, <2>2
<1>3. /\ call \in Calls \cup {NoCall} /\ step \in Nat \ {0} /\ stage \in Stages
      /\ got \in Seq(Byte)
  BY DEF DriverTypeOK, Stages
<1>4. Now' = Now
  BY <1>1 DEF Now
<1> QED BY <1>1, <1>2, <1>3, <1>4 DEF ProgramTyped, Calling, Polling

LEMMA BeginStep ==
  ASSUME DriverInv, NEW c \in Calls, Begin(c), Wires(NoAccess)
  PROVE  /\ ProgramTyped' /\ Calling' /\ Polling' /\ Agreed' /\ stored' \in Nat
<1>1. /\ call' = c /\ call' # NoCall /\ step' \in 1..Len(Steps(call'))
      /\ \/ stage' = "put" /\ Now'.kind = "put"
         \/ stage' = "wait" /\ Now'.kind # "put"
      /\ ~held' /\ got' \in Seq(Byte) /\ stored' \in Nat
  BY BeginKeeps
<1>2. stage = "ready" /\ step' = 1 /\ held' = FALSE
  BY DEF Begin, DriverInv, Polling, DriverTypeOK
<1>3. /\ Agreed' /\ ~TIP' /\ p_state' = "Idle"
  BY <1>2, NoAccessFits, DriverMoves
<1>4. ProgramTyped'
  <2>1. /\ call' \in Calls \cup {NoCall} /\ step' \in Nat \ {0} /\ stage' \in Stages
        /\ held' \in BOOLEAN
    <3>1. held' \in BOOLEAN
      BY <1>2
    <3>2. step' \in Nat \ {0}
      BY <1>2
    <3>3. call' \in Calls \cup {NoCall}
      BY <1>1
    <3>4. stage' \in Stages
      BY <1>1 DEF Stages
    <3> QED BY <3>1, <3>2, <3>3, <3>4
  <2> QED BY <1>1, <2>1 DEF ProgramTyped
<1> QED BY <1>1, <1>2, <1>3, <1>4 DEF Calling, Polling

LEMMA DriverStep ==
  ASSUME DriverInv, [DriverNext]_driverVars
  PROVE  DriverInv'
<1>1. ASSUME ProgramTyped', Calling', Polling', Agreed', stored' \in Nat,
             InterfaceTypeOK', Device!DeviceTypeOK'
      PROVE  DriverInv'
  BY <1>1 DEF DriverInv, DriverTypeOK, ProgramTyped, Stages, WritesLand, Polling
<1>2. stored \in Nat
  BY DEF DriverInv, DriverTypeOK
<1>3. CASE Driving /\ Wires(Access) /\ Remember
  <2>1. stage \notin {"ready", "return"}
    BY <1>3 DEF Driving, PutRegister, I2C_WR_DATA, I2C_WR_CONTROL, GiveUp,
         ReadFirst, WaitBefore, WaitAfter, CheckAcknowledge, I2C_RD_DATA, ReadSecond
  <2> QED BY <1>1, <1>2, <1>3, <2>1, DrivingKeeps, AccessFits, WiresTyped, RememberTyped
<1>4. CASE Succeed /\ Wires(NoAccess) /\ Remember
  BY <1>1, <1>2, <1>4, SucceedKeeps, NoAccessFits, WiresTyped, RememberTyped
<1>5. CASE Wires(NoAccess) /\ Compute /\ Remember
  BY <1>1, <1>2, <1>5, ComputeKeeps, NoAccessFits, WiresTyped, RememberTyped
<1>6. ASSUME NEW c \in Calls, Wires(NoAccess), Begin(c)
      PROVE  DriverInv'
  BY <1>1, <1>6, BeginStep, NoAccessFits, WiresTyped
<1>7. CASE UNCHANGED driverVars
  BY <1>7 DEF driverVars, interfaceVars, clkgenVars, coreVars, registerVars, programVars,
              Device!deviceVars, DriverInv, DriverTypeOK, InterfaceTypeOK, ClkgenTypeOK,
              CoreTypeOK, Device!DeviceTypeOK, WritesLand, Agreed, TIP, Calling, Polling, Now
<1> QED BY <1>3, <1>4, <1>5, <1>6, <1>7 DEF DriverNext, DriverClock, OtherClock

\* No write of the driver is ignored, whatever the calls and the divisor.
THEOREM DriverInvariant == DriverSpec => []DriverInv
<1>1. DriverInit => DriverInv
  <2> SUFFICES ASSUME DriverInit PROVE DriverInv
    OBVIOUS
  <2>1. InterfaceTypeOK /\ p_state = "Reset" /\ cr = NoControl /\ ~cmd_done /\ ~cmd_done_ack
    BY InitTyped DEF DriverInit, InterfaceInit, CoreInit
  <2>2. Device!DeviceTypeOK
    <3>1. ZeroByte \in Byte /\ Device!Blank \in [Byte -> Byte]
      BY DeviceWords DEF ZeroByte, Byte, Bit, Device!Blank
    <3>2. dbyte = ZeroByte /\ dptr = ZeroByte
      BY DEF DriverInit, Device!DeviceInit, ZeroByte
    <3> QED BY <3>1, <3>2, DeviceWords, BitsAssumption
            DEF DriverInit, Device!DeviceInit, Device!DeviceTypeOK, Bit
  <2>3. Agreed /\ ~TIP
    BY <2>1 DEF Agreed, TIP, NoControl, Transferring, Paced, Follows
  <2>4. << >> \in Seq(Byte)
    OBVIOUS
  <2>5. /\ call = NoCall /\ step = 1 /\ stage = "ready" /\ held = FALSE /\ got = << >>
        /\ stored = 0
    BY DEF DriverInit
  <2>6. got \in Seq(Byte)
    BY <2>4, <2>5, Zenon
  <2>7. DriverTypeOK
    <3>1. held \in BOOLEAN
      BY <2>5
    <3>2. step \in Nat \ {0}
      BY <2>5
    <3>3. call \in Calls \cup {NoCall}
      BY <2>5
    <3> QED BY <2>1, <2>2, <2>5, <2>6, <3>1, <3>2, <3>3 DEF DriverTypeOK
  <2> QED BY <2>1, <2>3, <2>5, <2>7 DEF DriverInv, WritesLand, Calling, Polling
<1>2. DriverInv /\ [DriverNext]_driverVars => DriverInv'
  BY DriverStep
<1> QED BY <1>1, <1>2, PTL DEF DriverSpec

----------------------------------------------------------------------------
(* The inductive invariant of the two wires. *)

\* Where SCL is low, rising, high and falling; the core is at rest with SCL as
\* the last command left it.
Low == {"Wr_A", "Wr_E", "Rd_A", "Rd_F", "WrAck_A", "RdAck_A", "Stop_A"}
Rising == {"Start_B", "Wr_B", "Rd_B", "WrAck_B", "RdAck_B", "Stop_B"}
High == {"Start_C", "Wr_C", "Rd_C", "Rd_D", "WrAck_C", "RdAck_C", "RdAck_D", "Stop_C"}
Falling == {"Start_D", "Wr_D", "Rd_E", "WrAck_D", "RdAck_E"}
Resting == {"Reset", "Idle", "Start_A"} \cup Finished

\* SCL of the state, as the device and the core have seen it; the pulse, which
\* comes when the core has been on a level for more than a clock.
Levels ==
  /\ scl_in = dscl /\ sda_in = dpin
  /\ clkdiv > 0 /\ (sclk => clk_ctr = 0)
  /\ p_state \in Low => dscl = 0 /\ SCL = 0
  /\ p_state \in Rising => dscl <= SCL /\ (sclk => SCL = 1)
  /\ p_state \in High => dscl = 1 /\ SCL = 1
  /\ p_state \in Falling => SCL <= dscl /\ (sclk => SCL = 0)
  /\ p_state \in Resting => dscl = SCL
  /\ p_state = "Reset" => SCL = 1

\* What the core does to SDA, where SCL is not low.
Drives ==
  /\ p_state \in {"Start_B", "Rd_B", "Rd_C", "Rd_D", "Rd_E",
                  "RdAck_B", "RdAck_C", "RdAck_D", "RdAck_E"} => sda_out = 1
  /\ p_state \in {"Start_D", "Stop_B"} => sda_out = 0
  /\ p_state \in {"Wr_B", "Wr_C", "Wr_D"} => sda_out = data_in[ctr + 1]
  /\ p_state \in {"WrAck_B", "WrAck_C", "WrAck_D"} => sda_out = cr.ack
  /\ p_state = "Start_C" => (dpin = 1 \/ sda_out = 0) /\ (sclk => sda_out = 0)
  /\ p_state = "Stop_C" => (dpin = 0 \/ sda_out = 1) /\ (sclk => sda_out = 1)
  /\ p_state \in Resting /\ SCL = 1 => sda_out = 1 /\ dpin = 1 /\ dphase = "free"
  /\ p_state = "Stop_C" /\ dpin = 1 => dphase = "free"

\* SDA is under a high SCL as the device has seen it.
Still ==
  dscl = 1 /\ SCL = 1 /\ p_state \notin {"Start_C", "Stop_C"} => dpin = SDA(dsda)

\* The device has taken the byte; the core ends its last bit.
Taken == p_state = "Wr_D" /\ ctr = Bits - 1 /\ dscl = 0

\* The device is at the acknowledge of a byte it has taken.
Acknowledging ==
  \/ Taken
  \/ p_state \in {"RdAck_A", "RdAck_B", "RdAck_C", "RdAck_D"}
  \/ p_state = "RdAck_E" /\ dscl = 1

\* Of the byte, the bits that the core has made the device see.
BitsThrough ==
  CASE p_state \in {"Wr_A", "Wr_B", "Wr_C", "Rd_A", "Rd_B", "Rd_C", "Rd_D"} -> ctr + dscl
    [] p_state \in {"Wr_D", "Wr_E", "Rd_E", "Rd_F"} -> IF Taken THEN Bits + 1 ELSE ctr + 1
    [] p_state \in {"RdAck_A", "RdAck_B", "RdAck_C", "RdAck_D"} -> Bits + 1
    [] p_state \in {"WrAck_A", "WrAck_B", "WrAck_C"} -> Bits + dscl
    [] p_state \in {"RdAck_E", "WrAck_D"} -> IF dscl = 1 THEN Bits + 1 ELSE 0
    [] p_state = "Start_C" -> dpin
    [] p_state = "Start_D" -> 0
    [] OTHER -> dscl

\* The bit the device has on SDA, of the register it sends.
BitSent == IF dbits + 1 - dscl \in 1..Bits THEN regs[dptr][dbits + 1 - dscl] ELSE 1

\* The device counts the bits that the core does, and has the ones it was sent.
InStep ==
  /\ p_state \in {"Start_A", "Start_B", "Start_C", "Start_D"} => ctr = 0
  /\ p_state \in {"Wr_E", "Rd_F"} => ctr + 1 < Bits
  /\ IF dphase = "free" THEN dbits = 0 /\ dsda = 1
     ELSE /\ dbits = BitsThrough
          /\ Acknowledging => dsda = 0
          /\ Device!Receiving /\ ~Acknowledging => dsda = 1
          /\ dphase = "send" /\ ~Acknowledging => dsda = BitSent
  /\ Device!Receiving /\ p_state \in {"Wr_A", "Wr_B", "Wr_C", "Wr_D", "Wr_E"} /\ ~Taken =>
       \A i \in 1..dbits : dbyte[i] = data_in[i]

\* The command the core has is the one of the transfer that is being made.
Commanded ==
  /\ stage = "await" => p_state # "Reset"
  /\ stage = "await" /\ TIP => cr = Now.control
  /\ stage \in {"control", "await"} /\ Now.kind = "send" => data_in = Now.data
  /\ p_state \in {"Wr_A", "Wr_B", "Wr_C", "Wr_D", "Wr_E",
                  "RdAck_A", "RdAck_B", "RdAck_C", "RdAck_D", "RdAck_E"} => cr.write
  /\ p_state \in {"Rd_A", "Rd_B", "Rd_C", "Rd_D", "Rd_E", "Rd_F",
                  "WrAck_A", "WrAck_B", "WrAck_C", "WrAck_D"} => cr.read
  /\ p_state \in {"Start_A", "Start_B", "Start_C", "Start_D"} => cr.start
  /\ p_state \in {"Stop_A", "Stop_B", "Stop_C"} => cr.stop
  /\ p_state # "RdAck_D" => ack_out = ackbit
  /\ held /\ stage = "status" => readdata[2].lar = ackbit

\* A transfer is to come, its bits are going, it is answered, it is done; Over
\* when only the program has to see that it is.
Before ==
  \/ stage \in {"wait", "data", "control"}
  \/ stage = "await" /\ \/ p_state = "Idle" /\ TIP
                        \/ p_state \in {"Start_A", "Start_B"}
                        \/ p_state = "Start_C" /\ dpin = 1

Amid ==
  \/ p_state = "Start_C" /\ dpin = 0
  \/ p_state \in {"Start_D", "Wr_A", "Wr_B", "Wr_C", "Wr_D", "Wr_E",
                  "Rd_A", "Rd_B", "Rd_C", "Rd_D", "Rd_E", "Rd_F", "WrAck_A"} /\ ~Taken
  \/ p_state = "WrAck_B" /\ dscl = 0

Answered == Taken \/ p_state \in {"RdAck_A", "RdAck_B", "RdAck_C"}

Over ==
  \/ stage \in {"status", "fetch"}
  \/ stage = "await" /\ (p_state \in Finished \/ (p_state = "Idle" /\ ~TIP))

After ==
  \/ Over
  \/ p_state \in {"RdAck_D", "RdAck_E", "WrAck_C", "WrAck_D", "Stop_A", "Stop_B", "Stop_C"}
  \/ p_state = "WrAck_B" /\ dscl = 1

\* The device expects no more: STOP, no acknowledge from it, or none from the core.
Left ==
  \/ Now.control.stop /\ (Over \/ (p_state = "Stop_C" /\ dpin = 1))
  \/ Now.kind = "send" /\ ackbit = 1
  \/ Now.kind = "receive" /\ Now.control.ack = 1

\* What the device expects after the first k transfers, and in the next one.
Settled(k) ==
  IF k = 0 THEN "free"
  ELSE IF k = 1 THEN "index"
  ELSE IF call.op = "read" /\ k >= 3 THEN "send"
  ELSE "data"

During(k) == IF Steps(call)[k].control.start THEN "address" ELSE Settled(k - 1)

\* What the device expects is what the program is to send or read next.
Phases ==
  /\ stage \in {"ready", "put", "giveup", "return"} => dphase = "free"
  /\ Before => dphase = Settled(step - 1)
  /\ Amid => dphase = During(step)
  /\ Answered => dphase \in {"free", Settled(step)}
  /\ After => dphase = IF Left THEN "free" ELSE Settled(step)

\* SCL stays low from START to STOP, and is high after a call that succeeds.
Clocked ==
  /\ Before /\ step > 1 /\ p_state \in Resting => SCL = 0
  /\ Over => SCL = IF Now.control.stop THEN 1 ELSE 0
  /\ stage = "return" /\ call \in Transfers => SCL = 1
  /\ result = "I2C_SUCCESS" /\ call \notin Transfers => SCL = 1

\* The inductive invariant of the wires, for runs of DriverInv.
BusInv ==
  /\ Levels
  /\ Drives
  /\ Still
  /\ InStep
  /\ Commanded
  /\ Phases
  /\ Clocked

----------------------------------------------------------------------------
(* Where the core goes from each state. *)

LEMMA CoreGoes ==
  ASSUME CoreTypeOK, CoreClock(sclk, cr, data_in, cmd_done_ack, scl_in, sda_in)
  PROVE  /\ p_state \in Paced /\ ~sclk => p_state' = p_state
         /\ p_state \in DOMAIN Follows /\ sclk => p_state' = Follows[p_state]
         /\ p_state = "Start_D" /\ sclk =>
              p_state' = IF TIP THEN FirstQuarter(cr) ELSE "Start_D"
         /\ p_state = "Rd_E" /\ sclk => p_state' = IF ctr = Bits - 1 THEN "WrAck_A" ELSE "Rd_F"
         /\ p_state = "Wr_D" /\ sclk => p_state' = IF ctr = Bits - 1 THEN "RdAck_A" ELSE "Wr_E"
         /\ p_state \in {"WrAck_D", "RdAck_E"} /\ sclk =>
              p_state' = IF cr.stop THEN "Stop_A" ELSE "Done"
         /\ p_state = "Rd_C" => p_state' = "Rd_D"
         /\ p_state = "RdAck_C" => p_state' = "RdAck_D"
         /\ p_state = "Rd_F" => p_state' = "Rd_A"
         /\ p_state = "Wr_E" => p_state' = "Wr_A"
         /\ p_state = "Reset" => p_state' = "Idle"
         /\ p_state = "Done" => p_state' = "DoneAck"
         /\ p_state = "DoneAck" => p_state' = IF cmd_done_ack THEN "Idle" ELSE "DoneAck"
         /\ p_state = "Idle" =>
              p_state' = IF ~TIP THEN "Idle" ELSE IF cr.start THEN "Start_A" ELSE FirstQuarter(cr)
         /\ ctr' = IF p_state = "Idle" THEN 0
                   ELSE IF p_state \in {"Rd_F", "Wr_E"} THEN (ctr + 1) % Bits ELSE ctr
         /\ ackbit' = IF p_state = "RdAck_C" THEN sda_in ELSE ackbit
         /\ dout' = IF p_state = "Rd_C" THEN [dout EXCEPT ![ctr + 1] = sda_in] ELSE dout
<1> USE DEF Go, Paced, TIP, Follows
<1>1. CASE AwaitPulse(sclk)
  BY <1>1 DEF AwaitPulse
<1>2. CASE Advance(sclk)
  BY <1>2 DEF Advance
<1>3. CASE LeaveReset \/ SignalDone \/ AwaitDoneAck(cmd_done_ack)
  BY <1>3 DEF LeaveReset, SignalDone, AwaitDoneAck
<1>4. CASE AwaitCommand(cr)
  BY <1>4 DEF AwaitCommand
<1>5. CASE BeginByte(sclk, cr)
  BY <1>5 DEF BeginByte
<1>6. CASE SampleBit(sda_in)
  BY <1>6 DEF SampleBit
<1>7. CASE EndBit(sclk)
  BY <1>7 DEF EndBit
<1>8. CASE CountBit
  BY <1>8 DEF CountBit
<1>9. CASE SampleAck(sda_in)
  BY <1>9 DEF SampleAck
<1>10. CASE EndAck(sclk, cr)
  BY <1>10 DEF EndAck
<1> QED
  BY <1>1, <1>2, <1>3, <1>4, <1>5, <1>6, <1>7, <1>8, <1>9, <1>10 DEF CoreClock

\* What a clock of the bus is, for the proofs below.
BusClock(access) ==
  /\ Wires(access)
  /\ Fits(access)
  /\ access.op = "write" /\ access.address = 3 => access.data > 0
  /\ IsCommand(access) => stage = "control"

LEMMA BusParts ==
  ASSUME DriverInv, NEW access, BusClock(access)
  PROVE  /\ CoreClock(sclk, cr, data_in, cmd_done_ack, scl_in, sda_in)
         /\ scl_out' = Scl(scl_in) /\ sda_out' = Sda(cr, data_in, sda_in)
         /\ ack_out' = ackbit
         /\ scl_in' = SCL /\ sda_in' = SDA(dsda)
         /\ dscl' = SCL /\ dpin' = SDA(dsda)
         /\ CoreTypeOK /\ CoreTypeOK'
         /\ InterfaceTypeOK /\ InterfaceTypeOK'
         /\ SCL \in Bit /\ SDA(dsda) \in Bit
         /\ dscl \in Bit /\ dpin \in Bit /\ dsda \in Bit
         /\ dbits \in 0..(Bits + 1) /\ dbyte \in Byte /\ dptr \in Byte
         /\ regs \in [Byte -> Byte]
         /\ dphase \in {"free", "address", "index", "data", "send"}
<1>1. InterfaceTypeOK /\ Device!DeviceTypeOK /\ InterfaceTypeOK'
  BY WiresTyped DEF DriverInv, DriverTypeOK, BusClock
<1>2. CoreTypeOK /\ CoreTypeOK'
  BY <1>1 DEF InterfaceTypeOK
<1>3. /\ CoreClock(sclk, cr, data_in, cmd_done_ack, scl_in, sda_in)
      /\ scl_in' = SCL /\ sda_in' = SDA(dsda)
      /\ Device!DeviceClock(SCL, SDA(dsda))
  BY InterfaceParts DEF BusClock, Wires
<1>4. /\ scl_out' = Scl(scl_in) /\ sda_out' = Sda(cr, data_in, sda_in)
      /\ ack_out' = ackbit
  BY <1>3 DEF CoreClock, Outputs
<1>5. dscl' = SCL /\ dpin' = SDA(dsda)
  BY <1>3 DEF Device!DeviceClock
<1>6. /\ dscl \in Bit /\ dpin \in Bit /\ dsda \in Bit
      /\ dbits \in 0..(Bits + 1) /\ dbyte \in Byte /\ dptr \in Byte
      /\ regs \in [Byte -> Byte]
      /\ dphase \in {"free", "address", "index", "data", "send"}
  BY <1>1, DeviceWords DEF Device!DeviceTypeOK
<1>7. SCL \in Bit /\ SDA(dsda) \in Bit
  BY <1>2, <1>6 DEF SCL, SDA, CoreTypeOK, Bit
<1> QED BY <1>1, <1>2, <1>3, <1>4, <1>5, <1>6, <1>7

\* A byte that is at work keeps command and divisor.
LEMMA BusCommand ==
  ASSUME DriverInv, NEW access, BusClock(access), p_state \notin {"Idle", "Reset"} \cup Finished
  PROVE  cr' = cr /\ data_in' = data_in /\ TIP /\ TIP'
<1>1. p_state \in Transferring
  BY BusParts DEF CoreTypeOK, States
<1>2. TIP /\ ~cmd_done
  BY <1>1 DEF DriverInv, Agreed
<1>3. AcceptAccess(access) \/ AwaitDone(access) \/ EndCommand
  BY InterfaceParts DEF BusClock, Wires
<1>4. cr \in Control
  BY DEF DriverInv, DriverTypeOK, InterfaceTypeOK
<1> QED BY <1>2, <1>3, <1>4, RegisterMoves DEF TIP

\* The pulse of one clock is not followed by another.
LEMMA PulseStep ==
  ASSUME DriverInv, Levels, NEW access, BusClock(access)
  PROVE  /\ clkdiv' > 0
         /\ sclk => ~sclk'
         /\ sclk' => clk_ctr' = 0
<1>1. ClkgenClock(clkdiv) /\ (AcceptAccess(access) \/ AwaitDone(access) \/ EndCommand)
  BY InterfaceParts DEF BusClock, Wires
<1>2. clk_ctr \in Nat /\ clkdiv \in Nat
  BY DEF DriverInv, DriverTypeOK, InterfaceTypeOK, ClkgenTypeOK
<1>3. clkdiv' > 0
  BY <1>1 DEF Levels, BusClock, AcceptAccess, AwaitDone, EndCommand
<1>4. CASE Pulse(clkdiv)
  BY <1>2, <1>3, <1>4 DEF Levels, Pulse
<1>5. CASE CountClock(clkdiv)
  BY <1>2, <1>3, <1>5 DEF Levels, CountClock
<1> QED BY <1>1, <1>4, <1>5 DEF ClkgenClock

\* SCL goes through its quarters.
LEMMA LevelsStep ==
  ASSUME DriverInv, Levels, NEW access, BusClock(access),
         p_state = "Idle" /\ TIP /\ ~cr.start => SCL = 0
  PROVE  Levels'
<1> USE DEF Levels, Low, Rising, High, Falling, Resting, SCL, Finished
<1>1. /\ scl_out' = Scl(scl_in)
      /\ scl_in' = SCL /\ dscl' = SCL /\ sda_in' = dpin'
      /\ scl_out \in {0, 1} /\ dscl \in {0, 1}
      /\ p_state \in States
  BY BusParts DEF Bit, CoreTypeOK
<1>2. clkdiv' > 0 /\ (sclk => ~sclk') /\ (sclk' => clk_ctr' = 0)
  BY PulseStep
<1>3. CoreTypeOK /\ CoreClock(sclk, cr, data_in, cmd_done_ack, scl_in, sda_in)
  BY BusParts
<1>4. CASE p_state \in Low
  <2>1. scl_out' = 0 /\ dscl' = 0
    BY <1>1, <1>4 DEF Scl, KeepsPins
  <2>2. p_state' \in Low \/ (sclk /\ p_state' \in Rising)
    BY <1>3, <1>4, CoreGoes DEF Paced, Follows
  <2> QED BY <1>1, <1>2, <2>1, <2>2
<1>5. CASE p_state \in Rising
  <2>1. scl_out' = 1
    BY <1>1, <1>5 DEF Scl, KeepsPins
  <2>2. p_state' \in Rising \/ (sclk /\ p_state' \in High)
    BY <1>3, <1>5, CoreGoes DEF Paced, Follows
  <2> QED BY <1>1, <1>2, <1>5, <2>1, <2>2
<1>6. CASE p_state \in High
  <2>1. scl_out' = 1 /\ dscl' = 1
    BY <1>1, <1>6 DEF Scl, KeepsPins
  <2>2. p_state' \in High \/ (sclk /\ p_state' \in Falling \cup {"Done"})
    BY <1>3, <1>6, CoreGoes DEF Paced, Follows
  <2> QED BY <1>1, <1>2, <2>1, <2>2
<1>7. CASE p_state \in Falling
  <2>1. scl_out' = 0
    BY <1>1, <1>7 DEF Scl, KeepsPins
  <2>2. p_state' \in Falling \/ (sclk /\ p_state' \in Low \cup {"Done"})
    BY <1>3, <1>7, CoreGoes DEF Paced, Follows, FirstQuarter
  <2> QED BY <1>1, <1>2, <1>7, <2>1, <2>2
<1>8. CASE p_state \in Resting
  <2>1. scl_out' = scl_out /\ dscl' = scl_out
    BY <1>1, <1>8 DEF Scl, KeepsPins
  <2>2. \/ p_state' \in Resting \ {"Reset"}
        \/ sclk /\ p_state' = "Start_B"
        \/ p_state' \in Low /\ SCL = 0
    BY <1>3, <1>8, CoreGoes DEF Paced, Follows, FirstQuarter
  <2> QED BY <1>1, <1>2, <1>8, <2>1, <2>2
<1> QED BY <1>1, <1>4, <1>5, <1>6, <1>7, <1>8 DEF States, Transferring, Paced, Follows

\* What the device may take for START or STOP, or for the edges of SCL.
LEMMA DeviceCases ==
  ASSUME DriverInv, BusInv, NEW access, BusClock(access)
  PROVE  \/ /\ dscl = SCL /\ (SCL = 0 \/ dpin = SDA(dsda))
            /\ UNCHANGED <<dphase, dbits, dbyte, dptr, regs, dsda>>
         \/ /\ p_state = "Start_C" /\ dpin = 1 /\ SDA(dsda) = 0
            /\ dscl = 1 /\ SCL = 1 /\ Device!OnStart
         \/ /\ p_state = "Stop_C" /\ dpin = 0 /\ SDA(dsda) = 1
            /\ dscl = 1 /\ SCL = 1 /\ Device!OnStop
         \/ /\ p_state \in Rising /\ dscl = 0 /\ SCL = 1 /\ Device!OnRise(SDA(dsda))
         \/ /\ p_state \in Falling /\ dscl = 1 /\ SCL = 0
            /\ Device!Take \/ Device!Refuse \/ Device!PutBit
<1> USE DEF BusInv, Levels, Low, Rising, High, Falling, Resting, SCL, Finished
<1>1. /\ p_state \in States /\ SCL \in {0, 1} /\ dscl \in {0, 1}
      /\ dpin \in {0, 1} /\ SDA(dsda) \in {0, 1}
  BY BusParts DEF Bit, CoreTypeOK
<1>2. Device!DeviceClock(SCL, SDA(dsda))
  BY DEF BusClock, Wires
<1>3. dscl = 0 /\ SCL = 1 => p_state \in Rising
  BY <1>1 DEF States, Transferring, Paced, Follows
<1>4. dscl = 1 /\ SCL = 0 => p_state \in Falling
  BY <1>1 DEF States, Transferring, Paced, Follows
<1>5. dscl = 1 /\ SCL = 1 /\ dpin # SDA(dsda) => p_state \in {"Start_C", "Stop_C"}
  BY DEF Still
<1>6. p_state = "Start_C" => dpin = 1 \/ SDA(dsda) = 0
  BY DEF Drives, SDA
<1>7. p_state = "Stop_C" /\ dpin # SDA(dsda) => dpin = 0
  <2> SUFFICES ASSUME p_state = "Stop_C", dpin = 1 PROVE SDA(dsda) = 1
    BY <1>1
  <2>1. sda_out = 1 /\ dphase = "free"
    BY DEF Drives
  <2>2. dsda = 1
    BY <2>1 DEF InStep
  <2> QED BY <2>1, <2>2 DEF SDA
<1> QED BY <1>1, <1>2, <1>3, <1>4, <1>5, <1>6, <1>7
    DEF Device!DeviceClock, Device!StartSeen, Device!StopSeen

----------------------------------------------------------------------------
(* What the transfers of a read or write are. *)

\* Every call with a byte to read or write has one: with none there is no STOP.
NotEmpty == \A c \in Transfers : c.size > 0

\* The pulse does not come on every clock.
Slowed ==
  /\ DefaultDivisor > 0
  /\ \A c \in Calls : c.op = "init" => Divisor(c.frequency) > 0

TransferAt(c, k) ==
  LET s == Steps(c)[k]
  IN  /\ s.kind = IF c.op = "read" /\ k > 3 THEN "receive" ELSE "send"
      /\ s.control \in Control
      /\ s.control.start <=> k = 1 \/ (c.op = "read" /\ k = 3)
      /\ s.control.stop <=> k = Len(Steps(c))
      /\ s.kind = "send" => s.control.write /\ ~s.control.read /\ s.control.ack = 0
      /\ s.kind = "receive" =>
           /\ s.control.read /\ ~s.control.write
           /\ s.control.ack = IF k = Len(Steps(c)) THEN 1 ELSE 0
      /\ s.kind = "send" => s.data \in Byte /\ s.error # "I2C_SUCCESS"
      /\ k = 1 => s.data[Bits] = 0
      /\ k = 3 /\ c.op = "read" => s.data[Bits] = 1

Sends(s, data) ==
  /\ s.kind = "send" /\ s.data = data /\ s.error # "I2C_SUCCESS"
  /\ s.control.write /\ ~s.control.read /\ s.control.ack = 0

LEMMA SendIs ==
  ASSUME NEW data, NEW error, error # "I2C_SUCCESS"
  PROVE  /\ LET s == Send(data, TRUE, FALSE, error)
            IN  Sends(s, data) /\ s.control.start /\ ~s.control.stop
         /\ LET s == Send(data, FALSE, FALSE, error)
            IN  Sends(s, data) /\ ~s.control.start /\ ~s.control.stop
         /\ LET s == Send(data, FALSE, TRUE, error)
            IN  Sends(s, data) /\ ~s.control.start /\ s.control.stop
  BY DEF Send, Sends, Ctl, NoControl

Receives(s) ==
  s.kind = "receive" /\ s.control.read /\ ~s.control.write /\ ~s.control.start

LEMMA ReceiveIs ==
  /\ LET s == Receive(FALSE)
     IN  Receives(s) /\ ~s.control.stop /\ s.control.ack = 0
  /\ LET s == Receive(TRUE)
     IN  Receives(s) /\ s.control.stop /\ s.control.ack = 1
  BY DEF Receive, Receives, Ctl, NoControl

LEMMA Addressing ==
  ASSUME NEW device \in Byte
  PROVE  ForWriting(device)[Bits] = 0 /\ ForReading(device)[Bits] = 1
  BY BitsAssumption DEF ForWriting, ForReading, Byte

LEMMA TransfersAre ==
  ASSUME NotEmpty, NEW c \in Transfers
  PROVE  /\ Len(Steps(c)) \in Nat
         /\ Len(Steps(c)) > IF c.op = "read" THEN 3 ELSE 2
         /\ \A k \in 1..Len(Steps(c)) : TransferAt(c, k)
<1>1. IsCall(c) /\ c.op \in {"read", "write"} /\ c.size > 0
  BY CallsAssumption DEF Transfers, NotEmpty
<1>2. c.device \in Byte /\ c.index \in Byte
  BY <1>1 DEF IsCall
<1>3. /\ ForWriting(c.device) \in Byte /\ ForWriting(c.device)[Bits] = 0
      /\ ForReading(c.device) \in Byte /\ ForReading(c.device)[Bits] = 1
  BY <1>2, ForDevice, Addressing
<1>7. ASSUME NEW k \in 1..Len(Steps(c)), NEW data, Sends(Steps(c)[k], data),
             Steps(c)[k].control.start <=> k = 1 \/ (c.op = "read" /\ k = 3),
             Steps(c)[k].control.stop <=> k = Len(Steps(c)),
             ~(c.op = "read" /\ k > 3),
             k = 1 => data[Bits] = 0,
             k = 3 /\ c.op = "read" => data[Bits] = 1
      PROVE  TransferAt(c, k)
  BY <1>1, <1>7, StepsSound DEF TransferAt, Sends, SoundStep
<1>8. ASSUME NEW k \in 1..Len(Steps(c)), Receives(Steps(c)[k]),
             Steps(c)[k].control.stop <=> k = Len(Steps(c)),
             Steps(c)[k].control.ack = IF k = Len(Steps(c)) THEN 1 ELSE 0,
             c.op = "read" /\ k > 3
      PROVE  TransferAt(c, k)
  BY <1>1, <1>8, StepsSound DEF TransferAt, Receives, SoundStep
<1>4. CASE c.op = "write"
  <2>1. c.size \in Nat /\ Len(Steps(c)) = c.size + 2
    BY <1>1, <1>4, WriteStepAt
  <2>2. TransferAt(c, 1)
    <3>1. Steps(c)[1] = Send(ForWriting(c.device), TRUE, FALSE, "I2C_ENODEV")
      BY <1>1, <1>4, WriteStepAt
    <3>2. /\ Sends(Steps(c)[1], ForWriting(c.device))
          /\ Steps(c)[1].control.start /\ ~Steps(c)[1].control.stop
      BY <3>1, SendIs
    <3>3. 1 \in 1..Len(Steps(c)) /\ 1 # Len(Steps(c)) /\ (1 = 1 \/ 1 > 1)
      BY <1>1, <2>1
    <3>4. /\ Steps(c)[1].control.start <=> 1 = 1 \/ (c.op = "read" /\ 1 = 3)
          /\ Steps(c)[1].control.stop <=> 1 = Len(Steps(c))
          /\ ~(c.op = "read" /\ 1 > 3)
      BY <1>4, <3>2, <3>3
    <3>5. /\ 1 = 1 => ForWriting(c.device)[Bits] = 0
          /\ 1 = 3 /\ c.op = "read" => ForWriting(c.device)[Bits] = 1
      BY <1>3, <1>4
    <3> QED BY <3>2, <3>3, <3>4, <3>5, <1>7
  <2>3. TransferAt(c, 2)
    <3>1. Steps(c)[2] = Send(c.index, FALSE, FALSE, "I2C_EBADACK")
      BY <1>1, <1>4, WriteStepAt
    <3>2. /\ Sends(Steps(c)[2], c.index)
          /\ ~Steps(c)[2].control.start /\ ~Steps(c)[2].control.stop
      BY <3>1, SendIs
    <3>3. 2 \in 1..Len(Steps(c)) /\ 2 # Len(Steps(c)) /\ (2 = 1 \/ 2 > 1)
      BY <1>1, <2>1
    <3>4. /\ Steps(c)[2].control.start <=> 2 = 1 \/ (c.op = "read" /\ 2 = 3)
          /\ Steps(c)[2].control.stop <=> 2 = Len(Steps(c))
          /\ ~(c.op = "read" /\ 2 > 3)
      BY <1>4, <3>2, <3>3
    <3>5. /\ 2 = 1 => c.index[Bits] = 0
          /\ 2 = 3 /\ c.op = "read" => c.index[Bits] = 1
      BY <1>3, <1>4
    <3> QED BY <3>2, <3>3, <3>4, <3>5, <1>7
  <2>4. ASSUME NEW i \in 1..c.size PROVE TransferAt(c, 2 + i)
    <3>0. c.values[i] \in Byte
      BY <1>1, <1>4, WriteStepAt
    <3>1. CASE i = c.size
      <4>1. Steps(c)[2 + i] = Send(c.values[i], FALSE, TRUE, "I2C_EBADACK")
        BY <1>1, <1>4, <3>1, WriteStepAt
      <4>2. /\ Sends(Steps(c)[2 + i], c.values[i])
            /\ ~Steps(c)[2 + i].control.start /\ Steps(c)[2 + i].control.stop
        BY <4>1, SendIs
      <4>3. 2 + i \in 1..Len(Steps(c)) /\ 2 + i = Len(Steps(c)) /\ (2 + i = 1 \/ 2 + i > 1)
        BY <1>1, <2>1, <3>1
      <4>4. /\ Steps(c)[2 + i].control.start <=> 2 + i = 1 \/ (c.op = "read" /\ 2 + i = 3)
            /\ Steps(c)[2 + i].control.stop <=> 2 + i = Len(Steps(c))
            /\ ~(c.op = "read" /\ 2 + i > 3)
        BY <1>4, <4>2, <4>3
      <4>5. /\ 2 + i = 1 => c.values[i][Bits] = 0
            /\ 2 + i = 3 /\ c.op = "read" => c.values[i][Bits] = 1
        BY <1>3, <1>4
      <4> QED BY <4>2, <4>3, <4>4, <4>5, <1>7
    <3>2. CASE i # c.size
      <4>1. Steps(c)[2 + i] = Send(c.values[i], FALSE, FALSE, "I2C_EBADACK")
        BY <1>1, <1>4, <3>2, WriteStepAt
      <4>2. /\ Sends(Steps(c)[2 + i], c.values[i])
            /\ ~Steps(c)[2 + i].control.start /\ ~Steps(c)[2 + i].control.stop
        BY <4>1, SendIs
      <4>3. 2 + i \in 1..Len(Steps(c)) /\ 2 + i # Len(Steps(c)) /\ (2 + i = 1 \/ 2 + i > 1)
        BY <1>1, <2>1, <3>2
      <4>4. /\ Steps(c)[2 + i].control.start <=> 2 + i = 1 \/ (c.op = "read" /\ 2 + i = 3)
            /\ Steps(c)[2 + i].control.stop <=> 2 + i = Len(Steps(c))
            /\ ~(c.op = "read" /\ 2 + i > 3)
        BY <1>4, <4>2, <4>3
      <4>5. /\ 2 + i = 1 => c.values[i][Bits] = 0
            /\ 2 + i = 3 /\ c.op = "read" => c.values[i][Bits] = 1
        BY <1>3, <1>4
      <4> QED BY <4>2, <4>3, <4>4, <4>5, <1>7
    <3> QED BY <3>1, <3>2
  <2>5. ASSUME NEW k \in 1..Len(Steps(c)) PROVE TransferAt(c, k)
    <3>1. k \in {1, 2} \/ (k - 2 \in 1..c.size /\ k = 2 + (k - 2))
      BY <2>1
    <3> QED BY <2>2, <2>3, <2>4, <3>1
  <2> QED BY <1>1, <1>4, <2>1, <2>5
<1>5. CASE c.op = "read"
  <2>1. c.size \in Nat /\ Len(Steps(c)) = c.size + 3
    BY <1>1, <1>5, ReadStepAt
  <2>2. TransferAt(c, 1)
    <3>1. Steps(c)[1] = Send(ForWriting(c.device), TRUE, FALSE, "I2C_ENODEV")
      BY <1>1, <1>5, ReadStepAt
    <3>2. /\ Sends(Steps(c)[1], ForWriting(c.device))
          /\ Steps(c)[1].control.start /\ ~Steps(c)[1].control.stop
      BY <3>1, SendIs
    <3>3. 1 \in 1..Len(Steps(c)) /\ 1 # Len(Steps(c)) /\ (1 = 1 \/ 1 > 1)
      BY <1>1, <2>1
    <3>4. /\ Steps(c)[1].control.start <=> 1 = 1 \/ (c.op = "read" /\ 1 = 3)
          /\ Steps(c)[1].control.stop <=> 1 = Len(Steps(c))
          /\ ~(c.op = "read" /\ 1 > 3)
      BY <1>5, <3>2, <3>3
    <3>5. /\ 1 = 1 => ForWriting(c.device)[Bits] = 0
          /\ 1 = 3 /\ c.op = "read" => ForWriting(c.device)[Bits] = 1
      BY <1>3, <1>5
    <3> QED BY <3>2, <3>3, <3>4, <3>5, <1>7
  <2>3. TransferAt(c, 2)
    <3>1. Steps(c)[2] = Send(c.index, FALSE, FALSE, "I2C_EBADACK")
      BY <1>1, <1>5, ReadStepAt
    <3>2. /\ Sends(Steps(c)[2], c.index)
          /\ ~Steps(c)[2].control.start /\ ~Steps(c)[2].control.stop
      BY <3>1, SendIs
    <3>3. 2 \in 1..Len(Steps(c)) /\ 2 # Len(Steps(c)) /\ (2 = 1 \/ 2 > 1)
      BY <1>1, <2>1
    <3>4. /\ Steps(c)[2].control.start <=> 2 = 1 \/ (c.op = "read" /\ 2 = 3)
          /\ Steps(c)[2].control.stop <=> 2 = Len(Steps(c))
          /\ ~(c.op = "read" /\ 2 > 3)
      BY <1>5, <3>2, <3>3
    <3>5. /\ 2 = 1 => c.index[Bits] = 0
          /\ 2 = 3 /\ c.op = "read" => c.index[Bits] = 1
      BY <1>3, <1>5
    <3> QED BY <3>2, <3>3, <3>4, <3>5, <1>7
  <2>4. TransferAt(c, 3)
    <3>1. Steps(c)[3] = Send(ForReading(c.device), TRUE, FALSE, "I2C_ENODEV")
      BY <1>1, <1>5, ReadStepAt
    <3>2. /\ Sends(Steps(c)[3], ForReading(c.device))
          /\ Steps(c)[3].control.start /\ ~Steps(c)[3].control.stop
      BY <3>1, SendIs
    <3>3. 3 \in 1..Len(Steps(c)) /\ 3 # Len(Steps(c)) /\ (3 = 1 \/ 3 > 1)
      BY <1>1, <2>1
    <3>4. /\ Steps(c)[3].control.start <=> 3 = 1 \/ (c.op = "read" /\ 3 = 3)
          /\ Steps(c)[3].control.stop <=> 3 = Len(Steps(c))
          /\ ~(c.op = "read" /\ 3 > 3)
      BY <1>5, <3>2, <3>3
    <3>5. /\ 3 = 1 => ForReading(c.device)[Bits] = 0
          /\ 3 = 3 /\ c.op = "read" => ForReading(c.device)[Bits] = 1
      BY <1>3, <1>5
    <3> QED BY <3>2, <3>3, <3>4, <3>5, <1>7
  <2>5. ASSUME NEW i \in 1..c.size PROVE TransferAt(c, 3 + i)
    <3>1. CASE i = c.size
      <4>1. Steps(c)[3 + i] = Receive(TRUE)
        BY <1>1, <1>5, <3>1, ReadStepAt
      <4>2. /\ Receives(Steps(c)[3 + i])
            /\ Steps(c)[3 + i].control.stop /\ Steps(c)[3 + i].control.ack = 1
        BY <4>1, ReceiveIs
      <4>3. 3 + i \in 1..Len(Steps(c)) /\ 3 + i = Len(Steps(c)) /\ 3 + i > 3
        BY <1>1, <2>1, <3>1
      <4> QED BY <1>5, <4>2, <4>3, <1>8
    <3>2. CASE i # c.size
      <4>1. Steps(c)[3 + i] = Receive(FALSE)
        BY <1>1, <1>5, <3>2, ReadStepAt
      <4>2. /\ Receives(Steps(c)[3 + i])
            /\ ~Steps(c)[3 + i].control.stop /\ Steps(c)[3 + i].control.ack = 0
        BY <4>1, ReceiveIs
      <4>3. 3 + i \in 1..Len(Steps(c)) /\ 3 + i # Len(Steps(c)) /\ 3 + i > 3
        BY <1>1, <2>1, <3>2
      <4> QED BY <1>5, <4>2, <4>3, <1>8
    <3> QED BY <3>1, <3>2
  <2>6. ASSUME NEW k \in 1..Len(Steps(c)) PROVE TransferAt(c, k)
    <3>1. k \in {1, 2, 3} \/ (k - 3 \in 1..c.size /\ k = 3 + (k - 3))
      BY <2>1
    <3> QED BY <2>2, <2>3, <2>4, <2>5, <3>1
  <2> QED BY <1>1, <1>5, <2>1, <2>6
<1> QED BY <1>1, <1>4, <1>5

\* The transfer that is being made.
LEMMA NowTransfer ==
  ASSUME DriverInv, NotEmpty, stage \notin {"ready", "put", "return"}
  PROVE  /\ call \in Transfers /\ step \in 1..Len(Steps(call)) /\ Len(Steps(call)) \in Nat
         /\ \A k \in 1..Len(Steps(call)) : TransferAt(call, k)
         /\ TransferAt(call, step)
<1>1. call \in Calls /\ IsCall(call) /\ call # NoCall
  BY CallSound DEF DriverInv, DriverTypeOK, Calling
<1>2. step \in 1..Len(Steps(call)) /\ Now.kind # "put"
  BY <1>1 DEF DriverInv, Calling
<1>3. call \in Transfers
  <2>1. call.op \in {"read", "write", "configure", "init"}
    BY <1>1 DEF IsCall
  <2>2. CASE call.op = "configure"
    <3>1. /\ Len(Steps(call)) = 2
          /\ Steps(call)[1] = Put(1, StopOnly)
          /\ Steps(call)[2] = Put(1, [NoControl EXCEPT !.int_en = call.irq])
      BY <1>1, <2>2, PutStepAt
    <3>2. Steps(call)[1].kind = "put" /\ Steps(call)[2].kind = "put"
      BY <3>1 DEF Put
    <3>3. step \in {1, 2}
      BY <1>2, <3>1
    <3> QED BY <1>2, <3>2, <3>3 DEF Now
  <2>3. CASE call.op = "init"
    <3>1. /\ Len(Steps(call)) = 1
          /\ Steps(call)[1] = Put(3, Divisor(call.frequency))
      BY <1>1, <2>3, PutStepAt
    <3>2. Steps(call)[1].kind = "put"
      BY <3>1 DEF Put
    <3>3. step = 1
      BY <1>2, <3>1
    <3> QED BY <1>2, <3>2, <3>3 DEF Now
  <2>4. CASE call.op \in {"read", "write"}
    BY <1>1, <2>4 DEF Transfers
  <2> QED BY <2>1, <2>2, <2>3, <2>4
<1> QED BY <1>2, <1>3, TransfersAre

----------------------------------------------------------------------------
(* SDA. *)

\* While the core transfers, the program waits for it.
LEMMA Awaiting ==
  ASSUME DriverInv, BusInv, p_state \in Transferring
  PROVE  stage = "await" /\ TIP /\ cr = Now.control
<1>1. stage = "await"
  BY DEF DriverInv, Polling, Transferring, Paced, Follows
<1>2. TIP
  BY DEF DriverInv, Agreed
<1> QED BY <1>1, <1>2 DEF BusInv, Commanded

\* START and STOP find the device free, or receiving.
LEMMA StartPhase ==
  ASSUME DriverInv, BusInv, NotEmpty, p_state \in {"Start_A", "Start_B", "Start_C"},
         p_state = "Start_C" => dpin = 1
  PROVE  dphase \in {"free", "data"} /\ dsda = 1
<1>1. stage = "await" /\ cr = Now.control
  BY Awaiting DEF Transferring, Paced, Follows
<1>2. Before /\ cr.start
  BY <1>1 DEF Before, BusInv, Commanded
<1>3. /\ call.op \in {"read", "write"} /\ step \in 1..Len(Steps(call)) /\ Len(Steps(call)) \in Nat
      /\ TransferAt(call, step)
  BY <1>1, NowTransfer DEF Transfers
<1>4. step = 1 \/ (call.op = "read" /\ step = 3)
  BY <1>1, <1>2, <1>3 DEF TransferAt, Now
<1>5. dphase \in {"free", "data"}
  BY <1>2, <1>4 DEF BusInv, Phases, Settled
<1> QED BY <1>5 DEF BusInv, InStep, Acknowledging, Taken, Device!Receiving

LEMMA StopPhase ==
  ASSUME DriverInv, BusInv, NotEmpty, p_state \in {"Stop_A", "Stop_B", "Stop_C"}
  PROVE  dphase \in {"free", "data"} /\ dsda = 1
<1>1. stage = "await" /\ cr = Now.control
  BY Awaiting DEF Transferring, Paced, Follows
<1>2. After /\ cr.stop
  BY DEF After, BusInv, Commanded
<1>3. /\ call \in Transfers /\ call.op \in {"read", "write"} /\ step \in 1..Len(Steps(call))
      /\ Len(Steps(call)) \in Nat /\ TransferAt(call, step)
  BY <1>1, NowTransfer DEF Transfers
<1>4. Len(Steps(call)) > IF call.op = "read" THEN 3 ELSE 2
  BY <1>3, TransfersAre
<1>5. step = Len(Steps(call))
  BY <1>1, <1>2, <1>3 DEF TransferAt, Now
<1>6. call.op = "read" => Left
  BY <1>3, <1>4, <1>5 DEF TransferAt, Now, Left
<1>7. call.op = "write" => Settled(step) = "data"
  BY <1>3, <1>4, <1>5 DEF Settled
<1>8. dphase \in {"free", "data"}
  BY <1>2, <1>3, <1>6, <1>7 DEF BusInv, Phases
<1> QED BY <1>8 DEF BusInv, InStep, Acknowledging, Taken, Device!Receiving

\* A quarter on which the core has drawn SDA as it draws it on the next.
LEMMA DrivesStep ==
  ASSUME DriverInv, BusInv, NEW access, BusClock(access), NotEmpty
  PROVE  Drives'
<1> USE DEF BusInv, SCL
<1>1. /\ sda_out' = Sda(cr, data_in, sda_in) /\ scl_out' = Scl(scl_in)
      /\ sda_in = dpin /\ dscl' = scl_out /\ dpin' = SDA(dsda) /\ scl_in = dscl
      /\ p_state \in States /\ dsda \in {0, 1} /\ dpin \in {0, 1} /\ sda_out \in {0, 1}
      /\ scl_out \in {0, 1} /\ dscl \in {0, 1}
  BY BusParts DEF CoreTypeOK, Levels, Bit
<1>2. CoreTypeOK /\ CoreClock(sclk, cr, data_in, cmd_done_ack, scl_in, sda_in)
  BY BusParts
<1>3. p_state \notin {"Idle", "Reset"} \cup Finished => cr' = cr /\ data_in' = data_in
  BY BusCommand
<1>4. sclk => ~sclk'
  BY PulseStep
<1>5. p_state' \in {"Start_B", "Rd_B", "Rd_C", "Rd_D", "Rd_E",
                    "RdAck_B", "RdAck_C", "RdAck_D", "RdAck_E"} => sda_out' = 1
  BY <1>1, <1>2, CoreGoes
    DEF Sda, KeepsPins, States, Transferring, Paced, Finished, Follows, FirstQuarter
<1>6. p_state' \in {"Start_D", "Stop_B"} => sda_out' = 0
  BY <1>1, <1>2, CoreGoes
    DEF Sda, KeepsPins, States, Transferring, Paced, Finished, Follows, FirstQuarter
<1>7. p_state' \in {"Wr_B", "Wr_C", "Wr_D"} => sda_out' = data_in'[ctr' + 1]
  BY <1>1, <1>2, <1>3, CoreGoes
    DEF Sda, KeepsPins, States, Transferring, Paced, Finished, Follows, FirstQuarter
<1>8. p_state' \in {"WrAck_B", "WrAck_C", "WrAck_D"} => sda_out' = cr'.ack
  BY <1>1, <1>2, <1>3, CoreGoes
    DEF Sda, KeepsPins, States, Transferring, Paced, Finished, Follows, FirstQuarter
<1>9. p_state' = "Start_C" => (dpin' = 1 \/ sda_out' = 0) /\ (sclk' => sda_out' = 0)
  <2> SUFFICES ASSUME p_state' = "Start_C"
               PROVE  (dpin' = 1 \/ sda_out' = 0) /\ (sclk' => sda_out' = 0)
    OBVIOUS
  <2>1. p_state = "Start_C" \/ (p_state = "Start_B" /\ sclk)
    BY <1>1, <1>2, CoreGoes DEF States, Transferring, Paced, Finished, Follows, FirstQuarter
  <2>2. CASE p_state = "Start_C"
    BY <1>1, <2>2 DEF Sda, KeepsPins, Finished
  <2>3. CASE p_state = "Start_B" /\ sclk
    <3>1. dsda = 1 /\ sda_out = 1
      BY <2>3, StartPhase DEF Drives
    <3> QED BY <1>1, <1>4, <2>3, <3>1 DEF SDA
  <2> QED BY <2>1, <2>2, <2>3
<1>10. p_state' = "Stop_C" => (dpin' = 0 \/ sda_out' = 1) /\ (sclk' => sda_out' = 1)
  <2> SUFFICES ASSUME p_state' = "Stop_C"
               PROVE  (dpin' = 0 \/ sda_out' = 1) /\ (sclk' => sda_out' = 1)
    OBVIOUS
  <2>1. p_state = "Stop_C" \/ (p_state = "Stop_B" /\ sclk)
    BY <1>1, <1>2, CoreGoes DEF States, Transferring, Paced, Finished, Follows, FirstQuarter
  <2>2. CASE p_state = "Stop_C"
    BY <1>1, <2>2 DEF Sda, KeepsPins, Finished
  <2>3. CASE p_state = "Stop_B" /\ sclk
    BY <1>1, <1>4, <2>3 DEF SDA, Drives
  <2> QED BY <2>1, <2>2, <2>3
<1>11. p_state' \in Resting /\ scl_out' = 1 => sda_out' = 1 /\ dpin' = 1 /\ dphase' = "free"
  <2> SUFFICES ASSUME p_state' \in Resting, scl_out' = 1
               PROVE  sda_out' = 1 /\ dpin' = 1 /\ dphase' = "free"
    OBVIOUS
  <2>1. \/ p_state \in Resting
        \/ p_state = "Stop_C" /\ sclk
        \/ p_state \in {"RdAck_E", "WrAck_D"}
    BY <1>1, <1>2, CoreGoes
    DEF Resting, States, Transferring, Paced, Finished, Follows, FirstQuarter
  <2>2. CASE p_state \in Resting
    <3>1. scl_out = 1
      BY <1>1, <2>2 DEF Levels, Resting, Scl, KeepsPins, Finished
    <3>2. sda_out = 1 /\ dpin = 1 /\ dphase = "free" /\ dsda = 1
      BY <2>2, <3>1 DEF Drives, InStep
    <3>3. dphase' = dphase
      BY <2>2, DeviceCases DEF Resting, Rising, Falling, Finished
    <3>4. sda_out' = 1
      BY <1>1, <2>2, <3>2 DEF Sda, Resting, KeepsPins, Finished
    <3> QED BY <1>1, <3>2, <3>3, <3>4 DEF SDA
  <2>3. CASE p_state = "Stop_C" /\ sclk
    <3>1. sda_out = 1 /\ dsda = 1 /\ (dpin = 1 => dphase = "free")
      BY <2>3, StopPhase DEF Drives
    <3>2. SDA(dsda) = 1
      BY <3>1 DEF SDA
    <3>3. dphase' = "free"
      BY <1>1, <2>3, <3>1, <3>2, DeviceCases
      DEF Rising, Falling, Device!OnStop, Levels, High, SCL
    <3> QED BY <1>1, <2>3, <3>2, <3>3 DEF Sda, KeepsPins, Finished
  <2>4. CASE p_state \in {"RdAck_E", "WrAck_D"}
    BY <1>1, <2>4 DEF Scl, KeepsPins, Finished
  <2> QED BY <2>1, <2>2, <2>3, <2>4
<1>12. p_state' = "Stop_C" /\ dpin' = 1 => dphase' = "free"
  <2> SUFFICES ASSUME p_state' = "Stop_C", dpin' = 1 PROVE dphase' = "free"
    OBVIOUS
  <2>1. p_state = "Stop_C" \/ (p_state = "Stop_B" /\ sclk)
    BY <1>1, <1>2, CoreGoes DEF States, Transferring, Paced, Finished, Follows, FirstQuarter
  <2>2. p_state = "Stop_C" /\ SDA(dsda) = 1
    BY <1>1, <2>1 DEF SDA, Drives
  <2>3. dpin = 1 => dphase = "free"
    BY <2>2 DEF Drives
  <2>4. SCL = 1 /\ dscl = 1
    BY <2>2 DEF Levels, High
  <2>5. dpin = 0 => dphase' = "free"
    BY <2>2, <2>4, DeviceCases DEF Device!OnStop
  <2>6. dpin = 1 => dphase' = dphase
    BY <2>2, <2>4, DeviceCases DEF Rising, Falling
  <2> QED BY <1>1, <2>3, <2>5, <2>6
<1> QED BY <1>5, <1>6, <1>7, <1>8, <1>9, <1>10, <1>11, <1>12 DEF Drives

\* SDA moves under a high SCL only to make START or STOP.
LEMMA Stable ==
  ASSUME DriverInv, BusInv, NEW access, BusClock(access), NotEmpty,
         scl_out = 1, scl_out' = 1, p_state \notin {"Start_C", "Stop_C"}
  PROVE  SDA(dsda)' = SDA(dsda)
<1> USE DEF BusInv, SCL
<1>1. /\ sda_out' = Sda(cr, data_in, sda_in) /\ scl_out' = Scl(scl_in)
      /\ sda_in = dpin /\ p_state \in States
  BY BusParts DEF CoreTypeOK, Levels
<1>2. p_state \in Rising \cup High \cup Resting
  BY <1>1 DEF Levels, Low, Rising, High, Falling, Resting, States, Transferring, Paced, Follows,
              Finished, Scl, KeepsPins
<1>3. dsda' = dsda
  <2>1. p_state \notin Falling
    BY <1>2 DEF Rising, High, Falling, Resting, Finished
  <2> QED BY <2>1, DeviceCases DEF Device!OnRise
<1>4. sda_out' = sda_out
  <2>1. CASE p_state \in Rising \cup High
    BY <1>1, <2>1 DEF Drives, Rising, High, Sda, KeepsPins, Finished
  <2>2. CASE p_state \in Resting
    BY <1>1, <2>2 DEF Drives, Resting, Sda, KeepsPins, Finished
  <2> QED BY <1>2, <2>1, <2>2
<1> QED BY <1>3, <1>4 DEF SDA

LEMMA StillStep ==
  ASSUME DriverInv, BusInv, NEW access, BusClock(access), NotEmpty
  PROVE  Still'
<1> SUFFICES ASSUME scl_out = 1, scl_out' = 1, p_state' \notin {"Start_C", "Stop_C"}
             PROVE  SDA(dsda)' = SDA(dsda)
  BY BusParts DEF Still, SCL
<1> USE DEF BusInv, SCL
<1>1. /\ sda_out' = Sda(cr, data_in, sda_in) /\ CoreTypeOK
      /\ CoreClock(sclk, cr, data_in, cmd_done_ack, scl_in, sda_in)
  BY BusParts
<1>2. CASE p_state \notin {"Start_C", "Stop_C"}
  BY <1>2, Stable
<1>3. CASE p_state = "Start_C"
  <2>1. sclk
    BY <1>1, <1>3, CoreGoes DEF Paced, Follows
  <2>2. sda_out = 0 /\ sda_out' = 0
    BY <1>1, <1>3, <2>1 DEF Drives, Sda, KeepsPins, Finished
  <2> QED BY <2>2 DEF SDA
<1>4. CASE p_state = "Stop_C"
  <2>1. sclk
    BY <1>1, <1>4, CoreGoes DEF Paced, Follows
  <2>2. sda_out = 1 /\ sda_out' = 1
    BY <1>1, <1>4, <2>1 DEF Drives, Sda, KeepsPins, Finished
  <2>3. dsda = 1
    BY <1>4, StopPhase
  <2>4. dsda' = 1
    BY <1>4, <2>3, DeviceCases DEF Rising, Falling, Device!OnStop
  <2> QED BY <2>2, <2>3, <2>4 DEF SDA
<1> QED BY <1>2, <1>3, <1>4

----------------------------------------------------------------------------
(* The program. *)

\* What the program does on a clock.
ProgramClock(access) ==
  \/ Driving /\ access = Access
  \/ Succeed /\ access = NoAccess
  \/ Compute /\ access = NoAccess
  \/ access = NoAccess /\ \E c \in Calls : Begin(c)

\* The other calls transfer nothing.
LEMMA PutsOnly ==
  ASSUME NEW c \in Calls, c \notin Transfers
  PROVE  /\ Len(Steps(c)) \in Nat
         /\ \A k \in 1..Len(Steps(c)) :
              /\ Steps(c)[k].kind = "put"
              /\ Slowed /\ Steps(c)[k].address = 3 => Steps(c)[k].data > 0
<1>1. IsCall(c)
  BY CallsAssumption
<1>2. CASE c.op = "configure"
  <2>1. /\ Len(Steps(c)) = 2
        /\ Steps(c)[1] = Put(1, StopOnly)
        /\ Steps(c)[2] = Put(1, [NoControl EXCEPT !.int_en = c.irq])
    BY <1>1, <1>2, PutStepAt
  <2>2. /\ Steps(c)[1].kind = "put" /\ Steps(c)[1].address = 1
        /\ Steps(c)[2].kind = "put" /\ Steps(c)[2].address = 1
    BY <2>1 DEF Put
  <2>3. \A k \in 1..Len(Steps(c)) : k = 1 \/ k = 2
    BY <2>1
  <2> QED BY <2>1, <2>2, <2>3
<1>3. CASE c.op = "init"
  <2>1. Len(Steps(c)) = 1 /\ Steps(c)[1] = Put(3, Divisor(c.frequency))
    BY <1>1, <1>3, PutStepAt
  <2>2. Steps(c)[1].kind = "put" /\ Steps(c)[1].data = Divisor(c.frequency)
    BY <2>1 DEF Put
  <2>3. Slowed => Divisor(c.frequency) > 0
    BY <1>3 DEF Slowed
  <2>4. \A k \in 1..Len(Steps(c)) : k = 1
    BY <2>1
  <2> QED BY <2>1, <2>2, <2>3, <2>4
<1> QED BY <1>1, <1>2, <1>3 DEF Transfers, IsCall

\* A step of the driver is a clock of the bus and one of the program.
LEMMA BusOfStep ==
  ASSUME DriverInv, Slowed, NotEmpty, DriverNext
  PROVE  \E access : BusClock(access) /\ ProgramClock(access)
<1>1. CASE Driving /\ Wires(Access)
  <2>1. stage \notin {"ready", "return"} /\ call # NoCall /\ call \in Calls
        /\ stage \in {"put", "wait", "data", "control", "await", "status", "giveup", "fetch"}
    BY <1>1 DEF Driving, PutRegister, I2C_WR_DATA, I2C_WR_CONTROL, GiveUp, ReadFirst, WaitBefore,
         WaitAfter, CheckAcknowledge, I2C_RD_DATA, ReadSecond, DriverInv, DriverTypeOK, Calling
  <2>2. Fits(Access) /\ (IsCommand(Access) => stage = "control")
    BY <2>1, AccessFits
  <2>3. Access.op = "write" /\ Access.address = 3 => Access.data > 0
    <3>1. CASE stage = "put"
      <4>1. Access = Write(Now.address, Now.data) /\ Now.kind = "put"
        BY <2>1, <3>1, AccessAt DEF DriverInv, Calling
      <4>2. step \in 1..Len(Steps(call))
        BY <2>1 DEF DriverInv, Calling
      <4>3. CASE call \in Transfers
        <5>1. TransferAt(call, step)
          BY <4>2, <4>3, TransfersAre
        <5> QED BY <4>1, <5>1 DEF TransferAt, Now
      <4>4. CASE call \notin Transfers
        BY <2>1, <4>1, <4>2, <4>4, PutsOnly DEF Now, Write
      <4> QED BY <4>3, <4>4
    <3>2. CASE stage # "put"
      BY <2>1, <3>2, AccessAt DEF Write, Read
    <3> QED BY <3>1, <3>2
  <2> QED BY <1>1, <2>2, <2>3 DEF BusClock, ProgramClock
<1>2. CASE Wires(NoAccess) /\ (Succeed \/ Compute \/ \E c \in Calls : Begin(c))
  <2>1. BusClock(NoAccess)
    BY <1>2, NoAccessFits DEF BusClock, NoAccess
  <2> QED BY <1>2, <2>1 DEF ProgramClock
<1> QED BY <1>1, <1>2 DEF DriverNext, DriverClock, OtherClock

\* Nothing of the call changes but the stage.
Goes(to) == stage' = to /\ UNCHANGED <<call, step, result>>

ProgramMoves(access) ==
  \/ Goes(stage) /\ access.op # "write"
  \/ stage = "wait" /\ Goes("data") /\ Now.kind = "send"
  \/ stage = "wait" /\ Goes("control") /\ Now.kind = "receive"
  \/ stage = "data" /\ Goes("control") /\ access = Write(0, Now.data)
  \/ stage = "control" /\ Goes("await") /\ access = Write(1, Now.control)
  \/ /\ stage = "await"
     /\ Goes("status") \/ Goes("fetch")
     /\ p_state = "Idle" /\ ~TIP
  \/ stage = "status" /\ Goes("giveup") /\ Now.kind = "send" /\ ackbit = 1
  \/ /\ stage \in {"status", "fetch"} /\ (Now.kind = "send" => ackbit = 0)
     /\ step < Len(Steps(call)) /\ step' = step + 1 /\ stage' = "wait"
     /\ UNCHANGED <<call, result>>
  \/ /\ stage \in {"status", "fetch"} /\ (Now.kind = "send" => ackbit = 0)
     /\ step = Len(Steps(call)) /\ Goes("return")
  \/ /\ stage = "put" /\ call \notin Transfers /\ stage' \in {"put", "return"}
     /\ UNCHANGED <<call, result>>
  \/ /\ stage = "giveup" /\ stage' = "ready" /\ call' = NoCall /\ step' = 1
     /\ result' # "I2C_SUCCESS"
  \/ /\ stage = "return" /\ stage' = "ready" /\ call' = NoCall /\ step' = 1
     /\ result' = "I2C_SUCCESS" => call \in Transfers \/ result = "I2C_SUCCESS"
  \/ /\ stage = "ready" /\ stage' \in {"put", "wait"} /\ step' = 1
     /\ UNCHANGED result

LEMMA NextTransfer ==
  ASSUME NotEmpty, call \in Transfers, step \in 1..Len(Steps(call)), step < Len(Steps(call))
  PROVE  Steps(call)[step + 1].kind # "put"
<1>1. Len(Steps(call)) \in Nat
  BY TransfersAre
<1>2. step + 1 \in 1..Len(Steps(call))
  BY <1>1
<1> QED BY <1>2, TransfersAre DEF TransferAt

LEMMA ProgramStep ==
  ASSUME DriverInv, BusInv, NotEmpty, NEW access, ProgramClock(access)
  PROVE  ProgramMoves(access)
<1> USE DEF ProgramMoves, Goes
<1>1. stage \notin {"ready", "return"} => call # NoCall /\ call \in Calls
  BY DEF DriverInv, DriverTypeOK, Calling
<1>2. call # NoCall => step \in 1..Len(Steps(call)) /\ Len(Steps(call)) \in Nat
  BY NowSound DEF DriverInv, Calling
<1>3. stage \notin {"ready", "put", "return"} =>
        call \in Transfers /\ TransferAt(call, step) /\ Now = Steps(call)[step]
  BY NowTransfer DEF Now
<1>4. ASSUME Driving, access = Access
      PROVE  ProgramMoves(access)
  <2>1. CASE PutRegister
    <3>1. stage = "put" /\ NextStep /\ call \in Calls /\ Now.kind = "put"
      BY <1>1, <2>1 DEF PutRegister, DriverInv, Calling
    <3>2. call \notin Transfers
      BY <1>1, <1>2, <3>1, TransfersAre DEF TransferAt, Now
    <3>3. \A k \in 1..Len(Steps(call)) : Steps(call)[k].kind = "put"
      BY <3>1, <3>2, PutsOnly
    <3>4. step < Len(Steps(call)) => step + 1 \in 1..Len(Steps(call))
      BY <1>1, <1>2, <3>1
    <3> QED BY <3>1, <3>2, <3>3, <3>4 DEF NextStep, FirstStage
  <2>2. CASE I2C_WR_DATA
    BY <1>4, <2>2, AccessAt DEF I2C_WR_DATA
  <2>3. CASE I2C_WR_CONTROL
    BY <1>4, <2>3, AccessAt DEF I2C_WR_CONTROL
  <2>4. CASE GiveUp
    <3>1. stage = "giveup" /\ Now.kind = "send"
      BY <2>4 DEF GiveUp, DriverInv, Calling
    <3>2. Now.error # "I2C_SUCCESS"
      BY <1>3, <3>1 DEF TransferAt
    <3> QED BY <2>4, <3>1, <3>2 DEF GiveUp, Return
  <2>5. CASE ReadFirst
    <3>1. stage \in {"wait", "await", "status", "fetch"} /\ Goes(stage)
      BY <2>5 DEF ReadFirst
    <3>2. access.op = "read"
      BY <1>4, <3>1, AccessAt DEF Read
    <3> QED BY <3>1, <3>2
  <2>6. CASE WaitBefore
    <3>1. stage = "wait" /\ access.op = "read"
      BY <1>4, <2>6, AccessAt DEF WaitBefore, ReadSecond, Read
    <3>2. Now.kind \in {"send", "receive"}
      BY <1>3, <3>1 DEF TransferAt
    <3> QED BY <2>6, <3>1, <3>2 DEF WaitBefore
  <2>7. CASE WaitAfter
    <3>1. stage = "await" /\ access.op = "read" /\ held
      BY <1>4, <2>7, AccessAt DEF WaitAfter, ReadSecond, Read
    <3>2. ~readdata[2].tip => ~TIP /\ p_state = "Idle"
      BY <3>1 DEF DriverInv, Polling
    <3> QED BY <2>7, <3>1, <3>2 DEF WaitAfter
  <2>8. CASE CheckAcknowledge
    <3>1. stage = "status" /\ held /\ Now.kind = "send"
      BY <2>8 DEF CheckAcknowledge, ReadSecond, DriverInv, Calling
    <3>2. readdata[2].lar = ackbit /\ ackbit \in Bit
      BY <3>1 DEF BusInv, Commanded, DriverInv, DriverTypeOK, InterfaceTypeOK, CoreTypeOK
    <3>3. CASE ackbit = 1
      BY <2>8, <3>1, <3>2, <3>3 DEF CheckAcknowledge
    <3>4. CASE ackbit = 0
      <4>1. NextStep
        BY <2>8, <3>2, <3>4 DEF CheckAcknowledge
      <4> QED BY <1>1, <1>2, <1>3, <3>1, <3>4, <4>1, NextTransfer DEF NextStep, FirstStage
    <3> QED BY <3>2, <3>3, <3>4 DEF Bit
  <2>9. CASE I2C_RD_DATA
    <3>1. stage = "fetch" /\ Now.kind = "receive" /\ NextStep
      BY <2>9 DEF I2C_RD_DATA, ReadSecond, DriverInv, Calling
    <3> QED BY <1>1, <1>2, <1>3, <3>1, NextTransfer DEF NextStep, FirstStage
  <2> QED BY <1>4, <2>1, <2>2, <2>3, <2>4, <2>5, <2>6, <2>7, <2>8, <2>9 DEF Driving
<1>5. ASSUME Succeed PROVE ProgramMoves(access)
  BY <1>5 DEF Succeed, Return
<1>6. ASSUME Compute, access = NoAccess PROVE ProgramMoves(access)
  BY <1>6 DEF Compute, programVars, NoAccess
<1>7. ASSUME NEW c \in Calls, Begin(c) PROVE ProgramMoves(access)
  BY <1>7 DEF Begin, FirstStage
<1> QED BY <1>4, <1>5, <1>6, <1>7 DEF ProgramClock

----------------------------------------------------------------------------
(* The command the core has. *)

LEMMA IdleCommand ==
  ASSUME DriverInv, BusInv, NEW access, BusClock(access), stage = "await", TIP,
         p_state # "DoneAck"
  PROVE  cr' = cr /\ data_in' = data_in /\ TIP'
<1>1. ~cmd_done /\ cr \in Control
  BY DEF DriverInv, Agreed, DriverTypeOK, InterfaceTypeOK
<1>2. AcceptAccess(access) \/ AwaitDone(access) \/ EndCommand
  BY InterfaceParts DEF BusClock, Wires
<1> QED BY <1>1, <1>2, RegisterMoves DEF TIP

\* A core at rest in the call's other stages keeps what it has.
LEMMA RestStep ==
  ASSUME DriverInv, BusInv, NEW access, BusClock(access),
         stage # "await" \/ (p_state = "Idle" /\ ~TIP)
  PROVE  /\ p_state \in {"Reset", "Idle"} /\ ~TIP /\ p_state' = "Idle"
         /\ AcceptAccess(access)
         /\ SCL' = SCL /\ dphase' = dphase /\ ackbit' = ackbit /\ ack_out' = ackbit
<1>1. p_state \in {"Reset", "Idle"} /\ ~TIP
  BY DEF DriverInv, Polling
<1>2. /\ CoreTypeOK /\ CoreClock(sclk, cr, data_in, cmd_done_ack, scl_in, sda_in)
      /\ scl_out' = Scl(scl_in) /\ ack_out' = ackbit
  BY BusParts
<1>3. p_state' = "Idle" /\ ackbit' = ackbit
  BY <1>1, <1>2, CoreGoes
<1>4. scl_out' = scl_out
  BY <1>1, <1>2 DEF Scl, KeepsPins, BusInv, Levels, Resting, SCL, Finished
<1>5. dphase' = dphase
  BY <1>1, DeviceCases DEF Rising, Falling
<1>6. AcceptAccess(access)
  BY <1>1, InterfaceParts DEF BusClock, Wires, AwaitDone, EndCommand
<1> QED BY <1>1, <1>2, <1>3, <1>4, <1>5, <1>6 DEF SCL

LEMMA StatusRead ==
  ASSUME DriverInv, BusInv, NotEmpty, NEW access, BusClock(access), ProgramClock(access),
         held', stage' = "status"
  PROVE  readdata'[2].lar = ackbit'
<1>1. stage \in {"status", "await"} /\ held' # FALSE
  BY ProgramStep DEF ProgramMoves, Goes
<1>2. ReadFirst /\ access = Access
  <2>1. ~Succeed /\ \A c \in Calls : ~Begin(c)
    BY <1>1 DEF Succeed, Begin
  <2>2. ~Compute
    BY <1>1 DEF Compute, programVars, DriverInv, DriverTypeOK
  <2>3. Driving /\ access = Access
    BY <2>1, <2>2 DEF ProgramClock
  <2> QED BY <1>1, <2>3 DEF Driving, PutRegister, I2C_WR_DATA, I2C_WR_CONTROL, GiveUp, WaitBefore,
                 WaitAfter, CheckAcknowledge, I2C_RD_DATA, ReadSecond
<1>3. stage = "status"
  BY <1>2 DEF ReadFirst
<1>4. ReadPort(access) /\ access = Read(2)
  BY <1>2, <1>3, AccessAt, InterfaceParts DEF BusClock, Wires
<1>5. readdata'[2] = Status
  BY <1>4 DEF ReadPort, Read, Registers
<1>6. ackbit' = ackbit /\ ack_out = ackbit
  BY <1>3, RestStep DEF BusInv, Commanded
<1> QED BY <1>5, <1>6 DEF Status

LEMMA CommandedStep ==
  ASSUME DriverInv, BusInv, NotEmpty, NEW access, BusClock(access), ProgramClock(access)
  PROVE  Commanded'
<1>1. CoreTypeOK /\ CoreClock(sclk, cr, data_in, cmd_done_ack, scl_in, sda_in) /\ ack_out' = ackbit
  BY BusParts
<1>2. p_state' # "Reset"
  BY <1>1, CoreGoes DEF CoreTypeOK, States, Transferring, Paced, Follows, Finished, FirstQuarter
<1>3. p_state' # "RdAck_D" => ack_out' = ackbit'
  BY <1>1, CoreGoes
<1>4. stage' = "await" /\ TIP' => cr' = Now'.control
  <2> SUFFICES ASSUME stage' = "await", TIP' PROVE cr' = Now'.control
    OBVIOUS
  <2>1. \/ stage = "await" /\ Goes("await")
        \/ stage = "control" /\ Goes("await") /\ access = Write(1, Now.control)
    BY ProgramStep DEF ProgramMoves, Goes
  <2>2. Now' = Now
    BY <2>1 DEF Goes, Now
  <2>3. CASE stage = "await"
    <3>1. TIP /\ p_state # "DoneAck"
      <4>1. AcceptAccess(access) \/ AwaitDone(access) \/ EndCommand
        BY InterfaceParts DEF BusClock, Wires
      <4>2. TIP /\ ~cmd_done
        BY <2>3, <4>1, RegisterMoves DEF BusClock, DriverInv, DriverTypeOK, InterfaceTypeOK
      <4> QED BY <4>2 DEF DriverInv, Agreed
    <3> QED BY <2>2, <2>3, <3>1, IdleCommand DEF BusInv, Commanded
  <2>4. CASE stage = "control"
    <3>1. AcceptAccess(access) /\ access = Write(1, Now.control)
      BY <2>1, <2>4, RestStep
    <3> QED BY <2>2, <3>1 DEF AcceptAccess, Write
  <2> QED BY <2>1, <2>3, <2>4
<1>5. stage' \in {"control", "await"} /\ Now'.kind = "send" => data_in' = Now'.data
  <2> SUFFICES ASSUME stage' \in {"control", "await"}, Now'.kind = "send"
               PROVE  data_in' = Now'.data
    OBVIOUS
  <2>1. \/ stage = "control" /\ Goes(stage') /\ (access.op # "write" \/ access.address = 1)
        \/ stage = "await" /\ Goes("await") /\ access.op # "write"
        \/ stage = "data" /\ Goes("control") /\ access = Write(0, Now.data)
        \/ stage = "wait" /\ Goes("control") /\ Now.kind = "receive"
    BY ProgramStep DEF ProgramMoves, Goes, Write
  <2>2. Now' = Now
    BY <2>1 DEF Goes, Now
  <2>3. CASE stage = "data"
    <3>1. AcceptAccess(access) /\ access = Write(0, Now.data)
      BY <2>1, <2>3, RestStep
    <3> QED BY <2>2, <3>1 DEF AcceptAccess, Write
  <2>4. CASE stage \in {"control", "await"}
    <3>1. AcceptAccess(access) \/ AwaitDone(access) \/ EndCommand
      BY InterfaceParts DEF BusClock, Wires
    <3>3. ~(access.op = "write" /\ access.address = 0)
      BY <2>1, <2>4
    <3>2. data_in' = data_in
      BY <3>1, <3>3 DEF AcceptAccess, AwaitDone, EndCommand
    <3> QED BY <2>2, <2>4, <3>2 DEF BusInv, Commanded
  <2> QED BY <2>1, <2>2, <2>3, <2>4
<1>6. held' /\ stage' = "status" => readdata'[2].lar = ackbit'
  BY StatusRead
<1>7. /\ p_state' \in {"Wr_A", "Wr_B", "Wr_C", "Wr_D", "Wr_E",
                       "RdAck_A", "RdAck_B", "RdAck_C", "RdAck_D", "RdAck_E"} => cr'.write
      /\ p_state' \in {"Rd_A", "Rd_B", "Rd_C", "Rd_D", "Rd_E", "Rd_F",
                       "WrAck_A", "WrAck_B", "WrAck_C", "WrAck_D"} => cr'.read
      /\ p_state' \in {"Start_A", "Start_B", "Start_C", "Start_D"} => cr'.start
      /\ p_state' \in {"Stop_A", "Stop_B", "Stop_C"} => cr'.stop
  <2>1. CASE p_state \in {"Idle", "Reset"} /\ ~TIP
    BY <1>1, <2>1, CoreGoes
  <2>2. CASE p_state = "Idle" /\ TIP
    <3>1. stage = "await"
      BY <2>2 DEF DriverInv, Polling
    <3>2. cr' = cr
      BY <2>2, <3>1, IdleCommand
    <3> QED BY <1>1, <2>2, <3>2, CoreGoes DEF FirstQuarter, TIP
  <2>3. CASE p_state \in Finished
    BY <1>1, <2>3, CoreGoes DEF Finished
  <2>4. CASE p_state \in Transferring
    <3>1. cr' = cr /\ TIP
      BY <2>4, BusCommand DEF Transferring, Paced, Follows, Finished
    <3> QED BY <1>1, <2>4, <3>1, CoreGoes
        DEF BusInv, Commanded, Transferring, Paced, Follows, FirstQuarter, TIP
  <2>5. p_state = "Reset" => ~TIP
    BY DEF DriverInv, Agreed
  <2> QED BY <1>1, <2>1, <2>2, <2>3, <2>4, <2>5 DEF CoreTypeOK, States
<1> QED BY <1>2, <1>3, <1>4, <1>5, <1>6, <1>7 DEF Commanded

----------------------------------------------------------------------------
(* The device keeps step with the core. *)

\* The transfer the core is at.
LEMMA AtWork ==
  ASSUME DriverInv, BusInv, NotEmpty, p_state \in Transferring
  PROVE  /\ stage = "await" /\ TIP /\ cr = Now.control
         /\ call \in Transfers /\ call.op \in {"read", "write"}
         /\ Len(Steps(call)) \in Nat /\ step \in 1..Len(Steps(call))
         /\ TransferAt(call, step) /\ Now = Steps(call)[step]
         /\ cr.write => Now.kind = "send" /\ ~(call.op = "read" /\ step > 3)
                        /\ data_in = Now.data
         /\ cr.read => Now.kind = "receive" /\ call.op = "read" /\ step > 3
<1>1. stage = "await" /\ TIP /\ cr = Now.control
  BY Awaiting
<1>2. /\ call \in Transfers /\ call.op \in {"read", "write"} /\ step \in 1..Len(Steps(call))
      /\ Len(Steps(call)) \in Nat /\ TransferAt(call, step) /\ Now = Steps(call)[step]
  BY <1>1, NowTransfer DEF Transfers, Now
<1>3. Now.kind = "send" => data_in = Now.data
  BY <1>1 DEF BusInv, Commanded
<1> QED BY <1>1, <1>2, <1>3 DEF TransferAt

LEMMA WritePhase ==
  ASSUME DriverInv, BusInv, NotEmpty,
         p_state \in {"Wr_A", "Wr_B", "Wr_C", "Wr_D", "Wr_E"}, ~Taken
  PROVE  /\ Device!Receiving /\ dphase = During(step) /\ cr.write
         /\ step = 1 => dphase = "address"
         /\ step = 2 => dphase = "index"
         /\ step > 2 => dphase = IF call.op = "read" THEN "address" ELSE "data"
<1>1. cr.write
  BY DEF BusInv, Commanded
<1>2. /\ cr = Now.control /\ call.op \in {"read", "write"} /\ Now = Steps(call)[step]
      /\ step \in Nat \ {0} /\ TransferAt(call, step) /\ ~(call.op = "read" /\ step > 3)
  BY <1>1, AtWork DEF Transferring, Paced, Follows
<1>3. dphase = During(step)
  BY DEF BusInv, Phases, Amid
<1>4. Now.control.start <=> step = 1 \/ (call.op = "read" /\ step = 3)
  BY <1>2 DEF TransferAt
<1> QED BY <1>1, <1>2, <1>3, <1>4 DEF During, Settled, Device!Receiving

LEMMA ReadPhase ==
  ASSUME DriverInv, BusInv, NotEmpty,
         \/ p_state \in {"Rd_A", "Rd_B", "Rd_C", "Rd_D", "Rd_E", "Rd_F", "WrAck_A"}
         \/ p_state = "WrAck_B" /\ dscl = 0
  PROVE  dphase = "send" /\ Settled(step) = "send" /\ cr.read
<1>1. cr.read
  BY DEF BusInv, Commanded
<1>2. /\ cr = Now.control /\ call.op = "read" /\ Now = Steps(call)[step]
      /\ step \in Nat \ {0} /\ TransferAt(call, step) /\ step > 3
  BY <1>1, AtWork DEF Transferring, Paced, Follows
<1>3. dphase = During(step)
  BY DEF BusInv, Phases, Amid, Taken
<1>4. ~Now.control.start
  BY <1>2 DEF TransferAt
<1> QED BY <1>1, <1>2, <1>3, <1>4 DEF During, Settled

\* A clock on which the device does nothing.
LEMMA InStepQuiet ==
  ASSUME DriverInv, BusInv, NotEmpty, NEW access, BusClock(access),
         dscl = SCL, SCL = 0 \/ dpin = SDA(dsda),
         UNCHANGED <<dphase, dbits, dbyte, dptr, regs, dsda>>,
         p_state = "Idle" /\ TIP /\ ~cr.start => SCL = 0
  PROVE  InStep'
<1> USE DEF BusInv, SCL
<1>1. /\ dscl' = dscl /\ dpin' = SDA(dsda) /\ p_state \in States /\ dscl \in {0, 1}
      /\ ctr \in 0..(Bits - 1) /\ Bits \in Nat
  BY BusParts, BitsAssumption DEF CoreTypeOK, Bit
<1>2. CoreTypeOK /\ CoreClock(sclk, cr, data_in, cmd_done_ack, scl_in, sda_in)
  BY BusParts
<1>3. ctr' = IF p_state = "Idle" THEN 0
             ELSE IF p_state \in {"Rd_F", "Wr_E"} THEN (ctr + 1) % Bits ELSE ctr
  BY <1>2, CoreGoes
<1>4. p_state \in {"Rd_F", "Wr_E"} => ctr' = ctr + 1
  BY <1>1, <1>3 DEF InStep
<1>5. p_state' \in {"Start_A", "Start_B", "Start_C", "Start_D"} => ctr' = 0
  BY <1>1, <1>2, <1>3, CoreGoes
  DEF InStep, States, Transferring, Paced, Finished, Follows, FirstQuarter
<1>6. p_state' \in {"Wr_E", "Rd_F"} => ctr' + 1 < Bits
  BY <1>1, <1>2, <1>3, CoreGoes
  DEF InStep, States, Transferring, Paced, Finished, Follows, FirstQuarter
<1>7. dphase # "free" => BitsThrough' = BitsThrough
  <2> SUFFICES ASSUME dphase # "free" PROVE BitsThrough' = BitsThrough
    OBVIOUS
  <2>1. CASE p_state \in {"Start_B", "Start_C"}
    <3>1. dbits = BitsThrough /\ (dpin = 1 => dsda = 1)
      BY <2>1, StartPhase DEF InStep, Acknowledging, Taken, Device!Receiving
    <3>2. p_state = "Start_B" => dsda = 1 /\ sda_out = 1
      BY <2>1, StartPhase DEF Drives
    <3>3. p_state' \in {p_state, Follows[p_state]}
      BY <1>2, <2>1, CoreGoes DEF Paced, Follows
    <3>4. p_state = "Start_B" => p_state' = "Start_B" \/ (p_state' = "Start_C" /\ dscl = 1)
      BY <1>1, <1>2, <2>1, CoreGoes DEF Paced, Follows, Levels, Rising
    <3>5. p_state = "Start_C" => p_state' = "Start_C" \/ (p_state' = "Start_D" /\ sda_out = 0)
      BY <1>1, <1>2, <2>1, CoreGoes DEF Paced, Follows, Drives
    <3>6. p_state = "Start_C" => dpin = SDA(dsda)
      BY DEF Levels, High
    <3> QED BY <1>1, <2>1, <3>2, <3>4, <3>5, <3>6 DEF SDA, BitsThrough, Taken
  <2>2. CASE p_state \in {"Wr_A", "Wr_B", "Wr_C", "Rd_A", "Rd_B", "Rd_C", "Rd_D", "Wr_E", "Rd_F"}
    <3>1. p_state \in {"Wr_C", "Rd_D"} => dscl = 1
      BY DEF Levels, High
    <3>2. p_state \in {"Wr_E", "Rd_F"} => dscl = 0
      BY DEF Levels, Low
    <3> QED BY <1>1, <1>2, <1>3, <1>4, <2>2, <3>1, <3>2, CoreGoes
        DEF BitsThrough, Taken, Paced, Follows
  <2>3. CASE p_state \in {"Wr_D", "Rd_E"}
    <3>1. sclk => dscl = 0
      BY <2>3 DEF Levels, Falling
    <3> QED BY <1>1, <1>2, <1>3, <2>3, <3>1, CoreGoes DEF BitsThrough, Taken, Paced, Follows
  <2>4. CASE p_state \in {"WrAck_A", "WrAck_B", "WrAck_C", "WrAck_D",
                          "RdAck_A", "RdAck_B", "RdAck_C", "RdAck_D", "RdAck_E"}
    <3>1. /\ p_state \in {"WrAck_C", "RdAck_D"} => dscl = 1
          /\ p_state \in {"WrAck_D", "RdAck_E"} /\ sclk => dscl = 0
      BY <2>4 DEF Levels, High, Falling
    <3> QED BY <1>1, <1>2, <1>3, <2>4, <3>1, CoreGoes DEF BitsThrough, Taken, Paced, Follows
  <2>5. CASE p_state \in {"Stop_A", "Stop_B", "Stop_C", "Start_A", "Start_D", "Reset", "Idle"} \cup Finished
    <3>1. p_state = "Start_D" /\ sclk => dscl = 0 /\ ctr = 0
      BY <1>1 DEF Levels, Falling, InStep
    <3> QED BY <1>1, <1>2, <1>3, <2>5, <3>1, CoreGoes
         DEF BitsThrough, Taken, Paced, Follows, Finished, FirstQuarter
  <2> QED BY <1>1, <2>1, <2>2, <2>3, <2>4, <2>5 DEF States, Transferring, Paced, Follows, Finished
<1>8. Acknowledging' <=> Acknowledging
  <2>1. /\ p_state \in {"RdAck_D", "Wr_C"} => dscl = 1
        /\ p_state \in {"Wr_D", "RdAck_E"} /\ sclk => dscl = 0
    BY <1>1 DEF Levels, High, Falling
  <2> QED BY <1>1, <1>2, <1>3, <2>1, CoreGoes
       DEF Acknowledging, Taken, States, Transferring, Paced, Follows, Finished, FirstQuarter
<1>9. Device!Receiving /\ p_state' \in {"Wr_A", "Wr_B", "Wr_C", "Wr_D", "Wr_E"} /\ ~Taken' =>
        \A i \in 1..dbits : dbyte[i] = data_in'[i]
  <2> SUFFICES ASSUME Device!Receiving, ~Taken',
                      p_state' \in {"Wr_A", "Wr_B", "Wr_C", "Wr_D", "Wr_E"}
               PROVE  \A i \in 1..dbits : dbyte[i] = data_in'[i]
    OBVIOUS
  <2>1. \/ p_state \in {"Wr_A", "Wr_B", "Wr_C", "Wr_D", "Wr_E"}
        \/ p_state = "Start_D" /\ sclk
        \/ p_state = "Idle" /\ TIP /\ ~cr.start
    BY <1>1, <1>2, CoreGoes DEF States, Transferring, Paced, Follows, Finished, FirstQuarter
  <2>2. CASE p_state \in {"Wr_A", "Wr_B", "Wr_C", "Wr_D", "Wr_E"}
    <3>1. data_in' = data_in
      BY <2>2, BusCommand DEF Finished
    <3>2. ~Taken
      BY <1>1, <1>2, <1>3, <2>2, CoreGoes DEF Taken, Paced, Follows
    <3> QED BY <2>2, <3>1, <3>2 DEF InStep
  <2>3. CASE p_state \in {"Start_D", "Idle"}
    <3>1. dphase # "free" => dbits = 0
      BY <1>1, <2>1, <2>3 DEF InStep, BitsThrough
    <3>2. dbits = 0
      BY <3>1 DEF InStep
    <3> QED BY <3>2
  <2> QED BY <2>1, <2>2, <2>3
<1>10. BitSent' = BitSent /\ (Device!Receiving' <=> Device!Receiving)
  BY <1>1 DEF BitSent, Device!Receiving
<1>11. dphase' = dphase /\ dbits' = dbits /\ dsda' = dsda /\ dbyte' = dbyte
  OBVIOUS
<1> HIDE DEF SCL
<1> QED BY <1>5, <1>6, <1>7, <1>8, <1>9, <1>10, <1>11 DEF InStep

\* START and STOP.
LEMMA InStepStartStop ==
  ASSUME DriverInv, BusInv, NotEmpty, NEW access, BusClock(access),
         \/ p_state = "Start_C" /\ SDA(dsda) = 0 /\ Device!OnStart
         \/ p_state = "Stop_C" /\ Device!OnStop
  PROVE  InStep'
<1>1. CoreTypeOK /\ CoreClock(sclk, cr, data_in, cmd_done_ack, scl_in, sda_in)
  BY BusParts
<1>2. dpin' = SDA(dsda)
  BY BusParts
<1>3. CASE p_state = "Start_C" /\ SDA(dsda) = 0 /\ Device!OnStart
  <2>1. p_state' \in {"Start_C", "Start_D"} /\ ctr' = ctr /\ ctr = 0
    BY <1>1, <1>3, CoreGoes DEF Paced, Follows, BusInv, InStep
  <2>2. dphase' = "address" /\ dbits' = 0 /\ dsda' = 1 /\ BitsThrough' = 0
    BY <1>2, <1>3, <2>1 DEF Device!OnStart, BitsThrough
  <2> QED BY <2>1, <2>2 DEF InStep, Acknowledging, Taken
<1>4. CASE p_state = "Stop_C" /\ Device!OnStop
  <2>1. p_state' \in {"Stop_C", "Done"}
    BY <1>1, <1>4, CoreGoes DEF Paced, Follows
  <2> QED BY <1>4, <2>1 DEF Device!OnStop, InStep, Device!Receiving
<1> QED BY <1>3, <1>4

\* A rise of SCL.
LEMMA InStepRise ==
  ASSUME DriverInv, BusInv, NotEmpty, NEW access, BusClock(access),
         p_state \in Rising, dscl = 0, SCL = 1, Device!OnRise(SDA(dsda))
  PROVE  InStep'
<1> USE DEF BusInv
<1>1. /\ dscl' = 1 /\ dpin' = SDA(dsda) /\ ctr \in 0..(Bits - 1) /\ Bits \in Nat \ {0}
      /\ dbits \in 0..(Bits + 1) /\ dbyte \in Byte
  BY BusParts, BitsAssumption DEF CoreTypeOK
<1>2. CoreTypeOK /\ CoreClock(sclk, cr, data_in, cmd_done_ack, scl_in, sda_in)
  BY BusParts
<1>3. p_state' \in {p_state, Follows[p_state]} /\ ctr' = ctr
  BY <1>2, CoreGoes DEF Rising, Paced, Follows
<1>4. p_state' \in Rising \cup High
  BY <1>3 DEF Rising, High, Follows
<1>5. cr' = cr /\ data_in' = data_in
  BY BusCommand DEF Rising, Finished
<1>6. dsda' = dsda /\ regs' = regs
  BY DEF Device!OnRise
<1>7. CASE dphase = "free"
  BY <1>3, <1>4, <1>6, <1>7 DEF Device!OnRise, InStep, Device!Receiving, Rising, Follows
<1>8. CASE dphase # "free" /\ p_state \in {"Start_B", "Stop_B"}
  <2>1. dphase = "data" /\ dsda = 1 /\ dbits = 0
    BY <1>1, <1>8, StartPhase, StopPhase DEF InStep, BitsThrough
  <2>2. dphase' = "data" /\ dbits' = 1
    BY <1>1, <2>1 DEF Device!OnRise, Device!Receiving
  <2>3. p_state = "Start_B" => dpin' = 1 /\ ctr = 0
    BY <1>1, <2>1 DEF SDA, Drives, InStep
  <2>4. p_state' \in {"Start_B", "Start_C", "Stop_B", "Stop_C"}
        /\ (p_state' = "Start_C" => p_state = "Start_B")
        /\ (p_state' = "Start_B" => p_state = "Start_B")
    BY <1>3, <1>8 DEF Follows
  <2>5. BitsThrough' = 1
    BY <1>1, <2>3, <2>4 DEF BitsThrough
  <2> QED BY <1>3, <1>6, <2>1, <2>2, <2>3, <2>4, <2>5 DEF InStep, Acknowledging, Taken
<1>9. CASE p_state = "Wr_B" /\ dphase # "free"
  <2>1. Device!Receiving /\ dbits = ctr /\ dsda = 1
    BY <1>1, <1>9, WritePhase DEF InStep, BitsThrough, Acknowledging, Taken
  <2>2. SDA(dsda) = data_in[ctr + 1]
    <3>1. sda_out = data_in[ctr + 1] /\ sda_out \in {0, 1}
      BY <1>2, <1>9 DEF Drives, CoreTypeOK, Bit
    <3> QED BY <2>1, <3>1 DEF SDA
  <2>3. /\ dphase' = dphase /\ dbits' = ctr + 1
        /\ dbyte' = [dbyte EXCEPT ![ctr + 1] = data_in[ctr + 1]]
    <3>1. dbits = ctr /\ dbits < Bits /\ dbits # Bits + 1
      BY <1>1, <2>1
    <3>2. dphase' = dphase /\ dbits' = dbits + 1
      BY <1>1, <1>9, <2>1, <3>1 DEF Device!OnRise
    <3>3. dbyte' = [dbyte EXCEPT ![dbits + 1] = SDA(dsda)]
      BY <2>1, <3>1 DEF Device!OnRise
    <3> QED BY <2>2, <3>1, <3>2, <3>3
  <2>4. \A i \in 1..ctr : dbyte[i] = data_in[i]
    BY <1>9, <2>1 DEF InStep, Taken
  <2>5. \A i \in 1..dbits' : dbyte'[i] = data_in'[i]
    BY <1>1, <1>5, <2>3, <2>4 DEF Byte
  <2>6. p_state' \in {"Wr_B", "Wr_C"}
    BY <1>3, <1>9 DEF Follows
  <2>7. BitsThrough' = ctr + 1 /\ ~Taken' /\ ~Acknowledging'
    BY <1>1, <1>3, <2>6 DEF BitsThrough, Taken, Acknowledging
  <2> QED BY <1>6, <2>1, <2>3, <2>5, <2>6, <2>7 DEF InStep, Device!Receiving
<1>10. CASE p_state = "Rd_B"
  <2>1. dphase = "send" /\ dbits = ctr /\ dsda = BitSent
    BY <1>1, <1>10, ReadPhase DEF InStep, BitsThrough, Acknowledging, Taken
  <2>2. dphase' = dphase /\ dbits' = ctr + 1 /\ dptr' = dptr
    BY <1>1, <2>1 DEF Device!OnRise, Device!Receiving
  <2>3. BitSent' = BitSent
    BY <1>1, <1>6, <2>1, <2>2 DEF BitSent
  <2>4. p_state' \in {"Rd_B", "Rd_C"}
    BY <1>3, <1>10 DEF Follows
  <2>5. BitsThrough' = ctr + 1 /\ ~Taken' /\ ~Acknowledging'
    BY <1>1, <1>3, <2>4 DEF BitsThrough, Taken, Acknowledging
  <2> QED BY <1>6, <2>1, <2>2, <2>3, <2>4, <2>5 DEF InStep, Device!Receiving
<1>11. CASE p_state = "WrAck_B"
  <2>1. dphase = "send" /\ dbits = Bits /\ dsda = BitSent
    BY <1>1, <1>11, ReadPhase DEF InStep, BitsThrough, Acknowledging, Taken
  <2>2. dsda = 1
    BY <1>1, <2>1 DEF BitSent
  <2>3. p_state' \in {"WrAck_B", "WrAck_C"}
    BY <1>3, <1>11 DEF Follows
  <2>4. BitsThrough' = Bits + 1 /\ ~Taken' /\ ~Acknowledging'
    BY <1>1, <2>3 DEF BitsThrough, Taken, Acknowledging
  <2>5. CASE SDA(dsda) = 1
    BY <1>1, <1>6, <2>1, <2>2, <2>3, <2>5 DEF Device!OnRise, InStep, Device!Receiving
  <2>6. CASE SDA(dsda) # 1
    <3>1. dphase' = "send" /\ dbits' = Bits + 1
      BY <1>1, <2>1, <2>6 DEF Device!OnRise, Device!Receiving
    <3>2. BitSent' = 1
      BY <1>1, <3>1 DEF BitSent
    <3> QED BY <1>6, <2>2, <2>3, <2>4, <3>1, <3>2 DEF InStep, Device!Receiving
  <2> QED BY <2>5, <2>6
<1>12. CASE p_state = "RdAck_B" /\ dphase # "free"
  <2>1. dbits = Bits + 1 /\ dsda = 0
    BY <1>1, <1>12 DEF InStep, BitsThrough, Acknowledging
  <2>2. dphase' = dphase /\ dbits' = dbits
    BY <1>1, <2>1 DEF Device!OnRise, Device!Receiving
  <2>3. p_state' \in {"RdAck_B", "RdAck_C"}
    BY <1>3, <1>12 DEF Follows
  <2>4. BitsThrough' = Bits + 1 /\ Acknowledging'
    BY <2>3 DEF BitsThrough, Acknowledging
  <2> QED BY <1>6, <1>12, <2>1, <2>2, <2>3, <2>4 DEF InStep
<1> QED BY <1>7, <1>8, <1>9, <1>10, <1>11, <1>12 DEF Rising

\* A fall of SCL.
LEMMA InStepFall ==
  ASSUME DriverInv, BusInv, NotEmpty, NEW access, BusClock(access),
         p_state \in Falling, dscl = 1, SCL = 0,
         Device!Take \/ Device!Refuse \/ Device!PutBit
  PROVE  InStep'
<1> USE DEF BusInv
<1>1. /\ dscl' = 0 /\ ctr \in 0..(Bits - 1) /\ Bits \in Nat \ {0}
      /\ dbits \in 0..(Bits + 1) /\ p_state \in States
  BY BusParts, BitsAssumption DEF CoreTypeOK
<1>2. CoreTypeOK /\ CoreClock(sclk, cr, data_in, cmd_done_ack, scl_in, sda_in)
  BY BusParts
<1>3. ctr' = ctr
  BY <1>2, CoreGoes DEF Falling
<1>4. /\ p_state = "Start_D" => p_state' \in {"Start_D", "Wr_A", "Rd_A"}
      /\ p_state = "Wr_D" => p_state' \in {"Wr_D", "Wr_E", "RdAck_A"}
                             /\ (p_state' = "Wr_E" => ctr # Bits - 1)
                             /\ (p_state' = "RdAck_A" => ctr = Bits - 1)
      /\ p_state = "Rd_E" => p_state' \in {"Rd_E", "Rd_F", "WrAck_A"}
                             /\ (p_state' = "Rd_F" => ctr # Bits - 1)
                             /\ (p_state' = "WrAck_A" => ctr = Bits - 1)
      /\ p_state \in {"WrAck_D", "RdAck_E"} => p_state' \in {p_state, "Stop_A", "Done"}
  BY <1>2, CoreGoes DEF Paced, Follows, FirstQuarter
<1>5. data_in' = data_in
  BY BusCommand DEF Falling, Finished
<1>6. ctr = 0 \/ p_state # "Start_D"
  BY DEF InStep
<1>7. /\ p_state' \in {"Start_A", "Start_B", "Start_C", "Start_D"} => ctr' = 0
      /\ p_state' \in {"Wr_E", "Rd_F"} => ctr' + 1 < Bits
  BY <1>1, <1>3, <1>4, <1>6 DEF Falling
<1>8. CASE dphase = "free"
  <2>1. Device!PutBit /\ dbits = 0
    BY <1>1, <1>8 DEF Device!Take, Device!Refuse, Device!Receiving, InStep
  <2>2. dphase' = "free" /\ dbits' = 0 /\ dsda' = 1
    BY <1>1, <1>8, <2>1 DEF Device!PutBit
  <2> QED BY <1>7, <2>2 DEF InStep, Device!Receiving
<1>9. CASE dphase # "free" /\ p_state \in {"Start_D", "WrAck_D", "RdAck_E"}
  <2>1. dbits # Bits /\ dbits \in {0, Bits + 1}
    BY <1>1, <1>9 DEF InStep, BitsThrough
  <2>2. Device!PutBit
    BY <2>1 DEF Device!Take, Device!Refuse
  <2>3. dphase' = dphase /\ dbits' = 0 /\ dptr' = dptr /\ regs' = regs
        /\ dsda' = IF dphase = "send" THEN regs[dptr][(0 % Bits) + 1] ELSE 1
    BY <1>1, <2>1, <2>2 DEF Device!PutBit
  <2>4. 0 % Bits = 0
    BY <1>1
  <2>5. BitsThrough' = 0 /\ ~Acknowledging' /\ ~Taken'
    BY <1>1, <1>3, <1>4, <1>6, <1>9 DEF BitsThrough, Acknowledging, Taken
  <2>6. dphase = "send" => dsda' = BitSent'
    BY <1>1, <2>3, <2>4 DEF BitSent
  <2>7. dphase # "send" => dsda' = 1
    BY <2>3
  <2>8. Device!Receiving' => dphase # "send"
    BY <2>3 DEF Device!Receiving
  <2> QED BY <1>7, <1>9, <2>3, <2>5, <2>6, <2>7, <2>8 DEF InStep
<1>10. CASE p_state = "Wr_D" /\ dphase # "free"
  <2>1. Device!Receiving /\ dbits = ctr + 1
    BY <1>1, <1>10, WritePhase DEF InStep, BitsThrough, Taken
  <2>2. CASE ctr = Bits - 1
    <3>1. Device!Take \/ Device!Refuse
      BY <1>1, <2>1, <2>2 DEF Device!PutBit
    <3>2. p_state' = "RdAck_A" \/ Taken'
      BY <1>1, <1>3, <1>4, <1>10, <2>2 DEF Taken
    <3>3. CASE Device!Refuse
      BY <1>7, <3>2, <3>3 DEF Device!Refuse, InStep, Device!Receiving, Taken
    <3>4. CASE Device!Take
      <4>1. dphase' # "free" /\ dsda' = 0 /\ dbits' = Bits + 1
        BY <3>4 DEF Device!Take
      <4>2. BitsThrough' = Bits + 1 /\ Acknowledging'
        BY <3>2 DEF BitsThrough, Acknowledging, Taken
      <4> QED BY <1>7, <3>2, <4>1, <4>2 DEF InStep, Taken
    <3> QED BY <3>1, <3>3, <3>4
  <2>3. CASE ctr # Bits - 1
    <3>1. dbits # Bits /\ dbits # Bits + 1
      BY <1>1, <2>1, <2>3
    <3>2. Device!PutBit
      BY <3>1 DEF Device!Take, Device!Refuse
    <3>3. dphase' = dphase /\ dbits' = ctr + 1 /\ dsda' = 1 /\ dbyte' = dbyte
      BY <2>1, <3>1, <3>2 DEF Device!PutBit, Device!Receiving
    <3>4. p_state' \in {"Wr_D", "Wr_E"}
      BY <1>4, <1>10, <2>3
    <3>5. BitsThrough' = ctr + 1 /\ ~Taken' /\ ~Acknowledging'
      BY <1>3, <2>3, <3>4 DEF BitsThrough, Taken, Acknowledging
    <3>6. \A i \in 1..dbits' : dbyte'[i] = data_in'[i]
      BY <1>5, <1>10, <2>1, <2>3, <3>3 DEF InStep, Taken
    <3> QED BY <1>7, <1>10, <2>1, <3>3, <3>5, <3>6 DEF InStep, Device!Receiving
  <2> QED BY <2>2, <2>3
<1>11. CASE p_state = "Rd_E"
  <2>1. dphase = "send" /\ dbits = ctr + 1
    BY <1>1, <1>11, ReadPhase DEF InStep, BitsThrough, Taken
  <2>2. Device!PutBit
    BY <2>1 DEF Device!Take, Device!Refuse, Device!Receiving
  <2>3. /\ dphase' = "send" /\ dbits' = ctr + 1 /\ dptr' = dptr /\ regs' = regs
        /\ dsda' = IF dbits # Bits THEN regs[dptr][((ctr + 1) % Bits) + 1] ELSE 1
    BY <1>1, <2>1, <2>2 DEF Device!PutBit
  <2>4. ctr + 1 # Bits => (ctr + 1) % Bits = ctr + 1
    BY <1>1
  <2>5. BitSent' = IF ctr + 2 \in 1..Bits THEN regs[dptr][ctr + 2] ELSE 1
    BY <1>1, <2>3 DEF BitSent
  <2>6. dsda' = BitSent'
    <3>1. CASE ctr + 1 = Bits
      BY <1>1, <2>1, <2>3, <2>5, <3>1
    <3>2. CASE ctr + 1 # Bits
      BY <1>1, <2>1, <2>3, <2>4, <2>5, <3>2
    <3> QED BY <3>1, <3>2
  <2>7. p_state' \in {"Rd_E", "Rd_F", "WrAck_A"} /\ (p_state' = "WrAck_A" => ctr + 1 = Bits)
    BY <1>1, <1>4, <1>11
  <2>8. BitsThrough' = ctr + 1 /\ ~Taken' /\ ~Acknowledging'
    BY <1>1, <1>3, <2>7 DEF BitsThrough, Taken, Acknowledging
  <2> QED BY <1>7, <2>3, <2>6, <2>7, <2>8 DEF InStep, Device!Receiving
<1> QED BY <1>8, <1>9, <1>10, <1>11 DEF Falling

\* Where a transfer goes on without a START, SCL is low.
LEMMA GoesOnLow ==
  ASSUME DriverInv, BusInv, NotEmpty, p_state = "Idle", TIP, ~cr.start
  PROVE  SCL = 0
<1>1. stage = "await"
  BY DEF DriverInv, Polling
<1>2. cr = Now.control /\ Before
  BY <1>1 DEF BusInv, Commanded, Before
<1>3. step \in Nat \ {0} /\ TransferAt(call, step) /\ Now = Steps(call)[step]
  BY <1>1, NowTransfer DEF Now
<1>4. step > 1
  BY <1>2, <1>3 DEF TransferAt
<1> QED BY <1>2, <1>4 DEF BusInv, Clocked, Resting

LEMMA InStepStep ==
  ASSUME DriverInv, BusInv, NotEmpty, NEW access, BusClock(access)
  PROVE  InStep'
<1>1. p_state = "Idle" /\ TIP /\ ~cr.start => SCL = 0
  BY GoesOnLow
<1> QED BY <1>1, DeviceCases, InStepQuiet, InStepStartStop, InStepRise, InStepFall

----------------------------------------------------------------------------
(* The byte the device expects. *)

\* A clock on which the core rests: the program goes on, the wires do not move.
LEMMA PhasesRest ==
  ASSUME DriverInv, BusInv, NotEmpty, NEW access, BusClock(access), ProgramClock(access),
         stage # "await" \/ (p_state = "Idle" /\ ~TIP)
  PROVE  Phases' /\ Clocked'
<1> USE DEF BusInv
<1>1. /\ p_state \in {"Reset", "Idle"} /\ ~TIP /\ p_state' = "Idle"
      /\ AcceptAccess(access)
      /\ SCL' = SCL /\ dphase' = dphase /\ ackbit' = ackbit
  BY RestStep
<1>2. ~Amid' /\ ~Answered'
  BY <1>1 DEF Amid, Answered, Taken
<1>3. /\ Before <=> stage \in {"wait", "data", "control"}
      /\ Before' <=> stage' \in {"wait", "data", "control"} \/ (stage' = "await" /\ TIP')
  BY <1>1 DEF Before
<1>4. /\ Over <=> stage \in {"status", "fetch", "await"}
      /\ After <=> Over
      /\ Over' <=> stage' \in {"status", "fetch"} \/ (stage' = "await" /\ ~TIP')
      /\ After' <=> Over'
  BY <1>1 DEF Over, After, Finished
<1>5. IsCommand(access) \/ ~TIP'
  BY <1>1, RegisterMoves DEF DriverInv, DriverTypeOK, InterfaceTypeOK
<1>6. /\ stage \in {"wait", "data", "control", "status", "fetch", "await"} =>
           /\ call \in Transfers /\ TransferAt(call, step) /\ Now = Steps(call)[step]
           /\ step \in 1..Len(Steps(call)) /\ Len(Steps(call)) \in Nat
  BY NowTransfer DEF Now
<1>7. /\ Left <=> \/ Now.control.stop /\ Over
                  \/ Now.kind = "send" /\ ackbit = 1
                  \/ Now.kind = "receive" /\ Now.control.ack = 1
      /\ Left' <=> \/ Now'.control.stop /\ Over'
                   \/ Now'.kind = "send" /\ ackbit' = 1
                   \/ Now'.kind = "receive" /\ Now'.control.ack = 1
  BY <1>1 DEF Left
<1>8. p_state \in Resting /\ p_state' \in Resting
  BY <1>1 DEF Resting
<1>9. ASSUME Goes(stage), access.op # "write"
      PROVE  Phases' /\ Clocked'
  <2>1. /\ stage' = stage /\ call' = call /\ step' = step /\ result' = result /\ Now' = Now
        /\ ~TIP'
    BY <1>5, <1>9 DEF Goes, Now, IsCommand
  <2>2. Before' => Before
    BY <1>3, <2>1
  <2>3. (Over' <=> Over) /\ (Left' <=> Left) /\ (After' <=> After)
    BY <1>1, <1>4, <1>7, <2>1
  <2>4. Settled(step)' = Settled(step) /\ Settled(step - 1)' = Settled(step - 1)
    BY <2>1 DEF Settled
  <2>5. Phases'
    BY <1>1, <1>2, <2>1, <2>2, <2>3, <2>4 DEF Phases
  <2>6. Clocked'
    BY <1>1, <1>8, <2>1, <2>2, <2>3 DEF Clocked
  <2> QED BY <2>5, <2>6
<1>10. ASSUME stage \in {"wait", "data"}, Goes("data") \/ Goes("control")
       PROVE  Phases' /\ Clocked'
  <2>1. /\ stage' \in {"data", "control"} /\ call' = call /\ step' = step
        /\ result' = result /\ Now' = Now
    BY <1>10 DEF Goes, Now
  <2>2. Before /\ Before' /\ ~Over' /\ ~After' /\ call \in Transfers
    BY <1>3, <1>4, <1>6, <1>10, <2>1
  <2>3. Settled(step - 1)' = Settled(step - 1)
    BY <2>1 DEF Settled
  <2> QED BY <1>1, <1>2, <1>8, <2>1, <2>2, <2>3 DEF Phases, Clocked
<1>11. ASSUME stage = "control", Goes("await"), access = Write(1, Now.control)
       PROVE  Phases' /\ Clocked'
  <2>1. /\ stage' = "await" /\ call' = call /\ step' = step /\ result' = result /\ Now' = Now
    BY <1>11 DEF Goes, Now
  <2>2. TIP'
    <3>1. cr' = Now.control
      BY <1>1, <1>11 DEF AcceptAccess, Write
    <3> QED BY <1>6, <1>11, <3>1 DEF TransferAt, TIP
  <2>3. Before /\ Before' /\ ~Over' /\ ~After' /\ call \in Transfers
    BY <1>3, <1>4, <1>6, <1>11, <2>1, <2>2
  <2>4. Settled(step - 1)' = Settled(step - 1)
    BY <2>1 DEF Settled
  <2> QED BY <1>1, <1>2, <1>8, <2>1, <2>3, <2>4 DEF Phases, Clocked
<1>12. ASSUME stage = "await", Goes("status") \/ Goes("fetch")
       PROVE  Phases' /\ Clocked'
  <2>1. /\ stage' \in {"status", "fetch"} /\ call' = call /\ step' = step
        /\ result' = result /\ Now' = Now
    BY <1>12 DEF Goes, Now
  <2>2. Over /\ Over' /\ After /\ After' /\ ~Before' /\ (Left' <=> Left) /\ call \in Transfers
    BY <1>1, <1>3, <1>4, <1>6, <1>7, <1>12, <2>1
  <2>3. Settled(step)' = Settled(step)
    BY <2>1 DEF Settled
  <2> QED BY <1>1, <1>2, <2>1, <2>2, <2>3 DEF Phases, Clocked
<1>13. ASSUME stage = "status", Goes("giveup"), Now.kind = "send", ackbit = 1
       PROVE  Phases' /\ Clocked'
  <2>1. /\ stage' = "giveup" /\ call' = call /\ step' = step /\ result' = result
    BY <1>13 DEF Goes
  <2>2. After /\ Left /\ ~Before' /\ ~After' /\ ~Over' /\ call \in Transfers
    BY <1>3, <1>4, <1>6, <1>7, <1>13, <2>1
  <2> QED BY <1>1, <1>2, <2>1, <2>2 DEF Phases, Clocked
<1>14. ASSUME stage \in {"status", "fetch"}, Now.kind = "send" => ackbit = 0,
              step < Len(Steps(call)), step' = step + 1, stage' = "wait",
              UNCHANGED <<call, result>>
       PROVE  Phases' /\ Clocked'
  <2>1. ~Now.control.stop /\ (Now.kind = "receive" => Now.control.ack = 0)
    BY <1>6, <1>14 DEF TransferAt
  <2>2. After /\ Over /\ ~Left /\ Before' /\ ~Over' /\ ~After' /\ call \in Transfers
    BY <1>3, <1>4, <1>6, <1>7, <1>14, <2>1
  <2>3. dphase = Settled(step) /\ SCL = 0
    BY <2>1, <2>2 DEF Phases, Clocked
  <2>4. step' - 1 = step
    BY <1>6, <1>14
  <2>5. Settled(step - 1)' = Settled(step)
    BY <1>14, <2>4 DEF Settled
  <2> QED BY <1>1, <1>2, <1>14, <2>2, <2>3, <2>5 DEF Phases, Clocked
<1>15. ASSUME stage \in {"status", "fetch"}, step = Len(Steps(call)), Goes("return")
       PROVE  Phases' /\ Clocked'
  <2>1. /\ stage' = "return" /\ call' = call /\ step' = step /\ result' = result
    BY <1>15 DEF Goes
  <2>2. Now.control.stop
    BY <1>6, <1>15 DEF TransferAt
  <2>3. After /\ Over /\ Left /\ ~Before' /\ ~Over' /\ ~After' /\ call \in Transfers
    BY <1>3, <1>4, <1>6, <1>7, <1>15, <2>1, <2>2
  <2>4. dphase = "free" /\ SCL = 1
    BY <2>2, <2>3 DEF Phases, Clocked
  <2> QED BY <1>1, <1>2, <2>1, <2>3, <2>4 DEF Phases, Clocked
<1>16. ASSUME stage = "put", call \notin Transfers, stage' \in {"put", "return"},
              UNCHANGED <<call, result>>
       PROVE  Phases' /\ Clocked'
  <2>1. ~Before' /\ ~Over' /\ ~After'
    BY <1>3, <1>4, <1>16
  <2> QED BY <1>1, <1>2, <1>16, <2>1 DEF Phases, Clocked
<1>17. ASSUME stage = "giveup", stage' = "ready", result' # "I2C_SUCCESS"
       PROVE  Phases' /\ Clocked'
  <2>1. ~Before' /\ ~Over' /\ ~After'
    BY <1>3, <1>4, <1>17
  <2> QED BY <1>1, <1>2, <1>17, <2>1 DEF Phases, Clocked
<1>18. ASSUME stage = "return", stage' = "ready",
              result' = "I2C_SUCCESS" => call \in Transfers \/ result = "I2C_SUCCESS"
       PROVE  Phases' /\ Clocked'
  <2>1. ~Before' /\ ~Over' /\ ~After'
    BY <1>3, <1>4, <1>18
  <2> QED BY <1>1, <1>2, <1>18, <2>1 DEF Phases, Clocked
<1>19. ASSUME stage = "ready", stage' \in {"put", "wait"}, step' = 1, UNCHANGED result
       PROVE  Phases' /\ Clocked'
  <2>1. ~Over' /\ ~After'
    BY <1>3, <1>4, <1>19
  <2>2. call \notin Transfers
    <3>1. call = NoCall
      BY <1>19 DEF DriverInv, Calling
    <3> QED BY <3>1 DEF Transfers, NoCall
  <2>3. Settled(step - 1)' = "free"
    BY <1>19 DEF Settled
  <2>4. dphase' = "free" /\ (result = "I2C_SUCCESS" => SCL = 1)
    BY <1>1, <1>19, <2>2 DEF Phases, Clocked
  <2>5. Phases'
    BY <1>2, <1>19, <2>1, <2>3, <2>4 DEF Phases
  <2>6. Clocked'
    BY <1>1, <1>19, <2>1, <2>4 DEF Clocked
  <2> QED BY <2>5, <2>6
<1> QED BY <1>9, <1>10, <1>11, <1>12, <1>13, <1>14, <1>15, <1>16, <1>17, <1>18, <1>19, ProgramStep
    DEF ProgramMoves

\* A clock on which the core is at work, or ends: the program waits.
LEMMA Working ==
  ASSUME DriverInv, BusInv, NotEmpty, NEW access, BusClock(access), ProgramClock(access),
         stage = "await", p_state # "Idle" \/ TIP
  PROVE  /\ Goes("await") /\ Now' = Now
         /\ call \in Transfers /\ call.op \in {"read", "write"}
         /\ step \in 1..Len(Steps(call)) /\ Len(Steps(call)) \in Nat
         /\ TransferAt(call, step) /\ Now = Steps(call)[step]
         /\ p_state \in {"Idle"} \cup Transferring \cup Finished
         /\ p_state \notin Finished => cr = Now.control /\ TIP
         /\ p_state' = "Idle" => p_state = "DoneAck" /\ ~TIP'
         /\ p_state' # "Reset"
         /\ Settled(step)' = Settled(step) /\ Settled(step - 1)' = Settled(step - 1)
         /\ During(step)' = During(step)
<1>1. Goes("await") /\ access.op # "write"
  BY ProgramStep DEF ProgramMoves, Goes
<1>2. Now' = Now /\ call' = call /\ step' = step
  BY <1>1 DEF Goes, Now
<1>3. /\ call \in Transfers /\ call.op \in {"read", "write"}
      /\ step \in 1..Len(Steps(call)) /\ Len(Steps(call)) \in Nat
      /\ TransferAt(call, step) /\ Now = Steps(call)[step]
  BY NowTransfer DEF Now, Transfers
<1>4. CoreTypeOK /\ CoreClock(sclk, cr, data_in, cmd_done_ack, scl_in, sda_in)
  BY BusParts
<1>5. p_state \in {"Idle"} \cup Transferring \cup Finished
  BY <1>4 DEF BusInv, Commanded, CoreTypeOK, States
<1>6. p_state \notin Finished => cr = Now.control /\ TIP
  BY <1>5 DEF BusInv, Commanded, DriverInv, Agreed
<1>7. p_state' = "Idle" => p_state = "DoneAck" /\ ~TIP'
  <2> SUFFICES ASSUME p_state' = "Idle" PROVE p_state = "DoneAck" /\ ~TIP'
    OBVIOUS
  <2>1. p_state = "DoneAck" /\ cmd_done_ack
    BY <1>4, <1>5, CoreGoes DEF Transferring, Paced, Follows, Finished, FirstQuarter
  <2>2. ~TIP
    BY <2>1 DEF DriverInv, Agreed
  <2>3. AcceptAccess(access) \/ AwaitDone(access) \/ EndCommand
    BY InterfaceParts DEF BusClock, Wires
  <2>4. ~IsCommand(access)
    BY <1>1 DEF IsCommand
  <2>5. cr \in Control
    BY DEF DriverInv, DriverTypeOK, InterfaceTypeOK
  <2> QED BY <2>1, <2>2, <2>3, <2>4, <2>5, RegisterMoves
<1>8. p_state' # "Reset"
  BY <1>4, <1>5, CoreGoes DEF Transferring, Paced, Follows, Finished, FirstQuarter
<1>9. /\ Settled(step)' = Settled(step) /\ Settled(step - 1)' = Settled(step - 1)
      /\ During(step)' = During(step)
  BY <1>2 DEF Settled, During
<1> QED BY <1>1, <1>2, <1>3, <1>5, <1>6, <1>7, <1>8, <1>9

\* Up to the START of a transfer the device expects what it did after the last.
LEMMA BeforeStep ==
  ASSUME DriverInv, BusInv, NotEmpty, NEW access, BusClock(access), ProgramClock(access),
         stage = "await", p_state # "Idle" \/ TIP, Before'
  PROVE  Before /\ dphase' = Settled(step - 1)
<1> USE DEF BusInv
<1>1. CoreTypeOK /\ CoreClock(sclk, cr, data_in, cmd_done_ack, scl_in, sda_in) /\ dpin' = SDA(dsda)
  BY BusParts
<1>2. /\ stage' = "await" /\ p_state \in {"Idle"} \cup Transferring \cup Finished
      /\ p_state' = "Idle" => ~TIP'
      /\ p_state = "Idle" => TIP
  BY Working DEF Goes
<1>3. \/ p_state' \in {"Start_A", "Start_B"}
      \/ p_state' = "Start_C" /\ dpin' = 1
  BY <1>2 DEF Before
<1>4. \/ p_state \in {"Idle", "Start_A", "Start_B"}
      \/ p_state = "Start_C" /\ dpin' = 1
  BY <1>1, <1>2, <1>3, CoreGoes DEF Transferring, Paced, Follows, Finished, FirstQuarter
<1>5. p_state = "Start_C" => dpin = 1
  BY <1>1, <1>4 DEF Drives, SDA
<1>6. Before /\ dphase = Settled(step - 1)
  BY <1>2, <1>4, <1>5 DEF Before, Phases
<1>7. dphase' = dphase
  <2>1. CASE p_state \in {"Idle", "Start_A"}
    BY <2>1, DeviceCases DEF Rising, Falling
  <2>2. CASE p_state = "Start_B"
    BY <2>2, StartPhase, DeviceCases DEF Falling, Device!OnRise
  <2>3. CASE p_state = "Start_C"
    BY <1>1, <1>4, <1>5, <2>3, DeviceCases DEF Rising, Falling
  <2> QED BY <1>4, <2>1, <2>2, <2>3
<1> QED BY <1>6, <1>7

\* While bits are sent it expects the byte they are of.
LEMMA AmidStep ==
  ASSUME DriverInv, BusInv, NotEmpty, NEW access, BusClock(access), ProgramClock(access),
         stage = "await", p_state # "Idle" \/ TIP, Amid'
  PROVE  dphase' = During(step)
<1> USE DEF BusInv
<1>1. /\ CoreTypeOK /\ CoreClock(sclk, cr, data_in, cmd_done_ack, scl_in, sda_in)
      /\ dpin' = SDA(dsda) /\ dscl' = SCL /\ dpin \in {0, 1} /\ SDA(dsda) \in {0, 1}
      /\ SCL \in {0, 1} /\ dscl \in {0, 1}
      /\ ctr \in 0..(Bits - 1) /\ Bits \in Nat \ {0} /\ dbits \in 0..(Bits + 1)
  BY BusParts, BitsAssumption DEF CoreTypeOK, Bit
<1>2. /\ p_state \in {"Idle"} \cup Transferring \cup Finished
      /\ Now = Steps(call)[step]
      /\ p_state \notin Finished => cr = Now.control /\ TIP
      /\ p_state = "Idle" => Before
  BY Working DEF Before
<1>3. CASE p_state = "Start_B"
  <2>1. dsda = 1 /\ sda_out = 1
    BY <1>3, StartPhase DEF Drives
  <2>2. p_state' \in {"Start_B", "Start_C"} /\ dpin' = 1
    BY <1>1, <1>3, <2>1, CoreGoes DEF Paced, Follows, SDA
  <2> QED BY <2>2 DEF Amid
<1>4. CASE p_state = "Start_C"
  <2>1. During(step) = "address"
    BY <1>2, <1>4 DEF Commanded, During, Finished
  <2>2. dscl = 1 /\ SCL = 1 /\ (dpin = 1 \/ sda_out = 0)
    BY <1>4 DEF Levels, High, Drives
  <2>3. SDA(dsda) = 0
    <3>1. (p_state' = "Start_C" /\ dpin' = 0) \/ (p_state' = "Start_D" /\ sclk)
      BY <1>1, <1>4, CoreGoes DEF Amid, Paced, Follows
    <3> QED BY <1>1, <1>4, <3>1 DEF Drives, SDA
  <2>4. CASE dpin = 1
    BY <1>1, <1>4, <2>1, <2>2, <2>3, <2>4, DeviceCases DEF Device!OnStart, Rising, Falling
  <2>5. CASE dpin = 0
    <3>1. Amid
      BY <1>4, <2>5 DEF Amid
    <3>2. dphase' = dphase
      BY <1>4, <2>2, <2>3, <2>5, DeviceCases DEF Rising, Falling
    <3> QED BY <3>1, <3>2 DEF Phases
  <2> QED BY <1>1, <2>4, <2>5
<1>5. CASE p_state = "Start_D"
  <2>1. Amid
    BY <1>5 DEF Amid, Taken
  <2>2. dphase = During(step)
    BY <2>1 DEF Phases
  <2>3. dphase # "free" => dbits = 0
    BY <1>5 DEF InStep, BitsThrough
  <2>4. dphase' = dphase
    BY <1>1, <1>5, <2>3, DeviceCases
    DEF Rising, Device!Take, Device!Refuse, Device!Receiving, Device!PutBit
  <2> QED BY <2>2, <2>4
<1>6. CASE p_state = "Idle"
  <2>1. p_state' \in {"Wr_A", "Rd_A"} /\ ~cr.start
    BY <1>1, <1>2, <1>6, CoreGoes DEF Amid, FirstQuarter, Finished
  <2>2. dphase = Settled(step - 1)
    BY <1>2, <1>6 DEF Phases
  <2>3. During(step) = Settled(step - 1)
    BY <1>2, <1>6, <2>1 DEF During, Finished
  <2>4. dphase' = dphase
    BY <1>6, DeviceCases DEF Rising, Falling
  <2> QED BY <2>2, <2>3, <2>4
<1>7. CASE p_state \in {"Wr_A", "Wr_B", "Wr_C", "Wr_D", "Wr_E"}
  <2>1. ~Taken
    <3>1. Taken => p_state' \in {"Wr_D", "RdAck_A"} /\ ctr' = ctr /\ dscl' = 0
      BY <1>1, CoreGoes DEF Taken, Levels, Falling, Paced, Follows
    <3> QED BY <1>1, <3>1 DEF Amid, Taken
  <2>2. dphase = During(step) /\ Device!Receiving
    BY <1>7, <2>1, WritePhase
  <2>3. dphase # "free" /\ dphase # "send" /\ dbits = BitsThrough
    BY <2>2 DEF Device!Receiving, InStep
  <2>4. p_state \in Falling /\ dscl = 1 /\ SCL = 0 => dbits # Bits
    <3> SUFFICES ASSUME p_state = "Wr_D", dscl = 1, SCL = 0, dbits = Bits PROVE FALSE
      BY <1>7 DEF Falling
    <3>1. ctr = Bits - 1
      BY <1>1, <2>1, <2>3 DEF BitsThrough
    <3>2. p_state' \in {"Wr_D", "RdAck_A"} /\ ctr' = ctr
      BY <1>1, <3>1, CoreGoes DEF Paced, Follows
    <3> QED BY <1>1, <3>1, <3>2 DEF Amid, Taken
  <2>5. dphase' = dphase
    BY <1>7, <2>3, <2>4, DeviceCases
    DEF Device!OnRise, Device!Take, Device!Refuse, Device!PutBit
  <2> QED BY <2>2, <2>5
<1>8. CASE \/ p_state \in {"Rd_A", "Rd_B", "Rd_C", "Rd_D", "Rd_E", "Rd_F", "WrAck_A"}
           \/ p_state = "WrAck_B" /\ dscl = 0
  <2>1. Amid
    BY <1>8 DEF Amid, Taken
  <2>2. dphase = During(step) /\ dphase = "send"
    BY <1>8, <2>1, ReadPhase DEF Phases
  <2>3. dbits = BitsThrough
    BY <2>2 DEF InStep
  <2>4. p_state = "WrAck_B" => SCL = 0
    <3> SUFFICES ASSUME p_state = "WrAck_B", SCL = 1 PROVE FALSE
      BY <1>1
    <3>1. p_state' \in {"WrAck_B", "WrAck_C"}
      BY <1>1, CoreGoes DEF Paced, Follows
    <3> QED BY <1>1, <3>1 DEF Amid
  <2>5. p_state = "Rd_B" /\ dscl = 0 => dbits # Bits
    BY <1>1, <2>3 DEF BitsThrough
  <2>6. dphase' = dphase
    BY <1>8, <2>2, <2>4, <2>5, DeviceCases
    DEF Rising, Device!OnRise, Device!Take, Device!Refuse, Device!PutBit, Device!Receiving
  <2> QED BY <2>2, <2>6
<1>9. CASE \/ p_state \in {"Start_A", "WrAck_C", "WrAck_D", "RdAck_A", "RdAck_B", "RdAck_C",
                           "RdAck_D", "RdAck_E", "Stop_A", "Stop_B", "Stop_C"} \cup Finished
           \/ p_state = "WrAck_B" /\ dscl = 1
  <2>1. p_state = "WrAck_B" => SCL = 1
    BY <1>1, <1>9 DEF Levels, Rising, Finished
  <2> QED BY <1>1, <1>9, <2>1, CoreGoes DEF Amid, Paced, Follows, Finished
<1> QED BY <1>1, <1>2, <1>3, <1>4, <1>5, <1>6, <1>7, <1>8, <1>9 DEF Transferring, Paced, Follows

\* A byte the device takes tells it what the next one is.
LEMMA TakeSettles ==
  ASSUME DriverInv, BusInv, NotEmpty, p_state = "Wr_D", ~Taken, dbits = Bits, Device!Take
  PROVE  dphase' = Settled(step)
<1>1. /\ Device!Receiving /\ cr.write
      /\ step = 1 => dphase = "address"
      /\ step = 2 => dphase = "index"
      /\ step > 2 => dphase = IF call.op = "read" THEN "address" ELSE "data"
  BY WritePhase
<1>2. /\ call.op \in {"read", "write"} /\ Now = Steps(call)[step] /\ TransferAt(call, step)
      /\ step \in Nat \ {0} /\ data_in = Now.data /\ ~(call.op = "read" /\ step > 3)
  BY <1>1, AtWork DEF Transferring, Paced, Follows
<1>3. Bits \in Nat \ {0} /\ Bits \in 1..dbits
  BY BitsAssumption
<1>4. dbyte[Bits] = data_in[Bits]
  BY <1>1, <1>3 DEF BusInv, InStep
<1>5. CASE step = 1
  BY <1>1, <1>2, <1>4, <1>5 DEF Device!Take, TransferAt, Settled
<1>6. CASE step = 2
  BY <1>1, <1>2, <1>6 DEF Device!Take, Settled
<1>7. CASE step > 2 /\ call.op = "read"
  BY <1>1, <1>2, <1>4, <1>7 DEF Device!Take, TransferAt, Settled
<1>8. CASE step > 2 /\ call.op = "write"
  BY <1>1, <1>2, <1>8 DEF Device!Take, Settled
<1> QED BY <1>2, <1>5, <1>6, <1>7, <1>8

LEMMA AnsweredStep ==
  ASSUME DriverInv, BusInv, NotEmpty, NEW access, BusClock(access), ProgramClock(access),
         stage = "await", p_state # "Idle" \/ TIP, Answered'
  PROVE  dphase' \in {"free", Settled(step)}
<1> USE DEF BusInv
<1>1. /\ CoreTypeOK /\ CoreClock(sclk, cr, data_in, cmd_done_ack, scl_in, sda_in)
      /\ dscl' = SCL /\ SCL \in {0, 1} /\ dscl \in {0, 1}
      /\ ctr \in 0..(Bits - 1) /\ Bits \in Nat \ {0}
  BY BusParts, BitsAssumption DEF CoreTypeOK, Bit
<1>2. p_state \in {"Idle"} \cup Transferring \cup Finished
  BY Working
<1>3. p_state = "Wr_C" => SCL = 1
  BY DEF Levels, High
<1>4. p_state \in {"Wr_D", "RdAck_A", "RdAck_B"}
  BY <1>1, <1>2, <1>3, CoreGoes
  DEF Answered, Taken, Transferring, Paced, Follows, Finished, FirstQuarter
<1>5. CASE p_state \in {"RdAck_A", "RdAck_B"} \/ Taken
  <2>1. dphase \in {"free", Settled(step)}
    BY <1>5 DEF Answered, Phases
  <2>2. dphase # "free" => dbits = Bits + 1
    BY <1>5 DEF InStep, BitsThrough, Taken
  <2>3. p_state \notin Falling \/ dscl = 0
    BY <1>5 DEF Taken, Falling
  <2>4. dphase' = dphase
    BY <1>1, <1>4, <2>2, <2>3, DeviceCases DEF Device!OnRise
  <2> QED BY <2>1, <2>4
<1>6. CASE p_state = "Wr_D" /\ ~Taken
  <2>1. ctr = Bits - 1
    BY <1>1, <1>6, CoreGoes DEF Answered, Taken, Paced, Follows
  <2>2. dscl = 1 /\ SCL = 0
    <3>1. dscl = 1
      BY <1>1, <1>6, <2>1 DEF Taken
    <3>2. p_state' = "Wr_D" \/ sclk
      BY <1>1, <1>6, CoreGoes DEF Paced, Follows
    <3>3. p_state' = "Wr_D" => dscl' = 0
      BY DEF Answered, Taken
    <3> QED BY <1>1, <1>6, <3>1, <3>2, <3>3 DEF Levels, Falling
  <2>3. Device!Receiving /\ dbits = Bits
    BY <1>1, <1>6, <2>1, WritePhase DEF InStep, BitsThrough, Device!Receiving
  <2>4. Device!Take \/ Device!Refuse
    BY <1>1, <1>6, <2>2, <2>3, DeviceCases DEF Rising, Device!PutBit
  <2> QED BY <1>6, <2>3, <2>4, TakeSettles DEF Device!Refuse
<1> QED BY <1>4, <1>5, <1>6

\* The acknowledge of a byte, and what it tells the device.
LEMMA AcknowledgeStep ==
  ASSUME DriverInv, BusInv, NotEmpty, NEW access, BusClock(access), ProgramClock(access),
         p_state = "RdAck_C"
  PROVE  dphase' = IF Left' THEN "free" ELSE Settled(step)
<1> USE DEF BusInv
<1>1. /\ CoreTypeOK /\ CoreClock(sclk, cr, data_in, cmd_done_ack, scl_in, sda_in)
      /\ dpin \in {0, 1} /\ dsda \in {0, 1}
  BY BusParts DEF Bit
<1>2. /\ stage = "await" /\ cr.write /\ Now.kind = "send" /\ Now' = Now /\ Goes("await")
  BY AtWork, Working DEF Commanded, Transferring, Paced, Follows
<1>3. p_state' = "RdAck_D" /\ ackbit' = sda_in
  BY <1>1, CoreGoes
<1>4. Left' <=> ackbit' = 1
  BY <1>2, <1>3 DEF Left, Over, Finished, Goes
<1>5. sda_in = dsda
  <2>1. dscl = 1 /\ SCL = 1 /\ sda_in = dpin
    BY DEF Levels, High
  <2>2. dpin = SDA(dsda)
    BY <2>1 DEF Still
  <2> QED BY <2>1, <2>2 DEF Drives, SDA
<1>6. dphase \in {"free", Settled(step)}
  BY DEF Phases, Answered
<1>7. dsda = IF dphase = "free" THEN 1 ELSE 0
  BY DEF InStep, Acknowledging
<1>8. dphase' = dphase
  BY DeviceCases DEF Rising, Falling
<1>9. Settled(step) # "free"
  <2>1. step \in Nat \ {0}
    BY AtWork DEF Transferring, Paced, Follows
  <2> QED BY <2>1 DEF Settled
<1> QED BY <1>3, <1>4, <1>5, <1>6, <1>7, <1>8, <1>9

\* The acknowledge of the master.
LEMMA MasterAcknowledges ==
  ASSUME DriverInv, BusInv, NotEmpty, NEW access, BusClock(access), ProgramClock(access),
         p_state = "WrAck_B", dscl = 0, SCL = 1
  PROVE  dphase' = IF Left' THEN "free" ELSE Settled(step)
<1> USE DEF BusInv
<1>1. /\ CoreTypeOK /\ CoreClock(sclk, cr, data_in, cmd_done_ack, scl_in, sda_in)
      /\ Bits \in Nat \ {0} /\ cr.ack \in {0, 1}
  BY BusParts, BitsAssumption DEF InterfaceTypeOK, Control, Bit
<1>2. dphase = "send" /\ Settled(step) = "send" /\ cr.read
  BY ReadPhase
<1>3. /\ stage = "await" /\ Now.kind = "receive" /\ cr = Now.control /\ Now' = Now
      /\ Goes("await")
  BY <1>2, AtWork, Working DEF Transferring, Paced, Follows, Finished
<1>4. p_state' \in {"WrAck_B", "WrAck_C"}
  BY <1>1, CoreGoes DEF Paced, Follows
<1>5. Left' <=> cr.ack = 1
  BY <1>3, <1>4 DEF Left, Over, Finished, Goes
<1>6. dbits = Bits /\ dsda = 1
  BY <1>1, <1>2 DEF InStep, BitsThrough, Acknowledging, Taken, BitSent
<1>7. SDA(dsda) = cr.ack
  BY <1>1, <1>6 DEF Drives, SDA
<1>8. Device!OnRise(SDA(dsda))
  BY DeviceCases DEF Falling
<1>9. dphase' = IF cr.ack = 1 THEN "free" ELSE "send"
  BY <1>2, <1>6, <1>7, <1>8 DEF Device!OnRise
<1> QED BY <1>2, <1>5, <1>9

\* After the acknowledge it expects what comes next, or nothing.
LEMMA AfterStep ==
  ASSUME DriverInv, BusInv, NotEmpty, NEW access, BusClock(access), ProgramClock(access),
         stage = "await", p_state # "Idle" \/ TIP, After'
  PROVE  dphase' = IF Left' THEN "free" ELSE Settled(step)
<1> USE DEF BusInv
<1>1. /\ CoreTypeOK /\ CoreClock(sclk, cr, data_in, cmd_done_ack, scl_in, sda_in)
      /\ dpin' = SDA(dsda) /\ dscl' = SCL /\ SCL \in {0, 1} /\ dscl \in {0, 1}
      /\ dpin \in {0, 1} /\ SDA(dsda) \in {0, 1} /\ Bits \in Nat \ {0} /\ dbits \in 0..(Bits + 1)
  BY BusParts, BitsAssumption DEF CoreTypeOK, Bit
<1>2. /\ p_state \in {"Idle"} \cup Transferring \cup Finished
      /\ stage' = "await" /\ Now' = Now
      /\ p_state \notin Finished => cr = Now.control
      /\ p_state' = "Idle" => p_state = "DoneAck" /\ ~TIP'
      /\ p_state = "Idle" => TIP
  BY Working DEF Goes
<1>3. p_state # "RdAck_C" => ackbit' = ackbit
  BY <1>1, CoreGoes
<1>4. \/ p_state \in {"RdAck_C", "RdAck_D", "RdAck_E", "WrAck_B", "WrAck_C", "WrAck_D",
                      "Stop_A", "Stop_B", "Stop_C"} \cup Finished
      \/ p_state = "WrAck_A" /\ dscl' = 1
  BY <1>1, <1>2, CoreGoes
  DEF After, Over, Transferring, Paced, Follows, Finished, FirstQuarter
<1>5. CASE p_state = "WrAck_A" /\ dscl' = 1
  BY <1>1, <1>5 DEF Levels, Low
<1>6. CASE p_state = "RdAck_C"
  BY <1>6, AcknowledgeStep
<1>7. CASE p_state = "WrAck_B" /\ dscl = 0
  <2>1. SCL = 1
    <3>1. p_state' \in {"WrAck_B", "WrAck_C"} /\ (p_state' = "WrAck_C" => sclk)
      BY <1>1, <1>7, CoreGoes DEF Paced, Follows
    <3> QED BY <1>1, <1>2, <1>7, <3>1 DEF After, Over, Finished, Levels, Rising
  <2> QED BY <1>7, <2>1, MasterAcknowledges
<1>8. CASE \/ p_state \in {"RdAck_D", "RdAck_E", "WrAck_C", "WrAck_D", "Stop_A"}
           \/ p_state = "WrAck_B" /\ dscl = 1
  <2>1. After /\ ~Over
    BY <1>8 DEF After, Over, Finished
  <2>2. \/ p_state' \in {"RdAck_D", "RdAck_E", "WrAck_B", "WrAck_C", "WrAck_D", "Stop_A", "Stop_B"}
        \/ p_state' = "Done" /\ ~cr.stop
    BY <1>1, <1>8, CoreGoes DEF Paced, Follows
  <2>3. Over' => ~Now.control.stop
    BY <1>2, <1>8, <2>2 DEF Over, Finished
  <2>4. Left' <=> Left
    BY <1>2, <1>3, <1>8, <2>1, <2>2, <2>3 DEF Left
  <2>5. dphase # "free" => dbits = BitsThrough
    BY DEF InStep
  <2>6. p_state \in Falling /\ dscl = 1 => dphase = "free" \/ dbits # Bits
    BY <1>1, <1>8, <2>5 DEF BitsThrough, Falling
  <2>7. dphase' = dphase
    BY <1>1, <1>8, <2>6, DeviceCases
    DEF Rising, Device!Take, Device!Refuse, Device!PutBit, Device!Receiving
  <2> QED BY <2>1, <2>4, <2>7 DEF Phases
<1>9. CASE p_state = "Stop_B"
  <2>1. After /\ ~Over
    BY <1>9 DEF After, Over, Finished
  <2>2. p_state' = "Stop_B" \/ (p_state' = "Stop_C" /\ sclk)
    BY <1>1, <1>9, CoreGoes DEF Paced, Follows
  <2>3. dpin' = 0
    BY <1>1, <1>9 DEF Drives, SDA
  <2>4. Left' <=> Left
    BY <1>2, <1>3, <1>9, <2>1, <2>2, <2>3 DEF Left, Over, Finished
  <2>5. dphase' = dphase
    BY <1>9, StopPhase, DeviceCases DEF Falling, Device!OnRise
  <2> QED BY <2>1, <2>4, <2>5 DEF Phases
<1>10. CASE p_state = "Stop_C"
  <2>1. /\ After /\ dsda = 1 /\ cr.stop /\ Now.control.stop /\ dscl = 1 /\ SCL = 1
        /\ (sclk => sda_out = 1) /\ (dpin = 1 => dphase = "free" /\ SDA(dsda) = 1)
    BY <1>1, <1>2, <1>10, StopPhase DEF After, Commanded, Finished, Levels, High, Drives, SDA
  <2>2. p_state' = "Stop_C" \/ (p_state' = "Done" /\ SDA(dsda) = 1)
    BY <1>1, <1>10, <2>1, CoreGoes DEF Paced, Follows, SDA
  <2>3. CASE SDA(dsda) = 1
    <3>1. Left'
      BY <1>1, <1>2, <2>1, <2>2, <2>3 DEF Left, Over, Finished
    <3>2. dphase' = "free"
      BY <1>1, <1>10, <2>1, <2>3, DeviceCases DEF Device!OnStop, Rising, Falling
    <3> QED BY <3>1, <3>2
  <2>4. CASE SDA(dsda) = 0
    <3>1. p_state' = "Stop_C" /\ dpin = 0 /\ dpin' = 0
      BY <1>1, <2>1, <2>2, <2>4
    <3>2. Left' <=> Left
      BY <1>2, <1>3, <1>10, <3>1 DEF Left, Over, Finished
    <3>3. dphase' = dphase
      BY <1>10, <2>4, DeviceCases DEF Rising, Falling
    <3> QED BY <2>1, <3>2, <3>3 DEF Phases
  <2> QED BY <1>1, <2>3, <2>4
<1>11. CASE p_state \in Finished
  <2>1. p_state' \in Finished \cup {"Idle"}
    BY <1>1, <1>11, CoreGoes DEF Finished
  <2>2. After /\ Over /\ Over'
    BY <1>2, <1>11, <2>1 DEF After, Over
  <2>3. Left' <=> Left
    BY <1>2, <1>3, <1>11, <2>1, <2>2 DEF Left, Finished
  <2>4. dphase' = dphase
    BY <1>11, DeviceCases DEF Finished, Rising, Falling
  <2> QED BY <2>2, <2>3, <2>4 DEF Phases
<1> QED BY <1>1, <1>4, <1>5, <1>6, <1>7, <1>8, <1>9, <1>10, <1>11 DEF Finished

LEMMA PhasesWork ==
  ASSUME DriverInv, BusInv, NotEmpty, NEW access, BusClock(access), ProgramClock(access),
         stage = "await", p_state # "Idle" \/ TIP
  PROVE  Phases' /\ Clocked'
<1> USE DEF BusInv
<1>1. /\ Goes("await") /\ Now' = Now /\ call \in Transfers
      /\ Settled(step)' = Settled(step) /\ Settled(step - 1)' = Settled(step - 1)
      /\ During(step)' = During(step)
      /\ p_state \in {"Idle"} \cup Transferring \cup Finished
      /\ p_state \notin Finished => cr = Now.control
      /\ p_state' = "Idle" => p_state = "DoneAck"
  BY Working
<1>2. stage' = "await" /\ call' = call /\ step' = step
  BY <1>1 DEF Goes
<1>3. Phases'
  BY <1>1, <1>2, BeforeStep, AmidStep, AnsweredStep, AfterStep DEF Phases
<1>4. CoreTypeOK /\ CoreClock(sclk, cr, data_in, cmd_done_ack, scl_in, sda_in)
      /\ scl_out' = Scl(scl_in)
  BY BusParts
<1>5. p_state \in Resting => SCL' = SCL
  BY <1>4 DEF Scl, KeepsPins, Levels, Resting, SCL, Finished
<1>6. Before' /\ step' > 1 /\ p_state' \in Resting => SCL' = 0
  <2> SUFFICES ASSUME Before', step > 1, p_state' \in Resting PROVE SCL' = 0
    BY <1>2
  <2>1. Before
    BY BeforeStep
  <2>2. p_state \in {"Idle", "Start_A"}
    <3>1. p_state' \in {"Idle", "Start_A"}
      BY <1>2 DEF Before, Resting, Finished
    <3>2. p_state' # "Idle"
      <4>1. p_state' = "Idle" => p_state = "DoneAck"
        BY <1>1
      <4> QED BY <2>1, <4>1 DEF Before
    <3> QED BY <1>1, <1>4, <3>1, <3>2, CoreGoes
        DEF Transferring, Paced, Follows, Finished, FirstQuarter
  <2> QED BY <1>5, <2>1, <2>2 DEF Clocked, Resting
<1>7. Over' => SCL' = IF Now'.control.stop THEN 1 ELSE 0
  <2> SUFFICES ASSUME Over' PROVE SCL' = IF Now.control.stop THEN 1 ELSE 0
    BY <1>1
  <2>1. p_state' \in Finished \cup {"Idle"}
    BY <1>2 DEF Over
  <2>2. \/ p_state \in Finished
        \/ p_state = "Stop_C"
        \/ p_state \in {"WrAck_D", "RdAck_E"} /\ ~cr.stop
    BY <1>1, <1>4, <2>1, CoreGoes DEF Transferring, Paced, Follows, Finished, FirstQuarter
  <2>3. CASE p_state \in Finished
    BY <1>1, <1>5, <2>3 DEF Over, Clocked, Resting
  <2>4. CASE p_state = "Stop_C"
    BY <1>1, <1>4, <2>4 DEF Commanded, Scl, KeepsPins, SCL, Finished
  <2>5. CASE p_state \in {"WrAck_D", "RdAck_E"} /\ ~cr.stop
    BY <1>1, <1>4, <2>5 DEF Scl, KeepsPins, SCL, Finished
  <2> QED BY <2>2, <2>3, <2>4, <2>5
<1>8. Clocked'
  BY <1>1, <1>2, <1>6, <1>7 DEF Clocked
<1> QED BY <1>3, <1>8

----------------------------------------------------------------------------
(* The two wires hold together. *)

LEMMA BusStep ==
  ASSUME DriverInv, BusInv, NotEmpty, Slowed, [DriverNext]_driverVars
  PROVE  BusInv'
<1>1. CASE DriverNext
  <2>1. PICK access : BusClock(access) /\ ProgramClock(access)
    BY <1>1, BusOfStep
  <2>2. Levels'
    BY <2>1, GoesOnLow, LevelsStep DEF BusInv
  <2>3. Drives' /\ Still' /\ InStep'
    BY <2>1, DrivesStep, StillStep, InStepStep
  <2>4. Commanded'
    BY <2>1, CommandedStep
  <2>5. Phases' /\ Clocked'
    BY <2>1, PhasesRest, PhasesWork
  <2> QED BY <2>2, <2>3, <2>4, <2>5 DEF BusInv
<1>2. CASE UNCHANGED driverVars
  <2> USE <1>2 DEF driverVars, interfaceVars, clkgenVars, coreVars, registerVars, programVars,
                   Device!deviceVars, SCL, SDA, Device!Receiving, Taken, Acknowledging
  <2>1. Levels' /\ Drives' /\ Still'
    BY DEF BusInv, Levels, Drives, Still
  <2>2. BitsThrough' = BitsThrough /\ BitSent' = BitSent
    BY DEF BitsThrough, BitSent
  <2>3. InStep'
    BY <2>2 DEF BusInv, InStep
  <2>4. Now' = Now /\ TIP' = TIP
    BY DEF Now, TIP
  <2>5. Commanded'
    BY <2>4 DEF BusInv, Commanded
  <2>6. /\ Settled(step)' = Settled(step) /\ Settled(step - 1)' = Settled(step - 1)
        /\ During(step)' = During(step)
    BY DEF Settled, During
  <2>7. /\ Before' <=> Before
        /\ Amid' <=> Amid
        /\ Answered' <=> Answered
        /\ Over' <=> Over
    BY <2>4 DEF Before, Amid, Answered, Over
  <2>8. (After' <=> After) /\ (Left' <=> Left)
    BY <2>4, <2>7 DEF After, Left
  <2>9. Phases' /\ Clocked'
    BY <2>4, <2>6, <2>7, <2>8 DEF BusInv, Phases, Clocked
  <2> QED BY <2>1, <2>3, <2>5, <2>9 DEF BusInv
<1> QED BY <1>1, <1>2

LEMMA BusInit ==
  ASSUME Slowed, DriverInit
  PROVE  BusInv
<1>1. /\ p_state = "Reset" /\ ctr = 0 /\ scl_out = 1 /\ sda_out = 1 /\ ackbit = 0 /\ ack_out = 0
      /\ scl_in = 1 /\ sda_in = 1 /\ clkdiv = DefaultDivisor /\ clk_ctr = 0
      /\ dphase = "free" /\ dbits = 0 /\ dsda = 1 /\ dscl = 1 /\ dpin = 1
      /\ call = NoCall /\ step = 1 /\ stage = "ready" /\ held = FALSE
  BY DEF DriverInit, InterfaceInit, ClkgenInit, CoreInit, Device!DeviceInit
<1>2. Levels /\ Drives /\ Still
  BY <1>1 DEF Levels, Drives, Still, SCL, SDA, Slowed, Low, Rising, High, Falling, Resting, Finished
<1>3. InStep
  BY <1>1 DEF InStep, Device!Receiving
<1>4. Commanded
  BY <1>1 DEF Commanded
<1>5. /\ ~Before /\ ~Amid /\ ~Answered /\ ~Over /\ ~After
  BY <1>1 DEF Before, Amid, Answered, Over, After, Taken, Finished
<1>6. Phases
  BY <1>1, <1>5 DEF Phases
<1>7. Clocked
  BY <1>1, <1>5 DEF Clocked, SCL
<1> QED BY <1>2, <1>3, <1>4, <1>6, <1>7 DEF BusInv

\* The core, the device and the program agree on where the transfer is, bit by
\* bit, whatever the device refuses and whenever the program computes.
THEOREM BusInvariant ==
  ASSUME NotEmpty, Slowed
  PROVE  DriverSpec => []BusInv
<1>1. DriverInit => BusInv
  BY BusInit
<1>2. DriverInv /\ BusInv /\ [DriverNext]_driverVars => BusInv'
  BY BusStep
<1> QED BY <1>1, <1>2, DriverInvariant, PTL DEF DriverSpec

\* START and STOP come between bytes: when the device sees one, it expects
\* nothing, or has seen one bit of the byte it expects (i2c_core.vhd's start
\* and stop states, and the commands i2c.c makes).
THEOREM BytesFramed ==
  ASSUME NotEmpty, Slowed
  PROVE  DriverSpec => []Framed
<1>1. ASSUME DriverInv, BusInv PROVE Framed
  <2> SUFFICES ASSUME dscl = 1, SCL = 1, dpin # SDA(dsda)
               PROVE  dphase = "free" \/ (Device!Receiving /\ dbits = 1)
    BY DEF Framed
  <2> USE <1>1 DEF BusInv
  <2>1. p_state \in {"Start_C", "Stop_C"}
    BY DEF Still
  <2>2. dpin \in Bit
    BY DEF DriverInv, DriverTypeOK, Device!DeviceTypeOK, Device!Wire, Bit
  <2>3. dphase # "free" => dbits = BitsThrough
    BY DEF InStep
  <2>4. CASE p_state = "Start_C"
    <3>1. dpin = 1 \/ SDA(dsda) = 0
      BY <2>4 DEF Drives, SDA
    <3>2. dpin = 1
      BY <2>2, <3>1 DEF Bit
    <3>3. dphase \in {"free", "data"}
      BY <2>4, <3>2, StartPhase
    <3>4. BitsThrough = 1
      BY <2>4, <3>2 DEF BitsThrough
    <3> QED BY <2>3, <3>3, <3>4 DEF Device!Receiving
  <2>5. CASE p_state = "Stop_C"
    <3>1. dphase \in {"free", "data"}
      BY <2>5, StopPhase
    <3>2. BitsThrough = 1
      BY <2>5 DEF BitsThrough
    <3> QED BY <2>3, <3>1, <3>2 DEF Device!Receiving
  <2> QED BY <2>1, <2>4, <2>5
<1> QED BY <1>1, DriverInvariant, BusInvariant, PTL

\* Under a high SCL, SDA moves only where the core makes START or STOP: no bit
\* of the core or of the device is taken for one of them.
THEOREM SdaHeld ==
  ASSUME NotEmpty, Slowed
  PROVE  DriverSpec => SdaStable
<1>1. ASSUME DriverInv, BusInv, [DriverNext]_driverVars
      PROVE  [scl_out = 1 /\ scl_out' = 1 /\ SDA(dsda)' # SDA(dsda)
                => p_state \in {"Start_C", "Stop_C"}]_driverVars
  <2>1. CASE DriverNext
    <3>1. PICK access : BusClock(access)
      BY <1>1, <2>1, BusOfStep
    <3> QED BY <1>1, <3>1, Stable
  <2>2. CASE UNCHANGED driverVars
    BY <2>2
  <2> QED BY <1>1, <2>1, <2>2
<1> QED BY <1>1, DriverInvariant, BusInvariant, PTL DEF DriverSpec, SdaStable

\* A call that returns success has sent its STOP: the device expects nothing,
\* and both wires are high.
THEOREM BusFreed ==
  ASSUME NotEmpty, Slowed
  PROVE  DriverSpec => []FreeAfterSuccess
<1>1. ASSUME DriverInv, BusInv PROVE FreeAfterSuccess
  <2> SUFFICES ASSUME stage = "ready", result = "I2C_SUCCESS"
               PROVE  dphase = "free" /\ SCL = 1 /\ SDA(dsda) = 1
    BY DEF FreeAfterSuccess
  <2> USE <1>1 DEF BusInv
  <2>1. dphase = "free" /\ dsda = 1
    BY DEF Phases, InStep
  <2>2. call = NoCall /\ p_state \in {"Reset", "Idle"}
    BY DEF DriverInv, Calling, Polling
  <2>3. NoCall \notin Transfers
    BY DEF NoCall, Transfers
  <2>4. SCL = 1
    BY <2>2, <2>3 DEF Clocked
  <2>5. sda_out = 1
    BY <2>2, <2>4 DEF Drives, Resting
  <2> QED BY <2>1, <2>4, <2>5 DEF SDA
<1> QED BY <1>1, DriverInvariant, BusInvariant, PTL


----------------------------------------------------------------------------
(* The driver implements the service: what it adds to the wires. *)

\* The register that is n after the one the call begins at.
Reg(n) == Service!Register(call.index, n)

\* The device has taken the byte that is being sent.
Acked == \/ Answered /\ dphase # "free"
         \/ After /\ ackbit = 0

\* The transfers of the call that the device has got through, and the bytes of
\* it that the program has fetched.
Through == IF stage = "return" \/ (Now.kind = "send" /\ Acked) THEN step ELSE step - 1
Fetched == IF step <= 3 THEN 0 ELSE IF stage = "return" THEN step - 3 ELSE step - 4

\* What the service counts is what is through.
Counted ==
  call \in Transfers =>
    /\ stage = "return" => step = Len(Steps(call))
    /\ call.op = "write" => got = << >> /\ stored = IF Through > 2 THEN Through - 2 ELSE 0
    /\ call.op = "read" => stored = 0 /\ Len(got) = Fetched

\* A device that has taken a byte is the one that was called.
Present == call \in Transfers /\ Through > 0 => Device!Here(call.device)

\* The device points to the register whose turn it is.
Pointed ==
  call \in Transfers /\ Through > 1 /\ stage # "return" =>
    dptr = Reg(IF call.op = "write" THEN Through - 2
               ELSE IF step <= 3 THEN 0
               ELSE IF After /\ Now.control.ack = 0 THEN step - 3
               ELSE step - 4)

\* The bits the core has of the byte it reads.
Sampled == IF p_state \in {"Rd_D", "Rd_E", "Rd_F"} THEN ctr + 1 ELSE ctr

\* It reads the register pointed to, and the program gets what the core has read.
Received ==
  /\ p_state \in {"Rd_A", "Rd_B", "Rd_C", "Rd_D", "Rd_E", "Rd_F"} =>
       \A i \in 1..Sampled : dout[i] = regs[dptr][i]
  /\ call \in Transfers /\ call.op = "read" /\ step > 3
       /\ (p_state \in {"WrAck_A", "WrAck_B"} \/ After) => dout = regs[Reg(step - 4)]
  /\ p_state # "Rd_D" => data_out = dout
  /\ held /\ stage = "fetch" => readdata[2] = dout

ServiceInv ==
  /\ Counted
  /\ Present
  /\ Pointed
  /\ Received

----------------------------------------------------------------------------
(* The registers one after the other. *)

Earlier == {ss \in Nat \X Nat : ss[1] < ss[2]}

LEMMA EarlierWellFounded == IsWellFoundedOn(Earlier, Nat)
  BY NatLessThanWellFounded DEF OpToRel, Earlier

\* A set of numbers that has what follows each of its members has them all.
LEMMA AllNumbers ==
  ASSUME NEW S, S \subseteq Nat, 0 \in S, \A n \in S : n + 1 \in S
  PROVE  S = Nat
<1> DEFINE Rest == Nat \ S
<1> SUFFICES ASSUME Rest # {} PROVE FALSE
  OBVIOUS
<1>1. PICK n \in Rest : \A m \in Rest : ~ (<<m, n>> \in Earlier)
  BY EarlierWellFounded, WFMin
<1>2. n \in Nat \ {0} /\ n - 1 \in Nat /\ n - 1 < n
  OBVIOUS
<1>3. n - 1 \in S
  BY <1>1, <1>2 DEF Earlier
<1>4. (n - 1) + 1 \in S
  BY <1>3
<1> QED BY <1>2, <1>4

\* A table of the first n registers.
Table(index, n) ==
  {f \in [0..n -> Byte] :
     /\ f[0] = index
     /\ \A k \in 1..n : f[k] = Device!Successor(f[k - 1])}

LEMMA TableExists ==
  ASSUME NEW index \in Byte
  PROVE  \A n \in Nat : Table(index, n) # {}
<1> DEFINE S == {n \in Nat : Table(index, n) # {}}
<1>1. 0 \in S
  <2> DEFINE f == [k \in 0..0 |-> index]
  <2>1. f \in Table(index, 0)
    BY DEF Table
  <2> QED BY <2>1
<1>2. ASSUME NEW n \in S PROVE n + 1 \in S
  <2>1. PICK f : f \in Table(index, n)
    BY <1>2
  <2>2. f \in [0..n -> Byte] /\ f[0] = index /\ n \in Nat
        /\ \A k \in 1..n : f[k] = Device!Successor(f[k - 1])
    BY <2>1 DEF Table
  <2> DEFINE last == Device!Successor(f[n])
             g == [k \in 0..(n + 1) |-> IF k = n + 1 THEN last ELSE f[k]]
  <2>3. last \in Byte
    BY <2>2, SuccessorTyped
  <2> HIDE DEF last
  <2>4. g \in [0..(n + 1) -> Byte] /\ g[0] = index
    BY <2>2, <2>3
  <2>5. ASSUME NEW k \in 1..(n + 1) PROVE g[k] = Device!Successor(g[k - 1])
    <3>1. g[k - 1] = f[k - 1] /\ k - 1 \in 0..n
      BY <2>2
    <3>2. CASE k = n + 1
      BY <2>2, <3>1, <3>2 DEF last
    <3>3. CASE k # n + 1
      <4>1. k \in 1..n /\ g[k] = f[k]
        BY <2>2, <3>3
      <4> QED BY <2>2, <3>1, <4>1
    <3> QED BY <3>2, <3>3
  <2>6. g \in Table(index, n + 1)
    BY <2>4, <2>5 DEF Table
  <2> QED BY <2>2, <2>6
<1>3. S = Nat
  <2> HIDE DEF S
  <2>1. S \subseteq Nat
    BY DEF S
  <2> QED BY <1>1, <1>2, <2>1, AllNumbers
<1> QED BY <1>3

LEMMA TablesAgree ==
  ASSUME NEW index \in Byte, NEW m \in Nat, NEW n \in Nat, m <= n,
         NEW f \in Table(index, m), NEW g \in Table(index, n)
  PROVE  \A k \in 0..m : f[k] = g[k]
<1> DEFINE S == {k \in Nat : k <= m => f[k] = g[k]}
<1>1. 0 \in S
  BY DEF Table
<1>2. ASSUME NEW k \in S PROVE k + 1 \in S
  <2> SUFFICES ASSUME k + 1 <= m PROVE f[k + 1] = g[k + 1]
    OBVIOUS
  <2>1. f[k] = g[k] /\ k + 1 \in 1..m /\ k + 1 \in 1..n /\ (k + 1) - 1 = k
    BY <1>2
  <2>2. f[k + 1] = Device!Successor(f[(k + 1) - 1])
    BY <2>1 DEF Table
  <2>3. g[k + 1] = Device!Successor(g[(k + 1) - 1])
    BY <2>1 DEF Table
  <2> QED BY <2>1, <2>2, <2>3
<1>3. S = Nat
  <2> HIDE DEF S
  <2>1. S \subseteq Nat
    BY DEF S
  <2> QED BY <1>1, <1>2, <2>1, AllNumbers
<1> QED BY <1>3

LEMMA RegisterOfTable ==
  ASSUME NEW index \in Byte, NEW n \in Nat
  PROVE  \E f \in Table(index, n) : Service!Register(index, n) = f[n]
<1> DEFINE Is(f) == f = [k \in 0..n |-> IF k = 0 THEN index ELSE Device!Successor(f[k - 1])]
           At == CHOOSE f : Is(f)
<1>1. Service!Register(index, n) = At[n]
  BY Zenon DEF Service!Register
<1>2. PICK f : f \in Table(index, n)
  BY TableExists
<1>3. Is(f)
  BY <1>2 DEF Table
<1>4. Is(At)
  <2> HIDE DEF Is
  <2> QED BY <1>3
<1>5. At \in Table(index, n)
  <2> HIDE DEF At
  <2>1. DOMAIN At = 0..n /\ At[0] = index
        /\ \A k \in 1..n : At[k] = Device!Successor(At[k - 1])
    BY <1>4
  <2>2. \A k \in 0..n : At[k] \in Byte
    <3> DEFINE S == {k \in Nat : k <= n => At[k] \in Byte}
    <3>1. 0 \in S
      BY <2>1
    <3>2. ASSUME NEW k \in S PROVE k + 1 \in S
      <4> SUFFICES ASSUME k + 1 <= n PROVE At[k + 1] \in Byte
        OBVIOUS
      <4>1. At[k] \in Byte /\ k + 1 \in 1..n /\ (k + 1) - 1 = k
        BY <3>2
      <4>2. At[k + 1] = Device!Successor(At[k])
        BY <2>1, <4>1
      <4> QED BY <4>1, <4>2, SuccessorTyped
    <3>3. S = Nat
      <4> HIDE DEF S
      <4>1. S \subseteq Nat
        BY DEF S
      <4> QED BY <3>1, <3>2, <4>1, AllNumbers
    <3> QED BY <3>3
  <2>3. At = [k \in 0..n |-> At[k]]
    BY <1>4
  <2> QED BY <2>1, <2>2, <2>3 DEF Table
<1> QED BY <1>1, <1>5

\* The register n after an index, step by step.
LEMMA RegisterNext ==
  ASSUME NEW index \in Byte
  PROVE  /\ Service!Register(index, 0) = index
         /\ \A n \in Nat : /\ Service!Register(index, n) \in Byte
                           /\ Service!Register(index, n + 1) =
                                Device!Successor(Service!Register(index, n))
<1>1. Service!Register(index, 0) = index
  BY RegisterOfTable DEF Table
<1>2. ASSUME NEW n \in Nat
      PROVE  /\ Service!Register(index, n) \in Byte
             /\ Service!Register(index, n + 1) = Device!Successor(Service!Register(index, n))
  <2>1. PICK f \in Table(index, n) : Service!Register(index, n) = f[n]
    BY RegisterOfTable
  <2>2. PICK g \in Table(index, n + 1) : Service!Register(index, n + 1) = g[n + 1]
    BY RegisterOfTable
  <2>3. f[n] = g[n]
    BY TablesAgree
  <2>4. f[n] \in Byte
    BY DEF Table
  <2>5. g[n + 1] = Device!Successor(g[(n + 1) - 1])
    BY DEF Table
  <2> QED BY <2>1, <2>2, <2>3, <2>4, <2>5
<1> QED BY <1>1, <1>2

----------------------------------------------------------------------------
(* What the device takes. *)

\* What is sent, and what the caller is told when it is not taken.
SentAs(c, k) ==
  LET s == Steps(c)[k]
  IN  /\ k = 1 => s.data = ForWriting(c.device) /\ s.error = "I2C_ENODEV"
      /\ k = 2 => s.data = c.index /\ s.error = "I2C_EBADACK"
      /\ k = 3 /\ c.op = "read" => s.error = "I2C_ENODEV"
      /\ k > 2 /\ c.op = "write" => s.data = c.values[k - 2] /\ s.error = "I2C_EBADACK"

LEMMA StepsSent ==
  ASSUME NEW c \in Transfers
  PROVE  /\ c.size \in Nat /\ c.device \in Byte /\ c.index \in Byte /\ c \in Calls
         /\ c.op = "write" => c.values \in [1..c.size -> Byte]
         /\ Len(Steps(c)) = c.size + IF c.op = "write" THEN 2 ELSE 3
         /\ \A k \in 1..Len(Steps(c)) : SentAs(c, k)
<1>1. IsCall(c) /\ c.op \in {"read", "write"} /\ c \in Calls
  BY CallsAssumption DEF Transfers
<1>2. c.device \in Byte /\ c.index \in Byte
  BY <1>1 DEF IsCall
<1>3. CASE c.op = "write"
  <2>1. /\ c.size \in Nat /\ c.values \in [1..c.size -> Byte]
        /\ Len(Steps(c)) = c.size + 2
        /\ Steps(c)[1] = Send(ForWriting(c.device), TRUE, FALSE, "I2C_ENODEV")
        /\ Steps(c)[2] = Send(c.index, FALSE, FALSE, "I2C_EBADACK")
        /\ \A i \in 1..c.size :
             \/ Steps(c)[2 + i] = Send(c.values[i], FALSE, FALSE, "I2C_EBADACK")
             \/ Steps(c)[2 + i] = Send(c.values[i], FALSE, TRUE, "I2C_EBADACK")
    BY <1>1, <1>3, WriteStepAt
  <2>2. ASSUME NEW k \in 1..Len(Steps(c)) PROVE SentAs(c, k)
    <3>1. CASE k = 1
      BY <1>3, <2>1, <3>1 DEF SentAs, Send
    <3>2. CASE k = 2
      BY <1>3, <2>1, <3>2 DEF SentAs, Send
    <3>3. CASE k > 2
      <4>1. k - 2 \in 1..c.size /\ 2 + (k - 2) = k
        BY <2>1, <3>3
      <4>2. \/ Steps(c)[k] = Send(c.values[k - 2], FALSE, FALSE, "I2C_EBADACK")
            \/ Steps(c)[k] = Send(c.values[k - 2], FALSE, TRUE, "I2C_EBADACK")
        BY <2>1, <4>1
      <4>3. Steps(c)[k].data = c.values[k - 2] /\ Steps(c)[k].error = "I2C_EBADACK"
        BY <4>2 DEF Send
      <4> QED BY <1>3, <3>3, <4>3 DEF SentAs
    <3> QED BY <2>1, <3>1, <3>2, <3>3
  <2> QED BY <1>1, <1>2, <1>3, <2>1, <2>2
<1>4. CASE c.op = "read"
  <2>1. /\ c.size \in Nat
        /\ Len(Steps(c)) = c.size + 3
        /\ Steps(c)[1] = Send(ForWriting(c.device), TRUE, FALSE, "I2C_ENODEV")
        /\ Steps(c)[2] = Send(c.index, FALSE, FALSE, "I2C_EBADACK")
        /\ Steps(c)[3] = Send(ForReading(c.device), TRUE, FALSE, "I2C_ENODEV")
    BY <1>1, <1>4, ReadStepAt
  <2>2. \A k \in 1..Len(Steps(c)) : SentAs(c, k)
    BY <1>4, <2>1 DEF SentAs, Send
  <2> QED BY <1>1, <1>2, <1>4, <2>1, <2>2
<1> QED BY <1>1, <1>3, <1>4

\* On SCL's fall after the last bit, the device takes the byte that was sent.
Takes ==
  /\ p_state = "Wr_D" /\ ~Taken /\ ctr = Bits - 1
  /\ Device!Receiving /\ dbits = Bits /\ dbyte = data_in
  /\ Device!Take /\ Answered' /\ dphase' = Settled(step)

\* The master acknowledges a byte of the device.
Asks == p_state = "WrAck_B" /\ dscl = 0 /\ SCL = 1 /\ dphase = "send" /\ cr.ack = 0

LEMMA TakesOrNot ==
  ASSUME DriverInv, BusInv, NotEmpty, NEW access, BusClock(access)
  PROVE  \/ Takes
         \/ /\ regs' = regs /\ ~Stored
            /\ dptr' = IF Asks THEN Device!Successor(dptr) ELSE dptr
            /\ p_state = "Wr_D" /\ ~Taken /\ Answered' => dphase' = "free"
<1> USE DEF BusInv
<1>1. /\ CoreTypeOK /\ CoreClock(sclk, cr, data_in, cmd_done_ack, scl_in, sda_in)
      /\ dscl' = SCL /\ SCL \in {0, 1} /\ dscl \in {0, 1} /\ dsda \in {0, 1}
      /\ ctr \in 0..(Bits - 1) /\ Bits \in Nat \ {0} /\ dbits \in 0..(Bits + 1)
      /\ dbyte \in Byte /\ data_in \in Byte /\ cr.ack \in {0, 1}
  BY BusParts, BitsAssumption DEF CoreTypeOK, InterfaceTypeOK, Control, Bit
<1>2. dphase # "free" => dbits = BitsThrough
  BY DEF InStep
<1>3. p_state = "Wr_D" /\ ~Taken /\ Answered' => ctr = Bits - 1 /\ dscl = 1 /\ SCL = 0
  <2> SUFFICES ASSUME p_state = "Wr_D", ~Taken, Answered'
               PROVE  ctr = Bits - 1 /\ dscl = 1 /\ SCL = 0
    OBVIOUS
  <2>1. ctr = Bits - 1
    BY <1>1, CoreGoes DEF Answered, Taken, Paced, Follows
  <2>2. dscl = 1
    BY <1>1, <2>1 DEF Taken
  <2>3. p_state' = "Wr_D" \/ sclk
    BY <1>1, CoreGoes DEF Paced, Follows
  <2>4. p_state' = "Wr_D" => dscl' = 0
    BY DEF Answered, Taken
  <2> QED BY <1>1, <2>1, <2>2, <2>3, <2>4 DEF Levels, Falling
<1>4. CASE /\ dscl = SCL /\ (SCL = 0 \/ dpin = SDA(dsda))
           /\ UNCHANGED <<dphase, dbits, dbyte, dptr, regs, dsda>>
  <2>1. ~Stored /\ ~Asks
    BY <1>1, <1>4 DEF Stored, Asks
  <2> QED BY <1>1, <1>3, <1>4, <2>1
<1>5. CASE /\ p_state \in {"Start_C", "Stop_C"} /\ SCL = 1
           /\ Device!OnStart \/ Device!OnStop
  BY <1>1, <1>5 DEF Device!OnStart, Device!OnStop, Stored, Asks
<1>6. CASE p_state \in Rising /\ dscl = 0 /\ SCL = 1 /\ Device!OnRise(SDA(dsda))
  <2>1. dphase = "send" /\ dbits = Bits => p_state = "WrAck_B"
    BY <1>1, <1>2, <1>6 DEF BitsThrough, Rising
  <2>2. p_state = "WrAck_B" /\ dphase = "send" => dbits = Bits /\ SDA(dsda) = cr.ack
    <3> SUFFICES ASSUME p_state = "WrAck_B", dphase = "send"
                 PROVE  dbits = Bits /\ SDA(dsda) = cr.ack
      OBVIOUS
    <3>1. dbits = Bits /\ dsda = 1
      BY <1>1, <1>6 DEF InStep, BitsThrough, Acknowledging, Taken, BitSent
    <3> QED BY <1>1, <3>1 DEF Drives, SDA
  <2>3. ~Stored
    BY <1>1, <1>6 DEF Stored, Device!OnRise, Device!Receiving
  <2>4. regs' = regs /\ dptr' = IF Asks THEN Device!Successor(dptr) ELSE dptr
    BY <1>1, <1>6, <2>1, <2>2 DEF Device!OnRise, Asks
  <2> QED BY <1>6, <2>3, <2>4 DEF Rising
<1>7. CASE p_state \in Falling /\ dscl = 1 /\ SCL = 0 /\ Device!PutBit
  <2>1. p_state = "Wr_D" /\ ~Taken /\ Answered' => dphase' = "free"
    <3> SUFFICES ASSUME p_state = "Wr_D", ~Taken, Answered' PROVE FALSE
      OBVIOUS
    <3>1. Device!Receiving /\ dbits = Bits
      BY <1>1, <1>2, <1>3, WritePhase DEF BitsThrough, Device!Receiving
    <3> QED BY <1>7, <3>1 DEF Device!PutBit
  <2> QED BY <1>1, <1>7, <2>1 DEF Device!PutBit, Stored, Asks, Device!Receiving
<1>8. CASE p_state \in Falling /\ dscl = 1 /\ SCL = 0 /\ Device!Refuse
  BY <1>1, <1>8 DEF Device!Refuse, Stored, Asks
<1>9. CASE p_state \in Falling /\ dscl = 1 /\ SCL = 0 /\ Device!Take
  <2>1. Device!Receiving /\ dbits = Bits /\ dbits = BitsThrough
    BY <1>2, <1>9 DEF Device!Take, Device!Receiving
  <2>2. p_state \in {"Wr_D", "Rd_E"} /\ ~Taken /\ ctr = Bits - 1
    BY <1>1, <1>9, <2>1 DEF BitsThrough, Taken, Falling
  <2>3. p_state = "Wr_D"
    BY <2>1, <2>2, ReadPhase DEF Device!Receiving
  <2>4. dbyte = data_in
    <3>1. \A i \in 1..Bits : dbyte[i] = data_in[i]
      BY <2>1, <2>2, <2>3 DEF InStep
    <3> QED BY <1>1, <3>1 DEF Byte
  <2>5. Answered'
    <3>1. p_state' \in {"Wr_D", "RdAck_A"} /\ ctr' = ctr
      BY <1>1, <2>2, <2>3, CoreGoes DEF Paced
    <3> QED BY <1>1, <1>9, <2>2, <3>1 DEF Answered, Taken
  <2>6. dphase' = Settled(step)
    BY <1>9, <2>1, <2>2, <2>3, TakeSettles
  <2> QED BY <1>9, <2>1, <2>2, <2>3, <2>4, <2>5, <2>6 DEF Takes
<1> QED BY <1>4, <1>5, <1>6, <1>7, <1>8, <1>9, DeviceCases

LEMMA AckedWhenTaken ==
  ASSUME DriverInv, BusInv, NotEmpty, Takes
  PROVE  /\ ~Acked /\ Acked'
         /\ call \in Transfers /\ Now.kind = "send" /\ data_in = Now.data
         /\ step = 1 => dphase = "address"
         /\ step = 2 => dphase = "index"
         /\ step > 2 => dphase = IF call.op = "read" THEN "address" ELSE "data"
<1>1. /\ call \in Transfers /\ cr.write /\ Now.kind = "send" /\ data_in = Now.data
      /\ step \in Nat \ {0} /\ stage = "await"
  <2>1. cr.write
    BY WritePhase DEF Takes
  <2>2. p_state \in Transferring
    BY DEF Takes, Transferring, Paced, Follows
  <2> QED BY <2>1, <2>2, AtWork
<1>2. ~Acked
  BY <1>1 DEF Takes, Acked, Answered, After, Over, Finished
<1>3. Settled(step) # "free"
  BY <1>1 DEF Settled
<1>4. Acked'
  BY <1>3 DEF Takes, Acked
<1> QED BY <1>1, <1>2, <1>4, WritePhase DEF Takes

LEMMA AckedUnlessTaken ==
  ASSUME DriverInv, BusInv, NotEmpty, NEW access, BusClock(access), ProgramClock(access),
         stage = "await", p_state # "Idle" \/ TIP, Now.kind = "send",
         p_state = "Wr_D" /\ ~Taken /\ Answered' => dphase' = "free"
  PROVE  Acked' <=> Acked
<1> USE DEF BusInv
<1>1. /\ CoreTypeOK /\ CoreClock(sclk, cr, data_in, cmd_done_ack, scl_in, sda_in)
      /\ dscl' = SCL /\ SCL \in {0, 1} /\ dscl \in {0, 1} /\ dpin \in {0, 1} /\ dsda \in {0, 1}
      /\ ctr \in 0..(Bits - 1) /\ Bits \in Nat \ {0} /\ dbits \in 0..(Bits + 1)
  BY BusParts, BitsAssumption DEF CoreTypeOK, Bit
<1>2. /\ p_state \in {"Idle"} \cup Transferring \cup Finished
      /\ p_state \notin Finished => cr = Now.control /\ TIP
      /\ p_state' = "Idle" => p_state = "DoneAck" /\ ~TIP'
      /\ stage' = "await" /\ TransferAt(call, step) /\ Now = Steps(call)[step]
  BY Working DEF Goes
<1>3. p_state \notin Finished => cr.write /\ ~cr.read
  BY <1>2 DEF TransferAt
<1>4. p_state \in {"Idle", "Start_A", "Start_B", "Start_C", "Start_D",
                   "Wr_A", "Wr_B", "Wr_C", "Wr_D", "Wr_E",
                   "RdAck_A", "RdAck_B", "RdAck_C", "RdAck_D", "RdAck_E",
                   "Stop_A", "Stop_B", "Stop_C", "Done", "DoneAck"}
  BY <1>2, <1>3 DEF Commanded, Transferring, Paced, Follows, Finished
<1>5. CASE p_state \in {"Idle", "Start_A", "Start_B", "Start_C", "Start_D",
                        "Wr_A", "Wr_B", "Wr_C", "Wr_E"}
  <2>1. /\ p_state' \in {"Start_A", "Start_B", "Start_C", "Start_D", "Wr_A", "Wr_B", "Wr_C",
                         "Wr_D", "Wr_E"}
        /\ p_state' = "Wr_D" => p_state = "Wr_C"
    BY <1>1, <1>2, <1>3, <1>5, CoreGoes DEF Paced, Follows, FirstQuarter, Finished, TIP
  <2>2. ~Taken'
    BY <1>1, <2>1 DEF Levels, High, Taken
  <2>3. ~Acked'
    BY <1>2, <2>1, <2>2 DEF Acked, Answered, After, Over, Finished
  <2>4. ~Acked
    BY <1>2, <1>5 DEF Acked, Answered, After, Over, Finished, Taken
  <2> QED BY <2>3, <2>4
<1>6. CASE p_state = "Wr_D" /\ ~Taken
  <2>1. p_state' \in {"Wr_D", "Wr_E", "RdAck_A"}
    BY <1>1, <1>6, CoreGoes DEF Paced, Follows
  <2>2. ~After' /\ ~After /\ ~Answered
    BY <1>2, <1>6, <2>1 DEF Answered, After, Over, Finished
  <2> QED BY <1>6, <2>2 DEF Acked
<1>7. CASE Taken \/ p_state \in {"RdAck_A", "RdAck_B"}
  <2>1. p_state \in {"Wr_D", "RdAck_A", "RdAck_B"} /\ Answered
    BY <1>7 DEF Taken, Answered
  <2>2. /\ p_state' \in {"Wr_D", "RdAck_A", "RdAck_B", "RdAck_C"}
        /\ p_state' = "Wr_D" => p_state = "Wr_D" /\ ctr' = ctr
    BY <1>1, <1>7, <2>1, CoreGoes DEF Taken, Paced, Follows
  <2>3. Answered'
    BY <1>1, <1>7, <2>2 DEF Answered, Taken, Levels, Falling
  <2>4. dphase # "free" => dbits = Bits + 1
    BY <1>7 DEF InStep, BitsThrough, Taken
  <2>5. p_state \notin Falling \/ dscl = 0
    BY <1>7 DEF Taken, Falling
  <2>6. dphase' = dphase
    BY <1>1, <2>1, <2>4, <2>5, DeviceCases DEF Device!OnRise
  <2>7. ~After /\ ~After'
    BY <1>2, <2>1, <2>2 DEF After, Over, Finished
  <2> QED BY <2>1, <2>3, <2>6, <2>7 DEF Acked
<1>8. CASE p_state = "RdAck_C"
  <2>1. p_state' = "RdAck_D" /\ ackbit' = sda_in
    BY <1>1, <1>8, CoreGoes
  <2>2. sda_in = dsda
    <3>1. dscl = 1 /\ SCL = 1 /\ sda_in = dpin
      BY <1>8 DEF Levels, High
    <3>2. dpin = SDA(dsda)
      BY <1>8, <3>1 DEF Still
    <3> QED BY <1>8, <3>1, <3>2 DEF Drives, SDA
  <2>3. dsda = IF dphase = "free" THEN 1 ELSE 0
    BY <1>8 DEF InStep, Acknowledging
  <2>4. /\ Acked <=> dphase # "free"
        /\ Acked' <=> ackbit' = 0
    BY <1>2, <1>8, <2>1 DEF Acked, Answered, After, Over, Finished, Taken
  <2> QED BY <2>1, <2>2, <2>3, <2>4
<1>9. CASE p_state \in {"RdAck_D", "RdAck_E", "Stop_A", "Stop_B", "Stop_C", "Done", "DoneAck"}
  <2>1. /\ p_state' \in {"RdAck_D", "RdAck_E", "Stop_A", "Stop_B", "Stop_C", "Done", "DoneAck",
                         "Idle"}
        /\ ackbit' = ackbit
    BY <1>1, <1>9, CoreGoes DEF Paced, Follows
  <2>2. After /\ After'
    BY <1>2, <1>9, <2>1 DEF After, Over, Finished
  <2>3. ~Answered /\ ~Answered'
    BY <1>9, <2>1 DEF Answered, Taken
  <2> QED BY <2>1, <2>2, <2>3 DEF Acked
<1> QED BY <1>4, <1>5, <1>6, <1>7, <1>8, <1>9

----------------------------------------------------------------------------
(* The clocks on which the program waits for the core. *)

\* What the program has changes only as it fetches a byte, or begins a call.
LEMMA WorkingFor ==
  ASSUME DriverInv, BusInv, NotEmpty, NEW access, BusClock(access), ProgramClock(access),
         stage = "await", p_state # "Idle" \/ TIP
  PROVE  /\ call' = call /\ step' = step /\ stage' = "await" /\ got' = got /\ result' = result
         /\ Now' = Now /\ step \in Nat \ {0} /\ Fetched' = Fetched
         /\ call \in Transfers /\ call.op \in {"read", "write"}
         /\ step <= call.size + IF call.op = "write" THEN 2 ELSE 3
         /\ Now.kind = IF call.op = "read" /\ step > 3 THEN "receive" ELSE "send"
         /\ SentAs(call, step)
         /\ \A n : Reg(n)' = Reg(n)
<1>1. /\ call' = call /\ step' = step /\ stage' = "await" /\ result' = result /\ Now' = Now
      /\ call \in Transfers /\ call.op \in {"read", "write"}
      /\ step \in 1..Len(Steps(call)) /\ Len(Steps(call)) \in Nat
      /\ TransferAt(call, step) /\ Now = Steps(call)[step]
  BY Working DEF Goes
<1>2. got' = got
  BY DEF ProgramClock, Driving, PutRegister, I2C_WR_DATA, I2C_WR_CONTROL, GiveUp, ReadFirst,
         WaitBefore, WaitAfter, CheckAcknowledge, I2C_RD_DATA, ReadSecond, Succeed, Compute,
         programVars, Begin
<1>3. Fetched' = Fetched
  BY <1>1 DEF Fetched
<1>4. \A n : Reg(n)' = Reg(n)
  BY <1>1 DEF Reg
<1>5. /\ SentAs(call, step) /\ call.size \in Nat
      /\ Len(Steps(call)) = call.size + IF call.op = "write" THEN 2 ELSE 3
  BY <1>1, StepsSent
<1> QED BY <1>1, <1>2, <1>3, <1>4, <1>5 DEF TransferAt

LEMMA RegAt ==
  ASSUME call \in Transfers
  PROVE  /\ Reg(0) = call.index
         /\ \A n \in Nat : Reg(n) \in Byte /\ Reg(n + 1) = Device!Successor(Reg(n))
<1>1. call.index \in Byte
  BY StepsSent
<1> QED BY <1>1, RegisterNext DEF Reg

LEMMA ThroughWhenTaken ==
  ASSUME DriverInv, BusInv, NotEmpty, NEW access, BusClock(access), ProgramClock(access),
         stage = "await", p_state # "Idle" \/ TIP, Takes
  PROVE  Through = step - 1 /\ Through' = step
<1>1. stage' = "await" /\ step' = step /\ Now' = Now
  BY WorkingFor
<1>2. ~Acked /\ Acked' /\ Now.kind = "send"
  BY AckedWhenTaken
<1> QED BY <1>1, <1>2 DEF Through

\* The device takes the byte: it is addressed, pointed to a register, or stores.
LEMMA TakesStep ==
  ASSUME DriverInv, BusInv, ServiceInv, NotEmpty, NEW access, BusClock(access),
         ProgramClock(access), Remember, stage = "await", p_state # "Idle" \/ TIP, Takes
  PROVE  Counted' /\ Present' /\ Pointed' /\ (Service!WriteOne \/ UNCHANGED Service!serviceVars)
<1> USE DEF ServiceInv
<1>1. /\ call' = call /\ step' = step /\ stage' = "await" /\ got' = got /\ result' = result
      /\ step \in Nat \ {0} /\ Fetched' = Fetched
      /\ call \in Transfers /\ call.op \in {"read", "write"}
      /\ step <= call.size + IF call.op = "write" THEN 2 ELSE 3
      /\ Now.kind = IF call.op = "read" /\ step > 3 THEN "receive" ELSE "send"
      /\ SentAs(call, step) /\ Now = Steps(call)[step]
      /\ \A n : Reg(n)' = Reg(n)
  BY WorkingFor DEF Now
<1>2. Through = step - 1 /\ Through' = step
  BY ThroughWhenTaken
<1>3. /\ Now.kind = "send" /\ dbyte = Now.data
      /\ step = 1 => dphase = "address"
      /\ step = 2 => dphase = "index"
      /\ step > 2 => dphase = IF call.op = "read" THEN "address" ELSE "data"
  BY AckedWhenTaken DEF Takes
<1>4. /\ dphase = "address" => Device!Here(dbyte)
      /\ dptr' = IF dphase = "index" THEN dbyte
                 ELSE IF dphase = "data" THEN Device!Successor(dptr) ELSE dptr
      /\ regs' = IF dphase = "data" THEN [regs EXCEPT ![dptr] = dbyte] ELSE regs
      /\ dbits = Bits /\ dbits' = Bits + 1
  BY DEF Takes, Device!Take
<1>5. call.size \in Nat /\ call.device \in Byte /\ call.index \in Byte
  BY <1>1, StepsSent
<1>6. stored \in Nat /\ Len(got) \in Nat
  BY DEF DriverInv, DriverTypeOK
<1>7. stored' = IF dphase = "data" THEN stored + 1 ELSE stored
  BY <1>4 DEF Remember, Stored
<1>8. dphase = "data" <=> step > 2 /\ call.op = "write"
  BY <1>1, <1>3
<1>9. Counted'
  <2>1. call.op = "write" =>
          got = << >> /\ stored = IF step - 1 > 2 THEN (step - 1) - 2 ELSE 0
    BY <1>1, <1>2 DEF Counted
  <2>2. call.op = "read" => stored = 0 /\ Len(got) = Fetched
    BY <1>1 DEF Counted
  <2>3. call.op = "write" => stored' = IF step > 2 THEN step - 2 ELSE 0
    BY <1>1, <1>7, <1>8, <2>1
  <2>4. call.op = "read" => stored' = 0
    BY <1>7, <1>8, <2>2
  <2> QED BY <1>1, <1>2, <2>1, <2>2, <2>3, <2>4 DEF Counted
<1>10. Device!Here(call.device)
  <2>1. CASE step = 1
    <3>1. dbyte = ForWriting(call.device)
      BY <1>1, <1>3, <2>1 DEF SentAs
    <3>2. \A i \in 1..(Bits - 1) : ForWriting(call.device)[i] = call.device[i]
      BY <1>5, BitsAssumption DEF ForWriting, Byte
    <3> QED BY <1>3, <1>4, <2>1, <3>1, <3>2 DEF Device!Here
  <2>2. CASE step > 1
    BY <1>1, <1>2, <2>2 DEF Present
  <2> QED BY <1>1, <2>1, <2>2
<1>11. Present'
  BY <1>1, <1>10 DEF Present, Device!Here
<1>12. step > 2 => dptr = Reg(IF call.op = "write" THEN step - 3 ELSE 0)
  <2> SUFFICES ASSUME step > 2 PROVE dptr = Reg(IF call.op = "write" THEN step - 3 ELSE 0)
    OBVIOUS
  <2>1. call.op # "write" => step <= 3
    BY <1>1, <1>3
  <2>2. (step - 1) - 2 = step - 3 /\ Through > 1 /\ Through - 2 = step - 3
    BY <1>1, <1>2
  <2> QED BY <1>1, <2>1, <2>2 DEF Pointed
<1>13. step > 1 => dptr' = Reg(IF call.op = "write" THEN step - 2 ELSE 0)
  <2>1. CASE step = 2
    <3>1. dptr' = call.index
      BY <1>1, <1>3, <1>4, <2>1 DEF SentAs
    <3>2. Reg(0) = call.index
      BY <1>1, RegAt
    <3> QED BY <2>1, <3>1, <3>2
  <2>2. CASE step > 2 /\ call.op = "write"
    <3>1. step - 3 \in Nat /\ (step - 3) + 1 = step - 2
      BY <1>1, <2>2
    <3>2. dptr' = Device!Successor(Reg(step - 3))
      BY <1>3, <1>4, <1>12, <2>2
    <3> QED BY <1>1, <2>2, <3>1, <3>2, RegAt
  <2>3. CASE step > 2 /\ call.op = "read"
    BY <1>3, <1>4, <1>12, <2>3
  <2> QED BY <1>1, <2>1, <2>2, <2>3
<1>14. Pointed'
  <2>1. call.op # "write" => step <= 3
    BY <1>1, <1>3
  <2> QED BY <1>1, <1>2, <1>13, <2>1 DEF Pointed
<1>15. ASSUME step > 2, call.op = "write"
       PROVE  Service!WriteOne
  <2>1. Len(got) = 0 /\ stored = step - 3
    <3>1. got = << >> /\ stored = IF step - 1 > 2 THEN (step - 1) - 2 ELSE 0
      BY <1>1, <1>2, <1>15 DEF Counted
    <3> QED BY <1>1, <1>15, <3>1
  <2>2. stored + Len(got) = step - 3 /\ stored' + Len(got') = (stored + Len(got)) + 1
        /\ step - 3 < call.size
    BY <1>1, <1>5, <1>7, <1>8, <1>15, <2>1
  <2>3. regs' = [regs EXCEPT ![Service!Register(call.index, step - 3)] =
                               call.values[(step - 3) + 1]]
    <3>1. dbyte = call.values[step - 2] /\ (step - 3) + 1 = step - 2
      BY <1>1, <1>3, <1>15 DEF SentAs
    <3> QED BY <1>4, <1>8, <1>12, <1>15, <3>1 DEF Reg
  <2>4. /\ (IF call \in Transfers THEN call ELSE NoCall) = call
        /\ (IF call \in Transfers THEN call ELSE NoCall)' = call
    BY <1>1
  <2>5. stored + Len(got) < call.size
    BY <2>2
  <2> QED BY <1>1, <1>10, <1>15, <2>2, <2>3, <2>4, <2>5 DEF Service!WriteOne
<1>16. ASSUME ~(step > 2 /\ call.op = "write")
       PROVE  UNCHANGED Service!serviceVars
  <2>1. regs' = regs /\ stored' = stored
    BY <1>4, <1>7, <1>8, <1>16
  <2> QED BY <1>1, <2>1 DEF Service!serviceVars
<1> QED BY <1>9, <1>11, <1>14, <1>15, <1>16

\* What the device does otherwise leaves its registers alone.
Quiet ==
  /\ regs' = regs /\ ~Stored
  /\ dptr' = IF Asks THEN Device!Successor(dptr) ELSE dptr
  /\ p_state = "Wr_D" /\ ~Taken /\ Answered' => dphase' = "free"

LEMMA ThroughUnlessTaken ==
  ASSUME DriverInv, BusInv, NotEmpty, NEW access, BusClock(access), ProgramClock(access),
         stage = "await", p_state # "Idle" \/ TIP, Quiet
  PROVE  Through' = Through
<1>1. stage' = "await" /\ step' = step /\ Now' = Now
  BY WorkingFor
<1>2. Now.kind = "send" => (Acked' <=> Acked)
  BY AckedUnlessTaken DEF Quiet
<1> QED BY <1>1, <1>2 DEF Through

\* After a byte is read the master acknowledges it, which moves the device on.
LEMMA AfterReceived ==
  ASSUME DriverInv, BusInv, NotEmpty, NEW access, BusClock(access), ProgramClock(access),
         stage = "await", p_state # "Idle" \/ TIP, Now.kind = "receive"
  PROVE  /\ After' <=> After \/ (p_state = "WrAck_B" /\ dscl = 0 /\ SCL = 1)
         /\ p_state = "WrAck_B" /\ dscl = 0 => ~After /\ dphase = "send"
         /\ p_state \notin Finished => cr = Now.control
         /\ p_state \in {"Idle", "Start_A", "Start_B", "Start_C", "Start_D",
                         "Rd_A", "Rd_B", "Rd_C", "Rd_D", "Rd_E", "Rd_F",
                         "WrAck_A", "WrAck_B", "WrAck_C", "WrAck_D",
                         "Stop_A", "Stop_B", "Stop_C", "Done", "DoneAck"}
<1> USE DEF BusInv
<1>1. /\ CoreTypeOK /\ CoreClock(sclk, cr, data_in, cmd_done_ack, scl_in, sda_in)
      /\ dscl' = SCL /\ SCL \in {0, 1} /\ dscl \in {0, 1}
  BY BusParts DEF CoreTypeOK, Bit
<1>2. /\ p_state \in {"Idle"} \cup Transferring \cup Finished
      /\ p_state \notin Finished => cr = Now.control /\ TIP
      /\ p_state' = "Idle" => p_state = "DoneAck" /\ ~TIP'
      /\ stage' = "await" /\ TransferAt(call, step) /\ Now = Steps(call)[step]
  BY Working DEF Goes
<1>3. p_state \notin Finished => cr.read /\ ~cr.write
  BY <1>2 DEF TransferAt
<1>4. p_state \in {"Idle", "Start_A", "Start_B", "Start_C", "Start_D",
                   "Rd_A", "Rd_B", "Rd_C", "Rd_D", "Rd_E", "Rd_F",
                   "WrAck_A", "WrAck_B", "WrAck_C", "WrAck_D",
                   "Stop_A", "Stop_B", "Stop_C", "Done", "DoneAck"}
  BY <1>2, <1>3 DEF Commanded, Transferring, Paced, Follows, Finished
<1>5. p_state = "WrAck_B" /\ dscl = 0 => ~After /\ dphase = "send"
  BY <1>2, ReadPhase DEF After, Over, Finished
<1>6. CASE p_state \in {"Idle", "Start_A", "Start_B", "Start_C", "Start_D",
                        "Rd_A", "Rd_B", "Rd_C", "Rd_D", "Rd_E", "Rd_F"}
  <2>1. p_state' \in {"Start_A", "Start_B", "Start_C", "Start_D", "Rd_A", "Rd_B", "Rd_C",
                      "Rd_D", "Rd_E", "Rd_F", "WrAck_A"}
    BY <1>1, <1>2, <1>3, <1>6, CoreGoes DEF Paced, Follows, FirstQuarter, Finished, TIP
  <2> QED BY <1>2, <1>4, <1>6, <2>1 DEF After, Over, Finished
<1>7. CASE p_state = "WrAck_A"
  <2>1. p_state' \in {"WrAck_A", "WrAck_B"}
    BY <1>1, <1>7, CoreGoes DEF Paced, Follows
  <2>2. dscl' = 0
    BY <1>1, <1>7 DEF Levels, Low
  <2> QED BY <1>2, <1>4, <1>7, <2>1, <2>2 DEF After, Over, Finished
<1>8. CASE p_state = "WrAck_B"
  <2>1. p_state' = "WrAck_B" \/ (p_state' = "WrAck_C" /\ sclk)
    BY <1>1, <1>8, CoreGoes DEF Paced, Follows
  <2>2. dscl <= SCL /\ (sclk => SCL = 1)
    BY <1>8 DEF Levels, Rising
  <2>3. After <=> dscl = 1
    BY <1>2, <1>8 DEF After, Over, Finished
  <2>4. After' <=> SCL = 1
    BY <1>1, <1>2, <2>1, <2>2 DEF After, Over, Finished
  <2>5. SCL = 1 <=> dscl = 1 \/ (dscl = 0 /\ SCL = 1)
    BY <1>1, <2>2
  <2> QED BY <1>2, <1>4, <1>5, <1>8, <2>3, <2>4, <2>5
<1>9. CASE p_state \in {"WrAck_C", "WrAck_D", "Stop_A", "Stop_B", "Stop_C", "Done", "DoneAck"}
  <2>1. p_state' \in {"WrAck_C", "WrAck_D", "Stop_A", "Stop_B", "Stop_C", "Done", "DoneAck", "Idle"}
    BY <1>1, <1>9, CoreGoes DEF Paced, Follows
  <2> QED BY <1>2, <1>4, <1>9, <2>1 DEF After, Over, Finished
<1> QED BY <1>4, <1>6, <1>7, <1>8, <1>9

LEMMA QuietStep ==
  ASSUME DriverInv, BusInv, ServiceInv, NotEmpty, NEW access, BusClock(access),
         ProgramClock(access), Remember, stage = "await", p_state # "Idle" \/ TIP, Quiet
  PROVE  Counted' /\ Present' /\ Pointed' /\ UNCHANGED Service!serviceVars
<1> USE DEF ServiceInv
<1>1. /\ call' = call /\ step' = step /\ stage' = "await" /\ got' = got /\ result' = result
      /\ step \in Nat \ {0} /\ Fetched' = Fetched /\ Now' = Now
      /\ call \in Transfers /\ call.op \in {"read", "write"}
      /\ Now.kind = IF call.op = "read" /\ step > 3 THEN "receive" ELSE "send"
      /\ \A n : Reg(n)' = Reg(n)
  BY WorkingFor
<1>2. Through' = Through
  BY ThroughUnlessTaken
<1>3. regs' = regs /\ stored' = stored /\ dptr' = IF Asks THEN Device!Successor(dptr) ELSE dptr
  BY DEF Quiet, Remember
<1>4. Counted'
  BY <1>1, <1>2, <1>3 DEF Counted
<1>5. Present'
  BY <1>1, <1>2 DEF Present, Device!Here
<1>6. CASE Now.kind = "send"
  <2>1. ~Asks
    <3>1. p_state = "WrAck_B" => cr.read
      BY DEF BusInv, Commanded
    <3>2. p_state = "WrAck_B" => p_state \in Transferring
      BY DEF Transferring, Paced, Follows
    <3> QED BY <1>6, <3>1, <3>2, AtWork DEF Asks
  <2>2. call.op = "write" \/ step <= 3
    BY <1>1, <1>6
  <2> QED BY <1>1, <1>2, <1>3, <1>4, <1>5, <2>1, <2>2 DEF Pointed, Service!serviceVars
<1>7. CASE Now.kind = "receive"
  <2>1. call.op = "read" /\ step > 3 /\ Through = step - 1
    BY <1>1, <1>7 DEF Through
  <2>2. dptr = Reg(IF After /\ Now.control.ack = 0 THEN step - 3 ELSE step - 4)
    BY <1>1, <2>1 DEF Pointed
  <2>3. /\ After' <=> After \/ (p_state = "WrAck_B" /\ dscl = 0 /\ SCL = 1)
        /\ p_state = "WrAck_B" /\ dscl = 0 => ~After /\ dphase = "send"
        /\ p_state \notin Finished => cr = Now.control
    BY <1>7, AfterReceived
  <2>4. dptr' = Reg(IF After' /\ Now.control.ack = 0 THEN step - 3 ELSE step - 4)
    <3>1. CASE Asks
      <4>1. ~After /\ After' /\ Now.control.ack = 0
        BY <2>3, <3>1 DEF Asks, Finished
      <4>2. step - 4 \in Nat /\ (step - 4) + 1 = step - 3
        BY <1>1, <2>1
      <4>3. dptr' = Device!Successor(Reg(step - 4))
        BY <1>3, <2>2, <3>1, <4>1
      <4> QED BY <1>1, <4>1, <4>2, <4>3, RegAt
    <3>2. CASE ~Asks
      <4>1. dptr' = dptr
        BY <1>3, <3>2
      <4>2. Now.control.ack = 0 => (After' <=> After)
        BY <2>3, <3>2 DEF Asks, Finished
      <4> QED BY <2>2, <4>1, <4>2
    <3> QED BY <3>1, <3>2
  <2>5. Pointed'
    BY <1>1, <1>2, <2>1, <2>4 DEF Pointed
  <2> QED BY <1>1, <1>3, <1>4, <1>5, <2>5 DEF Service!serviceVars
<1> QED BY <1>1, <1>6, <1>7

\* Bit by bit the core reads the register that the device points to.
LEMMA SamplingStep ==
  ASSUME DriverInv, BusInv, ServiceInv, NotEmpty, NEW access, BusClock(access),
         p_state # "Idle" \/ TIP, Quiet,
         p_state' \in {"Rd_A", "Rd_B", "Rd_C", "Rd_D", "Rd_E", "Rd_F"}
  PROVE  \A i \in 1..Sampled' : dout'[i] = regs'[dptr'][i]
<1> USE DEF BusInv, ServiceInv
<1>1. /\ CoreTypeOK /\ CoreClock(sclk, cr, data_in, cmd_done_ack, scl_in, sda_in)
      /\ ctr \in 0..(Bits - 1) /\ Bits \in Nat \ {0} /\ dout \in Byte
  BY BusParts, BitsAssumption DEF CoreTypeOK
<1>2. p_state \in {"Idle", "Start_D", "Rd_A", "Rd_B", "Rd_C", "Rd_D", "Rd_E", "Rd_F"}
  BY <1>1, CoreGoes DEF CoreTypeOK, States, Transferring, Paced, Follows, Finished, FirstQuarter
<1>3. regs' = regs /\ dptr' = dptr
  BY <1>2 DEF Quiet, Asks
<1>4. CASE p_state \in {"Idle", "Start_D"}
  <2>1. p_state' = "Rd_A" /\ ctr' = 0
    BY <1>1, <1>4, CoreGoes DEF FirstQuarter, InStep, Paced, Follows
  <2> QED BY <2>1 DEF Sampled
<1>5. CASE p_state \in {"Rd_A", "Rd_B", "Rd_D", "Rd_E", "Rd_F"}
  <2>1. dout' = dout /\ \A i \in 1..Sampled : dout[i] = regs[dptr][i]
    BY <1>1, <1>5, CoreGoes DEF Received
  <2>2. Sampled' = Sampled
    <3>1. CASE p_state = "Rd_F"
      <4>1. ctr' = (ctr + 1) % Bits /\ p_state' = "Rd_A"
        BY <1>1, <3>1, CoreGoes
      <4>2. ctr + 1 < Bits
        BY <3>1 DEF InStep
      <4>3. (ctr + 1) % Bits = ctr + 1
        BY <1>1, <4>2
      <4> QED BY <3>1, <4>1, <4>3 DEF Sampled
    <3>2. CASE p_state # "Rd_F"
      BY <1>1, <1>5, <3>2, CoreGoes DEF Sampled, Paced, Follows
    <3> QED BY <3>1, <3>2
  <2> QED BY <1>3, <2>1, <2>2
<1>6. CASE p_state = "Rd_C"
  <2>1. p_state' = "Rd_D" /\ ctr' = ctr /\ dout' = [dout EXCEPT ![ctr + 1] = sda_in]
    BY <1>1, <1>6, CoreGoes
  <2>2. sda_in = dsda /\ dscl = 1
    <3>1. dscl = 1 /\ SCL = 1 /\ sda_in = dpin
      BY <1>6 DEF Levels, High
    <3>2. dpin = SDA(dsda)
      BY <1>6, <3>1 DEF Still
    <3> QED BY <1>6, <3>1, <3>2 DEF Drives, SDA
  <2>3. dphase = "send"
    BY <1>6, ReadPhase
  <2>4. dbits = ctr + 1 /\ dsda = BitSent
    BY <1>6, <2>2, <2>3 DEF InStep, BitsThrough, Acknowledging, Taken
  <2>5. BitSent = regs[dptr][ctr + 1]
    BY <1>1, <2>2, <2>4 DEF BitSent
  <2>6. dout'[ctr + 1] = regs[dptr][ctr + 1]
    BY <1>1, <2>1, <2>2, <2>4, <2>5 DEF Byte
  <2>7. \A i \in 1..ctr : dout'[i] = regs[dptr][i]
    <3>1. \A i \in 1..ctr : dout[i] = regs[dptr][i]
      BY <1>6 DEF Received, Sampled
    <3>2. \A i \in 1..ctr : i \in 1..Bits /\ i # ctr + 1
      BY <1>1
    <3> QED BY <1>1, <2>1, <3>1, <3>2 DEF Byte
  <2>8. Sampled' = ctr + 1
    BY <2>1 DEF Sampled
  <2>9. \A i \in 1..(ctr + 1) : i \in 1..ctr \/ i = ctr + 1
    BY <1>1
  <2> QED BY <1>3, <2>6, <2>7, <2>8, <2>9
<1> QED BY <1>2, <1>4, <1>5, <1>6

LEMMA ReceivedStep ==
  ASSUME DriverInv, BusInv, ServiceInv, NotEmpty, NEW access, BusClock(access),
         ProgramClock(access), stage = "await", p_state # "Idle" \/ TIP, Takes \/ Quiet
  PROVE  Received'
<1> USE DEF BusInv, ServiceInv
<1>1. /\ CoreTypeOK /\ CoreClock(sclk, cr, data_in, cmd_done_ack, scl_in, sda_in)
      /\ ctr \in 0..(Bits - 1) /\ Bits \in Nat \ {0} /\ dout \in Byte /\ regs \in [Byte -> Byte]
      /\ dptr \in Byte /\ dscl \in {0, 1}
  BY BusParts, BitsAssumption DEF CoreTypeOK, Bit
<1>2. /\ call' = call /\ step' = step /\ stage' = "await" /\ step \in Nat \ {0}
      /\ call \in Transfers /\ call.op \in {"read", "write"}
      /\ Now.kind = IF call.op = "read" /\ step > 3 THEN "receive" ELSE "send"
      /\ \A n : Reg(n)' = Reg(n)
  BY WorkingFor
<1>3. p_state' \in {"Rd_A", "Rd_B", "Rd_C", "Rd_D", "Rd_E", "Rd_F"} =>
        \A i \in 1..Sampled' : dout'[i] = regs'[dptr'][i]
  <2> SUFFICES ASSUME p_state' \in {"Rd_A", "Rd_B", "Rd_C", "Rd_D", "Rd_E", "Rd_F"}
               PROVE  \A i \in 1..Sampled' : dout'[i] = regs'[dptr'][i]
    OBVIOUS
  <2>1. ~Takes
    BY DEF Takes, Answered, Taken
  <2> QED BY <2>1, SamplingStep
<1>4. call.op = "read" /\ step > 3 /\ (p_state' \in {"WrAck_A", "WrAck_B"} \/ After') =>
        dout' = regs'[Reg(step - 4)]
  <2> SUFFICES ASSUME call.op = "read", step > 3, p_state' \in {"WrAck_A", "WrAck_B"} \/ After'
               PROVE  dout' = regs'[Reg(step - 4)]
    OBVIOUS
  <2>1. Now.kind = "receive" /\ ~Takes
    <3>1. Now.kind = "receive"
      BY <1>2
    <3> QED BY <3>1, AckedWhenTaken
  <2>2. regs' = regs
    BY <2>1 DEF Quiet
  <2>3. /\ After' <=> After \/ (p_state = "WrAck_B" /\ dscl = 0 /\ SCL = 1)
        /\ p_state \in {"Idle", "Start_A", "Start_B", "Start_C", "Start_D",
                        "Rd_A", "Rd_B", "Rd_C", "Rd_D", "Rd_E", "Rd_F",
                        "WrAck_A", "WrAck_B", "WrAck_C", "WrAck_D",
                        "Stop_A", "Stop_B", "Stop_C", "Done", "DoneAck"}
    BY <2>1, AfterReceived
  <2>4. CASE p_state \in {"WrAck_A", "WrAck_B"} \/ After
    <3>1. dout = regs[Reg(step - 4)]
      BY <1>2, <2>4 DEF Received
    <3>2. p_state # "Rd_C"
      BY <1>2, <2>4 DEF After, Over, Finished
    <3>3. dout' = dout
      BY <1>1, <3>2, CoreGoes
    <3> QED BY <2>2, <3>1, <3>3
  <2>5. CASE ~(p_state \in {"WrAck_A", "WrAck_B"} \/ After)
    <3>1. p_state' \in {"WrAck_A", "WrAck_B"}
      BY <2>3, <2>5
    <3>2. p_state = "Rd_E" /\ ctr = Bits - 1
      <4>1. p_state \in {"Idle", "Start_A", "Start_B", "Start_C", "Start_D",
                         "Rd_A", "Rd_B", "Rd_C", "Rd_D", "Rd_E", "Rd_F"}
        BY <2>3, <2>5 DEF After, Over, Finished
      <4> QED BY <1>1, <3>1, <4>1, CoreGoes DEF Paced, Follows, FirstQuarter
    <3>3. dout' = dout /\ \A i \in 1..Bits : dout[i] = regs[dptr][i]
      BY <1>1, <3>2, CoreGoes DEF Received, Sampled
    <3>4. dout = regs[dptr]
      BY <1>1, <3>3 DEF Byte
    <3>5. dptr = Reg(step - 4)
      <4>1. Through = step - 1
        BY <1>2, <2>1 DEF Through
      <4> QED BY <1>2, <2>5, <4>1 DEF Pointed
    <3> QED BY <2>2, <3>3, <3>4, <3>5
  <2> QED BY <2>4, <2>5
<1>5. data_out' = dout /\ (p_state' # "Rd_D" => dout' = dout)
  BY <1>1, CoreGoes DEF CoreClock, Outputs
<1> QED BY <1>2, <1>3, <1>4, <1>5 DEF Received

----------------------------------------------------------------------------
(* The clocks on which the core is at rest. *)

LEMMA RestQuiet ==
  ASSUME DriverInv, BusInv, NEW access, BusClock(access),
         stage # "await" \/ (p_state = "Idle" /\ ~TIP)
  PROVE  /\ p_state \in {"Reset", "Idle"} /\ ~TIP /\ p_state' = "Idle" /\ AcceptAccess(access)
         /\ regs' = regs /\ dptr' = dptr
         /\ dout' = dout /\ data_out' = dout /\ ackbit' = ackbit
         /\ ~Stored /\ ~Answered /\ ~Answered'
         /\ Over <=> stage \in {"status", "fetch", "await"}
         /\ After <=> Over
         /\ Over' <=> stage' \in {"status", "fetch"} \/ (stage' = "await" /\ ~TIP')
         /\ After' <=> Over'
         /\ IsCommand(access) \/ ~TIP'
<1>1. /\ p_state \in {"Reset", "Idle"} /\ ~TIP /\ p_state' = "Idle"
      /\ AcceptAccess(access) /\ ackbit' = ackbit
  BY RestStep
<1>2. /\ CoreTypeOK /\ CoreClock(sclk, cr, data_in, cmd_done_ack, scl_in, sda_in)
      /\ dbits \in 0..(Bits + 1)
  BY BusParts
<1>3. dout' = dout
  BY <1>1, <1>2, CoreGoes
<1>4. data_out' = dout
  BY <1>2 DEF CoreClock, Outputs
<1>5. regs' = regs /\ dptr' = dptr /\ dbits' = dbits
  BY <1>1, DeviceCases DEF Rising, Falling
<1>6. ~Stored
  BY <1>2, <1>5 DEF Stored
<1>7. ~Answered /\ ~Answered'
  BY <1>1 DEF Answered, Taken
<1>8. /\ Over <=> stage \in {"status", "fetch", "await"}
      /\ After <=> Over
      /\ Over' <=> stage' \in {"status", "fetch"} \/ (stage' = "await" /\ ~TIP')
      /\ After' <=> Over'
  BY <1>1 DEF Over, After, Finished
<1>9. IsCommand(access) \/ ~TIP'
  BY <1>1, RegisterMoves DEF DriverInv, DriverTypeOK, InterfaceTypeOK
<1> QED BY <1>1, <1>3, <1>4, <1>5, <1>6, <1>7, <1>8, <1>9

\* The program fetches the byte that the core has shown.
LEMMA FetchRead ==
  ASSUME DriverInv, BusInv, ServiceInv, NotEmpty, NEW access, BusClock(access),
         ProgramClock(access), held', stage' = "fetch"
  PROVE  readdata'[2] = dout'
<1>1. stage \in {"fetch", "await"} /\ held' # FALSE
  BY ProgramStep DEF ProgramMoves, Goes
<1>2. ReadFirst /\ access = Access
  <2>1. ~Succeed /\ \A c \in Calls : ~Begin(c)
    BY <1>1 DEF Succeed, Begin
  <2>2. ~Compute
    BY <1>1 DEF Compute, programVars, DriverInv, DriverTypeOK
  <2>3. Driving /\ access = Access
    BY <2>1, <2>2 DEF ProgramClock
  <2> QED BY <1>1, <2>3 DEF Driving, PutRegister, I2C_WR_DATA, I2C_WR_CONTROL, GiveUp, WaitBefore,
                 WaitAfter, CheckAcknowledge, I2C_RD_DATA, ReadSecond
<1>3. stage = "fetch"
  BY <1>2 DEF ReadFirst
<1>4. ReadPort(access) /\ access = Read(0)
  BY <1>2, <1>3, AccessAt, InterfaceParts DEF BusClock, Wires
<1>5. readdata'[2] = data_out
  BY <1>4 DEF ReadPort, Read, Registers
<1>6. dout' = dout /\ p_state # "Rd_D"
  BY <1>3, RestQuiet
<1> QED BY <1>5, <1>6 DEF ServiceInv, Received

\* A clock on which the program only computes, polls or prepares a transfer.
LEMMA RestMoves ==
  ASSUME DriverInv, BusInv, NotEmpty, NEW access, BusClock(access),
         stage # "await" \/ (p_state = "Idle" /\ ~TIP),
         \/ Compute /\ access = NoAccess
         \/ /\ access = Access
            /\ \/ ReadFirst \/ WaitBefore \/ WaitAfter \/ I2C_WR_DATA \/ I2C_WR_CONTROL
  PROVE  /\ UNCHANGED <<call, step, got, result>>
         /\ stage = "return" <=> stage' = "return"
         /\ Over' <=> Over
<1>1. /\ AcceptAccess(access)
      /\ Over <=> stage \in {"status", "fetch", "await"}
      /\ Over' <=> stage' \in {"status", "fetch"} \/ (stage' = "await" /\ ~TIP')
      /\ IsCommand(access) \/ ~TIP'
  BY RestQuiet
<1>2. CASE Compute /\ access = NoAccess
  BY <1>1, <1>2 DEF Compute, programVars, NoAccess, IsCommand
<1>3. CASE access = Access /\ (ReadFirst \/ WaitBefore \/ WaitAfter)
  <2>1. stage \in {"wait", "await", "status", "fetch"}
    BY <1>3 DEF ReadFirst, WaitBefore, WaitAfter, ReadSecond
  <2>2. access.op = "read"
    BY <1>3, <2>1, AccessAt DEF Read
  <2>3. ~TIP'
    BY <1>1, <2>2 DEF IsCommand
  <2> QED BY <1>1, <1>3, <2>3 DEF ReadFirst, WaitBefore, WaitAfter, ReadSecond
<1>4. CASE I2C_WR_DATA
  BY <1>1, <1>4 DEF I2C_WR_DATA
<1>5. CASE access = Access /\ I2C_WR_CONTROL
  <2>1. stage = "control" /\ access = Write(1, Now.control)
    BY <1>5, AccessAt DEF I2C_WR_CONTROL
  <2>2. cr' = Now.control
    BY <1>1, <2>1 DEF AcceptAccess, Write
  <2>3. TransferAt(call, step) /\ Now = Steps(call)[step]
    BY <2>1, NowTransfer DEF Now
  <2>4. TIP'
    BY <2>2, <2>3 DEF TransferAt, TIP
  <2> QED BY <1>1, <1>5, <2>4 DEF I2C_WR_CONTROL
<1> QED BY <1>2, <1>3, <1>4, <1>5

LEMMA RestReceived ==
  ASSUME DriverInv, BusInv, ServiceInv, NotEmpty, NEW access, BusClock(access),
         ProgramClock(access), stage # "await" \/ (p_state = "Idle" /\ ~TIP),
         Over' => call' = call /\ step' = step /\ Over
  PROVE  Received'
<1> USE DEF ServiceInv
<1>1. /\ p_state' = "Idle" /\ regs' = regs /\ dout' = dout /\ data_out' = dout
      /\ (After <=> Over) /\ (After' <=> Over')
  BY RestQuiet
<1>2. ASSUME call' \in Transfers, call'.op = "read", step' > 3, After'
      PROVE  dout' = regs'[Reg(step - 4)']
  <2>1. call' = call /\ step' = step /\ After
    BY <1>1, <1>2
  <2>2. Reg(step - 4)' = Reg(step - 4)
    BY <2>1 DEF Reg
  <2> QED BY <1>1, <1>2, <2>1, <2>2 DEF Received
<1>3. held' /\ stage' = "fetch" => readdata'[2] = dout'
  BY FetchRead
<1> QED BY <1>1, <1>2, <1>3 DEF Received

\* Nothing of the call moves: nothing of the service does.
LEMMA RestKeeps ==
  ASSUME DriverInv, BusInv, ServiceInv, NotEmpty, NEW access, BusClock(access),
         ProgramClock(access), Remember, stage # "await" \/ (p_state = "Idle" /\ ~TIP),
         UNCHANGED <<call, step, got, result>>,
         stage = "return" <=> stage' = "return",
         Over' <=> Over
  PROVE  ServiceInv' /\ UNCHANGED Service!serviceVars
<1> USE DEF ServiceInv
<1>1. /\ call' = call /\ step' = step /\ got' = got /\ result' = result /\ Now' = Now
      /\ Fetched' = Fetched
  BY DEF Now, Fetched
<1>2. /\ regs' = regs /\ dptr' = dptr /\ ackbit' = ackbit
      /\ ~Stored /\ ~Answered /\ ~Answered'
      /\ (After <=> Over) /\ (After' <=> Over')
  BY RestQuiet
<1>3. stored' = stored
  BY <1>2 DEF Remember
<1>4. Acked' <=> Acked
  BY <1>2 DEF Acked
<1>5. Through' = Through
  BY <1>1, <1>4 DEF Through
<1>6. \A n : Reg(n)' = Reg(n)
  BY <1>1 DEF Reg
<1>7. Counted' /\ Present'
  BY <1>1, <1>3, <1>5 DEF Counted, Present, Device!Here
<1>8. Pointed'
  BY <1>1, <1>2, <1>5, <1>6 DEF Pointed
<1>9. Received'
  BY <1>1, RestReceived
<1>10. UNCHANGED Service!serviceVars
  BY <1>1, <1>2, <1>3 DEF Service!serviceVars
<1> QED BY <1>7, <1>8, <1>9, <1>10

\* The calls that transfer nothing are not the service's.
LEMMA NoneCalled ==
  ASSUME DriverInv, BusInv, ServiceInv, NotEmpty, NEW access, BusClock(access),
         ProgramClock(access), stage # "await" \/ (p_state = "Idle" /\ ~TIP), ~Over',
         call' \notin Transfers
  PROVE  ServiceInv'
<1>1. Received'
  BY RestReceived
<1> QED BY <1>1 DEF ServiceInv, Counted, Present, Pointed

LEMMA PutKept ==
  ASSUME DriverInv, BusInv, ServiceInv, NotEmpty, NEW access, BusClock(access),
         ProgramClock(access), Remember, PutRegister
  PROVE  ServiceInv' /\ UNCHANGED Service!serviceVars
<1>1. stage = "put" /\ got' = got /\ NextStep
  BY DEF PutRegister
<1>2. call' = call /\ result' = result
  BY <1>1 DEF NextStep
<1>3. call \notin Transfers /\ stage' \in {"put", "return"}
  <2>1. /\ call \in Calls /\ call # NoCall /\ Now.kind = "put"
        /\ step \in 1..Len(Steps(call)) /\ Len(Steps(call)) \in Nat
    BY <1>1, NowSound DEF DriverInv, DriverTypeOK, Calling
  <2>2. call \notin Transfers
    BY <2>1, TransfersAre DEF TransferAt, Now
  <2>3. step < Len(Steps(call)) => Steps(call)[step + 1].kind = "put"
    BY <2>1, <2>2, PutsOnly
  <2> QED BY <1>1, <2>2, <2>3 DEF NextStep, FirstStage
<1>4. regs' = regs /\ ~Stored /\ ~Over'
  BY <1>1, <1>3, RestQuiet
<1>5. stored' = stored
  BY <1>4 DEF Remember
<1>6. ServiceInv'
  BY <1>1, <1>2, <1>3, <1>4, NoneCalled
<1> QED BY <1>1, <1>2, <1>4, <1>5, <1>6 DEF Service!serviceVars

\* The program sees that a byte was not taken.
LEMMA RefusedStep ==
  ASSUME DriverInv, BusInv, ServiceInv, NotEmpty, NEW access, BusClock(access),
         ProgramClock(access), Remember, CheckAcknowledge, stage' = "giveup"
  PROVE  ServiceInv' /\ UNCHANGED Service!serviceVars
<1> USE DEF ServiceInv
<1>1. stage = "status" /\ got' = got
  BY DEF CheckAcknowledge, ReadSecond
<1>2. call' = call /\ step' = step /\ result' = result /\ Now.kind = "send" /\ ackbit = 1
  BY <1>1, ProgramStep DEF ProgramMoves, Goes
<1>3. /\ regs' = regs /\ dptr' = dptr /\ ackbit' = ackbit
      /\ ~Stored /\ ~Answered /\ ~Answered' /\ ~Over' /\ (After' <=> Over')
  BY <1>1, RestQuiet
<1>4. stored' = stored
  BY <1>3 DEF Remember
<1>5. ~Acked /\ ~Acked'
  BY <1>2, <1>3 DEF Acked
<1>6. Through' = Through /\ Fetched' = Fetched /\ Now' = Now
  BY <1>1, <1>2, <1>5 DEF Through, Fetched, Now
<1>7. Counted' /\ Present'
  BY <1>1, <1>2, <1>4, <1>6 DEF Counted, Present, Device!Here
<1>8. call \in Transfers /\ (call.op = "read" => step <= 3)
  <2>1. call \in Transfers /\ TransferAt(call, step) /\ Now = Steps(call)[step]
        /\ step \in 1..Len(Steps(call)) /\ Len(Steps(call)) \in Nat
    BY <1>1, NowTransfer DEF Now
  <2> QED BY <1>2, <2>1 DEF TransferAt
<1>9. Pointed'
  <2>1. \A n : Reg(n)' = Reg(n)
    BY <1>2 DEF Reg
  <2>2. call.op \in {"read", "write"}
    BY <1>8 DEF Transfers
  <2> QED BY <1>1, <1>2, <1>3, <1>6, <1>8, <2>1, <2>2 DEF Pointed
<1>10. Received'
  BY <1>1, <1>3, RestReceived
<1> QED BY <1>2, <1>1, <1>3, <1>4, <1>7, <1>9, <1>10 DEF Service!serviceVars

\* A transfer is through, and the next one is to come.
LEMMA NextStepGoes ==
  ASSUME DriverInv, BusInv, NotEmpty, NEW access, BusClock(access),
         ProgramClock(access), NextStep, stage \in {"status", "fetch"}
  PROVE  /\ call' = call /\ result' = result
         /\ call \in Transfers /\ call.op \in {"read", "write"} /\ TransferAt(call, step)
         /\ call.size \in Nat /\ Len(Steps(call)) = call.size + IF call.op = "write" THEN 2 ELSE 3
         /\ step \in 1..Len(Steps(call)) /\ Now = Steps(call)[step]
         /\ \/ stage' = "wait" /\ step' = step + 1 /\ step < Len(Steps(call))
            \/ stage' = "return" /\ step' = step /\ step = Len(Steps(call))
         /\ ~Over' /\ ~After' /\ Through' = IF stage' = "return" THEN step' ELSE step' - 1
<1>1. /\ call \in Transfers /\ call.op \in {"read", "write"} /\ TransferAt(call, step)
      /\ step \in 1..Len(Steps(call)) /\ Now = Steps(call)[step] /\ Len(Steps(call)) \in Nat
  BY NowTransfer DEF Now, Transfers
<1>2. call.size \in Nat /\ Len(Steps(call)) = call.size + IF call.op = "write" THEN 2 ELSE 3
  BY <1>1, StepsSent
<1>3. call' = call /\ result' = result
  BY DEF NextStep
<1>4. \/ stage' = "wait" /\ step' = step + 1 /\ step < Len(Steps(call))
      \/ stage' = "return" /\ step' = step /\ step = Len(Steps(call))
  BY <1>1, NextTransfer DEF NextStep, FirstStage
<1>5. ~Over' /\ ~After' /\ ~Answered'
  BY <1>4, RestQuiet
<1>6. ~Acked'
  BY <1>5 DEF Acked
<1>7. Through' = IF stage' = "return" THEN step' ELSE step' - 1
  BY <1>6 DEF Through
<1> QED BY <1>1, <1>2, <1>3, <1>4, <1>5, <1>7

LEMMA AcknowledgedStep ==
  ASSUME DriverInv, BusInv, ServiceInv, NotEmpty, NEW access, BusClock(access),
         ProgramClock(access), Remember, CheckAcknowledge, NextStep
  PROVE  ServiceInv' /\ UNCHANGED Service!serviceVars
<1> USE DEF ServiceInv
<1>1. stage = "status" /\ got' = got /\ Now.kind = "send"
  BY DEF CheckAcknowledge, ReadSecond, DriverInv, Calling
<1>2. /\ call' = call /\ result' = result
      /\ call \in Transfers /\ call.op \in {"read", "write"} /\ TransferAt(call, step)
      /\ call.size \in Nat /\ Len(Steps(call)) = call.size + IF call.op = "write" THEN 2 ELSE 3
      /\ step \in 1..Len(Steps(call)) /\ Now = Steps(call)[step]
      /\ \/ stage' = "wait" /\ step' = step + 1 /\ step < Len(Steps(call))
         \/ stage' = "return" /\ step' = step /\ step = Len(Steps(call))
      /\ ~Over' /\ ~After' /\ Through' = IF stage' = "return" THEN step' ELSE step' - 1
  BY <1>1, NextStepGoes
<1>3. Through' = step
  BY <1>2
<1>4. Through = step
  <2>1. ackbit = 0
    <3>1. stage' # "giveup"
      BY <1>2
    <3> QED BY <1>1, <1>2, <3>1, ProgramStep DEF ProgramMoves, Goes
  <2>2. After
    BY <1>1, RestQuiet
  <2> QED BY <1>1, <2>1, <2>2 DEF Through, Acked
<1>5. regs' = regs /\ dptr' = dptr /\ ~Stored
  BY <1>1, RestQuiet
<1>6. stored' = stored
  BY <1>5 DEF Remember
<1>7. call.op = "read" => step <= 3
  BY <1>1, <1>2 DEF TransferAt
<1>8. call.op = "read" => Fetched = 0 /\ Fetched' = 0
  <2>1. call.op = "read" => Len(Steps(call)) > 3
    BY <1>2, TransfersAre
  <2> QED BY <1>1, <1>2, <1>7, <2>1 DEF Fetched
<1>9. Counted' /\ Present'
  BY <1>1, <1>2, <1>3, <1>4, <1>6, <1>8 DEF Counted, Present, Device!Here
<1>10. Pointed'
  <2>1. \A n : Reg(n)' = Reg(n)
    BY <1>2 DEF Reg
  <2> SUFFICES ASSUME step > 1, stage' = "wait"
               PROVE  dptr' = Reg(IF call.op = "write" THEN step - 2
                                  ELSE IF step' <= 3 THEN 0 ELSE step' - 4)
    BY <1>2, <1>3, <2>1 DEF Pointed
  <2>2. dptr = Reg(IF call.op = "write" THEN step - 2 ELSE 0)
    BY <1>1, <1>2, <1>4, <1>7 DEF Pointed
  <2>3. call.op = "read" => step' <= 3 \/ step' - 4 = 0
    BY <1>2, <1>7
  <2> QED BY <1>2, <1>5, <2>2, <2>3
<1>11. Received'
  BY <1>1, <1>2, RestReceived
<1> QED BY <1>1, <1>2, <1>5, <1>6, <1>9, <1>10, <1>11 DEF Service!serviceVars

\* The program has a byte: it is the one of the register whose turn it was.
LEMMA FetchedStep ==
  ASSUME DriverInv, BusInv, ServiceInv, NotEmpty, NEW access, BusClock(access),
         ProgramClock(access), Remember, I2C_RD_DATA
  PROVE  ServiceInv' /\ Service!ReadOne
<1> USE DEF ServiceInv
<1>1. /\ stage = "fetch" /\ held /\ Now.kind = "receive" /\ NextStep
      /\ got' = Append(got, readdata[2])
  BY DEF I2C_RD_DATA, ReadSecond, DriverInv, Calling
<1>2. /\ call' = call /\ result' = result
      /\ call \in Transfers /\ call.op \in {"read", "write"} /\ TransferAt(call, step)
      /\ call.size \in Nat /\ Len(Steps(call)) = call.size + IF call.op = "write" THEN 2 ELSE 3
      /\ step \in 1..Len(Steps(call)) /\ Now = Steps(call)[step]
      /\ \/ stage' = "wait" /\ step' = step + 1 /\ step < Len(Steps(call))
         \/ stage' = "return" /\ step' = step /\ step = Len(Steps(call))
      /\ ~Over' /\ ~After' /\ Through' = IF stage' = "return" THEN step' ELSE step' - 1
  BY <1>1, NextStepGoes
<1>3. call.op = "read" /\ step > 3
  BY <1>1, <1>2 DEF TransferAt
<1>4. Through' = step /\ Through = step - 1
  BY <1>1, <1>2 DEF Through
<1>5. regs' = regs /\ dptr' = dptr /\ ~Stored /\ After
  BY <1>1, RestQuiet
<1>6. stored' = 0 /\ stored = 0 /\ Len(got) = step - 4
  BY <1>1, <1>2, <1>3, <1>5 DEF Counted, Fetched, Remember
<1>7. Len(got') = step - 3
  <2>1. got \in Seq(Byte) /\ readdata[2] \in Byte
    BY <1>1 DEF DriverInv, DriverTypeOK, Polling
  <2>2. Len(got') = Len(got) + 1
    BY <1>1, <2>1
  <2> QED BY <1>2, <1>6, <2>2
<1>8. Fetched' = step - 3
  BY <1>2, <1>3 DEF Fetched
<1>9. Counted'
  BY <1>2, <1>3, <1>6, <1>7, <1>8 DEF Counted
<1>10. Device!Here(call.device)
  BY <1>2, <1>3, <1>4 DEF Present
<1>11. Present'
  BY <1>2, <1>10 DEF Present, Device!Here
<1>12. Pointed'
  <2>1. \A n : Reg(n)' = Reg(n)
    BY <1>2 DEF Reg
  <2> SUFFICES ASSUME stage' = "wait" PROVE dptr' = Reg(step' - 4)
    BY <1>2, <1>3, <2>1 DEF Pointed
  <2>2. Now.control.ack = 0
    BY <1>1, <1>2 DEF TransferAt
  <2>3. dptr = Reg(step - 3)
    BY <1>1, <1>2, <1>3, <1>4, <1>5, <2>2 DEF Pointed
  <2>4. step' - 4 = step - 3
    BY <1>2
  <2> QED BY <1>5, <2>3, <2>4
<1>13. Received'
  BY <1>1, <1>2, RestReceived
<1>14. Service!ReadOne
  <2>1. /\ (IF call \in Transfers THEN call ELSE NoCall) = call
        /\ (IF call \in Transfers THEN call ELSE NoCall)' = call
    BY <1>2
  <2>2. /\ stored + Len(got) = step - 4
        /\ stored' + Len(got') = (stored + Len(got)) + 1
        /\ stored + Len(got) < call.size
    BY <1>2, <1>3, <1>6, <1>7
  <2>3. got' = Append(got, regs[Service!Register(call.index, step - 4)])
    <3>1. readdata[2] = dout
      BY <1>1 DEF Received
    <3>2. dout = regs[Reg(step - 4)]
      BY <1>2, <1>3, <1>5 DEF Received
    <3> QED BY <1>1, <3>1, <3>2 DEF Reg
  <2> QED BY <1>2, <1>3, <1>5, <1>10, <2>1, <2>2, <2>3 DEF Service!ReadOne
<1> QED BY <1>9, <1>11, <1>12, <1>13, <1>14

\* The call returns, and what it says is so.
LEMMA GivenUp ==
  ASSUME DriverInv, BusInv, ServiceInv, NotEmpty, NEW access, BusClock(access),
         ProgramClock(access), Remember, GiveUp
  PROVE  ServiceInv' /\ Service!Returns(Now.error) /\ Now.error \in {"I2C_ENODEV", "I2C_EBADACK"}
<1> USE DEF ServiceInv
<1>1. /\ stage = "giveup" /\ Now.kind = "send" /\ got' = got /\ call' = NoCall
      /\ stage' = "ready" /\ result' = Now.error
  BY DEF GiveUp, Return, DriverInv, Calling
<1>2. /\ call \in Transfers /\ call.op \in {"read", "write"} /\ TransferAt(call, step)
      /\ step \in 1..Len(Steps(call)) /\ Now = Steps(call)[step]
  BY <1>1, NowTransfer DEF Now, Transfers
<1>3. /\ call.size \in Nat /\ SentAs(call, step)
      /\ Len(Steps(call)) = call.size + IF call.op = "write" THEN 2 ELSE 3
      /\ call.size > 0
  BY <1>2, StepsSent DEF NotEmpty
<1>4. regs' = regs /\ ~Stored /\ ~Answered /\ ~After /\ ~Over'
  BY <1>1, RestQuiet
<1>5. stored' = stored
  BY <1>4 DEF Remember
<1>6. Through = step - 1
  BY <1>1, <1>4 DEF Through, Acked
<1>7. call.op = "read" => step <= 3
  BY <1>1, <1>2 DEF TransferAt
<1>8. stored + Len(got) = IF step > 3 THEN step - 3 ELSE 0
  <2>1. CASE call.op = "write"
    <3>1. Len(got) = 0 /\ stored = IF step - 1 > 2 THEN (step - 1) - 2 ELSE 0
      BY <1>2, <1>6, <2>1 DEF Counted
    <3> QED BY <1>2, <3>1
  <2>2. CASE call.op = "read"
    BY <1>2, <1>7, <2>2 DEF Counted, Fetched
  <2> QED BY <1>2, <2>1, <2>2
<1>9. NoCall \notin Transfers
  BY DEF NoCall, Transfers
<1>10. ServiceInv'
  BY <1>1, <1>4, <1>9, NoneCalled
<1>11. \/ Now.error = "I2C_ENODEV" /\ stored + Len(got) = 0
       \/ /\ Now.error = "I2C_EBADACK"
          /\ stored + Len(got) < call.size /\ Device!Here(call.device)
  <2>1. step > 1 => Device!Here(call.device)
    BY <1>2, <1>6 DEF Present
  <2>2. stored + Len(got) < call.size
    BY <1>2, <1>3, <1>7, <1>8
  <2>3. CASE step = 1 \/ (step = 3 /\ call.op = "read")
    BY <1>2, <1>3, <1>8, <2>3 DEF SentAs
  <2>4. CASE step = 2 \/ (step > 2 /\ call.op = "write")
    BY <1>2, <1>3, <2>1, <2>2, <2>4 DEF SentAs
  <2> QED BY <1>2, <1>7, <2>3, <2>4
<1>12. Service!Returns(Now.error)
  <2>1. /\ (IF call \in Transfers THEN call ELSE NoCall) = call
        /\ (IF call \in Transfers THEN call ELSE NoCall)' = NoCall
        /\ call # NoCall /\ NoCall = Service!NoCall
    BY <1>1, <1>2, <1>9 DEF NoCall, Service!NoCall
  <2>2. stored' + Len(got') = stored + Len(got)
    BY <1>1, <1>5
  <2> QED BY <1>1, <1>4, <1>11, <2>1, <2>2 DEF Service!Returns
<1> QED BY <1>10, <1>11, <1>12

LEMMA SucceededStep ==
  ASSUME DriverInv, BusInv, ServiceInv, NotEmpty, NEW access, BusClock(access),
         ProgramClock(access), Remember, Succeed
  PROVE  ServiceInv' /\ (Service!Returns("I2C_SUCCESS") \/ UNCHANGED Service!serviceVars)
<1> USE DEF ServiceInv
<1>1. /\ stage = "return" /\ got' = got /\ call' = NoCall /\ stage' = "ready"
      /\ result' = IF call \in Transfers THEN "I2C_SUCCESS" ELSE result
  BY DEF Succeed, Return
<1>2. regs' = regs /\ ~Stored /\ ~Over'
  BY <1>1, RestQuiet
<1>3. stored' = stored
  BY <1>2 DEF Remember
<1>4. NoCall \notin Transfers /\ NoCall = Service!NoCall
  BY DEF NoCall, Transfers, Service!NoCall
<1>5. ServiceInv'
  BY <1>1, <1>2, <1>4, NoneCalled
<1>6. CASE call \in Transfers
  <2>1. /\ call.op \in {"read", "write"} /\ call.size \in Nat /\ call.size > 0
        /\ Len(Steps(call)) = call.size + IF call.op = "write" THEN 2 ELSE 3
    BY <1>6, StepsSent DEF Transfers, NotEmpty
  <2>2. step = Len(Steps(call)) /\ Through = step
    BY <1>1, <1>6 DEF Counted, Through
  <2>3. stored + Len(got) = call.size
    <3>1. CASE call.op = "write"
      <4>1. Len(got) = 0 /\ stored = call.size
        BY <1>6, <2>1, <2>2, <3>1 DEF Counted
      <4> QED BY <2>1, <4>1
    <3>2. CASE call.op = "read"
      BY <1>1, <1>6, <2>1, <2>2, <3>2 DEF Counted, Fetched
    <3> QED BY <2>1, <3>1, <3>2
  <2>4. /\ (IF call \in Transfers THEN call ELSE NoCall) = call
        /\ (IF call \in Transfers THEN call ELSE NoCall)' = NoCall
        /\ call # NoCall
    BY <1>1, <1>4, <1>6
  <2>5. stored' + Len(got') = stored + Len(got)
    BY <1>1, <1>3
  <2>6. Service!Returns("I2C_SUCCESS")
    BY <1>1, <1>2, <1>4, <1>6, <2>3, <2>4, <2>5 DEF Service!Returns
  <2> QED BY <1>5, <2>6
<1>7. CASE call \notin Transfers
  BY <1>1, <1>2, <1>3, <1>4, <1>5, <1>7 DEF Service!serviceVars
<1> QED BY <1>6, <1>7

LEMMA BegunStep ==
  ASSUME DriverInv, BusInv, ServiceInv, NotEmpty, NEW access, BusClock(access),
         ProgramClock(access), NEW c \in Calls, Begin(c)
  PROVE  /\ ServiceInv'
         /\ (c \in Transfers /\ Service!Call(c)) \/ UNCHANGED Service!serviceVars
<1>1. /\ stage = "ready" /\ call' = c /\ step' = 1 /\ stage' \in {"put", "wait"}
      /\ result' = result
      /\ IF c \in Transfers THEN got' = << >> /\ stored' = 0 ELSE UNCHANGED <<got, stored>>
  BY DEF Begin, FirstStage
<1>2. call = NoCall /\ NoCall \notin Transfers /\ NoCall = Service!NoCall
  BY <1>1 DEF DriverInv, Calling, NoCall, Transfers, Service!NoCall
<1>3. regs' = regs /\ ~Answered' /\ ~Over' /\ ~After'
  BY <1>1, RestQuiet
<1>4. Received'
  BY <1>1, <1>3, RestReceived
<1>5. Through' = 0
  BY <1>1, <1>3 DEF Through, Acked
<1>6. Fetched' = 0
  BY <1>1 DEF Fetched
<1>7. Counted' /\ Present' /\ Pointed'
  BY <1>1, <1>5, <1>6 DEF Counted, Present, Pointed
<1>8. ServiceInv'
  BY <1>4, <1>7 DEF ServiceInv
<1>9. CASE c \in Transfers
  <2>1. /\ (IF call \in Transfers THEN call ELSE NoCall) = NoCall
        /\ (IF call \in Transfers THEN call ELSE NoCall)' = c
    BY <1>1, <1>2, <1>9
  <2>2. stored' + Len(got') = 0
    BY <1>1, <1>9
  <2>3. Service!Call(c)
    BY <1>1, <1>2, <1>3, <1>9, <2>1, <2>2 DEF Service!Call
  <2> QED BY <1>8, <1>9, <2>3
<1>10. CASE c \notin Transfers
  BY <1>1, <1>2, <1>3, <1>8, <1>10 DEF Service!serviceVars
<1> QED BY <1>9, <1>10

----------------------------------------------------------------------------
(* The driver implements the service. *)

LEMMA ServiceStep ==
  ASSUME DriverInv, BusInv, ServiceInv, NotEmpty, Slowed, [DriverNext]_driverVars
  PROVE  ServiceInv' /\ [Service!ServiceNext]_Service!serviceVars
<1>1. CASE DriverNext
  <2>1. PICK access : BusClock(access) /\ ProgramClock(access)
    BY <1>1, BusOfStep
  <2>2. ASSUME NEW c \in Calls, Begin(c)
        PROVE  ServiceInv' /\ [Service!ServiceNext]_Service!serviceVars
    BY <2>1, <2>2, BegunStep DEF Service!ServiceNext
  <2>3. ASSUME \A c \in Calls : ~Begin(c)
        PROVE  ServiceInv' /\ [Service!ServiceNext]_Service!serviceVars
    <3>1. Remember
      BY <1>1, <2>3 DEF DriverNext, DriverClock, OtherClock
    <3>2. CASE stage = "await" /\ (p_state # "Idle" \/ TIP)
      <4>1. Takes \/ Quiet
        BY <2>1, TakesOrNot DEF Quiet
      <4>2. Received'
        BY <2>1, <3>2, <4>1, ReceivedStep
      <4>3. CASE Takes
        BY <2>1, <3>1, <3>2, <4>2, <4>3, TakesStep DEF ServiceInv, Service!ServiceNext
      <4>4. CASE Quiet
        BY <2>1, <3>1, <3>2, <4>2, <4>4, QuietStep DEF ServiceInv
      <4> QED BY <4>1, <4>3, <4>4
    <3>3. CASE stage # "await" \/ (p_state = "Idle" /\ ~TIP)
      <4>1. CASE PutRegister
        BY <2>1, <3>1, <4>1, PutKept
      <4>2. CASE GiveUp
        <5>1. ServiceInv' /\ Service!Returns(Now.error)
              /\ Now.error \in {"I2C_ENODEV", "I2C_EBADACK"}
          BY <2>1, <3>1, <4>2, GivenUp
        <5> QED BY <5>1 DEF Service!ServiceNext
      <4>3. CASE Succeed
        <5>1. ServiceInv' /\ (Service!Returns("I2C_SUCCESS") \/ UNCHANGED Service!serviceVars)
          BY <2>1, <3>1, <4>3, SucceededStep
        <5> QED BY <5>1 DEF Service!ServiceNext
      <4>4. CASE CheckAcknowledge
        <5>1. (stage' = "giveup") \/ NextStep
          BY <4>4 DEF CheckAcknowledge
        <5> QED BY <2>1, <3>1, <4>4, <5>1, RefusedStep, AcknowledgedStep
      <4>5. CASE I2C_RD_DATA
        <5>1. ServiceInv' /\ Service!ReadOne
          BY <2>1, <3>1, <4>5, FetchedStep
        <5> QED BY <5>1 DEF Service!ServiceNext
      <4>6. CASE \/ Compute /\ access = NoAccess
                 \/ /\ access = Access
                    /\ \/ ReadFirst \/ WaitBefore \/ WaitAfter \/ I2C_WR_DATA \/ I2C_WR_CONTROL
        <5>1. /\ UNCHANGED <<call, step, got, result>>
              /\ stage = "return" <=> stage' = "return"
              /\ Over' <=> Over
          BY <2>1, <3>3, <4>6, RestMoves
        <5> QED BY <2>1, <3>1, <3>3, <5>1, RestKeeps
      <4> QED BY <2>1, <2>3, <4>1, <4>2, <4>3, <4>4, <4>5, <4>6 DEF ProgramClock, Driving
    <3> QED BY <3>2, <3>3
  <2> QED BY <2>2, <2>3
<1>2. CASE UNCHANGED driverVars
  <2> USE <1>2 DEF driverVars, interfaceVars, clkgenVars, coreVars, registerVars, programVars,
                   Device!deviceVars
  <2>1. Now' = Now /\ TIP' = TIP /\ (Taken' <=> Taken) /\ Sampled' = Sampled /\ Fetched' = Fetched
    BY DEF Now, TIP, Taken, Sampled, Fetched
  <2>2. (Answered' <=> Answered) /\ (Over' <=> Over)
    BY <2>1 DEF Answered, Over
  <2>3. After' <=> After
    BY <2>2 DEF After
  <2>4. Acked' <=> Acked
    BY <2>2, <2>3 DEF Acked
  <2>5. Through' = Through
    BY <2>1, <2>4 DEF Through
  <2>6. \A n : Reg(n)' = Reg(n)
    BY DEF Reg
  <2>7. Counted' /\ Present'
    BY <2>1, <2>5 DEF ServiceInv, Counted, Present, Device!Here
  <2>8. Pointed'
    BY <2>1, <2>3, <2>5, <2>6 DEF ServiceInv, Pointed
  <2>9. Received'
    BY <2>1, <2>3, <2>6 DEF ServiceInv, Received
  <2>10. UNCHANGED Service!serviceVars
    BY DEF Service!serviceVars
  <2> QED BY <2>7, <2>8, <2>9, <2>10 DEF ServiceInv
<1> QED BY <1>1, <1>2

LEMMA ServiceStart ==
  ASSUME DriverInit
  PROVE  ServiceInv /\ Service!ServiceInit
<1>1. /\ p_state = "Reset" /\ data_out = dout /\ held = FALSE /\ stage = "ready"
      /\ call = NoCall /\ step = 1 /\ got = << >> /\ result = "I2C_SUCCESS" /\ stored = 0
      /\ regs = Device!Blank
  BY DEF DriverInit, InterfaceInit, CoreInit, Device!DeviceInit
<1>2. NoCall \notin Transfers /\ NoCall = Service!NoCall
  BY DEF NoCall, Transfers, Service!NoCall
<1>3. ServiceInv
  BY <1>1, <1>2 DEF ServiceInv, Counted, Present, Pointed, Received
<1>4. /\ (IF call \in Transfers THEN call ELSE NoCall) = NoCall
      /\ stored + Len(got) = 0
  BY <1>1, <1>2
<1> QED BY <1>1, <1>2, <1>3, <1>4 DEF Service!ServiceInit

\* What the device has, and what the program has of it, is what the call is at.
THEOREM ServiceInvariant ==
  ASSUME NotEmpty, Slowed
  PROVE  DriverSpec => []ServiceInv
<1>1. DriverInit => ServiceInv
  BY ServiceStart
<1>2. DriverInv /\ BusInv /\ ServiceInv /\ [DriverNext]_driverVars => ServiceInv'
  BY ServiceStep
<1> QED BY <1>1, <1>2, DriverInvariant, BusInvariant, PTL DEF DriverSpec

\* The bytes written and read are the right ones of the right registers, in
\* order, and the status that a call returns tells what it did (i2c.c), bit by
\* bit over the wires and whatever the device refuses.
THEOREM DriverKeepsService ==
  ASSUME NotEmpty, Slowed
  PROVE  DriverSpec => KeepsService
<1>1. DriverInit => Service!ServiceInit
  BY ServiceStart
<1>2. DriverInv /\ BusInv /\ ServiceInv /\ [DriverNext]_driverVars
        => [Service!ServiceNext]_Service!serviceVars
  BY ServiceStep
<1> QED BY <1>1, <1>2, DriverInvariant, BusInvariant, ServiceInvariant, PTL
        DEF DriverSpec, KeepsService, Service!ServiceSpec

============================================================================
