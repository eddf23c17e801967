----------------------------- MODULE I2cDriver -----------------------------
(***************************************************************************)
(* The I2C driver (LCD/sw/nios2/application/i2c/i2c.c) on the I2C master,  *)
(* with a device on the bus.  A call is a record: what it does, to which   *)
(* device, from which register, with which bytes.  i2c_write and i2c_read  *)
(* are the array calls with one byte, transfer by transfer.                *)
(*                                                                         *)
(* A write to a register takes one clock, a read two: the interface shows  *)
(* on the second what it sampled on the first (readWaitTime 1 in           *)
(* i2c_hw.tcl).  Between two accesses the processor computes for any       *)
(* number of clocks.                                                       *)
(***************************************************************************)
EXTENDS I2cInterface, Sequences

CONSTANTS
  DeviceAddress,   \* where the device is
  Calls            \* the calls the program makes (bounds TLC)

ASSUME DriverAssumption == DeviceAddress \in Byte

VARIABLES
  dphase, dbits, dbyte, dptr, regs, dsda, dscl, dpin,   \* the device's
  call,      \* the call under way
  step,      \* the transfer of it that is being made
  stage,     \* where in set_data_control or get_data_set_control
  held,      \* on the second clock of a read
  got,       \* value[]: the bytes read by the call
  result,    \* what the last call returned
  stored     \* history: bytes the device has stored for the call

Device == INSTANCE I2cDevice

programVars == <<call, step, stage, held, got, result>>
driverVars == <<interfaceVars, Device!deviceVars, programVars, stored>>

NoCall == [op |-> "none"]

Transfers == {c \in Calls : c.op \in {"read", "write"}}

i2c_write_array(device, index, values) ==
  [op |-> "write", device |-> device, index |-> index, values |-> values,
   size |-> Len(values)]
i2c_read_array(device, index, size) ==
  [op |-> "read", device |-> device, index |-> index, size |-> size]
i2c_write(device, index, value) == i2c_write_array(device, index, <<value>>)
i2c_read(device, index) == i2c_read_array(device, index, 1)
i2c_configure(enable) == [op |-> "configure", irq |-> enable]
i2c_init(frequency) == [op |-> "init", frequency |-> frequency]

IsCall(c) ==
  /\ c.op \in {"write", "read", "configure", "init"}
  /\ c.op \in {"write", "read"} => c.device \in Byte /\ c.index \in Byte
  /\ c.op = "write" => /\ c.values \in Seq(Byte)
                       /\ c = i2c_write_array(c.device, c.index, c.values)
  /\ c.op = "read" => c.size \in Nat /\ c = i2c_read_array(c.device, c.index, c.size)
  /\ c.op = "configure" => c.irq \in BOOLEAN /\ c = i2c_configure(c.irq)
  /\ c.op = "init" => c.frequency \in Nat /\ c = i2c_init(c.frequency)

ASSUME CallsAssumption == \A c \in Calls : IsCall(c)

----------------------------------------------------------------------------
(* The transfers of a call. *)

Ctl(start, stop, read, write, ack) ==
  [NoControl EXCEPT !.start = start, !.stop = stop, !.read = read, !.write = write,
                    !.ack = ack]

StopOnly == Ctl(FALSE, TRUE, FALSE, FALSE, 0)

\* set_data_control, and the error of a missing acknowledge.
Send(data, start, stop, error) ==
  [kind |-> "send", data |-> data, control |-> Ctl(start, stop, FALSE, TRUE, 0),
   error |-> error]

\* Slip: the last byte read is acknowledged like the others.
ReceiveAcked(last) ==
  [kind |-> "receive", control |-> Ctl(FALSE, last, TRUE, FALSE, 0)]

\* get_data_set_control: the last byte is not acknowledged, and followed by STOP.
Receive(last) ==
  [kind |-> "receive",
   control |-> Ctl(FALSE, last, TRUE, FALSE, IF last THEN 1 ELSE 0)]

Put(address, data) == [kind |-> "put", address |-> address, data |-> data]

ForWriting(device) == [device EXCEPT ![Bits] = 0]
ForReading(device) == [device EXCEPT ![Bits] = 1]

\* Slip: `i < size' for `i < size - 1', so that no byte is the last.
WriteStepsUnstopped(c) ==
  << Send(ForWriting(c.device), TRUE, FALSE, "I2C_ENODEV"),
     Send(c.index, FALSE, FALSE, "I2C_EBADACK") >>
  \o [i \in 1..c.size |-> Send(c.values[i], FALSE, FALSE, "I2C_EBADACK")]

WriteSteps(c) ==
  << Send(ForWriting(c.device), TRUE, FALSE, "I2C_ENODEV"),
     Send(c.index, FALSE, FALSE, "I2C_EBADACK") >>
  \o [i \in 1..c.size |-> Send(c.values[i], FALSE, i = c.size, "I2C_EBADACK")]

ReadSteps(c) ==
  << Send(ForWriting(c.device), TRUE, FALSE, "I2C_ENODEV"),
     Send(c.index, FALSE, FALSE, "I2C_EBADACK"),
     Send(ForReading(c.device), TRUE, FALSE, "I2C_ENODEV") >>
  \o [i \in 1..c.size |-> Receive(i = c.size)]

ConfigureSteps(c) ==
  << Put(1, StopOnly), Put(1, [NoControl EXCEPT !.int_en = c.irq]) >>

\* uint32_t divided, stored through an eight-bit register.
Divisor(frequency) == (frequency \div 400000) % 256

InitSteps(c) == << Put(3, Divisor(c.frequency)) >>

Steps(c) ==
  CASE c.op = "write"     -> WriteSteps(c)
    [] c.op = "read"      -> ReadSteps(c)
    [] c.op = "configure" -> ConfigureSteps(c)
    [] c.op = "init"      -> InitSteps(c)

Now == Steps(call)[step]

----------------------------------------------------------------------------
(* The program, one clock at a time: the access it makes on this one.       *)

FirstStage(s) == IF s.kind = "put" THEN "put" ELSE "wait"

Return(status) ==
  /\ call' = NoCall
  /\ stage' = "ready"
  /\ step' = 1
  /\ result' = status

NextStep ==
  /\ IF step < Len(Steps(call))
     THEN step' = step + 1 /\ stage' = FirstStage(Steps(call)[step + 1])
     ELSE stage' = "return" /\ UNCHANGED step
  /\ UNCHANGED <<call, result>>

Begin(c) ==
  /\ stage = "ready"
  /\ call' = c
  /\ step' = 1
  /\ stage' = FirstStage(Steps(c)[1])
  /\ IF c \in Transfers THEN got' = << >> /\ stored' = 0 ELSE UNCHANGED <<got, stored>>
  /\ UNCHANGED <<held, result>>

\* i2c_configure and i2c_init return nothing.
Succeed ==
  /\ stage = "return"
  /\ Return(IF call \in Transfers THEN "I2C_SUCCESS" ELSE result)
  /\ UNCHANGED <<held, got>>

Compute == ~held /\ UNCHANGED programVars

\* The access the program makes, if it makes one on this clock.
Access ==
  CASE stage = "put"     -> Write(Now.address, Now.data)
    [] stage = "data"    -> Write(0, Now.data)
    [] stage = "control" -> Write(1, Now.control)
    [] stage = "giveup"  -> Write(1, StopOnly)
    [] stage = "fetch"   -> Read(0)
    [] stage \in {"wait", "await", "status"} -> Read(2)

PutRegister ==
  /\ stage = "put"
  /\ NextStep
  /\ UNCHANGED <<held, got>>

I2C_WR_DATA ==
  /\ stage = "data"
  /\ stage' = "control"
  /\ UNCHANGED <<call, step, held, got, result>>

I2C_WR_CONTROL ==
  /\ stage = "control"
  /\ stage' = "await"
  /\ UNCHANGED <<call, step, held, got, result>>

GiveUp ==
  /\ stage = "giveup"
  /\ Return(Now.error)
  /\ UNCHANGED <<held, got>>

\* The first clock of a read, and for each read the use made of it on the second.
ReadFirst ==
  /\ stage \in {"wait", "await", "status", "fetch"} /\ ~held
  /\ held' = TRUE
  /\ UNCHANGED <<call, step, stage, got, result>>

ReadSecond(at) ==
  /\ stage = at /\ held
  /\ held' = FALSE

\* Slip: only the first of the two waits of a transfer.
WaitAfterNot ==
  /\ ReadSecond("await")
  /\ stage' = IF Now.kind = "send" THEN "status" ELSE "fetch"
  /\ UNCHANGED <<call, step, got, result>>

\* wait_end_of_transfer before a command, and after it.
WaitBefore ==
  /\ ReadSecond("wait")
  /\ stage' = IF readdata[2].tip THEN "wait"
              ELSE IF Now.kind = "send" THEN "data" ELSE "control"
  /\ UNCHANGED <<call, step, got, result>>

WaitAfter ==
  /\ ReadSecond("await")
  /\ stage' = IF readdata[2].tip THEN "await"
              ELSE IF Now.kind = "send" THEN "status" ELSE "fetch"
  /\ UNCHANGED <<call, step, got, result>>

CheckAcknowledge ==
  /\ ReadSecond("status")
  /\ IF readdata[2].lar = 1
     THEN stage' = "giveup" /\ UNCHANGED <<call, step, result>>
     ELSE NextStep
  /\ UNCHANGED got

I2C_RD_DATA ==
  /\ ReadSecond("fetch")
  /\ got' = Append(got, readdata[2])
  /\ NextStep

Driving ==
  \/ PutRegister
  \/ I2C_WR_DATA
  \/ I2C_WR_CONTROL
  \/ GiveUp
  \/ ReadFirst
  \/ WaitBefore
  \/ WaitAfter
  \/ CheckAcknowledge
  \/ I2C_RD_DATA

----------------------------------------------------------------------------
(* Program, interface and device, one clock at a time. *)

Wires(access) ==
  /\ InterfaceClock(access, dsda)
  /\ Device!DeviceClock(SCL, SDA(dsda))

\* The device stores a byte when it takes one it was written.
Stored == dphase = "data" /\ dbits = Bits /\ dbits' = Bits + 1

Remember == stored' = IF Stored THEN stored + 1 ELSE stored

DriverClock ==
  \/ Driving /\ Wires(Access) /\ Remember
  \/ Succeed /\ Wires(NoAccess) /\ Remember

OtherClock ==
  /\ Wires(NoAccess)
  /\ \/ Compute /\ Remember
     \/ \E c \in Calls : Begin(c)

DriverInit ==
  /\ InterfaceInit
  /\ Device!DeviceInit
  /\ call = NoCall /\ step = 1 /\ stage = "ready"
  /\ held = FALSE /\ got = << >> /\ result = "I2C_SUCCESS"
  /\ stored = 0

DriverNext == DriverClock \/ OtherClock

DriverSpec == DriverInit /\ [][DriverNext]_driverVars

(* The clock runs, and the processor does not stop inside a call. *)
DriverFairSpec == DriverSpec /\ WF_driverVars(DriverNext) /\ WF_driverVars(DriverClock)

DriverTypeOK ==
  /\ InterfaceTypeOK
  /\ Device!DeviceTypeOK
  /\ call \in Calls \cup {NoCall}
  /\ step \in Nat \ {0}
  /\ stage \in {"ready", "put", "wait", "data", "control", "await", "status", "giveup", "fetch", "return"}
  /\ held \in BOOLEAN
  /\ got \in Seq(Byte)
  /\ stored \in Nat

----------------------------------------------------------------------------

Service == INSTANCE I2cService
  WITH Calls <- Transfers, Here <- Device!Here, Successor <- Device!Successor,
       Blank <- Device!Blank,
       call <- IF call \in Transfers THEN call ELSE NoCall,
       done <- stored + Len(got)

\* No write of the driver is ignored or changes a transfer: when it makes one,
\* the interface takes it and the core has nothing to do (i2c.c:48, 51, 61, 63).
WritesLand ==
  stage \in {"put", "data", "control", "giveup"} => ~TIP /\ p_state \in {"Reset", "Idle"}

\* Where the program is in its call.
Calling ==
  /\ call = NoCall <=> stage = "ready"
  /\ call # NoCall => step \in 1..Len(Steps(call))
  /\ stage \notin {"ready", "return"} => (stage = "put" <=> Now.kind = "put")
  /\ stage \in {"data", "status", "giveup"} => Now.kind = "send"
  /\ stage = "fetch" => Now.kind = "receive"

\* What it has read, and that it has seen TIP go down before it goes on.
Polling ==
  /\ held => stage \in {"wait", "await", "status", "fetch"}
  /\ held /\ stage = "fetch" => readdata[2] \in Byte
  /\ stage # "await" => ~TIP /\ p_state \in {"Reset", "Idle"}
  /\ stage = "await" /\ held /\ ~readdata[2].tip => ~TIP /\ p_state = "Idle"

DriverInv ==
  /\ DriverTypeOK
  /\ WritesLand
  /\ Agreed
  /\ Calling
  /\ Polling

\* Each call does to the registers of the device what it says it did: the bytes
\* written and read are the right ones of the right registers, in order, all of
\* them on I2C_SUCCESS; and a device that is not there is never answered for.
KeepsService == Service!ServiceSpec

\* Every call returns, whatever the device refuses.
CallsReturn == call # NoCall ~> call = NoCall

\* While SCL is high SDA is still, but for START and STOP: no bit is taken for
\* one of them.
SdaStable ==
  [][ scl_out = 1 /\ scl_out' = 1 /\ SDA(dsda)' # SDA(dsda)
        => p_state \in {"Start_C", "Stop_C"} ]_driverVars

\* START and STOP come between bytes, where the device looks for them: it has
\* seen no bit of a byte but the one SCL's last rise made of them.
Framed ==
  dscl = 1 /\ SCL = 1 /\ dpin # SDA(dsda)
    => dphase = "free" \/ (Device!Receiving /\ dbits = 1)

\* A call that succeeds leaves the bus free: STOP was sent, the device let go.
FreeAfterSuccess ==
  stage = "ready" /\ result = "I2C_SUCCESS"
    => dphase = "free" /\ SCL = 1 /\ SDA(dsda) = 1

============================================================================
