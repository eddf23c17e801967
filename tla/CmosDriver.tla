----------------------------- MODULE CmosDriver -----------------------------
(***************************************************************************)
(* The driver of the generator                                             *)
(* (LCD/sw/nios2/application/cmos_sensor_output_generator) on the          *)
(* generator.  A program makes any calls, one after the other.             *)
(*                                                                         *)
(* A write takes one clock, a read two (readWaitTime 1 in                  *)
(* cmos_sensor_output_generator_hw.tcl), and between two accesses the      *)
(* processor computes for a clock or more.  The driver needs that clock:   *)
(* the status read on the clock after a stop is still that of a generator  *)
(* at work.                                                                *)
(***************************************************************************)
EXTENDS Cmos, Sequences

CONSTANT Calls    \* the calls the program makes (bounds TLC)

\* Any value in bounds may be asked for.
ASSUME AnyValueAssumption ==
  \A f \in Fields : \A n \in 0..MaxConfig : InBounds(f, n) => n \in Values[f]

VARIABLES
  call,      \* the call under way
  step,      \* 0 for the command, else the register that is written
  stage,     \* where in write_*_reg
  held,      \* on the second clock of a read
  free,      \* there was no access on the clock before
  success,   \* the variable of configure
  last       \* history: the last call that returned

driverVars == <<generatorVars, call, step, stage, held, free, success, last>>

NoCall == [op |-> "none"]

cmos_sensor_output_generator_init ==
  [op |-> "init", values |-> [i \in 1..6 |-> Minimum(Registers[i])]]
cmos_sensor_output_generator_configure(values) == [op |-> "configure", values |-> values]
cmos_sensor_output_generator_start == [op |-> "start", values |-> << >>]
cmos_sensor_output_generator_stop == [op |-> "stop", values |-> << >>]

IsCall(c) ==
  \/ c \in {cmos_sensor_output_generator_init, cmos_sensor_output_generator_start,
            cmos_sensor_output_generator_stop}
  \/ /\ c.values \in [1..6 -> Nat]
     /\ c = cmos_sensor_output_generator_configure(c.values)

ASSUME CallsAssumption == \A c \in Calls : IsCall(c)

Value == call.values[step]

\* write_*_reg has written its register, or returned false.
NextRegister(written) ==
  /\ success' = (success /\ written)
  /\ IF step < Len(call.values)
     THEN step' = step + 1 /\ stage' = "bounds"
     ELSE stage' = "return" /\ UNCHANGED step
  /\ UNCHANGED <<call, last>>

Begin(c) ==
  /\ stage = "ready"
  /\ call' = c
  /\ step' = 0
  /\ stage' = "command"
  /\ success' = TRUE
  /\ UNCHANGED last

Return ==
  /\ stage = "return"
  /\ call' = NoCall
  /\ stage' = "ready"
  /\ last' = call.op
  /\ UNCHANGED <<step, success>>

\* Slip: zero is taken for in bounds.
CheckBoundsUpper ==
  /\ stage = "bounds"
  /\ IF Value <= MaxConfig
     THEN stage' = "is_idle" /\ UNCHANGED <<call, step, success, last>>
     ELSE NextRegister(FALSE)

CheckBounds ==
  /\ stage = "bounds"
  /\ IF InBounds(Registers[step], Value)
     THEN stage' = "is_idle" /\ UNCHANGED <<call, step, success, last>>
     ELSE NextRegister(FALSE)

Compute == UNCHANGED <<call, step, stage, success, last>>

NoAccessClock ==
  /\ ~held /\ held' = FALSE
  /\ free' = TRUE
  /\ Compute \/ Return \/ CheckBounds \/ \E c \in Calls : Begin(c)
  /\ GeneratorClock(NoAccess)

WR_COMMAND ==
  /\ stage = "command" /\ free
  /\ NextRegister(TRUE)
  /\ UNCHANGED held
  /\ GeneratorClock(Write(COMMAND, IF call.op = "start" THEN START ELSE STOP))

WR_CONFIG ==
  /\ stage = "write" /\ free
  /\ NextRegister(TRUE)
  /\ UNCHANGED held
  /\ GeneratorClock(Write(step - 1, Value))

ReadStatus ==
  /\ stage = "is_idle" /\ free /\ ~held
  /\ held' = TRUE
  /\ UNCHANGED <<call, step, stage, success, last>>
  /\ GeneratorClock(Read(STATUS))

is_idle ==
  /\ held
  /\ held' = FALSE
  /\ IF rddata = IDLE
     THEN stage' = "write" /\ UNCHANGED <<call, step, success, last>>
     ELSE NextRegister(FALSE)
  /\ GeneratorClock(Read(STATUS))

AccessClock ==
  /\ WR_COMMAND \/ WR_CONFIG \/ ReadStatus \/ is_idle
  /\ free' = FALSE

\* The program starts anew with the generator: one reset for the whole system.
SystemReset ==
  /\ Reset
  /\ call' = NoCall /\ step' = 0 /\ stage' = "ready"
  /\ held' = FALSE /\ free' = TRUE
  /\ success' = TRUE
  /\ last' = "none"

DriverInit ==
  /\ GeneratorInit
  /\ call = NoCall /\ step = 0 /\ stage = "ready"
  /\ held = FALSE /\ free = TRUE
  /\ success = TRUE
  /\ last = "none"

DriverNext == NoAccessClock \/ AccessClock \/ SystemReset

DriverSpec == DriverInit /\ [][DriverNext]_driverVars

\* The clock runs; the program need not make a call, nor get on with one.
DriverFairSpec == DriverSpec /\ WF_driverVars(NoAccessClock \/ AccessClock)

DriverTypeOK ==
  /\ GeneratorTypeOK
  /\ call \in Calls \cup {NoCall}
  /\ step \in 0..6
  /\ stage \in {"ready", "command", "bounds", "is_idle", "write", "return"}
  /\ held \in BOOLEAN /\ free \in BOOLEAN /\ success \in BOOLEAN

----------------------------------------------------------------------------

Legal(i) == InBounds(Registers[i], call.values[i])

Configuring == call.op \in {"init", "configure"}

\* The registers that are written, or refused.
Done == CASE stage = "command" -> {}
          [] stage \in {"bounds", "is_idle", "write"} -> 1..(step - 1)
          [] OTHER -> 1..6

\* configure says true exactly when all six values are in bounds, whatever the
\* generator was doing; in any case each register whose value is has it, and so
\* a call that fails has changed the others (cmos_sensor_output_generator.c:288).
Configured ==
  stage = "return" /\ Configuring =>
    /\ success <=> \A i \in 1..6 : Legal(i)
    /\ \A i \in 1..6 : Legal(i) => config[Registers[i]] = call.values[i]

\* The generator does what the last call said when the next can ask it: it is at
\* work after a start and idle after any other call, or none, in whatever state they
\* found it (check_busy and check_idle of tb_cmos_sensor_output_generator.vhd).
Obeys == stage \in {"ready", "command"} => (reg_state # "Idle" <=> last = "start")

\* No write of a register is ignored, or meets a generator about to start.
WritesLand == stage = "write" => reg_state = "Idle" /\ ~reg_start

\* Where in a call the driver is, and what it has done of it.
Progress ==
  /\ stage = "ready" <=> call = NoCall
  /\ stage = "command" => step = 0
  /\ stage \in {"bounds", "is_idle", "write"} => Configuring /\ step \in 1..6
  /\ stage \in {"is_idle", "write"} => Legal(step)
  /\ Configuring =>
       /\ success <=> \A i \in Done : Legal(i)
       /\ \A i \in Done : Legal(i) => config[Registers[i]] = call.values[i]

\* A command is taken on the clock after its write, whatever the processor does
\* on it; until then the generator is not what the driver believes.
CommandTaken ==
  /\ free => ~reg_start /\ ~reg_stop
  /\ stage \in {"ready", "command"} => free
  /\ stage = "return" /\ call.op = "start" => ~reg_stop /\ (reg_start \/ reg_state # "Idle")
  /\ stage = "bounds" \/ (stage = "return" /\ call.op # "start") =>
       ~reg_start /\ (reg_stop \/ reg_state = "Idle")
  /\ stage = "is_idle" => reg_state = "Idle" /\ ~reg_start
  /\ held => stage = "is_idle" /\ ~free /\ rddata = IDLE

\* Inductive, with CmosInv.
DriverInv ==
  /\ DriverTypeOK
  /\ Progress
  /\ CommandTaken
  /\ WritesLand
  /\ Obeys

\* The driver keeps the rules the generator relies on: each of its clocks is one
\* of Cmos, so that what holds there of the frames holds under the driver.
KeepsRules == Spec

============================================================================
