--------------------------- MODULE CmosGenerator ----------------------------
(***************************************************************************)
(* cmos_sensor_output_generator: six configuration registers, a state and  *)
(* six counters, and the pins a CMOS sensor would drive                    *)
(* (LCD/hw/quartus/ip/cmos_sensor_output_generator/hdl).  The access on    *)
(* the Avalon port is the parameter of a clock.                            *)
(***************************************************************************)
EXTENDS Integers

CONSTANTS
  MaxConfig,    \* max(MAX_WIDTH, MAX_HEIGHT)
  ConfigSpan,   \* 2 ** CONFIG_REG_WIDTH: a register or counter holds less
  PixelSpan     \* 2 ** PIX_DEPTH

ASSUME GeneratorAssumption ==
  /\ MaxConfig \in Nat \ {0}
  /\ ConfigSpan \in Nat /\ MaxConfig < ConfigSpan
  /\ PixelSpan \in Nat \ {0}

Fields == {"frame_width", "frame_height", "frame_frame_blank", "frame_line_blank",
           "line_line_blank", "line_frame_blank"}

Registers == <<"frame_width", "frame_height", "frame_frame_blank", "frame_line_blank",
               "line_line_blank", "line_frame_blank">>

Minimum(f) == IF f \in {"frame_line_blank", "line_frame_blank"} THEN 0 ELSE 1

Minima == [f \in Fields |-> Minimum(f)]

InBounds(f, n) == n \in Minimum(f)..MaxConfig

COMMAND == 6
STATUS == 7
STOP == 0
START == 1
IDLE == 1
BUSY == 0

VARIABLES
  config,                \* reg_*_config
  reg_start, reg_stop,   \* the command of the clock before
  rddata,                \* the registered output of the Avalon port
  reg_state,
  counter                \* reg_*_counter

generatorVars == <<config, reg_start, reg_stop, rddata, reg_state, counter>>

NoAccess == [op |-> "none"]
Read(a) == [op |-> "read", address |-> a]
Write(a, d) == [op |-> "write", address |-> a, data |-> d]

States == {"Idle", "FrameFrameBlank", "FrameLineBlank", "Valid", "LineLineBlank",
           "LineFrameBlank"}

Stored == 0..(ConfigSpan - 1)

GeneratorTypeOK ==
  /\ config \in [Fields -> Stored]
  /\ reg_start \in BOOLEAN /\ reg_stop \in BOOLEAN
  /\ reg_state \in States
  /\ counter \in [Fields -> Stored]

GeneratorInit ==
  /\ config = Minima
  /\ reg_start = FALSE /\ reg_stop = FALSE
  /\ rddata = 0
  /\ reg_state = "Idle"
  /\ counter = [f \in Fields |-> 0]

----------------------------------------------------------------------------
(* The pins. *)

frame_valid == reg_state \notin {"Idle", "FrameFrameBlank"}

line_valid == reg_state = "Valid"

data ==
  IF line_valid
  THEN ((counter["frame_height"] - 1) * config["frame_width"]
          + (counter["frame_width"] - 1)) % PixelSpan
  ELSE 0

----------------------------------------------------------------------------
(* The Avalon port: MM_WRITE and MM_READ. *)

Sets(access, f) ==
  access.op = "write" /\ access.address \in 0..5 /\ Registers[access.address + 1] = f

Commands(access, command) ==
  access.op = "write" /\ access.address = COMMAND /\ access.data % 2 = command

WriteConfig(access) ==
  config' = [f \in Fields |-> IF Sets(access, f) /\ reg_state = "Idle"
                              THEN access.data % ConfigSpan ELSE config[f]]

\* Slip: a stop is only taken while a line is output.
WriteCommandInLine(access) ==
  /\ reg_start' = (Commands(access, START) /\ reg_state = "Idle")
  /\ reg_stop' = (Commands(access, STOP) /\ line_valid)

WriteCommand(access) ==
  /\ reg_start' = (Commands(access, START) /\ reg_state = "Idle")
  /\ reg_stop' = (Commands(access, STOP) /\ reg_state # "Idle")

MM_READ(access) ==
  rddata' = IF access.op # "read" \/ access.address = COMMAND THEN 0
            ELSE IF access.address = STATUS THEN (IF reg_state = "Idle" THEN IDLE ELSE BUSY)
            ELSE config[Registers[access.address + 1]]

----------------------------------------------------------------------------
(* The state machine.  Each state but Idle counts one of the counters and   *)
(* ends when the counter has reached the register of the same name.         *)

Counts ==
  [FrameFrameBlank |-> "frame_frame_blank", FrameLineBlank |-> "frame_line_blank",
   Valid |-> "frame_width", LineLineBlank |-> "line_line_blank",
   LineFrameBlank |-> "line_frame_blank"]

Counted ==
  [counter EXCEPT ![Counts[reg_state]] = (counter[Counts[reg_state]] + 1) % ConfigSpan]

Full == counter[Counts[reg_state]] = config[Counts[reg_state]]

Enter(state, counts) == reg_state' = state /\ counter' = counts

EnterBlank(state, counts) == Enter(state, [counts EXCEPT ![Counts[state]] = 1])

FirstLine(counts) ==
  Enter("Valid", [counts EXCEPT !["frame_width"] = 1, !["frame_height"] = 1])

BeginFrame(counts) ==
  IF config["frame_line_blank"] > 0
  THEN EnterBlank("FrameLineBlank", counts)
  ELSE FirstLine(counts)

StayIdle == reg_state = "Idle" /\ ~reg_start /\ UNCHANGED <<reg_state, counter>>

Start == reg_state = "Idle" /\ reg_start /\ BeginFrame(counter)

Stop == reg_state # "Idle" /\ reg_stop /\ Enter("Idle", Counted)

Running == reg_state # "Idle" /\ ~reg_stop

GoOn == Running /\ ~Full /\ Enter(reg_state, Counted)

Ends(state) == Running /\ reg_state = state /\ Full

EndFrameFrameBlank == Ends("FrameFrameBlank") /\ BeginFrame(Counted)

EndFrameLineBlank == Ends("FrameLineBlank") /\ FirstLine(Counted)

\* Slip: the last line is taken for one that another line follows.
EndLineLate ==
  /\ Ends("Valid")
  /\ IF counter["frame_height"] <= config["frame_height"]
     THEN EnterBlank("LineLineBlank", Counted)
     ELSE IF config["line_frame_blank"] > 0
     THEN EnterBlank("LineFrameBlank", Counted)
     ELSE EnterBlank("FrameFrameBlank", Counted)

EndLine ==
  /\ Ends("Valid")
  /\ IF counter["frame_height"] < config["frame_height"]
     THEN EnterBlank("LineLineBlank", Counted)
     ELSE IF counter["frame_height"] > config["frame_height"]
     THEN Enter("Valid", Counted)
     ELSE IF config["line_frame_blank"] > 0
     THEN EnterBlank("LineFrameBlank", Counted)
     ELSE EnterBlank("FrameFrameBlank", Counted)

\* Slip: the next line does not begin at its first pixel.
EndLineLineBlankOn ==
  /\ Ends("LineLineBlank")
  /\ Enter("Valid", [Counted EXCEPT !["frame_height"] = (@ + 1) % ConfigSpan])

\* Slip: the lines are not counted.
EndLineLineBlankSame ==
  /\ Ends("LineLineBlank")
  /\ Enter("Valid", [Counted EXCEPT !["frame_width"] = 1])

EndLineLineBlank ==
  /\ Ends("LineLineBlank")
  /\ Enter("Valid", [Counted EXCEPT !["frame_width"] = 1,
                                    !["frame_height"] = (@ + 1) % ConfigSpan])

EndLineFrameBlank == Ends("LineFrameBlank") /\ EnterBlank("FrameFrameBlank", Counted)

StateClock ==
  \/ StayIdle
  \/ Start
  \/ Stop
  \/ GoOn
  \/ EndFrameFrameBlank
  \/ EndFrameLineBlank
  \/ EndLine
  \/ EndLineLineBlank
  \/ EndLineFrameBlank

GeneratorClock(access) ==
  /\ WriteConfig(access)
  /\ WriteCommand(access)
  /\ MM_READ(access)
  /\ StateClock

============================================================================
