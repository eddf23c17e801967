-------------------------------- MODULE Cmos --------------------------------
(***************************************************************************)
(* The generator under any Avalon master that keeps to the bounds of the   *)
(* registers and does not write one on the clock after a start, when the   *)
(* state machine is about to leave Idle.  (CmosDriver keeps both rules.)   *)
(* It may be reset at any time.                                            *)
(***************************************************************************)
EXTENDS CmosGenerator

CONSTANT Values    \* the values it writes into each register (bounds TLC)

ASSUME ValuesAssumption ==
  Values \in [Fields -> SUBSET (0..MaxConfig)]

Written(access) == Registers[access.address + 1]

IsConfig(access) == access.op = "write" /\ access.address \in 0..5

Accesses ==
  {NoAccess} \cup {Read(a) : a \in 0..7}
    \cup {Write(COMMAND, c) : c \in {STOP, START}}
    \cup {Write(a, n) : a \in 0..5, n \in 0..MaxConfig}

Polite(access) ==
  IsConfig(access) =>
    /\ InBounds(Written(access), access.data)
    /\ access.data \in Values[Written(access)]
    /\ ~reg_start

ClockEdge == \E access \in Accesses : Polite(access) /\ GeneratorClock(access)

Reset ==
  /\ config' = Minima
  /\ reg_start' = FALSE /\ reg_stop' = FALSE
  /\ rddata' = 0
  /\ reg_state' = "Idle"
  /\ counter' = [f \in Fields |-> 0]

Init == GeneratorInit

Next == ClockEdge \/ Reset

Spec == Init /\ [][Next]_generatorVars

----------------------------------------------------------------------------
(* The inductive invariant: the state machine never passes the end it waits *)
(* for, so that no counter has to wrap around to meet it.                   *)

ConfigInBounds == \A f \in Fields : InBounds(f, config[f])

CounterInReach ==
  reg_state # "Idle" => counter[Counts[reg_state]] \in 1..config[Counts[reg_state]]

LineInFrame ==
  /\ reg_state = "Valid" => counter["frame_height"] \in 1..config["frame_height"]
  /\ reg_state = "LineLineBlank" =>
       counter["frame_height"] \in 1..(config["frame_height"] - 1)

CmosInv ==
  /\ GeneratorTypeOK
  /\ ConfigInBounds
  /\ CounterInReach
  /\ LineInFrame

\* A frame that has begun ends, whatever the six registers hold; none goes on for
\* ever with a counter that has missed its end (NEXT_STATE_LOGIC).
FramesEnd == frame_valid ~> ~frame_valid

----------------------------------------------------------------------------
(* The refinement: how far the period has come.                             *)

Shape == INSTANCE CmosSensor
  WITH Configs <- {}, Initial <- Minima, clocks <- 0, frame_valid <- FALSE, line_valid <- FALSE, data <- 0

\* The clocks before the first pixel of the line.
Line ==
  config["frame_line_blank"] + (counter["frame_height"] - 1) * Shape!LinePeriod(config)

Clocks ==
  CASE reg_state = "Idle"            -> 0
    [] reg_state = "FrameLineBlank"  -> counter["frame_line_blank"]
    [] reg_state = "Valid"           -> Line + counter["frame_width"]
    [] reg_state = "LineLineBlank"   -> Line + config["frame_width"]
                                             + counter["line_line_blank"]
    [] reg_state = "LineFrameBlank"  -> config["frame_line_blank"] + Shape!Lines(config)
                                             + counter["line_frame_blank"]
    [] reg_state = "FrameFrameBlank" -> Shape!Frame(config) + counter["frame_frame_blank"]

Sensor == INSTANCE CmosSensor
  WITH Configs <- {c \in [Fields -> Nat] : \A f \in Fields : InBounds(f, c[f])},
       Initial <- Minima, clocks <- Clocks

\* The pins are a sensor's: every frame has its lines and pixels, each with its
\* number, and its blanks, to the clock (NEXT_STATE_LOGIC and the outputs in it).
IsSensor == Sensor!SensorSpec

============================================================================
