---------------------------- MODULE CmosSensor ------------------------------
(***************************************************************************)
(* What the generator stands for: a sensor whose pins go through the same  *)
(* period again and again, from the clock it is started until it is        *)
(* stopped.  A period is a frame and the blank after it; the frame is      *)
(* frame_height lines of frame_width numbered pixels, a blank between each *)
(* two of them, and a blank before the first and after the last.           *)
(***************************************************************************)
EXTENDS Integers

CONSTANTS
  Configs,     \* the configurations
  Initial,     \* the one it has when it is reset
  PixelSpan    \* how many values a pixel has

VARIABLES
  config,                         \* the shape of the frames
  clocks,                         \* clocks since the period began, 0 when stopped
  frame_valid, line_valid, data   \* the pins

sensorVars == <<config, clocks, frame_valid, line_valid, data>>

LinePeriod(c) == c["frame_width"] + c["line_line_blank"]

\* From the first pixel of a frame to the last.
Lines(c) == c["frame_height"] * LinePeriod(c) - c["line_line_blank"]

Frame(c) == c["frame_line_blank"] + Lines(c) + c["line_frame_blank"]

Period(c) == Frame(c) + c["frame_frame_blank"]

\* The clock of a period on which the pixel of a line and column is output.
Pixel(c, line, column) == c["frame_line_blank"] + line * LinePeriod(c) + column + 1

LinesOf(c) == 0..(c["frame_height"] - 1)
ColumnsOf(c) == 0..(c["frame_width"] - 1)

\* What the pins show on a clock of the period.
Shows(c, n, fv, lv, d) ==
  /\ fv <=> n \in 1..Frame(c)
  /\ lv <=> \E line \in LinesOf(c), column \in ColumnsOf(c) : n = Pixel(c, line, column)
  /\ ~lv => d = 0
  /\ \A line \in LinesOf(c), column \in ColumnsOf(c) :
       n = Pixel(c, line, column) => d = (line * c["frame_width"] + column) % PixelSpan

SensorInit ==
  /\ config = Initial
  /\ clocks = 0
  /\ Shows(config, clocks, frame_valid, line_valid, data)

Configure ==
  /\ clocks = 0
  /\ config' \in Configs
  /\ clocks' = 0

Run ==
  /\ config' = config
  /\ clocks' = IF clocks = Period(config) THEN 1 ELSE clocks + 1

Halt ==
  /\ config' = config
  /\ clocks' = 0

Restart ==
  /\ config' = Initial
  /\ clocks' = 0

SensorNext ==
  /\ Configure \/ Run \/ Halt \/ Restart
  /\ Shows(config', clocks', frame_valid', line_valid', data')

SensorSpec == SensorInit /\ [][SensorNext]_sensorVars

============================================================================
