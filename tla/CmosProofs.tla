----------------------------- MODULE CmosProofs -----------------------------
(***************************************************************************)
(* Theorems about Cmos and CmosDriver, for registers of any width: the     *)
(* inductive invariant of the state machine, that its pins are a sensor's, *)
(* and that the driver keeps its rules and configures what it is asked to. *)
(***************************************************************************)
EXTENDS CmosDriver, TLAPS

USE GeneratorAssumption

LEMMA MinimaLegal ==
  /\ Minima \in [Fields -> Stored]
  /\ \A f \in Fields : InBounds(f, Minima[f])
BY DEF Minima, Minimum, Stored, InBounds

LEMMA LegalStored ==
  ASSUME NEW f \in Fields, NEW n, InBounds(f, n)
  PROVE  n \in Stored /\ n \in Nat /\ n % ConfigSpan = n
BY DEF InBounds, Minimum, Stored

\* A polite access leaves the registers in bounds, and alone when a frame begins
\* or goes on.
LEMMA ConfigStep ==
  ASSUME CmosInv, NEW access \in Accesses, Polite(access), WriteConfig(access)
  PROVE  /\ config' \in [Fields -> Stored]
         /\ \A f \in Fields : InBounds(f, config'[f])
         /\ reg_state # "Idle" \/ reg_start => config' = config
<1>1. config \in [Fields -> Stored] /\ \A f \in Fields : InBounds(f, config[f])
  BY DEF CmosInv, GeneratorTypeOK, ConfigInBounds
<1>2. config' = [f \in Fields |-> IF Sets(access, f) /\ reg_state = "Idle"
                                  THEN access.data % ConfigSpan ELSE config[f]]
  BY DEF WriteConfig
<1>3. ASSUME NEW f \in Fields, Sets(access, f)
      PROVE  InBounds(f, access.data) /\ ~reg_start
  <2>1. access.op = "write" /\ access.address \in 0..5 /\ Registers[access.address + 1] = f
    BY <1>3 DEF Sets
  <2> QED  BY <2>1 DEF Polite, IsConfig, Written
<1>4. ASSUME NEW f \in Fields
      PROVE  config'[f] \in Stored /\ InBounds(f, config'[f])
  <2>1. CASE Sets(access, f) /\ reg_state = "Idle"
    <3>1. config'[f] = access.data % ConfigSpan
      BY <1>2, <2>1
    <3> QED  BY <3>1, <2>1, <1>3, LegalStored
  <2>2. CASE ~(Sets(access, f) /\ reg_state = "Idle")
    <3>1. config'[f] = config[f]
      BY <1>2, <2>2
    <3> QED  BY <3>1, <1>1
  <2> QED  BY <2>1, <2>2
<1>5. ASSUME reg_state # "Idle" \/ reg_start
      PROVE  config' = config
  <2>1. \A f \in Fields : config'[f] = config[f]
    BY <1>2, <1>3, <1>5
  <2> QED  BY <1>1, <1>2, <2>1
<1> QED  BY <1>2, <1>4, <1>5

LEMMA CountsField ==
  ASSUME NEW state \in States, state # "Idle"
  PROVE  /\ Counts[state] \in Fields
         /\ Counts[state] # "frame_height"
         /\ state = "FrameFrameBlank" => Counts[state] = "frame_frame_blank"
         /\ state = "FrameLineBlank" => Counts[state] = "frame_line_blank"
         /\ state = "Valid" => Counts[state] = "frame_width"
         /\ state = "LineLineBlank" => Counts[state] = "line_line_blank"
         /\ state = "LineFrameBlank" => Counts[state] = "line_frame_blank"
BY DEF Counts, States, Fields

\* One more of what the state counts, without a wrap while its end is to come.
LEMMA CountedStep ==
  ASSUME CmosInv, reg_state # "Idle"
  PROVE  /\ Counted \in [Fields -> Stored]
         /\ \A f \in Fields : f # Counts[reg_state] => Counted[f] = counter[f]
         /\ ~Full => /\ Counted[Counts[reg_state]] = counter[Counts[reg_state]] + 1
                     /\ Counted[Counts[reg_state]] \in 1..config[Counts[reg_state]]
<1> DEFINE c == Counts[reg_state]
<1>1. c \in Fields /\ counter \in [Fields -> Stored] /\ config \in [Fields -> Stored]
  BY CountsField DEF CmosInv, GeneratorTypeOK
<1>2. counter[c] \in 1..config[c] /\ config[c] < ConfigSpan
  BY <1>1 DEF CmosInv, CounterInReach, Stored
<1>3. (counter[c] + 1) % ConfigSpan \in Stored
  BY <1>1 DEF Stored
<1>4. Counted = [counter EXCEPT ![c] = (counter[c] + 1) % ConfigSpan]
  BY DEF Counted
<1>5. ASSUME ~Full
      PROVE  (counter[c] + 1) % ConfigSpan = counter[c] + 1 /\ counter[c] + 1 \in 1..config[c]
  BY <1>1, <1>2, <1>5 DEF Full, Stored
<1> HIDE DEF c
<1>6. /\ Counted \in [Fields -> Stored]
      /\ \A f \in Fields : f # c => Counted[f] = counter[f]
      /\ Counted[c] = (counter[c] + 1) % ConfigSpan
  BY <1>1, <1>3, <1>4
<1> QED  BY <1>5, <1>6 DEF c

LEMMA EnterBlankStep ==
  ASSUME CmosInv, NEW counts \in [Fields -> Stored],
         NEW state \in States \ {"Idle", "Valid"}, EnterBlank(state, counts), config' = config,
         config[Counts[state]] > 0,
         state = "LineLineBlank" => counts["frame_height"] \in 1..(config["frame_height"] - 1)
  PROVE  /\ reg_state' \in States /\ counter' \in [Fields -> Stored]
         /\ CounterInReach' /\ LineInFrame'
<1> DEFINE c == Counts[state]
<1>1. c \in Fields /\ c # "frame_height" /\ config[c] \in Stored /\ 1 \in Stored
  BY CountsField DEF CmosInv, GeneratorTypeOK, Stored
<1>2. reg_state' = state /\ counter' = [counts EXCEPT ![c] = 1]
  BY DEF EnterBlank, Enter
<1> HIDE DEF c
<1>3. /\ counter' \in [Fields -> Stored] /\ counter'[c] = 1
      /\ counter'["frame_height"] = counts["frame_height"]
  BY <1>1, <1>2 DEF Fields
<1> QED  BY <1>1, <1>2, <1>3 DEF CounterInReach, LineInFrame, Stored, c, Counts

LEMMA FirstLineStep ==
  ASSUME CmosInv, NEW counts \in [Fields -> Stored], FirstLine(counts), config' = config
  PROVE  /\ reg_state' \in States /\ counter' \in [Fields -> Stored]
         /\ CounterInReach' /\ LineInFrame'
<1>1. /\ reg_state' = "Valid" /\ counter' \in [Fields -> Stored]
      /\ counter'["frame_width"] = 1 /\ counter'["frame_height"] = 1
  BY DEF FirstLine, Enter, Fields, Stored
<1>2. config["frame_width"] \in Nat \ {0} /\ config["frame_height"] \in Nat \ {0}
  BY DEF CmosInv, ConfigInBounds, InBounds, Minimum, Fields
<1> QED  BY <1>1, <1>2, CountsField DEF CounterInReach, LineInFrame, States

LEMMA BeginFrameStep ==
  ASSUME CmosInv, NEW counts \in [Fields -> Stored], BeginFrame(counts), config' = config
  PROVE  /\ reg_state' \in States /\ counter' \in [Fields -> Stored]
         /\ CounterInReach' /\ LineInFrame'
<1>1. CASE config["frame_line_blank"] > 0
  BY <1>1, EnterBlankStep, CountsField DEF BeginFrame, States
<1>2. CASE ~(config["frame_line_blank"] > 0)
  BY <1>2, FirstLineStep DEF BeginFrame
<1> QED  BY <1>1, <1>2

LEMMA StateStep ==
  ASSUME CmosInv, StateClock,
         config' \in [Fields -> Stored],
         reg_state # "Idle" \/ reg_start => config' = config
  PROVE  /\ reg_state' \in States /\ counter' \in [Fields -> Stored]
         /\ CounterInReach' /\ LineInFrame'
<1> USE DEF Running, Ends
<1>1. CASE StayIdle
  BY <1>1 DEF StayIdle, CmosInv, GeneratorTypeOK, CounterInReach, LineInFrame
<1>2. CASE Start
  BY <1>2, BeginFrameStep DEF Start, CmosInv, GeneratorTypeOK
<1>3. CASE Stop
  BY <1>3, CountedStep DEF Stop, Enter, CounterInReach, LineInFrame, States
<1>4. CASE GoOn
  <2>1. /\ reg_state' = reg_state /\ reg_state \in States \ {"Idle"} /\ config' = config
        /\ counter' = Counted /\ ~Full
    BY <1>4 DEF GoOn, Enter, CmosInv, GeneratorTypeOK
  <2>2. Counted["frame_height"] = counter["frame_height"]
    BY <2>1, CountedStep, CountsField DEF Fields
  <2> QED  BY <2>1, <2>2, CountedStep DEF CmosInv, CounterInReach, LineInFrame
<1>5. CASE EndFrameFrameBlank
  BY <1>5, CountedStep, BeginFrameStep DEF EndFrameFrameBlank
<1>6. CASE EndFrameLineBlank
  BY <1>6, CountedStep, FirstLineStep DEF EndFrameLineBlank
<1>7. CASE EndLine
  <2>1. /\ reg_state = "Valid" /\ config' = config
        /\ Counted \in [Fields -> Stored]
        /\ Counted["frame_height"] = counter["frame_height"]
    BY <1>7, CountedStep, CountsField DEF EndLine, Fields, States
  <2>2. /\ counter["frame_height"] \in 1..config["frame_height"]
        /\ config["frame_height"] \in Nat /\ counter["frame_height"] \in Nat
        /\ config["line_line_blank"] > 0 /\ config["frame_frame_blank"] > 0
    BY <2>1 DEF CmosInv, LineInFrame, ConfigInBounds, InBounds, Minimum, Fields
  <2>3. CASE counter["frame_height"] < config["frame_height"]
    <3>1. EnterBlank("LineLineBlank", Counted)
      BY <1>7, <2>3 DEF EndLine
    <3> QED  BY <3>1, <2>1, <2>2, <2>3, EnterBlankStep, CountsField DEF States
  <2>4. CASE ~(counter["frame_height"] < config["frame_height"]) /\ config["line_frame_blank"] > 0
    <3>1. EnterBlank("LineFrameBlank", Counted)
      BY <1>7, <2>2, <2>4 DEF EndLine
    <3> QED  BY <3>1, <2>1, <2>4, EnterBlankStep, CountsField DEF States
  <2>5. CASE ~(counter["frame_height"] < config["frame_height"]) /\ ~(config["line_frame_blank"] > 0)
    <3>1. EnterBlank("FrameFrameBlank", Counted)
      BY <1>7, <2>2, <2>5 DEF EndLine
    <3> QED  BY <3>1, <2>1, <2>2, EnterBlankStep, CountsField DEF States
  <2> QED  BY <2>3, <2>4, <2>5
<1>8. CASE EndLineLineBlank
  <2>1. /\ reg_state = "LineLineBlank" /\ config' = config
        /\ Counted \in [Fields -> Stored]
        /\ Counted["frame_height"] = counter["frame_height"]
    BY <1>8, CountedStep, CountsField DEF EndLineLineBlank, Fields, States
  <2>2. /\ counter["frame_height"] \in 1..(config["frame_height"] - 1)
        /\ config["frame_height"] \in Stored
        /\ config["frame_width"] \in Nat \ {0}
    BY <2>1 DEF CmosInv, GeneratorTypeOK, LineInFrame, ConfigInBounds, InBounds, Minimum, Fields
  <2>3. /\ (counter["frame_height"] + 1) % ConfigSpan = counter["frame_height"] + 1
        /\ counter["frame_height"] + 1 \in 1..config["frame_height"]
        /\ counter["frame_height"] + 1 \in Stored
    BY <2>2 DEF Stored
  <2>4. /\ reg_state' = "Valid"
        /\ counter' = [Counted EXCEPT !["frame_width"] = 1,
                                      !["frame_height"] = (@ + 1) % ConfigSpan]
    BY <1>8 DEF EndLineLineBlank, Enter
  <2>5. /\ counter' \in [Fields -> Stored]
        /\ counter'["frame_width"] = 1
        /\ counter'["frame_height"] = counter["frame_height"] + 1
    BY <2>1, <2>3, <2>4 DEF Fields, Stored
  <2> QED  BY <2>1, <2>2, <2>3, <2>4, <2>5, CountsField DEF CounterInReach, LineInFrame, States
<1>9. CASE EndLineFrameBlank
  <2>1. config["frame_frame_blank"] > 0 /\ config' = config
    BY <1>9 DEF EndLineFrameBlank, CmosInv, ConfigInBounds, InBounds, Minimum, Fields
  <2> QED  BY <1>9, <2>1, CountedStep, EnterBlankStep, CountsField DEF EndLineFrameBlank, States
<1> QED  BY <1>1, <1>2, <1>3, <1>4, <1>5, <1>6, <1>7, <1>8, <1>9 DEF StateClock

LEMMA CmosInit == Init => CmosInv
<1> SUFFICES ASSUME GeneratorInit
             PROVE  CmosInv
  BY DEF Init
<1>1. reg_start \in BOOLEAN /\ reg_stop \in BOOLEAN
  BY Zenon DEF GeneratorInit
<1>2. /\ config = Minima /\ reg_state = "Idle" /\ counter = [f \in Fields |-> 0]
      /\ "Idle" \in States /\ 0 \in Stored
  BY DEF GeneratorInit, States, Stored
<1> QED
  BY <1>1, <1>2, MinimaLegal DEF CmosInv, GeneratorTypeOK, ConfigInBounds, CounterInReach, LineInFrame

LEMMA CmosStep == CmosInv /\ [Next]_generatorVars => CmosInv'
<1> SUFFICES ASSUME CmosInv, [Next]_generatorVars
             PROVE  CmosInv'
  OBVIOUS
<1>1. CASE ClockEdge
  <2>1. PICK access \in Accesses : Polite(access) /\ GeneratorClock(access)
    BY <1>1 DEF ClockEdge
  <2>2. /\ config' \in [Fields -> Stored] /\ ConfigInBounds'
        /\ reg_state # "Idle" \/ reg_start => config' = config
    BY <2>1, ConfigStep DEF GeneratorClock, ConfigInBounds
  <2>3. reg_start' \in BOOLEAN
    <3>1. reg_start' = (Commands(access, START) /\ reg_state = "Idle")
      BY <2>1 DEF GeneratorClock, WriteCommand
    <3> QED  BY <3>1, Zenon
  <2>4. reg_stop' \in BOOLEAN
    <3>1. reg_stop' = (Commands(access, STOP) /\ reg_state # "Idle")
      BY <2>1 DEF GeneratorClock, WriteCommand
    <3> QED  BY <3>1, Zenon
  <2>5. /\ reg_state' \in States /\ counter' \in [Fields -> Stored]
        /\ CounterInReach' /\ LineInFrame'
    BY <2>1, <2>2, StateStep DEF GeneratorClock
  <2> QED  BY <2>2, <2>3, <2>4, <2>5 DEF CmosInv, GeneratorTypeOK
<1>2. CASE Reset
  <2>1. reg_start' \in BOOLEAN /\ reg_stop' \in BOOLEAN
    BY <1>2, Zenon DEF Reset
  <2>2. /\ config' = Minima /\ reg_state' = "Idle" /\ counter' = [f \in Fields |-> 0]
        /\ "Idle" \in States /\ 0 \in Stored
    BY <1>2 DEF Reset, States, Stored
  <2> QED
    BY <2>1, <2>2, MinimaLegal DEF CmosInv, GeneratorTypeOK, ConfigInBounds, CounterInReach, LineInFrame
<1>3. CASE UNCHANGED generatorVars
  BY <1>3 DEF generatorVars, CmosInv, GeneratorTypeOK, ConfigInBounds, CounterInReach, LineInFrame
<1> QED  BY <1>1, <1>2, <1>3 DEF Next

\* No counter of the generator misses the end it counts to, for registers of any
\* width and any values in bounds (NEXT_STATE_LOGIC).
THEOREM CmosInvariant == Spec => []CmosInv
BY CmosInit, CmosStep, PTL DEF Spec

----------------------------------------------------------------------------
(* The refinement.  The registers and counters by short names.              *)

fw == config["frame_width"]
fh == config["frame_height"]
ff == config["frame_frame_blank"]
fl == config["frame_line_blank"]
ll == config["line_line_blank"]
lf == config["line_frame_blank"]
row == counter["frame_height"]
column == counter["frame_width"]
LP == fw + ll

LEMMA ProductMonotone ==
  ASSUME NEW a \in Nat, NEW b \in Nat, NEW n \in Nat, a <= b
  PROVE  a * n \in Nat /\ b * n \in Nat /\ a * n <= b * n
<1>1. PICK d \in Nat : b = a + d
  <2>1. b - a \in Nat /\ b = a + (b - a)
    OBVIOUS
  <2> QED  BY <2>1
<1>2. a * n \in Nat /\ d * n \in Nat /\ b * n = a * n + d * n
  BY <1>1
<1> QED  BY <1>2

LEMMA ProductNext ==
  ASSUME NEW a \in Int, NEW n \in Nat
  PROVE  (a + 1) * n = a * n + n /\ (a - 1) * n = a * n - n /\ a * n \in Int
OBVIOUS

\* A place in lines of n is in one line and one column.
LEMMA PlaceUnique ==
  ASSUME NEW a \in Nat, NEW b \in Nat, NEW n \in Nat, NEW x \in Nat, NEW y \in Nat,
         x < n, y < n, a * n + x = b * n + y
  PROVE  a = b /\ x = y
<1>1. a * n \in Nat /\ b * n \in Nat
  BY ProductMonotone
<1>2. ~(a < b)
  <2> SUFFICES ASSUME a < b
               PROVE  FALSE
    OBVIOUS
  <2>1. a + 1 \in Nat /\ a + 1 <= b
    OBVIOUS
  <2>2. (a + 1) * n <= b * n
    BY <2>1, ProductMonotone
  <2>3. (a + 1) * n = a * n + n
    BY ProductNext
  <2> QED  BY <1>1, <2>2, <2>3
<1>3. ~(b < a)
  <2> SUFFICES ASSUME b < a
               PROVE  FALSE
    OBVIOUS
  <2>1. b + 1 \in Nat /\ b + 1 <= a
    OBVIOUS
  <2>2. (b + 1) * n <= a * n
    BY <2>1, ProductMonotone
  <2>3. (b + 1) * n = b * n + n
    BY ProductNext
  <2> QED  BY <1>1, <2>2, <2>3
<1>4. a = b
  BY <1>2, <1>3
<1> QED  BY <1>1, <1>4

LEMMA Sizes ==
  ASSUME CmosInv
  PROVE  /\ fw \in Nat /\ fh \in Nat /\ ff \in Nat /\ fl \in Nat /\ ll \in Nat /\ lf \in Nat
         /\ fw > 0 /\ fh > 0 /\ ff > 0 /\ ll > 0 /\ LP \in Nat
BY DEF CmosInv, ConfigInBounds, InBounds, Minimum, Fields, fw, fh, ff, fl, ll, lf, LP

LEMMA Lengths ==
  /\ Sensor!LinePeriod(config) = LP
  /\ Sensor!Lines(config) = fh * LP - ll
  /\ Sensor!Frame(config) = fl + (fh * LP - ll) + lf
  /\ Sensor!Period(config) = fl + (fh * LP - ll) + lf + ff
  /\ Sensor!LinesOf(config) = 0..(fh - 1)
  /\ Sensor!ColumnsOf(config) = 0..(fw - 1)
  /\ \A i, j : Sensor!Pixel(config, i, j) = fl + i * LP + j + 1
BY DEF Sensor!LinePeriod, Sensor!Lines, Sensor!Frame, Sensor!Period, Sensor!LinesOf,
     Sensor!ColumnsOf, Sensor!Pixel, LP, fw, fh, ff, fl, ll, lf

\* How far the period has come, with what is counted in it.
ClocksRead ==
  /\ reg_state = "Idle" => Clocks = 0
  /\ reg_state = "FrameLineBlank" =>
       /\ Clocks = counter["frame_line_blank"]
       /\ counter["frame_line_blank"] \in 1..fl
  /\ reg_state = "Valid" =>
       /\ Clocks = fl + (row - 1) * LP + column
       /\ row \in 1..fh /\ column \in 1..fw
  /\ reg_state = "LineLineBlank" =>
       /\ Clocks = fl + (row - 1) * LP + fw + counter["line_line_blank"]
       /\ row \in 1..(fh - 1) /\ counter["line_line_blank"] \in 1..ll
  /\ reg_state = "LineFrameBlank" =>
       /\ Clocks = fl + (fh * LP - ll) + counter["line_frame_blank"]
       /\ counter["line_frame_blank"] \in 1..lf
  /\ reg_state = "FrameFrameBlank" =>
       /\ Clocks = fl + (fh * LP - ll) + lf + counter["frame_frame_blank"]
       /\ counter["frame_frame_blank"] \in 1..ff

LEMMA ClocksAre == CmosInv => ClocksRead
<1> SUFFICES ASSUME CmosInv
             PROVE  ClocksRead
  OBVIOUS
<1>1. /\ Line = fl + (row - 1) * LP
      /\ Shape!Lines(config) = fh * LP - ll
      /\ Shape!Frame(config) = fl + (fh * LP - ll) + lf
  BY DEF Line, Shape!LinePeriod, Shape!Lines, Shape!Frame, LP, fw, fh, fl, ll, lf, row
<1>2. reg_state \in States /\ CounterInReach /\ LineInFrame
  BY DEF CmosInv, GeneratorTypeOK
<1> QED
  BY <1>1, <1>2, CountsField DEF ClocksRead, Clocks, CounterInReach, LineInFrame, States,
       fw, fh, ff, fl, ll, lf, row, column

\* The bounds of a line in its frame.
LEMMA LineBounds ==
  ASSUME CmosInv, NEW i \in 1..fh
  PROVE  /\ (i - 1) * LP \in Nat
         /\ (i - 1) * LP + fw <= fh * LP - ll
         /\ i * LP = (i - 1) * LP + LP
         /\ i < fh => i * LP + fw <= fh * LP - ll
         /\ i = fh => (i - 1) * LP + fw = fh * LP - ll
<1>1. i \in Nat /\ i - 1 \in Nat /\ fh \in Nat /\ fh - 1 \in Nat /\ LP \in Nat /\ i <= fh
  BY Sizes
<1>2. LP = fw + ll /\ fw \in Nat /\ ll \in Nat
  BY Sizes DEF LP
<1>3. (i - 1) * LP \in Nat /\ (i - 1) * LP <= (fh - 1) * LP
  BY <1>1, ProductMonotone
<1>4. (fh - 1) * LP = fh * LP - LP /\ fh * LP \in Int
  BY <1>1, ProductNext
<1>5. (i - 1) * LP = i * LP - LP /\ i * LP \in Int
  BY <1>1, ProductNext
<1>6. i < fh => i * LP <= (fh - 1) * LP
  <2>1. i < fh => i <= fh - 1
    BY <1>1
  <2> QED  BY <1>1, <2>1, ProductMonotone
<1> QED  BY <1>1, <1>2, <1>3, <1>4, <1>5, <1>6

LEMMA FrameBounds ==
  ASSUME CmosInv
  PROVE  fh * LP \in Nat /\ fh * LP - ll >= fw
<1>1. fh \in 1..fh
  BY Sizes
<1>2. (fh - 1) * LP \in Nat /\ (fh - 1) * LP + fw <= fh * LP - ll /\ fh * LP = (fh - 1) * LP + LP
  BY <1>1, LineBounds
<1> QED  BY <1>2, Sizes

LEMMA FrameValidShown ==
  ASSUME CmosInv
  PROVE  /\ Clocks \in Nat
         /\ frame_valid <=> Clocks \in 1..Sensor!Frame(config)
<1> DEFINE lines == fh * LP - ll
<1>1. lines \in Nat /\ lines > 0
  BY FrameBounds, Sizes
<1>2. Sensor!Frame(config) = fl + lines + lf
  BY Lengths
<1>3. reg_state \in States
  BY DEF CmosInv, GeneratorTypeOK
<1>4. CASE reg_state = "Idle"
  BY <1>4, ClocksAre DEF frame_valid, ClocksRead
<1>5. CASE reg_state = "FrameLineBlank"
  <2> HIDE DEF lines
  <2> QED  BY <1>1, <1>2, <1>5, ClocksAre, Sizes DEF frame_valid, ClocksRead
<1>6. CASE reg_state = "Valid"
  <2>1. /\ (row - 1) * LP \in Nat /\ (row - 1) * LP + fw <= lines
    BY <1>6, ClocksAre, LineBounds DEF ClocksRead
  <2> HIDE DEF lines
  <2> QED  BY <1>1, <1>2, <1>6, <2>1, ClocksAre, Sizes DEF frame_valid, ClocksRead
<1>7. CASE reg_state = "LineLineBlank"
  <2>1. row \in 1..fh /\ row < fh
    BY <1>7, ClocksAre, Sizes DEF ClocksRead
  <2>2. /\ (row - 1) * LP \in Nat /\ row * LP = (row - 1) * LP + LP
        /\ row * LP + fw <= lines
    BY <2>1, LineBounds
  <2>3. LP = fw + ll
    BY DEF LP
  <2> HIDE DEF lines
  <2> QED  BY <1>1, <1>2, <1>7, <2>2, <2>3, ClocksAre, Sizes DEF frame_valid, ClocksRead
<1>8. CASE reg_state = "LineFrameBlank"
  <2>1. Clocks = fl + lines + counter["line_frame_blank"] /\ counter["line_frame_blank"] \in 1..lf
    BY <1>8, ClocksAre DEF ClocksRead
  <2> HIDE DEF lines
  <2> QED  BY <1>1, <1>2, <1>8, <2>1, Sizes DEF frame_valid
<1>9. CASE reg_state = "FrameFrameBlank"
  <2>1. /\ Clocks = fl + lines + lf + counter["frame_frame_blank"]
        /\ counter["frame_frame_blank"] \in 1..ff
    BY <1>9, ClocksAre DEF ClocksRead
  <2> HIDE DEF lines
  <2> QED  BY <1>1, <1>2, <1>9, <2>1, Sizes DEF frame_valid
<1> QED  BY <1>3, <1>4, <1>5, <1>6, <1>7, <1>8, <1>9 DEF States

\* On a clock of the period that shows a pixel, the generator is at that pixel.
LEMMA PixelReached ==
  ASSUME CmosInv, NEW i \in 0..(fh - 1), NEW j \in 0..(fw - 1), Clocks = Sensor!Pixel(config, i, j)
  PROVE  reg_state = "Valid" /\ i = row - 1 /\ j = column - 1
<1> DEFINE lines == fh * LP - ll
           k == i * LP
<1>1. /\ i \in Nat /\ j \in Nat /\ j < fw /\ i + 1 \in 1..fh /\ (i + 1) - 1 = i
  BY Sizes
<1>2. k \in Nat /\ k + fw <= lines
  BY <1>1, LineBounds
<1>3. Clocks = fl + k + j + 1
  BY Lengths
<1>4. lines \in Nat
  BY FrameBounds, Sizes
<1>5. LP = fw + ll /\ LP \in Nat
  BY Sizes DEF LP
<1>6. reg_state \in States
  BY DEF CmosInv, GeneratorTypeOK
<1>7. reg_state \notin {"Idle", "FrameLineBlank", "LineFrameBlank", "FrameFrameBlank"}
  <2>1. /\ reg_state = "Idle" => Clocks = 0
        /\ reg_state = "FrameLineBlank" => Clocks \in 1..fl
        /\ reg_state = "LineFrameBlank" =>
             Clocks = fl + lines + counter["line_frame_blank"] /\ counter["line_frame_blank"] \in 1..lf
        /\ reg_state = "FrameFrameBlank" =>
             /\ Clocks = fl + lines + lf + counter["frame_frame_blank"]
             /\ counter["frame_frame_blank"] \in 1..ff
    BY ClocksAre DEF ClocksRead
  <2> HIDE DEF lines, k
  <2> QED  BY <2>1, <1>1, <1>2, <1>3, <1>4, Sizes
<1>8. reg_state # "LineLineBlank"
  <2> SUFFICES ASSUME reg_state = "LineLineBlank"
               PROVE  FALSE
    OBVIOUS
  <2> DEFINE b == counter["line_line_blank"]
  <2>1. /\ Clocks = fl + (row - 1) * LP + fw + b /\ b \in 1..ll
        /\ row - 1 \in Nat
    BY ClocksAre, Sizes DEF ClocksRead
  <2>2. (row - 1) * LP \in Nat
    BY <2>1, <1>5, ProductMonotone
  <2>3. b \in 1..ll /\ ll \in Nat /\ fw \in Nat /\ fl \in Nat
    BY <2>1, Sizes
  <2> HIDE DEF b, k
  <2> DEFINE x == fw + b - 1
  <2>4. (row - 1) * LP + x = k + j
    BY <2>1, <2>2, <2>3, <1>1, <1>2, <1>3
  <2>5. x \in Nat /\ x < LP /\ j < LP /\ x >= fw
    BY <2>3, <1>1, <1>5
  <2> HIDE DEF x
  <2>6. (row - 1) * LP + x = i * LP + j
    BY <2>4 DEF k
  <2>7. x = j
    BY <2>1, <2>5, <2>6, <1>1, <1>5, PlaceUnique
  <2> QED  BY <2>3, <2>5, <2>7, <1>1
<1>9. reg_state = "Valid"
  BY <1>6, <1>7, <1>8 DEF States
<1>10. /\ Clocks = fl + (row - 1) * LP + column /\ column \in 1..fw
       /\ row - 1 \in Nat
  BY <1>9, ClocksAre, Sizes DEF ClocksRead
<1>11. (row - 1) * LP \in Nat
  BY <1>10, <1>5, ProductMonotone
<1>12. (row - 1) * LP + (column - 1) = i * LP + j
  BY <1>1, <1>2, <1>3, <1>10, <1>11, Sizes
<1>13. column - 1 \in Nat /\ column - 1 < LP /\ j < LP
  BY <1>1, <1>5, <1>10, Sizes
<1>14. row - 1 = i /\ column - 1 = j
  BY <1>1, <1>5, <1>10, <1>12, <1>13, PlaceUnique
<1> QED  BY <1>9, <1>14

LEMMA PixelShown ==
  ASSUME CmosInv, reg_state = "Valid"
  PROVE  /\ row - 1 \in 0..(fh - 1) /\ column - 1 \in 0..(fw - 1)
         /\ Clocks = Sensor!Pixel(config, row - 1, column - 1)
<1>1. /\ Clocks = fl + (row - 1) * LP + column /\ row \in 1..fh /\ column \in 1..fw
  BY ClocksAre DEF ClocksRead
<1>2. (row - 1) * LP \in Nat
  BY <1>1, LineBounds
<1>3. Sensor!Pixel(config, row - 1, column - 1) = fl + (row - 1) * LP + (column - 1) + 1
  BY Lengths
<1> QED  BY <1>1, <1>2, <1>3, Sizes

\* What the pins show is what a sensor shows that far into its period.
LEMMA PinsShow ==
  ASSUME CmosInv
  PROVE  Sensor!Shows(config, Clocks, frame_valid, line_valid, data)
<1>1. Sensor!LinesOf(config) = 0..(fh - 1) /\ Sensor!ColumnsOf(config) = 0..(fw - 1)
  BY Lengths
<1>2. line_valid <=> \E i \in 0..(fh - 1), j \in 0..(fw - 1) : Clocks = Sensor!Pixel(config, i, j)
  BY PixelReached, PixelShown DEF line_valid
<1>3. ~line_valid => data = 0
  BY DEF data
<1>4. ASSUME NEW i \in 0..(fh - 1), NEW j \in 0..(fw - 1), Clocks = Sensor!Pixel(config, i, j)
      PROVE  data = (i * config["frame_width"] + j) % PixelSpan
  <2>1. line_valid /\ i = row - 1 /\ j = column - 1
    BY <1>4, PixelReached DEF line_valid
  <2> QED  BY <2>1 DEF data, row, column
<1> QED  BY <1>1, <1>2, <1>3, <1>4, FrameValidShown DEF Sensor!Shows

\* The clocks of the next state, when its registers are the same.
LEMMA ClocksNext ==
  ASSUME CmosInv, CmosInv', config' = config
  PROVE  /\ reg_state' = "FrameLineBlank" => Clocks' = counter'["frame_line_blank"]
         /\ reg_state' = "Valid" =>
              Clocks' = fl + (counter'["frame_height"] - 1) * LP + counter'["frame_width"]
         /\ reg_state' = "LineLineBlank" =>
              Clocks' = fl + (counter'["frame_height"] - 1) * LP + fw + counter'["line_line_blank"]
         /\ reg_state' = "LineFrameBlank" =>
              Clocks' = fl + (fh * LP - ll) + counter'["line_frame_blank"]
         /\ reg_state' = "FrameFrameBlank" =>
              Clocks' = fl + (fh * LP - ll) + lf + counter'["frame_frame_blank"]
<1>0. ClocksRead'
  BY ClocksAre, PTL
<1>1. /\ reg_state' = "FrameLineBlank" => Clocks' = counter'["frame_line_blank"]
      /\ reg_state' = "Valid" => Clocks' = fl' + (row' - 1) * LP' + column'
      /\ reg_state' = "LineLineBlank" =>
           Clocks' = fl' + (row' - 1) * LP' + fw' + counter'["line_line_blank"]
      /\ reg_state' = "LineFrameBlank" =>
           Clocks' = fl' + (fh' * LP' - ll') + counter'["line_frame_blank"]
      /\ reg_state' = "FrameFrameBlank" =>
           Clocks' = fl' + (fh' * LP' - ll') + lf' + counter'["frame_frame_blank"]
  BY <1>0 DEF ClocksRead
<1>2. /\ fl' = fl /\ fw' = fw /\ fh' = fh /\ ll' = ll /\ lf' = lf /\ LP' = LP
      /\ row' = counter'["frame_height"] /\ column' = counter'["frame_width"]
  BY DEF fl, fw, fh, ll, lf, LP, row, column
<1> QED  BY <1>1, <1>2

\* A clock of the state machine goes on in the period, begins the next one, or
\* stops.
LEMMA PeriodStep ==
  ASSUME CmosInv, CmosInv', StateClock, config' = config
  PROVE  \/ Clocks' = 0
         \/ Clocks' = IF Clocks = Sensor!Period(config) THEN 1 ELSE Clocks + 1
<1> DEFINE lines == fh * LP - ll
           next == IF Clocks = Sensor!Period(config) THEN 1 ELSE Clocks + 1
<1> USE DEF Running, Ends
<1>1. lines \in Nat /\ lines > 0 /\ Sensor!Period(config) = fl + lines + lf + ff
  <2>1. lines \in Nat /\ lines > 0
    BY FrameBounds, Sizes
  <2>2. Sensor!Period(config) = fl + lines + lf + ff
    BY Lengths
  <2> QED  BY <2>1, <2>2
<1>2. /\ Clocks \in Nat
      /\ frame_valid => Clocks < Sensor!Period(config)
      /\ Clocks < Sensor!Period(config) => next = Clocks + 1
  <2>1. /\ Clocks \in Nat
        /\ frame_valid => Clocks <= fl + lines + lf
    BY FrameValidShown, Lengths, FrameBounds, Sizes
  <2> HIDE DEF lines
  <2> QED  BY <2>1, <1>1, Sizes
<1>3. reg_state = "Valid" => Clocks = fl + (row - 1) * LP + column /\ row \in 1..fh
  BY ClocksAre DEF ClocksRead
<1>4. reg_state \in States
  BY DEF CmosInv, GeneratorTypeOK
<1> HIDE DEF lines
<1>5. CASE StayIdle \/ Stop
  <2>1. reg_state' = "Idle"
    BY <1>5 DEF StayIdle, Stop, Enter
  <2>2. ClocksRead'
    BY ClocksAre, PTL
  <2> QED  BY <2>1, <2>2 DEF ClocksRead
<1>6. ASSUME NEW counts \in [Fields -> Stored], FirstLine(counts)
      PROVE  Clocks' = fl + 1
  <2>1. /\ reg_state' = "Valid" /\ counter'["frame_height"] = 1 /\ counter'["frame_width"] = 1
    BY <1>6 DEF FirstLine, Enter, Fields
  <2>2. Clocks' = fl + (1 - 1) * LP + 1
    BY <2>1, ClocksNext
  <2> QED  BY <2>2, Sizes
<1>7. ASSUME NEW state \in States \ {"Idle", "Valid"}, NEW counts \in [Fields -> Stored],
             EnterBlank(state, counts)
      PROVE  /\ reg_state' = state /\ counter'[Counts[state]] = 1
             /\ counter'["frame_height"] = counts["frame_height"]
  <2> DEFINE c == Counts[state]
  <2>1. c \in Fields /\ c # "frame_height"
    BY CountsField
  <2>2. reg_state' = state /\ counter' = [counts EXCEPT ![c] = 1]
    BY <1>7 DEF EnterBlank, Enter
  <2> HIDE DEF c
  <2>3. counter'[c] = 1 /\ counter'["frame_height"] = counts["frame_height"]
    BY <2>1, <2>2 DEF Fields
  <2> QED  BY <2>2, <2>3 DEF c
<1>8. ASSUME NEW counts \in [Fields -> Stored], BeginFrame(counts)
      PROVE  Clocks' = 1
  <2>1. CASE config["frame_line_blank"] > 0
    <3>1. reg_state' = "FrameLineBlank" /\ counter'["frame_line_blank"] = 1
      BY <1>7, <1>8, <2>1, CountsField DEF BeginFrame, States
    <3> QED  BY <3>1, ClocksNext
  <2>2. CASE ~(config["frame_line_blank"] > 0)
    <3>1. Clocks' = fl + 1
      BY <1>6, <1>8, <2>2 DEF BeginFrame
    <3> QED  BY <3>1, <2>2, Sizes DEF fl
  <2> QED  BY <2>1, <2>2
<1>9. CASE Start
  <2>1. Clocks = 0 /\ counter \in [Fields -> Stored]
    BY <1>9, ClocksAre DEF Start, ClocksRead, CmosInv, GeneratorTypeOK
  <2>2. Clocks' = 1
    BY <1>8, <1>9, <2>1 DEF Start
  <2> QED  BY <2>1, <2>2, <1>1, <1>2, Sizes
<1>10. CASE GoOn
  <2>1. /\ reg_state # "Idle" /\ reg_state' = reg_state /\ ~Full /\ counter' = Counted
    BY <1>10 DEF GoOn, Enter
  <2>2. /\ counter'[Counts[reg_state]] = counter[Counts[reg_state]] + 1
        /\ counter'["frame_height"] = counter["frame_height"]
        /\ counter[Counts[reg_state]] + 1 \in 1..config[Counts[reg_state]]
    BY <2>1, <1>4, CountedStep, CountsField DEF Fields
  <2>3. Clocks < Sensor!Period(config)
    <3>1. CASE reg_state = "FrameFrameBlank"
      <4>1. /\ Clocks = fl + (fh * LP - ll) + lf + counter["frame_frame_blank"]
            /\ counter["frame_frame_blank"] \in 1..ff
        BY <3>1, ClocksAre DEF ClocksRead
      <4>2. counter["frame_frame_blank"] + 1 \in 1..ff
        BY <3>1, <2>2, CountsField DEF States, ff
      <4> QED  BY <4>1, <4>2, <1>1, Sizes DEF lines
    <3>2. CASE reg_state # "FrameFrameBlank"
      BY <3>2, <2>1, <1>2 DEF frame_valid
    <3> QED  BY <3>1, <3>2
  <2>4. Clocks' = Clocks + 1
    <3>1. CASE reg_state = "FrameLineBlank"
      BY <3>1, <2>1, <2>2, <1>4, ClocksAre, ClocksNext, CountsField DEF ClocksRead
    <3>2. CASE reg_state = "Valid"
      <4>1. /\ Clocks' = fl + (row - 1) * LP + (column + 1) /\ Clocks = fl + (row - 1) * LP + column
            /\ row \in 1..fh /\ column \in 1..fw
        BY <3>2, <2>1, <2>2, <1>4, ClocksAre, ClocksNext, CountsField DEF ClocksRead, row, column
      <4>2. (row - 1) * LP \in Nat
        BY <4>1, LineBounds
      <4> QED  BY <4>1, <4>2, Sizes
    <3>3. CASE reg_state = "LineLineBlank"
      <4> DEFINE b == counter["line_line_blank"]
      <4>1. /\ Clocks' = fl + (row - 1) * LP + fw + (b + 1) /\ Clocks = fl + (row - 1) * LP + fw + b
            /\ row \in 1..(fh - 1) /\ b \in 1..ll
        BY <3>3, <2>1, <2>2, <1>4, ClocksAre, ClocksNext, CountsField DEF ClocksRead, row
      <4>2. (row - 1) * LP \in Nat
        BY <4>1, LineBounds, Sizes
      <4> QED  BY <4>1, <4>2, Sizes
    <3>4. CASE reg_state = "LineFrameBlank"
      <4> DEFINE b == counter["line_frame_blank"]
      <4>1. /\ Clocks' = fl + (fh * LP - ll) + (b + 1) /\ Clocks = fl + (fh * LP - ll) + b /\ b \in 1..lf
        BY <3>4, <2>1, <2>2, <1>4, ClocksAre, ClocksNext, CountsField DEF ClocksRead
      <4> QED  BY <4>1, <1>1, Sizes DEF lines
    <3>5. CASE reg_state = "FrameFrameBlank"
      <4> DEFINE b == counter["frame_frame_blank"]
      <4>1. /\ Clocks' = fl + (fh * LP - ll) + lf + (b + 1)
            /\ Clocks = fl + (fh * LP - ll) + lf + b /\ b \in 1..ff
        BY <3>5, <2>1, <2>2, <1>4, ClocksAre, ClocksNext, CountsField DEF ClocksRead
      <4> QED  BY <4>1, <1>1, Sizes DEF lines
    <3> QED  BY <1>4, <2>1, <3>1, <3>2, <3>3, <3>4, <3>5 DEF States
  <2> QED  BY <1>2, <2>3, <2>4
<1>11. CASE EndFrameFrameBlank
  <2>1. Clocks = fl + (fh * LP - ll) + lf + ff
    BY <1>11, ClocksAre, CountsField DEF EndFrameFrameBlank, ClocksRead, Full, States, ff
  <2>2. Clocks' = 1
    BY <1>8, <1>11, CountedStep DEF EndFrameFrameBlank
  <2> QED  BY <2>1, <2>2, <1>1 DEF lines
<1>12. CASE EndFrameLineBlank
  <2>1. Clocks = fl /\ frame_valid
    BY <1>12, ClocksAre, CountsField DEF EndFrameLineBlank, ClocksRead, Full, States, fl, frame_valid
  <2>2. Clocks' = fl + 1
    BY <1>6, <1>12, CountedStep DEF EndFrameLineBlank
  <2> QED  BY <2>1, <2>2, <1>2
<1>13. CASE EndLine
  <2>1. /\ reg_state = "Valid" /\ frame_valid /\ Counted \in [Fields -> Stored]
        /\ Counted["frame_height"] = row /\ column = fw
    BY <1>13, CountedStep, CountsField DEF EndLine, Full, Fields, States, frame_valid, row, column, fw
  <2>2. Clocks = fl + (row - 1) * LP + fw /\ row \in 1..fh /\ (row - 1) * LP \in Nat
    BY <2>1, <1>3, LineBounds
  <2>3. CASE row < fh
    <3>1. EnterBlank("LineLineBlank", Counted)
      BY <1>13, <2>3 DEF EndLine, row, fh
    <3>2. /\ reg_state' = "LineLineBlank" /\ counter'["line_line_blank"] = 1
          /\ counter'["frame_height"] = row
      BY <3>1, <2>1, <1>7, CountsField DEF States
    <3>3. Clocks' = fl + (row - 1) * LP + fw + 1
      BY <3>2, ClocksNext
    <3> QED  BY <3>3, <2>1, <2>2, <1>2
  <2>4. CASE row = fh
    <3>1. (row - 1) * LP + fw = fh * LP - ll
      BY <2>2, <2>4, LineBounds
    <3>2. Clocks = fl + lines
      BY <2>2, <3>1, Sizes DEF lines
    <3>3. CASE lf > 0
      <4>1. EnterBlank("LineFrameBlank", Counted)
        BY <1>13, <2>4, <3>3, Sizes DEF EndLine, row, fh, lf
      <4>2. reg_state' = "LineFrameBlank" /\ counter'["line_frame_blank"] = 1
        BY <4>1, <2>1, <1>7, CountsField DEF States
      <4>3. Clocks' = fl + lines + 1
        BY <4>2, ClocksNext DEF lines
      <4> QED  BY <4>3, <3>2, <2>1, <1>2
    <3>4. CASE ~(lf > 0)
      <4>1. EnterBlank("FrameFrameBlank", Counted)
        BY <1>13, <2>4, <3>4, Sizes DEF EndLine, row, fh, lf
      <4>2. reg_state' = "FrameFrameBlank" /\ counter'["frame_frame_blank"] = 1
        BY <4>1, <2>1, <1>7, CountsField DEF States
      <4>3. Clocks' = fl + lines + lf + 1
        BY <4>2, ClocksNext DEF lines
      <4>4. lf = 0
        BY <3>4, Sizes
      <4>5. Clocks' = Clocks + 1
        BY <4>3, <4>4, <3>2, <1>1, Sizes
      <4> QED  BY <4>5, <2>1, <1>2
    <3> QED  BY <3>3, <3>4
  <2>5. row < fh \/ row = fh
    BY <2>2, Sizes
  <2> QED  BY <2>3, <2>4, <2>5
<1>14. CASE EndLineLineBlank
  <2>1. /\ reg_state = "LineLineBlank" /\ frame_valid
        /\ counter["line_line_blank"] = ll
    BY <1>14, CountsField DEF EndLineLineBlank, Full, States, frame_valid, ll
  <2>2. /\ Clocks = fl + (row - 1) * LP + fw + ll /\ row \in 1..(fh - 1)
    BY <2>1, ClocksAre DEF ClocksRead
  <2>3. /\ (row - 1) * LP \in Nat /\ row * LP = (row - 1) * LP + LP /\ row \in 1..fh
        /\ LP = fw + ll
    BY <2>2, LineBounds, Sizes DEF LP
  <2>4. /\ reg_state' = "Valid" /\ counter'["frame_width"] = 1 /\ counter'["frame_height"] = row + 1
    <3>1. Counted \in [Fields -> Stored] /\ Counted["frame_height"] = row /\ fh \in Stored
      BY <2>1, CountedStep, CountsField DEF Fields, States, row, fh, CmosInv, GeneratorTypeOK
    <3>2. (row + 1) % ConfigSpan = row + 1
      BY <3>1, <2>2 DEF Stored
    <3>3. /\ reg_state' = "Valid"
          /\ counter' = [Counted EXCEPT !["frame_width"] = 1,
                                        !["frame_height"] = (@ + 1) % ConfigSpan]
      BY <1>14 DEF EndLineLineBlank, Enter
    <3> QED  BY <3>1, <3>2, <3>3 DEF Fields
  <2>5. Clocks' = fl + ((row + 1) - 1) * LP + 1
    BY <2>4, ClocksNext
  <2>6. (row + 1) - 1 = row
    BY <2>2, Sizes
  <2>7. Clocks' = Clocks + 1
    BY <2>2, <2>3, <2>5, <2>6, Sizes
  <2> QED  BY <2>1, <2>7, <1>2
<1>15. CASE EndLineFrameBlank
  <2>1. /\ reg_state = "LineFrameBlank" /\ frame_valid /\ Counted \in [Fields -> Stored]
        /\ counter["line_frame_blank"] = lf
    BY <1>15, CountedStep, CountsField DEF EndLineFrameBlank, Full, States, frame_valid, lf
  <2>2. Clocks = fl + lines + lf
    BY <2>1, ClocksAre DEF ClocksRead, lines
  <2>3. reg_state' = "FrameFrameBlank" /\ counter'["frame_frame_blank"] = 1
    BY <2>1, <1>7, <1>15, CountsField DEF EndLineFrameBlank, States
  <2>4. Clocks' = fl + lines + lf + 1
    BY <2>3, ClocksNext DEF lines
  <2> QED  BY <2>1, <2>2, <2>4, <1>2
<1> QED
  BY <1>5, <1>9, <1>10, <1>11, <1>12, <1>13, <1>14, <1>15 DEF StateClock

LEMMA PinsAre == CmosInv => Sensor!Shows(config, Clocks, frame_valid, line_valid, data)
BY PinsShow

LEMMA RefinesInit == Init => Sensor!SensorInit
<1> SUFFICES ASSUME Init
             PROVE  Sensor!SensorInit
  OBVIOUS
<1>1. CmosInv
  BY CmosInit
<1>2. config = Minima /\ reg_state = "Idle"
  BY DEF Init, GeneratorInit
<1>3. Clocks = 0
  BY <1>2 DEF Clocks
<1> QED  BY <1>1, <1>2, <1>3, PinsAre DEF Sensor!SensorInit

LEMMA RefinesStep == CmosInv /\ [Next]_generatorVars => [Sensor!SensorNext]_(Sensor!sensorVars)
<1> SUFFICES ASSUME CmosInv, [Next]_generatorVars
             PROVE  [Sensor!SensorNext]_(Sensor!sensorVars)
  OBVIOUS
<1>1. CmosInv'
  BY CmosStep
<1>2. Sensor!Shows(config', Clocks', frame_valid', line_valid', data')
  <2>1. (CmosInv => Sensor!Shows(config, Clocks, frame_valid, line_valid, data))'
    BY PinsAre, PTL
  <2> QED  BY <1>1, <2>1
<1>3. CASE UNCHANGED generatorVars
  BY <1>3 DEF generatorVars, Sensor!sensorVars, Clocks, Line, Shape!LinePeriod, Shape!Lines,
       Shape!Frame, frame_valid, line_valid, data
<1>4. CASE Reset
  <2>1. config' = Minima /\ Clocks' = 0
    BY <1>4 DEF Reset, Clocks
  <2> QED  BY <1>2, <2>1 DEF Sensor!SensorNext, Sensor!Restart
<1>5. CASE ClockEdge
  <2>1. PICK access \in Accesses : Polite(access) /\ GeneratorClock(access)
    BY <1>5 DEF ClockEdge
  <2>2. reg_state # "Idle" \/ reg_start => config' = config
    BY <2>1, ConfigStep DEF GeneratorClock
  <2>3. CASE config' = config
    <3>1. \/ Clocks' = 0
          \/ Clocks' = IF Clocks = Sensor!Period(config) THEN 1 ELSE Clocks + 1
      BY <1>1, <2>1, <2>3, PeriodStep DEF GeneratorClock
    <3> QED  BY <1>2, <2>3, <3>1 DEF Sensor!SensorNext, Sensor!Run, Sensor!Halt
  <2>4. CASE config' # config
    <3>1. reg_state = "Idle" /\ reg_state' = "Idle"
      BY <2>1, <2>2, <2>4 DEF GeneratorClock, StateClock, StayIdle, Start, Stop, GoOn, Running,
           Ends, EndFrameFrameBlank, EndFrameLineBlank, EndLine, EndLineLineBlank, EndLineFrameBlank
    <3>2. Clocks = 0 /\ Clocks' = 0
      BY <3>1 DEF Clocks
    <3>3. config' \in {c \in [Fields -> Nat] : \A f \in Fields : InBounds(f, c[f])}
      BY <1>1 DEF CmosInv, GeneratorTypeOK, ConfigInBounds, Stored
    <3> QED  BY <1>2, <3>2, <3>3 DEF Sensor!SensorNext, Sensor!Configure
  <2> QED  BY <2>3, <2>4
<1> QED  BY <1>3, <1>4, <1>5 DEF Next

\* The generator implements the sensor: for registers of any width and any values
\* in bounds, each frame on its pins has the lines, pixels and blanks it should.
THEOREM CmosRefinesSensor == Spec => IsSensor
BY CmosInit, CmosStep, RefinesInit, RefinesStep, PTL DEF Spec, IsSensor, Sensor!SensorSpec

----------------------------------------------------------------------------
(* The driver.                                                              *)

LEMMA CallShape ==
  ASSUME call \in Calls
  PROVE  /\ call # NoCall
         /\ Configuring => Len(call.values) = 6 /\ \A i \in 1..6 : call.values[i] \in Nat
         /\ ~Configuring => Len(call.values) = 0 /\ call.op \in {"start", "stop"}
<1>1. IsCall(call)
  BY CallsAssumption
<1>2. CASE call = cmos_sensor_output_generator_init
  <2>1. call.op = "init" /\ call.values = [i \in 1..6 |-> Minimum(Registers[i])]
    BY <1>2 DEF cmos_sensor_output_generator_init
  <2>2. \A i \in 1..6 : call.values[i] \in Nat
    BY <2>1 DEF Minimum
  <2>3. Len(call.values) = 6
    BY <2>1, <2>2
  <2> QED  BY <2>1, <2>2, <2>3 DEF NoCall, Configuring
<1>3. CASE call = cmos_sensor_output_generator_start \/ call = cmos_sensor_output_generator_stop
  BY <1>3 DEF cmos_sensor_output_generator_start, cmos_sensor_output_generator_stop, NoCall,
    Configuring
<1>4. CASE /\ call.values \in [1..6 -> Nat]
           /\ call = cmos_sensor_output_generator_configure(call.values)
  <2>1. call.op = "configure"
    BY <1>4 DEF cmos_sensor_output_generator_configure
  <2>2. Len(call.values) = 6
    BY <1>4
  <2> QED  BY <1>4, <2>1, <2>2 DEF NoCall, Configuring
<1> QED  BY <1>1, <1>2, <1>3, <1>4 DEF IsCall

\* The generator leaves Idle on a start, and comes to it on a stop, only.
LEMMA IdleStep ==
  ASSUME StateClock, reg_state \in States, reg_start \in BOOLEAN, reg_stop \in BOOLEAN
  PROVE  reg_state' = "Idle" <=> IF reg_state = "Idle" THEN ~reg_start ELSE reg_stop
<1>1. ASSUME NEW counts, BeginFrame(counts)
      PROVE  reg_state' # "Idle"
  BY <1>1 DEF BeginFrame, EnterBlank, FirstLine, Enter
<1>2. ASSUME NEW counts, FirstLine(counts)
      PROVE  reg_state' # "Idle"
  BY <1>2 DEF FirstLine, Enter
<1>3. CASE StayIdle
  BY <1>3 DEF StayIdle
<1>4. CASE Start
  BY <1>1, <1>4 DEF Start
<1>5. CASE Stop
  BY <1>5 DEF Stop, Enter
<1>6. CASE GoOn
  BY <1>6 DEF GoOn, Running, Enter
<1>7. CASE EndFrameFrameBlank
  BY <1>1, <1>7 DEF EndFrameFrameBlank, Ends, Running
<1>8. CASE EndFrameLineBlank
  BY <1>2, <1>8 DEF EndFrameLineBlank, Ends, Running
<1>9. CASE EndLine
  BY <1>9 DEF EndLine, Ends, Running, EnterBlank, Enter
<1>10. CASE EndLineLineBlank
  BY <1>10 DEF EndLineLineBlank, Ends, Running, Enter
<1>11. CASE EndLineFrameBlank
  BY <1>11 DEF EndLineFrameBlank, Ends, Running, EnterBlank, Enter
<1> QED
  BY <1>3, <1>4, <1>5, <1>6, <1>7, <1>8, <1>9, <1>10, <1>11 DEF StateClock

\* A clock without a write leaves the registers alone and takes what was asked.
LEMMA NoWriteStep ==
  ASSUME GeneratorTypeOK, NEW access, access.op # "write", GeneratorClock(access)
  PROVE  config' = config /\ ~reg_start' /\ ~reg_stop'
<1>1. \A f \in Fields : ~Sets(access, f)
  BY DEF Sets
<1>2. config' = config
  BY <1>1 DEF GeneratorClock, WriteConfig, GeneratorTypeOK
<1>3. ~Commands(access, START) /\ ~Commands(access, STOP)
  BY DEF Commands
<1> QED  BY <1>2, <1>3 DEF GeneratorClock, WriteCommand

LEMMA WriteConfigStep ==
  ASSUME GeneratorTypeOK, ConfigInBounds, NEW i \in 1..6, NEW n, InBounds(Registers[i], n),
         GeneratorClock(Write(i - 1, n)), reg_state = "Idle"
  PROVE  /\ config'[Registers[i]] = n
         /\ \A j \in 1..6 : j # i => config'[Registers[j]] = config[Registers[j]]
         /\ ~reg_start' /\ ~reg_stop'
<1> DEFINE access == Write(i - 1, n)
<1>1. /\ access.op = "write" /\ access.address = i - 1 /\ access.data = n
      /\ access.address \in 0..5 /\ access.address + 1 = i /\ access.address # COMMAND
  BY DEF Write, COMMAND
<1>2. \A j \in 1..6 : Registers[j] \in Fields /\ (Registers[j] = Registers[i] => j = i)
  BY DEF Registers, Fields
<1>3. \A j \in 1..6 : Sets(access, Registers[j]) <=> j = i
  BY <1>1, <1>2 DEF Sets
<1>4. ~Commands(access, START) /\ ~Commands(access, STOP)
  BY <1>1 DEF Commands
<1>5. n % ConfigSpan = n
  BY <1>2, LegalStored
<1>6. config' = [f \in Fields |-> IF Sets(access, f) /\ reg_state = "Idle"
                                  THEN access.data % ConfigSpan ELSE config[f]]
  BY DEF GeneratorClock, WriteConfig
<1>7. ~reg_start' /\ ~reg_stop'
  BY <1>4 DEF GeneratorClock, WriteCommand
<1> HIDE DEF access
<1> QED  BY <1>1, <1>2, <1>3, <1>5, <1>6, <1>7

\* The writes of the driver are polite.
LEMMA DriverPolite ==
  ASSUME CmosInv, DriverInv, [DriverNext]_driverVars
  PROVE  [Next]_generatorVars
<1>1. ASSUME NEW access \in Accesses, Polite(access), GeneratorClock(access)
      PROVE  Next
  BY <1>1 DEF Next, ClockEdge
<1>2. CASE NoAccessClock
  <2>1. NoAccess \in Accesses /\ Polite(NoAccess)
    BY DEF Accesses, Polite, IsConfig, NoAccess
  <2> QED  BY <1>1, <1>2, <2>1 DEF NoAccessClock
<1>3. CASE WR_COMMAND
  <2> DEFINE access == Write(COMMAND, IF call.op = "start" THEN START ELSE STOP)
  <2>1. access \in Accesses /\ Polite(access)
    BY DEF Accesses, Polite, IsConfig, Write, COMMAND
  <2> QED  BY <1>1, <1>3, <2>1 DEF WR_COMMAND
<1>4. CASE WR_CONFIG
  <2>1. step \in 1..6 /\ InBounds(Registers[step], Value) /\ ~reg_start /\ call.values[step] = Value
    BY <1>4 DEF WR_CONFIG, DriverInv, Progress, WritesLand, Legal, Value
  <2>2. Registers[step] \in Fields /\ Value \in 0..MaxConfig
    BY <2>1 DEF Registers, Fields, InBounds, Minimum
  <2>3. Value \in Values[Registers[step]]
    BY <2>1, <2>2, AnyValueAssumption
  <2> DEFINE access == Write(step - 1, Value)
  <2>4. access.address = step - 1 /\ access.data = Value /\ access.address + 1 = step
    BY <2>1 DEF Write
  <2>5. access \in Accesses
    BY <2>1, <2>2 DEF Accesses
  <2>6. Polite(access)
    BY <2>1, <2>3, <2>4 DEF Polite, Written
  <2> QED  BY <1>1, <1>4, <2>5, <2>6 DEF WR_CONFIG
<1>5. CASE ReadStatus \/ is_idle
  <2>1. Read(STATUS) \in Accesses /\ Polite(Read(STATUS))
    BY DEF Accesses, Polite, IsConfig, Read, STATUS
  <2> QED  BY <1>1, <1>5, <2>1 DEF ReadStatus, is_idle
<1>6. CASE SystemReset
  BY <1>6 DEF SystemReset, Next
<1>7. CASE UNCHANGED driverVars
  BY <1>7 DEF driverVars
<1> QED  BY <1>2, <1>3, <1>4, <1>5, <1>6, <1>7 DEF DriverNext, AccessClock

\* The register that was under way is written, or refused as it should be.
LEMMA RegisterDone ==
  ASSUME DriverTypeOK, Progress, stage \in {"bounds", "is_idle", "write"},
         NEW written \in BOOLEAN, NextRegister(written), written <=> Legal(step),
         Legal(step) => config'[Registers[step]] = call.values[step],
         \A i \in 1..6 : i # step => config'[Registers[i]] = config[Registers[i]]
  PROVE  /\ call' = call /\ call \in Calls /\ last' = last /\ step' \in 0..6
         /\ stage' \in {"bounds", "return"} /\ success' \in BOOLEAN
         /\ Configuring /\ Progress'
<1>1. Configuring /\ step \in 1..6 /\ call # NoCall /\ call \in Calls
  BY DEF Progress, DriverTypeOK
<1>2. Len(call.values) = 6
  BY <1>1, CallShape
<1>3. call' = call /\ last' = last /\ success' = (success /\ written)
  BY DEF NextRegister
<1>4. success' \in BOOLEAN
  BY <1>3, Zenon
<1>5. \/ step < 6 /\ step' = step + 1 /\ stage' = "bounds"
      \/ step = 6 /\ step' = step /\ stage' = "return"
  BY <1>1, <1>2 DEF NextRegister
<1>6. Done = 1..(step - 1) /\ Done' = 1..step
  <2>1. Done = 1..(step - 1)
    BY DEF Done
  <2>2. CASE stage' = "bounds"
    <3>1. step' - 1 = step
      BY <1>1, <1>5, <2>2
    <3>2. Done' = 1..(step' - 1)
      BY <2>2 DEF Done
    <3> QED  BY <2>1, <3>1, <3>2
  <2>3. CASE stage' = "return"
    <3>1. Done' = 1..6
      BY <2>3 DEF Done
    <3> QED  BY <1>5, <2>1, <2>3, <3>1
  <2> QED  BY <1>5, <2>2, <2>3
<1>7. Configuring' /\ \A i : Legal(i)' <=> Legal(i)
  BY <1>1, <1>3 DEF Configuring, Legal
<1>8. \A i \in Done' : i \in Done \/ i = step
  BY <1>1, <1>6
<1>9. Done \subseteq Done' /\ step \in Done' /\ Done' \subseteq 1..6 /\ step \notin Done
  BY <1>1, <1>6
<1>10. success <=> \A i \in Done : Legal(i)
  BY <1>1 DEF Progress
<1>11. success' <=> \A i \in Done' : Legal(i)
  BY <1>3, <1>8, <1>9, <1>10
<1>12. \A i \in Done : Legal(i) => config[Registers[i]] = call.values[i]
  BY <1>1 DEF Progress
<1>13. \A i \in Done' : Legal(i) => config'[Registers[i]] = call.values[i]
  BY <1>8, <1>9, <1>12
<1>14. Progress'
  <2>1. (success <=> \A i \in Done : Legal(i))'
    BY <1>7, <1>11
  <2>2. (\A i \in Done : Legal(i) => config[Registers[i]] = call.values[i])'
    BY <1>3, <1>7, <1>13
  <2> QED  BY <1>1, <1>3, <1>5, <1>7, <2>1, <2>2 DEF Progress
<1> QED  BY <1>1, <1>3, <1>4, <1>5, <1>14

\* A step that leaves the driver where it is in its call, and the registers alone.
LEMMA SameProgress ==
  ASSUME Progress, UNCHANGED <<call, step, success, config>>,
         \/ stage' = stage
         \/ stage = "bounds" /\ stage' = "is_idle" /\ Legal(step)
         \/ stage = "is_idle" /\ stage' = "write"
  PROVE  Progress'
<1>1. Done' = Done /\ Configuring' = Configuring /\ \A i : Legal(i)' = Legal(i)
  BY DEF Done, Configuring, Legal
<1>2. Configuring => /\ success <=> \A i \in Done : Legal(i)
                     /\ \A i \in Done : Legal(i) => config[Registers[i]] = call.values[i]
  BY DEF Progress
<1>3. (Configuring => /\ success <=> \A i \in Done : Legal(i)
                      /\ \A i \in Done : Legal(i) => config[Registers[i]] = call.values[i])'
  BY <1>1, <1>2
<1> QED  BY <1>1, <1>3 DEF Progress

LEMMA NoAccessStep ==
  ASSUME CmosInv, DriverInv, GeneratorTypeOK', NoAccessClock
  PROVE  DriverInv'
<1> USE DEF DriverInv
<1>1. /\ config' = config /\ ~reg_start' /\ ~reg_stop' /\ StateClock
      /\ free' = TRUE /\ held' = FALSE
  BY NoWriteStep DEF NoAccessClock, CmosInv, NoAccess, GeneratorClock
<1>2. reg_state' = "Idle" <=> IF reg_state = "Idle" THEN ~reg_start ELSE reg_stop
  BY <1>1, IdleStep DEF CmosInv, GeneratorTypeOK
<1>3. CASE Compute
  <2>1. Progress'
    BY <1>1, <1>3, SameProgress DEF Compute
  <2>2. DriverTypeOK'
    BY <1>1, <1>3 DEF Compute, DriverTypeOK
  <2> QED
    BY <1>1, <1>2, <1>3, <2>1, <2>2 DEF Compute, CommandTaken, WritesLand, Obeys
<1>4. CASE Return
  <2>1. ~Configuring'
    BY <1>4 DEF Return, NoCall, Configuring
  <2>2. Progress'
    BY <1>4, <2>1 DEF Return, Progress
  <2>3. DriverTypeOK'
    BY <1>1, <1>4 DEF Return, DriverTypeOK
  <2>4. reg_state' # "Idle" <=> call.op = "start"
    BY <1>2, <1>4 DEF Return, CommandTaken
  <2> QED
    BY <1>1, <1>4, <2>2, <2>3, <2>4 DEF Return, CommandTaken, WritesLand, Obeys
<1>5. CASE CheckBounds
  <2>1. /\ step \in 1..6 /\ stage = "bounds" /\ call.values[step] = Value
        /\ Configuring /\ call.op # "start" /\ reg_state' = "Idle"
    BY <1>2, <1>5 DEF CheckBounds, Progress, CommandTaken, Value, Configuring
  <2>2. CASE Legal(step)
    <3>1. stage' = "is_idle" /\ UNCHANGED <<call, step, success, last>>
      BY <1>5, <2>1, <2>2 DEF CheckBounds, Legal
    <3>2. Progress'
      BY <1>1, <2>1, <2>2, <3>1, SameProgress
    <3>3. DriverTypeOK'
      BY <1>1, <3>1 DEF DriverTypeOK
    <3> QED
      BY <1>1, <2>1, <3>1, <3>2, <3>3 DEF CommandTaken, WritesLand, Obeys
  <2>3. CASE ~Legal(step)
    <3>1. NextRegister(FALSE)
      BY <1>5, <2>1, <2>3 DEF CheckBounds, Legal
    <3>2. /\ call' = call /\ call \in Calls /\ step' \in 0..6
          /\ stage' \in {"bounds", "return"} /\ success' \in BOOLEAN /\ Progress'
      BY <1>1, <2>1, <2>3, <3>1, RegisterDone
    <3>3. DriverTypeOK'
      BY <1>1, <3>2 DEF DriverTypeOK
    <3> QED
      BY <1>1, <2>1, <3>2, <3>3 DEF CommandTaken, WritesLand, Obeys
  <2> QED  BY <2>2, <2>3
<1>6. ASSUME NEW c \in Calls, Begin(c)
      PROVE  DriverInv'
  <2>1. call' = c /\ step' = 0 /\ stage = "ready" /\ stage' = "command" /\ success' = TRUE
    BY <1>6 DEF Begin
  <2>2. call' # NoCall
    <3>1. c # NoCall
      BY CallsAssumption DEF IsCall, NoCall, cmos_sensor_output_generator_init,
        cmos_sensor_output_generator_start, cmos_sensor_output_generator_stop,
        cmos_sensor_output_generator_configure
    <3> QED  BY <2>1, <3>1
  <2>3. Done' = {}
    BY <2>1 DEF Done
  <2>4. Progress'
    BY <2>1, <2>2, <2>3 DEF Progress
  <2>5. DriverTypeOK'
    <3>1. success' \in BOOLEAN /\ held' \in BOOLEAN /\ free' \in BOOLEAN
      BY <1>1, <2>1, Zenon
    <3> QED  BY <2>1, <3>1 DEF DriverTypeOK
  <2>6. last' = last
    BY <1>6 DEF Begin
  <2> QED
    BY <1>1, <1>2, <2>1, <2>4, <2>5, <2>6 DEF CommandTaken, WritesLand, Obeys
<1> QED  BY <1>3, <1>4, <1>5, <1>6 DEF NoAccessClock

LEMMA CommandStep ==
  ASSUME CmosInv, DriverInv, GeneratorTypeOK', WR_COMMAND, free' = FALSE
  PROVE  DriverInv'
<1> USE DEF DriverInv
<1> DEFINE command == IF call.op = "start" THEN START ELSE STOP
           access == Write(COMMAND, command)
<1>1. /\ access.op = "write" /\ access.address = COMMAND /\ access.data = command
      /\ access.address \notin 0..5
  BY DEF Write, COMMAND
<1>2. GeneratorClock(access) /\ NextRegister(TRUE) /\ UNCHANGED held /\ stage = "command"
  BY DEF WR_COMMAND
<1>3. Commands(access, START) <=> call.op = "start"
  BY <1>1 DEF Commands, START, STOP
<1>4. Commands(access, STOP) <=> call.op # "start"
  BY <1>1 DEF Commands, START, STOP
<1>5. config' = config
  <2>1. \A f \in Fields : ~Sets(access, f)
    BY <1>1 DEF Sets
  <2> HIDE DEF access
  <2> QED  BY <1>2, <2>1 DEF GeneratorClock, WriteConfig, CmosInv, GeneratorTypeOK
<1>6. /\ reg_start' <=> (call.op = "start" /\ reg_state = "Idle")
      /\ reg_stop' <=> (call.op # "start" /\ reg_state # "Idle")
  <2> HIDE DEF access
  <2> QED  BY <1>2, <1>3, <1>4 DEF GeneratorClock, WriteCommand
<1>7. ~reg_start /\ ~reg_stop /\ ~held /\ StateClock
  BY <1>2 DEF WR_COMMAND, CommandTaken, GeneratorClock
<1>8. reg_state' = "Idle" <=> reg_state = "Idle"
  BY <1>7, IdleStep DEF CmosInv, GeneratorTypeOK
<1>9. /\ call' = call /\ last' = last /\ success' = (success /\ TRUE)
      /\ call \in Calls /\ call # NoCall /\ step = 0
  BY <1>2 DEF NextRegister, Progress, DriverTypeOK
<1>10. \/ Configuring /\ step' = 1 /\ stage' = "bounds"
       \/ ~Configuring /\ step' = 0 /\ stage' = "return"
  BY <1>2, <1>9, CallShape DEF NextRegister
<1>11. Configuring' = Configuring
  BY <1>9 DEF Configuring
<1>12. Configuring => Done' = {}
  BY <1>10 DEF Done
<1>13. Configuring => success
  <2>1. Done = {}
    BY <1>2 DEF Done
  <2> QED  BY <2>1 DEF Progress
<1>14. Configuring => success'
  BY <1>9, <1>13
<1>15. Progress'
  <2> HIDE DEF access, command
  <2>1. ASSUME Configuring
        PROVE  /\ success' <=> \A i \in Done' : Legal(i)'
               /\ \A i \in Done' : Legal(i)' => config'[Registers[i]] = call'.values[i]
    BY <1>12, <1>14, <2>1
  <2> QED  BY <1>9, <1>10, <1>11, <2>1 DEF Progress
<1>16. DriverTypeOK'
  <2> HIDE DEF access, command
  <2>1. success' \in BOOLEAN /\ held' \in BOOLEAN /\ free' \in BOOLEAN
    BY <1>2, <1>9, Zenon DEF DriverTypeOK
  <2> QED  BY <1>9, <1>10, <2>1 DEF DriverTypeOK
<1> HIDE DEF access, command
<1> QED
  BY <1>2, <1>6, <1>7, <1>8, <1>9, <1>10, <1>15, <1>16 DEF CommandTaken, WritesLand, Obeys,
    Configuring

LEMMA ConfigWriteStep ==
  ASSUME CmosInv, DriverInv, GeneratorTypeOK', WR_CONFIG, free' = FALSE
  PROVE  DriverInv'
<1> USE DEF DriverInv
<1>1. /\ stage = "write" /\ NextRegister(TRUE) /\ held' = held /\ ~held
      /\ reg_state = "Idle" /\ ~reg_start /\ step \in 1..6 /\ Legal(step)
      /\ InBounds(Registers[step], Value) /\ call.values[step] = Value
      /\ GeneratorClock(Write(step - 1, Value))
  BY DEF WR_CONFIG, WritesLand, Progress, CommandTaken, Legal, Value
<1>2. /\ config'[Registers[step]] = Value
      /\ \A i \in 1..6 : i # step => config'[Registers[i]] = config[Registers[i]]
      /\ ~reg_start' /\ ~reg_stop'
  BY <1>1, WriteConfigStep DEF CmosInv
<1>3. reg_state' = "Idle"
  BY <1>1, IdleStep DEF CmosInv, GeneratorTypeOK, GeneratorClock
<1>4. /\ call' = call /\ call \in Calls /\ last' = last /\ step' \in 0..6
      /\ stage' \in {"bounds", "return"} /\ success' \in BOOLEAN
      /\ Configuring /\ Progress'
  BY <1>1, <1>2, RegisterDone
<1>5. DriverTypeOK'
  BY <1>1, <1>4 DEF DriverTypeOK
<1> QED
  BY <1>1, <1>2, <1>3, <1>4, <1>5 DEF CommandTaken, WritesLand, Obeys, Configuring

LEMMA StatusStep ==
  ASSUME CmosInv, DriverInv, GeneratorTypeOK', ReadStatus \/ is_idle, free' = FALSE
  PROVE  DriverInv'
<1> USE DEF DriverInv
<1>1. /\ GeneratorClock(Read(STATUS)) /\ reg_state = "Idle" /\ ~reg_start /\ stage = "is_idle"
      /\ held => rddata = IDLE
  BY DEF ReadStatus, is_idle, CommandTaken
<1>2. config' = config /\ ~reg_start' /\ ~reg_stop'
  BY <1>1, NoWriteStep DEF CmosInv, Read
<1>3. rddata' = IDLE
  BY <1>1 DEF GeneratorClock, MM_READ, Read, STATUS, COMMAND
<1>4. reg_state' = "Idle"
  BY <1>1, IdleStep DEF CmosInv, GeneratorTypeOK, GeneratorClock
<1>5. /\ UNCHANGED <<call, step, success, last>>
      /\ \/ held' = TRUE /\ stage' = stage
         \/ held' = FALSE /\ stage' = "write"
  BY <1>1 DEF ReadStatus, is_idle
<1>6. Progress'
  BY <1>1, <1>2, <1>5, SameProgress
<1>7. DriverTypeOK'
  BY <1>5 DEF DriverTypeOK
<1> QED
  BY <1>1, <1>2, <1>3, <1>4, <1>5, <1>6, <1>7 DEF CommandTaken, WritesLand, Obeys

LEMMA DriverStart == DriverInit => DriverInv
<1> SUFFICES ASSUME DriverInit
             PROVE  DriverInv
  OBVIOUS
<1>1. GeneratorTypeOK
  BY CmosInit DEF DriverInit, Init, CmosInv
<1>2. reg_start = FALSE /\ reg_stop = FALSE /\ reg_state = "Idle"
  BY DEF DriverInit, GeneratorInit
<1>3. /\ call = NoCall /\ step = 0 /\ stage = "ready" /\ held = FALSE /\ free = TRUE
      /\ success = TRUE /\ last = "none" /\ ~Configuring
  BY DEF DriverInit, NoCall, Configuring
<1>4. DriverTypeOK
  <2>1. success \in BOOLEAN /\ held \in BOOLEAN /\ free \in BOOLEAN
    BY <1>3, Zenon
  <2> QED  BY <1>1, <1>3, <2>1 DEF DriverTypeOK
<1> QED
  BY <1>2, <1>3, <1>4 DEF DriverInv, Progress, CommandTaken, WritesLand, Obeys

LEMMA DriverStep ==
  ASSUME CmosInv, DriverInv, [DriverNext]_driverVars
  PROVE  CmosInv' /\ DriverInv'
<1>1. CmosInv'
  BY DriverPolite, CmosStep
<1>2. GeneratorTypeOK'
  BY <1>1 DEF CmosInv
<1>3. CASE NoAccessClock
  BY <1>1, <1>2, <1>3, NoAccessStep
<1>4. CASE AccessClock
  BY <1>1, <1>2, <1>4, CommandStep, ConfigWriteStep, StatusStep DEF AccessClock
<1>5. CASE SystemReset
  <2>1. /\ ~reg_start' /\ ~reg_stop' /\ reg_state' = "Idle"
        /\ call' = NoCall /\ step' = 0 /\ stage' = "ready" /\ held' = FALSE /\ free' = TRUE
        /\ success' = TRUE /\ last' = "none"
    BY <1>5 DEF SystemReset, Reset
  <2>2. ~Configuring'
    BY <2>1 DEF NoCall, Configuring
  <2>3. DriverTypeOK'
    <3>1. success' \in BOOLEAN /\ held' \in BOOLEAN /\ free' \in BOOLEAN
      BY <2>1, Zenon
    <3> QED  BY <1>2, <2>1, <3>1 DEF DriverTypeOK
  <2> QED
    BY <1>1, <2>1, <2>2, <2>3 DEF DriverInv, Progress, CommandTaken, WritesLand, Obeys
<1>6. CASE UNCHANGED driverVars
  <2>1. /\ UNCHANGED <<call, step, stage, held, free, success, last>>
        /\ UNCHANGED <<config, reg_start, reg_stop, rddata, reg_state>>
    BY <1>6 DEF driverVars, generatorVars
  <2>2. Progress'
    BY <2>1, SameProgress DEF DriverInv
  <2>3. DriverTypeOK'
    BY <1>2, <2>1 DEF DriverInv, DriverTypeOK
  <2> QED
    BY <1>1, <2>1, <2>2, <2>3 DEF DriverInv, CommandTaken, WritesLand, Obeys
<1> QED  BY <1>1, <1>3, <1>4, <1>5, <1>6 DEF DriverNext

\* The driver writes no register of a generator at work or about to start, and
\* after every call the generator is where the call put it, whatever the program
\* calls (write_*_reg, cmos_sensor_output_generator_start and _stop).
THEOREM DriverInvariant == DriverSpec => [](CmosInv /\ DriverInv)
<1>1. DriverInit => CmosInv /\ DriverInv
  BY CmosInit, DriverStart DEF DriverInit, Init
<1>2. CmosInv /\ DriverInv /\ [DriverNext]_driverVars => (CmosInv /\ DriverInv)'
  BY DriverStep
<1> QED  BY <1>1, <1>2, PTL DEF DriverSpec

\* configure says true exactly when its six values are in bounds, and each
\* register whose value is has it (cmos_sensor_output_generator_configure).
THEOREM DriverConfigures == DriverSpec => []Configured
<1>1. DriverInv => Configured
  BY DEF DriverInv, Progress, Configured, Done
<1> QED  BY <1>1, DriverInvariant, PTL

\* Each clock of the driver is one of a polite master, for any calls: what is
\* proved of Cmos holds under the driver.
THEOREM DriverKeepsRules == DriverSpec => KeepsRules
<1>1. DriverInit => Init
  BY DEF DriverInit, Init
<1> QED  BY <1>1, DriverPolite, DriverInvariant, PTL DEF DriverSpec, KeepsRules, Spec

\* Under the driver too, with no more said of the program, the pins are a sensor's.
THEOREM DriverRefinesSensor == DriverSpec => IsSensor
BY DriverKeepsRules, CmosRefinesSensor, PTL DEF KeepsRules

============================================================================
