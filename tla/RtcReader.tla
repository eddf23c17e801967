----------------------------- MODULE RtcReader ------------------------------
(***************************************************************************)
(* The accesses main makes to the real-time clock                          *)
(* (fpga_rtc/software/fpga_rtc/hello_world.c:51-69): it sets the time,     *)
(* register by register, and then reads it for ever, register by register, *)
(* while the clock runs and carries.                                       *)
(*                                                                         *)
(* What is read is what the bus returns.  The file does not compile        *)
(* (write_rtc names `ofset', line 37) and read_rtc returns nothing (line   *)
(* 44), so that nothing can be said of what main prints.                   *)
(***************************************************************************)
EXTENDS RtcTime

CONSTANT SetTime    \* what main sets: hundreds, seconds, minutes

\* It is a time a clock can show (hello_world.c:50-56).
ASSUME SetTimeAssumption ==
  SetTime \in [1..3 -> Bcd] /\ SetTime[1] # Last /\ IsSecond(SetTime[2])

VARIABLES
  doing,     \* setting the time, in the delay loop, reading the time
  at,        \* which of the three accesses is next
  held,      \* on the second clock of a read (readWaitTime 1)
  reading,   \* hun, sec, min
  began,     \* history: the time when the reading began
  whole      \* history: the clock has not restarted from zero since

readerVars == <<timeVars, doing, at, held, reading, began, whole>>

\* Slip: from the minutes down.
ReadOrderDown == <<3, 2, 1>>

ReadOrder == <<1, 2, 3>>

\* By a reset, or at the end of the last minute.
Restarts == registers' = <<Zero, Zero, Zero>> /\ registers # <<Zero, Zero, Zero>>

\* Nobody else uses the bus; the clock may be reset.
Bus(access) ==
  /\ Clock(access)
  /\ whole' = (whole /\ ~Restarts)

Proceed ==
  IF at < 3 THEN at' = at + 1 /\ UNCHANGED doing ELSE at' = 1 /\ doing' = "delay"

write_rtc ==
  /\ doing = "set" /\ gap = WriteGap
  /\ Proceed
  /\ UNCHANGED <<held, reading, began>>
  /\ Bus(Write(at, SetTime[at]))

Compute ==
  /\ ~held
  /\ UNCHANGED <<doing, at, held, reading, began>>
  /\ Bus(NoAccess)

DelayEnds ==
  /\ doing = "delay"
  /\ doing' = "read"
  /\ began' = registers
  /\ UNCHANGED <<at, held, reading>>
  /\ Clock(NoAccess)
  /\ whole' = ~Restarts

read_rtc ==
  /\ doing = "read" /\ ~held
  /\ held' = TRUE
  /\ UNCHANGED <<doing, at, reading, began>>
  /\ Bus(Read(ReadOrder[at]))

ReadReturns ==
  /\ held
  /\ held' = FALSE
  /\ reading' = [reading EXCEPT ![ReadOrder[at]] = read_data]
  /\ Proceed
  /\ UNCHANGED began
  /\ Bus(Read(ReadOrder[at]))

ReaderInit ==
  /\ TimeInit
  /\ doing = "set" /\ at = 1 /\ held = FALSE
  /\ reading = <<Zero, Zero, Zero>>
  /\ began = <<Zero, Zero, Zero>> /\ whole = TRUE

ReaderClock == write_rtc \/ Compute \/ DelayEnds \/ read_rtc \/ ReadReturns

ReaderReset ==
  /\ Reset
  /\ whole' = (whole /\ ~Restarts)
  /\ UNCHANGED <<doing, at, held, reading, began>>

ReaderNext == ReaderClock \/ ReaderReset

ReaderSpec == ReaderInit /\ [][ReaderNext]_readerVars

ReaderTypeOK ==
  /\ TimeTypeOK
  /\ doing \in {"set", "delay", "read"}
  /\ at \in 1..3
  /\ held \in BOOLEAN /\ whole \in BOOLEAN
  /\ reading \in [1..3 -> Byte] /\ began \in [1..3 -> Byte]

----------------------------------------------------------------------------

\* A time read in three accesses is never earlier than the time when the reading
\* began, whatever carries fall between them; it is because main reads the
\* hundredths first (hello_world.c:67-69).
ReadNotEarlier ==
  doing # "read" /\ whole => ~Earlier(reading, began)

\* What would be read if the clock stood still from now on.
SoFar ==
  [i \in 1..3 |-> IF i < at THEN reading[i]
                  ELSE IF i = at /\ held THEN read_data
                  ELSE registers[i]]

\* Inductive.  What is read and what is still to be read are, together, never
\* earlier either; and the time the program sets is one the clock can go on from.
ReaderInv ==
  /\ ReaderTypeOK
  /\ TimeInv
  /\ held => doing = "read"
  /\ doing = "delay" => at = 1
  /\ doing = "read" /\ whole => ~Earlier(SoFar, began)
  /\ ReadNotEarlier

============================================================================
