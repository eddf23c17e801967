----------------------------- MODULE RtcScreen -----------------------------
(***************************************************************************)
(* The display of the real-time clock: six seven-segment digits behind one *)
(* set of segment lines, served in turn (fpga_rtc/hw/quartus/              *)
(* rtcmodule.vhd:142-229), and the 100 kHz divider that paces it.          *)
(*                                                                         *)
(* SelSeg is what the segment lines show: a dot or none, and a decimal     *)
(* digit, or Blank for a nibble above nine (the ten patterns of the source *)
(* differ).  nSelDig is the digit whose line is low, NoDigit for none.     *)
(***************************************************************************)
EXTENDS RtcBcd

CONSTANT ScanPeriod    \* what the 100 kHz divider counts to, 500 in the source

ASSUME ScanAssumption == ScanPeriod \in Nat /\ ScanPeriod >= 2

VARIABLES
  count_100khz, enable_100khz,   \* the divider and its output
  cycle, count_seg,              \* where the scan is in a digit, and in which
  nSelDig, SelSeg, Reset_Led     \* the pins

screenVars ==
  <<count_100khz, enable_100khz, cycle, count_seg, nSelDig, SelSeg, Reset_Led>>

Digits  == 0..5
NoDigit == 6
Blank   == Radix
Dark    == [dot |-> FALSE, number |-> Blank]

ScanDivide ==
  /\ enable_100khz' = (count_100khz + 1 = ScanPeriod)
  /\ count_100khz' = IF count_100khz + 1 = ScanPeriod THEN 1 ELSE count_100khz + 1

----------------------------------------------------------------------------
(* What a digit shows of <<hundreds, seconds, minutes>>: the units of each  *)
(* before its tens; the units of seconds and minutes have the dot.          *)

NumberToShow(digit, shown) ==
  LET byte == shown[(digit \div 2) + 1]
  IN  IF digit % 2 = 0 THEN byte[2] ELSE byte[1]

Segments(digit, shown) ==
  LET number == NumberToShow(digit, shown)
  IN  [dot |-> digit \in {2, 4}, number |-> IF number < Radix THEN number ELSE Blank]

----------------------------------------------------------------------------
(* The four kinds of scan step. *)

SelectDigit ==
  /\ cycle = 0
  /\ cycle' = 1
  /\ Reset_Led' = 1
  /\ nSelDig' = count_seg
  /\ UNCHANGED <<SelSeg, count_seg>>

LoadNextDigit(shown) ==
  /\ cycle = 1
  /\ cycle' = 2
  /\ Reset_Led' = 0
  /\ SelSeg' = Segments((count_seg + 1) % 6, shown)
  /\ UNCHANGED <<nSelDig, count_seg>>

\* Slip: the clearing pulse goes on.
LoadUnderReset(shown) ==
  /\ cycle = 1
  /\ cycle' = 2
  /\ SelSeg' = Segments(count_seg, shown)
  /\ UNCHANGED <<Reset_Led, nSelDig, count_seg>>

LoadSegments(shown) ==
  /\ cycle = 1
  /\ cycle' = 2
  /\ Reset_Led' = 0
  /\ SelSeg' = Segments(count_seg, shown)
  /\ UNCHANGED <<nSelDig, count_seg>>

Hold ==
  /\ cycle \in 2..14
  /\ cycle' = cycle + 1
  /\ UNCHANGED <<Reset_Led, SelSeg, nSelDig, count_seg>>

UnloadLit ==
  /\ cycle = 15
  /\ cycle' = 0
  /\ count_seg' = IF count_seg + 1 = 6 THEN 0 ELSE count_seg + 1
  /\ UNCHANGED <<Reset_Led, nSelDig, SelSeg>>

UnloadLastSkipped ==
  /\ cycle = 15
  /\ cycle' = 0
  /\ SelSeg' = Dark
  /\ count_seg' = IF count_seg + 1 = 5 THEN 0 ELSE count_seg + 1
  /\ UNCHANGED <<Reset_Led, nSelDig>>

Unload ==
  /\ cycle = 15
  /\ cycle' = 0
  /\ SelSeg' = Dark
  /\ count_seg' = IF count_seg + 1 = 6 THEN 0 ELSE count_seg + 1
  /\ UNCHANGED <<Reset_Led, nSelDig>>

ScreenClock(shown) ==
  /\ ScanDivide
  /\ \/ ~enable_100khz
        /\ UNCHANGED <<cycle, count_seg, nSelDig, SelSeg, Reset_Led>>
     \/ enable_100khz
        /\ (SelectDigit \/ LoadSegments(shown) \/ Hold \/ Unload)

ScreenInit ==
  /\ count_100khz = 0
  /\ enable_100khz = FALSE
  /\ cycle = 0
  /\ count_seg = 0
  /\ nSelDig = NoDigit
  /\ SelSeg = Dark
  /\ Reset_Led = 0

ScreenTypeOK ==
  /\ count_100khz \in 0..ScanPeriod-1
  /\ enable_100khz \in BOOLEAN
  /\ cycle \in 0..15
  /\ count_seg \in Digits
  /\ nSelDig \in Digits \cup {NoDigit}
  /\ SelSeg \in [dot : BOOLEAN, number : 0..Radix]
  /\ Reset_Led \in {0, 1}

============================================================================
