-------------------------------- MODULE Rtc --------------------------------
(***************************************************************************)
(* The rtc entity: time registers and display on one clock                 *)
(* (fpga_rtc/hw/quartus/rtcmodule.vhd).  The display reads the registers   *)
(* digit by digit while they run, are written or are reset; the reset does *)
(* not reach it.                                                           *)
(***************************************************************************)
EXTENDS RtcTime, RtcScreen

vars == <<timeVars, screenVars>>

Init == TimeInit /\ ScreenInit

RtcClock(access) == Clock(access) /\ ScreenClock(registers)

Edge == \E access \in Accesses : RtcClock(access)

Next == Edge \/ (Reset /\ UNCHANGED screenVars)

Spec == Init /\ [][Next]_vars

(* The clock runs. *)
FairSpec == Spec /\ WF_vars(Edge)

----------------------------------------------------------------------------

\* The segment lines are shared: they are dark whenever the digit changes, on
\* both sides of the change, or a number would show on its neighbour
\* (rtcmodule.vhd:149-152, 163-172, 218-219).
DarkBetweenDigits ==
  [][nSelDig' # nSelDig => SelSeg = Dark /\ SelSeg' = Dark]_vars

\* While a digit is lit, it shows one number, the one the registers held for it
\* when it lit up, and the digit selected is the one the number is of: selection
\* and number are taken from count_seg on different clocks (rtcmodule.vhd:164, 181).
ShowsSelected ==
  [][SelSeg' # SelSeg => SelSeg' \in {Dark, Segments(nSelDig', registers)}
                         /\ (SelSeg = Dark \/ SelSeg' = Dark)]_vars

\* The pulse that clears the segments comes when no number is on the lines, so
\* that it never cuts one short (rtcmodule.vhd:161, 178).
ResetWhileDark == Reset_Led = 1 => SelSeg = Dark

\* Every digit is lit again and again, whatever goes on in the registers, unless
\* they have digits no segments stand for (rtcmodule.vhd:197-210).
EveryDigitLit ==
  \A digit \in Digits : []<>(nSelDig = digit /\ (SelSeg # Dark \/ ~ValidTime))

----------------------------------------------------------------------------
(* The inductive invariant of the display: what is on its pins in each      *)
(* cycle, whatever the bus master writes into the registers.                *)

ScanInv ==
  /\ Reset_Led = 1 => cycle = 1
  /\ cycle \in 0..1 => SelSeg = Dark
  /\ cycle # 0 => nSelDig = count_seg

RtcInv ==
  /\ TimeTypeOK
  /\ ScreenTypeOK
  /\ ScanInv

============================================================================
