------------------------------ MODULE FrameSkip ------------------------------
(***************************************************************************)
(* How an Old 3DS keeps up with the stream (src/potato/potato_profile.cpp, *)
(* called from src/video/potato_sw_video.cpp): a decoded frame is not      *)
(* presented when the last one shown is too long ago, and the Ultra        *)
(* profile watches the cost of decoding and turns on a runtime fallback    *)
(* (dynamic_ultra_active) that makes the renderer cheaper and the skipping *)
(* stricter.  All of it lives in g_potato, which is set up once in a run   *)
(* of the program and outlives streams and changes of profile.             *)
(*                                                                         *)
(* Time is counted in ticks, TicksPerSecond of them in a second instead of *)
(* 268 million.  svcGetSystemTick is read by its difference to             *)
(* last_frame_tick only, so the model keeps that difference.               *)
(***************************************************************************)
EXTENDS Integers

CONSTANTS
  Profiles,        (* the profiles explored, of "default" "stable" "ultra"  *)
  TicksPerSecond,
  Costs,           (* what decoding one frame can cost                      *)
  Gaps,            (* how long the next frame can take to arrive            *)
  Easy,            (* the largest cost of a scene that is easy to decode    *)
  MaxElapsed,      (* longer waits are not told apart (bounds the model)    *)
  MaxCount         (* nor are longer rows of skips (bounds the model)       *)

ASSUME ProfilesAssumption ==
  Profiles \subseteq {"default", "better", "smooth", "stable", "ultra"}
ASSUME TicksAssumption == TicksPerSecond \in Nat /\ Costs \cup Gaps \subseteq Nat
(* Beyond a tenth of a second, longer than any budget with its grace, more *)
(* waiting makes no difference.                                            *)
ASSUME BoundsAssumption ==
  /\ MaxElapsed \in Nat /\ MaxCount \in Nat /\ Easy \in Nat
  /\ MaxCount > 3 /\ MaxElapsed * 10 >= TicksPerSecond

Capped(n, max) == IF n > max THEN max ELSE n

(* potato_resolve_profile, as far as skipping depends on it.               *)
Fps(p) == CASE p = "ultra" -> 12 [] p \in {"stable", "better"} -> 15
            [] p = "smooth" -> 30 [] OTHER -> 20
MaxConsecutiveSkips(p) == CASE p = "ultra" -> 10 [] p = "stable" -> 6 [] OTHER -> 2
PresentSkipCap == 2

VARIABLES
  profile,      (* the profile applied last                                 *)
  everShown,    (* last_frame_tick # 0                                      *)
  elapsed,      (* now - last_frame_tick                                    *)
  skips,        (* consecutive_skips                                        *)
  lastCost,     (* last_decode_ticks                                        *)
  avgCost,      (* decode_avg_ticks                                         *)
  pressure,     (* ultra_pressure                                           *)
  fallback,     (* dynamic_ultra_active                                     *)
  held,         (* history: good frames not presented since the last shown  *)
  strained,     (* history: strained frames since the fallback was left     *)
  easy          (* the scene has become easy to decode for good             *)

skipVars == <<profile, everShown, elapsed, skips, lastCost, avgCost, pressure,
              fallback, held, strained, easy>>

SkipInit ==
  /\ profile \in Profiles
  /\ everShown = FALSE /\ elapsed = 0 /\ skips = 0
  /\ lastCost = 0 /\ avgCost = 0 /\ pressure = 0 /\ fallback = FALSE
  /\ held = 0 /\ strained = 0 /\ easy = FALSE

Budget == TicksPerSecond \div Fps(profile)  (* frame_budget_ticks *)
SkipCap == Capped(MaxConsecutiveSkips(profile), PresentSkipCap)

Grace ==
  CASE profile = "ultra" /\ fallback -> Budget \div 16
    [] profile = "ultra" /\ ~fallback -> Budget \div 6
    [] profile = "stable" -> Budget \div 8
    [] OTHER -> Budget \div 2

(* Mutant: no cap on the skips in a row.                                   *)
ShouldSkip_NoCap(since) ==
  /\ everShown
  /\ \/ since > Budget + Grace
     \/ /\ profile = "stable" /\ avgCost > 0
        /\ \/ avgCost >= (Budget * 3) \div 4 /\ since > Budget \div 3
           \/ lastCost >= (Budget * 9) \div 10 /\ since > Budget \div 4
     \/ profile = "ultra" /\ fallback /\ since > Budget \div 5

(* potato_should_skip_frame                                                *)
ShouldSkip(since) ==
  /\ everShown /\ skips < SkipCap
  /\ \/ since > Budget + Grace
     \/ /\ profile = "stable" /\ avgCost > 0
        /\ \/ avgCost >= (Budget * 3) \div 4 /\ since > Budget \div 3
           \/ lastCost >= (Budget * 9) \div 10 /\ since > Budget \div 4
     \/ profile = "ultra" /\ fallback /\ since > Budget \div 5

Average(c) == IF avgCost = 0 THEN c ELSE (avgCost * 7 + c) \div 8

Strains(c) == c >= (Budget * 7) \div 10 \/ Average(c) >= (Budget * 5) \div 8

(* Mutant: pressure that has built up never goes away.                     *)
PressureAfter_NoRelief(c) ==
  IF Strains(c) /\ pressure < 30 THEN pressure + 2 ELSE pressure

PressureAfter(c) ==
  IF Strains(c) THEN IF pressure < 30 THEN pressure + 2 ELSE pressure
  ELSE IF pressure > 0 THEN pressure - 1 ELSE 0

(* Mutant: the fallback is left at the pressure it is entered at.          *)
FallbackAfter_NoBand(p) == p >= 8

(* Mutant: the fallback is left only when no pressure remains.             *)
FallbackAfter(p) == p >= 8 \/ (fallback /\ p > 2)

(* potato_record_decode_ticks                                              *)
RecordDecodeTicks(c) ==
  /\ lastCost' = c /\ avgCost' = Average(c)
  /\ IF profile = "ultra"
     THEN /\ pressure' = PressureAfter(c)
          /\ fallback' = FallbackAfter(pressure')
          /\ strained' = IF fallback /\ ~fallback' THEN 0
                         ELSE IF Strains(c) THEN Capped(strained + 1, MaxCount)
                         ELSE strained
     ELSE UNCHANGED <<pressure, fallback, strained>>

(* potato_frame_skipped, once the time has passed.                         *)
Skipped(since, c) ==
  /\ skips' = Capped(skips + 1, MaxCount)
  /\ elapsed' = Capped(since + c, MaxElapsed)
  /\ UNCHANGED <<everShown, easy, profile>>

Allowed(c) == c \in Costs /\ (easy => c <= Easy)
Since(g) == Capped(elapsed + g, MaxElapsed)

(* submit_decode_unit when FFmpeg fails or has no frame to give.           *)
DecodeFails ==
  \E g \in Gaps, c \in Costs :
    /\ Allowed(c)
    /\ RecordDecodeTicks(c) /\ Skipped(Since(g), c)
    /\ UNCHANGED held

(* submit_decode_unit when the frame is decoded and not presented.         *)
FrameHeld ==
  \E g \in Gaps, c \in Costs :
    /\ Allowed(c) /\ ShouldSkip(Since(g))
    /\ RecordDecodeTicks(c) /\ Skipped(Since(g), c)
    /\ held' = Capped(held + 1, MaxCount)

(* submit_decode_unit when it is presented: potato_frame_decoded.          *)
FramePresented ==
  \E g \in Gaps, c \in Costs :
    /\ Allowed(c) /\ ~ShouldSkip(Since(g))
    /\ RecordDecodeTicks(c)
    /\ everShown' = TRUE /\ skips' = 0 /\ elapsed' = 0 /\ held' = 0
    /\ UNCHANGED <<easy, profile>>

Frame == DecodeFails \/ FrameHeld \/ FramePresented

(* Between two streams the profile is changed (potato_apply_config).       *)
ApplyConfig(p) ==
  /\ profile' = p
  /\ UNCHANGED <<everShown, elapsed, skips, lastCost, avgCost, pressure, fallback,
                 held, strained, easy>>

SceneGetsEasy ==
  /\ ~easy /\ easy' = TRUE
  /\ UNCHANGED <<profile, everShown, elapsed, skips, lastCost, avgCost, pressure,
                 fallback, held, strained>>

SkipNext == Frame \/ (\E p \in Profiles : ApplyConfig(p)) \/ SceneGetsEasy

(* The host sends frames for as long as the stream lasts.                  *)
SkipSpec == SkipInit /\ [][SkipNext]_skipVars /\ WF_skipVars(Frame)

-----------------------------------------------------------------------------
(* Types; the pressure has a limit.                                        *)
SkipTypeOK ==
  /\ profile \in Profiles
  /\ everShown \in BOOLEAN /\ fallback \in BOOLEAN /\ easy \in BOOLEAN
  /\ elapsed \in 0 .. MaxElapsed
  /\ skips \in 0 .. MaxCount /\ held \in 0 .. MaxCount /\ strained \in 0 .. MaxCount
  /\ lastCost \in Nat /\ avgCost \in Nat
  /\ pressure \in 0 .. 31

(* However slow decoding is, no more than two good frames in a row are     *)
(* kept from the screen, over failed frames and changes of profile too.    *)
PictureMoves == held <= PresentSkipCap

(* The fallback does not flicker: between leaving it and entering it again *)
(* at least three frames have strained the decoder.                        *)
NoFlicker == [][~fallback /\ fallback' => strained' >= 3]_skipVars

(* In a stream that has become easy to decode the fallback ends.           *)
FallbackEnds ==
  (easy /\ fallback) ~> (~fallback \/ profile # "ultra")
=============================================================================
