---------------------------- MODULE FrameHandoff ----------------------------
(***************************************************************************)
(* What the decoder of an Old 3DS promises about the frames it hands over  *)
(* to be shown: one at a time, in decoding order, and a frame is replaced  *)
(* by the next only once the screen is done with it.  After the handover   *)
(* is closed no frame enters, and the last one may or may not be shown.    *)
(***************************************************************************)
EXTENDS Naturals

CONSTANT MaxFrames

VARIABLES
  handed,    (* number of the frame handed over last, 0 before the first   *)
  finished,  (* number of the frame the screen was done with last          *)
  open

hvars == <<handed, finished, open>>

HInit == handed = 0 /\ finished = 0 /\ open = TRUE

HandOver(f) ==
  /\ open /\ handed = finished /\ f > handed
  /\ handed' = f /\ UNCHANGED <<finished, open>>

Finish ==
  /\ handed # finished
  /\ finished' = handed /\ UNCHANGED <<handed, open>>

Close ==
  /\ open /\ open' = FALSE
  /\ UNCHANGED <<handed, finished>>

HNext == (\E f \in 1 .. MaxFrames : HandOver(f)) \/ Finish \/ Close

HSpec == HInit /\ [][HNext]_hvars
=============================================================================
