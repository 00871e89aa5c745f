------------------------------ MODULE AudioQueue ------------------------------
(***************************************************************************)
(* What the audio output promises (src/audio/n3ds_audio.cpp): a bounded    *)
(* queue.  A packet is taken or not, what is taken is heard, whole and in  *)
(* the order it came, and a packet is refused for want of room only when   *)
(* Capacity packets wait.  Closing the output forgets what waits.          *)
(***************************************************************************)
EXTENDS Naturals, Sequences

CONSTANTS
  Sound,    (* what a packet may hold *)
  Silence,  (* before anything is heard *)
  Capacity

VARIABLES
  waiting,  (* taken and not yet heard to the end *)
  heard,    (* the last packet heard to the end *)
  answer    (* what became of the last packet *)

Answers == {"none", "taken", "refused", "lost"}

Init == waiting = <<>> /\ heard = Silence /\ answer = "none"

Take(s) ==
  /\ Len(waiting) < Capacity
  /\ waiting' = Append(waiting, s) /\ answer' = "taken"
  /\ UNCHANGED heard

Refuse ==
  /\ Len(waiting) = Capacity /\ answer' = "refused"
  /\ UNCHANGED <<waiting, heard>>

(* No output, or nothing the decoder understands. *)
Lose == answer' = "lost" /\ UNCHANGED <<waiting, heard>>

Hear ==
  /\ waiting # <<>>
  /\ heard' = Head(waiting) /\ waiting' = Tail(waiting)
  /\ UNCHANGED answer

Close == waiting' = <<>> /\ UNCHANGED <<heard, answer>>

Next == (\E s \in Sound : Take(s)) \/ Refuse \/ Lose \/ Hear \/ Close

Spec == Init /\ [][Next]_<<waiting, heard, answer>>
=============================================================================
