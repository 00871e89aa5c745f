------------------------------- MODULE AudioRing -------------------------------
(***************************************************************************)
(* The audio output (src/audio/n3ds_audio.cpp): the Opus decoder, the DSP  *)
(* service, and a ring of wave buffers.  The thread that receives audio    *)
(* (or "AudioDec" on the second core) decodes a packet into the buffer at  *)
(* wave_buf_idx and gives it to the DSP, which plays what it was given in  *)
(* turn and marks it done.                                                 *)
(*                                                                         *)
(* The DSP is external: its list of wave buffers is chain.  Nothing sets   *)
(* n3ds_audio_disabled, so it is left out.                                 *)
(***************************************************************************)
EXTENDS Naturals, Integers, Sequences

CONSTANTS
  Slots,    (* WAVEBUF_SIZE *)
  Sound,    (* what a packet may hold *)
  Silence   (* what the buffers hold at first *)

ASSUME AudioAssumption == Slots \in Nat \ {0}

Ring == 0 .. Slots - 1

VARIABLES
  opus,     (* decoder is not NULL *)
  ndsp,     (* ndsp_initialized *)
  buffer,   (* audioBuffer is not NULL *)
  idx,      (* wave_buf_idx *)
  status,   (* of each wave buffer *)
  data,     (* what each wave buffer holds *)
  chain,    (* the buffers the DSP was given, the one it plays first *)
  filling,  (* a packet is decoded and not yet added *)
  heard,    (* the packet played last *)
  answer    (* what became of the last packet *)

device == <<opus, ndsp, buffer>>
slots == <<idx, status, data, chain, filling>>
audioVars == <<device, slots, heard, answer>>

AudioInit ==
  /\ opus = FALSE /\ ndsp = FALSE /\ buffer = FALSE
  /\ idx = 0 /\ chain = <<>> /\ filling = FALSE
  /\ status = [i \in Ring |-> "free"] /\ data = [i \in Ring |-> Silence]
  /\ heard = Silence /\ answer = "none"

-----------------------------------------------------------------------------
(* n3ds_renderer_init, which a failure leaves in the middle.  The decoder  *)
(* of an earlier failure is forgotten.                                     *)
OpusFails ==
  /\ opus' = FALSE
  /\ UNCHANGED <<ndsp, buffer, slots, heard, answer>>

NdspFails ==
  /\ opus' = TRUE
  /\ UNCHANGED <<ndsp, buffer, slots, heard, answer>>

AllocFails ==
  /\ opus' = TRUE /\ ndsp' = FALSE /\ buffer' = FALSE /\ idx' = 0
  /\ UNCHANGED <<status, data, chain, filling, heard, answer>>

Opened ==
  /\ opus' = TRUE /\ ndsp' = TRUE /\ buffer' = TRUE
  /\ idx' = 0 /\ chain' = <<>> /\ filling' = FALSE
  /\ status' = [i \in Ring |-> "done"] /\ data' = [i \in Ring |-> Silence]
  /\ UNCHANGED <<heard, answer>>

(* n3ds_renderer_cleanup.  The threads that play have ended by then.       *)
Cleanup ==
  /\ ~filling
  /\ opus' = FALSE /\ ndsp' = FALSE /\ buffer' = FALSE
  /\ chain' = IF ndsp THEN <<>> ELSE chain
  /\ UNCHANGED <<idx, status, data, filling, heard, answer>>

(* n3ds_renderer_decode_and_play_sample: the early returns, the decoding   *)
(* into a buffer that is done, and handing it over.                        *)
Playable == opus /\ ndsp

Lost ==
  /\ ~filling /\ answer' = "lost"
  /\ UNCHANGED <<device, slots, heard>>

Full ==
  /\ ~filling /\ Playable /\ status[idx] # "done" /\ answer' = "refused"
  /\ UNCHANGED <<device, slots, heard>>

Fill_Blindly(s) ==
  /\ ~filling /\ Playable
  /\ filling' = TRUE /\ data' = [data EXCEPT ![idx] = s]
  /\ UNCHANGED <<device, idx, status, chain, heard, answer>>

Fill(s) ==
  /\ ~filling /\ Playable /\ status[idx] = "done"
  /\ filling' = TRUE /\ data' = [data EXCEPT ![idx] = s]
  /\ UNCHANGED <<device, idx, status, chain, heard, answer>>

After(i) == IF i = Slots - 1 THEN 0 ELSE i + 1

Add ==
  /\ filling /\ filling' = FALSE
  /\ status' = [status EXCEPT ![idx] = "queued"]
  /\ chain' = Append(chain, idx)
  /\ idx' = After(idx) /\ answer' = "taken"
  /\ UNCHANGED <<device, data, heard>>

(* The DSP.                                                                *)
DspStarts ==
  /\ ndsp /\ chain # <<>> /\ status[Head(chain)] = "queued"
  /\ status' = [status EXCEPT ![Head(chain)] = "playing"]
  /\ UNCHANGED <<device, idx, data, chain, filling, heard, answer>>

DspEnds ==
  /\ ndsp /\ chain # <<>> /\ status[Head(chain)] = "playing"
  /\ status' = [status EXCEPT ![Head(chain)] = "done"]
  /\ heard' = data[Head(chain)] /\ chain' = Tail(chain)
  /\ UNCHANGED <<device, idx, data, filling, answer>>

Open == chain = <<>> /\ ~filling /\ (OpusFails \/ NdspFails \/ AllocFails \/ Opened)
Play == Lost \/ Full \/ (\E s \in Sound : Fill(s)) \/ Add
Dsp == DspStarts \/ DspEnds

AudioNext == Open \/ Play \/ Dsp \/ Cleanup
AudioSpec == AudioInit /\ [][AudioNext]_audioVars

-----------------------------------------------------------------------------
AudioTypeOK ==
  /\ opus \in BOOLEAN /\ ndsp \in BOOLEAN /\ buffer \in BOOLEAN
  /\ idx \in Ring /\ filling \in BOOLEAN
  /\ status \in [Ring -> {"free", "queued", "playing", "done"}]
  /\ data \in [Ring -> Sound \cup {Silence}]
  /\ chain \in Seq(Ring)
  /\ heard \in Sound \cup {Silence}
  /\ answer \in {"none", "taken", "refused", "lost"}

(* The buffers the DSP has are the last Len(chain) ones before             *)
(* wave_buf_idx, and these alone are not done.                             *)
Wrap(x) == IF x < 0 THEN x + Slots ELSE x
Given == {chain[j] : j \in 1 .. Len(chain)}
RingInOrder ==
  /\ Len(chain) <= Slots
  /\ \A j \in 1 .. Len(chain) : chain[j] = Wrap(idx + j - 1 - Len(chain))
  /\ ndsp => \A i \in Ring : status[i] = "done" <=> i \notin Given
  /\ filling => Playable /\ Len(chain) < Slots /\ data[idx] \in Sound

(* What waits, as the data in the buffers of the DSP.                      *)
AQ == INSTANCE AudioQueue
        WITH Capacity <- Slots,
             waiting <- [j \in 1 .. Len(chain) |-> data[chain[j]]]

(* The ring is a bounded queue: what was taken is heard in order and as it *)
(* was decoded, never overwritten while it waits, and nothing is refused   *)
(* while a buffer is free.                                                 *)
ImplementsAudioQueue == AQ!Spec
=============================================================================
