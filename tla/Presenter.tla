------------------------------ MODULE Presenter ------------------------------
(***************************************************************************)
(* The software decoder of an Old 3DS (src/video/potato_sw_video.cpp) with *)
(* its presenter thread, and the renderer both of them and the message     *)
(* dispatcher share (src/video/n3ds_video_base.cpp).                       *)
(*                                                                         *)
(* submit_decode_unit runs in the thread of the video stream: it decodes,  *)
(* takes the frame from FFmpeg and hands its planes to the presenter,      *)
(* which converts and draws them under renderer_lock.  job_ready is a      *)
(* one-shot event, presenter_idle a sticky one.  Without a presenter       *)
(* thread, or when the decoder cannot be given a lower priority, the       *)
(* decoder presents the frame itself.  The dispatch thread replaces the    *)
(* renderer when the user changes the touch mode.  The destructor runs in  *)
(* the main thread after the video stream has stopped submitting.          *)
(*                                                                         *)
(* Frames are numbered in the order of submission.  ffmpeg_init is called  *)
(* with one frame buffer, so the planes of a frame live until the next     *)
(* ffmpeg_get_frame.                                                       *)
(***************************************************************************)
EXTENDS Naturals

CONSTANTS
  MaxFrames,  (* number of decode units submitted (bounds the model)       *)
  MaxSwaps,   (* number of renderer changes (bounds the model)             *)
  CanTile     (* can the Y2R unit write tiled output for this frame size   *)

ASSUME FramesAssumption == MaxFrames \in Nat
ASSUME SwapsAssumption == MaxSwaps \in Nat
ASSUME TileAssumption == CanTile \in BOOLEAN

Threads == {"decoder", "presenter", "dispatcher", "main"}

VARIABLES
  pc,         (* where each thread is                                      *)
  async,      (* async_present                                             *)
  checked,    (* decoder_priority_checked                                  *)
  stop,       (* presenter_stop                                            *)
  jobReady,   (* event job_ready                                           *)
  idle,       (* event presenter_idle                                      *)
  job,        (* the frame whose planes are in job                         *)
  live,       (* the frame whose planes FFmpeg keeps, 0 when there is none *)
  frame,      (* the frame being submitted                                 *)
  want,       (* present_frame: is this frame to be shown                  *)
  lock,       (* owner of renderer_lock                                    *)
  accepts,    (* renderer->accepts_tiled_source()                          *)
  swaps,      (* number of renderers installed so far                      *)
  tiled,      (* local of _present_frame in the thread that runs it        *)
  queued,     (* history: the frame passed to _queue_present last          *)
  finished    (* history: the frame _present_frame returned from last      *)

vars == <<pc, async, checked, stop, jobReady, idle, job, live, frame, want,
          lock, accepts, swaps, tiled, queued, finished>>

decode == <<async, checked, frame, want, live>>
handoff == <<jobReady, idle, job, queued>>
screen == <<lock, accepts, swaps, tiled, finished>>

DecoderPC == {"idle", "decode", "wait", "get", "queue", "clear", "signal",
              "lock", "convert", "write"}
PresenterPC == {"none", "wait", "woken", "lock", "convert", "write", "signal", "exited"}
MainPC == {"setup", "run", "stop", "join", "destroy", "done"}

Goto(t, from, to) == pc[t] = from /\ pc' = [pc EXCEPT ![t] = to]

Init ==
  /\ pc = [t \in Threads |-> IF t = "presenter" THEN "none"
                             ELSE IF t = "main" THEN "setup" ELSE "idle"]
  /\ async = FALSE /\ checked = FALSE /\ stop = FALSE
  /\ jobReady = FALSE /\ idle = TRUE
  /\ job = 0 /\ live = 0 /\ frame = 0 /\ want = FALSE
  /\ lock = "none" /\ accepts = FALSE /\ swaps = 0 /\ tiled = FALSE
  /\ queued = 0 /\ finished = 0

(* The constructor: presenter_idle starts signalled; threadCreate may fail.*)
Setup ==
  /\ pc["main"] = "setup"
  /\ async' \in BOOLEAN
  /\ pc' = [pc EXCEPT !["main"] = "run",
                      !["presenter"] = IF async' THEN "wait" ELSE "none"]
  /\ UNCHANGED <<checked, stop, frame, want, live, handoff, screen>>

(***************************************************************************)
(* submit_decode_unit.                                                     *)
(***************************************************************************)

(* Mutant: the fallback is decided again on every frame.                   *)
LowerPriority_Always ==
  IF async THEN checked' = TRUE /\ async' \in BOOLEAN ELSE UNCHANGED <<checked, async>>

(* The first frame lowers the decoder below the presenter; when the system *)
(* refuses, presenting falls back to this thread.                          *)
LowerPriority ==
  IF async /\ ~checked
  THEN checked' = TRUE /\ async' \in BOOLEAN
  ELSE UNCHANGED <<checked, async>>

(* _stream_fell_behind makes it return at once and ask for an IDR frame;   *)
(* potato_should_skip_frame decides whether the frame will be shown.       *)
Submit ==
  /\ pc["main"] = "run" /\ frame < MaxFrames
  /\ pc["decoder"] = "idle"
  /\ LowerPriority
  /\ frame' = frame + 1
  /\ \/ UNCHANGED <<pc, want>>
     \/ /\ want' \in BOOLEAN
        /\ pc' = [pc EXCEPT !["decoder"] = "decode"]
  /\ UNCHANGED <<stop, live, handoff, screen>>

(* ffmpeg_decode; on an error the frame counts as skipped and the host is  *)
(* asked for an IDR frame.                                                 *)
Decode ==
  /\ Goto("decoder", "decode", "wait") \/ Goto("decoder", "decode", "idle")
  /\ UNCHANGED <<stop, decode, handoff, screen>>

(* Mutant: the decoder does not wait for the presenter.                    *)
WaitPresenterIdle_NoWait ==
  /\ Goto("decoder", "wait", "get")
  /\ UNCHANGED <<stop, decode, handoff, screen>>

(* _wait_presenter_idle; its timeout only prints.                          *)
WaitPresenterIdle ==
  /\ async => idle
  /\ Goto("decoder", "wait", "get")
  /\ UNCHANGED <<stop, decode, handoff, screen>>

(* ffmpeg_get_frame releases the planes of the previous frame, and may     *)
(* have no new one.  A frame that is not to be shown ends here.            *)
GetFrame ==
  /\ \/ live' = 0 /\ Goto("decoder", "get", "idle")
     \/ live' = frame /\ Goto("decoder", "get", IF want THEN "queue" ELSE "idle")
  /\ UNCHANGED <<stop, async, checked, frame, want, handoff, screen>>

(* _queue_present: without a presenter the frame is drawn here.            *)
QueuePresent ==
  /\ Goto("decoder", "queue", IF async THEN "clear" ELSE "lock")
  /\ IF async THEN job' = frame ELSE UNCHANGED job
  /\ queued' = frame
  /\ UNCHANGED <<stop, decode, jobReady, idle, screen>>

(* Mutant: the idle event is left signalled.                               *)
ClearIdle ==
  /\ Goto("decoder", "clear", "signal")
  /\ idle' = FALSE
  /\ UNCHANGED <<stop, decode, jobReady, job, queued, screen>>

(* Mutant: the presenter is not woken.                                     *)
SignalJob_Lost ==
  /\ Goto("decoder", "signal", "idle")
  /\ UNCHANGED <<stop, decode, handoff, screen>>

SignalJob ==
  /\ Goto("decoder", "signal", "idle")
  /\ jobReady' = TRUE
  /\ UNCHANGED <<stop, decode, idle, job, queued, screen>>

(***************************************************************************)
(* _present_frame, run by thread t with the planes of frame f.             *)
(***************************************************************************)

(* Mutant: renderer_lock is not taken.                                     *)
PresentLock_Unlocked(t) ==
  /\ Goto(t, "lock", "convert")
  /\ tiled' = (CanTile /\ accepts)
  /\ UNCHANGED <<stop, decode, handoff, lock, accepts, swaps, finished>>

PresentLock(t) ==
  /\ lock = "none" /\ lock' = t
  /\ Goto(t, "lock", "convert")
  /\ tiled' = (CanTile /\ accepts)
  /\ UNCHANGED <<stop, decode, handoff, accepts, swaps, finished>>

AfterPresent(t) == IF t = "presenter" THEN "signal" ELSE "idle"

Presented(t) == finished' = IF t = "presenter" THEN job ELSE frame

(* y2r->convert reads the planes; when it fails nothing is drawn and the   *)
(* lock is released.                                                       *)
PresentConvert(t) ==
  /\ \/ Goto(t, "convert", "write") /\ UNCHANGED <<lock, finished>>
     \/ Goto(t, "convert", AfterPresent(t)) /\ lock' = "none" /\ Presented(t)
  /\ UNCHANGED <<stop, decode, handoff, accepts, swaps, tiled>>

(* The tiled or the linear image goes to the framebuffer.                  *)
PresentWrite(t) ==
  /\ Goto(t, "write", AfterPresent(t))
  /\ lock' = "none" /\ Presented(t)
  /\ UNCHANGED <<stop, decode, handoff, accepts, swaps, tiled>>

Present(t) == PresentLock(t) \/ PresentConvert(t) \/ PresentWrite(t)

(***************************************************************************)
(* _presenter_loop.                                                        *)
(***************************************************************************)

(* Waiting on a one-shot event resets it.                                  *)
PresenterWake ==
  /\ jobReady
  /\ Goto("presenter", "wait", "woken")
  /\ jobReady' = FALSE
  /\ UNCHANGED <<stop, decode, idle, job, queued, screen>>

PresenterCheckStop ==
  /\ Goto("presenter", "woken", IF stop THEN "exited" ELSE "lock")
  /\ UNCHANGED <<stop, decode, handoff, screen>>

PresenterSignalIdle ==
  /\ Goto("presenter", "signal", "wait")
  /\ idle' = TRUE
  /\ UNCHANGED <<stop, decode, jobReady, job, queued, screen>>

(***************************************************************************)
(* The dispatch thread in _accept_touch_state_changed: the old renderer is *)
(* destroyed and the new one installed while the lock is held.             *)
(***************************************************************************)
SwapLock ==
  /\ pc["main"] # "done" /\ swaps < MaxSwaps
  /\ lock = "none" /\ lock' = "dispatcher"
  /\ Goto("dispatcher", "idle", "swap")
  /\ UNCHANGED <<stop, decode, handoff, accepts, swaps, tiled, finished>>

SwapRenderer ==
  /\ Goto("dispatcher", "swap", "unlock")
  /\ accepts' \in BOOLEAN /\ swaps' = swaps + 1
  /\ UNCHANGED <<stop, decode, handoff, lock, tiled, finished>>

SwapUnlock ==
  /\ Goto("dispatcher", "unlock", "idle")
  /\ lock' = "none"
  /\ UNCHANGED <<stop, decode, handoff, accepts, swaps, tiled, finished>>

(***************************************************************************)
(* The destructor, after LiStopConnection has stopped the video stream.    *)
(***************************************************************************)
Cleanup ==
  /\ pc["decoder"] = "idle"
  /\ IF pc["presenter"] = "none"
     THEN Goto("main", "run", "destroy") /\ UNCHANGED stop
     ELSE Goto("main", "run", "stop") /\ stop' = TRUE
  /\ UNCHANGED <<decode, handoff, screen>>

(* Mutant: the presenter is told to stop and not woken.                    *)
CleanupSignal_Lost ==
  /\ Goto("main", "stop", "join")
  /\ UNCHANGED <<stop, decode, handoff, screen>>

CleanupSignal ==
  /\ Goto("main", "stop", "join")
  /\ jobReady' = TRUE
  /\ UNCHANGED <<stop, decode, idle, job, queued, screen>>

(* Mutant: the destructor does not join the presenter.                     *)
(* The loop around threadJoin and threadFree.                              *)
CleanupJoin ==
  /\ pc["presenter"] = "exited"
  /\ pc["main"] = "join"
  /\ pc' = [pc EXCEPT !["main"] = "destroy", !["presenter"] = "none"]
  /\ UNCHANGED <<stop, decode, handoff, screen>>

(* ffmpeg_destroy frees the frame.                                         *)
CleanupDestroy ==
  /\ Goto("main", "destroy", "done")
  /\ live' = 0
  /\ UNCHANGED <<stop, async, checked, frame, want, handoff, screen>>

-----------------------------------------------------------------------------
DecoderStep ==
  \/ Decode \/ WaitPresenterIdle \/ GetFrame \/ QueuePresent \/ ClearIdle \/ SignalJob
  \/ Present("decoder")
PresenterStep ==
  \/ PresenterWake \/ PresenterCheckStop \/ Present("presenter") \/ PresenterSignalIdle
DispatcherStep == SwapRenderer \/ SwapUnlock
CleanupStep == CleanupSignal \/ CleanupJoin \/ CleanupDestroy

Next ==
  \/ Setup \/ Submit \/ SwapLock \/ Cleanup
  \/ DecoderStep \/ PresenterStep \/ DispatcherStep \/ CleanupStep

(* Threads keep running between their blocking calls.  The host need not   *)
(* send frames, the user need not change the touch mode or end the stream. *)
Spec ==
  /\ Init /\ [][Next]_vars
  /\ WF_vars(DecoderStep) /\ WF_vars(PresenterStep)
  /\ WF_vars(DispatcherStep) /\ WF_vars(CleanupStep)

-----------------------------------------------------------------------------
(* Types; each thread is where its own code is.                            *)
TypeOK ==
  /\ pc \in [Threads -> DecoderPC \cup PresenterPC \cup MainPC \cup {"swap", "unlock"}]
  /\ pc["decoder"] \in DecoderPC /\ pc["presenter"] \in PresenterPC
  /\ pc["dispatcher"] \in {"idle", "swap", "unlock"} /\ pc["main"] \in MainPC
  /\ async \in BOOLEAN /\ checked \in BOOLEAN /\ stop \in BOOLEAN
  /\ jobReady \in BOOLEAN /\ idle \in BOOLEAN /\ want \in BOOLEAN
  /\ frame \in 0 .. MaxFrames
  /\ job \in 0 .. MaxFrames /\ live \in 0 .. MaxFrames
  /\ queued \in 0 .. MaxFrames /\ finished \in 0 .. MaxFrames
  /\ lock \in {"none", "decoder", "presenter", "dispatcher"}
  /\ accepts \in BOOLEAN /\ tiled \in BOOLEAN /\ swaps \in 0 .. MaxSwaps

(* The planes read by the converter belong to a frame FFmpeg still keeps:  *)
(* neither the next ffmpeg_get_frame nor ffmpeg_destroy has released them. *)
PlanesAlive ==
  /\ pc["presenter"] \in {"lock", "convert"} => job = live
  /\ pc["decoder"] \in {"lock", "convert"} => frame = live

(* The renderer that receives the image is the one whose layout the        *)
(* conversion was made for, whatever the user does to the touch mode.      *)
RendererStable ==
  \A t \in {"decoder", "presenter"} :
    pc[t] \in {"convert", "write"} => tiled = (CanTile /\ accepts)

(* The decoder and the presenter never present at the same time, not even  *)
(* one waiting for the other: they share rgb_img_buffer, the Y2R unit and  *)
(* the framebuffers, and a frame that had to wait would be out of order.   *)
OneDrawer ==
  ~(/\ pc["decoder"] \in {"lock", "convert", "write"}
    /\ pc["presenter"] \in {"lock", "convert", "write"})

(* Once the destructor is past the join nobody can touch the frame.        *)
QuietAfterJoin ==
  pc["main"] \in {"destroy", "done"} => pc["presenter"] = "none" /\ pc["decoder"] = "idle"

(* A frame passed to _queue_present reaches the presenter's end, unless    *)
(* the stream is ended first.                                              *)
QueuedIsShown == (queued > finished) ~> (queued = finished \/ stop)

(* The decoder's wait for the presenter ends, and so does the destructor.  *)
EveryWaitEnds ==
  /\ (pc["decoder"] # "idle") ~> (pc["decoder"] = "idle")
  /\ (pc["main"] = "stop") ~> (pc["main"] = "done")

(***************************************************************************)
(* The abstract handover: queued and finished under the names of           *)
(* FrameHandoff, closed by the first store of the destructor.              *)
(***************************************************************************)
FH == INSTANCE FrameHandoff
        WITH handed <- queued, open <- pc["main"] \in {"setup", "run"}

(* Frames are shown one at a time and in order; none is overwritten.       *)
ImplementsFrameHandoff == FH!HSpec

(***************************************************************************)
(* The inductive invariant.                                                *)
(***************************************************************************)
Drawing == {"convert", "write"}

(* renderer_lock is held exactly in the critical sections.                 *)
LockInv ==
  /\ lock = "decoder" <=> pc["decoder"] \in Drawing
  /\ lock = "presenter" <=> pc["presenter"] \in Drawing
  /\ lock = "dispatcher" <=> pc["dispatcher"] \in {"swap", "unlock"}
  /\ pc["dispatcher"] = "swap" => swaps < MaxSwaps

(* The life of the decoder object.                                         *)
LifeInv ==
  /\ pc["main"] = "setup" => ~async /\ pc["presenter"] = "none"
  /\ pc["main"] \in {"setup", "stop", "join", "destroy", "done"} => pc["decoder"] = "idle"
  /\ pc["main"] \in {"setup", "destroy", "done"} => pc["presenter"] = "none"
  /\ pc["main"] \in {"stop", "join"} => stop
  /\ stop => pc["main"] \notin {"setup", "run"}
  /\ pc["main"] = "run" /\ async => pc["presenter"] # "none"
  /\ pc["presenter"] = "exited" => stop

(* What each position of the decoder knows about the frame it carries.     *)
CarryInv ==
  /\ finished <= queued /\ queued <= frame
  /\ pc["decoder"] \in {"decode", "wait", "get", "queue"} => queued < frame
  /\ pc["decoder"] \in {"queue", "clear", "signal", "lock", "convert", "write"} => live = frame
  /\ pc["decoder"] \in {"clear", "signal"} => async /\ job = frame
  /\ pc["decoder"] \in {"clear", "signal", "lock", "convert", "write"} =>
       queued = frame /\ finished < queued
  /\ pc["decoder"] \in {"lock", "convert", "write"} => ~async

(* A frame is on its way: the planes in job are the ones FFmpeg keeps.     *)
OnItsWay == job = live /\ job = queued /\ finished < queued

(* The handover: presenter_idle is down from ClearIdle to                  *)
(* PresenterSignalIdle, and job_ready up only inside that interval.        *)
EventInv ==
  /\ ~async => idle
  /\ async /\ ~checked => idle /\ pc["decoder"] = "idle"
  /\ ~idle => pc["decoder"] \in {"idle", "decode", "wait", "signal"}
  /\ pc["decoder"] = "signal" => ~idle /\ ~jobReady /\ pc["presenter"] = "wait"
  /\ idle => queued = finished \/ pc["decoder"] \in {"clear", "lock", "convert", "write"}
  /\ pc["presenter"] \in {"lock", "convert", "write"} => ~idle /\ OnItsWay
  /\ pc["presenter"] = "signal" => ~idle /\ queued = finished
  /\ pc["presenter"] = "woken" => stop \/ (~idle /\ OnItsWay)
  /\ pc["presenter"] = "wait" /\ ~idle =>
       OnItsWay /\ (pc["decoder"] = "signal" \/ jobReady)
  /\ jobReady => stop \/ (pc["presenter"] = "wait" /\ ~idle)

(* What every step of the threads needs and preserves.                     *)
IInv == TypeOK /\ LockInv /\ LifeInv /\ CarryInv /\ EventInv /\ RendererStable

=============================================================================
