------------------------------ MODULE SlicePool ------------------------------
(***************************************************************************)
(* The second decoding core of an Old 3DS (src/video/ffmpeg.c).  FFmpeg    *)
(* hands the slices of a frame to avctx->execute; core1_execute publishes  *)
(* them in the static record core1, wakes a helper thread pinned to core 1 *)
(* and both threads draw slice numbers from core1.next with an atomic      *)
(* fetch-and-add until none is left.  The semaphore start carries the      *)
(* wake-up, the semaphore done tells the caller that the helper has left   *)
(* the record alone again.  core1_stop reuses start to end the helper.     *)
(*                                                                         *)
(* Two threads act: the caller (the decoding thread, and after the last    *)
(* frame the thread that runs ffmpeg_destroy) and the helper.  The fields  *)
(* ctx, func, arg, ret and size of core1 are represented by batch, the     *)
(* number of the execute call they belong to.                              *)
(***************************************************************************)
EXTENDS Naturals

CONSTANTS
  MaxSlices,  (* the largest number of slices of one execute call          *)
  MaxBatches  (* the number of execute calls explored (bounds the model)   *)

ASSUME SlicesAssumption == MaxSlices \in Nat
ASSUME BatchesAssumption == MaxBatches \in Nat

Slices == 0 .. (MaxSlices - 1)

VARIABLES
  cpc,    (* where the caller is                                           *)
  hpc,    (* where the helper is                                           *)
  cjob,   (* the slice the caller drew last                                *)
  hjob,   (* the slice the helper drew last                                *)
  batch,  (* core1.ctx/func/arg/ret/size: the execute call being served    *)
  count,  (* core1.count                                                   *)
  next,   (* core1.next                                                    *)
  start,  (* LightSemaphore core1.start, at most 1                         *)
  done,   (* LightSemaphore core1.done, at most 1                          *)
  quit,   (* core1.quit                                                    *)
  context,(* is decoder_ctx still allocated                                *)
  ran     (* ran[i]: how often slice i of this batch has been decoded      *)

vars == <<cpc, hpc, cjob, hjob, batch, count, next, start, done, quit, context, ran>>

CallerPC == {"off", "idle", "publish", "signal", "draw", "job", "await",
             "destroy", "stop", "join"}
HelperPC == {"none", "acquire", "woken", "draw", "job", "release", "exited"}

Init ==
  /\ cpc = "off" /\ hpc = "none"
  /\ cjob = 0 /\ hjob = 0
  /\ batch = 0 /\ count = 0 /\ next = 0
  /\ start = 0 /\ done = 0
  /\ quit = FALSE /\ context = FALSE
  /\ ran = [i \in Slices |-> 0]

(***************************************************************************)
(* The caller.                                                             *)
(***************************************************************************)

(* core1_start: fresh semaphores, then the thread.  When threadCreate      *)
(* fails nothing is installed and FFmpeg keeps its own execute.            *)
Core1Start ==
  /\ cpc = "off" /\ batch < MaxBatches
  /\ start' = 0 /\ done' = 0 /\ quit' = FALSE /\ context' = TRUE
  /\ cpc' = "idle" /\ hpc' = "acquire"
  /\ UNCHANGED <<cjob, hjob, batch, count, next, ran>>

(* core1_execute, first part: the plain stores.  next still has the value  *)
(* the previous call left.                                                 *)
ExecuteStore(n) ==
  /\ cpc = "idle" /\ batch < MaxBatches
  /\ batch' = batch + 1 /\ count' = n
  /\ ran' = [i \in Slices |-> 0]
  /\ cpc' = "publish"
  /\ UNCHANGED <<hpc, cjob, hjob, next, start, done, quit, context>>

(* Mutant: the store  of next is forgotten.                                *)
(* __atomic_store_n(&core1.next, 0).                                       *)
ExecutePublish ==
  /\ cpc = "publish"
  /\ next' = 0 /\ cpc' = "signal"
  /\ UNCHANGED <<hpc, cjob, hjob, batch, count, start, done, quit, context, ran>>

(* LightSemaphore_Release saturates at the maximum given to _Init.         *)
Release(sem) == sem' = 1

ExecuteSignal ==
  /\ cpc = "signal"
  /\ Release(start) /\ cpc' = "draw"
  /\ UNCHANGED <<hpc, cjob, hjob, batch, count, next, done, quit, context, ran>>

(* Mutant: the counter is read and not advanced, as without fetch-and-add. *)
CallerDraw_NoAdd ==
  /\ cpc = "draw"
  /\ \/ /\ next < count /\ cjob' = next /\ cpc' = "job"
     \/ /\ next >= count /\ cpc' = "await" /\ UNCHANGED cjob
  /\ UNCHANGED <<hpc, hjob, batch, count, next, start, done, quit, context, ran>>

(* core1_run_jobs in the caller: fetch-and-add, then the loop condition.   *)
CallerDraw ==
  /\ cpc = "draw"
  /\ next' = next + 1
  /\ \/ /\ next < count /\ cjob' = next /\ cpc' = "job"
     \/ /\ next >= count /\ cpc' = "await" /\ UNCHANGED cjob
  /\ UNCHANGED <<hpc, hjob, batch, count, start, done, quit, context, ran>>

CallerJob ==
  /\ cpc = "job"
  /\ ran' = [ran EXCEPT ![cjob] = @ + 1]
  /\ cpc' = "draw"
  /\ UNCHANGED <<hpc, cjob, hjob, batch, count, next, start, done, quit, context>>

(* Mutant: core1_execute returns without waiting for the helper.           *)
CallerAwait_NoWait ==
  /\ cpc = "await"
  /\ done' = 0 /\ cpc' = "idle"
  /\ UNCHANGED <<hpc, cjob, hjob, batch, count, next, start, quit, context, ran>>

(* LightSemaphore_Acquire(&core1.done) and the return to FFmpeg.           *)
CallerAwait ==
  /\ cpc = "await" /\ done = 1
  /\ done' = 0 /\ cpc' = "idle"
  /\ UNCHANGED <<hpc, cjob, hjob, batch, count, next, start, quit, context, ran>>

(* ffmpeg_destroy frees the codec context first, then calls core1_stop.    *)
DestroyContext ==
  /\ cpc = "idle"
  /\ context' = FALSE /\ cpc' = "destroy"
  /\ UNCHANGED <<hpc, cjob, hjob, batch, count, next, start, done, quit, ran>>

StopSetQuit ==
  /\ cpc = "destroy"
  /\ quit' = TRUE /\ cpc' = "stop"
  /\ UNCHANGED <<hpc, cjob, hjob, batch, count, next, start, done, context, ran>>

(* Mutant: core1_stop sets quit and joins without waking the helper.       *)
StopSignal_NoRelease ==
  /\ cpc = "stop" /\ cpc' = "join"
  /\ UNCHANGED <<hpc, cjob, hjob, batch, count, next, start, done, quit, context, ran>>

StopSignal ==
  /\ cpc = "stop"
  /\ Release(start) /\ cpc' = "join"
  /\ UNCHANGED <<hpc, cjob, hjob, batch, count, next, done, quit, context, ran>>

(* threadJoin, threadFree and core1.thread = NULL.                         *)
StopJoin ==
  /\ cpc = "join" /\ hpc = "exited"
  /\ cpc' = "off" /\ hpc' = "none"
  /\ UNCHANGED <<cjob, hjob, batch, count, next, start, done, quit, context, ran>>

(***************************************************************************)
(* The helper, core1_entry.                                                *)
(***************************************************************************)

HelperAcquire ==
  /\ hpc = "acquire" /\ start = 1
  /\ start' = 0 /\ hpc' = "woken"
  /\ UNCHANGED <<cpc, cjob, hjob, batch, count, next, done, quit, context, ran>>

HelperCheckQuit ==
  /\ hpc = "woken"
  /\ hpc' = IF quit THEN "exited" ELSE "draw"
  /\ UNCHANGED <<cpc, cjob, hjob, batch, count, next, start, done, quit, context, ran>>

HelperDraw ==
  /\ hpc = "draw"
  /\ next' = next + 1
  /\ \/ /\ next < count /\ hjob' = next /\ hpc' = "job"
     \/ /\ next >= count /\ hpc' = "release" /\ UNCHANGED hjob
  /\ UNCHANGED <<cpc, cjob, batch, count, start, done, quit, context, ran>>

HelperJob ==
  /\ hpc = "job"
  /\ ran' = [ran EXCEPT ![hjob] = @ + 1]
  /\ hpc' = "draw"
  /\ UNCHANGED <<cpc, cjob, hjob, batch, count, next, start, done, quit, context>>

(* Mutant: the helper goes back to sleep without releasing done.           *)
HelperRelease ==
  /\ hpc = "release"
  /\ Release(done) /\ hpc' = "acquire"
  /\ UNCHANGED <<cpc, cjob, hjob, batch, count, next, start, quit, context, ran>>

-----------------------------------------------------------------------------
Execute == \E n \in 0 .. MaxSlices : ExecuteStore(n)

Caller ==
  \/ ExecutePublish \/ ExecuteSignal \/ CallerDraw \/ CallerJob \/ CallerAwait
  \/ StopSetQuit \/ StopSignal \/ StopJoin

Helper ==
  \/ HelperAcquire \/ HelperCheckQuit \/ HelperDraw \/ HelperJob \/ HelperRelease

Next == Core1Start \/ Execute \/ DestroyContext \/ Caller \/ Helper

(* The threads run on two cores and block only on the semaphores and the   *)
(* join, so each is weakly fair once it is inside a call.  Nothing forces  *)
(* FFmpeg to decode another frame or the stream to end.                    *)
Spec == Init /\ [][Next]_vars /\ WF_vars(Caller) /\ WF_vars(Helper)

-----------------------------------------------------------------------------
(* Types; the counts stay within the frame, the semaphores within 1.       *)
TypeOK ==
  /\ cpc \in CallerPC /\ hpc \in HelperPC
  /\ cjob \in Nat /\ hjob \in Nat
  /\ batch \in 0 .. MaxBatches /\ count \in 0 .. MaxSlices /\ next \in Nat
  /\ start \in {0, 1} /\ done \in {0, 1}
  /\ quit \in BOOLEAN /\ context \in BOOLEAN
  /\ ran \in [Slices -> Nat]

(* No slice is decoded twice, whichever thread draws it.                   *)
SliceDecodedOnce == \A i \in Slices : ran[i] <= 1

(* When core1_execute has returned, every slice of the frame is decoded    *)
(* and the helper is back at its semaphore: FFmpeg may reuse the buffers   *)
(* that arg and ret point to.                                              *)
ReturnsWhenDecoded ==
  cpc = "idle" =>
    /\ \A i \in Slices : i < count => ran[i] = 1
    /\ hpc = "acquire"

(* The helper reads ctx, func, arg, count and next only while the caller   *)
(* is inside core1_run_jobs or waiting on done: never while a new batch is *)
(* being stored, and never after ffmpeg_destroy has freed the context.     *)
HelperOnLiveBatch ==
  hpc \in {"draw", "job"} => cpc \in {"draw", "job", "await"} /\ context

(* Every execute call returns, and core1_stop ends: neither thread is left *)
(* asleep on its semaphore.                                                *)
CallerReturns ==
  /\ (cpc = "publish") ~> (cpc = "idle")
  /\ (cpc = "destroy") ~> (cpc = "off")

(***************************************************************************)
(* core1_execute implements what FFmpeg expects of avctx->execute: the     *)
(* jobs of a call are the slices no thread has decoded yet, and a call     *)
(* lasts from the first store to the return.                               *)
(***************************************************************************)
Undecoded == {i \in Slices : i < count /\ ran[i] = 0}
InExecute == cpc \in {"publish", "signal", "draw", "job", "await"}

PF == INSTANCE ParallelFor WITH todo <- Undecoded, running <- InExecute

(* Every slice of a call is decoded once, and only then the call returns.  *)
ImplementsParallelFor == PF!PSpec

(***************************************************************************)
(* The inductive invariant: where the single token of start and done is,   *)
(* and who holds which slice.                                              *)
(***************************************************************************)
CallerHolds(i) == cpc = "job" /\ cjob = i
HelperHolds(i) == hpc = "job" /\ hjob = i
Drawing == cpc \in {"draw", "job", "await"}
Resting == cpc \in {"off", "idle", "destroy", "stop", "join"}

(* One wake-up is answered by one done, and the helper runs in between.    *)
Handshake ==
  /\ cpc = "off" => hpc = "none"
  /\ cpc \in {"idle", "publish", "signal", "destroy", "stop"} =>
       hpc = "acquire" /\ start = 0 /\ done = 0
  /\ Drawing =>
       \/ hpc = "acquire" /\ start = 1 /\ done = 0
       \/ hpc \in {"woken", "draw", "job", "release"} /\ start = 0 /\ done = 0
       \/ hpc = "acquire" /\ start = 0 /\ done = 1
  /\ cpc = "join" =>
       \/ hpc = "acquire" /\ start = 1
       \/ hpc \in {"woken", "exited"} /\ start = 0
  /\ cpc \in {"idle", "publish", "signal", "draw", "job", "await"} => context /\ ~quit
  /\ cpc \in {"stop", "join"} => quit

(* A drawn slice is decoded or in the hands of exactly one thread.         *)
Shares ==
  /\ Drawing => \A i \in Slices :
       IF i < next /\ i < count
       THEN \/ ran[i] = 1 /\ ~CallerHolds(i) /\ ~HelperHolds(i)
            \/ ran[i] = 0 /\ CallerHolds(i) /\ ~HelperHolds(i)
            \/ ran[i] = 0 /\ ~CallerHolds(i) /\ HelperHolds(i)
       ELSE ran[i] = 0
  /\ cpc = "job" => cjob < next /\ cjob < count
  /\ hpc = "job" => hjob < next /\ hjob < count
  /\ cpc = "await" => next >= count
  /\ Drawing /\ (hpc = "release" \/ done = 1) => next >= count
  /\ cpc = "signal" => next = 0
  /\ cpc \in {"publish", "signal"} => \A i \in Slices : ran[i] = 0
  /\ Resting => \A i \in Slices : i < count => ran[i] = 1
  /\ Resting => \A i \in Slices : ran[i] <= 1

(* Types, tokens and shares together: what every step needs and preserves, *)
(* and what the properties above follow from.                              *)
IInv == TypeOK /\ Handshake /\ Shares

=============================================================================
