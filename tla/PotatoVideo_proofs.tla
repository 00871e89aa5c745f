-------------------------- MODULE PotatoVideo_proofs ---------------------------
(* Proofs about what an Old 3DS does to keep up with the stream: SlicePool *)
(* for any number of slices, and FrameSkip for any costs and clock.        *)
EXTENDS SlicePool, FrameSkip, TLAPS

-----------------------------------------------------------------------------
(* The batches of slices.                                                  *)

USE DEF Slices

(* Before the first core1_start nothing is shared.                         *)
LEMMA InitIInv == Init => IInv
<1> SUFFICES ASSUME Init PROVE IInv
  OBVIOUS
<1> USE SlicesAssumption, BatchesAssumption DEF Init
<1>1. TypeOK
  <2>1. batch \in 0 .. MaxBatches /\ count \in 0 .. MaxSlices
    OBVIOUS
  <2>2. ran \in [Slices -> Nat]
    OBVIOUS
  <2>3. QED
    BY <2>1, <2>2 DEF TypeOK, CallerPC, HelperPC
<1>2. Handshake
  BY DEF Handshake, Drawing
<1>3. Shares
  BY DEF Shares, Drawing, Resting
<1>4. QED
  BY <1>1, <1>2, <1>3 DEF IInv

(* Every step keeps the types.                                             *)
LEMMA StepTypeOK == TypeOK /\ [Next]_vars => TypeOK'
<1> SUFFICES ASSUME TypeOK, [Next]_vars PROVE TypeOK'
  OBVIOUS
<1> USE SlicesAssumption, BatchesAssumption DEF TypeOK, CallerPC, HelperPC
<1>1. CASE Core1Start
  BY <1>1 DEF Core1Start
<1>2. ASSUME NEW n \in 0 .. MaxSlices, ExecuteStore(n) PROVE TypeOK'
  BY <1>2 DEF ExecuteStore
<1>3. CASE DestroyContext
  BY <1>3 DEF DestroyContext
<1>4. CASE Caller
  <2>1. CASE ExecutePublish \/ ExecuteSignal \/ CallerDraw
    BY <2>1 DEF ExecutePublish, ExecuteSignal, CallerDraw, Release
  <2>2. CASE CallerJob
    <3>1. ran' \in [Slices -> Nat]
      <4>1. CASE cjob \in Slices
        BY <2>2, <4>1 DEF CallerJob
      <4>2. CASE cjob \notin Slices
        BY <2>2, <4>2 DEF CallerJob
      <4>3. QED
        BY <4>1, <4>2
    <3>2. QED
      BY <2>2, <3>1 DEF CallerJob
  <2>3. CASE CallerAwait \/ StopSetQuit \/ StopSignal \/ StopJoin
    BY <2>3 DEF CallerAwait, StopSetQuit, StopSignal, StopJoin, Release
  <2>4. QED
    BY <1>4, <2>1, <2>2, <2>3 DEF Caller
<1>5. CASE Helper
  <2>1. CASE HelperAcquire \/ HelperCheckQuit \/ HelperDraw \/ HelperRelease
    BY <2>1 DEF HelperAcquire, HelperCheckQuit, HelperDraw, HelperRelease, Release
  <2>2. CASE HelperJob
    <3>1. ran' \in [Slices -> Nat]
      <4>1. CASE hjob \in Slices
        BY <2>2, <4>1 DEF HelperJob
      <4>2. CASE hjob \notin Slices
        BY <2>2, <4>2 DEF HelperJob
      <4>3. QED
        BY <4>1, <4>2
    <3>2. QED
      BY <2>2, <3>1 DEF HelperJob
  <2>3. QED
    BY <1>5, <2>1, <2>2 DEF Helper
<1>6. CASE UNCHANGED vars
  BY <1>6 DEF vars
<1>7. QED
  BY <1>1, <1>2, <1>3, <1>4, <1>5, <1>6 DEF Next, Execute

(* The tokens: each action moves at most one of them.                      *)
LEMMA StepHandshake == TypeOK /\ Handshake /\ [Next]_vars => Handshake'
<1> SUFFICES ASSUME TypeOK, Handshake, [Next]_vars PROVE Handshake'
  OBVIOUS
<1> USE DEF TypeOK, CallerPC, HelperPC, Handshake, Drawing, Release
<1>1. CASE Core1Start
  BY <1>1 DEF Core1Start
<1>2. CASE Execute
  BY <1>2 DEF Execute, ExecuteStore
<1>3. CASE DestroyContext
  BY <1>3 DEF DestroyContext
<1>4. CASE Caller
  <2>1. CASE ExecutePublish  BY <2>1 DEF ExecutePublish
  <2>2. CASE ExecuteSignal   BY <2>2 DEF ExecuteSignal
  <2>3. CASE CallerDraw      BY <2>3 DEF CallerDraw
  <2>4. CASE CallerJob       BY <2>4 DEF CallerJob
  <2>5. CASE CallerAwait     BY <2>5 DEF CallerAwait
  <2>6. CASE StopSetQuit     BY <2>6 DEF StopSetQuit
  <2>7. CASE StopSignal      BY <2>7 DEF StopSignal
  <2>8. CASE StopJoin        BY <2>8 DEF StopJoin
  <2>9. QED
    BY <1>4, <2>1, <2>2, <2>3, <2>4, <2>5, <2>6, <2>7, <2>8 DEF Caller
<1>5. CASE Helper
  <2>1. CASE HelperAcquire   BY <2>1 DEF HelperAcquire
  <2>2. CASE HelperCheckQuit BY <2>2 DEF HelperCheckQuit
  <2>3. CASE HelperDraw      BY <2>3 DEF HelperDraw
  <2>4. CASE HelperJob       BY <2>4 DEF HelperJob
  <2>5. CASE HelperRelease   BY <2>5 DEF HelperRelease
  <2>6. QED
    BY <1>5, <2>1, <2>2, <2>3, <2>4, <2>5 DEF Helper
<1>6. CASE UNCHANGED vars
  BY <1>6 DEF vars
<1>7. QED
  BY <1>1, <1>2, <1>3, <1>4, <1>5, <1>6 DEF Next

(* The slices: fetch-and-add gives a number to one thread only, and the    *)
(* call is over once both threads have drawn a number beyond the last.     *)
LEMMA StepShares == IInv /\ [Next]_vars => Shares'
<1> SUFFICES ASSUME IInv, [Next]_vars PROVE Shares'
  OBVIOUS
<1> USE SlicesAssumption, BatchesAssumption
    DEF IInv, TypeOK, CallerPC, HelperPC, Handshake, Shares, Drawing, Resting,
        CallerHolds, HelperHolds, Release
<1>1. CASE Core1Start
  BY <1>1 DEF Core1Start
<1>2. CASE Execute
  BY <1>2 DEF Execute, ExecuteStore
<1>3. CASE DestroyContext
  BY <1>3 DEF DestroyContext
<1>4. CASE Caller
  <2>1. CASE ExecutePublish  BY <2>1 DEF ExecutePublish
  <2>2. CASE ExecuteSignal   BY <2>2 DEF ExecuteSignal
  <2>3. CASE CallerDraw      BY <2>3 DEF CallerDraw
  <2>4. CASE CallerJob       BY <2>4 DEF CallerJob
  <2>5. CASE CallerAwait     BY <2>5 DEF CallerAwait
  <2>6. CASE StopSetQuit     BY <2>6 DEF StopSetQuit
  <2>7. CASE StopSignal      BY <2>7 DEF StopSignal
  <2>8. CASE StopJoin        BY <2>8 DEF StopJoin
  <2>9. QED
    BY <1>4, <2>1, <2>2, <2>3, <2>4, <2>5, <2>6, <2>7, <2>8 DEF Caller
<1>5. CASE Helper
  <2>1. CASE HelperAcquire   BY <2>1 DEF HelperAcquire
  <2>2. CASE HelperCheckQuit BY <2>2 DEF HelperCheckQuit
  <2>3. CASE HelperDraw      BY <2>3 DEF HelperDraw
  <2>4. CASE HelperJob       BY <2>4 DEF HelperJob
  <2>5. CASE HelperRelease   BY <2>5 DEF HelperRelease
  <2>6. QED
    BY <1>5, <2>1, <2>2, <2>3, <2>4, <2>5 DEF Helper
<1>6. CASE UNCHANGED vars
  BY <1>6 DEF vars
<1>7. QED
  BY <1>1, <1>2, <1>3, <1>4, <1>5, <1>6 DEF Next

(* The inductive invariant holds in every state.                           *)
THEOREM Inductive == Spec => []IInv
<1>1. Init => IInv
  BY InitIInv
<1>2. IInv /\ [Next]_vars => IInv'
  BY StepTypeOK, StepHandshake, StepShares DEF IInv
<1>3. QED
  BY <1>1, <1>2, PTL DEF Spec

(* Types, for every number of slices.                                      *)
THEOREM TypeCorrect == Spec => []TypeOK
<1>1. IInv => TypeOK
  BY DEF IInv
<1>2. QED
  BY <1>1, Inductive, PTL

(* No slice of a frame is decoded by both cores.                           *)
THEOREM DecodedOnce == Spec => []SliceDecodedOnce
<1>1. IInv => SliceDecodedOnce
  <2> SUFFICES ASSUME IInv, NEW i \in Slices PROVE ran[i] <= 1
    BY DEF SliceDecodedOnce
  <2>1. CASE Drawing
    BY <2>1 DEF IInv, Shares, TypeOK
  <2>2. CASE ~Drawing
    BY <2>2 DEF IInv, Shares, TypeOK, CallerPC, Drawing, Resting
  <2>3. QED
    BY <2>1, <2>2
<1>2. QED
  BY <1>1, Inductive, PTL

(* core1_execute returns only once every slice is decoded and the helper   *)
(* sleeps.                                                                 *)
THEOREM ReturnComplete == Spec => []ReturnsWhenDecoded
<1>1. IInv => ReturnsWhenDecoded
  BY DEF IInv, Shares, Handshake, Resting, ReturnsWhenDecoded
<1>2. QED
  BY <1>1, Inductive, PTL

(* The helper never works on a batch being replaced or a freed context.    *)
THEOREM LiveBatch == Spec => []HelperOnLiveBatch
<1>1. IInv => HelperOnLiveBatch
  BY DEF IInv, TypeOK, CallerPC, HelperPC, Handshake, Drawing, HelperOnLiveBatch
<1>2. QED
  BY <1>1, Inductive, PTL

(* Every behaviour of the two threads is one of ParallelFor.               *)
THEOREM Refinement == Spec => ImplementsParallelFor
<1>1. Init => PF!PInit
  BY SlicesAssumption DEF Init, PF!PInit, Undecoded, InExecute
<1>2. IInv /\ [Next]_vars => [PF!PNext]_PF!pvars
  <2> SUFFICES ASSUME IInv, [Next]_vars PROVE [PF!PNext]_PF!pvars
    OBVIOUS
  <2> USE SlicesAssumption, BatchesAssumption DEF IInv, TypeOK, CallerPC, HelperPC,
          Undecoded, InExecute, PF!pvars
  <2>1. ASSUME NEW n \in 0 .. MaxSlices, ExecuteStore(n) PROVE PF!Call(n)
    BY <2>1 DEF ExecuteStore, PF!Call
  <2>2. CASE CallerJob
    <3>1. PF!Run(cjob)
      BY <2>2 DEF CallerJob, PF!Run, Shares, Drawing, CallerHolds, HelperHolds
    <3>2. QED
      BY <3>1 DEF PF!PNext, PF!Run
  <2>3. CASE HelperJob
    <3>1. PF!Run(hjob)
      BY <2>3 DEF HelperJob, PF!Run, Shares, Handshake, Drawing, CallerHolds, HelperHolds
    <3>2. QED
      BY <3>1 DEF PF!PNext, PF!Run
  <2>4. CASE CallerAwait
    BY <2>4 DEF CallerAwait, PF!PNext, PF!Return, Shares, Handshake, Drawing,
       CallerHolds, HelperHolds
  <2>5. CASE Core1Start \/ DestroyContext
    BY <2>5 DEF Core1Start, DestroyContext
  <2>6. CASE Caller /\ ~CallerJob /\ ~CallerAwait
    BY <2>6 DEF Caller, ExecutePublish, ExecuteSignal, CallerDraw, StopSetQuit,
       StopSignal, StopJoin
  <2>7. CASE Helper /\ ~HelperJob
    BY <2>7 DEF Helper, HelperAcquire, HelperCheckQuit, HelperDraw, HelperRelease
  <2>8. CASE UNCHANGED vars
    BY <2>8 DEF vars
  <2>9. QED
    BY <2>1, <2>2, <2>3, <2>4, <2>5, <2>6, <2>7, <2>8 DEF Next, Execute, PF!PNext
<1>3. QED
  BY <1>1, <1>2, Inductive, PTL DEF Spec, ImplementsParallelFor, PF!PSpec

-----------------------------------------------------------------------------
(* Frames that are skipped, and the fallback.                              *)

(* A frame that is held is one of those that were skipped.                 *)
HeldInv == held <= skips /\ held <= PresentSkipCap

(* While the fallback is off, the pressure is below where it is turned on, *)
(* and every two of it were built up by a frame that strained the decoder. *)
PressureInv == ~fallback => pressure <= 7 /\ pressure <= 2 * strained + 2

SkipIInv == SkipTypeOK /\ HeldInv /\ PressureInv

LEMMA SkipBounds == MaxElapsed \in Nat /\ MaxCount \in Nat /\ MaxCount > 3
BY BoundsAssumption

LEMMA InitSkip == SkipInit => SkipIInv
<1> USE SkipBounds DEF SkipInit
<1>1. SkipInit => SkipTypeOK
  <2>1. /\ 0 \in 0 .. MaxCount /\ 0 \in 0 .. MaxElapsed /\ 0 \in 0 .. 31
        /\ 0 \in Nat
    OBVIOUS
  <2>2. QED
    BY <2>1, Zenon DEF SkipTypeOK
<1>2. SkipInit => HeldInv /\ PressureInv
  BY DEF HeldInv, PressureInv, PresentSkipCap
<1>3. QED
  BY <1>1, <1>2 DEF SkipIInv

(* What the caps allow.                                                    *)
LEMMA SkipCapIsTwo == SkipCap <= PresentSkipCap
<1>1. MaxConsecutiveSkips(profile) \in {2, 6, 10}
  BY DEF MaxConsecutiveSkips
<1>2. QED
  BY <1>1 DEF SkipCap, Capped, PresentSkipCap

LEMMA CappedIsBounded ==
  ASSUME NEW n \in Nat, NEW max \in Nat
  PROVE  Capped(n, max) \in 0 .. max /\ Capped(n, max) <= n
BY DEF Capped

(* The costs of decoding that are remembered are numbers.                  *)
LEMMA AverageIsNat ==
  ASSUME SkipTypeOK, NEW c \in Nat
  PROVE  Average(c) \in Nat
<1>1. avgCost \in Nat
  BY DEF SkipTypeOK
<1>2. (avgCost * 7 + c) \div 8 \in Nat
  BY <1>1
<1>3. QED
  BY <1>2 DEF Average

(* potato_record_decode_ticks keeps the pressure between its limits.       *)
LEMMA RecordKeeps ==
  ASSUME SkipIInv, NEW c \in Nat, RecordDecodeTicks(c)
  PROVE  /\ lastCost' \in Nat /\ avgCost' \in Nat
         /\ pressure' \in 0 .. 31 /\ fallback' \in BOOLEAN
         /\ strained' \in 0 .. MaxCount
         /\ PressureInv'
         /\ ~fallback /\ fallback' => strained' >= 3
<1> USE SkipBounds DEF SkipIInv, SkipTypeOK, PressureInv
<1>1. lastCost' \in Nat /\ avgCost' \in Nat
  BY AverageIsNat DEF RecordDecodeTicks
<1>2. CASE profile = "ultra"
  <2>1. /\ pressure' = PressureAfter(c)
        /\ fallback' \in BOOLEAN
        /\ fallback' <=> pressure' >= 8 \/ (fallback /\ pressure' > 2)
        /\ strained' = IF fallback /\ ~fallback' THEN 0
                       ELSE IF Strains(c) THEN Capped(strained + 1, MaxCount)
                       ELSE strained
    BY <1>2 DEF RecordDecodeTicks, FallbackAfter
  <2>2. CASE Strains(c)
    <3>1. pressure' = IF pressure < 30 THEN pressure + 2 ELSE pressure
      BY <2>1, <2>2 DEF PressureAfter
    <3>2. strained' = IF fallback /\ ~fallback' THEN 0
                      ELSE IF strained + 1 > MaxCount THEN MaxCount ELSE strained + 1
      BY <2>1, <2>2 DEF Capped
    <3>3. pressure' \in 0 .. 31 /\ fallback' \in BOOLEAN
          /\ strained' \in 0 .. MaxCount
      BY <2>1, <3>1, <3>2
    <3>4. CASE fallback /\ ~fallback'
      <4>1. pressure' <= 2 /\ strained' = 0
        BY <2>1, <3>2, <3>3, <3>4
      <4>2. QED
        BY <1>1, <3>3, <3>4, <4>1
    <3>5. CASE ~fallback
      <4>1. pressure' = pressure + 2 /\ (fallback' <=> pressure' >= 8)
        BY <2>1, <3>1, <3>5
      <4>2. strained' = IF strained + 1 > MaxCount THEN MaxCount ELSE strained + 1
        BY <3>2, <3>5
      <4>3. QED
        BY <1>1, <3>3, <3>5, <4>1, <4>2
    <3>6. QED
      BY <1>1, <3>3, <3>4, <3>5
  <2>3. CASE ~Strains(c)
    <3>1. pressure' = IF pressure > 0 THEN pressure - 1 ELSE 0
      BY <2>1, <2>3 DEF PressureAfter
    <3>2. strained' = IF fallback /\ ~fallback' THEN 0 ELSE strained
      BY <2>1, <2>3
    <3>3. QED
      BY <1>1, <2>1, <3>1, <3>2
  <2>4. QED
    BY <2>2, <2>3
<1>3. CASE profile # "ultra"
  BY <1>1, <1>3 DEF RecordDecodeTicks
<1>4. QED
  BY <1>2, <1>3

LEMMA SkippedKeeps ==
  ASSUME SkipIInv, NEW s \in Nat, NEW c \in Nat, Skipped(s, c)
  PROVE  /\ skips' \in 0 .. MaxCount /\ elapsed' \in 0 .. MaxElapsed
         /\ skips' >= skips /\ (skips < MaxCount => skips' = skips + 1)
         /\ UNCHANGED <<everShown, easy, profile>>
<1> USE SkipBounds DEF SkipIInv, SkipTypeOK, Skipped
<1>1. elapsed' \in 0 .. MaxElapsed
  <2>1. elapsed' = Capped(s + c, MaxElapsed) /\ s + c \in Nat
    OBVIOUS
  <2>2. QED
    BY <2>1, CappedIsBounded
<1>2. QED
  BY <1>1 DEF Capped

(* A frame, whatever becomes of it.                                        *)
LEMMA FrameStep ==
  ASSUME SkipIInv, Frame
  PROVE  SkipIInv' /\ (~fallback /\ fallback' => strained' >= 3)
<1> USE SkipBounds, TicksAssumption DEF HeldInv, PresentSkipCap, Allowed
<1>0. SkipTypeOK /\ HeldInv /\ elapsed \in Nat
  BY DEF SkipIInv, SkipTypeOK
<1>1. ASSUME NEW gap \in Gaps PROVE Since(gap) \in Nat
  <2>1. elapsed + gap \in Nat
    BY <1>0
  <2>2. Capped(elapsed + gap, MaxElapsed) \in Nat
    BY <2>1, CappedIsBounded
  <2>3. QED
    BY <2>2 DEF Since
<1>2. CASE DecodeFails
  <2>1. PICK gap \in Gaps, c \in Costs :
          RecordDecodeTicks(c) /\ Skipped(Since(gap), c) /\ UNCHANGED held
    BY <1>2 DEF DecodeFails
  <2>2. Since(gap) \in Nat /\ c \in Nat
    BY <1>1
  <2>3. HeldInv'
    <3>1. skips' \in 0 .. MaxCount /\ skips' >= skips
      BY <2>1, <2>2, SkippedKeeps
    <3>2. QED
      BY <1>0, <2>1, <3>1 DEF SkipTypeOK
  <2>4. SkipTypeOK'
    BY <1>0, <2>1, <2>2, SkippedKeeps, RecordKeeps DEF SkipTypeOK
  <2>5. QED
    BY <2>1, <2>2, <2>3, <2>4, RecordKeeps DEF SkipIInv
<1>3. CASE FrameHeld
  <2>1. PICK gap \in Gaps, c \in Costs :
          /\ ShouldSkip(Since(gap))
          /\ RecordDecodeTicks(c) /\ Skipped(Since(gap), c)
          /\ held' = Capped(held + 1, MaxCount)
    BY <1>3 DEF FrameHeld
  <2>2. Since(gap) \in Nat /\ c \in Nat
    BY <1>1
  <2>3. skips < 2
    <3>1. skips < SkipCap
      BY <2>1 DEF ShouldSkip
    <3>2. SkipCap \in {2, 6, 10} \/ SkipCap = 2
      BY DEF SkipCap, Capped, MaxConsecutiveSkips
    <3>3. QED
      BY <1>0, <3>1, <3>2, SkipCapIsTwo DEF SkipTypeOK
  <2>4. held' = held + 1 /\ skips' = skips + 1
    BY <1>0, <2>1, <2>2, <2>3, SkippedKeeps DEF Capped, SkipTypeOK
  <2>5. HeldInv'
    BY <1>0, <2>3, <2>4 DEF SkipTypeOK
  <2>6. SkipTypeOK'
    BY <1>0, <2>1, <2>2, <2>4, <2>5, SkippedKeeps, RecordKeeps DEF SkipTypeOK
  <2>7. QED
    BY <2>1, <2>2, <2>5, <2>6, RecordKeeps DEF SkipIInv
<1>4. CASE FramePresented
  <2>1. PICK c \in Costs :
          /\ RecordDecodeTicks(c)
          /\ everShown' = TRUE /\ skips' = 0 /\ elapsed' = 0 /\ held' = 0
          /\ UNCHANGED <<easy, profile>>
    BY <1>4 DEF FramePresented
  <2>2. SkipTypeOK'
    BY <1>0, <2>1, RecordKeeps DEF SkipTypeOK
  <2>3. QED
    BY <2>1, <2>2, RecordKeeps DEF SkipIInv
<1>5. QED
  BY <1>2, <1>3, <1>4 DEF Frame

LEMMA SkipStep ==
  ASSUME SkipIInv, [SkipNext]_skipVars
  PROVE  SkipIInv' /\ (~fallback /\ fallback' => strained' >= 3)
<1>1. CASE Frame
  BY <1>1, FrameStep
<1>2. ASSUME NEW p \in Profiles, ApplyConfig(p)
      PROVE  SkipIInv' /\ (~fallback /\ fallback' => strained' >= 3)
  BY <1>2 DEF ApplyConfig, SkipIInv, SkipTypeOK, HeldInv, PressureInv
<1>3. CASE SceneGetsEasy
  BY <1>3 DEF SceneGetsEasy, SkipIInv, SkipTypeOK, HeldInv, PressureInv
<1>4. CASE UNCHANGED skipVars
  BY <1>4 DEF skipVars, SkipIInv, SkipTypeOK, HeldInv, PressureInv
<1>5. QED
  BY <1>1, <1>2, <1>3, <1>4 DEF SkipNext

THEOREM SkipInductive == SkipSpec => []SkipIInv
<1>1. SkipIInv /\ [SkipNext]_skipVars => SkipIInv'
  BY SkipStep
<1>2. QED
  BY InitSkip, <1>1, PTL DEF SkipSpec

(* The counters of g_potato keep their ranges; ultra_pressure has a limit. *)
THEOREM SkipTypeCorrect == SkipSpec => []SkipTypeOK
<1>1. SkipIInv => SkipTypeOK
  BY DEF SkipIInv
<1>2. QED
  BY SkipInductive, <1>1, PTL

(* potato_should_skip_frame: whatever decoding costs, however late frames  *)
(* come and whichever profiles are applied, no more than two good frames   *)
(* in a row are kept from the screen.                                      *)
THEOREM KeepsMoving == SkipSpec => []PictureMoves
<1>1. SkipIInv => PictureMoves
  BY DEF SkipIInv, HeldInv, PictureMoves
<1>2. QED
  BY SkipInductive, <1>1, PTL

(* potato_record_decode_ticks: the fallback is entered only when at least  *)
(* three frames have strained the decoder since it was left.               *)
THEOREM FallbackHolds == SkipSpec => NoFlicker
<1>1. SkipIInv /\ [SkipNext]_skipVars
        => [~fallback /\ fallback' => strained' >= 3]_skipVars
  BY SkipStep
<1>2. QED
  BY SkipInductive, <1>1, PTL DEF SkipSpec, NoFlicker
=============================================================================
