-------------------------- MODULE Presenter_proofs --------------------------
(* Proofs about Presenter for any number of frames and renderer changes.   *)
EXTENDS Presenter, TLAPS

(* The constructor's state satisfies the invariant.                        *)
LEMMA InitIInv == Init => IInv
<1> SUFFICES ASSUME Init PROVE IInv
  OBVIOUS
<1> USE FramesAssumption, SwapsAssumption, TileAssumption DEF Init, Threads
<1>1. TypeOK
  <2>1. pc["decoder"] = "idle" /\ pc["presenter"] = "none"
        /\ pc["dispatcher"] = "idle" /\ pc["main"] = "setup"
    OBVIOUS
  <2>2. pc \in [Threads -> DecoderPC \cup PresenterPC \cup MainPC \cup {"swap", "unlock"}]
    BY DEF DecoderPC, PresenterPC, MainPC
  <2>3. 0 \in 0 .. MaxFrames /\ 0 \in 0 .. MaxSwaps
    OBVIOUS
  <2>4. QED
    BY <2>1, <2>2, <2>3 DEF TypeOK, DecoderPC, PresenterPC, MainPC
<1>2. LockInv /\ LifeInv
  BY DEF LockInv, LifeInv, Drawing
<1>3. CarryInv
  BY DEF CarryInv
<1>4. EventInv
  BY DEF EventInv
<1>5. RendererStable
  BY DEF RendererStable
<1>6. QED
  BY <1>1, <1>2, <1>3, <1>4, <1>5 DEF IInv

(* Types; the lock; the life of the object; the frame in the decoder; the  *)
(* two events; the layout.  One lemma per part of the invariant.           *)
LEMMA StepTypeOK == IInv /\ [Next]_vars => TypeOK'
<1> SUFFICES ASSUME IInv, [Next]_vars PROVE TypeOK'
  OBVIOUS
<1> USE FramesAssumption, SwapsAssumption, TileAssumption
    DEF IInv, TypeOK, Threads, DecoderPC, PresenterPC, MainPC, Goto,
        decode, handoff, screen, CarryInv, LockInv
<1>1. CASE Setup
  <2> async' \in BOOLEAN
    BY <1>1 DEF Setup
  <2>1. CASE async'
    BY <1>1, <2>1 DEF Setup
  <2>2. CASE ~async'
    BY <1>1, <2>2 DEF Setup
  <2>3. QED
    BY <2>1, <2>2
<1>2. CASE Submit
  <2>1. checked' \in BOOLEAN /\ async' \in BOOLEAN
    BY <1>2 DEF Submit, LowerPriority
  <2>2. want' \in BOOLEAN
    BY <1>2 DEF Submit
  <2>3. frame' \in 0 .. MaxFrames
    BY <1>2 DEF Submit
  <2>4. /\ pc' \in [Threads -> DecoderPC \cup PresenterPC \cup MainPC \cup {"swap", "unlock"}]
        /\ pc'["decoder"] \in DecoderPC /\ pc'["presenter"] \in PresenterPC
        /\ pc'["dispatcher"] \in {"idle", "swap", "unlock"} /\ pc'["main"] \in MainPC
    BY <1>2 DEF Submit
  <2>5. QED
    BY <1>2, <2>1, <2>2, <2>3, <2>4 DEF Submit
<1>3. CASE SwapLock
  BY <1>3 DEF SwapLock
<1>4. CASE Cleanup
  <2>1. CASE pc["presenter"] = "none"
    BY <1>4, <2>1 DEF Cleanup
  <2>2. CASE pc["presenter"] # "none"
    BY <1>4, <2>2 DEF Cleanup
  <2>3. QED
    BY <2>1, <2>2
<1>5. CASE DecoderStep
  <2>1. CASE Decode
    BY <2>1 DEF Decode
  <2>2. CASE WaitPresenterIdle
    BY <2>2 DEF WaitPresenterIdle
  <2>3. CASE GetFrame
    BY <2>3 DEF GetFrame
  <2>4. CASE QueuePresent
    BY <2>4 DEF QueuePresent
  <2>5. CASE ClearIdle
    BY <2>5 DEF ClearIdle
  <2>6. CASE SignalJob
    BY <2>6 DEF SignalJob
  <2>7. CASE PresentLock("decoder")
    BY <2>7 DEF PresentLock
  <2>8. CASE PresentConvert("decoder")
    BY <2>8 DEF PresentConvert, AfterPresent, Presented
  <2>9. CASE PresentWrite("decoder")
    BY <2>9 DEF PresentWrite, AfterPresent, Presented
  <2>10. QED
    BY <1>5, <2>1, <2>2, <2>3, <2>4, <2>5, <2>6, <2>7, <2>8, <2>9 DEF DecoderStep, Present
<1>6. CASE PresenterStep
  <2>1. CASE PresenterWake
    BY <2>1 DEF PresenterWake
  <2>2. CASE PresenterCheckStop
    BY <2>2 DEF PresenterCheckStop
  <2>3. CASE PresentLock("presenter")
    BY <2>3 DEF PresentLock
  <2>4. CASE PresentConvert("presenter")
    BY <2>4 DEF PresentConvert, AfterPresent, Presented
  <2>5. CASE PresentWrite("presenter")
    BY <2>5 DEF PresentWrite, AfterPresent, Presented
  <2>6. CASE PresenterSignalIdle
    BY <2>6 DEF PresenterSignalIdle
  <2>7. QED
    BY <1>6, <2>1, <2>2, <2>3, <2>4, <2>5, <2>6 DEF PresenterStep, Present
<1>7. CASE DispatcherStep
  <2>1. CASE SwapRenderer
    BY <2>1 DEF SwapRenderer
  <2>2. CASE SwapUnlock
    BY <2>2 DEF SwapUnlock
  <2>3. QED
    BY <1>7, <2>1, <2>2 DEF DispatcherStep
<1>8. CASE CleanupStep
  <2>1. CASE CleanupSignal
    BY <2>1 DEF CleanupSignal
  <2>2. CASE CleanupJoin
    BY <2>2 DEF CleanupJoin
  <2>3. CASE CleanupDestroy
    BY <2>3 DEF CleanupDestroy
  <2>4. QED
    BY <1>8, <2>1, <2>2, <2>3 DEF CleanupStep
<1>9. CASE UNCHANGED vars
  BY <1>9 DEF vars
<1>10. QED
  BY <1>1, <1>2, <1>3, <1>4, <1>5, <1>6, <1>7, <1>8, <1>9 DEF Next

(* renderer_lock stays with the thread that is in its critical section.    *)
LEMMA StepLockInv == IInv /\ [Next]_vars => LockInv'
<1> SUFFICES ASSUME IInv, [Next]_vars PROVE LockInv'
  OBVIOUS
<1> USE FramesAssumption, SwapsAssumption, TileAssumption
    DEF IInv, TypeOK, Threads, DecoderPC, PresenterPC, MainPC, Goto,
        decode, handoff, screen, LockInv, Drawing
<1>1. CASE Setup
  <2>1. CASE async'
    BY <1>1, <2>1 DEF Setup, LifeInv
  <2>2. CASE ~async'
    BY <1>1, <2>2 DEF Setup, LifeInv
  <2>3. QED
    BY <2>1, <2>2
<1>2. CASE Submit
  BY <1>2 DEF Submit, LowerPriority
<1>3. CASE SwapLock
  BY <1>3 DEF SwapLock
<1>4. CASE Cleanup
  BY <1>4 DEF Cleanup
<1>5. CASE DecoderStep
  <2>1. CASE Decode
    BY <2>1 DEF Decode
  <2>2. CASE WaitPresenterIdle
    BY <2>2 DEF WaitPresenterIdle
  <2>3. CASE GetFrame
    BY <2>3 DEF GetFrame
  <2>4. CASE QueuePresent
    BY <2>4 DEF QueuePresent
  <2>5. CASE ClearIdle
    BY <2>5 DEF ClearIdle
  <2>6. CASE SignalJob
    BY <2>6 DEF SignalJob
  <2>7. CASE PresentLock("decoder")
    BY <2>7 DEF PresentLock
  <2>8. CASE PresentConvert("decoder")
    BY <2>8 DEF PresentConvert, AfterPresent, Presented
  <2>9. CASE PresentWrite("decoder")
    BY <2>9 DEF PresentWrite, AfterPresent, Presented
  <2>10. QED
    BY <1>5, <2>1, <2>2, <2>3, <2>4, <2>5, <2>6, <2>7, <2>8, <2>9 DEF DecoderStep, Present
<1>6. CASE PresenterStep
  <2>1. CASE PresenterWake
    BY <2>1 DEF PresenterWake
  <2>2. CASE PresenterCheckStop
    BY <2>2 DEF PresenterCheckStop
  <2>3. CASE PresentLock("presenter")
    BY <2>3 DEF PresentLock
  <2>4. CASE PresentConvert("presenter")
    BY <2>4 DEF PresentConvert, AfterPresent, Presented
  <2>5. CASE PresentWrite("presenter")
    BY <2>5 DEF PresentWrite, AfterPresent, Presented
  <2>6. CASE PresenterSignalIdle
    BY <2>6 DEF PresenterSignalIdle
  <2>7. QED
    BY <1>6, <2>1, <2>2, <2>3, <2>4, <2>5, <2>6 DEF PresenterStep, Present
<1>7. CASE DispatcherStep
  <2>1. CASE SwapRenderer
    BY <2>1 DEF SwapRenderer
  <2>2. CASE SwapUnlock
    BY <2>2 DEF SwapUnlock
  <2>3. QED
    BY <1>7, <2>1, <2>2 DEF DispatcherStep
<1>8. CASE CleanupStep
  <2>1. CASE CleanupSignal
    BY <2>1 DEF CleanupSignal
  <2>2. CASE CleanupJoin
    BY <2>2 DEF CleanupJoin
  <2>3. CASE CleanupDestroy
    BY <2>3 DEF CleanupDestroy
  <2>4. QED
    BY <1>8, <2>1, <2>2, <2>3 DEF CleanupStep
<1>9. CASE UNCHANGED vars
  BY <1>9 DEF vars
<1>10. QED
  BY <1>1, <1>2, <1>3, <1>4, <1>5, <1>6, <1>7, <1>8, <1>9 DEF Next

(* The life of the object: no thread before the constructor or after the join.*)
LEMMA StepLifeInv == IInv /\ [Next]_vars => LifeInv'
<1> SUFFICES ASSUME IInv, [Next]_vars PROVE LifeInv'
  OBVIOUS
<1> USE FramesAssumption, SwapsAssumption, TileAssumption
    DEF IInv, TypeOK, Threads, DecoderPC, PresenterPC, MainPC, Goto,
        decode, handoff, screen, LifeInv
<1>1. CASE Setup
  BY <1>1 DEF Setup
<1>2. CASE Submit
  BY <1>2 DEF Submit, LowerPriority
<1>3. CASE SwapLock
  BY <1>3 DEF SwapLock
<1>4. CASE Cleanup
  BY <1>4 DEF Cleanup
<1>5. CASE DecoderStep
  <2>1. CASE Decode
    BY <2>1 DEF Decode
  <2>2. CASE WaitPresenterIdle
    BY <2>2 DEF WaitPresenterIdle
  <2>3. CASE GetFrame
    BY <2>3 DEF GetFrame
  <2>4. CASE QueuePresent
    BY <2>4 DEF QueuePresent
  <2>5. CASE ClearIdle
    BY <2>5 DEF ClearIdle
  <2>6. CASE SignalJob
    BY <2>6 DEF SignalJob
  <2>7. CASE PresentLock("decoder")
    BY <2>7 DEF PresentLock
  <2>8. CASE PresentConvert("decoder")
    BY <2>8 DEF PresentConvert, AfterPresent, Presented
  <2>9. CASE PresentWrite("decoder")
    BY <2>9 DEF PresentWrite, AfterPresent, Presented
  <2>10. QED
    BY <1>5, <2>1, <2>2, <2>3, <2>4, <2>5, <2>6, <2>7, <2>8, <2>9 DEF DecoderStep, Present
<1>6. CASE PresenterStep
  <2>1. CASE PresenterWake
    BY <2>1 DEF PresenterWake
  <2>2. CASE PresenterCheckStop
    BY <2>2 DEF PresenterCheckStop
  <2>3. CASE PresentLock("presenter")
    BY <2>3 DEF PresentLock
  <2>4. CASE PresentConvert("presenter")
    BY <2>4 DEF PresentConvert, AfterPresent, Presented
  <2>5. CASE PresentWrite("presenter")
    BY <2>5 DEF PresentWrite, AfterPresent, Presented
  <2>6. CASE PresenterSignalIdle
    BY <2>6 DEF PresenterSignalIdle
  <2>7. QED
    BY <1>6, <2>1, <2>2, <2>3, <2>4, <2>5, <2>6 DEF PresenterStep, Present
<1>7. CASE DispatcherStep
  <2>1. CASE SwapRenderer
    BY <2>1 DEF SwapRenderer
  <2>2. CASE SwapUnlock
    BY <2>2 DEF SwapUnlock
  <2>3. QED
    BY <1>7, <2>1, <2>2 DEF DispatcherStep
<1>8. CASE CleanupStep
  <2>1. CASE CleanupSignal
    BY <2>1 DEF CleanupSignal
  <2>2. CASE CleanupJoin
    BY <2>2 DEF CleanupJoin
  <2>3. CASE CleanupDestroy
    BY <2>3 DEF CleanupDestroy
  <2>4. QED
    BY <1>8, <2>1, <2>2, <2>3 DEF CleanupStep
<1>9. CASE UNCHANGED vars
  BY <1>9 DEF vars
<1>10. QED
  BY <1>1, <1>2, <1>3, <1>4, <1>5, <1>6, <1>7, <1>8, <1>9 DEF Next

(* The frame in the hands of the decoder and its planes.                   *)
LEMMA StepCarryInv == IInv /\ [Next]_vars => CarryInv'
<1> SUFFICES ASSUME IInv, [Next]_vars PROVE CarryInv'
  OBVIOUS
<1> USE FramesAssumption, SwapsAssumption, TileAssumption
    DEF IInv, TypeOK, Threads, DecoderPC, PresenterPC, MainPC, Goto,
        decode, handoff, screen, LifeInv, CarryInv, EventInv, OnItsWay
<1>1. CASE Setup
  BY <1>1 DEF Setup
<1>2. CASE Submit
  BY <1>2 DEF Submit, LowerPriority
<1>3. CASE SwapLock
  BY <1>3 DEF SwapLock
<1>4. CASE Cleanup
  BY <1>4 DEF Cleanup
<1>5. CASE DecoderStep
  <2>1. CASE Decode
    BY <2>1 DEF Decode
  <2>2. CASE WaitPresenterIdle
    BY <2>2 DEF WaitPresenterIdle
  <2>3. CASE GetFrame
    BY <2>3 DEF GetFrame
  <2>4. CASE QueuePresent
    BY <2>4 DEF QueuePresent
  <2>5. CASE ClearIdle
    BY <2>5 DEF ClearIdle
  <2>6. CASE SignalJob
    BY <2>6 DEF SignalJob
  <2>7. CASE PresentLock("decoder")
    BY <2>7 DEF PresentLock
  <2>8. CASE PresentConvert("decoder")
    BY <2>8 DEF PresentConvert, AfterPresent, Presented
  <2>9. CASE PresentWrite("decoder")
    BY <2>9 DEF PresentWrite, AfterPresent, Presented
  <2>10. QED
    BY <1>5, <2>1, <2>2, <2>3, <2>4, <2>5, <2>6, <2>7, <2>8, <2>9 DEF DecoderStep, Present
<1>6. CASE PresenterStep
  <2>1. CASE PresenterWake
    BY <2>1 DEF PresenterWake
  <2>2. CASE PresenterCheckStop
    BY <2>2 DEF PresenterCheckStop
  <2>3. CASE PresentLock("presenter")
    BY <2>3 DEF PresentLock
  <2>4. CASE PresentConvert("presenter")
    BY <2>4 DEF PresentConvert, AfterPresent, Presented
  <2>5. CASE PresentWrite("presenter")
    BY <2>5 DEF PresentWrite, AfterPresent, Presented
  <2>6. CASE PresenterSignalIdle
    BY <2>6 DEF PresenterSignalIdle
  <2>7. QED
    BY <1>6, <2>1, <2>2, <2>3, <2>4, <2>5, <2>6 DEF PresenterStep, Present
<1>7. CASE DispatcherStep
  <2>1. CASE SwapRenderer
    BY <2>1 DEF SwapRenderer
  <2>2. CASE SwapUnlock
    BY <2>2 DEF SwapUnlock
  <2>3. QED
    BY <1>7, <2>1, <2>2 DEF DispatcherStep
<1>8. CASE CleanupStep
  <2>1. CASE CleanupSignal
    BY <2>1 DEF CleanupSignal
  <2>2. CASE CleanupJoin
    BY <2>2 DEF CleanupJoin
  <2>3. CASE CleanupDestroy
    BY <2>3 DEF CleanupDestroy
  <2>4. QED
    BY <1>8, <2>1, <2>2, <2>3 DEF CleanupStep
<1>9. CASE UNCHANGED vars
  BY <1>9 DEF vars
<1>10. QED
  BY <1>1, <1>2, <1>3, <1>4, <1>5, <1>6, <1>7, <1>8, <1>9 DEF Next

(* The two events and the frame between them.                              *)
LEMMA StepEventInv == IInv /\ [Next]_vars => EventInv'
<1> SUFFICES ASSUME IInv, [Next]_vars PROVE EventInv'
  OBVIOUS
<1> USE FramesAssumption, SwapsAssumption, TileAssumption
    DEF IInv, TypeOK, Threads, DecoderPC, PresenterPC, MainPC, Goto,
        decode, handoff, screen, LifeInv, CarryInv, EventInv, OnItsWay
<1>1. CASE Setup
  BY <1>1 DEF Setup
<1>2. CASE Submit
  BY <1>2 DEF Submit, LowerPriority
<1>3. CASE SwapLock
  BY <1>3 DEF SwapLock
<1>4. CASE Cleanup
  BY <1>4 DEF Cleanup
<1>5. CASE DecoderStep
  <2>1. CASE Decode
    BY <2>1 DEF Decode
  <2>2. CASE WaitPresenterIdle
    BY <2>2 DEF WaitPresenterIdle
  <2>3. CASE GetFrame
    BY <2>3 DEF GetFrame
  <2>4. CASE QueuePresent
    BY <2>4 DEF QueuePresent
  <2>5. CASE ClearIdle
    BY <2>5 DEF ClearIdle
  <2>6. CASE SignalJob
    BY <2>6 DEF SignalJob
  <2>7. CASE PresentLock("decoder")
    BY <2>7 DEF PresentLock
  <2>8. CASE PresentConvert("decoder")
    BY <2>8 DEF PresentConvert, AfterPresent, Presented
  <2>9. CASE PresentWrite("decoder")
    BY <2>9 DEF PresentWrite, AfterPresent, Presented
  <2>10. QED
    BY <1>5, <2>1, <2>2, <2>3, <2>4, <2>5, <2>6, <2>7, <2>8, <2>9 DEF DecoderStep, Present
<1>6. CASE PresenterStep
  <2>1. CASE PresenterWake
    BY <2>1 DEF PresenterWake
  <2>2. CASE PresenterCheckStop
    BY <2>2 DEF PresenterCheckStop
  <2>3. CASE PresentLock("presenter")
    BY <2>3 DEF PresentLock
  <2>4. CASE PresentConvert("presenter")
    BY <2>4 DEF PresentConvert, AfterPresent, Presented
  <2>5. CASE PresentWrite("presenter")
    BY <2>5 DEF PresentWrite, AfterPresent, Presented
  <2>6. CASE PresenterSignalIdle
    BY <2>6 DEF PresenterSignalIdle
  <2>7. QED
    BY <1>6, <2>1, <2>2, <2>3, <2>4, <2>5, <2>6 DEF PresenterStep, Present
<1>7. CASE DispatcherStep
  <2>1. CASE SwapRenderer
    BY <2>1 DEF SwapRenderer
  <2>2. CASE SwapUnlock
    BY <2>2 DEF SwapUnlock
  <2>3. QED
    BY <1>7, <2>1, <2>2 DEF DispatcherStep
<1>8. CASE CleanupStep
  <2>1. CASE CleanupSignal
    BY <2>1 DEF CleanupSignal
  <2>2. CASE CleanupJoin
    BY <2>2 DEF CleanupJoin
  <2>3. CASE CleanupDestroy
    BY <2>3 DEF CleanupDestroy
  <2>4. QED
    BY <1>8, <2>1, <2>2, <2>3 DEF CleanupStep
<1>9. CASE UNCHANGED vars
  BY <1>9 DEF vars
<1>10. QED
  BY <1>1, <1>2, <1>3, <1>4, <1>5, <1>6, <1>7, <1>8, <1>9 DEF Next

(* The renderer does not change under a chosen layout.                     *)
LEMMA StepRendererStable == IInv /\ [Next]_vars => RendererStable'
<1> SUFFICES ASSUME IInv, [Next]_vars PROVE RendererStable'
  OBVIOUS
<1> USE FramesAssumption, SwapsAssumption, TileAssumption
    DEF IInv, TypeOK, Threads, DecoderPC, PresenterPC, MainPC, Goto,
        decode, handoff, screen, LockInv, RendererStable, Drawing
<1>1. CASE Setup
  BY <1>1 DEF Setup
<1>2. CASE Submit
  BY <1>2 DEF Submit, LowerPriority
<1>3. CASE SwapLock
  BY <1>3 DEF SwapLock
<1>4. CASE Cleanup
  BY <1>4 DEF Cleanup
<1>5. CASE DecoderStep
  <2>1. CASE Decode
    BY <2>1 DEF Decode
  <2>2. CASE WaitPresenterIdle
    BY <2>2 DEF WaitPresenterIdle
  <2>3. CASE GetFrame
    BY <2>3 DEF GetFrame
  <2>4. CASE QueuePresent
    BY <2>4 DEF QueuePresent
  <2>5. CASE ClearIdle
    BY <2>5 DEF ClearIdle
  <2>6. CASE SignalJob
    BY <2>6 DEF SignalJob
  <2>7. CASE PresentLock("decoder")
    BY <2>7 DEF PresentLock
  <2>8. CASE PresentConvert("decoder")
    BY <2>8 DEF PresentConvert, AfterPresent, Presented
  <2>9. CASE PresentWrite("decoder")
    BY <2>9 DEF PresentWrite, AfterPresent, Presented
  <2>10. QED
    BY <1>5, <2>1, <2>2, <2>3, <2>4, <2>5, <2>6, <2>7, <2>8, <2>9 DEF DecoderStep, Present
<1>6. CASE PresenterStep
  <2>1. CASE PresenterWake
    BY <2>1 DEF PresenterWake
  <2>2. CASE PresenterCheckStop
    BY <2>2 DEF PresenterCheckStop
  <2>3. CASE PresentLock("presenter")
    BY <2>3 DEF PresentLock
  <2>4. CASE PresentConvert("presenter")
    BY <2>4 DEF PresentConvert, AfterPresent, Presented
  <2>5. CASE PresentWrite("presenter")
    BY <2>5 DEF PresentWrite, AfterPresent, Presented
  <2>6. CASE PresenterSignalIdle
    BY <2>6 DEF PresenterSignalIdle
  <2>7. QED
    BY <1>6, <2>1, <2>2, <2>3, <2>4, <2>5, <2>6 DEF PresenterStep, Present
<1>7. CASE DispatcherStep
  <2>1. CASE SwapRenderer
    BY <2>1 DEF SwapRenderer
  <2>2. CASE SwapUnlock
    BY <2>2 DEF SwapUnlock
  <2>3. QED
    BY <1>7, <2>1, <2>2 DEF DispatcherStep
<1>8. CASE CleanupStep
  <2>1. CASE CleanupSignal
    BY <2>1 DEF CleanupSignal
  <2>2. CASE CleanupJoin
    BY <2>2 DEF CleanupJoin
  <2>3. CASE CleanupDestroy
    BY <2>3 DEF CleanupDestroy
  <2>4. QED
    BY <1>8, <2>1, <2>2, <2>3 DEF CleanupStep
<1>9. CASE UNCHANGED vars
  BY <1>9 DEF vars
<1>10. QED
  BY <1>1, <1>2, <1>3, <1>4, <1>5, <1>6, <1>7, <1>8, <1>9 DEF Next

(* The inductive invariant holds in every state.                           *)
THEOREM Inductive == Spec => []IInv
<1>1. Init => IInv
  BY InitIInv
<1>2. IInv /\ [Next]_vars => IInv'
  BY StepTypeOK, StepLockInv, StepLifeInv, StepCarryInv, StepEventInv,
     StepRendererStable DEF IInv
<1>3. QED
  BY <1>1, <1>2, PTL DEF Spec

(* Types, for any number of frames.                                        *)
THEOREM TypeCorrect == Spec => []TypeOK
<1>1. IInv => TypeOK
  BY DEF IInv
<1>2. QED
  BY <1>1, Inductive, PTL

(* The converter never reads planes FFmpeg has released.                   *)
THEOREM PlanesStayAlive == Spec => []PlanesAlive
<1>1. IInv => PlanesAlive
  BY DEF IInv, CarryInv, EventInv, OnItsWay, PlanesAlive
<1>2. QED
  BY <1>1, Inductive, PTL

(* The layout of the image is the one the renderer on screen expects.      *)
THEOREM RendererStaysStable == Spec => []RendererStable
<1>1. IInv => RendererStable
  BY DEF IInv
<1>2. QED
  BY <1>1, Inductive, PTL

(* Decoder and presenter never present together.                           *)
THEOREM NeverTwoDrawers == Spec => []OneDrawer
<1>1. IInv => OneDrawer
  BY DEF IInv, EventInv, OneDrawer
<1>2. QED
  BY <1>1, Inductive, PTL

(* After the join nobody is left who could touch the frame.                *)
THEOREM QuietAfterTheJoin == Spec => []QuietAfterJoin
<1>1. IInv => QuietAfterJoin
  BY DEF IInv, LifeInv, QuietAfterJoin
<1>2. QED
  BY <1>1, Inductive, PTL

(* Frames are shown one at a time, in order, and none is overwritten.      *)
THEOREM Refinement == Spec => ImplementsFrameHandoff
<1>1. Init => FH!HInit
  BY DEF Init, FH!HInit, Threads
<1>2. IInv /\ [Next]_vars => [FH!HNext]_FH!hvars
  <2> SUFFICES ASSUME IInv, [Next]_vars PROVE [FH!HNext]_FH!hvars
    OBVIOUS
  <2> USE FramesAssumption DEF IInv, TypeOK, Threads, Goto, decode, handoff, screen,
          FH!hvars, FH!HNext
  <2>1. CASE QueuePresent
    <3>1. queued = finished
      BY <2>1 DEF QueuePresent, CarryInv, EventInv, OnItsWay
    <3>2. FH!HandOver(frame) /\ frame \in 1 .. MaxFrames
      BY <2>1, <3>1 DEF QueuePresent, FH!HandOver, CarryInv, LifeInv, MainPC
    <3>3. QED
      BY <3>2
  <2>2. ASSUME NEW t \in {"decoder", "presenter"}, Present(t)
        PROVE  [FH!HNext]_FH!hvars
    <3>1. CASE finished' = finished
      BY <2>2, <3>1 DEF Present, PresentLock, PresentConvert, PresentWrite
    <3>2. CASE finished' # finished
      <4>1. pc[t] \in {"convert", "write"} /\ Presented(t)
        BY <2>2, <3>2 DEF Present, PresentLock, PresentConvert, PresentWrite
      <4>2. finished' = queued /\ queued # finished
        BY <4>1 DEF Presented, CarryInv, EventInv, OnItsWay
      <4>3. /\ queued' = queued
            /\ (pc["main"] \in {"setup", "run"})' = (pc["main"] \in {"setup", "run"})
        BY <2>2 DEF Present, PresentLock, PresentConvert, PresentWrite
      <4>4. QED
        BY <4>2, <4>3 DEF FH!Finish
    <3>3. QED
      BY <3>1, <3>2
  <2>3. CASE Cleanup
    BY <2>3 DEF Cleanup, FH!Close
  <2>4. CASE Setup \/ Submit \/ SwapLock
    BY <2>4 DEF Setup, Submit, SwapLock
  <2>5. CASE Decode \/ WaitPresenterIdle \/ GetFrame \/ ClearIdle \/ SignalJob
    BY <2>5 DEF Decode, WaitPresenterIdle, GetFrame, ClearIdle, SignalJob
  <2>6. CASE PresenterWake \/ PresenterCheckStop \/ PresenterSignalIdle
    BY <2>6 DEF PresenterWake, PresenterCheckStop, PresenterSignalIdle
  <2>7. CASE DispatcherStep
    BY <2>7 DEF DispatcherStep, SwapRenderer, SwapUnlock
  <2>8. CASE CleanupStep
    BY <2>8 DEF CleanupStep, CleanupSignal, CleanupJoin, CleanupDestroy
  <2>9. CASE UNCHANGED vars
    BY <2>9 DEF vars
  <2>10. QED
    BY <2>1, <2>2, <2>3, <2>4, <2>5, <2>6, <2>7, <2>8, <2>9
    DEF Next, DecoderStep, PresenterStep
<1>3. QED
  BY <1>1, <1>2, Inductive, PTL DEF Spec, ImplementsFrameHandoff, FH!HSpec
=============================================================================
