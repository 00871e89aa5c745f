----------------------------- MODULE Media_proofs ------------------------------
(* Proofs about AudioRing for a ring of any size, and about Media for any  *)
(* configurations, any number of streams and any number of wave buffers.   *)
EXTENDS Media, SequenceTheorems, TLAPS

-----------------------------------------------------------------------------
(* The audio ring.                                                         *)

RingIInv == AudioTypeOK /\ RingInOrder

(* Before the first stream the DSP has nothing.                            *)
LEMMA InitRing == AudioInit => RingIInv
<1> SUFFICES ASSUME AudioInit PROVE RingIInv
  OBVIOUS
<1> USE AudioAssumption DEF AudioInit, Ring
<1>1. AudioTypeOK
  BY DEF AudioTypeOK
<1>2. RingInOrder
  BY DEF RingInOrder, Playable, Given
<1>3. QED
  BY <1>1, <1>2 DEF RingIInv

(* Every step keeps the types.                                             *)
LEMMA StepRingTypeOK == RingIInv /\ [AudioNext]_audioVars => AudioTypeOK'
<1> SUFFICES ASSUME RingIInv, [AudioNext]_audioVars PROVE AudioTypeOK'
  OBVIOUS
<1> USE AudioAssumption DEF RingIInv, AudioTypeOK, Ring, device, slots
<1>1. CASE Open
  <2>1. CASE OpusFails \/ NdspFails
    BY <2>1 DEF OpusFails, NdspFails
  <2>2. CASE AllocFails
    BY <2>2 DEF AllocFails
  <2>3. CASE Opened
    <3>1. /\ status' \in [Ring -> {"free", "queued", "playing", "done"}]
          /\ data' \in [Ring -> Sound \cup {Silence}]
      BY <2>3 DEF Opened
    <3>2. idx' \in Ring /\ chain' \in Seq(Ring)
      BY <2>3 DEF Opened
    <3>3. QED
      BY <2>3, <3>1, <3>2 DEF Opened
  <2>4. QED
    BY <1>1, <2>1, <2>2, <2>3 DEF Open
<1>2. CASE Play
  <2>1. CASE Lost \/ Full
    BY <2>1 DEF Lost, Full
  <2>2. ASSUME NEW s \in Sound, Fill(s) PROVE AudioTypeOK'
    BY <2>2 DEF Fill
  <2>3. CASE Add
    <3>1. idx' \in Ring
      BY <2>3 DEF Add, After
    <3>2. chain' \in Seq(Ring)
      BY <2>3 DEF Add
    <3>3. status' \in [Ring -> {"free", "queued", "playing", "done"}]
      BY <2>3 DEF Add
    <3>4. QED
      BY <2>3, <3>1, <3>2, <3>3 DEF Add
  <2>4. QED
    BY <1>2, <2>1, <2>2, <2>3 DEF Play
<1>3. CASE Dsp
  <2>1. CASE DspStarts
    BY <2>1 DEF DspStarts
  <2>2. CASE DspEnds
    BY <2>2 DEF DspEnds
  <2>3. QED
    BY <1>3, <2>1, <2>2 DEF Dsp
<1>4. CASE Cleanup
  <2>1. chain' = <<>> \/ chain' = chain
    BY <1>4 DEF Cleanup
  <2>2. <<>> \in Seq(Ring)
    OBVIOUS
  <2>3. QED
    BY <1>4, <2>1, <2>2 DEF Cleanup
<1>5. CASE UNCHANGED audioVars
  BY <1>5 DEF audioVars
<1>6. QED
  BY <1>1, <1>2, <1>3, <1>4, <1>5 DEF AudioNext

(* The buffer after the last one of the chain is in the chain only when it *)
(* is its first one and all buffers are in it.                             *)
LEMMA NextIsFree ==
  ASSUME RingIInv
  PROVE  idx \in Given <=> Len(chain) = Slots
<1> USE AudioAssumption DEF RingIInv, AudioTypeOK, RingInOrder, Ring, Given, Wrap
<1>1. ASSUME idx \in Given PROVE Len(chain) = Slots
  <2>1. PICK j \in 1 .. Len(chain) : chain[j] = idx
    BY <1>1
  <2>2. idx = Wrap(idx + j - 1 - Len(chain))
    BY <2>1
  <2>3. QED
    BY <2>2
<1>2. ASSUME Len(chain) = Slots PROVE idx \in Given
  <2>1. 1 \in 1 .. Len(chain) /\ chain[1] = Wrap(idx + 1 - 1 - Slots)
    BY <1>2
  <2>2. chain[1] = idx
    BY <2>1
  <2>3. QED
    BY <2>1, <2>2
<1>3. QED
  BY <1>1, <1>2

(* The buffers of the chain are different ones.                            *)
LEMMA NoneTwice ==
  ASSUME RingIInv, NEW i \in 1 .. Len(chain), NEW j \in 1 .. Len(chain),
         chain[i] = chain[j]
  PROVE  i = j
<1>1. Wrap(idx + i - 1 - Len(chain)) = Wrap(idx + j - 1 - Len(chain))
  BY DEF RingIInv, RingInOrder
<1>2. QED
  BY <1>1, AudioAssumption DEF RingIInv, AudioTypeOK, RingInOrder, Ring, Wrap

(* Giving a buffer to the DSP keeps the order.                             *)
LEMMA AddInOrder == RingIInv /\ Add => RingInOrder'
<1> SUFFICES ASSUME RingIInv, Add PROVE RingInOrder'
  OBVIOUS
<1> USE AudioAssumption DEF RingIInv, AudioTypeOK, Ring
<1>1. Len(chain) < Slots /\ ndsp /\ Playable
  BY DEF Add, RingInOrder, Playable
<1>2. /\ Len(chain') = Len(chain) + 1
      /\ chain'[Len(chain) + 1] = idx
      /\ \A j \in 1 .. Len(chain) : chain'[j] = chain[j]
  BY DEF Add
<1>3. \A j \in 1 .. Len(chain') : chain'[j] = Wrap(idx' + j - 1 - Len(chain'))
  <2> SUFFICES ASSUME NEW j \in 1 .. Len(chain) + 1
               PROVE  chain'[j] = Wrap(idx' + j - 2 - Len(chain))
    BY <1>2 DEF Wrap
  <2>1. chain'[j] = Wrap(idx + j - 1 - Len(chain))
    <3>1. CASE j = Len(chain) + 1
      BY <1>2, <3>1 DEF Wrap
    <3>2. CASE j # Len(chain) + 1
      <4>1. j \in 1 .. Len(chain)
        BY <1>2, <3>2
      <4>2. QED
        BY <1>2, <4>1 DEF RingInOrder
    <3>3. QED
      BY <3>1, <3>2
  <2>2. idx' = IF idx = Slots - 1 THEN 0 ELSE idx + 1
    BY DEF Add, After
  <2>3. QED
    BY <1>1, <2>1, <2>2 DEF Wrap
<1>4. Given' = Given \cup {idx}
  <2>1. ASSUME NEW i \in Given' PROVE i \in Given \cup {idx}
    <3>1. PICK j \in 1 .. Len(chain) + 1 : chain'[j] = i
      BY <1>2, <2>1 DEF Given
    <3>2. CASE j = Len(chain) + 1
      BY <1>2, <3>1, <3>2
    <3>3. CASE j # Len(chain) + 1
      <4>1. j \in 1 .. Len(chain)
        BY <1>2, <3>3
      <4>2. QED
        BY <1>2, <3>1, <4>1 DEF Given
    <3>4. QED
      BY <3>2, <3>3
  <2>2. ASSUME NEW i \in Given PROVE i \in Given'
    <3>1. PICK j \in 1 .. Len(chain) : chain[j] = i
      BY <2>2 DEF Given
    <3>2. j \in 1 .. Len(chain') /\ chain'[j] = i
      BY <1>2, <3>1
    <3>3. QED
      BY <3>2 DEF Given
  <2>3. idx \in Given'
    <3>1. Len(chain) + 1 \in 1 .. Len(chain')
      BY <1>2
    <3>2. QED
      BY <1>2, <3>1 DEF Given
  <2>4. QED
    BY <2>1, <2>2, <2>3
<1>5. \A i \in Ring : (status'[i] = "done") <=> (i \notin Given')
  <2> SUFFICES ASSUME NEW i \in Ring PROVE (status'[i] = "done") <=> (i \notin Given')
    OBVIOUS
  <2>1. CASE i = idx
    BY <1>4, <2>1 DEF Add
  <2>2. CASE i # idx
    BY <1>1, <1>4, <2>2 DEF Add, RingInOrder
  <2>3. QED
    BY <2>1, <2>2
<1>6. QED
  BY <1>1, <1>2, <1>3, <1>5 DEF RingInOrder, Add

(* So does taking one from it.                                             *)
LEMMA EndInOrder == RingIInv /\ DspEnds => RingInOrder'
<1> SUFFICES ASSUME RingIInv, DspEnds PROVE RingInOrder'
  OBVIOUS
<1> USE AudioAssumption DEF RingIInv, AudioTypeOK, Ring
<1>1. Len(chain) \in Nat \ {0} /\ Head(chain) = chain[1]
  BY DEF DspEnds
<1>2. /\ Len(chain') = Len(chain) - 1
      /\ \A j \in 1 .. Len(chain') : chain'[j] = chain[j + 1]
  BY <1>1 DEF DspEnds
<1>3. \A j \in 1 .. Len(chain') : chain'[j] = Wrap(idx' + j - 1 - Len(chain'))
  <2> SUFFICES ASSUME NEW j \in 1 .. Len(chain) - 1
               PROVE  chain[j + 1] = Wrap(idx + j - (Len(chain)))
    BY <1>1, <1>2 DEF Wrap, DspEnds, device
  <2>1. j + 1 \in 1 .. Len(chain)
    BY <1>1
  <2>2. chain[j + 1] = Wrap(idx + (j + 1) - 1 - Len(chain))
    BY <2>1 DEF RingInOrder
  <2>3. QED
    BY <1>1, <2>2 DEF Wrap
<1>4. Given' = Given \ {chain[1]}
  <2>1. ASSUME NEW i \in Given' PROVE i \in Given \ {chain[1]}
    <3>1. PICK j \in 1 .. Len(chain') : chain[j + 1] = i
      BY <1>2, <2>1 DEF Given
    <3>2. j + 1 \in 1 .. Len(chain) /\ 1 \in 1 .. Len(chain) /\ j + 1 # 1
      BY <1>1, <1>2, <3>1
    <3>3. i # chain[1]
      BY <3>1, <3>2, NoneTwice
    <3>4. QED
      BY <3>1, <3>2, <3>3 DEF Given
  <2>2. ASSUME NEW i \in Given, i # chain[1] PROVE i \in Given'
    <3>1. PICK j \in 1 .. Len(chain) : chain[j] = i
      BY <2>2 DEF Given
    <3>2. j - 1 \in 1 .. Len(chain') /\ chain'[j - 1] = i
      BY <1>1, <1>2, <2>2, <3>1
    <3>3. QED
      BY <3>2 DEF Given
  <2>3. QED
    BY <2>1, <2>2
<1>5. \A i \in Ring : (status'[i] = "done") <=> (i \notin Given')
  <2> SUFFICES ASSUME NEW i \in Ring
               PROVE  (status'[i] = "done") <=> (i \notin Given')
    OBVIOUS
  <2>1. CASE i = chain[1]
    BY <1>1, <1>4, <2>1 DEF DspEnds
  <2>2. CASE i # chain[1]
    BY <1>1, <1>4, <2>2 DEF DspEnds, RingInOrder
  <2>3. QED
    BY <2>1, <2>2
<1>6. QED
  BY <1>1, <1>2, <1>3, <1>5 DEF RingInOrder, DspEnds, Playable, device

(* Every step keeps the order of the ring.                                *)
LEMMA StepInOrder == RingIInv /\ [AudioNext]_audioVars => RingInOrder'
<1> SUFFICES ASSUME RingIInv, [AudioNext]_audioVars PROVE RingInOrder'
  OBVIOUS
<1> USE AudioAssumption DEF RingIInv, AudioTypeOK, RingInOrder, Playable, Given, Ring,
        device, slots
<1>1. CASE Open
  <2>1. CASE OpusFails \/ NdspFails \/ AllocFails
    <3>1. chain = <<>> /\ chain' = chain /\ status' = status /\ ~filling'
      BY <1>1, <2>1 DEF Open, OpusFails, NdspFails, AllocFails
    <3>2. ndsp' => ndsp
      BY <2>1 DEF OpusFails, NdspFails, AllocFails
    <3>3. Given' = Given
      BY <3>1
    <3>4. QED
      BY <3>1, <3>2, <3>3
  <2>2. CASE Opened
    BY <2>2 DEF Opened
  <2>3. QED
    BY <1>1, <2>1, <2>2 DEF Open
<1>2. CASE Play
  <2>1. CASE Lost \/ Full
    <3>1. UNCHANGED <<opus, ndsp, idx, status, data, chain, filling>>
      BY <2>1 DEF Lost, Full
    <3>2. QED
      BY <3>1
  <2>2. ASSUME NEW s \in Sound, Fill(s) PROVE RingInOrder'
    <3>1. idx \notin Given
      BY <2>2 DEF Fill
    <3>2. Len(chain) < Slots
      <4>1. Len(chain) # Slots
        BY <3>1, NextIsFree DEF RingIInv
      <4>2. QED
        BY <4>1
    <3>3. QED
      BY <2>2, <3>2 DEF Fill
  <2>3. CASE Add
    BY <2>3, AddInOrder
  <2>4. QED
    BY <1>2, <2>1, <2>2, <2>3 DEF Play
<1>3. CASE Dsp
  <2>1. CASE DspStarts
    BY <2>1 DEF DspStarts
  <2>2. CASE DspEnds
    BY <2>2, EndInOrder
  <2>3. QED
    BY <1>3, <2>1, <2>2 DEF Dsp
<1>4. CASE Cleanup
  <2>1. ~ndsp' /\ ~filling' /\ idx' = idx
    BY <1>4 DEF Cleanup
  <2>2. CASE chain' = <<>>
    BY <2>1, <2>2
  <2>3. CASE chain' = chain
    BY <2>1, <2>3
  <2>4. QED
    BY <1>4, <2>2, <2>3 DEF Cleanup
<1>5. CASE UNCHANGED audioVars
  BY <1>5 DEF audioVars
<1>6. QED
  BY <1>1, <1>2, <1>3, <1>4, <1>5 DEF AudioNext

(* The inductive invariant: the types, and that the DSP has the buffers    *)
(* before wave_buf_idx and that these are the ones that are not done.      *)
THEOREM RingInductive == AudioSpec => []RingIInv
<1>1. RingIInv /\ [AudioNext]_audioVars => RingIInv'
  BY StepRingTypeOK, StepInOrder DEF RingIInv
<1>2. QED
  BY InitRing, <1>1, PTL DEF AudioSpec

(* The output keeps its types.                                             *)
THEOREM RingTypeCorrect == AudioSpec => []AudioTypeOK
<1>1. RingIInv => AudioTypeOK
  BY DEF RingIInv
<1>2. QED
  BY RingInductive, <1>1, PTL

(* A packet that is being decoded never goes into a buffer the DSP has:    *)
(* however late the DSP is, nothing that waits is overwritten.             *)
THEOREM NeverOverwritten == AudioSpec => [](filling => idx \notin Given)
<1>1. RingIInv => (filling => idx \notin Given)
  BY NextIsFree, AudioAssumption DEF RingIInv, AudioTypeOK, RingInOrder
<1>2. QED
  BY RingInductive, <1>1, PTL

-----------------------------------------------------------------------------
(* The refinement.                                                         *)
Waiting == [j \in 1 .. Len(chain) |-> data[chain[j]]]

(* What waits is a sequence of packets, one for each buffer of the DSP.    *)
LEMMA WaitingIsSeq ==
  ASSUME RingIInv
  PROVE  /\ Waiting \in Seq(Sound \cup {Silence})
         /\ Len(Waiting) = Len(chain)
         /\ DOMAIN Waiting = 1 .. Len(chain)
<1>1. \A j \in 1 .. Len(chain) : data[chain[j]] \in Sound \cup {Silence}
  BY DEF RingIInv, AudioTypeOK
<1>2. Len(chain) \in Nat
  BY DEF RingIInv, AudioTypeOK
<1>3. QED
  BY <1>1, <1>2 DEF Waiting

(* The tail of a sequence, element by element.                             *)
LEMMA TailOfSeq ==
  ASSUME NEW S, NEW q \in Seq(S), q # <<>>
  PROVE  Tail(q) = [j \in 1 .. Len(q) - 1 |-> q[j + 1]]
<1>1. Tail(q) \in Seq(S) /\ Len(Tail(q)) = Len(q) - 1
  BY HeadTailProperties
<1>2. \A j \in 1 .. Len(q) - 1 : Tail(q)[j] = q[j + 1]
  BY <1>1, HeadTailProperties
<1>3. Tail(q) \in [1 .. Len(q) - 1 -> S]
  BY <1>1, LenProperties
<1>4. QED
  BY <1>2, <1>3

(* The first states are the queue's.                                       *)
LEMMA InitRefines == AudioInit => AQ!Init
  BY DEF AudioInit, AQ!Init

(* Each step is one of the queue's, or nothing the queue shows.            *)
LEMMA StepRefines ==
  RingIInv /\ [AudioNext]_audioVars => [AQ!Next]_<<Waiting, heard, answer>>
<1> SUFFICES ASSUME RingIInv, [AudioNext]_audioVars
             PROVE  AQ!Next \/ UNCHANGED <<Waiting, heard, answer>>
  OBVIOUS
<1> USE AudioAssumption DEF device, slots
<1>1. CASE Open
  <2>1. chain = <<>> /\ chain' = <<>> /\ UNCHANGED <<heard, answer>>
    BY <1>1 DEF Open, OpusFails, NdspFails, AllocFails, Opened
  <2>2. Waiting' = Waiting
    BY <2>1 DEF Waiting
  <2>3. QED
    BY <2>1, <2>2
<1>2. CASE Lost
  <2>1. Waiting' = Waiting
    BY <1>2 DEF Lost, Waiting
  <2>2. AQ!Lose
    BY <1>2, <2>1 DEF Lost, AQ!Lose, Waiting
  <2>3. QED
    BY <2>2 DEF AQ!Next
<1>3. CASE Full
  <2>1. Waiting' = Waiting
    BY <1>3 DEF Full, Waiting
  <2>2. idx \in Given
    BY <1>3 DEF Full, RingIInv, RingInOrder, AudioTypeOK, Playable
  <2>3. Len(Waiting) = Slots
    BY <2>2, NextIsFree, WaitingIsSeq
  <2>4. AQ!Refuse
    BY <1>3, <2>1, <2>3 DEF Full, AQ!Refuse, Waiting
  <2>5. QED
    BY <2>4 DEF AQ!Next
<1>4. ASSUME NEW s \in Sound, Fill(s) PROVE UNCHANGED <<Waiting, heard, answer>>
  <2>1. idx \notin Given
    BY <1>4 DEF Fill, RingIInv, RingInOrder, AudioTypeOK, Playable
  <2>2. \A j \in 1 .. Len(chain) : chain[j] # idx /\ chain[j] \in Ring
    BY <2>1 DEF Given, RingIInv, AudioTypeOK
  <2>3. \A j \in 1 .. Len(chain) : data'[chain[j]] = data[chain[j]]
    BY <1>4, <2>2 DEF Fill, RingIInv, AudioTypeOK
  <2>4. chain' = chain /\ heard' = heard /\ answer' = answer
    BY <1>4 DEF Fill
  <2>5. Waiting' = Waiting
    BY <2>3, <2>4 DEF Waiting
  <2>6. QED
    BY <2>4, <2>5
<1>5. CASE Add
  <2>1. /\ Len(chain) < Slots /\ data[idx] \in Sound
        /\ chain \in Seq(Ring) /\ idx \in Ring
    BY <1>5 DEF Add, RingIInv, AudioTypeOK, RingInOrder
  <2>2. /\ Len(chain') = Len(chain) + 1 /\ chain'[Len(chain) + 1] = idx
        /\ \A j \in 1 .. Len(chain) : chain'[j] = chain[j]
    BY <1>5, <2>1 DEF Add
  <2>3. data' = data /\ heard' = heard /\ answer' = "taken"
    BY <1>5 DEF Add
  <2>4. Waiting' = Append(Waiting, data[idx])
    <3>1. Waiting' = [j \in 1 .. Len(chain) + 1 |-> data[chain'[j]]]
      BY <2>2, <2>3 DEF Waiting
    <3>2. Append(Waiting, data[idx])
            = [j \in 1 .. Len(chain) + 1 |->
                 IF j = Len(chain) + 1 THEN data[idx] ELSE Waiting[j]]
      BY WaitingIsSeq, <2>1
    <3>3. \A j \in 1 .. Len(chain) + 1 :
            data[chain'[j]] = IF j = Len(chain) + 1 THEN data[idx] ELSE Waiting[j]
      BY <2>1, <2>2 DEF Waiting
    <3>4. QED
      BY <3>1, <3>2, <3>3
  <2>5. AQ!Take(data[idx])
    <3>1. Len(Waiting) < Slots
      BY <2>1, WaitingIsSeq
    <3>2. AQ!Take(data[idx])
            <=> /\ Len(Waiting) < Slots
                /\ Waiting' = Append(Waiting, data[idx]) /\ answer' = "taken"
                /\ UNCHANGED heard
      BY Zenon DEF AQ!Take, Waiting
    <3>3. QED
      BY <2>3, <2>4, <3>1, <3>2
  <2>6. \E s \in Sound : AQ!Take(s)
    BY <2>1, <2>5, Zenon DEF AQ!Take
  <2>7. QED
    BY <2>6, Zenon DEF AQ!Next
<1>6. CASE DspEnds
  <2>1. /\ chain \in Seq(Ring) /\ chain # <<>>
        /\ Len(chain) \in Nat \ {0} /\ Head(chain) = chain[1]
    BY <1>6 DEF DspEnds, RingIInv, AudioTypeOK
  <2>2. /\ Len(chain') = Len(chain) - 1
        /\ \A j \in 1 .. Len(chain') : chain'[j] = chain[j + 1]
    BY <1>6, <2>1 DEF DspEnds
  <2>3. data' = data /\ answer' = answer /\ heard' = data[chain[1]]
    BY <1>6, <2>1 DEF DspEnds
  <2>4. Waiting # <<>> /\ Head(Waiting) = Waiting[1] /\ Waiting[1] = data[chain[1]]
    <3>1. 1 \in 1 .. Len(chain)
      BY <2>1
    <3>2. QED
      BY <2>1, <3>1, WaitingIsSeq DEF Waiting
  <2>5. Waiting' = Tail(Waiting)
    <3>1. Waiting' = [j \in 1 .. Len(chain) - 1 |-> data[chain[j + 1]]]
      BY <2>2, <2>3 DEF Waiting
    <3>2. Tail(Waiting) = [j \in 1 .. Len(chain) - 1 |-> Waiting[j + 1]]
      BY WaitingIsSeq, <2>4, TailOfSeq
    <3>3. \A j \in 1 .. Len(chain) - 1 : Waiting[j + 1] = data[chain[j + 1]]
      BY <2>1 DEF Waiting
    <3>4. QED
      BY <3>1, <3>2, <3>3
  <2>6. AQ!Hear
    BY <2>3, <2>4, <2>5 DEF AQ!Hear, Waiting
  <2>7. QED
    BY <2>6 DEF AQ!Next
<1>7. CASE DspStarts
  <2>1. UNCHANGED <<data, chain, heard, answer>>
    BY <1>7 DEF DspStarts
  <2>2. Waiting' = Waiting
    BY <2>1 DEF Waiting
  <2>3. QED
    BY <2>1, <2>2
<1>8. CASE Cleanup
  <2>1. UNCHANGED <<data, heard, answer>> /\ (chain' = <<>> \/ chain' = chain)
    BY <1>8 DEF Cleanup
  <2>2. CASE chain' = chain
    <3>1. Waiting' = Waiting
      BY <2>1, <2>2 DEF Waiting
    <3>2. QED
      BY <2>1, <3>1
  <2>3. CASE chain' = <<>>
    <3>1. Waiting' = <<>>
      BY <2>3 DEF Waiting
    <3>2. AQ!Close
      BY <2>1, <3>1 DEF AQ!Close, Waiting
    <3>3. QED
      BY <3>2 DEF AQ!Next
  <2>4. QED
    BY <2>1, <2>2, <2>3
<1>9. CASE UNCHANGED audioVars
  <2>1. UNCHANGED <<data, chain, heard, answer>>
    BY <1>9 DEF audioVars
  <2>2. Waiting' = Waiting
    BY <2>1 DEF Waiting
  <2>3. QED
    BY <2>1, <2>2
<1>10. QED
  BY <1>1, <1>2, <1>3, <1>4, <1>5, <1>6, <1>7, <1>8, <1>9 DEF AudioNext, Play, Dsp

(* The ring is a bounded queue, whatever the number of its buffers.        *)
THEOREM RingRefinement == AudioSpec => ImplementsAudioQueue
<1>1. AQ!Spec <=> AQ!Init /\ [][AQ!Next]_<<Waiting, heard, answer>>
  BY DEF AQ!Spec, Waiting
<1>2. QED
  BY RingInductive, InitRefines, StepRefines, <1>1, PTL DEF AudioSpec, ImplementsAudioQueue

-----------------------------------------------------------------------------
(* The objects of a stream.                                                *)

Kept == {"mvd", "screen", "limit", "helper", "opus"}
Up == {"audio", "input", "stream", "stopAudio", "stopVideo"}  (* a decoder exists *)
Sounding == {"input", "stream", "stopAudio"}                  (* an audio output does *)

Types ==
  /\ old \in BOOLEAN /\ config \in AnyConfig
  /\ streams \in Nat /\ (pc # "menu" => streams # 0)
  /\ closed \in BOOLEAN /\ failing \in BOOLEAN
  /\ top \in [now : {"BGR8", "RGB565"}, menu : {"BGR8", "RGB565"}]
  /\ limit \in [now : {"own", "80"}, saved : {"none", "own", "80"}]
  /\ mvd \in BOOLEAN /\ opus \in BOOLEAN /\ ndsp \in BOOLEAN /\ buffer \in BOOLEAN

(* What of the decoder there is belongs to the decoder of this stream, or  *)
(* is lost.                                                                *)
MvdInv == mvd => "mvd" \in lost \/ (Video(config) = "mvd" /\ pc \in Up)
ScreenInv ==
  /\ top.menu = "RGB565" \/ "screen" \in lost
  /\ pc # "menu" => \/ top.now = "RGB565" \/ "screen" \in lost
                    \/ Video(config) = "mvd" /\ pc \in Up /\ px = 4
LimitInv ==
  /\ limit.saved = "80" => "limit" \in lost
  /\ \/ limit.now = "own" \/ "limit" \in lost
     \/ Video(config) = "potato" /\ limit.saved = "own" /\ pc \in Up \cup {"joining"}
HelperInv ==
  \/ helpers = {} \/ "helper" \in lost
  \/ Video(config) = "potato" /\ pc \in Up /\ helpers = {core1} /\ core1 # 0
PixelInv ==
  /\ px # 0 => pc \in Up
  /\ pc \in {"audio", "input", "stream"} => px = written \/ "screen" \in lost

(* The same for the audio output.                                          *)
OutputInv ==
  /\ opus => "opus" \in lost \/ (pc \in Sounding /\ ~config.localaudio)
  /\ ndsp \/ buffer => pc \in Sounding /\ ~config.localaudio

(* A sensor that is on belongs to the camera, to a stream that is not      *)
(* closed, or is lost; a stream ends closed unless it failed.              *)
Camera == IF config.gyroCamera THEN {"gyro"} ELSE {}
SensorInv ==
  /\ sensors \subseteq Sensors
  /\ ~failing /\ pc \in {"stopAudio", "stopVideo", "joining", "teardown"} => closed
  /\ pc = "menu" => sensors \subseteq lost
  /\ pc # "menu" /\ ~config.motion => sensors \subseteq lost \cup Camera
  /\ pc # "menu" /\ config.motion /\ closed => sensors \subseteq lost
  /\ pc # "menu" /\ ~closed => Camera \subseteq sensors

(* Requests about the sensors are of streams that had motion controls.     *)
RequestInv ==
  \A m \in posted \cup enabled :
    m[2] \in 0 .. streams /\ (pc # "menu" /\ ~config.motion => m[2] # streams)

(* What streams leave in the tables.                                       *)
CapsInv ==
  /\ caps \in [Decoders \cup {"audio"} -> SUBSET Flags]
  /\ caps["mvd"] \subseteq {"direct"} /\ caps["mock"] \subseteq {"direct"}
  /\ {"invalidation"} \subseteq caps["potato"]
  /\ caps["potato"] \subseteq {"invalidation", "direct", "slices4"}
  /\ {"slow"} \subseteq caps["audio"] /\ caps["audio"] \subseteq {"slow", "direct", "long"}
  /\ pc = "video" => /\ caps[Video(config)] = VideoWanted(config)
                     /\ caps["audio"] = AudioWanted(config)

IInv ==
  /\ Types /\ MvdInv /\ ScreenInv /\ LimitInv /\ HelperInv /\ PixelInv
  /\ OutputInv /\ SensorInv /\ RequestInv /\ CapsInv

LEMMA InitIInv == Init => IInv
<1> SUFFICES ASSUME Init PROVE IInv
  OBVIOUS
<1>1. config \in AnyConfig
  BY MediaAssumption DEF Init
<1>2. Types
  BY <1>1 DEF Types, Init, AudioInit
<1>3. MvdInv /\ ScreenInv /\ LimitInv /\ HelperInv /\ PixelInv
  BY DEF Init, MvdInv, ScreenInv, LimitInv, HelperInv, PixelInv
<1>4. OutputInv /\ SensorInv /\ RequestInv
  BY DEF Init, AudioInit, OutputInv, SensorInv, RequestInv
<1>5. CapsInv
  BY DEF Init, CapsInv, Decoders, Flags
<1>6. QED
  BY <1>2, <1>3, <1>4, <1>5 DEF IInv

(* Playing, and the DSP, touch the buffers of the ring only.               *)
Playing == AudioPlays \/ DspPlays
LEMMA PlayingKeeps ==
  ASSUME Playing
  PROVE  UNCHANGED <<mainVars, pc, videoVars, sensorVars, lost, device>>
<1>1. CASE AudioPlays
  BY <1>1 DEF AudioPlays, Play, Lost, Full, Fill, Add
<1>2. CASE DspPlays
  BY <1>2 DEF DspPlays, Dsp, DspStarts, DspEnds
<1>3. QED
  BY <1>1, <1>2 DEF Playing

(* What is lost for good stays so.                                         *)
LEMMA LostStays ==
  ASSUME [Next]_vars, NEW x \in Kept, x \in lost
  PROVE  x \in lost'
<1>1. x \notin Sensors
  BY DEF Kept, Sensors
<1>2. ASSUME NEW c \in Configs, Start(c) PROVE x \in lost'
  BY <1>2 DEF Start
<1>3. CASE SetUp
  BY <1>3 DEF SetUp, SetUpMock, SetUpSoft, MvdRefuses, SetUpMvd, SetUpPotato
<1>4. CASE AudioStarts \/ Connects \/ LoopEnds \/ AudioStops \/ VideoStops
  BY <1>4 DEF AudioStarts, Connects, LoopEnds, AudioStops, VideoStops
<1>5. CASE TearDown
  BY <1>1, <1>5 DEF TearDown
<1>6. CASE Playing
  BY <1>6, PlayingKeeps
<1>7. CASE Terminate
  BY <1>1, <1>7 DEF Terminate, TurnOff
<1>8. ASSUME NEW s \in Sensors, SensorOn(s) \/ SensorOff(s) PROVE x \in lost'
  BY <1>1, <1>8 DEF SensorOn, SensorOff, TurnOff
<1>9. ASSUME NEW m \in posted, Deliver(m) PROVE x \in lost'
  BY <1>9 DEF Deliver
<1>10. CASE UNCHANGED vars
  BY <1>10 DEF vars
<1>11. QED
  BY <1>2, <1>3, <1>4, <1>5, <1>6, <1>7, <1>8, <1>9, <1>10 DEF Next, MainSteps, Playing

-----------------------------------------------------------------------------
(* The decoder.                                                            *)
VideoInv == MvdInv /\ ScreenInv /\ LimitInv /\ HelperInv /\ PixelInv

(* Between the set-up of the decoder and its end nothing of it changes.    *)
LEMMA UpKeeps ==
  ASSUME IInv, [Next]_vars, UNCHANGED <<old, config, videoVars>>,
         \/ pc' = pc
         \/ pc \in {"audio", "input", "stream"} /\ pc' \in Up
         \/ pc = "stopAudio" /\ pc' = "stopVideo"
  PROVE  VideoInv'
<1> USE DEF IInv, videoVars, VideoInv
<1>1. \A x \in Kept : x \in lost => x \in lost'
  BY LostStays
<1>2. Video(config)' = Video(config)
  BY DEF Video
<1>3. pc \in Up => pc' \in Up
  BY DEF Up
<1>4. MvdInv'
  BY <1>1, <1>2, <1>3 DEF MvdInv, Kept
<1>5. ScreenInv'
  <2>1. pc' # "menu" => pc # "menu"
    OBVIOUS
  <2>2. QED
    BY <1>1, <1>2, <1>3, <2>1 DEF ScreenInv, Kept
<1>6. LimitInv'
  BY <1>1, <1>2, <1>3 DEF LimitInv, Kept, Up
<1>7. HelperInv'
  BY <1>1, <1>2, <1>3 DEF HelperInv, Kept
<1>8. PixelInv'
  BY <1>1, <1>3 DEF PixelInv, Kept, Up
<1>9. QED
  BY <1>4, <1>5, <1>6, <1>7, <1>8

(* A constructor returns or throws, from a state in which whatever is held *)
(* is lost.                                                                *)
LEMMA SetUpStep ==
  ASSUME IInv, [Next]_vars, SetUp
  PROVE  VideoInv'
<1> USE DEF IInv
<1>1. \A x \in Kept : x \in lost => x \in lost'
  BY LostStays
<1>2. Video(config)' = Video(config) /\ pc = "video" /\ streams \in Nat
  BY DEF SetUp, Video, Types
<1>3. pc \notin Up \cup {"menu", "joining"} /\ px = 0
  BY <1>2 DEF Up, PixelInv
<1>4. /\ mvd => "mvd" \in lost /\ "mvd" \in lost'
      /\ top.menu = "RGB565" \/ ("screen" \in lost /\ "screen" \in lost')
      /\ top.now = "RGB565" \/ ("screen" \in lost /\ "screen" \in lost')
      /\ limit.now = "own" \/ ("limit" \in lost /\ "limit" \in lost')
      /\ helpers = {} \/ ("helper" \in lost /\ "helper" \in lost')
  BY <1>1, <1>3 DEF MvdInv, ScreenInv, LimitInv, HelperInv, Kept
<1> USE <1>2, <1>4 DEF VideoInv, MvdInv, ScreenInv, LimitInv, HelperInv, PixelInv, Up, Bytes
<1>5. CASE SetUpMock
  BY <1>3, <1>5 DEF SetUpMock
<1>6. CASE SetUpSoft
  BY <1>3, <1>6 DEF SetUpSoft
<1>7. CASE MvdRefuses
  <2>1. pc' = "teardown" /\ UNCHANGED <<top, px, written, limit, helpers, core1, lost>>
    BY <1>7 DEF MvdRefuses
  <2>2. mvd' = mvd \/ mvd' = FALSE
    BY <1>7 DEF MvdRefuses
  <2>3. MvdInv'
    BY <2>1, <2>2
  <2>4. QED
    BY <1>3, <2>1, <2>3
<1>8. CASE SetUpMvd
  <2>1. PICK color \in {FALSE, config.color24} :
          /\ top' = IF color THEN [top EXCEPT !.now = "BGR8"] ELSE top
          /\ \/ /\ px' = (IF color THEN 4 ELSE Bytes(top.now))
                /\ written' = (IF color THEN 4 ELSE 2) /\ pc' = "audio"
                /\ UNCHANGED <<failing, lost>>
             \/ /\ failing' = TRUE /\ pc' = "teardown"
                /\ lost' = lost \cup {"mvd"} \cup (IF color THEN {"screen"} ELSE {})
                /\ UNCHANGED <<px, written>>
    BY <1>8 DEF SetUpMvd
  <2>2. top'.menu = top.menu /\ top'.now = IF color THEN "BGR8" ELSE top.now
    BY <2>1 DEF Types
  <2>3. UNCHANGED <<limit, helpers, core1>> /\ Video(config) = "mvd"
    BY <1>8 DEF SetUpMvd
  <2>4. CASE pc' = "audio"
    BY <1>3, <2>1, <2>2, <2>3, <2>4
  <2>5. CASE pc' = "teardown"
    BY <1>3, <2>1, <2>2, <2>3, <2>5
  <2>6. QED
    BY <2>1, <2>4, <2>5
<1>9. CASE SetUpPotato
  <2>1. PICK helped \in {FALSE, SlicesOnCore1(config)} :
          /\ helpers' = IF helped THEN helpers \cup {streams} ELSE helpers
          /\ core1' \in IF helped THEN {streams}
                        ELSE {core1} \cup (IF SlicesOnCore1(config) THEN {0} ELSE {})
          /\ \/ px' = Bytes(top.now) /\ written' = px' /\ pc' = "audio"
                /\ UNCHANGED <<failing, lost>>
             \/ /\ failing' = TRUE /\ pc' = "teardown"
                /\ lost' = lost \cup (IF SlicesOnCore1(config) THEN {"limit"} ELSE {})
                                \cup (IF helped THEN {"helper"} ELSE {})
                /\ UNCHANGED <<px, written>>
    BY <1>9 DEF SetUpPotato
  <2>2. UNCHANGED <<top, mvd>> /\ Video(config) = "potato"
    BY <1>9 DEF SetUpPotato
  <2>3. limit' = IF SlicesOnCore1(config) THEN [now |-> "80", saved |-> limit.now]
                 ELSE [limit EXCEPT !.saved = "none"]
    BY <1>9 DEF SetUpPotato
  <2>4. IF SlicesOnCore1(config) THEN limit'.now = "80" /\ limit'.saved = limit.now
        ELSE limit'.now = limit.now /\ limit'.saved = "none"
    BY <2>3 DEF Types
  <2>5. MvdInv' /\ ScreenInv' /\ PixelInv'
    BY <1>3, <2>1, <2>2
  <2>6. LimitInv'
    BY <1>3, <2>1, <2>2, <2>4
  <2>7. HelperInv'
    <3>1. streams # 0
      BY <1>3 DEF Types
    <3>2. CASE helped /\ helpers = {}
      BY <1>3, <2>1, <2>2, <3>1, <3>2
    <3>3. CASE helped /\ helpers # {}
      BY <3>3
    <3>4. CASE ~helped
      BY <2>1, <3>4
    <3>5. QED
      BY <3>2, <3>3, <3>4
  <2>8. QED
    BY <2>5, <2>6, <2>7
<1>10. QED
  BY <1>5, <1>6, <1>7, <1>8, <1>9 DEF SetUp

(* The destructors, with the helper that is joined.                        *)
LEMMA StopStep ==
  ASSUME IInv, [Next]_vars, VideoStops
  PROVE  VideoInv'
<1> USE DEF IInv
<1>1. \A x \in Kept : x \in lost => x \in lost'
  BY LostStays
<1>2. /\ Video(config)' = Video(config) /\ pc = "stopVideo" /\ lost' = lost
      /\ px' = 0 /\ written' = 0
      /\ pc' \in {"teardown", "joining"}
  BY DEF VideoStops, Video, mainVars, StopMvd, StopPotato, Core1Stop, StopOther
<1>3. PixelInv'
  BY <1>2 DEF PixelInv
<1>4. CASE StopMvd
  <2>1. Video(config) = "mvd" /\ mvd' = FALSE /\ UNCHANGED <<limit, helpers, core1>>
        /\ pc' = "teardown"
    BY <1>4 DEF StopMvd
  <2>2. top'.menu = top.menu /\ top'.now = IF px = 4 THEN "RGB565" ELSE top.now
    BY <1>4 DEF StopMvd, Types
  <2>3. ScreenInv'
    BY <1>2, <2>1, <2>2 DEF ScreenInv
  <2>4. QED
    BY <1>2, <1>3, <2>1, <2>3 DEF VideoInv, MvdInv, LimitInv, HelperInv, Up
<1>5. CASE StopPotato
  <2>1. Video(config) = "potato" /\ UNCHANGED <<top, mvd>> /\ Core1Stop
    BY <1>5 DEF StopPotato
  <2>2. MvdInv' /\ ScreenInv'
    BY <1>2, <2>1 DEF MvdInv, ScreenInv, Up
  <2>3. CASE pc' = "joining"
    <3>1. core1 # 0 /\ \E t \in helpers : t # core1
      BY <2>1, <2>3 DEF Core1Stop
    <3>2. "helper" \in lost
      BY <3>1 DEF HelperInv
    <3>3. limit' = limit
      BY <1>5, <2>3 DEF StopPotato
    <3>4. QED
      BY <1>2, <1>3, <2>1, <2>2, <2>3, <3>2, <3>3 DEF VideoInv, LimitInv, HelperInv
  <2>4. CASE pc' = "teardown"
    <3>1. LimitInv'
      <4>1. /\ limit'.now = IF limit.saved = "none" THEN limit.now ELSE limit.saved
            /\ limit'.saved = "none"
        BY <1>5, <2>4 DEF StopPotato
      <4>2. limit.saved = "80" \/ limit.saved = "own" \/ limit.saved = "none"
        BY DEF Types
      <4>3. limit.saved = "80" => "limit" \in lost
        BY DEF LimitInv
      <4>4. limit.saved = "none" => limit.now = "own" \/ "limit" \in lost
        BY DEF LimitInv
      <4>5. QED
        BY <1>2, <4>1, <4>2, <4>3, <4>4 DEF LimitInv
    <3>2. HelperInv'
      <4>1. CASE core1 = 0
        BY <1>2, <2>1, <4>1 DEF Core1Stop, HelperInv
      <4>2. CASE core1 # 0
        <5>1. helpers' = helpers \ {core1}
          BY <2>1, <2>4, <4>2 DEF Core1Stop
        <5>2. QED
          BY <1>2, <5>1 DEF HelperInv
      <4>3. QED
        BY <4>1, <4>2
    <3>3. QED
      BY <1>3, <2>2, <3>1, <3>2 DEF VideoInv
  <2>5. QED
    BY <1>2, <2>3, <2>4
<1>6. CASE StopOther
  BY <1>2, <1>3, <1>6 DEF StopOther, VideoInv, MvdInv, ScreenInv, LimitInv, HelperInv
<1>7. QED
  BY <1>4, <1>5, <1>6 DEF VideoStops

LEMMA VideoStep == IInv /\ [Next]_vars => VideoInv'
<1> SUFFICES ASSUME IInv, [Next]_vars PROVE VideoInv'
  OBVIOUS
<1>1. ASSUME NEW c \in Configs, Start(c) PROVE VideoInv'
  <2>1. /\ pc = "menu" /\ pc' = "video" /\ lost' = lost
        /\ UNCHANGED <<px, written, mvd, limit, helpers, core1>>
    BY <1>1 DEF Start
  <2>2. top'.now = top.menu /\ top'.menu = top.menu
    BY <1>1 DEF Start, IInv, Types
  <2>3. QED
    BY <2>1, <2>2 DEF IInv, VideoInv, MvdInv, ScreenInv, LimitInv, HelperInv, PixelInv, Up
<1>2. CASE SetUp
  BY <1>2, SetUpStep
<1>3. CASE VideoStops
  BY <1>3, StopStep
<1>4. CASE TearDown
  <2>1. /\ pc = "teardown" /\ pc' = "menu"
        /\ UNCHANGED <<px, written, mvd, limit, helpers, core1>>
    BY <1>4 DEF TearDown
  <2>2. top'.menu = top.now
    BY <1>4 DEF TearDown
  <2>3. \A x \in Kept : x \in lost => x \in lost'
    BY LostStays
  <2>4. QED
    BY <2>1, <2>2, <2>3
       DEF IInv, VideoInv, MvdInv, ScreenInv, LimitInv, HelperInv, PixelInv, Up, Kept
<1>5. CASE AudioStarts \/ Connects \/ LoopEnds \/ AudioStops
  <2>1. UNCHANGED <<old, config, videoVars>>
    BY <1>5 DEF AudioStarts, Connects, LoopEnds, AudioStops, mainVars
  <2>2. \/ pc \in {"audio", "input", "stream"} /\ pc' \in Up
        \/ pc = "stopAudio" /\ pc' = "stopVideo"
    BY <1>5 DEF AudioStarts, Connects, LoopEnds, AudioStops, Up
  <2>3. QED
    BY <2>1, <2>2, UpKeeps
<1>6. CASE Playing
  <2>1. UNCHANGED <<old, config, videoVars, pc>>
    BY <1>6, PlayingKeeps DEF mainVars
  <2>2. QED
    BY <2>1, UpKeeps
<1>7. CASE Terminate
  <2>1. UNCHANGED <<old, config, videoVars, pc>>
    BY <1>7 DEF Terminate
  <2>2. QED
    BY <2>1, UpKeeps
<1>8. ASSUME NEW s \in Sensors, SensorOn(s) \/ SensorOff(s) PROVE VideoInv'
  <2>1. UNCHANGED <<old, config, videoVars, pc>>
    BY <1>8 DEF SensorOn, SensorOff, mainVars
  <2>2. QED
    BY <2>1, UpKeeps
<1>9. ASSUME NEW m \in posted, Deliver(m) PROVE VideoInv'
  <2>1. UNCHANGED <<old, config, videoVars, pc>>
    BY <1>9 DEF Deliver, mainVars
  <2>2. QED
    BY <2>1, UpKeeps
<1>10. CASE UNCHANGED vars
  <2>1. UNCHANGED <<old, config, videoVars, pc>>
    BY <1>10 DEF vars, mainVars
  <2>2. QED
    BY <2>1, UpKeeps
<1>11. QED
  BY <1>1, <1>2, <1>3, <1>4, <1>5, <1>6, <1>7, <1>8, <1>9, <1>10
     DEF Next, MainSteps, Playing

-----------------------------------------------------------------------------
(* The types, the audio output, the sensors, the requests and the tables,  *)
(* action by action.                                                       *)
OtherInv == Types /\ OutputInv /\ SensorInv /\ RequestInv

(* What a stream starts with.                                              *)
LEMMA StartStep ==
  ASSUME IInv, NEW c \in Configs, Start(c)
  PROVE  OtherInv'
<1> USE DEF IInv, device
<1>1. /\ pc = "menu" /\ pc' = "video" /\ closed' = FALSE /\ failing' = FALSE
      /\ config' = c /\ c \in AnyConfig /\ streams' = streams + 1 /\ streams \in Nat
      /\ enabled' = {}
      /\ UNCHANGED <<old, lost, mvd, limit, posted, opus, ndsp, buffer>>
  BY MediaAssumption DEF Start, Types, audioVars
<1>2. Types'
  <2>1. top' \in [now : {"BGR8", "RGB565"}, menu : {"BGR8", "RGB565"}]
    BY DEF Start, Types
  <2>2. streams' \in Nat /\ streams' # 0
    BY <1>1
  <2>3. QED
    BY <1>1, <2>1, <2>2 DEF Types
<1>3. OutputInv'
  BY <1>1 DEF OutputInv, Sounding
<1>4. SensorInv'
  <2>1. sensors \subseteq lost /\ sensors \subseteq Sensors
    BY <1>1 DEF SensorInv
  <2>2. sensors' = sensors \cup Camera' /\ Camera' \subseteq Sensors
    BY <1>1 DEF Start, Camera, Sensors
  <2>3. QED
    BY <1>1, <2>1, <2>2 DEF SensorInv
<1>5. RequestInv'
  BY <1>1 DEF RequestInv
<1>6. QED
  BY <1>2, <1>3, <1>4, <1>5 DEF OtherInv

(* A stream fails while it is set up, or goes on.                          *)
LEMMA SetUpOther ==
  ASSUME IInv, SetUp
  PROVE  OtherInv'
<1> USE DEF IInv, device
<1>1. /\ pc = "video" /\ pc' \in {"audio", "teardown"} /\ (pc' = "teardown" => failing' = TRUE)
      /\ (pc' = "audio" => failing' = failing)
      /\ UNCHANGED <<old, config, streams, closed, sensorVars, opus, ndsp, buffer>>
  BY DEF SetUp, SetUpMock, SetUpSoft, MvdRefuses, SetUpMvd, SetUpPotato, audioVars
<1>2. Types'
  <2>1. top' \in [now : {"BGR8", "RGB565"}, menu : {"BGR8", "RGB565"}]
    BY DEF SetUp, SetUpMock, SetUpSoft, MvdRefuses, SetUpMvd, SetUpPotato, Types
  <2>2. limit' \in [now : {"own", "80"}, saved : {"none", "own", "80"}]
    <3>1. limit' \in {limit, [now |-> "80", saved |-> limit.now],
                      [limit EXCEPT !.saved = "none"]}
      BY DEF SetUp, SetUpMock, SetUpSoft, MvdRefuses, SetUpMvd, SetUpPotato
    <3>2. limit.now \in {"own", "80"}
      BY DEF Types
    <3>3. QED
      BY <3>1, <3>2 DEF Types
  <2>3. mvd' \in BOOLEAN
    BY DEF SetUp, SetUpMock, SetUpSoft, MvdRefuses, SetUpMvd, SetUpPotato, Types
  <2>4. failing' \in BOOLEAN
    BY <1>1 DEF Types
  <2>5. QED
    BY <1>1, <2>1, <2>2, <2>3, <2>4 DEF Types
<1>3. lost \subseteq lost'
  BY DEF SetUp, SetUpMock, SetUpSoft, MvdRefuses, SetUpMvd, SetUpPotato
<1>4. OutputInv'
  BY <1>1, <1>3 DEF OutputInv, Sounding
<1>5. SensorInv'
  BY <1>1, <1>3 DEF SensorInv, sensorVars, Camera
<1>6. RequestInv'
  BY <1>1 DEF RequestInv, sensorVars
<1>7. QED
  BY <1>2, <1>4, <1>5, <1>6 DEF OtherInv

(* The main thread between the set-up of the decoder and the menu.         *)
LEMMA MainOther ==
  ASSUME IInv, AudioStarts \/ Connects \/ LoopEnds \/ AudioStops \/ VideoStops
  PROVE  OtherInv'
<1> USE DEF IInv, device
<1>1. /\ pc # "menu" /\ pc' \notin {"menu", "video"} /\ lost \subseteq lost'
      /\ UNCHANGED <<old, config, streams, closed, sensorVars>>
  BY DEF AudioStarts, Connects, LoopEnds, AudioStops, VideoStops, mainVars, StopMvd,
     StopPotato, Core1Stop, StopOther
<1>2. RequestInv'
  BY <1>1 DEF RequestInv, sensorVars
<1>3. /\ failing' \in BOOLEAN
      /\ pc' \in {"stopAudio", "stopVideo", "joining", "teardown"} =>
           \/ failing'
           \/ pc = "stream" /\ closed
           \/ (pc \in {"stopAudio", "stopVideo"} /\ failing' = failing)
  <2> failing \in BOOLEAN
    BY DEF Types
  <2>1. CASE AudioStarts
    <3>1. \/ pc' = "input" /\ failing' = failing
          \/ failing' = TRUE
      BY <2>1 DEF AudioStarts
    <3>2. pc' = "input" => pc' \notin {"stopAudio", "stopVideo", "joining", "teardown"}
      OBVIOUS
    <3>3. CASE pc' = "input" /\ failing' = failing
      BY <3>2, <3>3
    <3>4. CASE failing' = TRUE
      BY <3>4
    <3>5. QED
      BY <3>1, <3>3, <3>4
  <2>2. CASE Connects
    <3>1. \/ pc' = "stream" /\ failing' = failing
          \/ failing' = TRUE
      BY <2>2 DEF Connects
    <3>2. pc' = "stream" => pc' \notin {"stopAudio", "stopVideo", "joining", "teardown"}
      OBVIOUS
    <3>3. CASE pc' = "stream" /\ failing' = failing
      BY <3>2, <3>3
    <3>4. CASE failing' = TRUE
      BY <3>4
    <3>5. QED
      BY <3>1, <3>3, <3>4
  <2>3. CASE LoopEnds
    BY <2>3 DEF LoopEnds, mainVars
  <2>4. CASE AudioStops
    BY <2>4 DEF AudioStops, mainVars
  <2>5. CASE VideoStops
    BY <2>5 DEF VideoStops, mainVars
  <2>6. QED
    BY <2>1, <2>2, <2>3, <2>4, <2>5
<1>4. SensorInv'
  BY <1>1, <1>3 DEF SensorInv, sensorVars, Camera
<1>5. CASE AudioStarts
  <2>1. /\ pc = "audio" /\ pc' \in {"input", "stopVideo"}
        /\ UNCHANGED <<top, limit, mvd>>
    BY <1>5 DEF AudioStarts, videoVars
  <2>2. /\ opus' \in BOOLEAN /\ ndsp' \in BOOLEAN /\ buffer' \in BOOLEAN
        /\ \/ pc' = "input" /\ ~config.localaudio
           \/ UNCHANGED <<opus, ndsp, buffer>> /\ config.localaudio
           \/ /\ opus' => "opus" \in lost'
              /\ ndsp' = ndsp \/ ndsp' = FALSE
              /\ buffer' = buffer \/ buffer' = FALSE
    <3>1. CASE config.localaudio /\ pc' = "input" /\ UNCHANGED audioVars
      BY <3>1 DEF audioVars, Types
    <3>2. CASE ~config.localaudio /\ pc' = "input" /\ Opened
      BY <3>2 DEF Opened
    <3>3. CASE /\ OpusFails \/ NdspFails \/ AllocFails
               /\ lost' = IF opus' THEN lost \cup {"opus"} ELSE lost
      BY <3>3 DEF OpusFails, NdspFails, AllocFails, Types
    <3>4. QED
      BY <1>5, <3>1, <3>2, <3>3 DEF AudioStarts
  <2>3. ~ndsp /\ ~buffer /\ (opus => "opus" \in lost)
    BY <2>1 DEF OutputInv, Sounding
  <2>4. OutputInv'
    BY <1>1, <2>1, <2>2, <2>3 DEF OutputInv, Sounding
  <2>5. Types'
    BY <1>1, <1>3, <2>1, <2>2 DEF Types
  <2>6. QED
    BY <1>2, <1>4, <2>4, <2>5 DEF OtherInv
<1>6. CASE Connects \/ LoopEnds
  <2>1. /\ pc \in Sounding /\ pc' \in Sounding
        /\ UNCHANGED <<top, limit, mvd, opus, ndsp, buffer>>
    BY <1>6 DEF Connects, LoopEnds, Sounding, videoVars, audioVars
  <2>2. OutputInv'
    BY <1>1, <2>1 DEF OutputInv
  <2>3. Types'
    BY <1>1, <1>3, <2>1 DEF Types
  <2>4. QED
    BY <1>2, <1>4, <2>2, <2>3 DEF OtherInv
<1>7. CASE AudioStops
  <2>1. /\ pc' = "stopVideo" /\ UNCHANGED <<top, limit, mvd, lost>>
    BY <1>7 DEF AudioStops, videoVars
  <2>2. \/ config.localaudio /\ UNCHANGED <<opus, ndsp, buffer>>
        \/ opus' = FALSE /\ ndsp' = FALSE /\ buffer' = FALSE
    BY <1>7 DEF AudioStops, Cleanup, audioVars
  <2>3. OutputInv'
    BY <1>1, <2>1, <2>2 DEF OutputInv, Sounding
  <2>4. Types'
    BY <1>1, <1>3, <2>1, <2>2 DEF Types
  <2>5. QED
    BY <1>2, <1>4, <2>3, <2>4 DEF OtherInv
<1>8. CASE VideoStops
  <2>1. pc = "stopVideo" /\ pc' \notin Sounding /\ UNCHANGED <<opus, ndsp, buffer>>
    BY <1>8 DEF VideoStops, audioVars, StopMvd, StopPotato, Core1Stop, StopOther, Sounding
  <2>2. OutputInv'
    BY <1>1, <2>1 DEF OutputInv, Sounding
  <2>3. top' \in [now : {"BGR8", "RGB565"}, menu : {"BGR8", "RGB565"}]
    BY <1>8 DEF VideoStops, StopMvd, StopPotato, StopOther, Types
  <2>4. limit' \in [now : {"own", "80"}, saved : {"none", "own", "80"}]
    BY <1>8 DEF VideoStops, StopMvd, StopPotato, StopOther, Types
  <2>5. mvd' \in BOOLEAN
    BY <1>8 DEF VideoStops, StopMvd, StopPotato, StopOther, Types
  <2>6. Types'
    BY <1>1, <1>3, <2>1, <2>3, <2>4, <2>5 DEF Types
  <2>7. QED
    BY <1>2, <1>4, <2>2, <2>6 DEF OtherInv
<1>9. QED
  BY <1>5, <1>6, <1>7, <1>8

(* Back to the menu.                                                       *)
LEMMA TearDownOther ==
  ASSUME IInv, TearDown
  PROVE  OtherInv'
<1> USE DEF IInv, device
<1>1. /\ pc = "teardown" /\ pc' = "menu" /\ enabled' = {}
      /\ sensors' = sensors \ Camera
      /\ UNCHANGED <<old, config, streams, closed, failing, limit, mvd, posted, opus,
                     ndsp, buffer>>
  BY DEF TearDown, mainVars, Camera, audioVars
<1>2. Types'
  BY <1>1 DEF Types, TearDown
<1>3. lost' = IF failing THEN (lost \ Sensors) \cup sensors' ELSE lost
  BY DEF TearDown
<1>4. OutputInv'
  <2>1. "opus" \in lost => "opus" \in lost'
    BY <1>3 DEF Sensors
  <2>2. QED
    BY <1>1, <2>1 DEF OutputInv, Sounding
<1>5. SensorInv'
  <2>1. CASE failing
    BY <1>1, <1>3, <2>1 DEF SensorInv
  <2>2. CASE ~failing
    <3>1. closed /\ lost' = lost
      BY <1>1, <1>3, <2>2 DEF SensorInv
    <3>2. sensors \ Camera \subseteq lost
      BY <1>1, <3>1 DEF SensorInv
    <3>3. QED
      BY <1>1, <3>1, <3>2 DEF SensorInv
  <2>3. QED
    BY <2>1, <2>2
<1>6. RequestInv'
  BY <1>1 DEF RequestInv
<1>7. QED
  BY <1>2, <1>4, <1>5, <1>6 DEF OtherInv

(* The host's control thread, the dispatcher and the end of the connection.*)
LEMMA ControlOther ==
  ASSUME IInv,
         \/ \E s \in Sensors : SensorOn(s) \/ SensorOff(s)
         \/ Terminate
         \/ \E m \in posted : Deliver(m)
  PROVE  OtherInv'
<1> USE DEF IInv, device
<1>1. /\ pc # "menu" /\ UNCHANGED <<pc, old, config, streams, failing, top, limit, mvd, opus,
                                    ndsp, buffer>>
  BY DEF SensorOn, SensorOff, Terminate, Deliver, Controlled, mainVars, videoVars, audioVars
<1>2. "opus" \in lost => "opus" \in lost'
  BY DEF SensorOn, SensorOff, Terminate, Deliver, TurnOff, Sensors
<1>3. OutputInv'
  BY <1>1, <1>2 DEF OutputInv
<1>4. ASSUME NEW s \in Sensors, SensorOn(s) PROVE OtherInv'
  <2>1. /\ config.motion /\ sensors' = sensors \cup {s}
        /\ posted' = posted \cup {<<s, streams>>} /\ enabled' = enabled
        /\ lost' = (IF closed THEN lost \cup {s} ELSE lost) /\ closed' = closed
    BY <1>4 DEF SensorOn, mainVars
  <2>2. Types'
    BY <1>1, <2>1 DEF Types
  <2>3. SensorInv'
    BY <1>1, <2>1 DEF SensorInv, Camera
  <2>4. RequestInv'
    <3>1. streams \in Nat
      BY DEF Types
    <3>2. QED
      BY <1>1, <2>1, <3>1 DEF RequestInv
  <2>5. QED
    BY <1>3, <2>2, <2>3, <2>4 DEF OtherInv
<1>5. ASSUME NEW s \in Sensors, SensorOff(s) PROVE OtherInv'
  <2>1. /\ config.motion /\ s \notin Camera /\ sensors' = sensors \ {s} /\ lost' = lost \ {s}
        /\ UNCHANGED <<closed, posted, enabled>>
    BY <1>5 DEF SensorOff, TurnOff, mainVars, Camera
  <2>2. QED
    BY <1>1, <1>3, <2>1 DEF OtherInv, Types, SensorInv, RequestInv, Camera
<1>6. CASE Terminate
  <2>1. /\ closed' = TRUE /\ UNCHANGED <<posted, enabled>>
        /\ sensors' = sensors \ (IF config.motion THEN Sensors ELSE {})
        /\ lost' = lost \ (IF config.motion THEN Sensors ELSE {})
    BY <1>6 DEF Terminate, TurnOff
  <2>2. Types' /\ RequestInv'
    BY <1>1, <2>1 DEF Types, RequestInv
  <2>3. SensorInv'
    BY <1>1, <2>1 DEF SensorInv, Camera
  <2>4. QED
    BY <1>3, <2>2, <2>3 DEF OtherInv
<1>7. ASSUME NEW m \in posted, Deliver(m) PROVE OtherInv'
  <2>1. /\ posted' = posted \ {m} /\ enabled' = enabled \cup {m}
        /\ UNCHANGED <<closed, sensors, lost>>
    BY <1>7 DEF Deliver, mainVars
  <2>2. QED
    BY <1>1, <1>3, <2>1 DEF OtherInv, Types, SensorInv, RequestInv, Camera
<1>8. QED
  BY <1>4, <1>5, <1>6, <1>7

LEMMA OtherStep == IInv /\ [Next]_vars => OtherInv'
<1> SUFFICES ASSUME IInv, [Next]_vars PROVE OtherInv'
  OBVIOUS
<1>1. ASSUME NEW c \in Configs, Start(c) PROVE OtherInv'
  BY <1>1, StartStep
<1>2. CASE SetUp
  BY <1>2, SetUpOther
<1>3. CASE AudioStarts \/ Connects \/ LoopEnds \/ AudioStops \/ VideoStops
  BY <1>3, MainOther
<1>4. CASE TearDown
  BY <1>4, TearDownOther
<1>5. CASE Playing \/ UNCHANGED vars
  <2>1. UNCHANGED <<mainVars, pc, videoVars, sensorVars, lost, device>>
    BY <1>5, PlayingKeeps DEF vars, audioVars
  <2>2. QED
    BY <2>1 DEF IInv, OtherInv, Types, OutputInv, SensorInv, RequestInv, Camera, mainVars,
       videoVars, sensorVars, device
<1>6. CASE \/ \E s \in Sensors : SensorOn(s) \/ SensorOff(s)
           \/ Terminate
           \/ \E m \in posted : Deliver(m)
  BY <1>6, ControlOther
<1>7. QED
  BY <1>1, <1>2, <1>3, <1>4, <1>5, <1>6 DEF Next, MainSteps, Playing

-----------------------------------------------------------------------------
(* The tables of callbacks.                                                *)

(* What stream() makes of any tables that streams can have left.           *)
LEMMA TablesFit ==
  ASSUME CapsInv, NEW c \in AnyConfig, old \in BOOLEAN
  PROVE  /\ VideoCaps(c) = VideoWanted(c)
         /\ AudioCaps(c) = AudioWanted(c)
         /\ VideoWanted(c) \in SUBSET Flags /\ AudioWanted(c) \in SUBSET Flags
<1>1. c.decoder \in {"hardware", "software", "off"}
  BY DEF AnyConfig
<1>2. AudioCaps(c) = AudioWanted(c)
  BY DEF AudioCaps, AudioWanted, With, CapsInv
<1>3. VideoCaps(c) = VideoWanted(c)
  <2>1. CASE Video(c) = "mvd"
    BY <2>1 DEF VideoCaps, VideoWanted, With, CapsInv
  <2>2. CASE Video(c) = "mock"
    BY <2>2 DEF VideoCaps, VideoWanted, With, CapsInv
  <2>3. CASE Video(c) = "soft"
    <3>1. c.decoder = "software" /\ ~old
      BY <1>1, <2>3 DEF Video
    <3>2. SoftCaps(c) = {"invalidation", "slices2"}
      BY <3>1 DEF SoftCaps
    <3>3. QED
      BY <2>3, <3>2 DEF VideoCaps, VideoWanted, With
  <2>4. CASE Video(c) = "potato"
    BY <2>4 DEF VideoCaps, VideoWanted, With, CapsInv, Slices
  <2>5. QED
    BY <1>1, <2>1, <2>2, <2>3, <2>4 DEF Video
<1>4. VideoWanted(c) \in SUBSET Flags /\ AudioWanted(c) \in SUBSET Flags
  BY DEF VideoWanted, AudioWanted, Flags
<1>5. QED
  BY <1>2, <1>3, <1>4

LEMMA CapsStep == IInv /\ [Next]_vars => CapsInv'
<1> SUFFICES ASSUME IInv, [Next]_vars PROVE CapsInv'
  OBVIOUS
<1>1. ASSUME NEW c \in Configs, Start(c) PROVE CapsInv'
  <2>1. c \in AnyConfig /\ old \in BOOLEAN /\ CapsInv
    BY MediaAssumption DEF IInv, Types
  <2>2. /\ VideoCaps(c) = VideoWanted(c) /\ AudioCaps(c) = AudioWanted(c)
        /\ VideoWanted(c) \in SUBSET Flags /\ AudioWanted(c) \in SUBSET Flags
    BY <2>1, TablesFit
  <2>3. /\ old' = old /\ config' = c
        /\ caps' = [t \in Decoders \cup {"audio"} |->
                      IF t = Video(c) THEN VideoWanted(c)
                      ELSE CASE t = "soft" -> SoftCaps(c)
                             [] t = "audio" -> AudioWanted(c)
                             [] OTHER -> caps[t]]
    BY <1>1, <2>2 DEF Start
  <2>4. Video(c) \in Decoders /\ c.decoder \in {"hardware", "software", "off"}
    BY <2>1 DEF Video, AnyConfig, Decoders
  <2>5. SoftCaps(c) \in SUBSET Flags
    BY <2>1 DEF SoftCaps, CapsInv, Flags, Decoders
  <2>6. caps' \in [Decoders \cup {"audio"} -> SUBSET Flags]
    BY <2>1, <2>2, <2>3, <2>5 DEF CapsInv
  <2>7. /\ caps'["mvd"] = IF Video(c) = "mvd" THEN VideoWanted(c) ELSE caps["mvd"]
        /\ caps'["mock"] = IF Video(c) = "mock" THEN VideoWanted(c) ELSE caps["mock"]
        /\ caps'["potato"] = IF Video(c) = "potato" THEN VideoWanted(c) ELSE caps["potato"]
        /\ caps'["audio"] = AudioWanted(c) /\ caps'[Video(c)] = VideoWanted(c)
    <3>1. caps'["mvd"] = IF Video(c) = "mvd" THEN VideoWanted(c) ELSE caps["mvd"]
      BY <2>3, <2>4 DEF Decoders
    <3>2. caps'["mock"] = IF Video(c) = "mock" THEN VideoWanted(c) ELSE caps["mock"]
      BY <2>3, <2>4 DEF Decoders
    <3>3. caps'["potato"] = IF Video(c) = "potato" THEN VideoWanted(c) ELSE caps["potato"]
      BY <2>3, <2>4 DEF Decoders
    <3>4. caps'["audio"] = AudioWanted(c)
      <4>1. Video(c) # "audio"
        BY <2>4 DEF Decoders
      <4>2. QED
        BY <2>3, <4>1
    <3>5. caps'[Video(c)] = VideoWanted(c)
      BY <2>3, <2>4
    <3>6. QED
      BY <3>1, <3>2, <3>3, <3>4, <3>5
  <2>8. /\ caps'["mvd"] \subseteq {"direct"} /\ caps'["mock"] \subseteq {"direct"}
        /\ {"invalidation"} \subseteq caps'["potato"]
        /\ caps'["potato"] \subseteq {"invalidation", "direct", "slices4"}
    BY <2>1, <2>7 DEF CapsInv, VideoWanted
  <2>9. {"slow"} \subseteq caps'["audio"] /\ caps'["audio"] \subseteq {"slow", "direct", "long"}
    BY <2>7 DEF AudioWanted
  <2>10. Video(config)' = Video(c) /\ VideoWanted(config)' = VideoWanted(c)
         /\ AudioWanted(config)' = AudioWanted(c)
    BY <2>3 DEF Video, VideoWanted, AudioWanted, SlicesOnCore1, Network2nd, Audio2nd
  <2>11. QED
    BY <2>3, <2>6, <2>7, <2>8, <2>9, <2>10 DEF CapsInv
<1>2. CASE ~\E c \in Configs : Start(c)
  <2>1. UNCHANGED <<old, config, caps>> /\ (pc' = "video" => pc = "video")
    <3>1. CASE SetUp
      BY <3>1 DEF SetUp, SetUpMock, SetUpSoft, MvdRefuses, SetUpMvd, SetUpPotato
    <3>2. CASE AudioStarts \/ Connects \/ LoopEnds \/ AudioStops \/ TearDown
      BY <3>2 DEF AudioStarts, Connects, LoopEnds, AudioStops, TearDown, mainVars
    <3>3. CASE VideoStops
      BY <3>3 DEF VideoStops, StopMvd, StopPotato, Core1Stop, StopOther, mainVars
    <3>4. CASE Playing
      BY <3>4, PlayingKeeps DEF mainVars
    <3>5. CASE Terminate
      BY <3>5 DEF Terminate
    <3>6. ASSUME NEW s \in Sensors, SensorOn(s) \/ SensorOff(s)
          PROVE  UNCHANGED <<old, config, caps>> /\ (pc' = "video" => pc = "video")
      BY <3>6 DEF SensorOn, SensorOff, mainVars
    <3>7. ASSUME NEW m \in posted, Deliver(m)
          PROVE  UNCHANGED <<old, config, caps>> /\ (pc' = "video" => pc = "video")
      BY <3>7 DEF Deliver, mainVars
    <3>8. CASE UNCHANGED vars
      BY <3>8 DEF vars, mainVars
    <3>9. QED
      BY <1>2, <3>1, <3>2, <3>3, <3>4, <3>5, <3>6, <3>7, <3>8 DEF Next, MainSteps, Playing
  <2>2. Video(config)' = Video(config) /\ VideoWanted(config)' = VideoWanted(config)
        /\ AudioWanted(config)' = AudioWanted(config)
    BY <2>1 DEF Video, VideoWanted, AudioWanted, SlicesOnCore1, Network2nd, Audio2nd
  <2>3. QED
    BY <2>1, <2>2 DEF IInv, CapsInv
<1>3. QED
  BY <1>1, <1>2

-----------------------------------------------------------------------------
(* What is held at any moment belongs to the stream that lasts or is lost. *)
THEOREM Inductive == Spec => []IInv
<1>1. IInv /\ [Next]_vars => IInv'
  BY VideoStep, OtherStep, CapsStep DEF IInv, VideoInv, OtherInv
<1>2. QED
  BY <1>1, InitIInv, PTL DEF Spec

(* stream() and the destructors it leads to give back the service, the     *)
(* screen, the limit of core 1, the helper, the audio output and the       *)
(* sensors, at whichever stage a stream fails.                             *)
THEOREM AllGivenBack == Spec => []GivenBack
<1>1. IInv => GivenBack
  <2> SUFFICES ASSUME IInv, pc = "menu"
               PROVE  Held \subseteq lost /\ px = 0 /\ ~ndsp /\ ~buffer
    BY DEF GivenBack
  <2>1. pc \notin Up \cup Sounding \cup {"joining"}
    BY DEF Up, Sounding
  <2>2. /\ mvd => "mvd" \in lost
        /\ top.menu = "RGB565" \/ "screen" \in lost
        /\ limit.now = "own" \/ "limit" \in lost
        /\ helpers = {} \/ "helper" \in lost
        /\ opus => "opus" \in lost
        /\ sensors \subseteq lost
    BY <2>1 DEF IInv, MvdInv, ScreenInv, LimitInv, HelperInv, OutputInv, SensorInv
  <2>3. px = 0 /\ ~ndsp /\ ~buffer
    BY <2>1 DEF IInv, PixelInv, OutputInv
  <2>4. QED
    BY <2>2, <2>3 DEF Held
<1>2. QED
  BY <1>1, Inductive, PTL

(* stream() sets each capability from the configuration alone, whatever    *)
(* streams before it left, and decoder and renderer agree on the pixels.   *)
THEOREM FitsConfig == Spec => []StreamFitsConfig
<1>1. IInv => StreamFitsConfig
  BY DEF IInv, CapsInv, PixelInv, StreamFitsConfig
<1>2. QED
  BY <1>1, Inductive, PTL

(* The gyroscope of the camera survives set_motion_event_state, and a host *)
(* without motion controls turns nothing on.                               *)
THEOREM SensorsFit == Spec => []SensorsFitConfig
<1>1. IInv => SensorsFitConfig
  <2> SUFFICES ASSUME IInv, pc = "stream", ~closed PROVE SensorsFitConfig
    BY DEF SensorsFitConfig
  <2>1. config.gyroCamera => "gyro" \in sensors
    BY DEF IInv, SensorInv, Camera
  <2>2. ~config.motion /\ "accel" \in sensors => "accel" \in lost
    BY DEF IInv, SensorInv, Camera
  <2>3. ~config.motion => \A m \in enabled : m[2] # streams
    BY DEF IInv, RequestInv
  <2>4. QED
    BY <2>1, <2>2, <2>3 DEF SensorsFitConfig
<1>2. QED
  BY <1>1, Inductive, PTL

-----------------------------------------------------------------------------
(* The audio output among the rest: the streams open, use and close it in  *)
(* the order the ring was proved for.                                      *)

(* An output that is closed has no buffers at the DSP.                     *)
QuietInv == ~ndsp => chain = <<>>

(* The ring is opened when nothing of it is in use.                        *)
LEMMA OpenedInTurn ==
  ASSUME IInv, RingIInv, QuietInv, AudioStarts
  PROVE  [Open]_audioVars /\ QuietInv'
<1>1. ~ndsp
  BY DEF IInv, OutputInv, AudioStarts, Sounding
<1>2. chain = <<>> /\ ~filling
  BY <1>1 DEF QuietInv, RingIInv, RingInOrder, Playable
<1>3. CASE UNCHANGED audioVars
  BY <1>2, <1>3 DEF QuietInv, audioVars, slots
<1>4. CASE Opened
  BY <1>2, <1>4 DEF Open, Opened, QuietInv
<1>5. CASE OpusFails \/ NdspFails \/ AllocFails
  <2>1. chain' = chain
    BY <1>5 DEF OpusFails, NdspFails, AllocFails, slots
  <2>2. QED
    BY <1>2, <1>5, <2>1 DEF Open, QuietInv
<1>6. QED
  BY <1>3, <1>4, <1>5 DEF AudioStarts

LEMMA RingStep ==
  ASSUME IInv, RingIInv, QuietInv, [Next]_vars
  PROVE  [AudioNext]_audioVars /\ QuietInv'
<1>1. CASE UNCHANGED audioVars
  BY <1>1 DEF QuietInv, audioVars, device, slots
<1>2. CASE AudioStarts
  BY <1>2, OpenedInTurn DEF AudioNext
<1>3. CASE Cleanup
  BY <1>3 DEF AudioNext, Cleanup, QuietInv
<1>4. CASE Play
  <2>1. UNCHANGED device
    BY <1>4 DEF Play, Lost, Full, Fill, Add
  <2>2. chain' = chain \/ filling
    BY <1>4 DEF Play, Lost, Full, Fill, Add, slots
  <2>3. filling => ndsp
    BY DEF RingIInv, RingInOrder, Playable
  <2>4. QED
    BY <1>4, <2>1, <2>2, <2>3 DEF AudioNext, QuietInv, device
<1>5. CASE Dsp
  <2>1. ndsp /\ UNCHANGED device
    BY <1>5 DEF Dsp, DspStarts, DspEnds
  <2>2. QED
    BY <1>5, <2>1 DEF AudioNext, QuietInv, device
<1>6. ASSUME NEW c \in Configs, Start(c) PROVE UNCHANGED audioVars
  BY <1>6 DEF Start
<1>7. CASE SetUp \/ Connects \/ LoopEnds \/ VideoStops \/ TearDown \/ Terminate
  BY <1>1, <1>7 DEF SetUp, Connects, LoopEnds, VideoStops, TearDown, Terminate
<1>8. ASSUME NEW x \in Sensors, SensorOn(x) \/ SensorOff(x) PROVE UNCHANGED audioVars
  BY <1>8 DEF SensorOn, SensorOff
<1>9. ASSUME NEW m \in posted, Deliver(m) PROVE UNCHANGED audioVars
  BY <1>9 DEF Deliver
<1>10. CASE AudioStops
  BY <1>1, <1>3, <1>10 DEF AudioStops
<1>11. CASE AudioPlays \/ DspPlays
  <2>1. Add => Play
    BY DEF Play
  <2>2. QED
    BY <1>4, <1>5, <1>11, <2>1 DEF AudioPlays, DspPlays
<1>12. CASE UNCHANGED vars
  BY <1>1, <1>12 DEF vars
<1>13. QED
  BY <1>1, <1>2, <1>6, <1>7, <1>8, <1>9, <1>10, <1>11, <1>12 DEF Next, MainSteps

(* Streams that follow one another, and fail where they may, use the ring  *)
(* as AudioSpec says: it is opened when nothing plays, and closed once.    *)
THEOREM StreamsUseTheRing == Spec => AudioSpec
<1>1. Init => AudioInit /\ QuietInv
  BY DEF Init, AudioInit, QuietInv
<1>2. RingIInv /\ [AudioNext]_audioVars => RingIInv'
  BY StepRingTypeOK, StepInOrder DEF RingIInv
<1>3. IInv /\ RingIInv /\ QuietInv /\ [Next]_vars => [AudioNext]_audioVars /\ QuietInv'
  BY RingStep
<1>4. QED
  BY <1>1, <1>2, <1>3, InitRing, Inductive, PTL DEF Spec, AudioSpec

(* What is played over all the streams of a program is a bounded queue     *)
(* each time: heard in order, as it was decoded, nothing overwritten.      *)
THEOREM StreamsPlayInOrder == Spec => ImplementsAudioQueue
BY StreamsUseTheRing, RingRefinement

-----------------------------------------------------------------------------
(* The types that IInv leaves open.                                        *)
Stages == {"menu", "video", "audio", "input", "stream", "stopAudio", "stopVideo",
           "joining", "teardown"}
Requests == Sensors \X (1 .. MaxStreams)
Widths == {0, 2, 3, 4}

ConsoleInv ==
  /\ config \in Configs /\ streams \in 0 .. MaxStreams /\ pc \in Stages
  /\ px \in Widths /\ written \in Widths
  /\ helpers \subseteq 1 .. MaxStreams /\ core1 \in 0 .. MaxStreams
  /\ lost \subseteq Things
AskedInv == posted \subseteq Requests /\ enabled \subseteq Requests

(* A stream that lasts has a number.                                       *)
LEMMA NumberOf ==
  ASSUME IInv, ConsoleInv, pc # "menu"
  PROVE  streams \in 1 .. MaxStreams
BY MediaAssumption DEF IInv, Types, ConsoleInv

LEMMA SetUpConsole ==
  ASSUME IInv, ConsoleInv, SetUp
  PROVE  ConsoleInv'
<1> USE DEF ConsoleInv, Things, Sensors
<1>1. streams \in 1 .. MaxStreams
  BY NumberOf DEF SetUp
<1>2. UNCHANGED <<config, streams>> /\ pc' \in Stages
  BY DEF SetUp, SetUpMock, SetUpSoft, MvdRefuses, SetUpMvd, SetUpPotato, Stages
<1>3. px' \in Widths /\ written' \in Widths
  BY DEF SetUp, SetUpMock, SetUpSoft, MvdRefuses, SetUpMvd, SetUpPotato, Widths, Bytes
<1>4. lost' \subseteq Things
  BY DEF SetUp, SetUpMock, SetUpSoft, MvdRefuses, SetUpMvd, SetUpPotato
<1>5. helpers' \subseteq 1 .. MaxStreams /\ core1' \in 0 .. MaxStreams
  <2>1. CASE SetUpPotato
    BY <1>1, <2>1, MediaAssumption DEF SetUpPotato
  <2>2. CASE UNCHANGED <<helpers, core1>>
    BY <2>2
  <2>3. QED
    BY <2>1, <2>2 DEF SetUp, SetUpMock, SetUpSoft, MvdRefuses, SetUpMvd
<1>6. QED
  BY <1>2, <1>3, <1>4, <1>5

LEMMA StopConsole ==
  ASSUME ConsoleInv, VideoStops
  PROVE  ConsoleInv'
<1>1. /\ UNCHANGED <<config, streams, lost>> /\ px' = 0 /\ written' = 0
      /\ pc' \in {"teardown", "joining"}
  BY DEF VideoStops, mainVars, StopMvd, StopPotato, StopOther, Core1Stop
<1>2. helpers' \subseteq helpers /\ core1' \in {core1, 0}
  BY DEF VideoStops, StopMvd, StopPotato, StopOther, Core1Stop
<1>3. 0 \in 0 .. MaxStreams
  BY MediaAssumption
<1>4. QED
  BY <1>1, <1>2, <1>3 DEF ConsoleInv, Stages, Widths

LEMMA ConsoleStep ==
  ASSUME IInv, ConsoleInv, [Next]_vars
  PROVE  ConsoleInv'
<1>1. ASSUME NEW c \in Configs, Start(c) PROVE ConsoleInv'
  <2>1. streams' \in 0 .. MaxStreams
    BY <1>1, MediaAssumption DEF Start, ConsoleInv
  <2>2. QED
    BY <1>1, <2>1 DEF Start, ConsoleInv, Stages
<1>2. CASE SetUp
  BY <1>2, SetUpConsole
<1>3. CASE VideoStops
  BY <1>3, StopConsole
<1>4. CASE AudioStarts \/ Connects \/ LoopEnds \/ AudioStops
  <2>1. UNCHANGED <<config, streams, videoVars>> /\ pc' \in Stages
    BY <1>4 DEF AudioStarts, Connects, LoopEnds, AudioStops, mainVars, Stages
  <2>2. lost' \subseteq lost \cup {"opus"}
    BY <1>4 DEF AudioStarts, Connects, LoopEnds, AudioStops
  <2>3. QED
    BY <2>1, <2>2 DEF ConsoleInv, Things, videoVars
<1>5. CASE TearDown
  <2>1. /\ UNCHANGED <<config, streams, px, written, helpers, core1>>
        /\ pc' = "menu" /\ lost' \subseteq lost \cup sensors
    BY <1>5 DEF TearDown, mainVars
  <2>2. sensors \subseteq Things
    BY DEF IInv, SensorInv, Things
  <2>3. QED
    BY <2>1, <2>2 DEF ConsoleInv, Stages
<1>6. ASSUME UNCHANGED <<config, streams, pc, videoVars>>, lost' \subseteq lost \cup Sensors
      PROVE  ConsoleInv'
  BY <1>6 DEF ConsoleInv, Things, videoVars
<1>7. CASE Playing \/ UNCHANGED vars
  BY <1>6, <1>7, PlayingKeeps DEF vars, mainVars
<1>8. CASE Terminate
  BY <1>6, <1>8 DEF Terminate, TurnOff
<1>9. ASSUME NEW x \in Sensors, SensorOn(x) \/ SensorOff(x) PROVE ConsoleInv'
  BY <1>6, <1>9 DEF SensorOn, SensorOff, TurnOff, mainVars
<1>10. ASSUME NEW m \in posted, Deliver(m) PROVE ConsoleInv'
  BY <1>6, <1>10 DEF Deliver, mainVars
<1>11. QED
  BY <1>1, <1>2, <1>3, <1>4, <1>5, <1>7, <1>8, <1>9, <1>10 DEF Next, MainSteps, Playing

LEMMA AskedStep ==
  ASSUME IInv, ConsoleInv, AskedInv, [Next]_vars
  PROVE  AskedInv'
<1>1. ASSUME NEW x \in Sensors, SensorOn(x) PROVE AskedInv'
  <2>1. streams \in 1 .. MaxStreams
    BY <1>1, NumberOf DEF SensorOn, Controlled
  <2>2. QED
    BY <1>1, <2>1 DEF SensorOn, AskedInv, Requests
<1>2. ASSUME NEW m \in posted, Deliver(m) PROVE AskedInv'
  BY <1>2 DEF Deliver, AskedInv
<1>3. CASE posted' = posted /\ enabled' \in {enabled, {}}
  BY <1>3 DEF AskedInv
<1>4. ASSUME NEW c \in Configs, Start(c) PROVE AskedInv'
  BY <1>3, <1>4 DEF Start
<1>5. CASE MainSteps \/ Terminate
  BY <1>3, <1>5 DEF MainSteps, SetUp, AudioStarts, Connects, LoopEnds, AudioStops, VideoStops,
     TearDown, Terminate, sensorVars
<1>6. ASSUME NEW x \in Sensors, SensorOff(x) PROVE AskedInv'
  BY <1>3, <1>6 DEF SensorOff
<1>7. CASE Playing \/ UNCHANGED vars
  BY <1>3, <1>7, PlayingKeeps DEF vars, sensorVars
<1>8. QED
  BY <1>1, <1>2, <1>4, <1>5, <1>6, <1>7 DEF Next, Playing

(* Everything a stream takes keeps its type over streams that follow one   *)
(* another, the ring of the audio output included.                         *)
THEOREM TypeCorrect == Spec => []TypeOK
<1>1. ASSUME Init PROVE ConsoleInv /\ AskedInv
  BY <1>1, MediaAssumption DEF Init, ConsoleInv, AskedInv, Stages, Widths
<1>2. IInv /\ ConsoleInv /\ [Next]_vars => ConsoleInv'
  BY ConsoleStep
<1>3. IInv /\ ConsoleInv /\ AskedInv /\ [Next]_vars => AskedInv'
  BY AskedStep
<1>4. ASSUME IInv, ConsoleInv, AskedInv, AudioTypeOK PROVE TypeOK
  <2>1. /\ old \in BOOLEAN /\ closed \in BOOLEAN /\ failing \in BOOLEAN /\ mvd \in BOOLEAN
        /\ top \in [now : {"BGR8", "RGB565"}, menu : {"BGR8", "RGB565"}]
        /\ limit \in [now : {"own", "80"}, saved : {"none", "own", "80"}]
    BY <1>4 DEF IInv, Types
  <2>2. caps \in [Decoders \cup {"audio"} -> SUBSET Flags] /\ sensors \subseteq Sensors
    BY <1>4 DEF IInv, CapsInv, SensorInv
  <2>3. core1 \in {0} \cup helpers \cup 1 .. MaxStreams
    BY <1>4, MediaAssumption DEF ConsoleInv
  <2>4. QED
    BY <1>4, <2>1, <2>2, <2>3 DEF TypeOK, ConsoleInv, AskedInv, Stages, Widths, Requests
<1>5. QED
  BY <1>1, <1>2, <1>3, <1>4, Inductive, StreamsUseTheRing, RingTypeCorrect, PTL DEF Spec
=============================================================================
