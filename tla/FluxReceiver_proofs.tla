-------------------------- MODULE FluxReceiver_proofs --------------------------
(* Proofs about FluxReceiver for any number of regions, sizes, frames and  *)
(* ids, and any window.                                                    *)
EXTENDS FluxReceiver, Integers, FiniteSetTheorems, TLAPS

-----------------------------------------------------------------------------
(* Arithmetic of ids.                                                      *)

(* A number is a multiple of the modulus and a rest.                       *)
LEMMA Division ==
  ASSUME NEW x \in Nat, NEW M \in Nat \ {0}
  PROVE  \E q \in Nat : x = (q * M) + (x % M) /\ x % M \in 0 .. M - 1
<1>1. x % M \in 0 .. M - 1 /\ x = ((x \div M) * M) + (x % M) /\ x \div M \in Nat
  OBVIOUS
<1>2. QED
  BY <1>1

(* What is less than the modulus is its own rest, also with the modulus on *)
(* top.                                                                    *)
LEMMA Rest ==
  ASSUME NEW M \in Nat \ {0}, NEW r \in 0 .. M - 1
  PROVE  r % M = r /\ (r + M) % M = r
OBVIOUS

(* The id of a frame is its number, but for a multiple of IdMod.           *)
LEMMA IdOf ==
  ASSUME NEW n \in Nat
  PROVE  Id(n) \in 0 .. IdMod - 1 /\ \E q \in Nat : FirstId + n = (q * IdMod) + Id(n)
<1>1. FirstId + n \in Nat /\ IdMod \in Nat \ {0}
  BY FluxAssumption
<1>2. QED
  BY <1>1, Division DEF Id

(* The distance of the ids of two frames, the second one not older.        *)
LEMMA Distance ==
  ASSUME NEW n \in Nat, NEW m \in Nat, n <= m, m - n < IdMod
  PROVE  (Id(n) + IdMod - Id(m)) % IdMod = IF m = n THEN 0 ELSE IdMod - (m - n)
<1>1. IdMod \in Nat \ {0} /\ FirstId \in Nat
  BY FluxAssumption
<1>2. PICK q \in Nat : FirstId + n = (q * IdMod) + Id(n)
  BY IdOf
<1>3. PICK p \in Nat : FirstId + m = (p * IdMod) + Id(m)
  BY IdOf
<1>4. Id(n) \in 0 .. IdMod - 1 /\ Id(m) \in 0 .. IdMod - 1
  BY IdOf
<1>5. q * IdMod \in Nat /\ p * IdMod \in Nat
  BY <1>1
<1>6. p = q \/ p = q + 1
  <2>1. CASE p >= q + 2
    <3>1. PICK e \in Nat : p = q + 2 + e
      BY <2>1
    <3>2. p * IdMod = (q * IdMod) + IdMod + IdMod + (e * IdMod) /\ e * IdMod \in Nat
      BY <1>1, <3>1
    <3>3. QED
      BY <1>1, <1>2, <1>3, <1>4, <1>5, <3>2
  <2>2. CASE p < q
    <3>1. PICK e \in Nat : q = p + 1 + e
      BY <2>2
    <3>2. q * IdMod = (p * IdMod) + IdMod + (e * IdMod) /\ e * IdMod \in Nat
      BY <1>1, <3>1
    <3>3. QED
      BY <1>1, <1>2, <1>3, <1>4, <1>5, <3>2
  <2>3. QED
    BY <2>1, <2>2
<1>7. CASE p = q
  <2>1. Id(n) + IdMod - Id(m) = IdMod - (m - n)
    BY <1>1, <1>2, <1>3, <1>4, <1>5, <1>7
  <2>2. CASE m = n
    <3>1. Id(n) + IdMod - Id(m) = 0 + IdMod
      BY <1>1, <2>1, <2>2
    <3>2. QED
      BY <1>1, <2>2, <3>1, Rest
  <2>3. CASE m # n
    BY <1>1, <2>1, <2>3, Rest
  <2>4. QED
    BY <2>2, <2>3
<1>8. CASE p = q + 1
  <2>1. p * IdMod = (q * IdMod) + IdMod
    BY <1>1, <1>8
  <2>2. Id(n) + IdMod - Id(m) = (IdMod - (m - n)) + IdMod /\ m # n
    BY <1>1, <1>2, <1>3, <1>4, <1>5, <2>1
  <2>3. IdMod - (m - n) \in 0 .. IdMod - 1
    BY <1>1, <2>2
  <2>4. QED
    BY <1>1, <2>2, <2>3, Rest
<1>9. QED
  BY <1>6, <1>7, <1>8

(* Frames that are less than IdMod apart have different ids.               *)
LEMMA IdsDiffer ==
  ASSUME NEW n \in Nat, NEW m \in Nat, Id(n) = Id(m), n - m < IdMod, m - n < IdMod
  PROVE  n = m
<1>1. IdMod \in Nat \ {0} /\ Id(n) \in 0 .. IdMod - 1
  BY FluxAssumption, IdOf
<1>2. (Id(n) + IdMod - Id(m)) % IdMod = 0
  <2>1. Id(n) + IdMod - Id(m) = 0 + IdMod
    BY <1>1
  <2>2. QED
    BY <1>1, <2>1, Rest
<1>3. CASE n <= m
  BY <1>1, <1>2, <1>3, Distance
<1>4. CASE m <= n
  BY <1>1, <1>2, <1>4, Distance
<1>5. QED
  BY <1>3, <1>4

(* An id that is newer than that of frame m is not the id of a frame of    *)
(* the window that is as old as m.                                         *)
LEMMA NewerIsNewer ==
  ASSUME NEW n \in Nat, NEW m \in Nat, n + Window > m, Newer(Id(n), Id(m))
  PROVE  n > m
<1> SUFFICES ASSUME n <= m PROVE FALSE
  OBVIOUS
<1>1. /\ IdMod \in Nat \ {0} /\ IdMod \div 2 \in Nat /\ 2 * (IdMod \div 2) <= IdMod
      /\ Window \in 1 .. IdMod \div 2
  BY FluxAssumption
<1>2. m - n < IdMod
  BY <1>1
<1>3. (Id(n) + IdMod - Id(m)) % IdMod = IF m = n THEN 0 ELSE IdMod - (m - n)
  BY <1>2, Distance
<1>4. QED
  BY <1>1, <1>3 DEF Newer

-----------------------------------------------------------------------------
(* What is shown only moves forward.                                       *)

(* last_completed_frame_id is the id of the frame that is shown.           *)
ShownInv ==
  /\ sent \in 0 .. MaxFrames
  /\ has \in BOOLEAN
  /\ IF has THEN shown.n \in 1 .. sent /\ last = Id(shown.n) ELSE shown.n = 0

(* What the header of a packet on the way says.                            *)
LEMMA PacketOf ==
  ASSUME sent \in Nat, NEW h \in Packets
  PROVE  /\ h.n \in 1 .. sent /\ h.n + Window > sent
         /\ h.index \in 1 .. stream[h.n].count
         /\ h.id = Id(h.n) /\ h.key = stream[h.n].key
         /\ h.size = stream[h.n].size /\ h.count = stream[h.n].count
<1>1. PICK n \in OnTheWay : h \in {Header(n, i) : i \in 1 .. stream[n].count}
  BY DEF Packets
<1>2. PICK i \in 1 .. stream[n].count : h = Header(n, i)
  BY <1>1
<1>3. n \in 1 .. sent /\ n + Window > sent
  BY <1>1 DEF OnTheWay
<1>4. QED
  BY <1>2, <1>3 DEF Header

(* A packet shows nothing, or the frame it belongs to.                     *)
LEMMA ReceiveShows ==
  ASSUME ShownInv, NEW h \in Packets,
         \/ ReceiveEarly(h) \/ ReceiveContinues(h) \/ ReceiveBegins(h)
         \/ ReceiveResizes(h) \/ ReceiveRefuses(h) \/ NoMemory(h)
  PROVE  \/ UNCHANGED <<sent, last, has, shown>>
         \/ UNCHANGED sent /\ has' = TRUE /\ last' = h.id /\ shown'.n = h.n
<1>1. CASE ReceiveContinues(h)
  <2>1. Paint(frame, staging, completed, h) /\ sent' = sent
    BY <1>1 DEF ReceiveContinues
  <2>2. frame.id = h.id
    BY <1>1 DEF ReceiveContinues, Continues, Current, Empty
  <2>3. QED
    BY <2>1, <2>2 DEF Paint
<1>2. CASE ReceiveBegins(h)
  <2>1. Paint(Begun(h), Base(h), completed, h) /\ sent' = sent
    BY <1>2 DEF ReceiveBegins
  <2>2. QED
    BY <2>1 DEF Paint, Begun
<1>3. CASE ReceiveResizes(h)
  <2>1. Paint(Begun(h), Fill(0), Fill(Raw), h) /\ sent' = sent
    BY <1>3 DEF ReceiveResizes
  <2>2. QED
    BY <2>1 DEF Paint, Begun
<1>4. CASE ReceiveEarly(h) \/ ReceiveRefuses(h) \/ NoMemory(h)
  BY <1>4 DEF ReceiveEarly, ReceiveRefuses, NoMemory
<1>5. QED
  BY <1>1, <1>2, <1>3, <1>4

(* A frame that is shown is newer than the one before.                     *)
LEMMA StepForward ==
  ASSUME ShownInv, [Next]_vars
  PROVE  ShownInv' /\ (shown' # shown => shown'.n > shown.n)
<1>1. MaxFrames \in Nat
  BY FluxAssumption
<1>2. CASE Send
  BY <1>1, <1>2 DEF Send, ShownInv
<1>3. CASE Receive
  <2>1. PICK h \in Packets :
          /\ UpToDate(h)
          /\ \/ ReceiveEarly(h) \/ ReceiveContinues(h) \/ ReceiveBegins(h)
             \/ ReceiveResizes(h) \/ ReceiveRefuses(h) \/ NoMemory(h)
    BY <1>3 DEF Receive
  <2>2. h.n \in 1 .. sent /\ h.n + Window > sent /\ h.id = Id(h.n)
    BY PacketOf, <1>1 DEF ShownInv
  <2>3. h.n > shown.n
    <3>1. CASE has
      <4>1. Newer(Id(h.n), Id(shown.n))
        BY <2>1, <2>2, <3>1 DEF UpToDate, ShownInv
      <4>2. Window \in Nat
        BY FluxAssumption
      <4>3. QED
        BY <1>1, <2>2, <3>1, <4>1, <4>2, NewerIsNewer DEF ShownInv
    <3>2. CASE ~has
      BY <1>1, <2>2, <3>2 DEF ShownInv
    <3>3. QED
      BY <3>1, <3>2
  <2>4. \/ UNCHANGED <<sent, last, has, shown>>
        \/ UNCHANGED sent /\ has' = TRUE /\ last' = h.id /\ shown'.n = h.n
    BY <2>1, ReceiveShows
  <2>5. CASE UNCHANGED <<sent, last, has, shown>>
    BY <2>5 DEF ShownInv
  <2>6. CASE UNCHANGED sent /\ has' = TRUE /\ last' = h.id /\ shown'.n = h.n
    BY <1>1, <2>2, <2>3, <2>6 DEF ShownInv
  <2>7. QED
    BY <2>4, <2>5, <2>6
<1>4. CASE UNCHANGED vars
  BY <1>4 DEF vars, ShownInv
<1>5. QED
  BY <1>2, <1>3, <1>4 DEF Next

(* potato_flux_receive_loop and frame_id_is_newer never go back to an      *)
(* older frame, whatever the network does within the window, for any       *)
(* number of ids that is twice the window or more.                         *)
THEOREM MovesForward == Spec => ShownMovesForward
<1>1. ASSUME Init PROVE ShownInv
  <2>1. sent = 0 /\ has = FALSE /\ shown.n = 0 /\ 0 \in 0 .. MaxFrames
    BY <1>1, FluxAssumption DEF Init
  <2>2. QED
    BY <2>1 DEF ShownInv
<1>2. ShownInv /\ [Next]_vars => ShownInv'
  BY StepForward
<1>3. ShownInv /\ [Next]_vars => [shown' # shown => shown'.n > shown.n]_vars
  BY StepForward
<1>4. QED
  BY <1>1, <1>2, <1>3, PTL DEF Spec, ShownMovesForward

-----------------------------------------------------------------------------
(* The buffers, and what is painted in them.  A frame that is assembled    *)
(* can be mistaken for one that is IdMod frames younger, so that from here *)
(* on no id comes twice.                                                   *)
Few == MaxFrames <= IdMod

(* What the sender has sent.                                               *)
SentInv ==
  /\ stream \in [1 .. MaxFrames -> Descriptions \cup {{}}]
  /\ \A n \in 1 .. sent : /\ stream[n] \in Descriptions
                          /\ stream[n].key => stream[n].count = Regions

(* The frame that is assembled is one that was sent, and the staging       *)
(* buffer has its packets on what begin_frame put there.                   *)
Ground(n) == IF stream[n].key THEN Fill(0) ELSE completed
Assembles(n) ==
  /\ frame.id = Id(n) /\ frame.size = stream[n].size /\ frame.count = stream[n].count
  /\ frame.received \subseteq 1 .. frame.count
  /\ capacity = frame.size
  /\ staging = [r \in Region |-> IF r \in frame.received THEN n ELSE Ground(n)[r]]

Frames == [id : 0 .. IdMod - 1, size : Sizes \cup {NoSize}, count : 0 .. Regions,
           received : SUBSET Region]
Records ==
  /\ frame \in Frames
  /\ shown.picture \in Pictures
FrameInv ==
  /\ Records
  /\ frame.count # 0 => \E n \in 1 .. sent : Assembles(n)
BufferInv ==
  capacity # NoSize =>
    staging \in Pictures /\ completed \in {shown.picture, Fill(Raw)}

PaintInv == ShownInv /\ SentInv /\ FrameInv /\ BufferInv

(* ShownIsWhole of one step.                                               *)
Whole ==
  shown' # shown =>
    LET d == stream[shown'.n]
        base == IF d.key THEN Fill(0) ELSE shown.picture
    IN \/ completed = Fill(Raw) /\ ~d.key
       \/ shown'.picture =
            [r \in Region |-> IF r <= d.count THEN shown'.n ELSE base[r]]

LEMMA Filled ==
  ASSUME NEW x \in 0 .. Raw
  PROVE  Fill(x) \in Pictures /\ \A r \in Region : Fill(x)[r] = x
BY DEF Fill, Pictures

LEMMA RawAndBlack == Fill(0) \in Pictures /\ Fill(Raw) \in Pictures
<1>1. 0 \in 0 .. Raw /\ Raw \in 0 .. Raw
  BY FluxAssumption DEF Raw
<1>2. QED
  BY <1>1, Filled

(* A picture is no missing buffer: it has a region.                        *)
LEMMA PictureIsThere ==
  ASSUME NEW p \in Pictures PROVE p # Null
<1>1. DOMAIN p = Region /\ 1 \in Region
  BY FluxAssumption DEF Pictures, Region
<1>2. DOMAIN Null = 1 .. 0
  BY DEF Null
<1>3. QED
  BY <1>1, <1>2

(* reset_frame makes a frame without packets.                              *)
LEMMA EmptyFrame ==
  ASSUME NEW f \in Frames
  PROVE  Empty(f) \in Frames /\ Empty(f).count = 0 /\ Empty(f).id = f.id
<1> DEFINE g == [f EXCEPT !.count = 0]
<1>1. g \in Frames /\ g.count = 0 /\ g.id = f.id
  BY FluxAssumption DEF Frames
<1>2. Empty(f) = [g EXCEPT !.received = {}]
  BY DEF Empty
<1> HIDE DEF g
<1>3. QED
  BY <1>1, <1>2 DEF Frames

(* As many packets as a frame has are all of them.                         *)
LEMMA AllReceived ==
  ASSUME NEW c \in Nat, NEW S \in SUBSET (1 .. c), Cardinality(S) = c
  PROVE  S = 1 .. c
<1>1. IsFiniteSet(1 .. c) /\ Cardinality(1 .. c) = c
  BY FS_Interval
<1>2. QED
  BY <1>1, FS_Subset

(* What Paint does to a frame f and its picture p, that were assembled on  *)
(* base, with the other buffer there.                                      *)
LEMMA PaintWhole ==
  ASSUME PaintInv, NEW h \in Packets, NEW f, NEW p, NEW other, NEW base,
         f \in Frames,
         f.id = h.id, f.size = h.size, f.count = h.count, f.received \subseteq 1 .. f.count,
         base = IF h.key THEN Fill(0) ELSE other,
         p = [r \in Region |-> IF r \in f.received THEN h.n ELSE base[r]],
         other \in {shown.picture, Fill(Raw)},
         h.key \/ other = completed,
         Paint(f, p, other, h), capacity' = h.size, UNCHANGED <<sent, stream>>
  PROVE  FrameInv' /\ BufferInv' /\ Whole
<1> DEFINE received == f.received \cup {h.index}
           picture == IF h.index \in f.received THEN p ELSE [p EXCEPT ![h.index] = h.n]
<1>1. /\ h.n \in 1 .. sent /\ sent \in 0 .. MaxFrames /\ MaxFrames \in Nat
      /\ h.index \in 1 .. h.count
      /\ h.id = Id(h.n) /\ h.key = stream[h.n].key
      /\ h.size = stream[h.n].size /\ h.count = stream[h.n].count
  BY PacketOf, FluxAssumption DEF PaintInv, ShownInv
<1>2. stream[h.n] \in Descriptions
  BY <1>1 DEF PaintInv, SentInv
<1>3. h.count \in Region /\ h.size \in Sizes /\ h.key \in BOOLEAN
  BY <1>1, <1>2 DEF Descriptions
<1>4. Region = 1 .. Regions /\ Regions \in Nat
  BY FluxAssumption DEF Region
<1>5. received \subseteq 1 .. f.count /\ received \in SUBSET Region
  BY <1>1, <1>3, <1>4
<1>6. base \in Pictures /\ other \in Pictures
  BY <1>3, RawAndBlack DEF PaintInv, FrameInv, Records
<1>7. h.n \in 0 .. Raw
  BY <1>1 DEF Raw
<1>8. p \in Pictures
  BY <1>6, <1>7 DEF Pictures
<1>9. picture = [r \in Region |-> IF r \in received THEN h.n ELSE base[r]]
  <2>1. CASE h.index \in f.received
    BY <2>1
  <2>2. CASE h.index \notin f.received
    BY <2>2
  <2>3. QED
    BY <2>1, <2>2
<1>10. picture \in Pictures
  BY <1>6, <1>7, <1>9 DEF Pictures
<1>11. CASE Cardinality(received) = f.count
  <2>1. /\ completed' = picture /\ staging' = other
        /\ shown' = [n |-> h.n, picture |-> picture]
        /\ frame' = Empty(f)
    BY <1>11 DEF Paint
  <2>2. received = 1 .. h.count
    <3> HIDE DEF received
    <3>1. h.count \in Nat /\ received \in SUBSET (1 .. h.count)
      BY <1>3, <1>4, <1>5
    <3>2. Cardinality(received) = h.count
      BY <1>11
    <3>3. QED
      BY <3>1, <3>2, AllReceived
  <2>3. FrameInv'
    <3>1. frame' \in Frames /\ frame'.count = 0
      BY <2>1, EmptyFrame
    <3>2. (shown.picture)' = picture
      BY <2>1
    <3>3. QED
      BY <1>10, <3>1, <3>2 DEF FrameInv, Records
  <2>4. BufferInv'
    BY <1>6, <2>1 DEF BufferInv
  <2>5. Whole
    <3> DEFINE b == IF stream[h.n].key THEN Fill(0) ELSE shown.picture
    <3>1. SUFFICES ASSUME h.key \/ completed # Fill(Raw)
                   PROVE  picture = [r \in Region |-> IF r <= stream[h.n].count THEN h.n
                                                      ELSE b[r]]
      BY <1>1, <2>1 DEF Whole
    <3>2. base = b
      BY <1>1, <3>1
    <3>3. \A r \in Region : r \in received <=> r <= stream[h.n].count
      BY <1>1, <1>3, <1>4, <2>2
    <3>4. QED
      BY <1>9, <3>2, <3>3
  <2>6. QED
    BY <2>3, <2>4, <2>5
<1>12. CASE Cardinality(received) # f.count
  <2>1. /\ staging' = picture /\ completed' = other
        /\ frame' = [f EXCEPT !.received = received]
        /\ UNCHANGED shown
    BY <1>12 DEF Paint
  <2>2. frame' \in Frames
    BY <1>5, <2>1 DEF Frames
  <2>3. /\ frame'.id = h.id /\ frame'.size = h.size /\ frame'.count = h.count
        /\ frame'.received = received
    BY <2>1 DEF Frames
  <2>4. base = Ground(h.n)'
    BY <1>1, <2>1 DEF Ground
  <2>5. Assembles(h.n)'
    BY <1>1, <1>5, <1>9, <2>1, <2>3, <2>4 DEF Assembles
  <2>6. FrameInv'
    BY <1>1, <2>1, <2>2, <2>5 DEF FrameInv, Records, PaintInv
  <2>7. BufferInv' /\ Whole
    BY <1>10, <2>1 DEF BufferInv, Whole
  <2>8. QED
    BY <2>6, <2>7
<1>13. QED
  BY <1>11, <1>12

(* Descriptions of frames stay as they are, and so does the frame that is  *)
(* assembled, when the sender goes on.                                     *)
LEMMA SendKeeps ==
  ASSUME PaintInv, Send
  PROVE  SentInv' /\ FrameInv' /\ BufferInv' /\ Whole
<1>1. sent \in 0 .. MaxFrames /\ sent < MaxFrames /\ MaxFrames \in Nat /\ sent' = sent + 1
  BY FluxAssumption DEF PaintInv, ShownInv, Send
<1>2. PICK d \in Descriptions :
        (d.key => d.count = Regions) /\ stream' = [stream EXCEPT ![sent'] = d]
  BY DEF Send
<1>3. sent' \in 1 .. MaxFrames
  BY <1>1
<1>4. \A n \in 1 .. sent : stream'[n] = stream[n]
  BY <1>1, <1>2 DEF PaintInv, SentInv
<1>5. stream'[sent'] = d
  BY <1>2, <1>3 DEF PaintInv, SentInv
<1>6. SentInv'
  <2>1. stream' \in [1 .. MaxFrames -> Descriptions \cup {{}}]
    BY <1>2 DEF PaintInv, SentInv
  <2>2. \A n \in 1 .. sent' : n \in 1 .. sent \/ n = sent'
    BY <1>1
  <2>3. QED
    BY <1>2, <1>4, <1>5, <2>1, <2>2 DEF PaintInv, SentInv
<1>7. UNCHANGED <<frame, capacity, staging, completed, shown>>
  BY DEF Send, buffers
<1>8. FrameInv'
  <2>1. ASSUME NEW n \in 1 .. sent, Assembles(n) PROVE n \in 1 .. sent' /\ Assembles(n)'
    BY <1>1, <1>4, <1>7, <2>1 DEF Assembles, Ground
  <2>2. QED
    BY <1>7, <2>1 DEF PaintInv, FrameInv, Records
<1>9. QED
  BY <1>6, <1>7, <1>8 DEF PaintInv, BufferInv, Whole

(* A packet with the id of the frame that is assembled belongs to it.      *)
LEMMA SameFrame ==
  ASSUME PaintInv, Few, NEW h \in Packets, frame.count # 0, frame.id = h.id
  PROVE  Assembles(h.n) /\ frame.size = h.size /\ frame.count = h.count
<1>1. PICK n \in 1 .. sent : Assembles(n)
  BY DEF PaintInv, FrameInv
<1>2. /\ sent \in 0 .. MaxFrames /\ MaxFrames \in Nat /\ IdMod \in Nat
      /\ MaxFrames <= IdMod
  BY FluxAssumption DEF PaintInv, ShownInv, Few
<1>3. h.n \in 1 .. sent /\ h.id = Id(h.n)
      /\ h.size = stream[h.n].size /\ h.count = stream[h.n].count
  BY <1>2, PacketOf
<1>4. n = h.n
  <2>1. n \in Nat /\ h.n \in Nat /\ n - h.n < IdMod /\ h.n - n < IdMod
    BY <1>1, <1>2, <1>3
  <2>2. Id(n) = Id(h.n)
    BY <1>1, <1>3 DEF Assembles
  <2>3. QED
    BY <2>1, <2>2, IdsDiffer
<1>5. QED
  BY <1>1, <1>3, <1>4 DEF Assembles

(* A frame that a packet continues has packets, and is its frame.          *)
LEMMA ContinuesItsFrame ==
  ASSUME PaintInv, Few, NEW h \in Packets, Continues(h)
  PROVE  frame.count # 0 /\ frame.id = h.id /\ Assembles(h.n)
<1>1. sent \in Nat
  BY FluxAssumption DEF PaintInv, ShownInv
<1>2. h.n \in 1 .. sent /\ h.count = stream[h.n].count
  BY <1>1, PacketOf
<1>3. h.count \in Region
  BY <1>2 DEF PaintInv, SentInv, Descriptions
<1>4. h.count # 0
  BY <1>3, FluxAssumption DEF Region
<1>5. frame \in Frames
  BY DEF PaintInv, FrameInv, Records
<1>6. frame.id = h.id
  BY <1>5, EmptyFrame DEF Continues, Current
<1>7. frame.count = h.count
  BY <1>6 DEF Continues, Current
<1>8. QED
  BY <1>4, <1>6, <1>7, SameFrame

(* Each way to receive a packet.                                           *)
LEMMA ReceivePaints ==
  ASSUME PaintInv, Few, NEW h \in Packets,
         \/ ReceiveEarly(h) \/ ReceiveContinues(h) \/ ReceiveBegins(h)
         \/ ReceiveResizes(h) \/ ReceiveRefuses(h) \/ NoMemory(h)
  PROVE  FrameInv' /\ BufferInv' /\ Whole /\ UNCHANGED <<sent, stream>>
<1>1. sent \in Nat /\ frame \in Frames
  BY FluxAssumption DEF PaintInv, ShownInv, FrameInv, Records
<1>2. /\ h.n \in 1 .. sent /\ h.id = Id(h.n) /\ h.key = stream[h.n].key
      /\ h.size = stream[h.n].size /\ h.count = stream[h.n].count
      /\ stream[h.n] \in Descriptions
  BY <1>1, PacketOf DEF PaintInv, SentInv
<1>3. h.size \in Sizes /\ h.size # NoSize /\ h.count \in Region /\ h.key \in BOOLEAN
  BY <1>2, FluxAssumption DEF Descriptions
<1>4. Region = 1 .. Regions /\ Regions \in Nat /\ h.n \in Nat
  BY <1>1, <1>2, FluxAssumption DEF Region
<1>11. Begun(h) \in Frames
  <2>1. h.id \in 0 .. IdMod - 1
    BY <1>2, <1>4, IdOf
  <2>2. h.count \in 0 .. Regions /\ h.size \in Sizes \cup {NoSize}
    BY <1>3, <1>4
  <2>3. QED
    BY <2>1, <2>2 DEF Begun, Frames
<1>5. CASE ReceiveEarly(h)
  <2>1. frame' \in Frames /\ frame'.count = 0
    BY <1>1, <1>5, EmptyFrame DEF ReceiveEarly
  <2>2. QED
    BY <1>5, <2>1 DEF ReceiveEarly, buffers, PaintInv, FrameInv, Records, BufferInv, Whole
<1>6. CASE ReceiveContinues(h)
  <2>1. Paint(frame, staging, completed, h) /\ UNCHANGED <<sent, stream, capacity>>
    BY <1>6 DEF ReceiveContinues
  <2>2. Assembles(h.n) /\ frame.id = h.id
    BY <1>6, ContinuesItsFrame DEF ReceiveContinues
  <2>3. /\ frame.size = h.size /\ frame.count = h.count /\ capacity = h.size
        /\ frame.received \subseteq 1 .. frame.count
    BY <1>2, <2>2 DEF Assembles
  <2>4. completed \in {shown.picture, Fill(Raw)}
    BY <1>3, <2>3 DEF PaintInv, BufferInv
  <2>5. /\ Ground(h.n) = IF h.key THEN Fill(0) ELSE completed
        /\ staging = [r \in Region |-> IF r \in frame.received THEN h.n ELSE Ground(h.n)[r]]
    BY <1>2, <2>2 DEF Ground, Assembles
  <2>6. QED
    BY <1>1, <2>1, <2>2, <2>3, <2>4, <2>5, PaintWhole
<1>7. CASE ReceiveBegins(h)
  <2>1. /\ Paint(Begun(h), Base(h), completed, h) /\ UNCHANGED <<sent, stream, capacity>>
        /\ capacity = h.size
    BY <1>7 DEF ReceiveBegins, SizeChanges
  <2>2. /\ Begun(h) \in Frames /\ Begun(h).id = h.id /\ Begun(h).size = h.size
        /\ Begun(h).count = h.count /\ Begun(h).received = {}
    BY <1>11 DEF Begun
  <2>3. completed \in {shown.picture, Fill(Raw)}
    BY <1>3, <2>1 DEF PaintInv, BufferInv
  <2>4. Base(h) \in Pictures
    BY <2>3, RawAndBlack DEF Base, PaintInv, FrameInv, Records
  <2>5. Base(h) = [r \in Region |-> IF r \in {} THEN h.n ELSE Base(h)[r]]
    BY <2>4 DEF Pictures
  <2>6. QED
    BY <2>1, <2>2, <2>3, <2>5, PaintWhole DEF Base
<1>8. CASE ReceiveResizes(h)
  <2>1. /\ Paint(Begun(h), Fill(0), Fill(Raw), h) /\ UNCHANGED <<sent, stream>>
        /\ capacity' = h.size /\ h.key
    BY <1>8 DEF ReceiveResizes
  <2>2. /\ Begun(h) \in Frames /\ Begun(h).id = h.id /\ Begun(h).size = h.size
        /\ Begun(h).count = h.count /\ Begun(h).received = {}
    BY <1>11 DEF Begun
  <2>3. Fill(0) = [r \in Region |-> IF r \in {} THEN h.n ELSE Fill(0)[r]]
    BY RawAndBlack DEF Pictures
  <2>4. QED
    BY <2>1, <2>2, <2>3, PaintWhole
<1>9. CASE ReceiveRefuses(h)
  <2>1. frame' = Current(h) /\ UNCHANGED <<sent, stream, capacity, staging, completed, shown>>
    BY <1>9 DEF ReceiveRefuses, buffers
  <2>2. CASE h.id # frame.id
    <3>1. frame' \in Frames /\ frame'.count = 0
      BY <1>1, <2>1, <2>2, EmptyFrame DEF Current
    <3>2. QED
      BY <2>1, <3>1 DEF PaintInv, FrameInv, Records, BufferInv, Whole
  <2>3. CASE h.id = frame.id
    <3>1. frame' = frame
      BY <2>1, <2>3 DEF Current
    <3>2. ASSUME NEW n \in 1 .. sent, Assembles(n) PROVE Assembles(n)'
      BY <2>1, <3>1, <3>2 DEF Assembles, Ground
    <3>3. QED
      BY <2>1, <3>1, <3>2 DEF PaintInv, FrameInv, Records, BufferInv, Whole
  <2>4. QED
    BY <2>2, <2>3
<1>10. CASE NoMemory(h)
  <2>1. /\ frame' = Current(h) /\ capacity' = NoSize /\ ~Continues(h)
        /\ UNCHANGED <<sent, stream, shown>>
    BY <1>10 DEF NoMemory
  <2>2. frame' \in Frames /\ frame'.count = 0
    <3>1. CASE h.id # frame.id
      BY <1>1, <2>1, <3>1, EmptyFrame DEF Current
    <3>2. CASE h.id = frame.id
      <4>1. frame' = frame
        BY <2>1, <3>2 DEF Current
      <4>2. frame.count = 0
        BY <2>1, <3>2, SameFrame DEF Continues, Current
      <4>3. QED
        BY <1>1, <4>1, <4>2
    <3>3. QED
      BY <3>1, <3>2
  <2>3. QED
    BY <2>1, <2>2 DEF PaintInv, FrameInv, Records, BufferInv, Whole
<1>12. QED
  BY <1>5, <1>6, <1>7, <1>8, <1>9, <1>10

LEMMA StepPaint ==
  ASSUME PaintInv, Few, [Next]_vars
  PROVE  PaintInv' /\ Whole
<1>1. ShownInv'
  BY StepForward DEF PaintInv
<1>2. CASE Send
  BY <1>1, <1>2, SendKeeps DEF PaintInv
<1>3. CASE Receive
  <2>1. PICK h \in Packets :
          \/ ReceiveEarly(h) \/ ReceiveContinues(h) \/ ReceiveBegins(h)
          \/ ReceiveResizes(h) \/ ReceiveRefuses(h) \/ NoMemory(h)
    BY <1>3 DEF Receive
  <2>2. FrameInv' /\ BufferInv' /\ Whole /\ UNCHANGED <<sent, stream>>
    BY <2>1, ReceivePaints
  <2>3. SentInv'
    BY <2>2 DEF PaintInv, SentInv
  <2>4. QED
    BY <1>1, <2>2, <2>3 DEF PaintInv
<1>4. CASE UNCHANGED vars
  <2>1. UNCHANGED <<sent, stream, frame, capacity, staging, completed, shown>>
    BY <1>4 DEF vars
  <2>2. ASSUME NEW n \in 1 .. sent, Assembles(n) PROVE Assembles(n)'
    BY <2>1, <2>2 DEF Assembles, Ground
  <2>3. QED
    BY <1>1, <2>1, <2>2 DEF PaintInv, SentInv, FrameInv, Records, BufferInv, Whole
<1>5. QED
  BY <1>2, <1>3, <1>4 DEF Next

LEMMA InitPaint == Init => PaintInv
<1> SUFFICES ASSUME Init PROVE PaintInv
  OBVIOUS
<1> USE FluxAssumption
<1>1. sent = 0 /\ has = FALSE /\ shown.n = 0 /\ 0 \in 0 .. MaxFrames
  BY DEF Init
<1>2. ShownInv
  BY <1>1 DEF ShownInv
<1>3. SentInv
  BY <1>1 DEF SentInv, Init
<1>4. frame \in Frames /\ frame.count = 0
  BY DEF Init, Frames
<1>5. shown.picture \in Pictures
  BY RawAndBlack DEF Init
<1>6. capacity = NoSize
  BY DEF Init
<1>7. QED
  BY <1>2, <1>3, <1>4, <1>5, <1>6 DEF PaintInv, FrameInv, Records, BufferInv

(* begin_frame leaves no frame behind for which there is no memory: what   *)
(* potato_flux_receive_loop copies has a place, also when linearAlloc has  *)
(* failed, as long as no id comes twice.                                   *)
THEOREM HaveBuffers == ASSUME Few PROVE Spec => []BuffersHold
<1>1. PaintInv /\ [Next]_vars => PaintInv'
  BY StepPaint
<1>2. PaintInv => BuffersHold
  <2> SUFFICES ASSUME PaintInv, frame.count # 0
               PROVE  Null \notin {staging, completed} /\ capacity = frame.size
    BY DEF BuffersHold
  <2>1. PICK n \in 1 .. sent : Assembles(n)
    BY DEF PaintInv, FrameInv
  <2>2. capacity = frame.size /\ stream[n] \in Descriptions /\ frame.size = stream[n].size
    BY <2>1 DEF Assembles, PaintInv, SentInv
  <2>3. capacity # NoSize
    BY <2>2, FluxAssumption DEF Descriptions
  <2>4. staging \in Pictures /\ completed \in Pictures
    BY <2>3, RawAndBlack DEF PaintInv, BufferInv, FrameInv, Records
  <2>5. QED
    BY <2>2, <2>4, PictureIsThere
<1>3. QED
  BY <1>1, <1>2, InitPaint, PTL DEF Spec

(* What publish_frame shows is made of the packets of its own frame, all   *)
(* of them and each in its place, on the ground begin_frame chose, as long *)
(* as no id comes twice; ShownIsWhole names the one exception.             *)
THEOREM Wholeness == ASSUME Few PROVE Spec => ShownIsWhole
<1>1. PaintInv /\ [Next]_vars => PaintInv'
  BY StepPaint
<1>2. PaintInv /\ [Next]_vars => [Whole]_vars
  BY StepPaint
<1>3. Spec => [][Whole]_vars
  BY <1>1, <1>2, InitPaint, PTL DEF Spec
<1>4. QED
  BY <1>3, PTL DEF ShownIsWhole, Whole

-----------------------------------------------------------------------------
(* The types.  What PaintInv leaves open: both buffers are there with      *)
(* their size or both are missing, and a frame without packets is empty.   *)
MemoryInv ==
  /\ capacity \in Sizes \cup {NoSize}
  /\ capacity = NoSize => staging = Null /\ completed = Null
  /\ last \in 0 .. IdMod - 1
  /\ frame.count = 0 => frame.received = {}

(* Painting takes place in buffers that are there.                         *)
LEMMA PaintTypes ==
  ASSUME MemoryInv, NEW h, NEW f \in Frames, NEW p, NEW other,
         f.count # 0, Paint(f, p, other, h), capacity' \in Sizes
  PROVE  MemoryInv'
<1>1. capacity' # NoSize
  BY FluxAssumption
<1>2. f.id \in 0 .. IdMod - 1
  BY DEF Frames
<1>3. last' \in 0 .. IdMod - 1
  BY <1>2 DEF Paint, MemoryInv
<1>4. frame'.count = 0 => frame'.received = {}
  <2>1. CASE frame' = Empty(f)
    BY <2>1 DEF Empty, Frames
  <2>2. CASE frame' = [f EXCEPT !.received = f.received \cup {h.index}]
    BY <2>2 DEF Frames
  <2>3. QED
    BY <2>1, <2>2 DEF Paint
<1>5. QED
  BY <1>1, <1>3, <1>4 DEF MemoryInv

LEMMA ReceiveTypes ==
  ASSUME PaintInv, MemoryInv, Few, NEW h \in Packets,
         \/ ReceiveEarly(h) \/ ReceiveContinues(h) \/ ReceiveBegins(h)
         \/ ReceiveResizes(h) \/ ReceiveRefuses(h) \/ NoMemory(h)
  PROVE  MemoryInv'
<1>1. sent \in Nat /\ frame \in Frames
  BY FluxAssumption DEF PaintInv, ShownInv, FrameInv, Records
<1>2. h.n \in 1 .. sent /\ h.id = Id(h.n) /\ h.size \in Sizes /\ h.count \in Region
  BY <1>1, PacketOf DEF PaintInv, SentInv, Descriptions
<1>3. h.count \in 0 .. Regions /\ h.count # 0
  BY <1>2, FluxAssumption DEF Region
<1>4. Begun(h) \in Frames /\ Begun(h).count # 0
  <2>1. h.id \in 0 .. IdMod - 1
    BY <1>1, <1>2, IdOf
  <2>2. QED
    BY <1>2, <1>3, <2>1 DEF Begun, Frames
<1>5. Empty(frame).count = 0 /\ Empty(frame).received = {}
  BY <1>1 DEF Empty, Frames
<1>6. frame' \in {frame, Empty(frame)} =>
        (frame'.count = 0 => frame'.received = {})
  BY <1>5 DEF MemoryInv
<1>7. CASE ReceiveEarly(h) \/ ReceiveRefuses(h)
  <2>1. frame' \in {frame, Empty(frame)} /\ UNCHANGED <<capacity, staging, completed, last>>
    BY <1>7 DEF ReceiveEarly, ReceiveRefuses, Current, buffers
  <2>2. QED
    BY <1>6, <2>1 DEF MemoryInv
<1>8. CASE ReceiveContinues(h)
  <2>1. Paint(frame, staging, completed, h) /\ capacity' = capacity
    BY <1>8 DEF ReceiveContinues
  <2>2. frame.count # 0 /\ capacity = stream[h.n].size
    BY <1>8, ContinuesItsFrame DEF ReceiveContinues, Assembles
  <2>3. stream[h.n].size \in Sizes
    BY <1>2 DEF PaintInv, SentInv, Descriptions
  <2>4. QED
    BY <1>1, <2>1, <2>2, <2>3, PaintTypes
<1>9. CASE ReceiveBegins(h)
  <2>1. Paint(Begun(h), Base(h), completed, h) /\ capacity' = h.size
    BY <1>9 DEF ReceiveBegins, SizeChanges
  <2>2. QED
    BY <1>2, <1>4, <2>1, PaintTypes
<1>10. CASE ReceiveResizes(h)
  <2>1. Paint(Begun(h), Fill(0), Fill(Raw), h) /\ capacity' = h.size
    BY <1>10 DEF ReceiveResizes
  <2>2. QED
    BY <1>2, <1>4, <2>1, PaintTypes
<1>11. CASE NoMemory(h)
  <2>1. /\ capacity' = NoSize /\ staging' = Null /\ completed' = Null
        /\ frame' \in {frame, Empty(frame)} /\ last' = last
    BY <1>11 DEF NoMemory, Current
  <2>2. QED
    BY <1>6, <2>1 DEF MemoryInv
<1>12. QED
  BY <1>7, <1>8, <1>9, <1>10, <1>11

(* Frames, headers and buffers keep their types; no packet is counted that *)
(* its frame does not have, and the two buffers come and go together.      *)
THEOREM TypeCorrect == ASSUME Few PROVE Spec => []TypeOK
<1>1. Init => MemoryInv
  BY FluxAssumption DEF Init, MemoryInv
<1>2. ASSUME PaintInv, MemoryInv, [Next]_vars PROVE MemoryInv'
  <2>1. CASE Send \/ UNCHANGED vars
    BY <1>2, <2>1 DEF Send, vars, buffers, MemoryInv
  <2>2. CASE Receive
    BY <1>2, <2>2, ReceiveTypes DEF Receive
  <2>3. QED
    BY <1>2, <2>1, <2>2 DEF Next
<1>3. PaintInv /\ [Next]_vars => PaintInv'
  BY StepPaint
<1>4. ASSUME PaintInv, MemoryInv PROVE TypeOK
  <2>1. frame \in Frames /\ shown.picture \in Pictures
    BY <1>4 DEF PaintInv, FrameInv, Records
  <2>2. frame.received \subseteq 1 .. frame.count
    BY <1>4 DEF PaintInv, FrameInv, Assembles, MemoryInv
  <2>3. {staging, completed} \subseteq Pictures \cup {Null}
    BY <1>4, <2>1, RawAndBlack DEF MemoryInv, PaintInv, BufferInv
  <2>4. sent \in 0 .. MaxFrames /\ has \in BOOLEAN /\ shown.n \in 0 .. MaxFrames
    BY <1>4, FluxAssumption DEF PaintInv, ShownInv
  <2>5. QED
    BY <1>4, <2>1, <2>2, <2>3, <2>4 DEF TypeOK, MemoryInv, Frames, PaintInv, SentInv
<1>5. QED
  BY <1>1, <1>2, <1>3, <1>4, InitPaint, PTL DEF Spec
=============================================================================
