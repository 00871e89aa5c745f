------------------------------ MODULE FluxReceiver ------------------------------
(***************************************************************************)
(* Assembly of frames from datagrams: potato_flux_receive_loop, begin_frame *)
(* and frame_id_is_newer of src/potato/potato_flux_client.cpp.             *)
(*                                                                         *)
(* The sender numbers its frames; a packet carries the number modulo IdMod *)
(* (2^32 in the code).  A key frame paints the whole picture, any other    *)
(* frame the regions that changed, and packet i of a frame paints region i. *)
(* The network loses, repeats and reorders: any packet of the last Window  *)
(* frames may arrive, any number of times.  The sender is not in the       *)
(* sources; its packets are assumed to be well formed, that is, accepted   *)
(* by parse_header and apply_runlist_payload, and to describe their frame  *)
(* alike.  A packet that is out of date changes a counter only.            *)
(*                                                                         *)
(* The staging and the completed buffer are pictures: for each region the  *)
(* number of the frame that painted it, 0 for cleared memory, Raw for      *)
(* memory as linearAlloc returns it; Null is no buffer.                    *)
(***************************************************************************)
EXTENDS Naturals, FiniteSets

CONSTANTS
  Regions,   (* number of regions of a picture, packets of a key frame      *)
  Sizes,     (* sizes of a frame                                            *)
  NoSize,    (* no buffer                                                   *)
  MaxFrames, (* frames sent (bounds the model)                              *)
  IdMod,     (* number of frame ids                                         *)
  FirstId,   (* id of the first frame                                       *)
  Window     (* frames of which packets may still be on the way             *)

ASSUME FluxAssumption ==
  /\ Regions \in Nat \ {0} /\ MaxFrames \in Nat /\ NoSize \notin Sizes
  /\ IdMod \in Nat \ {0} /\ FirstId \in 0 .. IdMod - 1
  /\ Window \in 1 .. IdMod \div 2

Region == 1 .. Regions
Raw == MaxFrames + 1
Pictures == [Region -> 0 .. Raw]
Null == <<>>
Fill(x) == [r \in Region |-> x]

VARIABLES
  sent,      (* number of frames sent                                       *)
  stream,    (* stream[n]: key, size and number of packets of frame n       *)
  frame,     (* the PotatoFluxFrame without its buffers                     *)
  capacity,  (* pixel_capacity: the size both buffers have, or NoSize       *)
  staging, completed,
  last,      (* last_completed_frame_id                                     *)
  has,       (* has_completed_frame                                         *)
  shown      (* what the top screen shows: number and picture of a frame    *)

vars == <<sent, stream, frame, capacity, staging, completed, last, has, shown>>
buffers == <<capacity, staging, completed>>

Descriptions == [key : BOOLEAN, size : Sizes, count : Region]
Id(n) == (FirstId + n) % IdMod

(* A packet: its frame, its index and what its header says of the frame *)
Header(n, i) == [n |-> n, index |-> i, id |-> Id(n), key |-> stream[n].key,
                 size |-> stream[n].size, count |-> stream[n].count]

(* reset_frame leaves frame_id and the size in place *)
Empty(f) == [f EXCEPT !.count = 0, !.received = {}]

Init ==
  /\ sent = 0 /\ stream = [n \in 1 .. MaxFrames |-> {}]
  /\ frame = [id |-> 0, size |-> NoSize, count |-> 0, received |-> {}]
  /\ capacity = NoSize /\ staging = Null /\ completed = Null
  /\ last = 0 /\ has = FALSE /\ shown = [n |-> 0, picture |-> Fill(0)]

(* A frame of another size than the one before is a key frame.  *)
Send ==
  /\ sent < MaxFrames
  /\ sent' = sent + 1
  /\ \E d \in Descriptions :
       /\ d.key => d.count = Regions
       /\ d.key \/ (sent > 0 /\ d.size = stream[sent].size)
       /\ stream' = [stream EXCEPT ![sent'] = d]
  /\ UNCHANGED <<frame, buffers, last, has, shown>>

(* frame_id_is_newer: the difference, as a signed number, is positive *)
Newer_NoWrap(a, b) == a > b
Newer(a, b) == (a + IdMod - b) % IdMod \in 1 .. (IdMod \div 2) - 1

(* A packet of a frame that was shown, or is older than what was shown or  *)
(* than what is being assembled, is skipped.                               *)
UpToDate(h) ==
  /\ has => Newer(h.id, last)
  /\ frame.count # 0 /\ h.id # frame.id => Newer(h.id, frame.id)

OnTheWay == {n \in 1 .. sent : n + Window > sent}
Packets == UNION {{Header(n, i) : i \in 1 .. stream[n].count} : n \in OnTheWay}

(* The incomplete frame is given up for a packet of a newer one. *)
Current(h) == IF h.id # frame.id THEN Empty(frame) ELSE frame

(* Before the first picture only key frames are of use. *)
Early(h) == ~has /\ ~h.key

Continues(h) ==
  LET f == Current(h)
  IN f.id = h.id /\ f.size = h.size /\ f.count = h.count

SizeChanges(h) == frame.size # h.size \/ capacity # h.size

(* The packet is painted into picture p unless it already was, and the     *)
(* frame published if that was its last one: publish_frame swaps the       *)
(* buffers; other is the completed one.                                    *)
Paint(f, p, other, h) ==
  LET received == f.received \cup {h.index}
      picture == IF h.index \in f.received THEN p ELSE [p EXCEPT ![h.index] = h.n]
  IN IF Cardinality(received) = f.count
     THEN /\ completed' = picture /\ staging' = other
          /\ shown' = [n |-> h.n, picture |-> picture]
          /\ last' = f.id /\ has' = TRUE
          /\ frame' = Empty(f)
     ELSE /\ staging' = picture /\ completed' = other
          /\ frame' = [f EXCEPT !.received = received]
          /\ UNCHANGED <<last, has, shown>>

ReceiveEarly(h) ==
  /\ Early(h)
  /\ frame' = Empty(frame)
  /\ UNCHANGED <<sent, stream, buffers, last, has, shown>>

ReceiveContinues(h) ==
  /\ ~Early(h) /\ Continues(h)
  /\ Paint(frame, staging, completed, h)
  /\ UNCHANGED <<sent, stream, capacity>>

(* begin_frame on the buffers there are *)
Base_Staging(h) == IF h.key THEN Fill(0) ELSE staging
Base(h) == IF h.key THEN Fill(0) ELSE completed

Begun(h) == [id |-> h.id, size |-> h.size, count |-> h.count, received |-> {}]

ReceiveBegins(h) ==
  /\ ~Early(h) /\ ~Continues(h) /\ ~SizeChanges(h)
  /\ Paint(Begun(h), Base(h), completed, h)
  /\ UNCHANGED <<sent, stream, capacity>>

(* begin_frame on new buffers *)
ReceiveResizes(h) ==
  /\ ~Early(h) /\ ~Continues(h) /\ SizeChanges(h) /\ h.key
  /\ capacity' = h.size
  /\ Paint(Begun(h), Fill(0), Fill(Raw), h)
  /\ UNCHANGED <<sent, stream>>

(* begin_frame refuses: the size changed in a frame that is no key frame,  *)
ReceiveRefuses(h) ==
  /\ ~Early(h) /\ ~Continues(h) /\ SizeChanges(h) /\ ~h.key
  /\ frame' = Current(h)
  /\ UNCHANGED <<sent, stream, buffers, last, has, shown>>

(* or there is no memory for the new buffers, and the old ones are gone; a *)
(* new one that there was memory for is freed by the next attempt.         *)
NoMemory_KeepsCapacity(h) ==
  /\ ~Early(h) /\ ~Continues(h) /\ SizeChanges(h) /\ h.key
  /\ staging' = Null /\ completed' = Null
  /\ frame' = Current(h)
  /\ UNCHANGED <<sent, stream, capacity, last, has, shown>>

NoMemory(h) ==
  /\ ~Early(h) /\ ~Continues(h) /\ SizeChanges(h) /\ h.key
  /\ capacity' = NoSize /\ staging' = Null /\ completed' = Null
  /\ frame' = Current(h)
  /\ UNCHANGED <<sent, stream, last, has, shown>>

Receive ==
  \E h \in Packets :
    /\ UpToDate(h)
    /\ \/ ReceiveEarly(h) \/ ReceiveContinues(h) \/ ReceiveBegins(h)
       \/ ReceiveResizes(h) \/ ReceiveRefuses(h) \/ NoMemory(h)

Next == Send \/ Receive

Spec == Init /\ [][Next]_vars

-----------------------------------------------------------------------------
(* Every variable has its type; no packet of an earlier frame is counted.    *)
TypeOK ==
  /\ sent \in 0 .. MaxFrames
  /\ \A n \in 1 .. sent : stream[n] \in Descriptions
  /\ frame.id \in 0 .. IdMod - 1 /\ frame.size \in Sizes \cup {NoSize}
  /\ frame.count \in 0 .. Regions /\ frame.received \subseteq 1 .. frame.count
  /\ capacity \in Sizes \cup {NoSize}
  /\ {staging, completed} \subseteq Pictures \cup {Null}
  /\ last \in 0 .. IdMod - 1 /\ has \in BOOLEAN
  /\ shown.n \in 0 .. MaxFrames /\ shown.picture \in Pictures

(* While a frame is assembled both buffers exist and have its size: no       *)
(* packet is copied into memory that is missing or too small, also after     *)
(* linearAlloc has failed.                                                   *)
BuffersHold ==
  frame.count # 0 =>
    /\ Null \notin {staging, completed}
    /\ capacity = frame.size

(* Whatever was lost, repeated or overtaken, the screen never goes back to   *)
(* an older frame.                                                           *)
ShownMovesForward == [][shown' # shown => shown'.n > shown.n]_vars

(* A frame that is shown is whole: its own packets, on black if it is a key  *)
(* frame and else on the picture shown before.  The one exception is what    *)
(* follows a key frame of a new size that lost a packet: its buffers are     *)
(* new, and frames that paint a part of the picture are painted on them.     *)
ShownIsWhole ==
  [][shown' # shown =>
       LET d == stream[shown'.n]
           base == IF d.key THEN Fill(0) ELSE shown.picture
       IN \/ completed = Fill(Raw) /\ ~d.key
          \/ shown'.picture =
               [r \in Region |-> IF r <= d.count THEN shown'.n ELSE base[r]]]_vars
=============================================================================
