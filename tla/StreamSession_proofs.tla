-------------------------- MODULE StreamSession_proofs --------------------------
(* Proofs about StreamSession for any touch modes, any error codes of the  *)
(* host and any number of streams and taps.                                *)
EXTENDS StreamSession, SequenceTheorems, TLAPS

(***************************************************************************)
(* The inductive invariant.                                                *)
(***************************************************************************)

(* What exists of a stream, by where main is with it.                      *)
HasDecoder == main \in {"handshake", "spawn", "loop", "wait", "closing", "text",
                        "code", "stop"}
HasListener == HasDecoder \/ main \in {"connect", "destroy"}
HasTouchscreen == HasListener \/ main \in {"launch", "report", "leave"}

Here ==
  IF HasDecoder THEN {Touchscreen, Listener, Decoder}
  ELSE IF HasListener THEN {Touchscreen, Listener}
  ELSE IF HasTouchscreen THEN {Touchscreen} ELSE {}

(* The lists of MessageDispatcher, in the order of construction.           *)
WithTouchscreen(k) == IF k = "touch" THEN <<Touchscreen>> ELSE <<>>
WithListener(k) == Append(WithTouchscreen(k), Listener)
WithDecoder(k) == Append(WithListener(k), Decoder)
Subscribed(k) ==
  IF HasDecoder THEN WithDecoder(k) ELSE IF HasListener THEN WithListener(k)
  ELSE IF HasTouchscreen THEN WithTouchscreen(k) ELSE <<>>

(* The types of TypeOK, with those it leaves open and without the lists.   *)
PlaceTypes ==
  /\ main \in MainPC /\ input \in InputPC /\ dispatch \in DispatchPC
  /\ host \in {"off", "on", "store", "over"}
  /\ session \in 0 .. MaxSessions
  /\ session = 0 => main = "menu" /\ input = "none" /\ dispatch = "none"
MessageTypes ==
  /\ queue \in Seq(Messages) /\ snapshot \in Seq(Objects)
  /\ dispatch \in {"snapshot", "deliver", "close"} => msg \in Messages
  /\ posts \in 0 .. MaxPosts
ModeTypes ==
  /\ nextTouch \in AllModes /\ handler \in AllModes /\ renderer \in AllModes
  /\ menuActive \in BOOLEAN /\ debug \in BOOLEAN
EndTypes ==
  /\ closed \in BOOLEAN /\ dangling \in BOOLEAN
  /\ error \in Errors \cup {0} /\ hostError \in Errors \cup {0}
  /\ shown \in [text : Errors \cup {0}, code : Errors \cup {0}, seen : BOOLEAN]
  /\ causes \subseteq {"user", "app", "host", "early"}
Types == PlaceTypes /\ MessageTypes /\ ModeTypes /\ EndTypes

(* What subscribes to the dispatcher exists.                               *)
ObjectsInv ==
  /\ alive = Here
  /\ subscribers = [k \in Kinds |-> Subscribed(k)]

(* The workers of a stream begin with nothing of the one before, and a     *)
(* dispatched message goes to objects that exist until the decoder goes.   *)
WorkersInv ==
  /\ main \in {"launch", "connect", "handshake", "spawn"} =>
       input = "none" /\ dispatch = "none"
  /\ dispatch \notin {"deliver", "close"} => snapshot = <<>>
  /\ HasDecoder => \A i \in 1 .. Len(snapshot) : snapshot[i] \in alive
  /\ dangling => ~Streaming

(* Nothing of an earlier stream is in the members of the three objects.    *)
FreshInv ==
  /\ ~HasDecoder => renderer = Disabled
  /\ ~HasListener => ~debug /\ ~closed /\ error = 0
  /\ ~HasTouchscreen => nextTouch = Disabled
  /\ main \in {"launch", "connect", "handshake", "spawn"} =>
       nextTouch = Disabled /\ renderer = Disabled /\ ~debug
  /\ main \in {"launch", "connect"} => ~closed /\ error = 0

(* A touch message reaches the touch screen, then the listener, then the   *)
(* decoder: whom it has reached tells who is of its mode already.          *)
Agree == renderer = nextTouch /\ (debug <=> nextTouch = Debug)
DeliveryInv ==
  Streaming /\ ~closed =>
    /\ dispatch \in {"start", "check", "pop", "snapshot", "close"} => Agree
    /\ dispatch = "deliver" =>
         \/ Agree /\ snapshot \in {<<>>, WithDecoder(msg.kind)}
         \/ /\ msg.kind = "touch" /\ nextTouch = msg.mode
            /\ \/ snapshot = <<Listener, Decoder>>
               \/ snapshot = <<Decoder>> /\ (debug <=> msg.mode = Debug)

(* Every end of a stream has a cause, and what main has read of the error  *)
(* code follows from the causes.                                           *)
Undone == main \in {"destroy", "report", "leave"}
CauseInv ==
  /\ ~HasDecoder => host = "off"
  /\ ~HasDecoder /\ ~Undone =>
       causes = {} /\ hostError = 0 /\ shown = NothingShown
  /\ host = "on" => causes \cap {"host", "early"} = {}
  /\ host = "store" => causes \cap {"host", "early"} # {}
  /\ main = "handshake" => causes \subseteq {"early"}
  /\ main = "closing" \/ (dispatch = "close" /\ HasListener) => "user" \in causes
  /\ closed \/ main \in {"text", "code", "stop"} => causes # {}
  /\ main # "leave" => ~shown.seen
ReasonInv ==
  /\ causes = {"host"} =>
       /\ HasListener => error = hostError
       /\ main \in {"code", "stop"} \/ Undone => shown.text = hostError
       /\ main = "stop" \/ Undone => shown.code = hostError
  /\ causes \cap {"host", "early"} = {} => error = 0 /\ shown.code = 0
  /\ main = "leave" => (shown.seen <=> shown.code # 0)

IInv ==
  Types /\ ObjectsInv /\ WorkersInv /\ FreshInv /\ DeliveryInv /\ CauseInv /\ ReasonInv

(***************************************************************************)
(* The dispatcher's lists.                                                 *)
(***************************************************************************)

(* MessageDispatcher::unsubscribe takes away what subscribed last, and     *)
(* nothing of a list that does not have it.                                *)
LEMMA RemovesLast ==
  ASSUME NEW S, NEW s \in Seq(S), NEW e \in S, e \notin ToSet(s)
  PROVE  RemoveFirst(Append(s, e), e) = s /\ RemoveFirst(s, e) = s
<1>1. \A i \in 1 .. Len(s) : s[i] # e
  BY DEF ToSet
<1>2. RemoveFirst(s, e) = s
  BY <1>1 DEF RemoveFirst
<1> DEFINE t == Append(s, e)
           n == Len(s) + 1
           I == {i \in 1 .. Len(t) : t[i] = e}
<1>3. t \in Seq(S) /\ Len(t) = n /\ t[n] = e /\ n \in Nat
  OBVIOUS
<1>4. I = {n}
  BY <1>1, <1>3
<1>5. Min({n}) = n
  BY <1>3 DEF Min
<1>6. SelectInSeq(t, LAMBDA v : v = e) = n
  BY <1>4, <1>5 DEF SelectInSeq
<1>7. SubSeq(t, 1, n - 1) = s
  OBVIOUS
<1>8. SubSeq(t, n + 1, Len(t)) = <<>>
  BY <1>3
<1>9. RemoveFirst(t, e) = RemoveAt(t, n)
  <2>1. \E i \in 1 .. Len(t) : t[i] = e
    BY <1>3
  <2> HIDE DEF t, n
  <2>2. QED
    BY <2>1, <1>6 DEF RemoveFirst
<1>10. RemoveFirst(t, e) = s
  BY <1>7, <1>8, <1>9 DEF RemoveAt
<1>11. QED
  BY <1>2, <1>10

(* A tuple is what appending its elements gives.                           *)
LEMMA AppendTwo ==
  ASSUME NEW a, NEW b
  PROVE  Append(<<a>>, b) = <<a, b>>
<1> DEFINE s == Append(<<a>>, b)
           t == <<a, b>>
<1>1. s \in Seq({a, b}) /\ Len(s) = 2 /\ s[1] = a /\ s[2] = b
  OBVIOUS
<1>2. t \in Seq({a, b}) /\ Len(t) = 2 /\ t[1] = a /\ t[2] = b
  OBVIOUS
<1> HIDE DEF s, t
<1>3. \A i \in 1 .. Len(s) : s[i] = t[i]
  BY <1>1, <1>2
<1>4. s = t
  BY <1>1, <1>2, <1>3, SeqEqual
<1>5. QED
  BY <1>4 DEF s, t

LEMMA AppendThree ==
  ASSUME NEW a, NEW b, NEW c
  PROVE  Append(<<a, b>>, c) = <<a, b, c>>
<1> DEFINE s == Append(<<a, b>>, c)
           t == <<a, b, c>>
<1>1. s \in Seq({a, b, c}) /\ Len(s) = 3 /\ s[1] = a /\ s[2] = b /\ s[3] = c
  OBVIOUS
<1>2. t \in Seq({a, b, c}) /\ Len(t) = 3 /\ t[1] = a /\ t[2] = b /\ t[3] = c
  OBVIOUS
<1> HIDE DEF s, t
<1>3. \A i \in 1 .. Len(s) : s[i] = t[i]
  BY <1>1, <1>2
<1>4. s = t
  BY <1>1, <1>2, <1>3, SeqEqual
<1>5. QED
  BY <1>4 DEF s, t

(* The lists of the three stages.                                          *)
LEMMA ListsOfStages ==
  ASSUME NEW k \in Kinds
  PROVE  /\ WithTouchscreen(k) \in Seq({Touchscreen})
         /\ WithListener(k) \in Seq({Touchscreen, Listener})
         /\ WithDecoder(k) \in Seq({Touchscreen, Listener, Decoder})
         /\ Touchscreen \notin ToSet(<<>>)
         /\ Listener \notin ToSet(WithTouchscreen(k))
         /\ Decoder \notin ToSet(WithListener(k))
         /\ WithDecoder("touch") = <<Touchscreen, Listener, Decoder>>
         /\ WithDecoder("exit") = <<Listener, Decoder>>
<1>1. WithTouchscreen(k) \in Seq({Touchscreen})
  <2>1. <<Touchscreen>> \in Seq({Touchscreen}) /\ <<>> \in Seq({Touchscreen})
    OBVIOUS
  <2>2. QED
    BY <2>1 DEF WithTouchscreen
<1>2. WithListener(k) \in Seq({Touchscreen, Listener})
  BY <1>1 DEF WithListener
<1>3. WithDecoder(k) \in Seq({Touchscreen, Listener, Decoder})
  BY <1>2 DEF WithDecoder
<1>4. Touchscreen \notin ToSet(<<>>)
  BY DEF ToSet
<1>5. Touchscreen # Listener /\ Touchscreen # Decoder /\ Listener # Decoder
  BY DEF Touchscreen, Listener, Decoder
<1>6. Listener \notin ToSet(WithTouchscreen(k))
  BY <1>1, <1>5 DEF ToSet
<1>7. Decoder \notin ToSet(WithListener(k))
  BY <1>2, <1>5 DEF ToSet
<1>8. Append(<<>>, Listener) = <<Listener>>
  OBVIOUS
<1>9. WithDecoder("touch") = <<Touchscreen, Listener, Decoder>>
  <2>1. WithListener("touch") = <<Touchscreen, Listener>>
    BY AppendTwo DEF WithListener, WithTouchscreen
  <2>2. QED
    BY <2>1, AppendThree DEF WithDecoder
<1>10. WithDecoder("exit") = <<Listener, Decoder>>
  BY <1>8, AppendTwo DEF WithDecoder, WithListener, WithTouchscreen
<1>11. QED
  BY <1>1, <1>2, <1>3, <1>4, <1>6, <1>7, <1>9, <1>10

(* Each object that is destroyed was the last to subscribe.                *)
LEMMA LastOutFirst ==
  ASSUME NEW k \in Kinds
  PROVE  /\ RemoveFirst(WithDecoder(k), Decoder) = WithListener(k)
         /\ RemoveFirst(WithListener(k), Decoder) = WithListener(k)
         /\ RemoveFirst(WithListener(k), Listener) = WithTouchscreen(k)
         /\ RemoveFirst(WithTouchscreen(k), Touchscreen) = <<>>
<1> DEFINE S == {Touchscreen, Listener, Decoder}
<1>1. WithTouchscreen(k) \in Seq(S) /\ WithListener(k) \in Seq(S) /\ <<>> \in Seq(S)
  <2>1. <<Touchscreen>> \in Seq(S) /\ <<>> \in Seq(S)
    OBVIOUS
  <2>2. WithTouchscreen(k) \in Seq(S)
    BY <2>1 DEF WithTouchscreen
  <2>3. QED
    BY <2>1, <2>2 DEF WithListener
<1>2. Touchscreen \in S /\ Listener \in S /\ Decoder \in S
  OBVIOUS
<1> HIDE DEF S
<1>3. /\ RemoveFirst(WithDecoder(k), Decoder) = WithListener(k)
      /\ RemoveFirst(WithListener(k), Decoder) = WithListener(k)
  BY <1>1, <1>2, RemovesLast, ListsOfStages DEF WithDecoder
<1>4. RemoveFirst(WithListener(k), Listener) = WithTouchscreen(k)
  BY <1>1, <1>2, RemovesLast, ListsOfStages DEF WithListener
<1>5. /\ RemoveFirst(<<>>, Touchscreen) = <<>>
      /\ RemoveFirst(Append(<<>>, Touchscreen), Touchscreen) = <<>>
  BY <1>1, <1>2, RemovesLast, ListsOfStages
<1>6. RemoveFirst(WithTouchscreen(k), Touchscreen) = <<>>
  <2>1. Append(<<>>, Touchscreen) = <<Touchscreen>>
    OBVIOUS
  <2>2. QED
    BY <1>5, <2>1 DEF WithTouchscreen
<1>7. QED
  BY <1>3, <1>4, <1>6

(* Who subscribes while the decoder is there exists.                       *)
LEMMA SubscribersExist ==
  ASSUME ObjectsInv, HasDecoder, NEW k \in Kinds
  PROVE  /\ subscribers[k] = WithDecoder(k)
         /\ \A i \in 1 .. Len(subscribers[k]) : subscribers[k][i] \in alive
<1>1. subscribers[k] = WithDecoder(k) /\ alive = {Touchscreen, Listener, Decoder}
  BY DEF ObjectsInv, Subscribed, Here
<1>2. WithDecoder(k) \in Seq({Touchscreen, Listener, Decoder})
  BY ListsOfStages
<1>3. QED
  BY <1>1, <1>2

(***************************************************************************)
(* Who changes what.                                                       *)
(***************************************************************************)
Threads == InputSteps \/ DispatchSteps \/ HostTerminates \/ HostCloses

(* The workers and the host leave the objects and the lists to main.       *)
LEMMA ThreadsKeep ==
  ASSUME Threads
  PROVE  UNCHANGED <<main, session, alive, subscribers>>
<1>1. CASE InputSteps
  BY <1>1 DEF InputSteps, InputStart, InputCheck, InputTouch, InputHome, InputDead,
     UseDead, threads, bus
<1>2. CASE DispatchSteps
  BY <1>2 DEF DispatchSteps, DispatchStart, DispatchCheck, DispatchPop,
     DispatchSnapshot, DeliverTouchscreen, DeliverListenerTouch,
     DeliverListenerExit, DispatchClose, DeliverDecoder, DispatchDone, DispatchDead,
     UseDead, threads, bus
<1>3. CASE HostTerminates \/ HostCloses
  BY <1>3 DEF HostTerminates, HostCloses, bus
<1>4. QED
  BY <1>1, <1>2, <1>3 DEF Threads

(* The steps of main that build a stream, run it and undo it.              *)
Builds == StartSession \/ LaunchFails \/ CreateListener \/ SetupDecoder
Runs ==
  \/ ConnectionStarted \/ SpawnWorkers \/ LoopClosed \/ LoopAppEnds \/ LoopWaits
  \/ LoopWakes \/ LoopShouldClose \/ LoopShouldCloseStore \/ ReadText \/ ReadCode
Undoes == ConnectFails \/ StopConnection \/ DestroyListener \/ Report \/ Leave

LEMMA StepsOfNext ==
  Next => ~dangling /\ (Builds \/ Runs \/ Undoes \/ Threads)
BY DEF Next, MainSteps, Environment, Builds, Runs, Undoes, Threads

(* A running stream keeps its objects, too.                                *)
LEMMA RunsKeep ==
  ASSUME Runs
  PROVE  /\ HasDecoder /\ HasDecoder'
         /\ UNCHANGED <<input, session, alive, bus, touchVars, dangling>> \/ SpawnWorkers
BY DEF Runs, ConnectionStarted, SpawnWorkers, LoopClosed, LoopAppEnds, LoopWaits,
   LoopWakes, LoopShouldClose, LoopShouldCloseStore, ReadText, ReadCode, HasDecoder

(***************************************************************************)
(* What subscribes exists.                                                 *)
(***************************************************************************)

(* The invariant from the stage main reaches, when the stream is the same. *)
LEMMA SameStage ==
  ASSUME ObjectsInv, UNCHANGED <<session, alive, subscribers>>,
         HasDecoder' <=> HasDecoder, HasListener' <=> HasListener,
         HasTouchscreen' <=> HasTouchscreen
  PROVE  ObjectsInv'
<1>1. Here' = Here
  BY DEF Here, Touchscreen, Listener, Decoder
<1>2. \A k : Subscribed(k)' = Subscribed(k)
  BY DEF Subscribed, WithDecoder, WithListener, WithTouchscreen, Touchscreen,
     Listener, Decoder
<1>3. QED
  BY <1>1, <1>2 DEF ObjectsInv

LEMMA StepObjects ==
  ASSUME Types, ObjectsInv, [Next]_vars
  PROVE  ObjectsInv'
<1> USE DEF HasDecoder, HasListener, HasTouchscreen
<1>1. CASE UNCHANGED vars
  BY <1>1, SameStage DEF vars, threads, bus
<1>2. CASE Threads
  BY <1>2, ThreadsKeep, SameStage
<1>3. CASE Runs
  BY <1>3, SameStage DEF Runs, ConnectionStarted, SpawnWorkers, LoopClosed,
     LoopAppEnds, LoopWaits, LoopWakes, LoopShouldClose, LoopShouldCloseStore,
     ReadText, ReadCode, bus
<1>4. CASE LaunchFails \/ Report
  BY <1>4, SameStage DEF LaunchFails, Report, bus
<1>5. CASE StartSession
  <2> DEFINE t == <<"touchscreen", session + 1>>
  <2>1. Touchscreen' = t
    BY <1>5 DEF StartSession, Touchscreen
  <2>2. alive = {} /\ \A k \in Kinds : subscribers[k] = <<>>
    BY <1>5 DEF ObjectsInv, Here, Subscribed, StartSession
  <2>3. main' = "launch" /\ alive' = alive \cup {t}
        /\ subscribers' = [k \in Kinds |->
             IF k \in {"touch"} /\ t \notin ToSet(subscribers[k])
             THEN Append(subscribers[k], t) ELSE subscribers[k]]
    BY <1>5 DEF StartSession, Subscribe
  <2>4. Append(<<>>, t) = <<t>>
    OBVIOUS
  <2>5. t \notin ToSet(<<>>)
    BY DEF ToSet
  <2> HIDE DEF t
  <2>6. \A k \in Kinds : Subscribed(k)' = IF k = "touch" THEN <<t>> ELSE <<>>
    BY <2>1, <2>3 DEF Subscribed, WithTouchscreen
  <2>7. subscribers' = [k \in Kinds |-> Subscribed(k)']
    BY <2>2, <2>3, <2>4, <2>5, <2>6
  <2>8. QED
    BY <2>1, <2>2, <2>3, <2>7 DEF ObjectsInv, Here
<1>6. CASE CreateListener
  <2>1. /\ main = "launch" /\ main' = "connect" /\ session' = session
        /\ alive' = alive \cup {Listener}
        /\ subscribers' = [k \in Kinds |->
             IF k \in Kinds /\ Listener \notin ToSet(subscribers[k])
             THEN Append(subscribers[k], Listener) ELSE subscribers[k]]
    BY <1>6 DEF CreateListener, Construct, Subscribe
  <2>2. \A k \in Kinds : subscribers[k] = WithTouchscreen(k)
    BY <2>1 DEF ObjectsInv, Subscribed
  <2>3. \A k \in Kinds : Listener \notin ToSet(subscribers[k])
    BY <2>2, ListsOfStages
  <2>4. \A k \in Kinds : Subscribed(k)' = WithListener(k)
    BY <2>1 DEF Subscribed, WithListener, WithTouchscreen, Touchscreen, Listener
  <2>5. subscribers' = [k \in Kinds |-> Subscribed(k)']
    BY <2>1, <2>2, <2>3, <2>4 DEF WithListener
  <2>6. alive' = Here'
    BY <2>1 DEF ObjectsInv, Here, Touchscreen, Listener
  <2>7. QED
    BY <2>5, <2>6 DEF ObjectsInv
<1>7. CASE SetupDecoder
  <2>1. /\ main = "connect" /\ main' = "handshake" /\ session' = session
        /\ alive' = alive \cup {Decoder}
        /\ subscribers' = [k \in Kinds |->
             IF k \in Kinds /\ Decoder \notin ToSet(subscribers[k])
             THEN Append(subscribers[k], Decoder) ELSE subscribers[k]]
    BY <1>7 DEF SetupDecoder, Construct, Subscribe
  <2>2. \A k \in Kinds : subscribers[k] = WithListener(k)
    BY <2>1 DEF ObjectsInv, Subscribed
  <2>3. \A k \in Kinds : Decoder \notin ToSet(subscribers[k])
    BY <2>2, ListsOfStages
  <2>4. \A k \in Kinds : Subscribed(k)' = WithDecoder(k)
    BY <2>1 DEF Subscribed, WithDecoder, WithListener, WithTouchscreen, Touchscreen,
       Listener, Decoder
  <2>5. subscribers' = [k \in Kinds |-> Subscribed(k)']
    BY <2>1, <2>2, <2>3, <2>4 DEF WithDecoder
  <2>6. alive' = Here'
    BY <2>1 DEF ObjectsInv, Here, Touchscreen, Listener, Decoder
  <2>7. QED
    BY <2>5, <2>6 DEF ObjectsInv
<1>8. CASE ConnectFails \/ StopConnection
  <2>1. /\ main \in {"connect", "handshake", "stop"} /\ main' = "destroy"
        /\ session' = session /\ alive' = alive \ {Decoder}
        /\ subscribers' = [k \in Kinds |-> RemoveFirst(subscribers[k], Decoder)]
    BY <1>8 DEF ConnectFails, StopConnection, Destroy, Unsubscribe
  <2>2. \A k \in Kinds : subscribers[k] \in {WithListener(k), WithDecoder(k)}
    BY <2>1 DEF ObjectsInv, Subscribed
  <2>3. \A k \in Kinds : Subscribed(k)' = WithListener(k)
    BY <2>1 DEF Subscribed, WithListener, WithTouchscreen, Touchscreen, Listener
  <2>4. subscribers' = [k \in Kinds |-> Subscribed(k)']
    BY <2>1, <2>2, <2>3, LastOutFirst
  <2>5. alive' = Here'
    BY <2>1 DEF ObjectsInv, Here, Touchscreen, Listener, Decoder
  <2>6. QED
    BY <2>4, <2>5 DEF ObjectsInv
<1>9. CASE DestroyListener
  <2>1. /\ main = "destroy" /\ main' = "report"
        /\ session' = session /\ alive' = alive \ {Listener}
        /\ subscribers' = [k \in Kinds |-> RemoveFirst(subscribers[k], Listener)]
    BY <1>9 DEF DestroyListener, Destroy, Unsubscribe
  <2>2. \A k \in Kinds : subscribers[k] = WithListener(k)
    BY <2>1 DEF ObjectsInv, Subscribed
  <2>3. \A k \in Kinds : Subscribed(k)' = WithTouchscreen(k)
    BY <2>1 DEF Subscribed, WithTouchscreen, Touchscreen
  <2>4. subscribers' = [k \in Kinds |-> Subscribed(k)']
    BY <2>1, <2>2, <2>3, LastOutFirst
  <2>5. alive' = Here'
    BY <2>1 DEF ObjectsInv, Here, Touchscreen, Listener
  <2>6. QED
    BY <2>4, <2>5 DEF ObjectsInv
<1>10. CASE Leave
  <2>1. /\ main = "leave" /\ main' \in {"exited", "menu"}
        /\ alive' = alive \ {Touchscreen}
        /\ subscribers' = [k \in Kinds |-> RemoveFirst(subscribers[k], Touchscreen)]
    BY <1>10 DEF Leave, Destroy, Unsubscribe
  <2>2. \A k \in Kinds : subscribers[k] = WithTouchscreen(k)
    BY <2>1 DEF ObjectsInv, Subscribed
  <2>3. \A k \in Kinds : Subscribed(k)' = <<>>
    BY <2>1 DEF Subscribed
  <2>4. subscribers' = [k \in Kinds |-> Subscribed(k)']
    BY <2>1, <2>2, <2>3, LastOutFirst
  <2>5. alive' = Here'
    BY <2>1 DEF ObjectsInv, Here
  <2>6. QED
    BY <2>4, <2>5 DEF ObjectsInv
<1>11. QED
  BY <1>1, <1>2, <1>3, <1>4, <1>5, <1>6, <1>7, <1>8, <1>9, <1>10, StepsOfNext
     DEF Builds, Undoes

(***************************************************************************)
(* The workers.                                                            *)
(***************************************************************************)

(* No thread finds a destroyed object before the decoder is.               *)
LEMMA NoDeadWithDecoder ==
  ASSUME Types, ObjectsInv, WorkersInv, HasDecoder, InputDead \/ DispatchDead
  PROVE  FALSE
<1>1. {Touchscreen, Listener, Decoder} \subseteq alive
  BY DEF ObjectsInv, Here
<1>2. \A obj \in {Touchscreen, Listener} : ~UseDead(obj)
  BY <1>1 DEF UseDead
<1>3. snapshot # <<>> => ~UseDead(Head(snapshot))
  <2>1. snapshot # <<>> => Head(snapshot) = snapshot[1] /\ 1 \in 1 .. Len(snapshot)
    BY DEF Types, MessageTypes
  <2>2. QED
    BY <2>1 DEF WorkersInv, UseDead
<1>4. QED
  BY <1>2, <1>3 DEF InputDead, DispatchDead

LEMMA StepWorkers ==
  ASSUME Types, ObjectsInv, WorkersInv, [Next]_vars
  PROVE  WorkersInv'
<1> USE DEF WorkersInv, Streaming
<1>1. CASE UNCHANGED vars
  BY <1>1 DEF vars, threads, bus, HasDecoder
<1>2. CASE Builds
  <2>1. UNCHANGED <<input, dispatch, snapshot, dangling>>
    BY <1>2 DEF Builds, StartSession, LaunchFails, CreateListener, SetupDecoder, bus
  <2>2. input = "none" /\ dispatch = "none"
    BY <1>2 DEF Builds, StartSession, LaunchFails, CreateListener, SetupDecoder
  <2>3. main' \in {"launch", "leave", "connect", "handshake"}
    BY <1>2 DEF Builds, StartSession, LaunchFails, CreateListener, SetupDecoder
  <2>4. snapshot' = <<>>
    BY <2>1, <2>2
  <2>5. QED
    BY <2>1, <2>2, <2>3, <2>4
<1>3. CASE Runs /\ ~dangling
  <2>1. HasDecoder /\ UNCHANGED <<alive, snapshot, dangling>>
    BY <1>3, RunsKeep DEF SpawnWorkers, bus
  <2>2. main' \in {"launch", "connect", "handshake", "spawn"} =>
          main = "handshake" /\ UNCHANGED <<input, dispatch>>
    BY <1>3 DEF Runs, ConnectionStarted, SpawnWorkers, LoopClosed, LoopAppEnds,
       LoopWaits, LoopWakes, LoopShouldClose, LoopShouldCloseStore, ReadText, ReadCode
  <2>3. dispatch' = dispatch \/ (dispatch' = "start" /\ main = "spawn")
    BY <1>3 DEF Runs, ConnectionStarted, SpawnWorkers, LoopClosed, LoopAppEnds,
       LoopWaits, LoopWakes, LoopShouldClose, LoopShouldCloseStore, ReadText, ReadCode
  <2>4. QED
    BY <1>3, <2>1, <2>2, <2>3
<1>4. CASE Undoes /\ ~dangling
  <2>1. UNCHANGED <<dispatch, snapshot, dangling>>
    BY <1>4 DEF Undoes, ConnectFails, StopConnection, DestroyListener, Report, Leave, bus
  <2>2. main' \in {"destroy", "report", "leave", "menu", "exited"}
    BY <1>4 DEF Undoes, ConnectFails, StopConnection, DestroyListener, Report, Leave
  <2>3. QED
    BY <2>1, <2>2 DEF HasDecoder
<1>5. CASE Threads /\ ~dangling
  <2>1. UNCHANGED <<main, session, alive, subscribers>>
    BY <1>5, ThreadsKeep
  <2>2. main \in {"launch", "connect", "handshake", "spawn"} =>
          UNCHANGED <<input, dispatch>>
    BY <1>5, <2>1 DEF Threads, InputSteps, InputStart, InputCheck, InputTouch, InputHome,
       InputDead, DispatchSteps, DispatchStart, DispatchCheck, DispatchPop,
       DispatchSnapshot, DeliverTouchscreen, DeliverListenerTouch,
       DeliverListenerExit, DispatchClose, DeliverDecoder, DispatchDone,
       DispatchDead, Receiver, HostTerminates, HostCloses
  <2>3. dangling' => ~Streaming'
    <3>1. CASE InputDead \/ DispatchDead
      <4>1. ~HasDecoder
        BY <3>1, NoDeadWithDecoder
      <4>2. QED
        BY <2>1, <4>1 DEF HasDecoder
    <3>2. CASE ~InputDead /\ ~DispatchDead
      <4>1. dangling' = dangling
        BY <1>5, <3>2 DEF Threads, InputSteps, InputStart, InputCheck, InputTouch,
           InputHome, DispatchSteps, DispatchStart, DispatchCheck, DispatchPop,
           DispatchSnapshot, DeliverTouchscreen, DeliverListenerTouch,
           DeliverListenerExit, DispatchClose, DeliverDecoder, DispatchDone,
           HostTerminates, HostCloses
      <4>2. QED
        BY <1>5, <4>1
    <3>3. QED
      BY <3>1, <3>2
  <2>4. /\ dispatch' \notin {"deliver", "close"} => snapshot' = <<>>
        /\ HasDecoder => \A i \in 1 .. Len(snapshot') : snapshot'[i] \in alive
    <3>1. CASE DispatchSnapshot
      <4>1. snapshot' = subscribers[msg.kind] /\ dispatch' = "deliver" /\ msg.kind \in Kinds
        BY <3>1 DEF DispatchSnapshot, Types, MessageTypes, Messages
      <4>2. QED
        BY <4>1, SubscribersExist
    <3>2. CASE DeliverTouchscreen \/ DeliverListenerTouch \/ DeliverListenerExit
               \/ DeliverDecoder
      <4>1. snapshot # <<>> /\ snapshot' = Tail(snapshot) /\ dispatch' \in {"deliver", "close"}
        BY <3>2 DEF DeliverTouchscreen, DeliverListenerTouch, DeliverListenerExit,
           DeliverDecoder, Receiver, threads
      <4>2. \A i \in 1 .. Len(snapshot') : i + 1 \in 1 .. Len(snapshot)
                                         /\ snapshot'[i] = snapshot[i + 1]
        BY <4>1 DEF Types, MessageTypes
      <4>3. QED
        BY <4>1, <4>2
    <3>3. CASE \/ DispatchStart \/ DispatchCheck \/ DispatchPop \/ DispatchClose
               \/ DispatchDone \/ DispatchDead
      BY <3>3 DEF DispatchStart, DispatchCheck, DispatchPop, DispatchClose,
         DispatchDone, DispatchDead, UseDead, threads, bus
    <3>4. CASE InputSteps \/ HostTerminates \/ HostCloses
      <4>1. UNCHANGED <<dispatch, snapshot>>
        BY <3>4 DEF InputSteps, InputStart, InputCheck, InputTouch, InputHome,
           InputDead, UseDead, HostTerminates, HostCloses, threads, bus
      <4>2. QED
        BY <4>1
    <3>5. QED
      BY <1>5, <3>1, <3>2, <3>3, <3>4 DEF Threads, DispatchSteps
  <2>5. QED
    BY <2>1, <2>2, <2>3, <2>4 DEF HasDecoder
<1>6. QED
  BY <1>1, <1>2, <1>3, <1>4, <1>5, StepsOfNext

(***************************************************************************)
(* The modes.                                                              *)
(***************************************************************************)
LEMMA StepFresh ==
  ASSUME Types, ObjectsInv, WorkersInv, FreshInv, CauseInv, [Next]_vars
  PROVE  FreshInv'
<1> USE DEF FreshInv, HasDecoder, HasListener, HasTouchscreen
<1>1. CASE UNCHANGED vars
  BY <1>1 DEF vars, threads, touchVars, ending
<1>2. CASE Builds
  BY <1>2 DEF Builds, StartSession, LaunchFails, CreateListener, SetupDecoder,
     touchVars, ending
<1>3. CASE Runs
  BY <1>3 DEF Runs, ConnectionStarted, SpawnWorkers, LoopClosed, LoopAppEnds,
     LoopWaits, LoopWakes, LoopShouldClose, LoopShouldCloseStore, ReadText, ReadCode,
     touchVars, ending
<1>4. CASE Undoes
  BY <1>4 DEF Undoes, ConnectFails, StopConnection, DestroyListener, Report, Leave,
     touchVars, ending
<1>5. CASE Threads
  <2>1. UNCHANGED main
    BY <1>5, ThreadsKeep
  <2> USE <2>1
  <2>2. CASE InputSteps
    BY <2>2 DEF InputSteps, InputStart, InputCheck, InputTouch, InputHome, InputDead,
       UseDead, touchVars, ending
  <2>3. CASE HostTerminates \/ HostCloses
    BY <2>3 DEF HostTerminates, HostCloses, CauseInv, touchVars, ending
  <2>4. CASE DispatchStart \/ DispatchCheck \/ DispatchPop \/ DispatchSnapshot
             \/ DispatchDone \/ DispatchDead
    BY <2>4 DEF DispatchStart, DispatchCheck, DispatchPop, DispatchSnapshot,
       DispatchDone, DispatchDead, UseDead, touchVars, ending
  <2>5. CASE DispatchClose
    BY <2>5 DEF DispatchClose, ObjectsInv, Here, Touchscreen, Listener, Decoder,
       WorkersInv, touchVars
  <2>6. CASE DeliverTouchscreen \/ DeliverListenerTouch \/ DeliverListenerExit
             \/ DeliverDecoder
    <3>1. dispatch = "deliver" /\ Head(snapshot) \in alive
      BY <2>6 DEF DeliverTouchscreen, DeliverListenerTouch, DeliverListenerExit,
         DeliverDecoder, Receiver
    <3>2. main \notin {"launch", "connect", "handshake", "spawn"}
      BY <3>1 DEF WorkersInv
    <3>3. CASE DeliverTouchscreen
      <4>1. HasTouchscreen
        BY <3>1 DEF ObjectsInv, Here
      <4>2. QED
        BY <3>2, <3>3, <4>1 DEF DeliverTouchscreen, ending
    <3>4. CASE DeliverListenerTouch \/ DeliverListenerExit
      <4>1. Head(snapshot)[1] = "listener"
        BY <3>4 DEF DeliverListenerTouch, DeliverListenerExit, Receiver
      <4>2. HasListener
        BY <3>1, <4>1 DEF ObjectsInv, Here, Touchscreen
      <4>3. QED
        BY <3>2, <3>4, <4>2 DEF DeliverListenerTouch, DeliverListenerExit, touchVars, ending
    <3>5. CASE DeliverDecoder
      <4>1. Head(snapshot)[1] = "decoder"
        BY <3>5 DEF DeliverDecoder, Receiver
      <4>2. HasDecoder
        BY <3>1, <4>1 DEF ObjectsInv, Here, Touchscreen, Listener
      <4>3. QED
        BY <3>2, <3>5, <4>2 DEF DeliverDecoder, ending
    <3>6. QED
      BY <2>6, <3>3, <3>4, <3>5
  <2>7. QED
    BY <1>5, <2>2, <2>3, <2>4, <2>5, <2>6 DEF Threads, DispatchSteps
<1>6. QED
  BY <1>1, <1>2, <1>3, <1>4, <1>5, StepsOfNext

LEMMA StepDelivery ==
  ASSUME Types, ObjectsInv, WorkersInv, FreshInv, DeliveryInv, [Next]_vars
  PROVE  DeliveryInv'
<1> SUFFICES ASSUME Streaming', ~closed'
             PROVE  /\ dispatch' \in {"start", "check", "pop", "snapshot", "close"} => Agree'
                    /\ dispatch' = "deliver" =>
                         \/ Agree' /\ snapshot' \in {<<>>, WithDecoder(msg.kind)'}
                         \/ /\ msg'.kind = "touch" /\ nextTouch' = msg'.mode
                            /\ \/ snapshot' = <<Listener', Decoder'>>
                               \/ snapshot' = <<Decoder'>> /\ (debug' <=> msg'.mode = Debug)
  BY DEF DeliveryInv
<1> USE DEF Streaming
(* The lists, as the stream is the same.                                   *)
<1>1. ASSUME UNCHANGED <<session, msg>>
      PROVE  /\ Listener' = Listener /\ Decoder' = Decoder
             /\ WithDecoder(msg.kind)' = WithDecoder(msg.kind)
  BY <1>1 DEF WithDecoder, WithListener, WithTouchscreen, Touchscreen, Listener, Decoder
<1>2. CASE UNCHANGED vars
  BY <1>1, <1>2 DEF vars, threads, touchVars, ending, bus, DeliveryInv, Agree
<1>3. CASE Builds \/ Undoes
  BY <1>3 DEF Builds, StartSession, LaunchFails, CreateListener, SetupDecoder,
     Undoes, ConnectFails, StopConnection, DestroyListener, Report, Leave
<1>4. CASE SpawnWorkers
  BY <1>4, ModesAssumption DEF SpawnWorkers, FreshInv, Agree, touchVars
<1>5. CASE Runs /\ ~SpawnWorkers
  <2>1. Streaming /\ ~closed /\ UNCHANGED <<session, dispatch, bus, touchVars>>
    BY <1>5 DEF Runs, ConnectionStarted, LoopClosed, LoopAppEnds, LoopWaits, LoopWakes,
       LoopShouldClose, LoopShouldCloseStore, ReadText, ReadCode, ending
  <2>2. QED
    BY <1>1, <2>1 DEF bus, touchVars, DeliveryInv, Agree
<1>6. CASE Threads
  <2>1. UNCHANGED <<main, session>> /\ HasDecoder
    BY <1>6, ThreadsKeep DEF HasDecoder
  <2>2. CASE InputSteps \/ HostTerminates \/ HostCloses
    <3>1. ~closed /\ UNCHANGED <<dispatch, snapshot, msg, nextTouch, renderer, debug>>
      BY <2>2 DEF InputSteps, InputStart, InputCheck, InputTouch, InputHome, InputDead,
         UseDead, HostTerminates, HostCloses, threads, bus, touchVars, ending
    <3>2. QED
      BY <1>1, <2>1, <3>1 DEF DeliveryInv, Agree
  <2>3. CASE DispatchStart \/ DispatchCheck \/ DispatchPop \/ DispatchClose \/ DispatchDead
    <3>1. CASE DispatchStart \/ DispatchCheck
      BY <2>1, <3>1 DEF DispatchStart, DispatchCheck, DeliveryInv, Agree, touchVars, ending
    <3>2. CASE DispatchPop
      BY <2>1, <3>2 DEF DispatchPop, DeliveryInv, Agree, touchVars, ending
    <3>3. CASE DispatchClose \/ DispatchDead
      BY <2>1, <3>3, NoDeadWithDecoder DEF DispatchClose
    <3>4. QED
      BY <2>3, <3>1, <3>2, <3>3
  <2>4. CASE DispatchSnapshot
    <3>1. /\ snapshot' = subscribers[msg.kind] /\ msg' = msg /\ msg.kind \in Kinds
          /\ dispatch = "snapshot" /\ UNCHANGED <<touchVars, ending>>
      BY <2>4 DEF DispatchSnapshot, Types, MessageTypes, Messages
    <3>2. snapshot' = WithDecoder(msg.kind)
      BY <2>1, <3>1, SubscribersExist
    <3>3. QED
      BY <1>1, <2>1, <3>1, <3>2 DEF DeliveryInv, Agree, touchVars, ending
  <2>5. CASE DispatchDone
    BY <2>1, <2>5 DEF DispatchDone, DeliveryInv, Agree, touchVars, ending
  <2>6. CASE DeliverTouchscreen \/ DeliverListenerTouch \/ DeliverListenerExit
             \/ DeliverDecoder
    <3>1. /\ dispatch = "deliver" /\ snapshot # <<>> /\ msg' = msg
          /\ snapshot' = Tail(snapshot) /\ ~closed
      BY <2>6 DEF DeliverTouchscreen, DeliverListenerTouch, DeliverListenerExit,
         DeliverDecoder, Receiver, ending
    <3>2. msg.kind \in Kinds /\ Kinds = {"touch", "exit"}
      BY <3>1 DEF Types, MessageTypes, Messages, Kinds
    <3>3. /\ WithDecoder("touch") = <<Touchscreen, Listener, Decoder>>
          /\ WithDecoder("exit") = <<Listener, Decoder>>
      BY ListsOfStages DEF Kinds
    <3>4. \/ snapshot = <<Touchscreen, Listener, Decoder>> /\ msg.kind = "touch" /\ Agree
          \/ snapshot = <<Listener, Decoder>> /\ msg.kind = "exit" /\ Agree
          \/ snapshot = <<Listener, Decoder>> /\ msg.kind = "touch" /\ nextTouch = msg.mode
          \/ /\ snapshot = <<Decoder>> /\ msg.kind = "touch" /\ nextTouch = msg.mode
             /\ debug <=> msg.mode = Debug
      BY <2>1, <3>1, <3>2, <3>3 DEF DeliveryInv
    <3>5. /\ Touchscreen[1] = "touchscreen" /\ Listener[1] = "listener"
          /\ Decoder[1] = "decoder"
      BY DEF Touchscreen, Listener, Decoder
    <3>6. CASE DeliverTouchscreen
      <4>1. Head(snapshot)[1] = "touchscreen" /\ nextTouch' = msg.mode /\ dispatch' = dispatch
        BY <3>6 DEF DeliverTouchscreen, Receiver, threads
      <4>2. snapshot = <<Touchscreen, Listener, Decoder>> /\ msg.kind = "touch"
        BY <3>4, <3>5, <4>1
      <4>3. snapshot' = <<Listener, Decoder>>
        BY <3>1, <4>2
      <4>4. QED
        BY <1>1, <2>1, <3>1, <4>1, <4>2, <4>3
    <3>7. CASE DeliverListenerTouch
      <4>1. /\ Head(snapshot)[1] = "listener" /\ msg.kind = "touch"
            /\ debug' = (msg.mode = Debug) /\ UNCHANGED <<dispatch, nextTouch, renderer>>
        BY <3>7 DEF DeliverListenerTouch, Receiver, threads
      <4>2. snapshot = <<Listener, Decoder>> /\ nextTouch = msg.mode
        BY <3>4, <3>5, <4>1
      <4>3. snapshot' = <<Decoder>>
        BY <3>1, <4>2
      <4>4. QED
        BY <1>1, <2>1, <3>1, <4>1, <4>2, <4>3
    <3>8. CASE DeliverListenerExit
      <4>1. /\ Head(snapshot)[1] = "listener" /\ msg.kind = "exit"
            /\ dispatch' = "close" /\ UNCHANGED touchVars
        BY <3>8 DEF DeliverListenerExit, Receiver
      <4>2. Agree
        BY <3>4, <3>5, <4>1
      <4>3. QED
        BY <4>1, <4>2 DEF Agree, touchVars
    <3>9. CASE DeliverDecoder
      <4>1. /\ Head(snapshot)[1] = "decoder" /\ UNCHANGED <<dispatch, nextTouch, debug>>
            /\ renderer' = IF msg.kind = "exit" THEN Disabled ELSE msg.mode
        BY <3>9 DEF DeliverDecoder, Receiver, threads
      <4>2. /\ snapshot = <<Decoder>> /\ msg.kind = "touch" /\ nextTouch = msg.mode
            /\ debug <=> msg.mode = Debug
        BY <3>4, <3>5, <4>1
      <4>3. snapshot' = <<>>
        BY <3>1, <4>2
      <4>4. QED
        BY <3>1, <4>1, <4>2, <4>3 DEF Agree
    <3>10. QED
      BY <2>6, <3>6, <3>7, <3>8, <3>9
  <2>7. QED
    BY <1>6, <2>2, <2>3, <2>4, <2>5, <2>6 DEF Threads, DispatchSteps
<1>7. QED
  BY <1>2, <1>3, <1>4, <1>5, <1>6, StepsOfNext

(***************************************************************************)
(* The end of a stream.                                                    *)
(***************************************************************************)
LEMMA StepCause ==
  ASSUME Types, ObjectsInv, WorkersInv, FreshInv, CauseInv, ReasonInv, [Next]_vars
  PROVE  CauseInv' /\ ReasonInv'
<1> USE DEF CauseInv, ReasonInv, HasDecoder, HasListener, Undone
<1>1. CASE UNCHANGED vars
  BY <1>1 DEF vars, threads, ending
<1>2. CASE StartSession \/ LaunchFails \/ CreateListener
  BY <1>2 DEF StartSession, LaunchFails, CreateListener, WorkersInv, FreshInv,
     NothingShown, HasTouchscreen, ending
<1>3. CASE SetupDecoder
  BY <1>3 DEF SetupDecoder, WorkersInv, NothingShown, ending
<1>4. CASE ConnectionStarted \/ SpawnWorkers
  BY <1>4 DEF ConnectionStarted, SpawnWorkers, ending, Types, EndTypes
<1>5. CASE LoopClosed \/ LoopAppEnds \/ LoopWaits \/ LoopWakes
  BY <1>5 DEF LoopClosed, LoopAppEnds, LoopWaits, LoopWakes, ending, Types, EndTypes
<1>6. CASE LoopShouldClose \/ LoopShouldCloseStore
  BY <1>6 DEF LoopShouldClose, LoopShouldCloseStore, ending, Types, EndTypes
<1>7. CASE ReadText
  BY <1>7 DEF ReadText, ending, Types, EndTypes
<1>8. CASE ReadCode
  BY <1>8 DEF ReadCode, ending, Types, EndTypes
<1>9. CASE ConnectFails
  BY <1>9 DEF ConnectFails, ending, Types, EndTypes, NothingShown
<1>10. CASE StopConnection
  BY <1>10 DEF StopConnection, ending, Types, EndTypes
<1>11. CASE DestroyListener
  BY <1>11 DEF DestroyListener, Types, EndTypes
<1>12. CASE Report
  BY <1>12 DEF Report, ending, Types, EndTypes
<1>13. CASE Leave
  BY <1>13 DEF Leave, ending, Types, EndTypes, FreshInv, NothingShown
<1>14. CASE Threads
  <2>1. UNCHANGED main
    BY <1>14, ThreadsKeep
  <2> USE <2>1
  <2>2. CASE InputSteps
    BY <2>2 DEF InputSteps, InputStart, InputCheck, InputTouch, InputHome, InputDead,
       UseDead, threads, ending
  <2>3. CASE HostTerminates \/ HostCloses
    BY <2>3 DEF HostTerminates, HostCloses, Types, EndTypes
  <2>4. CASE \/ DispatchStart \/ DispatchCheck \/ DispatchPop \/ DispatchSnapshot
             \/ DispatchDone \/ DispatchDead \/ DeliverTouchscreen
             \/ DeliverListenerTouch \/ DeliverDecoder
    BY <2>4 DEF DispatchStart, DispatchCheck, DispatchPop, DispatchSnapshot,
       DispatchDone, DispatchDead, DeliverTouchscreen, DeliverListenerTouch,
       DeliverDecoder, UseDead, threads, ending
  <2>5. CASE DeliverListenerExit
    <3>1. /\ dispatch = "deliver" /\ dispatch' = "close" /\ Head(snapshot) \in alive
          /\ error' = 0 /\ causes' = causes \cup {"user"}
          /\ UNCHANGED <<host, closed, hostError, shown>>
      BY <2>5 DEF DeliverListenerExit, Receiver
    <3>2. main \notin {"launch", "connect", "handshake", "spawn"}
      BY <3>1 DEF WorkersInv
    <3>3. HasDecoder \/ Undone
      BY <3>1, <3>2 DEF ObjectsInv, Here, HasTouchscreen
    <3>4. QED
      BY <3>1, <3>2, <3>3
  <2>6. CASE DispatchClose
    BY <2>6 DEF DispatchClose, ending, ObjectsInv, Here, Touchscreen, Listener
  <2>7. QED
    BY <1>14, <2>2, <2>3, <2>4, <2>5, <2>6 DEF Threads, DispatchSteps
<1>15. QED
  BY <1>1, <1>2, <1>3, <1>4, <1>5, <1>6, <1>7, <1>8, <1>9, <1>10, <1>11, <1>12,
     <1>13, <1>14, StepsOfNext DEF Builds, Runs, Undoes

(***************************************************************************)
(* The types.                                                              *)
(***************************************************************************)
LEMMA QueueTypes ==
  ASSUME NEW q \in Seq(Messages)
  PROVE  /\ \A m \in Messages : Append(q, m) \in Seq(Messages)
         /\ q # <<>> => Tail(q) \in Seq(Messages) /\ Head(q) \in Messages
OBVIOUS

(* What the workers post are messages of the stream.                       *)
LEMMA PostedAreMessages ==
  ASSUME Types, session # 0
  PROVE  /\ \A m \in AllModes : TouchMsg(m) \in Messages
         /\ ExitMsg \in Messages
BY DEF Types, PlaceTypes, TouchMsg, ExitMsg, Messages, Kinds, AllModes

LEMMA StepPlaceTypes ==
  ASSUME Types, ObjectsInv, WorkersInv, [Next]_vars
  PROVE  PlaceTypes'
<1> USE BoundsAssumption DEF Types, PlaceTypes, MainPC, InputPC, DispatchPC
<1>1. CASE UNCHANGED vars
  BY <1>1 DEF vars, threads
<1>2. CASE Builds
  BY <1>2 DEF Builds, StartSession, LaunchFails, CreateListener, SetupDecoder
<1>3. CASE Runs
  BY <1>3 DEF Runs, ConnectionStarted, SpawnWorkers, LoopClosed, LoopAppEnds,
     LoopWaits, LoopWakes, LoopShouldClose, LoopShouldCloseStore, ReadText, ReadCode
<1>4. CASE Undoes
  BY <1>4 DEF Undoes, ConnectFails, StopConnection, DestroyListener, Report, Leave
<1>5. CASE InputSteps
  BY <1>5 DEF InputSteps, InputStart, InputCheck, InputTouch, InputHome, InputDead,
     UseDead, threads
<1>6. CASE DispatchSteps
  BY <1>6 DEF DispatchSteps, DispatchStart, DispatchCheck, DispatchPop,
     DispatchSnapshot, DeliverTouchscreen, DeliverListenerTouch, DeliverListenerExit,
     DispatchClose, DeliverDecoder, DispatchDone, DispatchDead, Receiver, UseDead, threads
<1>7. CASE HostTerminates \/ HostCloses
  BY <1>7 DEF HostTerminates, HostCloses
<1>8. QED
  BY <1>1, <1>2, <1>3, <1>4, <1>5, <1>6, <1>7, StepsOfNext DEF Threads

LEMMA StepMessageTypes ==
  ASSUME Types, ObjectsInv, WorkersInv, [Next]_vars
  PROVE  MessageTypes'
<1>0. MaxPosts \in Nat
  BY BoundsAssumption
<1> USE <1>0 DEF Types, MessageTypes
<1>1. ASSUME UNCHANGED <<dispatch, queue, snapshot, msg, posts>> PROVE MessageTypes'
  BY <1>1
<1>2. CASE UNCHANGED vars
  BY <1>1, <1>2 DEF vars, threads, bus, touchVars
<1>3. CASE Builds \/ Undoes
  BY <1>1, <1>3 DEF Builds, StartSession, LaunchFails, CreateListener, SetupDecoder,
     Undoes, ConnectFails, StopConnection, DestroyListener, Report, Leave, bus, touchVars
<1>4. CASE Runs
  <2>1. UNCHANGED <<queue, snapshot, msg, posts>>
        /\ (dispatch' = dispatch \/ dispatch' = "start")
    BY <1>4 DEF Runs, ConnectionStarted, SpawnWorkers, LoopClosed, LoopAppEnds,
       LoopWaits, LoopWakes, LoopShouldClose, LoopShouldCloseStore, ReadText, ReadCode,
       bus, touchVars
  <2>2. QED
    BY <2>1
<1>5. CASE InputSteps
  <2>1. UNCHANGED <<dispatch, snapshot, msg>>
    BY <1>5 DEF InputSteps, InputStart, InputCheck, InputTouch, InputHome, InputDead,
       UseDead, threads, bus
  <2>2. session # 0 /\ Menu \in AllModes /\ Modes \subseteq AllModes
    BY <1>5 DEF InputSteps, InputStart, InputCheck, InputTouch, InputHome, InputDead,
       PlaceTypes, AllModes
  <2>3. \A m \in AllModes : TouchMsg(m) \in Messages
    BY <2>2, PostedAreMessages
  <2>4. ExitMsg \in Messages
    BY <2>2, PostedAreMessages
  <2>5. \/ UNCHANGED <<queue, posts>>
        \/ (posts' = posts \/ (posts < MaxPosts /\ posts' = posts + 1))
             /\ \E m \in Messages : queue' = Append(queue, m)
    <3>1. CASE InputStart
      BY <2>2, <2>3, <3>1 DEF InputStart, Post, touchVars
    <3>2. CASE InputTouch
      BY <2>2, <2>3, <2>4, <3>2 DEF InputTouch, Post
    <3>3. CASE InputHome
      BY <2>2, <2>3, <3>3 DEF InputHome, Post
    <3>4. CASE InputCheck \/ InputDead
      BY <3>4 DEF InputCheck, InputDead, UseDead, bus, touchVars
    <3>5. QED
      BY <1>5, <3>1, <3>2, <3>3, <3>4 DEF InputSteps
  <2>6. queue' \in Seq(Messages)
    BY <2>5, QueueTypes
  <2>7. posts' \in 0 .. MaxPosts
    BY <2>5
  <2>8. QED
    BY <2>1, <2>6, <2>7
<1>6. CASE DispatchSteps
  <2>1. posts' = posts
    BY <1>6 DEF DispatchSteps, DispatchStart, DispatchCheck, DispatchPop,
       DispatchSnapshot, DeliverTouchscreen, DeliverListenerTouch,
       DeliverListenerExit, DispatchClose, DeliverDecoder, DispatchDone, DispatchDead,
       UseDead, touchVars
  <2>2. CASE DispatchStart \/ DispatchCheck \/ DispatchClose \/ DispatchDead
    <3>1. UNCHANGED <<queue, snapshot, msg>>
      BY <2>2 DEF DispatchStart, DispatchCheck, DispatchClose, DispatchDead, UseDead, bus
    <3>2. dispatch' \in {"check", "none", "pop"} \/ dispatch' = dispatch
          \/ dispatch = "close"
      BY <2>2 DEF DispatchStart, DispatchCheck, DispatchClose, DispatchDead, UseDead, threads
    <3>3. QED
      BY <2>1, <3>1, <3>2
  <2>3. CASE DispatchPop
    <3>1. queue' \in Seq(Messages)
      BY <2>3, QueueTypes DEF DispatchPop
    <3>2. dispatch' \in {"snapshot", "deliver", "close"} => msg' \in Messages
      BY <2>3, QueueTypes DEF DispatchPop
    <3>3. QED
      BY <2>1, <2>3, <3>1, <3>2 DEF DispatchPop
  <2>4. CASE DispatchSnapshot
    <3>1. /\ snapshot' = subscribers[msg.kind] /\ dispatch = "snapshot"
          /\ UNCHANGED <<queue, msg>>
      BY <2>4 DEF DispatchSnapshot
    <3>2. msg.kind \in Kinds
      BY <3>1 DEF Messages
    <3>3. snapshot' = Subscribed(msg.kind)
      BY <3>1, <3>2 DEF ObjectsInv
    <3>4. session \in 1 .. MaxSessions
      BY <3>1, BoundsAssumption DEF PlaceTypes
    <3>5. {Touchscreen} \subseteq Objects /\ {Touchscreen, Listener} \subseteq Objects
          /\ {Touchscreen, Listener, Decoder} \subseteq Objects
      BY <3>4 DEF Touchscreen, Listener, Decoder, Objects
    <3>6. WithTouchscreen(msg.kind) \in Seq(Objects)
      BY <3>2, <3>5, ListsOfStages, SeqMonotonic
    <3>7. WithListener(msg.kind) \in Seq(Objects)
      BY <3>2, <3>5, ListsOfStages, SeqMonotonic
    <3>8. WithDecoder(msg.kind) \in Seq(Objects)
      BY <3>2, <3>5, ListsOfStages, SeqMonotonic
    <3>9. <<>> \in Seq(Objects)
      OBVIOUS
    <3>10. snapshot' \in Seq(Objects)
      BY <3>3, <3>6, <3>7, <3>8, <3>9 DEF Subscribed
    <3>11. QED
      BY <2>1, <3>1, <3>10
  <2>5. CASE \/ DeliverTouchscreen \/ DeliverListenerTouch \/ DeliverListenerExit
             \/ DeliverDecoder
    <3>1. /\ dispatch = "deliver" /\ snapshot # <<>> /\ snapshot' = Tail(snapshot)
          /\ UNCHANGED <<queue, msg>>
      BY <2>5 DEF DeliverTouchscreen, DeliverListenerTouch, DeliverListenerExit,
         DeliverDecoder, Receiver
    <3>2. QED
      BY <2>1, <3>1
  <2>6. CASE DispatchDone
    BY <2>1, <2>6 DEF DispatchDone
  <2>7. QED
    BY <1>6, <2>2, <2>3, <2>4, <2>5, <2>6 DEF DispatchSteps
<1>7. CASE HostTerminates \/ HostCloses
  BY <1>1, <1>7 DEF HostTerminates, HostCloses, bus, touchVars
<1>8. QED
  BY <1>2, <1>3, <1>4, <1>5, <1>6, <1>7, StepsOfNext DEF Threads

LEMMA StepModeTypes ==
  ASSUME Types, [Next]_vars
  PROVE  ModeTypes'
<1>0. Disabled \in AllModes
  BY DEF AllModes
<1> USE <1>0 DEF Types, ModeTypes
<1>1. CASE UNCHANGED vars
  BY <1>1 DEF vars, touchVars
<1>2. CASE Builds \/ Undoes
  BY <1>2 DEF Builds, StartSession, LaunchFails, CreateListener, SetupDecoder,
     Undoes, ConnectFails, StopConnection, DestroyListener, Report, Leave, touchVars
<1>3. CASE Runs
  BY <1>3 DEF Runs, ConnectionStarted, SpawnWorkers, LoopClosed, LoopAppEnds,
     LoopWaits, LoopWakes, LoopShouldClose, LoopShouldCloseStore, ReadText, ReadCode,
     touchVars
<1>4. CASE InputSteps
  BY <1>4 DEF InputSteps, InputStart, InputCheck, InputTouch, InputHome, InputDead,
     UseDead, touchVars
<1>5. CASE DispatchStart \/ DispatchCheck \/ DispatchPop \/ DispatchSnapshot
           \/ DispatchClose \/ DispatchDone \/ DispatchDead \/ DeliverListenerExit
  BY <1>5 DEF DispatchStart, DispatchCheck, DispatchPop, DispatchSnapshot,
     DispatchClose, DispatchDone, DispatchDead, DeliverListenerExit, UseDead, touchVars
<1>6. CASE DeliverTouchscreen \/ DeliverListenerTouch \/ DeliverDecoder
  <2>1. msg.mode \in AllModes
    BY <1>6 DEF DeliverTouchscreen, DeliverListenerTouch, DeliverDecoder, Receiver,
       MessageTypes, Messages
  <2>2. QED
    BY <1>6, <2>1 DEF DeliverTouchscreen, DeliverListenerTouch, DeliverDecoder
<1>7. CASE HostTerminates \/ HostCloses
  BY <1>7 DEF HostTerminates, HostCloses, touchVars
<1>8. QED
  BY <1>1, <1>2, <1>3, <1>4, <1>5, <1>6, <1>7, StepsOfNext DEF Threads, DispatchSteps

LEMMA StepEndTypes ==
  ASSUME Types, [Next]_vars
  PROVE  EndTypes'
<1>0. NothingShown \in [text : Errors \cup {0}, code : Errors \cup {0}, seen : BOOLEAN]
  BY DEF NothingShown
<1> USE <1>0 DEF Types, EndTypes
<1>1. CASE UNCHANGED vars
  BY <1>1 DEF vars, ending
<1>2. CASE Builds
  BY <1>2 DEF Builds, StartSession, LaunchFails, CreateListener, SetupDecoder, ending
<1>3. CASE Runs
  BY <1>3 DEF Runs, ConnectionStarted, SpawnWorkers, LoopClosed, LoopAppEnds,
     LoopWaits, LoopWakes, LoopShouldClose, LoopShouldCloseStore, ReadText, ReadCode,
     ending
<1>4. CASE Undoes
  BY <1>4 DEF Undoes, ConnectFails, StopConnection, DestroyListener, Report, Leave, ending
<1>5. CASE InputSteps
  BY <1>5 DEF InputSteps, InputStart, InputCheck, InputTouch, InputHome, InputDead,
     UseDead, ending
<1>6. CASE DispatchSteps
  BY <1>6 DEF DispatchSteps, DispatchStart, DispatchCheck, DispatchPop,
     DispatchSnapshot, DeliverTouchscreen, DeliverListenerTouch, DeliverListenerExit,
     DispatchClose, DeliverDecoder, DispatchDone, DispatchDead, UseDead, ending
<1>7. CASE HostTerminates \/ HostCloses
  BY <1>7 DEF HostTerminates, HostCloses
<1>8. QED
  BY <1>1, <1>2, <1>3, <1>4, <1>5, <1>6, <1>7, StepsOfNext DEF Threads

LEMMA StepTypes == Types /\ ObjectsInv /\ WorkersInv /\ [Next]_vars => Types'
BY StepPlaceTypes, StepMessageTypes, StepModeTypes, StepEndTypes DEF Types

(***************************************************************************)
(* The theorems.                                                           *)
(***************************************************************************)

(* The program starts without a stream.                                    *)
LEMMA InitIInv == Init => IInv
<1> SUFFICES ASSUME Init PROVE IInv
  OBVIOUS
<1> USE DEF Init, HasDecoder, HasListener, HasTouchscreen, Undone
<1>1. Types
  <2>1. Disabled \in AllModes /\ MaxSessions \in Nat /\ MaxPosts \in Nat
    BY BoundsAssumption DEF AllModes
  <2>2. NothingShown \in [text : Errors \cup {0}, code : Errors \cup {0}, seen : BOOLEAN]
    BY DEF NothingShown
  <2>3. <<>> \in Seq(Messages) /\ <<>> \in Seq(Objects)
    OBVIOUS
  <2>4. PlaceTypes
    BY <2>1 DEF PlaceTypes, MainPC, InputPC, DispatchPC
  <2>5. ModeTypes
    BY <2>1 DEF ModeTypes
  <2>6. MessageTypes
    BY <2>1, <2>3 DEF MessageTypes
  <2>7. EndTypes
    BY <2>2 DEF EndTypes
  <2>8. QED
    BY <2>4, <2>5, <2>6, <2>7 DEF Types
<1>2. ObjectsInv
  BY DEF ObjectsInv, Here, Subscribed
<1>3. WorkersInv /\ FreshInv /\ DeliveryInv
  BY DEF WorkersInv, FreshInv, DeliveryInv, Streaming
<1>4. CauseInv /\ ReasonInv
  BY DEF CauseInv, ReasonInv, NothingShown
<1>5. QED
  BY <1>1, <1>2, <1>3, <1>4 DEF IInv

(* stream(), its workers and the dispatcher: whichever thread is next, the *)
(* objects of the stream, the messages under way and the causes of its end *)
(* stay as IInv has them.                                                  *)
THEOREM Inductive == Spec => []IInv
<1>1. IInv /\ [Next]_vars => IInv'
  BY StepTypes, StepObjects, StepWorkers, StepFresh, StepDelivery, StepCause DEF IInv
<1>2. QED
  BY <1>1, InitIInv, PTL DEF Spec

(* Every variable keeps its type, and every subscriber of the dispatcher   *)
(* (src/system/dispatcher.cpp) is an object that exists.                   *)
THEOREM TypeCorrect == Spec => []TypeOK
<1>1. IInv => TypeOK
  <2> SUFFICES ASSUME IInv PROVE TypeOK
    OBVIOUS
  <2>1. Types /\ ObjectsInv
    BY DEF IInv
  <2>2. HasTouchscreen => session \in 1 .. MaxSessions
    BY <2>1, BoundsAssumption DEF Types, PlaceTypes, HasTouchscreen, HasListener, HasDecoder
  <2>3. alive \subseteq Objects
    BY <2>1, <2>2 DEF ObjectsInv, Here, HasTouchscreen, HasListener, Touchscreen,
       Listener, Decoder, Objects
  <2>4. \A k \in Kinds : Subscribed(k) \in Seq(Here)
    <3> SUFFICES ASSUME NEW k \in Kinds PROVE Subscribed(k) \in Seq(Here)
      OBVIOUS
    <3>1. <<>> \in Seq(Here)
      OBVIOUS
    <3>2. QED
      BY <3>1, ListsOfStages DEF Subscribed, Here
  <2>5. subscribers \in [Kinds -> Seq(alive)]
    BY <2>1, <2>4 DEF ObjectsInv
  <2>6. QED
    BY <2>1, <2>3, <2>5 DEF Types, PlaceTypes, MessageTypes, ModeTypes, EndTypes,
       TypeOK
<1>2. QED
  BY <1>1, Inductive, PTL

(* In a quiet stream the renderer, the touch handler and the log belong to *)
(* one mode, whatever messages an earlier stream left in the dispatcher:   *)
(* each message goes to all three before the next is taken.                *)
THEOREM OneMode == Spec => []ScreenMatchesTouch
<1>1. IInv => ScreenMatchesTouch
  BY DEF IInv, DeliveryInv, Agree, ScreenMatchesTouch
<1>2. QED
  BY <1>1, Inductive, PTL

(* input_loop and dispatch_loop use no object of an earlier stream while   *)
(* stream_loop runs, for any number of streams in a row.                   *)
THEOREM NoneDead == Spec => []NoDeadWhileStreaming
<1>1. IInv => NoDeadWhileStreaming
  BY DEF IInv, WorkersInv, NoDeadWhileStreaming
<1>2. QED
  BY <1>1, Inductive, PTL

(* stream() reads the text and the code of the end apart, while the host   *)
(* and the exit button may still write them: if one party alone ended the  *)
(* stream, the player is told that party's reason, and nothing when it was *)
(* no error.                                                               *)
THEOREM ReasonReported == Spec => []OneCauseReported
<1>1. IInv => OneCauseReported
  BY DEF IInv, ReasonInv, Undone, OneCauseReported
<1>2. QED
  BY <1>1, Inductive, PTL
=============================================================================
