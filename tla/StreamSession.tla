---------------------------- MODULE StreamSession ----------------------------
(***************************************************************************)
(* A stream from the menu and back to it, several times over one run of    *)
(* the program: stream() and its two detached workers input_loop and       *)
(* dispatch_loop (src/n3ds_main.cpp), the message dispatcher they share    *)
(* (src/system/dispatcher.cpp), and the three objects that subscribe to it *)
(* - the touch screen of the input handler, the connection listener and    *)
(* the video decoder.  The dispatcher lives as long as the program, the    *)
(* subscribers as long as one stream.                                      *)
(*                                                                         *)
(* Four threads act: main, input, dispatch and the thread moonlight-common *)
(* reports the end of the connection from.  The model stops at the first   *)
(* use of a destroyed object (dangling): what the C++ program does from    *)
(* there is undefined, and the properties say when it can come to that.    *)
(*                                                                         *)
(* Timing assumption: the workers of a stream are gone before the next one *)
(* starts.  They wake at every screen refresh, and between two streams are *)
(* the menu and a request to the host.  A worker that is still there finds *)
(* its listener destroyed, which is the dangling the model has.            *)
(***************************************************************************)
EXTENDS Naturals, Sequences, SequencesExt

CONSTANTS
  Modes,       (* the touch modes the menu offers, besides leaving          *)
  Debug,       (* the mode of Modes that shows the log                      *)
  Errors,      (* the codes a host can end a stream with, 0 when graceful   *)
  MaxSessions, (* the number of streams (bounds the model)                  *)
  MaxPosts     (* the number of taps and HOME presses (bounds the model)    *)

Menu == "MENU_TOUCH"
Disabled == "DISABLED"

ASSUME ModesAssumption == Debug \in Modes /\ {Menu, Disabled} \cap Modes = {}
ASSUME ErrorsAssumption == Errors \subseteq Nat
ASSUME BoundsAssumption == MaxSessions \in Nat /\ MaxPosts \in Nat

AllModes == Modes \cup {Menu, Disabled}
Kinds == {"touch", "exit"}
Objects == {"touchscreen", "listener", "decoder"} \X (1 .. MaxSessions)
Messages == [kind : Kinds, mode : AllModes, from : 1 .. MaxSessions]

VARIABLES
  main, input, dispatch, host,  (* where each thread is                     *)
  session,      (* number of the current or last stream                     *)
  alive,        (* the objects that exist                                   *)
  subscribers,  (* MessageDispatcher::subscribers, by kind of message       *)
  queue,        (* MessageDispatcher::message_queue                         *)
  msg,          (* the message being dispatched                             *)
  snapshot,     (* the subscribers it still goes to                         *)
  nextTouch,    (* next_touch_type                                          *)
  handler,      (* touch_type: the handler in use                           *)
  menuActive,   (* menu_active                                              *)
  renderer,     (* the mode the decoder's renderer was made for             *)
  debug,        (* the listener's debug                                     *)
  closed,       (* connection_closed                                        *)
  error,        (* last_error_code                                          *)
  shown,        (* [text, code] main has read, and whether it showed them   *)
  posts,        (* number of messages posted by the user (bound)            *)
  causes,       (* history: who has ended this stream                       *)
  hostError,    (* history: the code the host ended it with                 *)
  dangling      (* an object has been used after its destruction            *)

threads == <<main, input, dispatch, host>>
bus == <<subscribers, queue, msg, snapshot>>
touchVars == <<nextTouch, handler, menuActive, renderer, debug, posts>>
ending == <<closed, error, causes, hostError>>
vars == <<threads, session, alive, bus, touchVars, ending, shown, dangling>>

MainPC == {"menu", "launch", "connect", "handshake", "spawn", "loop", "wait",
           "closing", "text", "code", "stop", "destroy", "report", "leave", "exited"}
InputPC == {"none", "start", "check", "touch", "home"}
DispatchPC == {"none", "start", "check", "pop", "snapshot", "deliver", "close"}

TouchMsg(m) == [kind |-> "touch", mode |-> m, from |-> session]
NoMsg == [kind |-> "touch", mode |-> Disabled, from |-> 0]
ExitMsg == [kind |-> "exit", mode |-> Disabled, from |-> session]

NothingShown == [text |-> 0, code |-> 0, seen |-> FALSE]

Touchscreen == <<"touchscreen", session>>
Listener == <<"listener", session>>
Decoder == <<"decoder", session>>

Init ==
  /\ main = "menu" /\ input = "none" /\ dispatch = "none" /\ host = "off"
  /\ session = 0 /\ alive = {}
  /\ subscribers = [k \in Kinds |-> <<>>]
  /\ queue = <<>> /\ snapshot = <<>>
  /\ msg = NoMsg
  /\ nextTouch = Disabled /\ handler = Disabled /\ menuActive = FALSE
  /\ renderer = Disabled /\ debug = FALSE
  /\ closed = FALSE /\ error = 0
  /\ shown = NothingShown
  /\ posts = 0 /\ causes = {} /\ hostError = 0
  /\ dangling = FALSE

(* MessageDispatcher::subscribe and unsubscribe, for several kinds.         *)
Subscribe(obj, kinds) ==
  subscribers' = [k \in Kinds |->
    IF k \in kinds /\ obj \notin ToSet(subscribers[k])
    THEN Append(subscribers[k], obj) ELSE subscribers[k]]

Unsubscribe(obj) ==
  subscribers' = [k \in Kinds |-> RemoveFirst(subscribers[k], obj)]

Construct(obj, kinds) == alive' = alive \cup {obj} /\ Subscribe(obj, kinds)
Destroy(obj) == alive' = alive \ {obj} /\ Unsubscribe(obj)

(* MessageDispatcher::post.                                                 *)
Post(m) == queue' = Append(queue, m)

(* A step of a thread that reads or writes obj: done if it still exists.    *)
UseDead(obj) ==
  /\ obj \notin alive /\ dangling' = TRUE
  /\ UNCHANGED <<threads, session, alive, bus, touchVars, ending, shown>>

(***************************************************************************)
(* The main thread.                                                        *)
(***************************************************************************)

(* action_stream: a new input handler, with its touch screen.              *)
StartSession ==
  /\ main = "menu" /\ session < MaxSessions
  /\ input = "none" /\ dispatch = "none"
  /\ session' = session + 1 /\ main' = "launch"
  /\ alive' = alive \cup {<<"touchscreen", session + 1>>}
  /\ Subscribe(<<"touchscreen", session + 1>>, {"touch"})
  /\ UNCHANGED <<input, dispatch, host, queue, msg, snapshot, touchVars, ending,
                 shown, dangling>>

(* start_app_task failed: the message is shown and stream() returns.       *)
LaunchFails ==
  /\ main = "launch" /\ main' = "leave"
  /\ UNCHANGED <<input, dispatch, host, session, alive, bus, touchVars, ending,
                 shown, dangling>>

(* N3dsConnectionListener::create_instance.                                *)
CreateListener ==
  /\ main = "launch" /\ main' = "connect"
  /\ Construct(Listener, Kinds)
  /\ UNCHANGED <<input, dispatch, host, session, queue, msg, snapshot, touchVars,
                 ending, shown, dangling>>

(* Mutant: the decoder subscribes to the exit message only.                *)
SetupDecoder_NoTouch ==
  /\ main = "connect" /\ main' = "handshake" /\ host' = "on"
  /\ Construct(Decoder, {"exit"})
  /\ UNCHANGED <<input, dispatch, session, queue, msg, snapshot, touchVars, ending,
                 shown, dangling>>

(* LiStartConnection sets the decoder up; from here the host can end it.   *)
SetupDecoder ==
  /\ main = "connect" /\ main' = "handshake" /\ host' = "on"
  /\ Construct(Decoder, Kinds)
  /\ UNCHANGED <<input, dispatch, session, queue, msg, snapshot, touchVars, ending,
                 shown, dangling>>

(* A stage fails: LiStartConnection undoes what it did, stream() says so.  *)
ConnectFails ==
  /\ main \in {"connect", "handshake"} /\ host # "store"
  /\ main' = "destroy" /\ host' = "off"
  /\ Destroy(Decoder)  (* when it was there; its renderer is still the first *)
  /\ UNCHANGED <<input, dispatch, session, queue, msg, snapshot, touchVars, ending,
                 shown, dangling>>

(* connection_started, the last step of LiStartConnection, forgets what    *)
(* was reported before it.                                                 *)
ConnectionStarted ==
  /\ main = "handshake" /\ main' = "spawn"
  /\ error' = 0
  /\ UNCHANGED <<input, dispatch, host, session, alive, bus, touchVars, closed,
                 causes, hostError, shown, dangling>>

SpawnWorkers ==
  /\ main = "spawn" /\ main' = "loop"
  /\ input' = "start" /\ dispatch' = "start"
  /\ UNCHANGED <<host, session, alive, bus, touchVars, ending, shown, dangling>>

(* The loop of stream_loop: the listener closed, the program is being      *)
(* closed (aptMainLoop), or is asked to (aptShouldClose).                  *)
LoopClosed ==
  /\ main = "loop" /\ closed
  /\ main' = "text"
  /\ UNCHANGED <<input, dispatch, host, session, alive, bus, touchVars, ending,
                 shown, dangling>>

LoopAppEnds ==
  /\ main = "loop" /\ ~closed
  /\ main' = "text" /\ causes' = causes \cup {"app"}
  /\ UNCHANGED <<input, dispatch, host, session, alive, bus, touchVars, closed,
                 error, hostError, shown, dangling>>

LoopWaits ==
  /\ main = "loop" /\ ~closed
  /\ main' = "wait"
  /\ UNCHANGED <<input, dispatch, host, session, alive, bus, touchVars, ending,
                 shown, dangling>>

LoopWakes ==
  /\ main = "wait" /\ main' = "loop"
  /\ UNCHANGED <<input, dispatch, host, session, alive, bus, touchVars, ending,
                 shown, dangling>>

LoopShouldClose ==
  /\ main = "wait"
  /\ main' = "closing" /\ error' = 0 /\ causes' = causes \cup {"user"}
  /\ UNCHANGED <<input, dispatch, host, session, alive, bus, touchVars, closed,
                 hostError, shown, dangling>>

LoopShouldCloseStore ==
  /\ main = "closing" /\ main' = "loop"
  /\ closed' = TRUE
  /\ UNCHANGED <<input, dispatch, host, session, alive, bus, touchVars, error,
                 causes, hostError, shown, dangling>>

(* build_stream_end_message, then get_last_error_code: two reads.          *)
ReadText ==
  /\ main = "text" /\ main' = "code"
  /\ shown' = [shown EXCEPT !.text = error]
  /\ UNCHANGED <<input, dispatch, host, session, alive, bus, touchVars, ending,
                 dangling>>

ReadCode ==
  /\ main = "code" /\ main' = "stop"
  /\ shown' = [shown EXCEPT !.code = error]
  /\ UNCHANGED <<input, dispatch, host, session, alive, bus, touchVars, ending,
                 dangling>>

(* Mutant: the decoder's destructor does not unsubscribe.                  *)
StopConnection_Subscribed ==
  /\ main = "stop" /\ host # "store"
  /\ main' = "destroy" /\ host' = "off"
  /\ alive' = alive \ {Decoder} /\ renderer' = Disabled
  /\ UNCHANGED <<input, dispatch, session, bus, nextTouch, handler, menuActive,
                 debug, posts, ending, shown, dangling>>

(* Mutant: the connection is stopped only after a word from the host.      *)
StopConnection_AwaitsHost ==
  /\ main = "stop" /\ host = "over"
  /\ main' = "destroy" /\ host' = "off"
  /\ Destroy(Decoder) /\ renderer' = Disabled
  /\ UNCHANGED <<input, dispatch, session, queue, msg, snapshot, nextTouch,
                 handler, menuActive, debug, posts, ending, shown, dangling>>

(* LiStopConnection reports nothing more and destroys the decoder.         *)
StopConnection ==
  /\ main = "stop" /\ host # "store"
  /\ main' = "destroy" /\ host' = "off"
  /\ Destroy(Decoder) /\ renderer' = Disabled
  /\ UNCHANGED <<input, dispatch, session, queue, msg, snapshot, nextTouch,
                 handler, menuActive, debug, posts, ending, shown, dangling>>

(* N3dsConnectionListener::destroy_instance.  The members of a destroyed   *)
(* object are set to a fixed value here, as nothing can depend on them.    *)
DestroyListener ==
  /\ main = "destroy" /\ main' = "report"
  /\ Destroy(Listener)
  /\ debug' = FALSE /\ closed' = FALSE /\ error' = 0
  /\ UNCHANGED <<input, dispatch, host, session, queue, msg, snapshot, nextTouch,
                 handler, menuActive, renderer, posts, causes, hostError, shown,
                 dangling>>

(* Mutant: the end message is shown whatever the code is.                  *)
Report_Always ==
  /\ main = "report" /\ main' = "leave"
  /\ shown' = [shown EXCEPT !.seen = TRUE]
  /\ UNCHANGED <<input, dispatch, host, session, alive, bus, touchVars, ending,
                 dangling>>

(* The player is told when the error code is not zero.                     *)
Report ==
  /\ main = "report" /\ main' = "leave"
  /\ shown' = [shown EXCEPT !.seen = shown.code # 0]
  /\ UNCHANGED <<input, dispatch, host, session, alive, bus, touchVars, ending,
                 dangling>>

(* action_stream returns and the last reference to the input handler goes. *)
Leave ==
  /\ main = "leave"
  /\ main' = IF "app" \in causes THEN "exited" ELSE "menu"
  /\ Destroy(Touchscreen)
  /\ nextTouch' = Disabled /\ handler' = Disabled /\ menuActive' = FALSE
  /\ shown' = NothingShown /\ causes' = {} /\ hostError' = 0
  /\ UNCHANGED <<input, dispatch, host, session, queue, msg, snapshot, renderer,
                 debug, posts, closed, error, dangling>>

(***************************************************************************)
(* The input thread.                                                       *)
(***************************************************************************)

(* input_loop opens the menu first.                                        *)
InputStart ==
  /\ input = "start" /\ input' = "check"
  /\ Post(TouchMsg(Menu))
  /\ UNCHANGED <<main, dispatch, host, session, alive, subscribers, msg, snapshot,
                 touchVars, ending, shown, dangling>>

InputCheck ==
  /\ input = "check" /\ Listener \in alive
  /\ input' = IF closed THEN "none" ELSE "touch"
  /\ UNCHANGED <<main, dispatch, host, session, alive, bus, touchVars, ending,
                 shown, dangling>>

(* n3dsinput_handle_touch adopts the mode of the last message; when the    *)
(* finger leaves the menu, MenuTouchHandler posts what it was on.          *)
InputTouch ==
  /\ input = "touch" /\ Touchscreen \in alive
  /\ input' = "home" /\ handler' = nextTouch
  /\ \/ UNCHANGED <<queue, posts>>
     \/ /\ handler' = Menu /\ posts < MaxPosts
        /\ \E m \in {TouchMsg(t) : t \in Modes} \cup {ExitMsg} : Post(m)
        /\ posts' = posts + 1
  /\ UNCHANGED <<main, dispatch, host, session, alive, subscribers, msg, snapshot,
                 nextTouch, menuActive, renderer, debug, ending, shown, dangling>>

(* The HOME button: the menu opens once for a press.                       *)
InputHome ==
  /\ input = "home" /\ Touchscreen \in alive
  /\ input' = "check"
  /\ \/ menuActive' = FALSE /\ UNCHANGED <<queue, posts>>
     \/ /\ posts < MaxPosts \/ menuActive
        /\ menuActive' = TRUE
        /\ IF menuActive THEN UNCHANGED <<queue, posts>>
           ELSE Post(TouchMsg(Menu)) /\ posts' = posts + 1
  /\ UNCHANGED <<main, dispatch, host, session, alive, subscribers, msg, snapshot,
                 nextTouch, handler, renderer, debug, ending, shown, dangling>>

InputDead ==
  \/ input = "check" /\ UseDead(Listener)
  \/ input \in {"touch", "home"} /\ UseDead(Touchscreen)

(***************************************************************************)
(* The dispatch thread.                                                    *)
(***************************************************************************)

DispatchStart ==
  /\ dispatch = "start" /\ dispatch' = "check"
  /\ UNCHANGED <<main, input, host, session, alive, bus, touchVars, ending, shown,
                 dangling>>

(* dispatch_loop looks at its listener between two rounds only: a message  *)
(* posted after the last one stays in the queue of the program.            *)
DispatchCheck ==
  /\ dispatch = "check" /\ Listener \in alive
  /\ dispatch' = IF closed THEN "none" ELSE "pop"
  /\ UNCHANGED <<main, input, host, session, alive, bus, touchVars, ending, shown,
                 dangling>>

(* dispatch_all.                                                           *)
DispatchPop ==
  /\ dispatch = "pop"
  /\ IF queue = <<>>
     THEN dispatch' = "check" /\ UNCHANGED <<queue, msg>>
     ELSE dispatch' = "snapshot" /\ msg' = Head(queue) /\ queue' = Tail(queue)
  /\ UNCHANGED <<main, input, host, session, alive, subscribers, snapshot,
                 touchVars, ending, shown, dangling>>

(* post_immediate copies the subscribers under the lock and calls them     *)
(* without it.                                                             *)
DispatchSnapshot ==
  /\ dispatch = "snapshot" /\ dispatch' = "deliver"
  /\ snapshot' = subscribers[msg.kind]
  /\ UNCHANGED <<main, input, host, session, alive, subscribers, queue, msg,
                 touchVars, ending, shown, dangling>>

Receiver(name) ==
  /\ dispatch = "deliver" /\ snapshot # <<>>
  /\ Head(snapshot)[1] = name /\ Head(snapshot) \in alive
  /\ snapshot' = Tail(snapshot)

(* N3dsTouchscreenInput::accept.                                           *)
DeliverTouchscreen ==
  /\ Receiver("touchscreen")
  /\ nextTouch' = msg.mode
  /\ UNCHANGED <<threads, session, alive, subscribers, queue, msg, handler,
                 menuActive, renderer, debug, posts, ending, shown, dangling>>

(* N3dsConnectionListener::accept.                                         *)
DeliverListenerTouch ==
  /\ Receiver("listener") /\ msg.kind = "touch"
  /\ debug' = (msg.mode = Debug)
  /\ UNCHANGED <<threads, session, alive, subscribers, queue, msg, nextTouch,
                 handler, menuActive, renderer, posts, ending, shown, dangling>>

DeliverListenerExit ==
  /\ Receiver("listener") /\ msg.kind = "exit"
  /\ error' = 0 /\ dispatch' = "close" /\ causes' = causes \cup {"user"}
  /\ UNCHANGED <<main, input, host, session, alive, subscribers, queue, msg,
                 touchVars, closed, hostError, shown, dangling>>

(* Mutant: the listener notes the reason and does not close.               *)
DispatchClose_Open ==
  /\ dispatch = "close" /\ Listener \in alive
  /\ dispatch' = "deliver"
  /\ UNCHANGED <<main, input, host, session, alive, bus, touchVars, ending, shown,
                 dangling>>

DispatchClose ==
  /\ dispatch = "close" /\ Listener \in alive
  /\ dispatch' = "deliver" /\ closed' = TRUE
  /\ UNCHANGED <<main, input, host, session, alive, bus, touchVars, error, causes,
                 hostError, shown, dangling>>

(* VideoDecoderBase::accept.                                               *)
DeliverDecoder ==
  /\ Receiver("decoder")
  /\ renderer' = IF msg.kind = "exit" THEN Disabled ELSE msg.mode
  /\ UNCHANGED <<threads, session, alive, subscribers, queue, msg, nextTouch,
                 handler, menuActive, debug, posts, ending, shown, dangling>>

DispatchDone ==
  /\ dispatch = "deliver" /\ snapshot = <<>>
  /\ dispatch' = "pop" /\ msg' = NoMsg
  /\ UNCHANGED <<main, input, host, session, alive, subscribers, queue, snapshot,
                 touchVars, ending, shown, dangling>>

DispatchDead ==
  \/ dispatch \in {"check", "close"} /\ UseDead(Listener)
  \/ dispatch = "deliver" /\ snapshot # <<>> /\ UseDead(Head(snapshot))

(***************************************************************************)
(* The termination callback of moonlight-common: at most once a connection,*)
(* and LiStopConnection waits for it.                                      *)
(***************************************************************************)
HostTerminates ==
  /\ host = "on" /\ main \notin {"destroy", "report", "leave"}
  /\ host' = "store"
  /\ \E e \in Errors : error' = e /\ hostError' = e
  /\ causes' = causes \cup {IF main = "handshake" THEN "early" ELSE "host"}
  /\ UNCHANGED <<main, input, dispatch, session, alive, bus, touchVars, closed,
                 shown, dangling>>

HostCloses ==
  /\ host = "store" /\ host' = "over"
  /\ closed' = TRUE
  /\ UNCHANGED <<main, input, dispatch, session, alive, bus, touchVars, error,
                 causes, hostError, shown, dangling>>

-----------------------------------------------------------------------------
(* What the main thread does without the user or the host.                 *)
MainSteps ==
  \/ SetupDecoder \/ ConnectionStarted \/ SpawnWorkers
  \/ LoopClosed \/ LoopWaits \/ LoopWakes \/ LoopShouldCloseStore
  \/ ReadText \/ ReadCode
  \/ StopConnection \/ DestroyListener \/ Report \/ Leave

Environment ==
  \/ StartSession \/ LaunchFails \/ CreateListener \/ ConnectFails
  \/ LoopAppEnds \/ LoopShouldClose \/ HostTerminates

InputSteps == InputStart \/ InputCheck \/ InputTouch \/ InputHome \/ InputDead

DispatchSteps ==
  \/ DispatchStart \/ DispatchCheck \/ DispatchPop \/ DispatchSnapshot
  \/ DeliverTouchscreen \/ DeliverListenerTouch \/ DeliverListenerExit
  \/ DispatchClose \/ DeliverDecoder \/ DispatchDone \/ DispatchDead

Next ==
  /\ ~dangling
  /\ MainSteps \/ Environment \/ InputSteps \/ DispatchSteps \/ HostCloses

(* Threads of equal priority that wait for screen refreshes: each of them  *)
(* gets its turn.  Users and hosts need not do anything.                   *)
Spec ==
  /\ Init /\ [][Next]_vars
  /\ WF_vars(~dangling /\ MainSteps) /\ WF_vars(~dangling /\ InputSteps)
  /\ WF_vars(~dangling /\ DispatchSteps) /\ WF_vars(~dangling /\ HostCloses)

-----------------------------------------------------------------------------
Streaming == main \in {"loop", "wait", "closing"}

(* Types; a subscriber is an object that exists.                           *)
TypeOK ==
  /\ main \in MainPC /\ input \in InputPC /\ dispatch \in DispatchPC
  /\ host \in {"off", "on", "store", "over"}
  /\ session \in 0 .. MaxSessions /\ alive \subseteq Objects
  /\ subscribers \in [Kinds -> Seq(alive)]
  /\ queue \in Seq(Messages) /\ snapshot \in Seq(Objects)
  /\ nextTouch \in AllModes /\ handler \in AllModes /\ renderer \in AllModes
  /\ menuActive \in BOOLEAN /\ debug \in BOOLEAN
  /\ closed \in BOOLEAN /\ dangling \in BOOLEAN
  /\ error \in Errors \cup {0} /\ hostError \in Errors \cup {0}
  /\ posts \in 0 .. MaxPosts
  /\ causes \subseteq {"user", "app", "host", "early"}

(* In a quiet stream the picture on the bottom screen, the handler that    *)
(* will interpret the touches and the log all belong to the same mode,     *)
(* whatever was left in the queue by the stream before.                    *)
ScreenMatchesTouch ==
  Streaming /\ ~closed /\ queue = <<>> /\ dispatch \in {"check", "pop"} =>
    renderer = nextTouch /\ (debug <=> nextTouch = Debug)

(* As long as a stream runs, the workers use no object of an earlier one:  *)
(* a use after destruction can only come once the stream is being undone.  *)
NoDeadWhileStreaming == dangling => ~Streaming

(* When one party alone ended the stream, after it had started, the player *)
(* gets that party's reason, and no message for an end that is no error.   *)
OneCauseReported ==
  main = "leave" /\ causes # {} =>
    /\ causes = {"host"} =>
         /\ shown.code = hostError
         /\ shown.seen => shown.text = hostError
    /\ causes \cap {"host", "early"} = {} => ~shown.seen

(* A tap on the exit button ends the stream, and HOME opens the menu in a  *)
(* stream that goes on.                                                    *)
MessagesTakeEffect ==
  /\ (Streaming /\ \E i \in DOMAIN queue : queue[i].kind = "exit")
       ~> (~Streaming \/ dangling)
  /\ (Streaming /\ \E i \in DOMAIN queue : queue[i] = TouchMsg(Menu))
       ~> (renderer = Menu \/ ~Streaming \/ dangling)

(* The player gets back to the menu from a stream that is over.            *)
StreamOverReturns ==
  (Streaming /\ closed) ~> (main \in {"menu", "exited"} \/ dangling)

(* The exit message ends "the stream" (the comment of MenuTouchHandler):   *)
(* the one it was tapped in.  The queue outlives the streams.              *)
ExitEndsItsOwnStream == dispatch = "close" => msg.from = session
=============================================================================
