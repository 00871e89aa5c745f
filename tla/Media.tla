--------------------------------- MODULE Media ---------------------------------
(***************************************************************************)
(* What a stream takes and gives back: the decoder with its services and   *)
(* threads (src/video), the audio output (AudioRing), the motion sensors   *)
(* (src/system/n3ds_connection.cpp, src/input/n3ds_input.cpp), the format  *)
(* of the top screen, and the capabilities that stream() of                *)
(* src/n3ds_main.cpp leaves in the tables of callbacks.  Streams follow    *)
(* one another; any of them may fail at any of its stages.                 *)
(*                                                                         *)
(* LiStartConnection is external: it sets the decoder up, then the audio   *)
(* output, and undoes what it did when a later stage fails; its control    *)
(* thread calls back meanwhile.  LiStopConnection undoes both, audio first.*)
(* Left out are memory that is lost with an exception, and a stream the    *)
(* host refuses to launch, which takes the gyroscope and gives it back.    *)
(***************************************************************************)
EXTENDS AudioRing, FiniteSets

CONSTANTS
  Configs,    (* the configurations the player chooses from *)
  MaxStreams  (* streams in a run of the program (bounds the model) *)

Sensors == {"accel", "gyro"}
Decoders == {"mvd", "potato", "soft", "mock"}
Flags == {"slices2", "slices4", "direct", "invalidation", "long", "slow"}
Slices == {"slices2", "slices4"}

AnyConfig ==
  [decoder : {"hardware", "software", "off"}, color24 : BOOLEAN,
   core1 : BOOLEAN,     (* video_2nd_core *)
   network : {"auto", "on", "off"}, audio : {"auto", "on", "off"},
   localaudio : BOOLEAN, motion : BOOLEAN,
   gyroCamera : BOOLEAN (* the camera mode has the gyroscope, and not view_only *)]

ASSUME MediaAssumption == Configs \subseteq AnyConfig /\ MaxStreams \in Nat

VARIABLES
  old,      (* g_potato.is_potato: an Old 3DS *)
  config,   (* the configuration of the stream *)
  streams,  (* streams started *)
  pc,       (* where the main thread is *)
  closed,   (* is_connection_closed *)
  failing,  (* LiStartConnection undoes what it did *)
  caps,     (* capabilities in each table of callbacks *)
  top,      (* format of the top screen, and the one menu_ui_init found *)
  px,       (* pixel_size of the decoder, 0 without one *)
  written,  (* bytes for each pixel in what the decoder puts out *)
  mvd,      (* the MVD service is initialised *)
  limit,    (* share of core 1, and saved_core1_limit: the system's, or 80 *)
  helpers,  (* helper threads of core 1, each by the stream that started it *)
  core1,    (* core1.thread: one of them, or 0 *)
  sensors,  (* the sensors that are on *)
  posted,   (* ENABLE_ACCEL and ENABLE_GYRO that are not yet delivered *)
  enabled,  (* enable_accel and enable_gyro of the input handler *)
  lost      (* history: what nobody is left to give back *)

videoVars == <<top, px, written, mvd, limit, helpers, core1>>
sensorVars == <<sensors, posted, enabled>>
mainVars == <<old, config, streams, closed, failing, caps>>
vars == <<mainVars, pc, videoVars, sensorVars, lost, audioVars>>

(* What can be left over.  A sensor comes with its name.                   *)
Things == {"mvd", "screen", "limit", "helper", "opus"} \cup Sensors

Init ==
  /\ old \in BOOLEAN /\ config \in Configs /\ streams = 0 /\ pc = "menu"
  /\ closed = FALSE /\ failing = FALSE
  /\ caps = [t \in Decoders \cup {"audio"} |->
               CASE t = "soft" -> {"direct", "invalidation"}
                 [] t = "potato" -> {"invalidation"}
                 [] t = "audio" -> {"direct", "slow"}
                 [] OTHER -> {}]
  /\ top = [now |-> "BGR8", menu |-> "RGB565"] /\ px = 0 /\ written = 0
  /\ mvd = FALSE /\ limit = [now |-> "own", saved |-> "none"]
  /\ helpers = {} /\ core1 = 0
  /\ sensors = {} /\ posted = {} /\ enabled = {} /\ lost = {}
  /\ AudioInit

-----------------------------------------------------------------------------
(* stream(): the decoder, and who may use the second core.                 *)
Video(c) ==
  CASE c.decoder = "hardware" -> IF old THEN "potato" ELSE "mvd"
    [] c.decoder = "software" -> IF old THEN "potato" ELSE "soft"
    [] c.decoder = "off" -> "mock"

SlicesOnCore1(c) == old /\ c.core1 /\ Video(c) = "potato"
Network2nd(c) == ~old /\ c.network \in {"auto", "on"}
Audio2nd(c) ==
  /\ ~c.localaudio
  /\ IF c.audio = "auto" THEN old /\ ~Network2nd(c) ELSE c.audio = "on"

With(set, flag, on) == IF on THEN set \cup {flag} ELSE set \ {flag}

(* The changes stream() makes to what earlier streams left in the tables.  *)
SoftCaps(c) ==
  IF c.decoder = "software"
  THEN IF old THEN {"invalidation"} ELSE {"invalidation", "slices2"}
  ELSE caps["soft"]

VideoCaps_Kept(c) ==
  LET v == Video(c)
      before == IF v = "soft" THEN SoftCaps(c) ELSE caps[v]
      sliced == IF v = "potato" /\ SlicesOnCore1(c) THEN before \cup {"slices4"} ELSE before
  IN  With(sliced, "direct", ~Network2nd(c))

VideoCaps(c) ==
  LET v == Video(c)
      before == IF v = "soft" THEN SoftCaps(c) ELSE caps[v]
      sliced == IF v = "potato"
                THEN With(before \ Slices, "slices4", SlicesOnCore1(c))
                ELSE before
  IN  With(sliced, "direct", ~Network2nd(c))

AudioCaps(c) ==
  With(With(caps["audio"], "direct", ~Audio2nd(c)), "long", old)

(* action_stream and stream() up to LiStartConnection: the input handler   *)
(* with the gyroscope, the menu off the screens, the tables, the listener. *)
Start(c) ==
  /\ pc = "menu" /\ streams < MaxStreams /\ pc' = "video"
  /\ streams' = streams + 1 /\ config' = c
  /\ closed' = FALSE /\ failing' = FALSE
  /\ caps' = [t \in Decoders \cup {"audio"} |->
                IF t = Video(c) THEN VideoCaps(c)
                ELSE CASE t = "soft" -> SoftCaps(c)
                       [] t = "audio" -> AudioCaps(c)
                       [] OTHER -> caps[t]]
  /\ top' = [top EXCEPT !.now = top.menu]
  /\ sensors' = IF c.gyroCamera THEN sensors \cup {"gyro"} ELSE sensors
  /\ enabled' = {}
  /\ UNCHANGED <<old, px, written, mvd, limit, helpers, core1, posted, lost, audioVars>>

Bytes(format) == IF format = "BGR8" THEN 3 ELSE 2

-----------------------------------------------------------------------------
(* The set-up of the decoder: a constructor that returns or throws.  What  *)
(* it has done by then is undone by nobody, there is no object.            *)
SetUpMock ==
  /\ Video(config) = "mock"
  /\ px' = Bytes(top.now) /\ written' = px' /\ pc' = "audio"
  /\ UNCHANGED <<failing, top, mvd, limit, helpers, core1, lost>>

(* SoftVideoDecoder: what it throws away is memory.                        *)
SetUpSoft ==
  /\ Video(config) = "soft"
  /\ \/ px' = Bytes(top.now) /\ written' = 2 /\ pc' = "audio" /\ UNCHANGED failing
     \/ failing' = TRUE /\ pc' = "teardown" /\ UNCHANGED <<px, written>>
  /\ UNCHANGED <<top, mvd, limit, helpers, core1, lost>>

(* MvdDecoder: no service, or refused; then the screen follows the format  *)
(* of the service, and memory may run out with both as they are.           *)
MvdRefuses ==
  /\ Video(config) = "mvd" /\ pc' = "teardown" /\ failing' = TRUE
  /\ mvd' \in {mvd, FALSE}  (* mvdstdExit, if it came to mvdstdInit *)
  /\ UNCHANGED <<top, px, written, limit, helpers, core1, lost>>

SetUpMvd ==
  /\ Video(config) = "mvd"
  /\ mvd' = TRUE
  /\ \E color \in {FALSE, config.color24} :
       /\ top' = IF color THEN [top EXCEPT !.now = "BGR8"] ELSE top
       /\ \/ /\ px' = (IF color THEN 4 ELSE Bytes(top.now))
             /\ written' = (IF color THEN 4 ELSE 2) /\ pc' = "audio"
             /\ UNCHANGED <<failing, lost>>
          \/ /\ failing' = TRUE /\ pc' = "teardown"
             /\ lost' = lost \cup {"mvd"} \cup (IF color THEN {"screen"} ELSE {})
             /\ UNCHANGED <<px, written>>
  /\ UNCHANGED <<limit, helpers, core1>>

(* PotatoVideoDecoder: the limit of core 1, the codec with its helper,     *)
(* which may not start, then the rest.                                     *)
SetUpPotato ==
  /\ Video(config) = "potato"
  /\ limit' = IF SlicesOnCore1(config) THEN [now |-> "80", saved |-> limit.now]
              ELSE [limit EXCEPT !.saved = "none"]
  /\ \E helped \in {FALSE, SlicesOnCore1(config)} :
       /\ helpers' = IF helped THEN helpers \cup {streams} ELSE helpers
       /\ core1' \in IF helped THEN {streams}
                     ELSE {core1} \cup (IF SlicesOnCore1(config) THEN {0} ELSE {})
       /\ \/ px' = Bytes(top.now) /\ written' = px' /\ pc' = "audio" /\ UNCHANGED <<failing, lost>>
          \/ /\ failing' = TRUE /\ pc' = "teardown"
             /\ lost' = lost \cup (IF SlicesOnCore1(config) THEN {"limit"} ELSE {})
                             \cup (IF helped THEN {"helper"} ELSE {})
             /\ UNCHANGED <<px, written>>
  /\ UNCHANGED <<top, mvd>>

SetUp ==
  /\ pc = "video"
  /\ SetUpMock \/ SetUpSoft \/ MvdRefuses \/ SetUpMvd \/ SetUpPotato
  /\ UNCHANGED <<old, config, streams, closed, caps, sensorVars, audioVars>>

(* The audio output: on the host only, opened, or not.                     *)
AudioStarts ==
  /\ pc = "audio"
  /\ \/ config.localaudio /\ pc' = "input" /\ UNCHANGED <<failing, lost, audioVars>>
     \/ ~config.localaudio /\ pc' = "input" /\ Opened /\ UNCHANGED <<failing, lost>>
     \/ /\ ~config.localaudio /\ (OpusFails \/ NdspFails \/ AllocFails)
        /\ failing' = TRUE /\ pc' = "stopVideo"
        /\ lost' = IF opus' THEN lost \cup {"opus"} ELSE lost
  /\ UNCHANGED <<old, config, streams, closed, caps, videoVars, sensorVars>>

(* The last stage, the input stream.                                       *)
Connects ==
  /\ pc = "input"
  /\ \/ pc' = "stream" /\ UNCHANGED failing
     \/ pc' = "stopAudio" /\ failing' = TRUE
  /\ UNCHANGED <<old, config, streams, closed, caps, videoVars, sensorVars, lost, audioVars>>

-----------------------------------------------------------------------------
(* The stream: packets of audio, what the host asks of the sensors on the  *)
(* control thread, the messages about it, and the end.                     *)
AudioPlays ==
  /\ ~config.localaudio
  /\ \/ pc \in {"input", "stream"} /\ Play
     \/ pc = "stopAudio" /\ Add
  /\ UNCHANGED <<mainVars, pc, videoVars, sensorVars, lost>>

DspPlays == Dsp /\ UNCHANGED <<mainVars, pc, videoVars, sensorVars, lost>>

TurnOff(some) == sensors' = sensors \ some /\ lost' = lost \ some

Controlled == pc \in {"video", "audio", "input", "stream", "stopAudio", "stopVideo"}

(* set_motion_event_state.  With the connection closed, or given up, there *)
(* is nobody left who would turn the sensor off.                           *)
SensorOn(s) ==
  /\ Controlled /\ config.motion
  /\ sensors' = sensors \cup {s} /\ posted' = posted \cup {<<s, streams>>}
  /\ lost' = IF closed THEN lost \cup {s} ELSE lost
  /\ UNCHANGED <<mainVars, pc, videoVars, enabled, audioVars>>

SensorOff_Camera(s) ==
  /\ Controlled /\ config.motion
  /\ TurnOff({s})
  /\ UNCHANGED <<mainVars, pc, videoVars, posted, enabled, audioVars>>

SensorOff(s) ==
  /\ Controlled /\ config.motion
  /\ s = "gyro" => ~config.gyroCamera  (* n3ds_input_gyro_camera_active *)
  /\ TurnOff({s})
  /\ UNCHANGED <<mainVars, pc, videoVars, posted, enabled, audioVars>>

(* N3dsInput::accept, by the dispatcher.                                   *)
Deliver(m) ==
  /\ pc = "stream" /\ m \in posted
  /\ posted' = posted \ {m} /\ enabled' = enabled \cup {m}
  /\ UNCHANGED <<mainVars, pc, videoVars, sensors, lost, audioVars>>

(* connection_terminated, by the host, which need not wait for the stream  *)
(* to have come to be, or by the player.                                   *)
Terminate ==
  /\ pc \in {"video", "audio", "input", "stream"} /\ ~closed /\ closed' = TRUE
  /\ TurnOff(IF config.motion THEN Sensors ELSE {})
  /\ UNCHANGED <<old, config, streams, failing, caps, pc, videoVars, posted, enabled,
                 audioVars>>

LoopEnds ==
  /\ pc = "stream" /\ closed /\ pc' = "stopAudio"
  /\ UNCHANGED <<mainVars, videoVars, sensorVars, lost, audioVars>>

-----------------------------------------------------------------------------
(* The end, also of a stream that did not come to be.                      *)
AudioStops ==
  /\ pc = "stopAudio" /\ pc' = "stopVideo"
  /\ IF config.localaudio THEN UNCHANGED audioVars ELSE Cleanup
  /\ UNCHANGED <<mainVars, videoVars, sensorVars, lost>>

(* core1_stop: quit and a token, which any helper that waits for one may   *)
(* take, then the join with the one that core1.thread is.                  *)
Core1Stop_NoToken ==
  IF core1 = 0 THEN pc' = "teardown" /\ UNCHANGED <<helpers, core1>>
  ELSE pc' = "joining" /\ UNCHANGED <<helpers, core1>>

Core1Stop ==
  IF core1 = 0 THEN pc' = "teardown" /\ UNCHANGED <<helpers, core1>>
  ELSE \E t \in helpers :
         /\ helpers' = helpers \ {t}
         /\ IF t = core1 THEN core1' = 0 /\ pc' = "teardown"
            ELSE pc' = "joining" /\ UNCHANGED core1

(* The destructors: MvdDecoder, PotatoVideoDecoder with ffmpeg_destroy,    *)
(* the others.                                                             *)
StopMvd ==
  /\ Video(config) = "mvd" /\ mvd' = FALSE
  /\ top' = IF px = 4 THEN [top EXCEPT !.now = "RGB565"] ELSE top
  /\ pc' = "teardown"
  /\ UNCHANGED <<limit, helpers, core1>>

StopPotato_Limit ==
  /\ Video(config) = "potato" /\ Core1Stop
  /\ UNCHANGED <<top, mvd, limit>>

StopPotato ==
  /\ Video(config) = "potato" /\ Core1Stop
  /\ limit' = IF limit.saved = "none" \/ pc' = "joining" THEN limit
              ELSE [now |-> limit.saved, saved |-> "none"]
  /\ UNCHANGED <<top, mvd>>

StopOther ==
  /\ Video(config) \in {"soft", "mock"} /\ pc' = "teardown"
  /\ UNCHANGED <<top, mvd, limit, helpers, core1>>

VideoStops ==
  /\ pc = "stopVideo" /\ px' = 0 /\ written' = 0
  /\ StopMvd \/ StopPotato \/ StopOther
  /\ UNCHANGED <<mainVars, sensorVars, lost, audioVars>>

(* The rest of stream() and action_stream: the listener, the menu back on  *)
(* the screens, the input handler.                                         *)
TearDown ==
  /\ pc = "teardown" /\ pc' = "menu"
  /\ top' = [now |-> "BGR8", menu |-> top.now]
  /\ sensors' = IF config.gyroCamera THEN sensors \ {"gyro"} ELSE sensors
  /\ lost' = IF failing THEN (lost \ Sensors) \cup sensors' ELSE lost
  /\ enabled' = {}
  /\ UNCHANGED <<mainVars, px, written, mvd, limit, helpers, core1, posted, audioVars>>

-----------------------------------------------------------------------------
MainSteps ==
  SetUp \/ AudioStarts \/ Connects \/ LoopEnds \/ AudioStops \/ VideoStops \/ TearDown

Next ==
  \/ \E c \in Configs : Start(c)
  \/ MainSteps
  \/ AudioPlays \/ DspPlays \/ Terminate
  \/ \E s \in Sensors : SensorOn(s) \/ SensorOff(s)
  \/ \E m \in posted : Deliver(m)

(* The main thread goes on, and the thread that plays ends its packet.     *)
Spec == Init /\ [][Next]_vars /\ WF_vars(MainSteps) /\ WF_vars(AudioPlays /\ Add)

-----------------------------------------------------------------------------
(* The type invariant of the console over its streams.                     *)
TypeOK ==
  /\ old \in BOOLEAN /\ config \in Configs /\ streams \in 0 .. MaxStreams
  /\ pc \in {"menu", "video", "audio", "input", "stream", "stopAudio", "stopVideo",
             "joining", "teardown"}
  /\ closed \in BOOLEAN /\ failing \in BOOLEAN
  /\ caps \in [Decoders \cup {"audio"} -> SUBSET Flags]
  /\ top \in [now : {"BGR8", "RGB565"}, menu : {"BGR8", "RGB565"}]
  /\ px \in {0, 2, 3, 4} /\ written \in {0, 2, 3, 4}
  /\ mvd \in BOOLEAN
  /\ limit \in [now : {"own", "80"}, saved : {"none", "own", "80"}]
  /\ helpers \subseteq 1 .. MaxStreams /\ core1 \in {0} \cup helpers \cup 1 .. MaxStreams
  /\ sensors \subseteq Sensors
  /\ posted \subseteq Sensors \X (1 .. MaxStreams)
  /\ enabled \subseteq Sensors \X (1 .. MaxStreams)
  /\ lost \subseteq Things
  /\ AudioTypeOK

(* Back in the menu nothing of a stream is left, however far it came, but  *)
(* for what is known to be lost: what a constructor had when it threw, a   *)
(* decoder of audio without its output, a sensor that was asked for when   *)
(* nobody was left to turn it off.                                         *)
Held ==
  sensors
    \cup (IF mvd THEN {"mvd"} ELSE {})
    \cup (IF top.menu = "RGB565" THEN {} ELSE {"screen"})
    \cup (IF limit.now = "own" THEN {} ELSE {"limit"})
    \cup (IF helpers = {} THEN {} ELSE {"helper"})
    \cup (IF opus THEN {"opus"} ELSE {})

GivenBack == pc = "menu" => Held \subseteq lost /\ px = 0 /\ ~ndsp /\ ~buffer

(* A stream gets the capabilities of its own configuration, whatever the   *)
(* streams before it left in the tables, and a decoder whose pixels are as *)
(* wide as those the renderer reads, unless the format of the screen is    *)
(* one that a thrown constructor left.                                     *)
VideoWanted(c) ==
  (CASE Video(c) = "soft" -> {"invalidation", "slices2"}
     [] Video(c) = "potato" ->
          {"invalidation"} \cup (IF SlicesOnCore1(c) THEN {"slices4"} ELSE {})
     [] OTHER -> {})
    \cup (IF Network2nd(c) THEN {} ELSE {"direct"})
AudioWanted(c) ==
  {"slow"} \cup (IF Audio2nd(c) THEN {} ELSE {"direct"}) \cup (IF old THEN {"long"} ELSE {})

StreamFitsConfig ==
  /\ pc = "video" => caps[Video(config)] = VideoWanted(config)
  /\ pc = "video" /\ ~config.localaudio => caps["audio"] = AudioWanted(config)
  /\ pc = "stream" => px = written \/ "screen" \in lost

(* While a stream lasts the gyroscope is on for the camera, whatever the   *)
(* host asks of the motion controls; and without motion controls nothing   *)
(* is on and nothing is read at the wish of this stream's host.            *)
SensorsFitConfig ==
  pc = "stream" /\ ~closed =>
    /\ config.gyroCamera => "gyro" \in sensors
    /\ ~config.motion => /\ "accel" \in sensors => "accel" \in lost
                         /\ \A m \in enabled : m[2] # streams

(* A stream that is being undone gives the menu back, unless a helper was  *)
(* lost, which may take the token that was meant for the present one.      *)
TeardownEnds == (pc = "stopAudio") ~> (pc = "menu" \/ "helper" \in lost)
=============================================================================
