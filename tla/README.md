# A verification project for PotatoStream

PotatoStream is a GameStream / Sunshine client for the Nintendo 3DS and 2DS
(C++ and C, a fork of moonlight-N3DS). This directory holds TLA+ models of its
own logic, the TLC configurations that check them on small instances, and
proofs that TLAPS checks for every value of the constants. Paths below are
relative to the repository; `libgamestream/` is the protocol client,
`src/` the program.

## 1. The system

The program is one process on the console with a handful of threads of
similar priority, on one or two cores.

| Part | State it keeps | Operations | What makes it hard |
|---|---|---|---|
| Main thread, menus (`src/n3ds_main.cpp`) | the configuration, the server of the connection, one background job | host menu, connect, pair, unpair, stream, settings | jobs that are polled or awaited; values borrowed for a connection and given back |
| Stream session (`stream`, `stream_loop`, `input_loop`, `dispatch_loop`) | the listener, the input handler, detached workers | start, loop, tear down | four threads over objects that live as long as one stream |
| Message dispatcher (`src/system/dispatcher.cpp`) | queue and subscribers of the whole program | post, subscribe, unsubscribe, dispatch | outlives what subscribes to it; calls a copy of the list without the lock |
| Connection listener (`src/system/n3ds_connection.cpp`) | closed flag, last error, stage, debug | callbacks of moonlight-common, accept | written by the host's thread, the dispatcher and the main thread |
| Old 3DS decoder (`src/video/potato_sw_video.cpp`) | a presenter thread, two events, the job, the renderer lock | submit, present, destroy | planes owned by FFmpeg read by another thread; renderer replaced in between |
| Slice pool (`src/video/ffmpeg.c`) | the record `core1`, two semaphores, an atomic counter | start, execute, stop | two cores draw from one counter |
| Frame skipping (`src/potato/potato_profile.cpp`) | budget, averages, pressure, fallback | should skip, decoded, skipped, record, apply | feedback over many frames; state that outlives streams and profiles |
| Pair records (`src/system/pair_record.cpp`) | three files | add, remove, list, clear | rewritten by removal; two lists kept in step by four callers |
| GameStream client (`libgamestream/client.c`) | certificate, key, unique id | init, pair, unpair, launch, quit | five-stage pairing; a flag that is never reset |
| Input and touch (`src/input`) | gamepad state, the current handler, what it has pressed, the backlight | a round of the loop, messages, the APT hook | state sampled once and compared once; handlers replaced with a key held; two threads set the backlight |
| Audio (`src/audio/n3ds_audio.cpp`) | the Opus decoder, the DSP, a ring of wave buffers | init, decode and play, clean up | a full ring, buffers that come back while a packet is decoded |
| What a stream takes (`src/video`, `stream`, the listener) | decoder, MVD service, share of core 1, helper thread, screen format, capability tables, sensors | set up, tear down, stages that fail | exceptions in constructors; tables and switches that outlive the stream |
| PotatoFlux (`src/potato/potato_flux_client.cpp`) | the frame being assembled | datagrams | lost, duplicated and reordered datagrams |
| Configuration, Wake on LAN, update check | a file each, or nothing | parse, save | rewriting |

The threads meet in five places: the message queue (input thread to
dispatch thread), the subscriber lists, the listener's atomics (host thread,
dispatch thread, main thread), the renderer lock (decoder, presenter,
dispatch thread), and the two handovers of the decoder (events, semaphores).
`PROJECT.json` lists every hazard met while reading, at its line, with the
property that covers it or the reason none does.

Not part of the model, because it is no logic of this program or has no state:
menu drawing, GPU command lists, curl, expat, OpenSSL, FFmpeg,
moonlight-common-c, libctru and the vendored libraries. The snapshot of the
repository also lacks a few sources it refers to (`host_book`,
`host_discovery`, `y2r_converter`, `_stream_fell_behind`,
`_record_frame_stats`); they appear in the models only as what their callers
can observe, a choice.

## 2. Plan

Core first, because everything the player sees runs through it:

1. `SlicePool` (abstraction `ParallelFor`), `Presenter` (abstraction
   `FrameHandoff`), with proofs. Done.
2. `StreamSession`: dispatcher, listener, workers and teardown over several
   streams. Done.
3. `PairBook`: pairing, records, certificate over several runs. Done.
4. `FrameSkip`: skipping and the runtime fallback. Done.
5. `HostMenu`: the list of hosts, its port, the settings and the background
   job. `HostSession`: the requests to one host. Done.
6. `Settings`: what a stream asks for, over profiles, files and consoles.
   `FluxReceiver`: frames from datagrams. Done.
7. `Input`: the loop, the handlers of the touch screen, what the host has been
   told, the backlight. `AudioRing` (abstraction `AudioQueue`) and `Media` on
   top of it: what a stream takes and gives back. Done.
8. Theorems about `AudioRing`, `Media`, `Input`, `HostMenu`, `HostSession` and
   `FluxReceiver`. Done.
9. Theorems about `StreamSession`, `PairBook`, `FrameSkip` and `Settings`. Done:
   every safety property and refinement a passing run checks is a theorem, and so
   is the type invariant of every component.
10. Left: the clamping of the magnified view as arithmetic; the rewriting of
   the book of Wake on LAN file operation by file operation; the second layout
   of the keyboard.

Every module but the three abstractions is a component by itself, `Media`
extends `AudioRing`, and they meet where one
part's promise is the other's input: `Presenter` takes a decoded frame for
granted, which `SlicePool` justifies; `StreamSession` starts a stream
`HostSession` allowed with what `Settings` resolved, and `HostSession` keeps one
bit of the records that `PairBook` models file by file.

Eight modules hold the proofs, three of them about two components that belong
to the same part of the program: `PotatoVideo_proofs` (`SlicePool` and
`FrameSkip`), `Hosts_proofs` (`HostMenu` and `HostSession`), `Card_proofs`
(`PairBook` and `Settings`), besides `Media_proofs` (`AudioRing` and `Media`),
`Presenter_proofs`, `StreamSession_proofs`, `Input_proofs` and
`FluxReceiver_proofs`. Where two components are proved about in one module the
second one's definitions carry its name (`SkipNext`, `SessionTypeOK`,
`BookSpec`), because both modules are extended.

## 3. The modules

### SlicePool, ParallelFor

`src/video/ffmpeg.c:49-120`. The caller (FFmpeg's thread inside
`core1_execute`, later the thread that runs `ffmpeg_destroy`) and the helper
each have a program counter; every access to the shared record is a step of its
own, `next` is advanced by a fetch-and-add, a release of a semaphore saturates
at one as `LightSemaphore_Init(.., 0, 1)` asks. The fields of a call are
one number, the call they belong to. `ParallelFor` says what FFmpeg
expects: each job once, and return after the last.

### Presenter, FrameHandoff

`src/video/potato_sw_video.cpp` and `src/video/n3ds_video_base.cpp:79-135`. Four
threads: the decoder (`submit_decode_unit`), the presenter, the dispatch thread
that replaces the renderer, and main, which runs constructor and destructor.
`job_ready` is a one-shot event (waiting resets it), `presenter_idle` a sticky
one. `live` is the frame whose planes FFmpeg keeps (`ffmpeg_init` is called with
one buffer). `FrameHandoff` promises one frame at a time, in order, none
overwritten.

### StreamSession

`src/n3ds_main.cpp:1800-2091`, `src/system/dispatcher.cpp`, the listener, the
subscribing halves of the touch screen and of the decoder. Objects are pairs of
a name and the number of their stream; `alive` says which exist, and a step that
touches one that does not sets `dangling`, where the model stops: the C++
program has no defined behaviour from there, and the properties say when it can
come to that. Messages carry the stream they were posted in, which the program
does not know and the properties need. This module has the messages by which the touch
screen changes its mode and by which the stream is left; those of the sensors are
in `Media`, what handlers post and press is in `Input`. A worker surviving into
the next stream is left out (the module's head says why). The player is shown
`ConnectFails` unconditionally, so that path does not
go through `Report`'s decision. `Unsubscribe` takes one entry out of a list
(`RemoveFirst`), as `std::find` and `erase` do.

### PairBook

`src/system/pair_record.cpp`, the certificate part of `libgamestream/client.c`,
and `init_server`, `action_pair`, `action_unpair`. Calls into the record files
queue up in `calls`, their file operations in `ops`; power may be lost between
any two operations, and an open may fail. Hosts trust the certificate they were
paired with last; a pairing that failed may have left the host with the new
certificate, the old one or none. That a new certificate cannot be saved is left
out.

### FrameSkip

`src/potato/potato_profile.cpp` as called from `submit_decode_unit`. Time is
`elapsed`, the distance to `last_frame_tick`, in units of 1/240 s so that the
budgets of 12, 15, 20 and 30 frames a second are whole. Stereoscopic 3D, which no
menu turns on any more, is left out; two flags of profiles are never on together,
because `config_parse` derives them from one profile.

### HostMenu

`main_loop`, `prompt_for_address`, the settings and the options of a host in
`src/n3ds_main.cpp`, the background job there, and the set of remembered
addresses of `src/system/wake_on_lan.cpp`. `screen` is where the main thread is (`page` in `HostSession`);
a job is another thread, polled in the list only. The field `config.port`
serves two masters, the list and the connection, which `savedPort` is for. The
book of hosts is a set, because its source is missing.

### HostSession

`gs_init`, `gs_pair`, `gs_unpair`, `gs_start_app`, `gs_quit_app` as the menu of a
host calls them. A request is one step of client and host, and there are steps
for the host having acted and the reply being lost; the host's side is external
and reduced to what the client reads in replies. `removed` and `calm` are
histories the properties need: what the owner did, and that he does no more.
`PairBook` has the records of many hosts and one step for pairing; this module has
one host and every stage. The check of the display mode in `gs_start_app`
(`libgamestream/client.c:1000`) never refuses, because `unsupported` is true by default
(`src/config.cpp:441`), and is left out.

### Settings

`src/config.cpp`, the settings menu, `potato_resolve_profile` and
`potato_apply_config`. A configuration is a function from keys to values, a file a
function from the keys it contains, so that a file cut off by a power loss is one
with fewer keys. `picked` and `chosen` record what the player asked for, and how
long it stays: "always" where the AUTO flag is turned off with the value, "onNew"
where it is not (a stream value set on a New 3DS, or one whose flag was lost with
the power), "replaced" once an Old 3DS has started from such a file. The
properties compare it with the configuration and with what is streamed. The card may be put into the other
kind of console between two runs. Power is lost between two lines of the file, not
in the middle of one.

### FluxReceiver

`potato_flux_receive_loop`, `begin_frame`, `frame_id_is_newer`. Pictures are
functions from regions to the number of the frame that painted them, so that
"whole" can be said; ids are modulo `IdMod`. The sender is external and sends
well-formed packets. `ShownIsWhole` names one exception the code makes: after a
key frame of a new size that lost a packet, frames that paint a part are painted
on buffers nobody has written. `NoMemory` is `linearAlloc` failing; that the small map of
received packets cannot be allocated (the `catch` of `begin_frame`,
`src/potato/potato_flux_client.cpp:361`, after `packet_count` was stored) is left out,
and nothing is claimed for it.

### Input, MCInput

`src/input/n3ds_input.cpp`, `src/input/touch/N3dsTouchscreenInput.cpp`, the handlers under
`src/input/touch`, the double tap of `src/input/camera_stick.cpp`. One round of
`n3dsinput_handle_event` with `handle_touch` is a sequence of steps (`Scan`,
`Adopt`, `Light`, `Power`, `Round` or `RoundHome`), so that the dispatcher, which
stores `next_touch_type`, and the APT hook of the main thread, which switches the
backlight, come in between. `h` is the current handler with what it remembers
(what was picked, the modifiers of the keyboard, the first tap of the camera);
`published` is what it has put into `touch_buttons`; `pad` and `hostPad` are the
controller here and as the host knows it, `pressed` the keys and mouse buttons
the host has down. `dropped` and `orphans` are histories: changes stored in a round
that saw HOME, and presses whose handler is gone. Positions are the zones they
hit, a stick is deflected or not.

### AudioRing, AudioQueue

`src/audio/n3ds_audio.cpp`. The ring with its index, the status the DSP sets, the
chain the DSP plays (external), and the packet being decoded, which is a step of
its own because the DSP goes on meanwhile. `AudioQueue` promises that what is
taken is heard in order, and that a packet is refused only when the ring is
full.

### Media, MCMedia

Several streams of any configurations one after the other on one kind of
console: the tables of callbacks as `stream` leaves them, the constructors and
destructors of the four decoders with the stage at which each may throw
(`src/video`), the helper thread of `ffmpeg.c` by its owner, the audio output, the
format of the top screen, the motion sensors (`n3ds_connection.cpp:118-148`) and
their messages. Left out are an `APT_GetAppCpuTimeLimit` that fails, after which there is
no limit to restore, and a graphics library that cannot be started when the menu comes
back (`menu_ui_init` then leaves the formats as they were). `LiStartConnection` is external and fails at any stage. `lost` is
a history: it holds what an operation of the code leaves behind with nobody to
give it back, by name, and the properties say that there is nothing else.

## 4. The runs

| Run | Checks | Bounds and why they suffice |
|---|---|---|
| `slices` | `SlicePool` with all its properties and the refinement | four slices, the number the client asks the encoder for; three calls, so that a second one meets what the first left and a pool is stopped and restarted |
| `presenter` | `Presenter` with all its properties and the refinement | four frames and two renderer changes: one frame being shown, one waiting, one skipped or failed, one more |
| `session` | safety and liveness of `StreamSession` | two streams, one tap or HOME press, two error codes, two modes: what the first stream leaves meets the second |
| `session_exit` | expected violation, see 7 | one tap |
| `pairing` | `PairBook` | three hosts (one of NVIDIA), two certificates; runs of the program are not bounded |
| `skip` | `FrameSkip` | costs on both sides of each threshold, gaps of nothing and of more than a budget; waits beyond a tenth of a second are not told apart |
| `host_menu` | `HostMenu` with a liveness property | two addresses and two ports, so that a host of another port than the list's can be connected to; runs of the program are not bounded (179 thousand states) |
| `host_session` | `HostSession` with a liveness property | two apps: the one that runs is or is not the one picked; nothing else is bounded |
| `settings` | `Settings` | one stream value and one core flag by hand or in AUTO, two profiles that differ in every value, a file cut off before its first line and between the two AUTO flags, old flags that contradict each other, with and without stereoscopic 3D (2.6 million states, the largest run) |
| `flux` | `FluxReceiver` | six frames, packets of the last three on the way, ids of three bits, two sizes (143 thousand states) |
| `input` | `Input` with a liveness property | one button and one trigger, one of each row of the touch pad, one letter and one modifier, two messages on the way; the modes are shared out among four kinds of stream so that every handler meets its successors and the menu, with and without triggers as mouse buttons, view-only and the automatic backlight (570 thousand states) |
| `media` | `Media` with a liveness property, and `AudioRing` with its refinement | two slots and two sounds; two streams of four configurations that leave to the next one what it does not want, on both kinds of console (480 thousand states) |

The definitions named `TypeOK` document the ranges of the variables; they are
theorems for all components (`FluxReceiver`'s under `Few`, see 6), and no run is
spent on them.

Deadlock is checked except where the system may stop (a stream that ended, a
model that stopped at a use of a destroyed object, a sender with nothing left).

## 5. Fairness

Threads are weakly fair between their blocking calls: the console schedules
threads of equal priority in turn and they block on events, semaphores,
joins and screen refreshes only. FFmpeg need not decode another frame, users
need not tap, hosts need not answer or end a stream. In `FrameSkip` the host is
assumed to go on sending frames, for the one property that is about a stream
that goes on. In `HostMenu` the loops of the main thread run a frame at a
time and a request ends by its timeout, so neither the polling nor a job stays
where it is; that the player leaves a menu is not assumed. In `HostSession` only
the player acts of his own accord: `NeverStuck` assumes that he keeps trying to
start an app and to quit what runs (strong fairness, because he can only while
the menu of the host is open), and that from some time on nothing is lost; it
shows that then what the client believes cannot stand in his way for ever.
In `Input` the
input thread and the dispatcher's are fair while the program is in the
foreground; suspensions, fingers and the host are not. In `Media` the main thread
is fair outside the menu and a packet in progress is finished, so that a stream
which is over gives way to the menu; nothing forces the host, the DSP or the
player. `Settings`, `PairBook` and `FluxReceiver` have safety properties only.

## 6. Proofs

What is proved of `SlicePool` and `Presenter` holds for any number of slices,
calls, frames and renderer changes: the inductive invariant, each safety
property their runs check, and the refinement. The invariants are needed
because the properties do not carry themselves: that a slice is decoded once
follows from who holds which number and where the single token of the two
semaphores is (`Handshake`, `Shares`); that planes are alive follows from where
each thread is relative to the two events (`EventInv`, `CarryInv`, `LifeInv`,
`LockInv`). Assumptions are the types of the constants. Some theorems are about the
invariants and not about a property of a run: that the pool is empty when a call
returns and quiet after the helper was joined, that the helper touches a live
record only (`LiveBatch`, the reason why freeing the codec before the helper is
stopped does no harm).

`StreamSession_proofs` proves the three safety properties of `StreamSession` for
any touch modes, error codes, streams and messages. `ObjectsInv` says which
objects exist and in which order they are subscribed at each place of the main
thread; `WorkersInv` that the copy of the list the dispatcher works through
contains living objects while the decoder exists, which is why nothing dead is
called as long as a stream runs (`NoDeadWhileStreaming`). `ScreenMatchesTouch`
needs to know how far a message has come: `DeliveryInv` reads from the rest of the
copy who has the new mode already, touch screen, listener, decoder, in the order
of their construction. `CauseInv` and `ReasonInv` follow each cause of an end from the
thread that had it to the two reads of the error code (`OneCauseReported`).

`PotatoVideo_proofs` proves both properties of `FrameSkip` for any costs and gaps.
`PictureMoves` follows because a frame that is held is one that was skipped
(`HeldInv`). `NoFlicker` is about two steps that lie far apart: `PressureInv` counts
that below the threshold every two units of pressure were brought by a frame that
strained the decoder, so that it takes three to turn the fallback on.

`Card_proofs` proves the four properties of `PairBook` for any hosts and
certificates, with power lost between any two file operations and opens that
fail. The files are in the middle of a rewriting most of the time, so that the
invariant cannot speak of what is in them: `BookIInv` says that there are two
lists X and Y that the files will hold once the operations that are left are done
(`Becomes`), and that these keep what was promised (`Promises`) as far as no call
that is still to come takes it back (`Doomed`, `Pairing`).

It also proves both properties of `Settings`, for all seven keys with AUTO, all
profiles, any numbers, files of older versions, and files cut off after any line.
The invariant relates three copies of one thing: what the player asked for
(`chosen`, `picked`) agrees with the configuration while the program runs: the
keys that are out of AUTO are those whose value stays "always"
(`MemoryInv`), what he had asked for at the last save agrees with what
`config_parse` will make of the file (`CardInv`), and a stream has had the
configuration applied to it (`AppliedInv`). It rests on lemmas about the
functions: what `config_parse` makes of any file (`Parsed`), that a saved
configuration comes back (`ParsedAgain`, and `SavedComesBack` for every state),
that `potato_apply_config` leaves what is out of AUTO alone (`AppliedValues`), what
a file that was cut off holds (`HoldsCut`: no AUTO flag gets to the card before its
value), and that
`potato_resolve_profile` yields what the menu promises (`ResolvedValues`).

`Media_proofs` proves of `AudioRing`, for a ring of any size, that the buffers the DSP holds are
the last ones before `wave_buf_idx`, in the order of the ring, and that they alone
are not done (`RingInOrder`). From this follows that a packet is decoded into a
free buffer only, and the refinement: the queue is read off the chain. This is
about `AudioSpec`, the ring opened, used and closed in turn. That the streams of
`Media` use it so is a theorem of its own (`StreamsUseTheRing`: `Media`'s behaviours
are among `AudioSpec`'s): where a stream starts its audio no output is open
(`OutputInv`), and an output that is closed has nothing at the DSP (`QuietInv`). With
it `ImplementsAudioQueue` holds over all the streams of a program
(`StreamsPlayInOrder`), which is what the run `media` checks.

It also proves the three safety properties of `Media` for any set of
configurations and any number of streams. The invariant says of each resource who
holds it at each place of the main thread, or that it is in `lost` (`MvdInv`,
`ScreenInv`, `LimitInv`, `HelperInv`, `PixelInv`, `OutputInv`, `SensorInv`,
`RequestInv`), and of the tables what every stream leaves in them (`CapsInv`):
"direct" may be left in any of them, "slices4" in that of the Old 3DS, and only
what `stream` sets or clears itself can differ.

`Hosts_proofs` proves the two safety properties of `HostMenu` for any hosts and ports:
`PortInv` follows the port through every screen, `JobInv` says on which screens a
job may run. Of `HostSession` it proves `PairedIsTrusted`; the strengthening
`Believed` follows the stages of `gs_pair` on both sides, whichever reply is
lost.

`Input_proofs` proves the three safety properties of `Input` for any buttons,
letters, modifiers, configurations and any number of messages. `HomeIsMenus` needs
the order of the messages about the menu (`QueueInv`): in the menu the requests for
it come before the choices made in it, and outside it is the other way round, so
that the menu never replaces itself, which would forbid HOME in it. `TouchInv` says
what a handler still owes the host (`Owned`) at each point of a touch;
`NothingOutlivesTouch` follows because it owes nothing once the finger is up. The
types need `TouchInv` once more: what goes into the controller is what a handler in
its mode can publish (`TouchPublishes`).

`FluxReceiver_proofs` proves that the frame shown never moves back for any
constants, and that painted packets fit the buffers and shown frames are whole
under one more assumption, `Few`: no id comes twice (`MaxFrames <= IdMod`). It is
needed, and stands for a stream of less than 2^32 frames: a frame whose id
repeats that of the frame being assembled would be mixed with it. The run
satisfies it. The types need it too (`TypeCorrect`): a packet that continues the
wrong frame would be painted into a buffer that is gone. `ShownInv` ties the id last shown to a frame by arithmetic modulo
`IdMod` (the lemmas `Distance`, `IdsDiffer` and `NewerIsNewer`), `PaintInv` says
what the frame being assembled has received and what its buffer holds.

Theorems named `Inductive`, or with that word at the end, state the strengthening
itself; that of `Media` is worth reading by itself as the account of what is held
when. The invariants of `StreamSession`, `PairBook`, `FrameSkip` and `Settings`
were checked by TLC on the configurations of the runs before they were proved. What
is assumed of the constants are their types, what their names say (`NoHost` is no
host, modes and events are different things) and the bounds of the counters.

Only model-checked are the properties about what must happen eventually:
`CallerReturns`, `QueuedIsShown`, `EveryWaitEnds`, `MessagesTakeEffect`,
`StreamOverReturns`, `FallbackEnds`, `ScanStarts`, `NeverStuck`, `LitForThePlayer`
and `TeardownEnds`. Liveness under fairness needs ENABLED, which is out of the
prover's reach.

## 7. Disagreements found

One has a run that is expected to find a violation:

* An exit message still queued when its stream ends closes the next stream
  (`ExitEndsItsOwnStream`, run `session_exit`).

The others were met while modelling; unless noted, the models contain the
behaviour, and no run is kept for the statement it contradicts:

* In the run of the program that made a new certificate, a host that was paired
  successfully is unpaired again by the next connection: nothing resets
  `cert_regenerated` (`libgamestream/client.c:1114`). `PairingLastsNextRun` is what
  remains true.
* In the round that sees HOME the new buttons are stored and not sent, and the next
  round takes them for sent (`src/input/n3ds_input.cpp:267`); a trigger let go in
  this round leaves its mouse button down on the host when triggers are mouse
  buttons. `HostPlaysThePad` and `NothingOutlivesTouch` name the exception.
* A handler that is replaced while the finger is down releases nothing
  (`src/input/touch/N3dsTouchscreenInput.cpp:149`): a mouse button or a key stays pressed on
  the host; and letting L and R go before the finger leaves the press of the magnified
  view (`src/input/touch/MagnifyTouchHandler.cpp:78`).
* A picture smaller than the bottom screen, which the Default profile's is, makes the
  largest offset negative and the view is clamped to it
  (`src/input/touch/MagnifyTouchHandler.cpp:41`); not part of a model.
* A constructor that throws after it has taken something has no destructor to give it
  back: the share of core 1 and a helper thread (`src/video/potato_sw_video.cpp:50`), the
  MVD service and the format of the top screen; the Opus decoder stays when `ndspInit`
  fails (`src/audio/n3ds_audio.cpp:58`). A decoder set up on the format that was left
  writes pixels of another width than the renderer reads. `GivenBack` and
  `StreamFitsConfig` name them.
* A sensor the host asks for while the stream is being torn down or its set-up undone
  stays on, and an `ENABLE_GYRO` or `ENABLE_ACCEL` that is still queued turns the sensor
  events of the next stream on (`src/system/n3ds_connection.cpp:143`).
* The keyboard's picture is written through a cast to `N3dsRendererNormal`
  (`src/video/n3ds_video_base.cpp:140`), although a second choice from the menu may have
  replaced the renderer by then. The models have the replacement, not the picture.

* `prompt_for_stream_settings` saves the whole configuration while `config.port`
  is lent to a connection (`src/n3ds_main.cpp:1679`, lent at 2231, given back at
  2296): the port of this one host becomes the saved port, which the settings say
  "Applies to every host in the list." (line 1110).
* `potato_record_decode_ticks` returns before it looks at the pressure when the
  profile is not Ultra, and nothing else resets `dynamic_ultra_active`
  (`src/potato/potato_profile.cpp:264`): a fallback that is on when the player
  changes the profile stays on, where the comment at line 83 says that Ultra owns
  it.
* `frame_budget_ticks` is computed from the profile's rate before
  `potato_apply_config` puts the player's rate in its place (line 96): a stream
  set to 10 fps is judged by the budget of 20 and frames are skipped although each
  was decoded in a fraction of its time.
* `stereoscopic_3d` in a file of an older version overrides the profile that is
  picked (line 48), `config_save` keeps writing it (`src/config.cpp:392`) and no
  menu sets it any more. `StreamIsAsPromised` names this exception.
* The Default profile is 320x192, 20 fps, 1500 kbps (line 75); the repository's
  README (line 83) says 400x240, 24 fps, 3000 kbps are applied automatically.
* `gs_start_app` resumes whatever `currentGame` says without comparing it with the
  app that was picked (`libgamestream/client.c:1039`); the repository's README (line 72)
  says "pick which app to launch".
* A stream value set on a New 3DS is not the player's for good. The menu offers no AUTO
  for it there (`auto_flag_for`, `src/n3ds_main.cpp:1376`), so its flag stays on as
  `config_parse` set it (`src/config.cpp:480`), and when the card is put into an Old 3DS
  `potato_apply_config` replaces the value by the profile's
  (`src/potato/potato_profile.cpp:330`); the next save there makes that permanent. The
  same happens to a value set on an Old 3DS whose AUTO flag a power loss kept from the
  card. `ManualValuesLast` names the exception.
