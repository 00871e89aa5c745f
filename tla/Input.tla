--------------------------------- MODULE Input ---------------------------------
(***************************************************************************)
(* The input of one stream: the loop of N3dsInput                          *)
(* (src/input/n3ds_input.cpp), the touch screen with the handler of the    *)
(* mode it is in (src/input/touch), and what the host has been told.       *)
(*                                                                         *)
(* A round of the loop samples the buttons and the finger, changes the     *)
(* handler if a message asked for it, sees to the backlight, gives the     *)
(* touch to the handler and tells the host what is new.  The dispatcher    *)
(* changes next_touch_type meanwhile, and the main thread runs the APT     *)
(* hook when the console is suspended or put to sleep.  A message of an    *)
(* earlier stream may be the first one (see StreamSession, which has the   *)
(* dispatcher and the end of a stream step by step; here the loop has      *)
(* ended when the input handler is destroyed).                             *)
(*                                                                         *)
(* Where a touch is on the screen matters as the zone it hits only; a      *)
(* stick is deflected or not, which stands for the buckets of              *)
(* joystick_state_changed.                                                 *)
(***************************************************************************)
EXTENDS Naturals, Sequences, FiniteSets

CONSTANTS
  Keys,      (* the buttons of the console, by the name of what they send   *)
  Bottom,    (* the buttons GamepadTouchHandler has in its row              *)
  Letters,   (* the keys of the keyboard that are no modifiers              *)
  Modifiers, (* SHIFT, CTRL, ALT                                            *)
  Configs,   (* view_only, use_triggers_for_mouse, bottom_auto_off, and the *)
             (* modes, buttons and sticks the player makes use of           *)
  Swap,      (* swap_triggers_and_shoulders                                 *)
  MaxQueue   (* messages on the way to the touch screen (bounds the model)  *)

Mouse == {"LEFT", "RIGHT"}
Triggers == {"ZL", "ZR"}
Shoulders == {"L", "R"}
Sticks == {"left", "right"}
Menu == "MENU_TOUCH"
Disabled == "DISABLED"
Exit == "EXIT_STREAM"

Choices == {"GAMEPAD", "MOUSEPAD", "KEYBOARD", "ABSOLUTE_TOUCH", "DS_TOUCH",
            "MAGNIFY_TOUCH", "DEBUG_TOUCH"}
Modes == Choices \cup {Menu, Disabled}

ASSUME InputAssumption ==
  /\ Keys \subseteq {"A", "B"} \cup Triggers \cup Shoulders
  /\ Modifiers \subseteq {"SHIFT", "CTRL", "ALT"}
  /\ Letters \cap (Modifiers \cup Mouse \cup {"none", "switch"}) = {}
  /\ Bottom \subseteq {"ZL", "ZR", "L3", "R3", "HOME"}
  /\ Configs \subseteq [viewOnly : BOOLEAN, triggersMouse : BOOLEAN, autoOff : BOOLEAN,
                         modes : SUBSET Choices, uses : SUBSET (Keys \cup Sticks)]
  /\ Swap \in BOOLEAN /\ MaxQueue \in Nat

TouchPad == Bottom \cup {"R3", "camera"}

VARIABLES
  config,      (* the one of Configs the stream was started with            *)
  pc,          (* where the loop is in its round                            *)
  closed,      (* is_connection_closed                                      *)
  queue,       (* messages posted and not yet delivered                     *)
  next, mode,  (* next_touch_type, touch_type                               *)
  h,           (* what the handler of mode remembers                        *)
  published,   (* touch_keys, touch_buttons and touch_stick                 *)
  finger,      (* the touch screen is touched                               *)
  edge,        (* "down" in kDown, "up" in kUp, or "none"                   *)
  pad,         (* buttons, triggers and sticks of gamepad_state             *)
  homeAllowed, (* aptSetHomeAllowed                                         *)
  home,        (* aptCheckHomePressRejected                                 *)
  menuActive,  (* menu_active                                               *)
  hostPad,     (* the controller as the host knows it                       *)
  pressed,     (* mouse buttons and keys the host has down                  *)
  dropped,     (* history: a change was stored that the host was not told   *)
  orphans,     (* history: pressed, and nobody is left who would release it *)
  lit,         (* the backlight of the bottom screen                        *)
  lightOn,     (* backlight_on                                              *)
  idle,        (* BACKLIGHT_IDLE_SECONDS are over since last_activity_tick  *)
  resync,      (* g_backlight_resync                                        *)
  away         (* "here", or the console leaves the program, or has left it *)

touchVars == <<next, mode, h, published, orphans>>
samples == <<finger, edge>>
hostVars == <<hostPad, pressed, dropped>>
homeVars == <<homeAllowed, home, menuActive>>
light == <<lit, lightOn, idle, resync>>
vars == <<config, pc, closed, queue, touchVars, samples, pad, homeVars, hostVars,
          light, away>>

(* A new handler: isActive and the members it has in any mode.             *)
Fresh == [active |-> FALSE, picked |-> "none",
          r3 |-> FALSE, hasTap |-> FALSE, far |-> FALSE,  (* GamepadTouchHandler *)
          mods |-> [m \in Modifiers |-> "off"]]           (* KeyboardTouchHandler *)

(* What the end of an earlier stream may have left in the dispatcher, then *)
(* force_touchscreen_menu, the first call of input_loop.                   *)
Init ==
  /\ config \in Configs
  /\ pc = "scan" /\ closed = FALSE
  /\ queue \in {<<Menu>>} \cup {<<m, Menu>> : m \in config.modes}
  /\ next = Disabled /\ mode = Disabled /\ h = Fresh /\ published = {}
  /\ finger = FALSE /\ edge = "none"
  /\ pad = {} /\ homeAllowed = FALSE /\ home = FALSE /\ menuActive = FALSE
  /\ hostPad = {} /\ pressed = {} /\ dropped = FALSE /\ orphans = {}
  /\ lit = TRUE /\ lightOn = TRUE /\ idle = FALSE
  /\ resync = FALSE /\ away = "here"

(* What becomes of a touch: the handler's members, what it publishes for   *)
(* the controller, what the host has down after its events, what it posts. *)
Result(h2, pub, down, posts) ==
  [h |-> h2, published |-> pub, pressed |-> down, posts |-> posts]

Picks(x) == [h EXCEPT !.picked = x]

-----------------------------------------------------------------------------
(* GamepadTouchHandler.  A row of buttons; below it the camera, where a    *)
(* second tap holds R3 (DoubleTapDetector: near, soon, and not itself the  *)
(* second one: max_travel is set beyond its limit).                        *)
Published(g, moved) ==
  CASE g.r3 -> {"R3"}
    [] g.picked = "camera" -> IF moved THEN {"camera"} ELSE {}
    [] OTHER -> {g.picked} \ {"none"}

GamepadDown ==
  {Result(g, Published(g, FALSE), pressed, <<>>) :
     g \in {[h EXCEPT !.picked = b, !.r3 = FALSE] : b \in Bottom}
           \cup {[h EXCEPT !.picked = "camera", !.r3 = second, !.far = second,
                           !.hasTap = FALSE] : second \in {FALSE, h.hasTap}}}

GamepadHold ==
  IF h.picked # "camera" THEN {Result(h, published, pressed, <<>>)}
  ELSE {Result(g, Published(g, moved), pressed, <<>>) :
          g \in {[h EXCEPT !.far = far] : far \in {h.far, TRUE}}, moved \in BOOLEAN}

GamepadUp ==
  {Result([h EXCEPT !.picked = "none", !.r3 = FALSE, !.hasTap = tap], {}, pressed, <<>>) :
     tap \in IF h.picked = "camera" THEN {FALSE, ~h.far} ELSE {h.hasTap}}

(* MouseTouchHandler: two buttons below the pad.                           *)
MouseDown ==
  {Result(h, published, pressed, <<>>)}
    \cup {Result(Picks(b), published, pressed \cup {b}, <<>>) : b \in Mouse}

MouseUp == {Result(Picks("none"), published, pressed \ {h.picked}, <<>>)}

(* KeyboardTouchHandler.  A modifier goes from off to the next key only,   *)
(* to locked and to off.  The switch to the other layout changes the       *)
(* picture and the meaning of the keys.                                    *)
Cycled(s) == CASE s = "off" -> "once" [] s = "once" -> "locked" [] s = "locked" -> "off"

KeyboardDown ==
  {Result(Picks(x), published, pressed, <<>>) : x \in {"none", "switch"}}
    \cup {Result(Picks(k), published, pressed \cup {k}, <<>>) : k \in Letters}
    \cup {Result([h EXCEPT !.picked = k, !.mods[k] = Cycled(@)], published,
                 pressed \cup {k}, <<>>) : k \in Modifiers}

KeyboardUp ==
  {IF h.picked \in {"none", "switch"} THEN Result(h, published, pressed, <<>>)
   ELSE Result([h EXCEPT !.picked = "none",
                         !.mods = IF h.picked \in Modifiers THEN @
                                  ELSE [m \in Modifiers |->
                                          IF @[m] = "once" THEN "off" ELSE @[m]]],
               published, pressed \ {h.picked}, <<>>)}

(* MirrorTouchHandler and StretchTouchHandler: the touch is a click.       *)
ClickDown == {Result(h, published, pressed \cup {"LEFT"}, <<>>)}
ClickUp == {Result(h, published, pressed \ {"LEFT"}, <<>>)}

(* MagnifyTouchHandler: a click while a shoulder is held (_lock_view, from *)
(* the buttons of the round before), otherwise the view moves.             *)
Locked == pad \cap Shoulders # {}
MagnifyDown == IF Locked THEN ClickDown ELSE {Result(h, published, pressed, <<>>)}
MagnifyUp == IF Locked THEN ClickUp ELSE {Result(h, published, pressed, <<>>)}

(* MenuTouchHandler: the choice under the finger is posted when it leaves. *)
MenuHold == {Result(Picks(m), published, pressed, <<>>) : m \in config.modes \cup {Exit}}
MenuUp == {Result(h, published, pressed,
                  IF h.picked = "none" THEN <<>> ELSE <<h.picked>>)}

Unchanged == {Result(h, published, pressed, <<>>)}

Down ==
  CASE mode = "GAMEPAD" -> GamepadDown
    [] mode = "MOUSEPAD" -> MouseDown
    [] mode = "KEYBOARD" -> KeyboardDown
    [] mode \in {"ABSOLUTE_TOUCH", "DS_TOUCH"} -> ClickDown
    [] mode = "MAGNIFY_TOUCH" -> MagnifyDown
    [] mode = Menu -> MenuHold
    [] OTHER -> Unchanged

Up ==
  CASE mode = "GAMEPAD" -> GamepadUp
    [] mode = "MOUSEPAD" -> MouseUp
    [] mode = "KEYBOARD" -> KeyboardUp
    [] mode \in {"ABSOLUTE_TOUCH", "DS_TOUCH"} -> ClickUp
    [] mode = "MAGNIFY_TOUCH" -> MagnifyUp
    [] mode = Menu -> MenuUp
    [] OTHER -> Unchanged

Hold ==
  CASE mode = "GAMEPAD" -> GamepadHold
    [] mode = Menu -> MenuHold
    [] OTHER -> Unchanged

(* n3dsinput_handle_touch after the change of handler.                     *)
Touches_Watching ==
  IF mode = Disabled THEN Unchanged
  ELSE CASE edge = "down" -> {[r EXCEPT !.h.active = TRUE] : r \in Down}
         [] edge = "up" -> {[r EXCEPT !.h.active = FALSE] : r \in Up}
         [] OTHER -> IF h.active THEN Hold ELSE Unchanged

Touches ==
  IF mode = Disabled \/ (config.viewOnly /\ mode # Menu) THEN Unchanged
  ELSE CASE edge = "down" -> {[r EXCEPT !.h.active = TRUE] : r \in Down}
         [] edge = "up" -> {[r EXCEPT !.h.active = FALSE] : r \in Up}
         [] OTHER -> IF h.active THEN Hold ELSE Unchanged

-----------------------------------------------------------------------------
(* n3dsinput_handle_event: hidScanInput, and the first look at             *)
(* next_touch_type.                                                        *)
Scan ==
  /\ pc = "scan" /\ ~closed
  /\ \E f \in BOOLEAN :
       /\ finger' = f
       /\ edge' = IF f = finger THEN "none" ELSE IF f THEN "down" ELSE "up"
  /\ pc' = IF next # mode THEN "adopt" ELSE IF config.autoOff THEN "light" ELSE "round"
  /\ UNCHANGED <<config, closed, queue, touchVars, pad, homeVars, hostVars, light, away>>

(* What the handler in use would still release on the host.                *)
Releasable ==
  CASE mode \in {"MOUSEPAD", "KEYBOARD"} -> {h.picked}
    [] mode \in {"ABSOLUTE_TOUCH", "DS_TOUCH", "MAGNIFY_TOUCH"} ->
         IF h.active THEN {"LEFT"} ELSE {}
    [] OTHER -> {}

(* _n3dsinput_set_touch, with a second look: the new handler is made       *)
(* before the old one is destroyed.  The menu's constructor allows HOME    *)
(* and its destructor forbids it; a gamepad's publish that nothing is      *)
(* held.                                                                   *)
Adopt_KeepsPublished ==
  /\ pc = "adopt" /\ pc' = IF config.autoOff THEN "light" ELSE "round"
  /\ mode' = next /\ h' = Fresh
  /\ published' = IF "GAMEPAD" = next THEN {} ELSE published
  /\ homeAllowed' = IF mode = Menu THEN FALSE ELSE next = Menu \/ homeAllowed
  /\ orphans' = orphans \cup (Releasable \cap pressed)
  /\ UNCHANGED <<config, closed, queue, next, samples, pad, home, menuActive,
                 hostVars, light, away>>

Adopt ==
  /\ pc = "adopt" /\ pc' = IF config.autoOff THEN "light" ELSE "round"
  /\ mode' = next /\ h' = Fresh
  /\ published' = IF "GAMEPAD" \in {mode, next} THEN {} ELSE published
  /\ homeAllowed' = IF mode = Menu THEN FALSE ELSE next = Menu \/ homeAllowed
  /\ orphans' = orphans \cup (Releasable \cap pressed)
  /\ UNCHANGED <<config, closed, queue, next, samples, pad, home, menuActive,
                 hostVars, light, away>>

(* _update_backlight: what to do, and doing it.                            *)
MayDim == mode \in {"GAMEPAD", "MOUSEPAD"}

Light_TrustsLightOn ==
  /\ pc = "light"
  /\ LET late == idle /\ ~resync /\ MayDim /\ ~finger
     IN /\ idle' = late
        /\ resync' = FALSE /\ lightOn' = lightOn
        /\ pc' = IF lightOn' = ~late THEN "round" ELSE IF late THEN "off" ELSE "on"
  /\ UNCHANGED <<config, closed, queue, touchVars, samples, pad, homeVars, hostVars,
                 lit, away>>

Light ==
  /\ pc = "light"
  /\ LET late == idle /\ ~resync /\ MayDim /\ ~finger
     IN /\ idle' = late
        /\ resync' = FALSE /\ lightOn' = (lightOn /\ ~resync)
        /\ pc' = IF lightOn' = ~late THEN "round" ELSE IF late THEN "off" ELSE "on"
  /\ UNCHANGED <<config, closed, queue, touchVars, samples, pad, homeVars, hostVars,
                 lit, away>>

Power ==
  /\ pc \in {"on", "off"} /\ pc' = "round"
  /\ lit' = (pc = "on") /\ lightOn' = (pc = "on")
  /\ UNCHANGED <<config, closed, queue, touchVars, samples, pad, homeVars, hostVars,
                 idle, resync, away>>

(* _n3ds_to_li_buttons and the triggers: the keys that are held, and what  *)
(* the touch screen adds.  With Swap, shoulders and triggers change places.*)
Sent(k) ==
  IF ~Swap THEN k
  ELSE CASE k = "L" -> "ZL" [] k = "ZL" -> "L" [] k = "R" -> "ZR" [] k = "ZR" -> "R"
         [] OTHER -> k

Buttons(keys, pub) ==
  {Sent(k) : k \in keys \cup (pub \cap Triggers)} \cup (pub \ ({"camera"} \cup Triggers))

Camera(pub) == IF "camera" \in pub THEN {"right"} ELSE {}

(* The clicks of the triggers, when they are the buttons of the mouse.     *)
Click(k) == IF k = "ZL" THEN "LEFT" ELSE "RIGHT"
Clicked(down, before, after) ==
  (down \ {Click(k) : k \in Triggers \cap (before \ after)})
    \cup {Click(k) : k \in Triggers \cap (after \ before)}

(* _gamepad_state_changed, and what is sent then.                          *)
Tell(down) ==
  IF pad' = pad THEN pressed' = down /\ UNCHANGED <<hostPad, dropped>>
  ELSE /\ dropped' = FALSE
       /\ hostPad' = IF config.triggersMouse THEN pad' \ Triggers ELSE pad'
       /\ pressed' = IF config.triggersMouse THEN Clicked(down, pad, pad') ELSE down

(* What this round leaves pressed for good: a finger that leaves the view  *)
(* of MagnifyTouchHandler unlocked releases nothing, nor does a trigger    *)
(* that is let go in a round that sees HOME.                               *)
Unlocked == IF mode = "MAGNIFY_TOUCH" /\ edge = "up" /\ ~Locked THEN {"LEFT"} ELSE {}
LetGo ==
  IF config.triggersMouse THEN {Click(k) : k \in Triggers \cap (pad \ pad')} ELSE {}

(* The rest of a round.  With HOME pressed it ends before anything is      *)
(* sent: the menu is asked for, once for each press.                       *)
RoundHome ==
  /\ pc = "round" /\ home /\ pc' = "scan" /\ edge' = "none"
  /\ \E r \in Touches, keys \in SUBSET (config.uses \cap Keys) :
       /\ h' = r.h /\ published' = r.published /\ pressed' = r.pressed
       /\ pad' = IF config.viewOnly THEN pad ELSE Buttons(keys, r.published) \cup (pad \cap Sticks)
       /\ queue' = queue \o r.posts \o (IF menuActive THEN <<>> ELSE <<Menu>>)
  /\ Len(queue') <= MaxQueue
  /\ menuActive' = TRUE
  /\ home' \in BOOLEAN  (* HOME is still held, or not *)
  /\ dropped' = (dropped \/ pad' # pad)
  /\ orphans' = (orphans \cup Unlocked \cup LetGo) \cap pressed'
  /\ UNCHANGED <<config, closed, next, mode, finger, homeAllowed, hostPad, light, away>>

Round ==
  /\ pc = "round" /\ ~home /\ pc' = "scan" /\ edge' = "none"
  /\ \E r \in Touches, keys \in SUBSET (config.uses \cap Keys),
        sticks \in SUBSET (config.uses \cap Sticks) :
       /\ h' = r.h /\ published' = r.published
       /\ pad' = IF config.viewOnly THEN pad
                 ELSE Buttons(keys, r.published) \cup sticks \cup Camera(r.published)
       /\ queue' = queue \o r.posts
       /\ Tell(r.pressed)
  /\ Len(queue') <= MaxQueue
  /\ menuActive' = FALSE
  /\ orphans' = (orphans \cup Unlocked) \cap pressed'
  /\ UNCHANGED <<config, closed, next, mode, finger, homeAllowed, home, light, away>>

(* The stream is over: N3dsInput::~N3dsInput.                              *)
Leave_HandlerLast ==
  /\ pc = "scan" /\ closed /\ pc' = "over"
  /\ pad' = {} /\ published' = {} /\ h' = Fresh /\ mode' = Disabled
  /\ homeAllowed' = (mode # Menu)
  /\ lit' = (config.autoOff \/ lit)
  /\ UNCHANGED <<config, closed, queue, next, orphans, samples, home, menuActive,
                 hostVars, lightOn, idle, resync, away>>

Leave ==
  /\ pc = "scan" /\ closed /\ pc' = "over"
  /\ pad' = {} /\ published' = {} /\ h' = Fresh /\ mode' = Disabled
  /\ homeAllowed' = TRUE
  /\ lit' = (config.autoOff \/ lit)
  /\ UNCHANGED <<config, closed, queue, next, orphans, samples, home, menuActive,
                 hostVars, lightOn, idle, resync, away>>

-----------------------------------------------------------------------------
(* The dispatcher: N3dsTouchscreenInput::accept, or the end of the stream. *)
Deliver ==
  /\ pc # "over" /\ queue # <<>>
  /\ queue' = Tail(queue)
  /\ IF Head(queue) = Exit THEN closed' = TRUE /\ UNCHANGED next
     ELSE next' = Head(queue) /\ UNCHANGED closed
  /\ UNCHANGED <<config, pc, mode, h, published, orphans, samples, pad, homeVars,
                 hostVars, light, away>>

HostEnds ==
  /\ pc = "scan" /\ ~closed /\ closed' = TRUE
  /\ UNCHANGED <<config, pc, queue, touchVars, samples, pad, homeVars, hostVars,
                 light, away>>

(* HOME, when it is not allowed (otherwise it suspends the program).       *)
PressHome ==
  /\ pc # "over" /\ ~homeAllowed /\ ~home /\ home' = TRUE
  /\ UNCHANGED <<config, pc, closed, queue, touchVars, samples, pad, homeAllowed,
                 menuActive, hostVars, light, away>>

TimePasses ==
  /\ pc # "over" /\ config.autoOff /\ ~idle /\ idle' = TRUE
  /\ UNCHANGED <<config, pc, closed, queue, touchVars, samples, pad, homeVars,
                 hostVars, lit, lightOn, resync, away>>

(* backlight_apt_hook on the main thread: the light first, then the flag.  *)
(* What the light is after a sleep is up to the console.                   *)
Suspend ==
  /\ pc # "over" /\ config.autoOff /\ away = "here" /\ away' = "leaving"
  /\ lit' = TRUE
  /\ UNCHANGED <<config, pc, closed, queue, touchVars, samples, pad, homeVars,
                 hostVars, lightOn, idle, resync>>

Suspended ==
  /\ pc # "over" /\ away = "leaving" /\ away' = "away" /\ resync' = TRUE
  /\ UNCHANGED <<config, pc, closed, queue, touchVars, samples, pad, homeVars,
                 hostVars, lit, lightOn, idle>>

Resume ==
  /\ pc # "over" /\ away = "away" /\ away' = "here" /\ resync' = TRUE
  /\ lit' \in BOOLEAN
  /\ UNCHANGED <<config, pc, closed, queue, touchVars, samples, pad, homeVars,
                 hostVars, lightOn, idle>>

Steps == Scan \/ Adopt \/ Light \/ Power \/ RoundHome \/ Round \/ Leave

Environment ==
  \/ Deliver \/ HostEnds \/ PressHome \/ TimePasses \/ Suspend \/ Suspended \/ Resume

Next == Steps \/ Environment

(* The input thread and the dispatcher's get their turns while the program *)
(* is in the foreground.                                                   *)
Spec ==
  Init /\ [][Next]_vars /\ WF_vars(away = "here" /\ Steps) /\ WF_vars(away = "here" /\ Deliver)

-----------------------------------------------------------------------------
(* The type invariant of the loop, and of what it remembers of the touch.  *)
TypeOK ==
  /\ config \in Configs
  /\ pc \in {"scan", "adopt", "light", "on", "off", "round", "over"}
  /\ closed \in BOOLEAN /\ queue \in Seq(Modes \cup {Exit})
  /\ next \in Modes /\ mode \in Modes
  /\ h \in [active : BOOLEAN, r3 : BOOLEAN, hasTap : BOOLEAN, far : BOOLEAN,
            picked : TouchPad \cup Mouse \cup Letters \cup Modifiers \cup Modes
                       \cup {Exit, "none", "switch"},
            mods : [Modifiers -> {"off", "once", "locked"}]]
  /\ published \subseteq TouchPad
  /\ finger \in BOOLEAN /\ edge \in {"down", "up", "none"}
  /\ pad \subseteq {Sent(k) : k \in Keys \cup Triggers} \cup TouchPad \cup Sticks
  /\ hostPad \subseteq {Sent(k) : k \in Keys \cup Triggers} \cup TouchPad \cup Sticks
  /\ homeAllowed \in BOOLEAN /\ home \in BOOLEAN /\ menuActive \in BOOLEAN
  /\ pressed \subseteq Mouse \cup Letters \cup Modifiers /\ orphans \subseteq pressed
  /\ dropped \in BOOLEAN
  /\ lit \in BOOLEAN /\ lightOn \in BOOLEAN /\ idle \in BOOLEAN
  /\ resync \in BOOLEAN
  /\ away \in {"here", "leaving", "away"}

(* The host plays with the player's controller and with nothing else: it   *)
(* knows the controller as it is, but for changes that were stored in a    *)
(* round that saw HOME; and in the view-only mode "no input will be sent   *)
(* to the host computer" (n3ds_main.cpp:2082), whatever handler the menu   *)
(* leads to.                                                               *)
HostPlaysThePad ==
  /\ config.viewOnly => hostPad = {} /\ pressed = {}
  /\ ~dropped /\ pc # "over" =>
       hostPad = IF config.triggersMouse THEN pad \ Triggers ELSE pad

(* Nothing the touch screen pressed outlives the touch: when the finger is *)
(* up and its last round is over, the touch screen holds no button of the  *)
(* controller, and the host has down what the triggers hold and what the   *)
(* code is known to leave: the press of a handler that was replaced under  *)
(* the finger, or that changed its mind, and a trigger let go with HOME.   *)
Triggered ==
  IF config.triggersMouse THEN {Click(k) : k \in Triggers \cap pad} ELSE {}
AtRest == pc = "scan" /\ ~finger
NothingOutlivesTouch ==
  AtRest =>
    /\ published = {}
    /\ pressed \subseteq orphans \cup Triggered

(* During a stream HOME belongs to the program, except in its menu; after  *)
(* the stream HOME and the light of the bottom screen are back.            *)
HomeIsMenus ==
  IF pc = "over" THEN homeAllowed /\ lit ELSE homeAllowed <=> mode = Menu

(* Who touches the screen gets to see it, whatever the suspensions did to  *)
(* the backlight.                                                          *)
LitForThePlayer ==
  (finger /\ pc # "over") ~> (lit \/ away # "here" \/ pc = "over")
=============================================================================
